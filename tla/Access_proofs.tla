----------------------------- MODULE Access_proofs ------------------------------
(* Theorems about Access and the device table behind it, for any number of        *)
(* accounts, clients, proxies, threads, sessions and devices.                    *)
EXTENDS Access, FiniteSetTheorems, SequenceTheorems, TLAPS

--------------------------------------------------------------------------------
(* Where a request is from: as long as the setting counts the proxies there are,   *)
(* whatever a client claims in the header leaves its address what it is.         *)
THEOREM AddressIsOwn ==
  ASSUME NEW h \in Hosts, NEW claim \in Claims PROVE AddressOf(h, claim) = h
<1> DEFINE n == Len(Proxies)
           way == SubSeq(Path(h), 1, n)
<1>1. /\ n \in Nat /\ h \in Addresses /\ claim \in Seq(Addresses) /\ Len(claim) \in Nat
  BY HopsAssumption
<1>2. /\ Path(h) \in Seq(Addresses) /\ Len(Path(h)) = n + 1 /\ Path(h)[1] = h
  BY <1>1, HopsAssumption DEF Path
<1>3. CASE n = 0
  BY <1>1, <1>2, <1>3, HopsAssumption DEF AddressOf, ClientAddress, Remote
<1>4. CASE n > 0
  <2>1. way \in Seq(Addresses) /\ Len(way) = n /\ way[1] = h
    BY <1>1, <1>2, <1>4
  <2>2. Len(Forwarded(h, claim)) = Len(claim) + n /\ Forwarded(h, claim)[Len(claim) + 1] = h
    <3> HIDE DEF way, n
    <3>1. Forwarded(h, claim) = claim \o way
      BY DEF Forwarded, way, n
    <3>2. /\ Len(claim \o way) = Len(claim) + Len(way)
          /\ \A i \in 1..Len(claim) + Len(way) :
               (claim \o way)[i] = IF i <= Len(claim) THEN claim[i] ELSE way[i - Len(claim)]
      BY <1>1, <2>1, ConcatProperties
    <3>3. Len(claim) + 1 \in 1..Len(claim) + Len(way) /\ ~(Len(claim) + 1 <= Len(claim))
      BY <1>1, <1>4, <2>1
    <3>4. (claim \o way)[Len(claim) + 1] = way[Len(claim) + 1 - Len(claim)]
      BY <3>2, <3>3
    <3>5. Len(claim) + 1 - Len(claim) = 1
      BY <1>1
    <3> QED BY <2>1, <3>1, <3>2, <3>4, <3>5
  <2>3. Len(Forwarded(h, claim)) - TrustedHops + 1 = Len(claim) + 1
    BY <1>1, <2>2, HopsAssumption
  <2> QED
    BY <1>1, <1>4, <2>2, <2>3, HopsAssumption DEF AddressOf, ClientAddress
<1> QED
  BY <1>1, <1>3, <1>4

--------------------------------------------------------------------------------
(* The device table.                                                             *)

(* A configuration that no other has overtaken works on the row there is.        *)
ReadsAreFresh ==
  \A r \in Requests : open[r] # None /\ ~open[r].stale => open[r].read = rows[open[r].key]

(* What is saved of a device that does not exist: nothing.                       *)
SaidOfRows == \A k \in Keys : k \notin DOMAIN rows =>
                said[k] = [caption |-> Nothing, kind |-> Nothing]

(* SettingsAsSaid, a row at a time.                                              *)
RowsAsSaid ==
  \A k \in DOMAIN rows :
    /\ <<k, "caption">> \notin undone => rows[k].caption \in LastCaptions(k)
    /\ <<k, "kind">> \notin undone => rows[k].kind \in LastKinds(k)

DInv == DeviceTypeOK /\ ReadsAreFresh /\ SaidOfRows /\ RowsAsSaid

LEMMA InitDInv == DeviceInit => DInv
BY FieldsAssumption DEF DeviceInit, DInv, DeviceTypeOK, ReadsAreFresh, SaidOfRows, RowsAsSaid,
   Body, Keys, Fields

(* Creating a row on first mention.                                              *)
LEMMA CreatedKeeps ==
  ASSUME DInv, NEW k \in Keys, rows' = Created(k)
  PROVE  /\ DOMAIN rows' = DOMAIN rows \cup {k} /\ DOMAIN rows' \subseteq Keys
         /\ rows' \in [DOMAIN rows' -> Row]
         /\ \A j \in DOMAIN rows : rows'[j] = rows[j]
         /\ k \notin DOMAIN rows => rows'[k] = FirstRow
<1>1. FirstRow \in Row
  BY DEF FirstRow, Row
<1> QED
  BY <1>1 DEF DInv, DeviceTypeOK, Created

(* A row that is new has nothing said of it.                                     *)
LEMMA CreatedAsSaid ==
  ASSUME DInv, NEW k \in Keys, rows' = Created(k), UNCHANGED <<said, undone>>
  PROVE  SaidOfRows' /\ RowsAsSaid'
<1>1. SaidOfRows'
  BY CreatedKeeps DEF DInv, SaidOfRows
<1>2. ASSUME NEW j \in DOMAIN rows'
      PROVE  /\ <<j, "caption">> \notin undone' => rows'[j].caption \in LastCaptions(j)'
             /\ <<j, "kind">> \notin undone' => rows'[j].kind \in LastKinds(j)'
  <2>1. LastCaptions(j)' = LastCaptions(j) /\ LastKinds(j)' = LastKinds(j)
    BY DEF LastCaptions, LastKinds, Or
  <2>2. CASE j \in DOMAIN rows
    BY <2>1, <2>2, CreatedKeeps DEF DInv, RowsAsSaid
  <2>3. CASE j \notin DOMAIN rows
    <3>1. rows'[j] = FirstRow /\ said[j].caption = Nothing /\ said[j].kind = Nothing
      <4>1. j = k /\ rows'[k] = FirstRow
        BY <1>2, <2>3, CreatedKeeps
      <4>2. said[k] = [caption |-> Nothing, kind |-> Nothing]
        BY <2>3, <4>1 DEF DInv, SaidOfRows
      <4> QED
        BY <4>1, <4>2
    <3> QED
      BY <2>1, <3>1 DEF FirstRow, LastCaptions, LastKinds, Or
  <2> QED BY <2>2, <2>3
<1> QED
  BY <1>1, <1>2 DEF RowsAsSaid

LEMMA MentionDInv ==
  ASSUME DInv, NEW u \in Users, NEW d \in DeviceIds, Mention(u, d) PROVE DInv'
<1>1. <<u, d>> \in Keys /\ rows' = Created(<<u, d>>) /\ UNCHANGED <<open, said, undone>>
  BY DEF Mention, Keys
<1>2. DeviceTypeOK'
  BY <1>1, CreatedKeeps DEF DInv, DeviceTypeOK
<1>3. ReadsAreFresh'
  BY <1>1, CreatedKeeps DEF DInv, DeviceTypeOK, ReadsAreFresh
<1> QED
  BY <1>1, <1>2, <1>3, CreatedAsSaid DEF DInv

LEMMA NoneNotOpen == None \notin Open
BY FieldsAssumption

(* What a configuration has in hand once it has read its row.                     *)
LEMMA ReadOpens ==
  ASSUME DInv, NEW r \in Requests, NEW u \in Users, NEW d \in DeviceIds, NEW body \in Body,
         ReadRow(r, u, d, body)
  PROVE  LET c == [key |-> <<u, d>>, read |-> rows'[<<u, d>>], body |-> body, stale |-> FALSE]
         IN  c \in Open /\ c # None
<1>1. <<u, d>> \in Keys /\ rows' = Created(<<u, d>>)
  BY DEF ReadRow, Keys
<1>2. rows'[<<u, d>>] \in Row
  BY <1>1, CreatedKeeps
<1> DEFINE c == [key |-> <<u, d>>, read |-> rows'[<<u, d>>], body |-> body, stale |-> FALSE]
<1>3. c \in Open
  BY <1>1, <1>2 DEF Open
<1> QED
  BY <1>3, NoneNotOpen

LEMMA ReadDInv ==
  ASSUME DInv, NEW r \in Requests, NEW u \in Users, NEW d \in DeviceIds, NEW body \in Body,
         ReadRow(r, u, d, body)
  PROVE  DInv'
<1> DEFINE k == <<u, d>>
           c == [key |-> k, read |-> rows'[k], body |-> body, stale |-> FALSE]
<1>1. k \in Keys /\ rows' = Created(k) /\ open' = [open EXCEPT ![r] = c]
      /\ UNCHANGED <<said, undone>>
  BY DEF ReadRow, Keys
<1>2. rows'[k] \in Row /\ k \in DOMAIN rows'
  BY <1>1, CreatedKeeps
<1>3. c \in Open /\ c # None
  BY ReadOpens
<1> HIDE DEF k
<1>4. DeviceTypeOK'
  BY <1>1, <1>2, <1>3, CreatedKeeps DEF DInv, DeviceTypeOK
<1>5. ReadsAreFresh'
  BY <1>1, <1>3, CreatedKeeps DEF DInv, DeviceTypeOK, ReadsAreFresh
<1> QED
  BY <1>1, <1>4, <1>5, CreatedAsSaid DEF DInv

LEMMA SaveDInv ==
  ASSUME DInv, NEW r \in Requests, SaveRow(r) PROVE DInv'
<1>0. PICK c \in Open : open[r] = c /\ c # None
  BY DEF SaveRow, DInv, DeviceTypeOK
<1> DEFINE k == c.key
           overlaid == [caption |-> Or(c.body.caption, said[k].caption),
                        kind    |-> Or(c.body.kind, said[k].kind)]
<1>1. /\ c \in Open /\ k \in DOMAIN rows /\ k \in Keys /\ k[2] \in DeviceIds
      /\ c.read \in Row /\ c.body \in Body /\ said[k] \in Body
  BY <1>0 DEF SaveRow, DInv, DeviceTypeOK, Open, Keys
<1>2. /\ rows' = [rows EXCEPT ![k] = Merged(c)]
      /\ said' = [said EXCEPT ![k] = overlaid]
      /\ \A q \in Requests : open'[q] \in {None, open[q], [open[q] EXCEPT !.stale = TRUE]}
      /\ open' \in [Requests -> Open \cup {None}]
  <2>1. /\ rows' = [rows EXCEPT ![k] = Merged(c)]
        /\ said' = [said EXCEPT ![k] = overlaid]
    BY <1>0, <1>1 DEF SaveRow, DInv, DeviceTypeOK
  <2>2. \A q \in Requests : open[q] # None => [open[q] EXCEPT !.stale = TRUE] \in Open
    BY DEF DInv, DeviceTypeOK, Open
  <2>3. open' = [q \in Requests |->
           IF q = r THEN None
           ELSE IF open[q] # None /\ open[q].key = c.key THEN [open[q] EXCEPT !.stale = TRUE]
           ELSE open[q]]
    BY <1>0 DEF SaveRow
  <2> QED
    BY <2>1, <2>2, <2>3 DEF DInv, DeviceTypeOK
<1>3. Merged(c) \in Row /\ overlaid \in Body
  BY <1>0, <1>1 DEF Merged, Or, Row, Body
<1>4. undone' \subseteq Keys \X Fields
  BY <1>0, <1>1 DEF SaveRow, DInv, DeviceTypeOK, Fields
<1>5. DOMAIN rows' = DOMAIN rows /\ rows' \in [DOMAIN rows' -> Row] /\ said' \in [Keys -> Body]
  BY <1>0, <1>1, <1>2, <1>3 DEF DInv, DeviceTypeOK
<1>6. ASSUME NEW q \in Requests, open'[q] # None
      PROVE  /\ open[q] # None /\ open'[q].key = open[q].key /\ open'[q].read = open[q].read
             /\ q # r /\ (~open'[q].stale => ~open[q].stale /\ open[q].key # k)
             /\ open'[q].key \in DOMAIN rows'
  <2>1. open[q] # None /\ open[q] \in Open /\ open[q].key \in DOMAIN rows
    BY <1>0, <1>2, <1>6 DEF SaveRow, DInv, DeviceTypeOK
  <2>2. q # r /\ open'[q] = IF open[q].key = c.key THEN [open[q] EXCEPT !.stale = TRUE] ELSE open[q]
    BY <1>0, <1>6, <2>1 DEF SaveRow
  <2> QED
    BY <1>5, <2>1, <2>2 DEF Open
<1>7. DeviceTypeOK'
  BY <1>2, <1>4, <1>5, <1>6 DEF DInv, DeviceTypeOK
<1>8. ReadsAreFresh'
  BY <1>0, <1>1, <1>2, <1>6 DEF DInv, ReadsAreFresh, DeviceTypeOK
<1>9. SaidOfRows'
  BY <1>0, <1>1, <1>2, <1>5 DEF DInv, SaidOfRows, DeviceTypeOK
<1>10. RowsAsSaid'
  <2> SUFFICES ASSUME NEW j \in DOMAIN rows'
               PROVE  /\ <<j, "caption">> \notin undone' => rows'[j].caption \in LastCaptions(j)'
                      /\ <<j, "kind">> \notin undone' => rows'[j].kind \in LastKinds(j)'
    BY DEF RowsAsSaid
  <2>1. j \in DOMAIN rows /\ j \in Keys
    BY <1>5 DEF DInv, DeviceTypeOK
  <2>2. CASE j # k
    <3>1. rows'[j] = rows[j] /\ said'[j] = said[j]
      BY <1>0, <1>1, <1>2, <2>1, <2>2 DEF DInv, DeviceTypeOK
    <3>2. \A f : <<j, f>> \in undone <=> <<j, f>> \in undone'
      BY <1>0, <2>2 DEF SaveRow
    <3> QED
      BY <2>1, <3>1, <3>2 DEF DInv, RowsAsSaid, LastCaptions, LastKinds, Or
  <2>3. CASE j = k
    <3>1. /\ rows'[k].caption = Or(c.body.caption, Or(c.read.caption, k[2]))
          /\ rows'[k].kind = Or(c.body.kind, Or(c.read.kind, Other))
          /\ said'[k].caption = Or(c.body.caption, said[k].caption)
          /\ said'[k].kind = Or(c.body.kind, said[k].kind)
      BY <1>0, <1>1, <1>2 DEF Merged, DInv, DeviceTypeOK
    <3>2. k[2] # Nothing /\ Other # Nothing /\ c.read.kind # Nothing
      BY <1>0, <1>1, FieldsAssumption DEF Row
    <3>3. ASSUME c.body.caption = Nothing, <<k, "caption">> \notin undone'
          PROVE  rows[k].caption = c.read.caption /\ <<k, "caption">> \notin undone
      BY <1>0, <1>1, <3>3 DEF SaveRow, DInv, ReadsAreFresh, Fields
    <3>4. ASSUME c.body.kind = Nothing, <<k, "kind">> \notin undone'
          PROVE  rows[k].kind = c.read.kind /\ <<k, "kind">> \notin undone
      BY <1>0, <1>1, <3>4 DEF SaveRow, DInv, ReadsAreFresh, Fields
    <3>5. <<k, "caption">> \notin undone' => rows'[k].caption \in LastCaptions(k)'
      BY <1>0, <1>1, <3>1, <3>2, <3>3 DEF DInv, RowsAsSaid, LastCaptions, Or
    <3>6. <<k, "kind">> \notin undone' => rows'[k].kind \in LastKinds(k)'
      BY <1>0, <1>1, <3>1, <3>2, <3>4 DEF DInv, RowsAsSaid, LastKinds, Or
    <3> QED
      BY <2>3, <3>5, <3>6
  <2> QED BY <2>2, <2>3
<1> QED
  BY <1>7, <1>8, <1>9, <1>10 DEF DInv

--------------------------------------------------------------------------------
(* The door.  Every step of Access is one of three kinds for the device table.    *)
LEMMA DeviceFrame == DInv /\ UNCHANGED deviceVars => DInv'
BY DEF DInv, deviceVars, DeviceTypeOK, ReadsAreFresh, SaidOfRows, RowsAsSaid, LastCaptions,
       LastKinds, Or

(* The invariant of the door: shapes apart from the device table's, what a request *)
(* that is somewhere has with it, what the counters say of each other, and whose  *)
(* session a request runs in.                                                    *)
Work == [step : Steps, login : BOOLEAN, key : (Names \X Addresses) \cup {None},
         host : Hosts \cup {None}, account : Users \cup {None}, session : Sessions \cup {None}]

DoorTypeOK ==
  /\ failures \in [Names \X Addresses -> 0..Limit]
  /\ misses \in [Names \X Hosts -> 0..Limit]
  /\ guesses \in [Names \X Addresses -> Nat]
  /\ owner \in [Sessions -> Users \cup {Anonymous, Unused, Gone}]
  /\ work \in [Requests -> Work]

Carried ==
  \A t \in Requests :
    /\ work[t].step = "checking" => \E name \in Names, h \in Hosts :
                                      work[t].host = h /\ work[t].key = <<name, h>>
    /\ work[t].step = "acting" => work[t].account \in Users
    /\ work[t].step = "saving" <=> open[t] # None

OwnCounts ==
  \A name \in Names, a \in Addresses :
    failures[<<name, a>>] > 0 => a \in Hosts /\ failures[<<name, a>>] <= misses[<<name, a>>]

InSession ==
  \A t \in Requests : work[t].step = "acting" /\ work[t].session # None =>
    owner[work[t].session] \in {work[t].account, Gone}

DoorInv == DoorTypeOK /\ Carried /\ OwnCounts /\ InSession

(* The account a request acts for is one its step has established.                *)
LEMMA AttemptDoor ==
  ASSUME DoorInv, NEW t \in Requests, NEW login \in BOOLEAN, NEW name \in Names,
         NEW host \in Hosts, NEW claim \in Claims, Attempt(t, login, name, host, claim)
  PROVE  DoorInv'
<1> DEFINE w == [Idle EXCEPT !.step = "checking", !.login = login, !.key = <<name, host>>,
                             !.host = host]
<1>1. work' = [work EXCEPT ![t] = w] /\ work[t] = Idle
      /\ UNCHANGED <<open, failures, misses, guesses, owner>>
  BY AddressIsOwn DEF Attempt, Becomes, deviceVars
<1>2. w \in Work /\ w.step = "checking" /\ w.key = <<name, host>> /\ w.host = host
  BY HopsAssumption DEF Idle, Work, Steps
<1> HIDE DEF w
<1>3. \A q \in Requests : work'[q] = IF q = t THEN w ELSE work[q]
  BY <1>1 DEF DoorInv, DoorTypeOK
<1>4. DoorTypeOK'
  BY <1>1, <1>2 DEF DoorInv, DoorTypeOK
<1>5. Carried'
  BY <1>1, <1>2, <1>3 DEF DoorInv, Carried, Idle
<1> QED
  BY <1>1, <1>2, <1>3, <1>4, <1>5 DEF DoorInv, OwnCounts, InSession

(* A request that has ended has nothing with it any more.                         *)
LEMMA EndKeeps ==
  ASSUME DoorInv, NEW t \in Requests, Becomes(t, Idle),
         \A q \in Requests \ {t} : open'[q] # None <=> open[q] # None, open'[t] = None
  PROVE  /\ work' \in [Requests -> Work] /\ Carried'
         /\ \A q \in Requests : work'[q].step # "idle" => q # t /\ work'[q] = work[q]
<1>1. Idle \in Work /\ Idle.step = "idle"
  BY DEF Idle, Work, Steps
<1>2. \A q \in Requests : work'[q] = IF q = t THEN Idle ELSE work[q]
  BY DEF DoorInv, DoorTypeOK, Becomes
<1> QED
  BY <1>1, <1>2 DEF DoorInv, DoorTypeOK, Becomes, Carried

(* A session that ends leaves the requests in it where they are.                  *)
LEMMA SessionsEnd ==
  ASSUME DoorInv, NEW s \in Sessions, owner' = [owner EXCEPT ![s] = Gone],
         UNCHANGED <<open, failures, misses, guesses, work>>
  PROVE  DoorInv'
BY DEF DoorInv, DoorTypeOK, Carried, OwnCounts, InSession

LEMMA FailDoor ==
  ASSUME DoorInv, NEW t \in Requests, Fail(t) PROVE DoorInv'
<1>1. PICK name \in Names, h \in Hosts : work[t].host = h /\ work[t].key = <<name, h>>
  BY DEF Fail, DoorInv, Carried
<1>2. /\ failures' = [failures EXCEPT ![<<name, h>>] = UpTo(Limit, failures[<<name, h>>] + 1)]
      /\ misses' = [misses EXCEPT ![<<name, h>>] = UpTo(Limit, misses[<<name, h>>] + 1)]
      /\ guesses' = [guesses EXCEPT ![<<name, h>>] = guesses[<<name, h>>] + 1]
      /\ <<name, h>> \in Names \X Addresses
      /\ Becomes(t, Idle) /\ UNCHANGED <<open, owner>>
  BY <1>1, HopsAssumption DEF Fail, deviceVars
<1>3. open[t] = None
  BY DEF Fail, DoorInv, Carried
<1>4. /\ work' \in [Requests -> Work] /\ Carried'
      /\ \A q \in Requests : work'[q].step # "idle" => q # t /\ work'[q] = work[q]
  BY <1>2, <1>3, EndKeeps
<1>5. DoorTypeOK'
  BY <1>2, <1>4, LimitAssumption DEF DoorInv, DoorTypeOK, UpTo
<1>6. OwnCounts'
  BY <1>2, LimitAssumption DEF DoorInv, DoorTypeOK, OwnCounts, UpTo
<1> QED
  BY <1>2, <1>4, <1>5, <1>6 DEF DoorInv, InSession

LEMMA CoolOffDoor ==
  ASSUME DoorInv, NEW key \in Names \X Addresses, CoolOff(key) PROVE DoorInv'
BY LimitAssumption DEF CoolOff, deviceVars, DoorInv, DoorTypeOK, Carried, OwnCounts, InSession

(* What login does to the sessions: each stays, ends, or is handed out.           *)
LEMMA StartedSessions ==
  ASSUME DoorInv, NEW u \in Users, NEW cookie \in Sessions \cup {None}, StartSession(u, cookie)
  PROVE  /\ owner' \in [Sessions -> Users \cup {Anonymous, Unused, Gone}]
         /\ \A s \in Sessions : owner'[s] # owner[s] => owner[s] = Unused \/ owner'[s] = Gone
BY DEF StartSession, Keeps, Live, DoorInv, DoorTypeOK

LEMMA LoginDoor ==
  ASSUME DoorInv, NEW t \in Requests, NEW cookie \in Sessions \cup {None}, Login(t, cookie)
  PROVE  DoorInv'
<1> DEFINE u == work[t].key[1]
<1>0. work[t].key \in Names \X Addresses /\ open[t] = None
  <2>1. PICK name \in Names, h \in Hosts : work[t].key = <<name, h>>
    BY DEF Login, DoorInv, Carried
  <2>2. open[t] = None
    BY DEF Login, DoorInv, Carried
  <2> QED
    BY <2>1, <2>2, HopsAssumption
<1>1. /\ u \in Users /\ StartSession(u, cookie) /\ work[t].key \in Names \X Addresses
      /\ failures' = [failures EXCEPT ![work[t].key] = 0]
      /\ guesses' = [guesses EXCEPT ![work[t].key] = 0]
      /\ Becomes(t, Idle) /\ UNCHANGED <<open, misses>> /\ open[t] = None
  BY <1>0 DEF Login, deviceVars
<1>2. /\ work' \in [Requests -> Work] /\ Carried'
      /\ \A q \in Requests : work'[q].step # "idle" => q # t /\ work'[q] = work[q]
  BY <1>1, EndKeeps
<1>3. /\ owner' \in [Sessions -> Users \cup {Anonymous, Unused, Gone}]
      /\ \A s \in Sessions : owner'[s] # owner[s] => owner[s] = Unused \/ owner'[s] = Gone
  BY <1>1, StartedSessions
<1>4. DoorTypeOK'
  BY <1>1, <1>2, <1>3, LimitAssumption DEF DoorInv, DoorTypeOK
<1>5. OwnCounts'
  BY <1>1 DEF DoorInv, DoorTypeOK, OwnCounts
<1>6. InSession'
  BY <1>2, <1>3, OwnersAssumption DEF DoorInv, DoorTypeOK, Work, Carried, InSession
<1> QED
  BY <1>2, <1>4, <1>5, <1>6 DEF DoorInv

LEMMA MismatchDoor ==
  ASSUME DoorInv, NEW t \in Requests, Mismatch(t) PROVE DoorInv'
<1>1. Becomes(t, Idle) /\ open[t] = None /\ UNCHANGED <<open, failures, misses, guesses, owner>>
  BY DEF Mismatch, DoorInv, Carried, deviceVars
<1> QED
  BY <1>1, EndKeeps DEF DoorInv, DoorTypeOK, OwnCounts, InSession

LEMMA EnterDoor ==
  ASSUME DoorInv, NEW t \in Requests, Enter(t) PROVE DoorInv'
<1> DEFINE w == [Idle EXCEPT !.step = "acting", !.account = work[t].key[1]]
<1>1. w \in Work /\ w.step = "acting" /\ w.account \in Users /\ w.session = None
  BY DEF Enter, Idle, Work, Steps
<1>2. /\ \A q \in Requests : work'[q] = IF q = t THEN w ELSE work[q]
      /\ work' \in [Requests -> Work]
  BY <1>1 DEF Enter, Becomes, DoorInv, DoorTypeOK
<1>3. work[t].step = "checking" /\ UNCHANGED <<open, failures, misses, guesses, owner>>
  BY DEF Enter, deviceVars
<1> HIDE DEF w
<1> QED
  BY <1>1, <1>2, <1>3 DEF DoorInv, DoorTypeOK, Carried, OwnCounts, InSession

LEMMA ResumeDoor ==
  ASSUME DoorInv, NEW t \in Requests, NEW s \in Sessions, Resume(t, s) PROVE DoorInv'
<1> DEFINE w == [Idle EXCEPT !.step = "acting", !.account = owner[s], !.session = s]
<1>1. w \in Work /\ w.step = "acting" /\ w.account = owner[s] /\ w.session = s
  BY DEF Resume, Idle, Work, Steps
<1>2. /\ \A q \in Requests : work'[q] = IF q = t THEN w ELSE work[q]
      /\ work' \in [Requests -> Work]
  BY <1>1 DEF Resume, Becomes, DoorInv, DoorTypeOK
<1>3. /\ work[t].step = "idle" /\ owner[s] \in Users
      /\ UNCHANGED <<open, failures, misses, guesses, owner>>
  BY DEF Resume, Idle, deviceVars
<1> HIDE DEF w
<1> QED
  BY <1>1, <1>2, <1>3 DEF DoorInv, DoorTypeOK, Carried, OwnCounts, InSession

LEMMA ExpireDoor ==
  ASSUME DoorInv, NEW s \in Sessions, Expire(s) PROVE DoorInv'
BY SessionsEnd DEF Expire, deviceVars

(* What the end of a request does to the sessions.                                *)
LEMMA SyncedSessions ==
  ASSUME DoorInv, NEW t \in Requests, NEW d \in DeviceIds, Sync(t, d)
  PROVE  /\ owner' \in [Sessions -> Users \cup {Anonymous, Unused, Gone}]
         /\ \A s \in Sessions : owner'[s] # owner[s] => owner[s] = Unused
<1>1. CASE UNCHANGED owner
  BY <1>1 DEF DoorInv, DoorTypeOK
<1>2. CASE owner' = StoredBack(t)
  <2>1. /\ work[t].step = "acting" /\ work[t].account \in Users
        /\ work[t].session \in Sessions \cup {None}
    BY DEF Sync, DoorInv, DoorTypeOK, Carried, Work
  <2>2. work[t].session # None => owner[work[t].session] \in {work[t].account, Gone}
    BY <2>1 DEF DoorInv, InSession
  <2> QED
    BY <1>2, <2>1, <2>2 DEF StoredBack, DoorInv, DoorTypeOK
<1> QED
  BY <1>1, <1>2 DEF Sync

LEMMA SyncDoor ==
  ASSUME DoorInv, NEW t \in Requests, NEW d \in DeviceIds, Sync(t, d) PROVE DoorInv'
<1>1. /\ Becomes(t, Idle) /\ open[t] = None /\ UNCHANGED <<open, failures, misses, guesses>>
  BY DEF Sync, Mention, DoorInv, Carried
<1>2. /\ work' \in [Requests -> Work] /\ Carried'
      /\ \A q \in Requests : work'[q].step # "idle" => q # t /\ work'[q] = work[q]
  BY <1>1, EndKeeps
<1>3. InSession'
  BY <1>2, SyncedSessions, OwnersAssumption DEF DoorInv, DoorTypeOK, Work, Carried, InSession
<1> QED
  BY <1>1, <1>2, <1>3, SyncedSessions DEF DoorInv, DoorTypeOK, OwnCounts

LEMMA ConfigureDoor ==
  ASSUME DInv, DoorInv, NEW t \in Requests, NEW d \in DeviceIds, NEW body \in Body,
         Configure(t, d, body)
  PROVE  DoorInv'
<1> DEFINE w == [Idle EXCEPT !.step = "saving"]
<1>1. w \in Work /\ w.step = "saving"
  BY DEF Idle, Work, Steps
<1>2. /\ \A q \in Requests : work'[q] = IF q = t THEN w ELSE work[q]
      /\ work' \in [Requests -> Work]
  BY <1>1 DEF Configure, Becomes, DoorInv, DoorTypeOK
<1>3. /\ UNCHANGED <<failures, misses, guesses, owner>>
      /\ \A q \in Requests \ {t} : open'[q] = open[q]
      /\ open'[t] # None /\ work[t].step = "acting"
  <2>1. /\ work[t].account \in Users /\ ReadRow(t, work[t].account, d, body)
        /\ work[t].step = "acting"
        /\ UNCHANGED <<failures, misses, guesses, owner>>
    BY DEF Configure, DoorInv, Carried
  <2> QED
    BY <2>1, ReadOpens DEF ReadRow, DInv, DeviceTypeOK
<1> HIDE DEF w
<1> QED
  BY <1>1, <1>2, <1>3 DEF DoorInv, DoorTypeOK, Carried, OwnCounts, InSession

LEMMA SaveDoor ==
  ASSUME DInv, DoorInv, NEW t \in Requests, Save(t) PROVE DoorInv'
<1>1. /\ Becomes(t, Idle) /\ open'[t] = None /\ UNCHANGED <<failures, misses, guesses, owner>>
      /\ \A q \in Requests \ {t} : (open'[q] # None) <=> (open[q] # None)
  <2>1. SaveRow(t) /\ Becomes(t, Idle) /\ UNCHANGED <<failures, misses, guesses, owner>>
    BY DEF Save
  <2>2. \A q \in Requests : open[q] # None => [open[q] EXCEPT !.stale = TRUE] \in Open
    BY DEF DInv, DeviceTypeOK, Open
  <2> QED
    BY <2>1, <2>2, NoneNotOpen DEF SaveRow
<1>2. /\ work' \in [Requests -> Work] /\ Carried'
      /\ \A q \in Requests : work'[q].step # "idle" => q # t /\ work'[q] = work[q]
  BY <1>1, EndKeeps
<1> QED
  BY <1>1, <1>2 DEF DoorInv, DoorTypeOK, OwnCounts, InSession

(* Both together are inductive.                                                   *)
AInv == DInv /\ DoorInv

LEMMA InitAInv == AccessInit => AInv
<1> SUFFICES ASSUME AccessInit PROVE AInv
  OBVIOUS
<1>1. Idle \in Work /\ Idle.step = "idle"
  BY DEF Idle, Work, Steps
<1>2. DInv
  BY InitDInv DEF AccessInit
<1>3. DoorTypeOK
  BY <1>1, LimitAssumption DEF AccessInit, DoorTypeOK
<1>4. Carried /\ OwnCounts /\ InSession
  BY <1>1 DEF AccessInit, DeviceInit, Carried, OwnCounts, InSession
<1> QED
  BY <1>2, <1>3, <1>4 DEF AInv, DoorInv

LEMMA NextAInv == AInv /\ [AccessNext]_accessVars => AInv'
<1> SUFFICES ASSUME AInv, [AccessNext]_accessVars PROVE AInv'
  OBVIOUS
<1> USE DEF AInv
<1>1. ASSUME NEW t \in Requests, NEW login \in BOOLEAN, NEW name \in Names,
             NEW host \in Hosts, NEW claim \in Claims, Attempt(t, login, name, host, claim)
      PROVE  AInv'
  BY <1>1, AttemptDoor, DeviceFrame DEF Attempt
<1>2. ASSUME NEW t \in Requests, Fail(t) PROVE AInv'
  BY <1>2, FailDoor, DeviceFrame DEF Fail
<1>3. ASSUME NEW t \in Requests, Mismatch(t) PROVE AInv'
  BY <1>3, MismatchDoor, DeviceFrame DEF Mismatch
<1>4. ASSUME NEW t \in Requests, Enter(t) PROVE AInv'
  BY <1>4, EnterDoor, DeviceFrame DEF Enter
<1>5. ASSUME NEW t \in Requests, Save(t) PROVE AInv'
  BY <1>5, SaveDoor, SaveDInv DEF Save
<1>6. ASSUME NEW t \in Requests, NEW cookie \in Sessions \cup {None}, Login(t, cookie)
      PROVE  AInv'
  BY <1>6, LoginDoor, DeviceFrame DEF Login
<1>7. ASSUME NEW t \in Requests, NEW s \in Sessions, Resume(t, s) PROVE AInv'
  BY <1>7, ResumeDoor, DeviceFrame DEF Resume
<1>8. ASSUME NEW t \in Requests, NEW d \in DeviceIds, Sync(t, d) PROVE AInv'
  <2>1. work[t].account \in Users /\ Mention(work[t].account, d)
    BY <1>8 DEF Sync, DoorInv, Carried
  <2> QED
    BY <1>8, <2>1, SyncDoor, MentionDInv
<1>9. ASSUME NEW t \in Requests, NEW d \in DeviceIds, NEW body \in Body, Configure(t, d, body)
      PROVE  AInv'
  <2>1. work[t].account \in Users /\ ReadRow(t, work[t].account, d, body)
    BY <1>9 DEF Configure, DoorInv, Carried
  <2> QED
    BY <1>9, <2>1, ConfigureDoor, ReadDInv
<1>10. ASSUME NEW key \in Names \X Addresses, CoolOff(key) PROVE AInv'
  BY <1>10, CoolOffDoor, DeviceFrame DEF CoolOff
<1>11. ASSUME NEW s \in Sessions, Expire(s) PROVE AInv'
  BY <1>11, ExpireDoor, DeviceFrame DEF Expire
<1>12. CASE UNCHANGED accessVars
  <2>1. DInv'
    BY <1>12, DeviceFrame DEF accessVars
  <2>2. DoorInv'
    BY <1>12 DEF accessVars, deviceVars, DoorInv, DoorTypeOK, Carried, OwnCounts, InSession
  <2> QED BY <2>1, <2>2
<1> QED
  BY <1>1, <1>2, <1>3, <1>4, <1>5, <1>6, <1>7, <1>8, <1>9, <1>10, <1>11, <1>12 DEF AccessNext

LEMMA AlwaysAInv == AccessSpec => []AInv
BY InitAInv, NextAInv, PTL DEF AccessSpec

(* Shapes; a request acts for an account or for nobody, and saves what it has      *)
(* opened.                                                                       *)
THEOREM AccessTypes == AccessSpec => []AccessTypeOK
<1>1. AInv => AccessTypeOK
  <2> SUFFICES ASSUME AInv PROVE AccessTypeOK
    OBVIOUS
  <2>1. ASSUME NEW t \in Requests, work[t].step = "checking" PROVE work[t].key # None
    <3>1. PICK name \in Names, h \in Hosts : work[t].key = <<name, h>>
      BY <2>1 DEF AInv, DoorInv, Carried
    <3> QED
      BY <3>1, HopsAssumption, OwnersAssumption
  <2>2. \A t \in Requests : work[t].step = "acting" => work[t].account # None
    BY OwnersAssumption DEF AInv, DoorInv, Carried
  <2> QED
    BY <2>1, <2>2 DEF AInv, DInv, DoorInv, DoorTypeOK, Work, Carried, AccessTypeOK
<1> QED
  BY AlwaysAInv, <1>1, PTL

(* A device is listed with what was last said of it, unless a configuration that   *)
(* had read the row before another saved it has put back an older value.         *)
THEOREM ConfigurationsKept == AccessSpec => []SettingsAsSaid
<1>1. AInv => SettingsAsSaid
  <2> SUFFICES ASSUME AInv, NEW u \in Users, NEW k \in DOMAIN rows, k[1] = u
               PROVE  LET j == <<u, k[2]>>
                      IN  /\ <<j, "caption">> \notin undone => rows[k].caption \in LastCaptions(j)
                          /\ <<j, "kind">> \notin undone => rows[k].kind \in LastKinds(j)
    BY DEF SettingsAsSaid, Listed
  <2>1. k = <<u, k[2]>>
    BY DEF AInv, DInv, DeviceTypeOK, Keys
  <2> QED
    BY <2>1 DEF AInv, DInv, RowsAsSaid
<1> QED
  BY AlwaysAInv, <1>1, PTL

(* A key is locked only by failures for its own name from its own address.        *)
THEOREM LockedByOwnFailures == AccessSpec => []OwnFailuresOnly
<1>1. AInv => OwnFailuresOnly
  <2> SUFFICES ASSUME AInv, NEW name \in Names, NEW a \in Addresses, Locked(<<name, a>>)
               PROVE  a \in Hosts /\ misses[<<name, a>>] = Limit
    BY DEF OwnFailuresOnly
  <2>1. failures[<<name, a>>] \in 0..Limit /\ failures[<<name, a>>] >= Limit
    BY DEF Locked, AInv, DoorInv, DoorTypeOK
  <2>2. a \in Hosts /\ Limit <= misses[<<name, a>>]
    BY <2>1, LimitAssumption DEF AInv, DoorInv, OwnCounts
  <2>3. misses[<<name, a>>] \in 0..Limit
    BY <2>2 DEF AInv, DoorInv, DoorTypeOK
  <2> QED
    BY <2>2, <2>3, LimitAssumption
<1> QED
  BY AlwaysAInv, <1>1, PTL

(* A session key names one account from the login that hands it out to its end.   *)
THEOREM SessionsNeverChangeHands == AccessSpec => SessionsKeepTheirAccount
<1> DEFINE Kept == \A s \in Sessions : owner'[s] # owner[s] => owner[s] = Unused \/ owner'[s] = Gone
<1>1. AInv /\ [AccessNext]_accessVars => [Kept]_accessVars
  <2> SUFFICES ASSUME AInv, AccessNext PROVE Kept \/ UNCHANGED owner
    BY DEF accessVars
  <2>1. ASSUME NEW t \in Requests, NEW cookie \in Sessions \cup {None}, Login(t, cookie)
        PROVE  Kept
    <3>1. work[t].key[1] \in Users /\ StartSession(work[t].key[1], cookie)
      BY <2>1 DEF Login
    <3> QED
      BY <3>1, StartedSessions DEF AInv
  <2>2. ASSUME NEW t \in Requests, NEW d \in DeviceIds, Sync(t, d) PROVE Kept
    BY <2>2, SyncedSessions DEF AInv
  <2>3. ASSUME NEW s \in Sessions, Expire(s) PROVE Kept
    BY <2>3 DEF Expire, AInv, DoorInv, DoorTypeOK
  <2> QED
    BY <2>1, <2>2, <2>3 DEF AccessNext, Attempt, Fail, CoolOff, Mismatch, Enter, Resume,
       Configure, Save
<1> QED
  BY AlwaysAInv, <1>1, PTL DEF AccessSpec, SessionsKeepTheirAccount

--------------------------------------------------------------------------------
(* How many guesses a lockout admits.                                            *)

InFlight(key) == {t \in Requests : work[t].step = "checking" /\ work[t].key = key}

(* Below the limit the count is true, and every attempt on its way has a thread.  *)
Budget ==
  \A key \in Names \X Addresses :
    /\ failures[key] = UpTo(Limit, guesses[key])
    /\ guesses[key] + Cardinality(InFlight(key)) < Limit + Cardinality(Requests)

LEMMA InFlightSize ==
  ASSUME NEW key
  PROVE  /\ Cardinality(Requests) \in Nat /\ IsFiniteSet(InFlight(key))
         /\ Cardinality(InFlight(key)) \in Nat
         /\ Cardinality(InFlight(key)) <= Cardinality(Requests)
<1>1. InFlight(key) \in SUBSET Requests
  BY DEF InFlight
<1> QED
  BY <1>1, ThreadsAssumption, FS_Subset, FS_CardinalityType

(* A step in which no attempt starts, and guesses of a key only fall, to nothing, or *)
(* rise by one attempt that is over, stays within the budget.                     *)
LEMMA NoNewAttempt ==
  ASSUME NEW key \in Names \X Addresses, Budget,
         guesses \in [Names \X Addresses -> Nat],
         InFlight(key)' \subseteq InFlight(key),
         \/ guesses'[key] = guesses[key] /\ failures'[key] = failures[key]
         \/ guesses'[key] = 0 /\ failures'[key] = 0
  PROVE  /\ failures'[key] = UpTo(Limit, guesses'[key])
         /\ guesses'[key] + Cardinality(InFlight(key)') < Limit + Cardinality(Requests)
<1>1. /\ Cardinality(InFlight(key)') \in Nat
      /\ Cardinality(InFlight(key)') <= Cardinality(InFlight(key))
  BY InFlightSize, FS_Subset, FS_CardinalityType
<1>2. /\ failures[key] = UpTo(Limit, guesses[key]) /\ guesses[key] \in Nat
      /\ guesses[key] + Cardinality(InFlight(key)) < Limit + Cardinality(Requests)
  BY DEF Budget
<1> QED
  BY <1>1, <1>2, InFlightSize, LimitAssumption DEF UpTo

LEMMA InitBudget == AccessInit => Budget
<1> SUFFICES ASSUME AccessInit, NEW key \in Names \X Addresses
             PROVE  /\ failures[key] = UpTo(Limit, guesses[key])
                    /\ guesses[key] + Cardinality(InFlight(key)) < Limit + Cardinality(Requests)
  BY DEF Budget
<1>1. failures[key] = 0 /\ guesses[key] = 0
  BY DEF AccessInit
<1>2. InFlight(key) = {}
  BY DEF AccessInit, InFlight, Idle
<1> QED
  BY <1>1, <1>2, FS_EmptySet, InFlightSize, LimitAssumption DEF UpTo

LEMMA AttemptBudget ==
  ASSUME AInv, Budget, NEW t \in Requests, NEW login \in BOOLEAN, NEW name \in Names,
         NEW host \in Hosts, NEW claim \in Claims, Attempt(t, login, name, host, claim)
  PROVE  Budget'
<1> SUFFICES ASSUME NEW key \in Names \X Addresses
             PROVE  /\ failures'[key] = UpTo(Limit, guesses'[key])
                    /\ guesses'[key] + Cardinality(InFlight(key)') < Limit + Cardinality(Requests)
  BY DEF Budget
<1>1. UNCHANGED <<failures, guesses>> /\ ~Locked(<<name, host>>)
  BY AddressIsOwn DEF Attempt
<1>2. CASE key = <<name, host>>
  <2>1. failures[key] < Limit /\ guesses[key] \in Nat /\ failures[key] = UpTo(Limit, guesses[key])
    BY <1>1, <1>2, LimitAssumption DEF Locked, AInv, DoorInv, DoorTypeOK, Budget
  <2>2. guesses[key] < Limit
    BY <2>1, LimitAssumption DEF UpTo
  <2>3. InFlight(key)' \in SUBSET Requests
    BY DEF InFlight
  <2>4. /\ Cardinality(InFlight(key)') \in Nat
        /\ Cardinality(InFlight(key)') <= Cardinality(Requests)
    BY <2>3, ThreadsAssumption, FS_Subset, FS_CardinalityType
  <2> QED
    BY <1>1, <2>1, <2>2, <2>4, InFlightSize, LimitAssumption
<1>3. CASE key # <<name, host>>
  <2>1. InFlight(key)' \subseteq InFlight(key)
    BY <1>3, AddressIsOwn DEF Attempt, Becomes, Idle, InFlight, AInv, DoorInv, DoorTypeOK
  <2>2. guesses \in [Names \X Addresses -> Nat]
    BY DEF AInv, DoorInv, DoorTypeOK
  <2> QED
    BY <1>1, <2>1, <2>2, NoNewAttempt
<1> QED
  BY <1>2, <1>3

LEMMA FailBudget ==
  ASSUME AInv, Budget, NEW t \in Requests, Fail(t) PROVE Budget'
<1> SUFFICES ASSUME NEW key \in Names \X Addresses
             PROVE  /\ failures'[key] = UpTo(Limit, guesses'[key])
                    /\ guesses'[key] + Cardinality(InFlight(key)') < Limit + Cardinality(Requests)
  BY DEF Budget
<1>1. \A q \in Requests : work'[q] = IF q = t THEN Idle ELSE work[q]
  BY DEF Fail, Becomes, AInv, DoorInv, DoorTypeOK
<1>2. /\ guesses \in [Names \X Addresses -> Nat]
      /\ failures \in [Names \X Addresses -> 0..Limit]
  BY DEF AInv, DoorInv, DoorTypeOK
<1>3. CASE key = work[t].key
  <2>1. InFlight(key)' = InFlight(key) \ {t} /\ t \in InFlight(key)
    BY <1>1, <1>3 DEF InFlight, Fail, Idle
  <2>2. Cardinality(InFlight(key)') = Cardinality(InFlight(key)) - 1
    BY <2>1, InFlightSize, FS_RemoveElement
  <2>3. guesses'[key] = guesses[key] + 1 /\ failures'[key] = UpTo(Limit, failures[key] + 1)
    BY <1>2, <1>3 DEF Fail
  <2>4. /\ failures[key] = UpTo(Limit, guesses[key]) /\ guesses[key] \in Nat
        /\ guesses[key] + Cardinality(InFlight(key)) < Limit + Cardinality(Requests)
    BY <1>2 DEF Budget
  <2> QED
    BY <2>2, <2>3, <2>4, InFlightSize, LimitAssumption DEF UpTo
<1>4. CASE key # work[t].key
  <2>1. InFlight(key)' \subseteq InFlight(key)
    BY <1>1 DEF InFlight, Idle
  <2>2. guesses'[key] = guesses[key] /\ failures'[key] = failures[key]
    BY <1>2, <1>4 DEF Fail
  <2> QED
    BY <1>2, <2>1, <2>2, NoNewAttempt
<1> QED
  BY <1>3, <1>4

LEMMA NextBudget == AInv /\ Budget /\ [AccessNext]_accessVars => Budget'
<1> SUFFICES ASSUME AInv, Budget, [AccessNext]_accessVars PROVE Budget'
  OBVIOUS
<1>1. ASSUME \A t \in Requests : work'[t].step = "checking" => work'[t] = work[t],
             \A key \in Names \X Addresses :
               \/ guesses'[key] = guesses[key] /\ failures'[key] = failures[key]
               \/ guesses'[key] = 0 /\ failures'[key] = 0
      PROVE  Budget'
  <2> SUFFICES ASSUME NEW key \in Names \X Addresses
               PROVE  /\ failures'[key] = UpTo(Limit, guesses'[key])
                      /\ guesses'[key] + Cardinality(InFlight(key)') < Limit + Cardinality(Requests)
    BY DEF Budget
  <2>1. InFlight(key)' \subseteq InFlight(key)
    BY <1>1 DEF InFlight
  <2>2. guesses \in [Names \X Addresses -> Nat]
    BY DEF AInv, DoorInv, DoorTypeOK
  <2> QED
    BY <1>1, <2>1, <2>2, NoNewAttempt
<1>2. ASSUME NEW t \in Requests, NEW w, Becomes(t, w), w.step # "checking"
      PROVE  \A q \in Requests : work'[q].step = "checking" => work'[q] = work[q]
  BY <1>2 DEF Becomes, AInv, DoorInv, DoorTypeOK
<1>3. ASSUME NEW key \in Names \X Addresses,
             failures' = [failures EXCEPT ![key] = 0], guesses' = [guesses EXCEPT ![key] = 0]
      PROVE  \A k \in Names \X Addresses :
               \/ guesses'[k] = guesses[k] /\ failures'[k] = failures[k]
               \/ guesses'[k] = 0 /\ failures'[k] = 0
  BY <1>3 DEF AInv, DoorInv, DoorTypeOK
<1>4. ASSUME NEW t \in Requests, Mismatch(t) \/ Enter(t) \/ Save(t) PROVE Budget'
  BY <1>1, <1>2, <1>4 DEF Mismatch, Enter, Save, Idle
<1>5. ASSUME NEW t \in Requests, NEW s \in Sessions, Resume(t, s) PROVE Budget'
  BY <1>1, <1>2, <1>5 DEF Resume, Idle
<1>6. ASSUME NEW t \in Requests, NEW cookie \in Sessions \cup {None}, Login(t, cookie)
      PROVE  Budget'
  <2>1. PICK name \in Names, h \in Hosts : work[t].key = <<name, h>>
    BY <1>6 DEF Login, AInv, DoorInv, Carried
  <2>2. work[t].key \in Names \X Addresses
    BY <2>1, HopsAssumption
  <2>3. /\ failures' = [failures EXCEPT ![work[t].key] = 0]
        /\ guesses' = [guesses EXCEPT ![work[t].key] = 0]
        /\ Becomes(t, Idle) /\ Idle.step # "checking"
    BY <1>6 DEF Login, Idle
  <2> QED
    BY <1>1, <1>2, <1>3, <2>2, <2>3
<1>7. ASSUME NEW t \in Requests, NEW d \in DeviceIds, Sync(t, d) PROVE Budget'
  BY <1>1, <1>2, <1>7 DEF Sync, Idle
<1>8. ASSUME NEW t \in Requests, NEW d \in DeviceIds, NEW body \in Body, Configure(t, d, body)
      PROVE  Budget'
  BY <1>1, <1>2, <1>8 DEF Configure, Idle
<1>9. ASSUME NEW key \in Names \X Addresses, CoolOff(key) PROVE Budget'
  BY <1>1, <1>3, <1>9 DEF CoolOff
<1>10. ASSUME NEW s \in Sessions, Expire(s) PROVE Budget'
  BY <1>1, <1>10 DEF Expire
<1>11. CASE UNCHANGED accessVars
  BY <1>1, <1>11 DEF accessVars
<1> QED
  BY <1>4, <1>5, <1>6, <1>7, <1>8, <1>9, <1>10, <1>11, AttemptBudget, FailBudget DEF AccessNext

(* However many attempts pass the lockout together, a key admits fewer wrong       *)
(* passwords in a row than the limit and the threads together.                   *)
THEOREM GuessesAreBounded == AccessSpec => []GuessesBounded
<1>1. AInv /\ Budget => GuessesBounded
  <2> SUFFICES ASSUME AInv, Budget, NEW key \in Names \X Addresses
               PROVE  guesses[key] < Limit + Cardinality(Requests)
    BY DEF GuessesBounded
  <2>1. guesses[key] \in Nat
    BY DEF AInv, DoorInv, DoorTypeOK
  <2> QED
    BY <2>1, InFlightSize, LimitAssumption DEF Budget
<1> QED
  BY AlwaysAInv, InitBudget, NextBudget, <1>1, PTL DEF AccessSpec

(* The door lets only configurations of accounts through: behind it the device    *)
(* table goes the way Devices describes.                                         *)
THEOREM AccessImplementsDevices == AccessSpec => DeviceSpec
<1>1. AccessInit => DeviceInit
  BY DEF AccessInit
<1>2. AInv /\ [AccessNext]_accessVars => [DeviceNext]_deviceVars
  <2>1. SUFFICES ASSUME AInv, AccessNext PROVE DeviceNext \/ UNCHANGED deviceVars
    BY DEF accessVars
  <2>2. ASSUME NEW t \in Requests, NEW d \in DeviceIds, Sync(t, d) PROVE DeviceNext
    <3>1. work[t].account \in Users
      BY <2>1, <2>2 DEF Sync, AInv, DoorInv, Carried
    <3>. QED BY <2>2, <3>1 DEF Sync, DeviceNext
  <2>3. ASSUME NEW t \in Requests, NEW d \in DeviceIds, NEW body \in Body,
               Configure(t, d, body)
        PROVE  DeviceNext
    <3>1. work[t].account \in Users
      BY <2>1, <2>3 DEF Configure, AInv, DoorInv, Carried
    <3>. QED BY <2>3, <3>1 DEF Configure, DeviceNext
  <2>4. ASSUME NEW t \in Requests, Save(t) PROVE DeviceNext
    BY <2>4 DEF Save, DeviceNext
  <2>5. CASE UNCHANGED deviceVars
    BY <2>5
  <2>6. ASSUME AccessNext, ~UNCHANGED deviceVars
        PROVE  \E t \in Requests : \/ \E d \in DeviceIds : Sync(t, d)
                                   \/ \E d \in DeviceIds, body \in Body : Configure(t, d, body)
                                   \/ Save(t)
    BY <2>6 DEF AccessNext, Attempt, Fail, Mismatch, Enter, Login, Resume, CoolOff, Expire
  <2>. QED BY <2>1, <2>2, <2>3, <2>4, <2>5, <2>6
<1>. QED BY <1>1, <1>2, AlwaysAInv, PTL DEF AccessSpec, DeviceSpec
================================================================================

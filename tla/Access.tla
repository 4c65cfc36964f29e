--------------------------------- MODULE Access ---------------------------------
(* Who a request acts for: login, the session it leaves behind, Basic credentials *)
(* on any other endpoint, and the lockout in front of every password.  Passwords  *)
(* are hashed slowly and requests run in threads of their own, so an attempt is   *)
(* looked up in the lockout in one step and counted in another.  What lies behind *)
(* is the device table: an endpoint mentions a device, or configures it.          *)
(* Sessions and the lockout itself are Django's and django-axes'; they do what    *)
(* settings.py:140-212 asks of them and tests/component says of them.             *)
EXTENDS Devices, FiniteSets, Integers, Sequences

CONSTANTS Names,        \* user names clients give: of accounts, and made up
          Addresses,    \* addresses of clients and of proxies
          Hosts,        \* those of clients
          Proxies,      \* the proxies in front of the server, as a sequence, nearest last
          Claims,       \* entries clients have put into X-Forwarded-For themselves
          TrustedHops,  \* the setting of the same name, 0 if not behind a proxy
          Limit,        \* AXES_FAILURE_LIMIT
          Sessions,     \* session keys
          Anonymous,    \* owner of a session nobody has logged in with
          Unused, Gone  \* owner of a key not handed out yet; of a session that is over

ASSUME HopsAssumption == /\ Hosts \subseteq Addresses
                         /\ Proxies \in Seq(Addresses)
                         /\ Claims \subseteq Seq(Addresses)
                         /\ TrustedHops = Len(Proxies)
ASSUME ThreadsAssumption == IsFiniteSet(Requests)
ASSUME LimitAssumption == Limit \in Nat \ {0}
ASSUME OwnersAssumption == /\ {Anonymous, Unused, Gone} \cap Users = {}
                           /\ Anonymous \notin {Unused, Gone} /\ Unused # Gone
                           /\ None \notin Sessions \cup Users \cup Hosts \cup (Names \X Addresses)

VARIABLES failures,     \* failures[<<name, address>>]: what axes has counted, up to Limit
          misses,       \* history: misses[<<name, host>>]: wrong passwords, up to Limit
          guesses,      \* history: wrong passwords since a key was last forgiven
          owner,        \* owner[s]: whose session s is
          work          \* work[t]: what request t has come to

accessVars == <<deviceVars, failures, misses, guesses, owner, work>>

Idle == [step |-> "idle", login |-> FALSE, key |-> None, host |-> None,
         account |-> None, session |-> None]

Becomes(t, w) == work' = [work EXCEPT ![t] = w]

(* ---------------------------- where a request is from --------------------------- *)

(* Mutant: the header's first entry, as if every proxy replaced it.              *)
FirstClaimed(remote, entries) ==
  IF TrustedHops <= 0 \/ Len(entries) < TrustedHops THEN remote ELSE entries[1]

(* client_address: the entry the outermost trusted proxy has written.            *)
ClientAddress(remote, entries) ==
  IF TrustedHops <= 0 \/ Len(entries) < TrustedHops THEN remote
  ELSE entries[Len(entries) - TrustedHops + 1]

(* What arrives of a request host h sends: every proxy appends the address it saw. *)
Path(h) == <<h>> \o Proxies
Remote(h) == Path(h)[Len(Path(h))]
Forwarded(h, claim) == claim \o SubSeq(Path(h), 1, Len(Proxies))

AddressOf(h, claim) == ClientAddress(Remote(h), Forwarded(h, claim))

(* --------------------------------- the lockout ---------------------------------- *)

(* Mutant: one attempt too many.                                                 *)
LockedAbove(key) == failures[key] > Limit

Locked(key) == failures[key] >= Limit

UpTo(limit, n) == IF n < limit THEN n ELSE limit

(* authenticate: axes lets the attempt through to the password.  A refused one is *)
(* a 429, and can only add to a count that has reached the limit.                *)
Attempt(t, login, name, host, claim) ==
  LET key == <<name, AddressOf(host, claim)>>
  IN  /\ work[t] = Idle
      /\ ~Locked(key)
      /\ Becomes(t, [Idle EXCEPT !.step = "checking", !.login = login, !.key = key, !.host = host])
      /\ UNCHANGED <<deviceVars, failures, misses, guesses, owner>>

(* The password is wrong, or the name is nobody's: counted alike.                *)
Fail(t) ==
  LET w == work[t]
      from == <<w.key[1], w.host>>
  IN  /\ w.step = "checking"
      /\ failures' = [failures EXCEPT ![w.key] = UpTo(Limit, @ + 1)]
      /\ misses'   = [misses EXCEPT ![from] = UpTo(Limit, @ + 1)]
      /\ guesses'  = [guesses EXCEPT ![w.key] = @ + 1]
      /\ Becomes(t, Idle)
      /\ UNCHANGED <<deviceVars, owner>>

(* AXES_COOLOFF_TIME has passed since the attempts on this key.                  *)
CoolOff(key) ==
  /\ failures[key] > 0
  /\ failures' = [failures EXCEPT ![key] = 0]
  /\ guesses'  = [guesses EXCEPT ![key] = 0]
  /\ UNCHANGED <<deviceVars, misses, owner, work>>

(* --------------------------------- sessions ------------------------------------- *)

Live(s) == owner[s] \notin {Unused, Gone}

(* Whether login goes on with the session the cookie names.                      *)
Keeps(u, cookie) == cookie # None /\ owner[cookie] = u

(* login(): otherwise a new key, and the session there was is over.              *)
StartSession(u, cookie) ==
  \/ Keeps(u, cookie) /\ owner' = [owner EXCEPT ![cookie] = u]
  \/ /\ ~Keeps(u, cookie)
     /\ \E s \in Sessions :
          /\ owner[s] = Unused
          /\ owner' = [r \in Sessions |-> IF r = s THEN u
                                          ELSE IF r = cookie /\ Live(r) THEN Gone ELSE owner[r]]

(* LoginView: the right password, and the name is the one in the path.  Only this  *)
(* forgives the failures of the key (AXES_RESET_ON_SUCCESS).                      *)
Login(t, cookie) ==
  LET w == work[t]
  IN  /\ w.step = "checking" /\ w.login
      /\ w.key[1] \in Users
      /\ StartSession(w.key[1], cookie)
      /\ failures' = [failures EXCEPT ![w.key] = 0]
      /\ guesses'  = [guesses EXCEPT ![w.key] = 0]
      /\ Becomes(t, Idle)
      /\ UNCHANGED <<deviceVars, misses>>

(* The right password, and the path names another account: a 401, nothing counted. *)
Mismatch(t) ==
  /\ work[t].step = "checking"
  /\ work[t].key[1] \in Users
  /\ Becomes(t, Idle)
  /\ UNCHANGED <<deviceVars, failures, misses, guesses, owner>>

(* Mutant: credentials nobody has verified name the account.                     *)
EnterAsNamed(t) ==
  /\ work[t].step = "checking" /\ ~work[t].login
  /\ Becomes(t, [Idle EXCEPT !.step = "acting", !.account = work[t].key[1]])
  /\ UNCHANGED <<deviceVars, failures, misses, guesses, owner>>

(* Any other endpoint takes Basic credentials too, and forgives nothing.         *)
Enter(t) ==
  /\ work[t].step = "checking" /\ ~work[t].login
  /\ work[t].key[1] \in Users
  /\ Becomes(t, [Idle EXCEPT !.step = "acting", !.account = work[t].key[1]])
  /\ UNCHANGED <<deviceVars, failures, misses, guesses, owner>>

(* A request with a live session acts for its account; the lockout is not asked.  *)
Resume(t, s) ==
  /\ work[t] = Idle
  /\ owner[s] \in Users
  /\ Becomes(t, [Idle EXCEPT !.step = "acting", !.account = owner[s], !.session = s])
  /\ UNCHANGED <<deviceVars, failures, misses, guesses, owner>>

(* Mutant: the session is stored whether or not it is still there.               *)
StoredAgain(t) ==
  IF work[t].session = None THEN owner
  ELSE [owner EXCEPT ![work[t].session] = work[t].account]

(* A request that has changed its session stores it at its end, if it is still     *)
(* there; if not, it ends in an error.                                           *)
StoredBack(t) ==
  IF work[t].session = None \/ owner[work[t].session] = Gone THEN owner
  ELSE [owner EXCEPT ![work[t].session] = work[t].account]

(* SESSION_COOKIE_AGE has passed, or clearsessions has removed the row.          *)
Expire(s) ==
  /\ Live(s)
  /\ owner' = [owner EXCEPT ![s] = Gone]
  /\ UNCHANGED <<deviceVars, failures, misses, guesses, work>>

(* ------------------------------ behind the door --------------------------------- *)

(* A sync endpoint: the device is mentioned, the session perhaps stored.  A        *)
(* request that came with Basic credentials alone has none, and is given none.    *)
Sync(t, d) ==
  /\ work[t].step = "acting"
  /\ Mention(work[t].account, d)
  /\ UNCHANGED owner \/ owner' = StoredBack(t)
  /\ Becomes(t, Idle)
  /\ UNCHANGED <<failures, misses, guesses>>

Configure(t, d, body) ==
  /\ work[t].step = "acting"
  /\ ReadRow(t, work[t].account, d, body)
  /\ Becomes(t, [Idle EXCEPT !.step = "saving"])
  /\ UNCHANGED <<failures, misses, guesses, owner>>

Save(t) ==
  /\ work[t].step = "saving"
  /\ SaveRow(t)
  /\ Becomes(t, Idle)
  /\ UNCHANGED <<failures, misses, guesses, owner>>

(* No step mints an anonymous session; one may be there all the same, planted by   *)
(* hand (tests/component/test_authentication.py:75-79).                           *)
AccessInit ==
  /\ DeviceInit
  /\ failures = [key \in Names \X Addresses |-> 0]
  /\ misses = [from \in Names \X Hosts |-> 0]
  /\ guesses = [key \in Names \X Addresses |-> 0]
  /\ owner \in [Sessions -> Users \cup {Anonymous, Unused}]
  /\ work = [t \in Requests |-> Idle]

AccessNext ==
  \/ \E t \in Requests :
       \/ \E login \in BOOLEAN, name \in Names, host \in Hosts, claim \in Claims :
            Attempt(t, login, name, host, claim)
       \/ Fail(t) \/ Mismatch(t) \/ Enter(t) \/ Save(t)
       \/ \E cookie \in Sessions \cup {None} : Login(t, cookie)
       \/ \E s \in Sessions : Resume(t, s)
       \/ \E d \in DeviceIds : Sync(t, d) \/ \E body \in Body : Configure(t, d, body)
  \/ \E key \in Names \X Addresses : CoolOff(key)
  \/ \E s \in Sessions : Expire(s)

AccessSpec == AccessInit /\ [][AccessNext]_accessVars

(* --------------------------------- properties --------------------------------- *)

Steps == {"idle", "checking", "acting", "saving"}

(* Shapes; a request acts for an account or for nobody, and saves what it has     *)
(* opened.                                                                       *)
AccessTypeOK ==
  /\ DeviceTypeOK
  /\ failures \in [Names \X Addresses -> 0..Limit]
  /\ misses \in [Names \X Hosts -> 0..Limit]
  /\ guesses \in [Names \X Addresses -> Nat]
  /\ owner \in [Sessions -> Users \cup {Anonymous, Unused, Gone}]
  /\ work \in [Requests -> [step : Steps, login : BOOLEAN,
                            key : (Names \X Addresses) \cup {None}, host : Hosts \cup {None},
                            account : Users \cup {None}, session : Sessions \cup {None}]]
  /\ \A t \in Requests : /\ work[t].step = "checking" => work[t].key # None
                         /\ work[t].step = "acting" => work[t].account # None
                         /\ work[t].step = "saving" <=> open[t] # None

(* A key is locked by wrong passwords for its name from its own address, Limit of  *)
(* them, and by nothing else: whatever other clients send, claim to be or are     *)
(* refused, an owner who is elsewhere gets in (settings.py:162-165).              *)
OwnFailuresOnly ==
  \A name \in Names, a \in Addresses :
    Locked(<<name, a>>) => a \in Hosts /\ misses[<<name, a>>] = Limit

(* Attempts that passed the lockout together are all tried, so a key admits more   *)
(* wrong passwords than the limit, but only as many more as there are threads     *)
(* beside the one that counts; a success or a cool-off meanwhile starts the count *)
(* again and forgives no attempt in flight.                                      *)
GuessesBounded ==
  \A key \in Names \X Addresses : guesses[key] < Limit + Cardinality(Requests)

(* A session key names one account, from the login that hands it out to its end:   *)
(* it never goes from nobody to an account ("an identifier chosen before login is *)
(* not the one the account ends up holding", views.py:73-74), nor from one        *)
(* account to another, and a request that outlives its session does not revive it. *)
SessionsKeepTheirAccount ==
  [][\A s \in Sessions : owner'[s] # owner[s] => owner[s] = Unused \/ owner'[s] = Gone]_accessVars
================================================================================

--------------------------------- MODULE MCAccess --------------------------------
(* A small instance of Access: two hosts behind a proxy, two threads.            *)
EXTENDS Access, TLC, Functions

CONSTANTS home, elsewhere, proxy

OneProxy == <<proxy>>
MCClaims == {<<>>, <<home>>, <<elsewhere, home>>}

(* Passwords are guessed at, a few times, or devices are mentioned, and one        *)
(* account's configured from home; sessions come and go with either.             *)
MaxMisses == 3
GuessesOnly    == SumFunction(misses) <= MaxMisses /\ DOMAIN rows = {}
ConfiguresOnly == /\ \A from \in DOMAIN misses : misses[from] = 0
                  /\ Cardinality({k \in Keys : said[k] # [caption |-> Nothing, kind |-> Nothing]}) <= 1
                  /\ \A t \in Requests : work[t].host # elsewhere
WithinBounds == GuessesOnly \/ ConfiguresOnly

Symmetric == Permutations(Requests) \cup Permutations(Sessions)
================================================================================

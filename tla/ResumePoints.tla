------------------------------ MODULE ResumePoints ------------------------------
(* What gpodsync promises about episodes, with ids and cursors forgotten: the    *)
(* account keeps claims ("this is how far I was, at this moment"), one for every *)
(* content, and for every episode and verb one of its latest claims is the one   *)
(* other devices are told.  That one is replaced only by a strictly later claim. *)
(* EpisodeLog implements it.                                                     *)
EXTENDS Naturals

CONSTANTS Users,     \* accounts
          Groups,    \* (podcast, episode, verb)
          Contents,  \* guid and playback offsets
          Times,     \* moments a claim can be made for
          NoClaim    \* nothing is known about a group

VARIABLES claims,    \* the claims the account has accepted
          best       \* best[u][g]: the claim served for group g of account u

Claim == [user : Users, group : Groups, content : Contents, at : Times]

(* The claims of a group that no other claim of it is later than.                *)
Leading(known, u, g) ==
  LET mine == {c \in known : c.user = u /\ c.group = g}
  IN  {c \in mine : \A d \in mine : d.at <= c.at}

(* The served claim stays while it leads; otherwise a leading one takes over.    *)
Serves(u, g, claim, before, known) ==
  IF before \in Leading(known, u, g) THEN claim = before
  ELSE IF Leading(known, u, g) = {} THEN claim = NoClaim
  ELSE claim \in Leading(known, u, g)

Init == claims = {} /\ best = [u \in Users |-> [g \in Groups |-> NoClaim]]

Report(u) ==
  /\ claims \subseteq claims'
  /\ \A c \in claims' \ claims : c \in Claim /\ c.user = u
  /\ \A c, d \in claims' :
       c.user = d.user /\ c.group = d.group /\ c.content = d.content => c = d
  /\ \A v \in Users, g \in Groups : Serves(v, g, best'[v][g], best[v][g], claims')

Next == \E u \in Users : Report(u)

Spec == Init /\ [][Next]_<<claims, best>>
================================================================================

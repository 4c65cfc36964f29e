-------------------------------- MODULE Bootstrap --------------------------------
(* create_account of gpodsync/accounts.py, run by bootstrap_account on every start *)
(* of a container and by adduser whenever somebody likes.  A process of SecretKey  *)
(* is one such command: it resolves the secret key when its settings are loaded,   *)
(* looks for the account, and creates it in a second statement.  All of them name  *)
(* the same account; each brings a password of its own.                            *)
EXTENDS SecretKey

CONSTANTS ByHand,       \* the processes that run adduser; the others bootstrap
          Weak,         \* those whose password the validators reject
          NoAccount

ASSUME BootstrapAssumption == ByHand \subseteq Procs /\ Weak \subseteq Procs /\ NoAccount \notin Procs

VARIABLES account,    \* whose password the account has, NoAccount if there is none
          step        \* step[p]: how far create_account has come, and how the command ended

bootVars == <<keyVars, account, step>>

Container == Procs \ ByHand

Ends(p, from, how) ==
  /\ pc[p] = "running" /\ step[p] = from
  /\ step' = [step EXCEPT ![p] = how]
  /\ UNCHANGED keyVars

(* Mutants: any AccountError lets the container start; so does none.              *)
SwallowAll(p) ==
  /\ \/ account # NoAccount /\ Ends(p, "none", "up")
     \/ account = NoAccount /\ Ends(p, "none", IF p \in Weak THEN "up" ELSE "absent")
  /\ UNCHANGED account
SwallowNothing(p) ==
  /\ \/ account # NoAccount /\ Ends(p, "none", "stopped")
     \/ account = NoAccount /\ Ends(p, "none", IF p \in Weak THEN "stopped" ELSE "absent")
  /\ UNCHANGED account

(* filter(...).exists(), then the validators: "already exists" is success for a    *)
(* container, for adduser an error; a rejected password is an error for both.      *)
LookUp(p) ==
  /\ \/ account # NoAccount /\ Ends(p, "none", IF p \in ByHand THEN "stopped" ELSE "up")
     \/ account = NoAccount /\ Ends(p, "none", IF p \in Weak THEN "stopped" ELSE "absent")
  /\ UNCHANGED account

(* Mutant: the account is written whether it is there or not.                      *)
CreateOrReplace(p) == Ends(p, "absent", "up") /\ account' = p

(* create_user: an insert, which the unique name refuses when another was faster.  *)
(* Nothing turns that into an AccountError, so it stops a container as well.       *)
CreateUser(p) ==
  \/ account = NoAccount /\ Ends(p, "absent", "up") /\ account' = p
  \/ account # NoAccount /\ Ends(p, "absent", "beaten") /\ UNCHANGED account

Kill(p) ==
  /\ step[p] \in {"none", "absent"}
  /\ Ends(p, step[p], "killed")
  /\ UNCHANGED account

Command(p) == LookUp(p) \/ CreateUser(p)

BootInit == Init /\ account = NoAccount /\ step = [p \in Procs |-> "none"]

BootNext ==
  \/ Next /\ UNCHANGED <<account, step>>
  \/ \E p \in Procs : Command(p) \/ Kill(p)

(* A command that is not killed proceeds, in its settings and after them.          *)
FairBootSpec ==
  /\ BootInit /\ [][BootNext]_bootVars
  /\ \A p \in Procs : WF_bootVars(Resolve(p) /\ UNCHANGED <<account, step>>)
                      /\ WF_bootVars(Command(p))

(* --------------------------------- properties ---------------------------------- *)

(* A container comes up with the account made, by itself or before it, and never   *)
(* with a password the validators reject (bootstrap_account.py:37-38).             *)
UpWithAccount ==
  /\ \A p \in Procs : step[p] = "up" => account # NoAccount
  /\ account \notin Weak

(* Whatever races, restarts and other passwords follow, the account keeps the       *)
(* password it was made with: bootstrap "runs on every container start"            *)
(* (bootstrap_account.py:3).                                                       *)
PasswordStays == [][account # NoAccount => account' = account]_bootVars

(* "Already existing is the normal case from the second start onwards, and must    *)
(* not stop the container from coming up" (bootstrap_account.py:36-37): once the    *)
(* account is there, a start that has not looked for it yet comes up unless it is  *)
(* killed; being beaten stops one start and never the next.                        *)
RestartComesUp ==
  \A p \in Container :
    (account # NoAccount /\ pc[p] \in Inside) ~> (pc[p] = "dead" \/ step[p] \in {"up", "killed"})
================================================================================

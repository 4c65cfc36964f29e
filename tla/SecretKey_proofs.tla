---------------------------- MODULE SecretKey_proofs ----------------------------
(* Theorems about SecretKey, for any number of starts, and about Bootstrap, whose *)
(* commands are such starts.                                                     *)
EXTENDS Bootstrap, FiniteSetTheorems, TLAPS

(* Only a start that has not seen a file can be there while there is none.       *)
FileSeen == \A p \in Procs : pc[p] \in {"read", "write", "reread", "truncate"} => file # Absent

(* As long as nobody has replaced a file in use, one start at most is about to    *)
(* fill an empty file, and whoever runs, runs with what the file holds.           *)
OneWriter == /\ \A p \in Procs : pc[p] = "write" => file = Empty
             /\ \A p, q \in Procs : pc[p] = "write" /\ pc[q] = "write" => p = q

KInv == TypeOK /\ FileSeen /\ (raced \/ (OneWriter /\ OneKey))

USE KeyAssumption

LEMMA InitKInv == Init => KInv
BY DEF Init, KInv, TypeOK, FileSeen, OneWriter, OneKey, Running, Inside

(* Every step keeps the invariant.                                                *)
LEMMA NextKInv == KInv /\ [Next]_keyVars => KInv'
<1> SUFFICES ASSUME KInv, [Next]_keyVars PROVE KInv'
  OBVIOUS
<1> USE DEF KInv, TypeOK, FileSeen, OneWriter, OneKey, Running, Inside, Goto, Resolved
<1>1. ASSUME NEW p \in Procs, Look(p) PROVE KInv'
  BY <1>1 DEF Look
<1>2. ASSUME NEW p \in Procs, ReadStored(p) PROVE KInv'
  BY <1>2 DEF ReadStored
<1>3. ASSUME NEW p \in Procs, Create(p) PROVE KInv'
  BY <1>3 DEF Create
<1>4. ASSUME NEW p \in Procs, Write(p) PROVE KInv'
  BY <1>4 DEF Write
<1>5. ASSUME NEW p \in Procs, Reread(p) PROVE KInv'
  BY <1>5 DEF Reread
<1>6. ASSUME NEW p \in Procs, Truncate(p) PROVE KInv'
  BY <1>6 DEF Truncate
<1>7. ASSUME NEW p \in Procs, Die(p) PROVE KInv'
  BY <1>7 DEF Die
<1>8. CASE UNCHANGED keyVars
  BY <1>8 DEF keyVars
<1> QED
  BY <1>1, <1>2, <1>3, <1>4, <1>5, <1>6, <1>7, <1>8 DEF Next, Resolve

(* Shapes, and no process ever runs without a real key.                           *)
THEOREM KeyTypes == Spec => []TypeOK
<1>1. KInv => TypeOK
  BY DEF KInv
<1> QED
  BY InitKInv, NextKInv, <1>1, PTL DEF Spec

(* Overlapping starts agree on one key unless one of them replaced a file that    *)
(* another had filled or was about to fill.                                       *)
THEOREM AgreementUnlessRaced == Spec => []OneKeyUnlessRaced
<1>1. KInv => OneKeyUnlessRaced
  BY DEF KInv, OneKeyUnlessRaced
<1> QED
  BY InitKInv, NextKInv, <1>1, PTL DEF Spec

(* ---------------------------- starts in turn ----------------------------------- *)

(* One start at a time is inside, and the file it is about to replace is empty.   *)
AloneInv == /\ KInv
            /\ ~raced
            /\ \A p, q \in Procs : pc[p] \in Inside /\ pc[q] \in Inside => p = q
            /\ \A p \in Procs : pc[p] = "truncate" => file = Empty

LEMMA NobodyInside == Cardinality(Starting) < 1 => Starting = {}
<1>1. IsFiniteSet(Starting)
  BY FS_Subset DEF Starting
<1>2. Cardinality(Starting) \in Nat
  BY <1>1, FS_CardinalityType
<1> QED
  BY <1>1, <1>2, FS_EmptySet

LEMMA InitAlone == Init => AloneInv
BY InitKInv DEF AloneInv, Init, Inside

LEMMA NextAlone ==
  ASSUME MaxStarting = 1, AloneInv, [Next]_keyVars PROVE AloneInv'
<1>0. KInv'
  BY NextKInv DEF AloneInv
<1> USE <1>0 DEF AloneInv, Inside, Goto, KInv, TypeOK
<1>1. ASSUME NEW p \in Procs, Look(p) PROVE AloneInv'
  <2>1. Starting = {}
    BY <1>1, NobodyInside DEF Look
  <2> QED
    BY <1>1, <2>1 DEF Look, Starting
<1>2. ASSUME NEW p \in Procs, ReadStored(p) PROVE AloneInv'
  BY <1>2 DEF ReadStored
<1>3. ASSUME NEW p \in Procs, Create(p) PROVE AloneInv'
  BY <1>3 DEF Create
<1>4. ASSUME NEW p \in Procs, Write(p) PROVE AloneInv'
  BY <1>4 DEF Write
<1>5. ASSUME NEW p \in Procs, Reread(p) PROVE AloneInv'
  BY <1>5 DEF Reread
<1>6. ASSUME NEW p \in Procs, Truncate(p) PROVE AloneInv'
  BY <1>6 DEF Truncate
<1>7. ASSUME NEW p \in Procs, Die(p) PROVE AloneInv'
  BY <1>7 DEF Die
<1>8. CASE UNCHANGED keyVars
  BY <1>8 DEF keyVars
<1> QED
  BY <1>1, <1>2, <1>3, <1>4, <1>5, <1>6, <1>7, <1>8 DEF Next, Resolve

(* Starts that follow one another, as the container's do, all run with one key,    *)
(* whichever of them die where.                                                   *)
THEOREM AgreementInTurn == ASSUME MaxStarting = 1 PROVE Spec => []OneKey
<1>1. AloneInv => OneKey
  BY DEF AloneInv, KInv
<1>2. AloneInv /\ [Next]_keyVars => AloneInv'
  BY NextAlone
<1> QED
  BY InitAlone, <1>1, <1>2, PTL DEF Spec

(* ------------------------------- the account ----------------------------------- *)

Steps == {"none", "absent", "up", "stopped", "beaten", "killed"}

(* Who is about to create the account was not refused for its password, so nobody *)
(* else ever has made it; and who is up has found it or made it.                  *)
BootInv ==
  /\ step \in [Procs -> Steps]
  /\ account \in (Procs \ Weak) \cup {NoAccount}
  /\ \A p \in Procs : step[p] = "absent" => p \notin Weak
  /\ \A p \in Procs : step[p] = "up" => account # NoAccount

BootSpec == BootInit /\ [][BootNext]_bootVars

LEMMA InitBootInv == BootInit => BootInv
BY BootstrapAssumption DEF BootInit, BootInv, Steps

(* Every step keeps the invariant, and the password.                              *)
LEMMA NextBootInv ==
  ASSUME BootInv, [BootNext]_bootVars
  PROVE  BootInv' /\ (account # NoAccount => account' = account)
<1>1. ASSUME NEW p \in Procs, LookUp(p)
      PROVE  BootInv' /\ account' = account
  <2>1. CASE account # NoAccount
    <3>1. PICK how \in {"stopped", "up"} : Ends(p, "none", how) /\ account' = account
      BY <1>1, <2>1 DEF LookUp
    <3>. QED BY <2>1, <3>1 DEF BootInv, Ends, Steps
  <2>2. CASE account = NoAccount
    <3>1. PICK how \in {"stopped", "absent"} :
            Ends(p, "none", how) /\ account' = account /\ (how = "absent" => p \notin Weak)
      BY <1>1, <2>2 DEF LookUp
    <3>. QED BY <2>2, <3>1 DEF BootInv, Ends, Steps
  <2>. QED BY <2>1, <2>2
<1>2. ASSUME NEW p \in Procs, CreateUser(p)
      PROVE  BootInv' /\ (account # NoAccount => account' = account)
  <2>1. CASE account = NoAccount
    BY <1>2, <2>1, BootstrapAssumption DEF CreateUser, Ends, BootInv, Steps
  <2>2. CASE account # NoAccount
    BY <1>2, <2>2 DEF CreateUser, Ends, BootInv, Steps
  <2>. QED BY <2>1, <2>2
<1>3. ASSUME NEW p \in Procs, Kill(p)
      PROVE  BootInv' /\ account' = account
  BY <1>3 DEF Kill, Ends, BootInv, Steps
<1>4. CASE UNCHANGED <<account, step>>
  BY <1>4 DEF BootInv
<1>. QED BY <1>1, <1>2, <1>3, <1>4 DEF BootNext, Command, bootVars

LEMMA BootInvariant == BootSpec => []BootInv
<1>1. BootInv /\ [BootNext]_bootVars => BootInv'
  BY NextBootInv
<1>. QED BY InitBootInv, <1>1, PTL DEF BootSpec

LEMMA FairBootIsBoot == FairBootSpec => BootSpec
BY PTL DEF FairBootSpec, BootSpec

(* A container comes up with the account made, and never with a password the      *)
(* validators reject, whatever starts, dies and races.                            *)
THEOREM ContainersComeUpWithAccount == FairBootSpec => []UpWithAccount
<1>1. BootInv => UpWithAccount
  BY BootstrapAssumption DEF BootInv, UpWithAccount
<1>. QED BY FairBootIsBoot, BootInvariant, <1>1, PTL

(* The account keeps the password it was made with, whatever later starts bring.  *)
THEOREM PasswordsStay == FairBootSpec => PasswordStays
<1>1. BootInv /\ [BootNext]_bootVars
        => [account # NoAccount => account' = account]_bootVars
  BY NextBootInv
<1>. QED BY FairBootIsBoot, BootInvariant, <1>1, PTL DEF BootSpec, PasswordStays

(* What a command does after its settings are loaded is invisible to the others'  *)
(* key, so what is proved of SecretKey can be cited of containers and adduser.     *)
LEMMA BootImplementsKey == FairBootSpec => Spec
<1>1. BootInit => Init
  BY DEF BootInit
<1>2. [BootNext]_bootVars => [Next]_keyVars
  BY DEF BootNext, Command, LookUp, CreateUser, Kill, Ends, bootVars
<1>. QED BY FairBootIsBoot, <1>1, <1>2, PTL DEF BootSpec, Spec

(* So containers and adduser agree on one key in the same cases, and none of them *)
(* runs without a real one.                                                       *)
COROLLARY ContainersAgreeOnKey == FairBootSpec => [](TypeOK /\ OneKeyUnlessRaced)
BY BootImplementsKey, KeyTypes, AgreementUnlessRaced, PTL
================================================================================

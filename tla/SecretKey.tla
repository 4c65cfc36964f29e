-------------------------------- MODULE SecretKey -------------------------------
(* resolve_secret_key of gpodsync/config.py: processes agreeing on the signing   *)
(* key through one file.  Every start of a process resolves the key once, step   *)
(* by step, and may die at any of them; a restart is another process.            *)
EXTENDS FiniteSets, Naturals

CONSTANTS Procs,          \* starts of a process, each of which can mint one key: its own
          Absent,         \* no key file
          Empty,          \* a key file with nothing (or only blanks) in it
          MaxStarting     \* how many starts may overlap

ASSUME KeyAssumption == /\ IsFiniteSet(Procs)
                        /\ Absent \notin Procs /\ Empty \notin Procs /\ Absent # Empty
ASSUME StartingAssumption == MaxStarting \in Nat \ {0}

VARIABLES file,      \* the key file: Absent, Empty, or the process whose key is in it
          pc,        \* pc[p]: where the process is
          key,       \* key[p]: the key it runs with, Absent before it has one
          raced      \* history: a file was truncated while its key was in it or on its way

keyVars == <<file, pc, key, raced>>

Inside == {"read", "create", "write", "reread", "truncate"}
Starting == {p \in Procs : pc[p] \in Inside}

Goto(p, from, to) == pc[p] = from /\ pc' = [pc EXCEPT ![p] = to]
Resolved(p, k) == key' = [key EXCEPT ![p] = k]

(* A start, and key_file.exists().                                               *)
Look(p) ==
  /\ Cardinality(Starting) < MaxStarting
  /\ Goto(p, "new", IF file = Absent THEN "create" ELSE "read")
  /\ UNCHANGED <<file, key, raced>>

(* The stored key, if there is one; a useless file is as good as none.            *)
ReadStored(p) ==
  /\ \/ file # Empty /\ Goto(p, "read", "running") /\ Resolved(p, file)
     \/ file = Empty /\ Goto(p, "read", "create") /\ UNCHANGED key
  /\ UNCHANGED <<file, raced>>

(* Mutant: the file is opened without O_EXCL.                                     *)
CreateAnyway(p) ==
  /\ Goto(p, "create", "write")
  /\ file' = IF file = Absent THEN Empty ELSE file
  /\ UNCHANGED <<key, raced>>

(* open(O_CREAT | O_EXCL): the file appears, empty, or it is somebody else's.     *)
Create(p) ==
  /\ \/ file = Absent /\ Goto(p, "create", "write") /\ file' = Empty
     \/ file # Absent /\ Goto(p, "create", "reread") /\ UNCHANGED file
  /\ UNCHANGED <<key, raced>>

(* The key is flushed when the file is closed.                                    *)
Write(p) ==
  /\ Goto(p, "write", "running")
  /\ file' = p
  /\ Resolved(p, p)
  /\ UNCHANGED raced

(* Mutant: whatever the file holds is the key.                                    *)
RereadWhatever(p) ==
  Goto(p, "reread", "running") /\ Resolved(p, file) /\ UNCHANGED <<file, raced>>

(* Mutant: the loser waits for the winner to fill the file.                       *)
RereadPatiently(p) ==
  /\ file # Empty /\ Goto(p, "reread", "running") /\ Resolved(p, file)
  /\ UNCHANGED <<file, raced>>

(* After FileExistsError: "Their key is the real one", unless it is empty.        *)
Reread(p) ==
  /\ \/ file # Empty /\ Goto(p, "reread", "running") /\ Resolved(p, file)
     \/ file = Empty /\ Goto(p, "reread", "truncate") /\ UNCHANGED key
  /\ UNCHANGED <<file, raced>>

(* open(O_TRUNC) of a file found empty.                                           *)
Truncate(p) ==
  /\ Goto(p, "truncate", "write")
  /\ file' = Empty
  /\ raced' = (raced \/ file # Empty \/ \E q \in Procs : pc[q] = "write")
  /\ UNCHANGED key

(* The process dies, or the write fails and it stops with a ConfigurationError.   *)
Die(p) ==
  /\ pc[p] \in Inside
  /\ pc' = [pc EXCEPT ![p] = "dead"]
  /\ UNCHANGED <<file, key, raced>>

Resolve(p) ==
  \/ Look(p) \/ ReadStored(p) \/ Create(p) \/ Write(p) \/ Reread(p) \/ Truncate(p)

(* A new volume, or one whose key file was made by hand.                          *)
Init ==
  /\ file \in {Absent, Empty}
  /\ pc = [p \in Procs |-> "new"]
  /\ key = [p \in Procs |-> Absent]
  /\ raced = FALSE

Next == \E p \in Procs : Resolve(p) \/ Die(p)

Spec == Init /\ [][Next]_keyVars

(* A start that is not held up by others proceeds until it has a key or dies.     *)
FairSpec == Spec /\ \A p \in Procs : WF_keyVars(Resolve(p))

(* --------------------------------- properties --------------------------------- *)

Running == {p \in Procs : pc[p] = "running"}

(* Shapes; and no process ever runs with an empty key, whatever it raced with.     *)
TypeOK ==
  /\ file \in Procs \cup {Absent, Empty}
  /\ pc \in [Procs -> Inside \cup {"new", "running", "dead"}]
  /\ key \in [Procs -> Procs \cup {Absent}]
  /\ \A p \in Running : key[p] # Absent
  /\ raced \in BOOLEAN

(* Every process that has ever run, runs with one and the same key, a real one,   *)
(* and it is the one the next start will find ("never a fresh key per boot",       *)
(* config.py:89-91).                                                              *)
OneKey == \A p \in Running : key[p] = file /\ file \in Procs

(* Starts that overlap and die anywhere end up with one key unless one of them     *)
(* replaced a file that another had filled, or was about to fill.                 *)
OneKeyUnlessRaced == raced \/ OneKey

(* "O_EXCL so two workers starting together cannot each believe they minted the    *)
(* key" (config.py:108-109).                                                      *)
OneMint == Cardinality({p \in Running : key[p] = p}) <= 1

(* Whatever dies, a start that does not die itself gets its key: no leftover of an *)
(* interrupted start stops the next one.                                          *)
EveryStartEnds == \A p \in Procs : pc[p] \in Inside ~> pc[p] \in {"running", "dead"}
================================================================================

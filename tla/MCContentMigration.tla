--------------------------- MODULE MCContentMigration ---------------------------
(* Small instances of ContentMigration.                                           *)
EXTENDS ContentMigration, TLC

Symmetric == Permutations(Users) \cup Permutations(Groups) \cup Permutations(Contents)

(* Reports of one moment before 1970, and reports of one after it, are looked at   *)
(* next to those of an import, never all three; and a device that no row names,    *)
(* as long as nothing is stored.                                                  *)
WithinBounds ==
  /\ Cardinality({r.at : r \in table}) <= 2
  /\ records # {} => devices \subseteq {<<r.user, r.device>> : r \in records}
================================================================================

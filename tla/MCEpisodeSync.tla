----------------------------- MODULE MCEpisodeSync ------------------------------
(* Small instances of EpisodeSync.                                               *)
EXTENDS EpisodeSync, TLC

Symmetric == Permutations(Phones) \cup Permutations(Groups) \cup Permutations(Contents)

(* The import run reads no history of downloads, so states that differ in them    *)
(* alone are one.  Listenings and failures are three together, or two and two with *)
(* one request late at a time; where two syncs have met its properties say nothing *)
(* more.                                                                          *)
WithoutDownloads == <<episodeVars, clock, heard, phoneVars, pathVars, late, crossed, drops>>
WithinBounds ==
  /\ ~crossed
  /\ clock + drops <= 3 \/ (clock = 2 /\ drops = 2 /\ Cardinality(late) <= 1)

(* The page run looks at late uploads for the rows they add: it leaves out what    *)
(* touches the flag alone, and has them begin before their phone's next sync.     *)
LateUploadsOnly ==
  \A r \in late : r.kind = "upload" \/ (r.kind = "post" /\ phase[r.phone] = "idle")
================================================================================

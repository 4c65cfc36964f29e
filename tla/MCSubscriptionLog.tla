--------------------------- MODULE MCSubscriptionLog ---------------------------
(* A small instance of SubscriptionLog: one feed spelled canonically, one that is *)
(* normalised, and one spelling that is refused.                                 *)
EXTENDS SubscriptionLog, TLC

MCSanitise == "http://a" :> "http://a" @@ "HTTP://b" :> "http://b" @@ "ftp://x" :> Refused

Symmetric == Permutations(Users) \cup Permutations(DeviceIds)
================================================================================

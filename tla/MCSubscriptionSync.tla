--------------------------- MODULE MCSubscriptionSync ---------------------------
(* Small instances of SubscriptionSync: two phones on one account; what is not a  *)
(* canonical URL is refused.                                                     *)
EXTENDS SubscriptionSync, TLC

CONSTANTS alice, phone, tablet

MCSanitise == [r \in RawUrls |-> IF r \in Urls THEN r ELSE Refused]

OneAccount == phone :> alice @@ tablet :> alice
================================================================================

-------------------------------- MODULE Devices ---------------------------------
(* The device table and the views about it.  Every endpoint that names a device  *)
(* creates it on first mention.  DeviceConfigView reads the row, merges what the  *)
(* body says with what it has read, and saves both fields, with no transaction   *)
(* around the three: each request is two steps, and requests overlap.            *)
(* DeviceListView shows the rows.                                                *)

CONSTANTS Users,        \* accounts
          DeviceIds,    \* identifiers validate_device_id accepts
          Captions,     \* names a user may give a device
          Kinds,        \* types a client may report
          Other,        \* the type of a device of which none was reported
          Nothing,      \* the empty text, and a field the body does not have
          Requests,     \* the server's threads
          None          \* no configuration in progress

VARIABLES rows,         \* rows[<<u, d>>]: caption and kind of the devices that exist
          open,         \* open[r]: the configuration request r has read for and not saved
          said,         \* history: the last thing a saved configuration said of a field
          undone        \* history: fields saved unsaid by a configuration that had read
                        \* the row before another one saved it

deviceVars == <<rows, open, said, undone>>

Keys   == Users \X DeviceIds
Fields == {"caption", "kind"}
Body   == [caption : Captions \cup {Nothing}, kind : Kinds \cup {Nothing}]
Row    == [caption : Captions \cup DeviceIds \cup {Nothing}, kind : Kinds \cup {Other}]
Open   == [key : Keys, read : Row, body : Body, stale : BOOLEAN]

ASSUME FieldsAssumption == /\ Nothing \notin Captions \cup Kinds \cup DeviceIds \cup {Other}
                           /\ None \notin Open

FirstRow == [caption |-> Nothing, kind |-> Other]

(* get_or_create: a device that is mentioned exists, and one that exists stays.  *)
Created(k) == [j \in DOMAIN rows \cup {k} |-> IF j \in DOMAIN rows THEN rows[j] ELSE FirstRow]

(* Python's "or" between texts.                                                  *)
Or(first, second) == IF first # Nothing THEN first ELSE second

(* Mutant: what the body leaves out falls back to the default at once.           *)
MergedWithDefaults(c) == [caption |-> Or(c.body.caption, c.key[2]),
                          kind    |-> Or(c.body.kind, Other)]

Merged(c) == [caption |-> Or(c.body.caption, Or(c.read.caption, c.key[2])),
              kind    |-> Or(c.body.kind, Or(c.read.kind, Other))]

(* A sync endpoint names the device.                                             *)
Mention(u, d) == rows' = Created(<<u, d>>) /\ UNCHANGED <<open, said, undone>>

(* A configuration, up to the row it works on.  A body that is not an object is   *)
(* refused before this, and leaves nothing behind.                               *)
ReadRow(r, u, d, body) ==
  /\ open[r] = None
  /\ rows' = Created(<<u, d>>)
  /\ open' = [open EXCEPT ![r] = [key |-> <<u, d>>, read |-> rows'[<<u, d>>],
                                  body |-> body, stale |-> FALSE]]
  /\ UNCHANGED <<said, undone>>

(* The end of it: both fields are written, said or not.                          *)
SaveRow(r) ==
  LET c == open[r]
      unsaid == {f \in Fields : c.body[f] = Nothing}
  IN  /\ c # None
      /\ rows' = [rows EXCEPT ![c.key] = Merged(c)]
      /\ open' = [q \in Requests |->
           IF q = r THEN None
           ELSE IF open[q] # None /\ open[q].key = c.key THEN [open[q] EXCEPT !.stale = TRUE]
           ELSE open[q]]
      /\ said' = [said EXCEPT ![c.key] = [caption |-> Or(c.body.caption, @.caption),
                                          kind    |-> Or(c.body.kind, @.kind)]]
      /\ undone' = (undone \ {<<c.key, f>> : f \in Fields \ unsaid})
                     \cup (IF c.stale THEN {<<c.key, f>> : f \in unsaid} ELSE {})

DeviceInit ==
  /\ rows = [k \in {} |-> FirstRow]
  /\ open = [r \in Requests |-> None]
  /\ said = [k \in Keys |-> [caption |-> Nothing, kind |-> Nothing]]
  /\ undone = {}

DeviceNext ==
  \/ \E u \in Users, d \in DeviceIds :
       \/ Mention(u, d)
       \/ \E r \in Requests, body \in Body : ReadRow(r, u, d, body)
  \/ \E r \in Requests : SaveRow(r)

DeviceSpec == DeviceInit /\ [][DeviceNext]_deviceVars

(* DeviceListView: an entry for every device of the account.                     *)
Listed(u) == {[id |-> k[2], caption |-> rows[k].caption, type |-> rows[k].kind]
                : k \in {j \in DOMAIN rows : j[1] = u}}

(* --------------------------------- properties --------------------------------- *)

(* The shapes of the rows and of the requests, each about a row that exists.     *)
DeviceTypeOK ==
  /\ DOMAIN rows \subseteq Keys
  /\ rows \in [DOMAIN rows -> Row]
  /\ open \in [Requests -> Open \cup {None}]
  /\ \A r \in Requests : open[r] # None => open[r].key \in DOMAIN rows
  /\ said \in [Keys -> Body]
  /\ undone \subseteq Keys \X Fields

(* What a device is listed with is what was last said of it, by whichever of      *)
(* several configurations that each said only part; a field is older than that   *)
(* only where a configuration that did not mention it had read the row before    *)
(* another one saved it (views.py:118-121).                                      *)
LastCaptions(k) == IF said[k].caption # Nothing THEN {said[k].caption} ELSE {Nothing, k[2]}
LastKinds(k)    == {Or(said[k].kind, Other)}

SettingsAsSaid ==
  \A u \in Users : \A entry \in Listed(u) :
    LET k == <<u, entry.id>>
    IN  /\ <<k, "caption">> \notin undone => entry.caption \in LastCaptions(k)
        /\ <<k, "kind">> \notin undone => entry.type \in LastKinds(k)
================================================================================

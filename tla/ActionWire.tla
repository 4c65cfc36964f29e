------------------------------- MODULE ActionWire -------------------------------
(* The codec of gpodsync/domain/episode_actions.py between an uploaded JSON       *)
(* object, the stored row, and the object a phone downloads, and what becomes of  *)
(* an action that a phone reports again as it was served.  Texts are values;      *)
(* Bad stands for a field of the wrong type, over its length or unreadable,       *)
(* NoText for a timestamp of the wrong type, which nothing looks for, and Missing *)
(* for a field that is absent, null or (an optional text) blank.  Times are       *)
(* ticks, a whole number of which make a second; datetime ends at both ends.      *)
EXTENDS Integers, FiniteSets

CONSTANTS Subjects,             \* podcast and episode URLs
          Verbs, Play,          \* Action, and the verb with a position
          Guids,                \* guids short enough for the column
          Missing, Bad, NoText,
          Offsets,              \* whole numbers a client may send as an offset
          MaxPositionSeconds,
          LastTick,             \* datetime.max; datetime.min is tick 0
          TicksPerSecond,
          Zones,                \* UTC offsets a timestamp may carry, in ticks
          Now,                  \* timezone.now(), which no two uploads need tell apart
          Reports(_),           \* whether a client sends such an object
          Refused, Crashed,     \* answers: a 400, and an exception nobody turns into one
          Nobody,               \* nothing uploaded yet
          MaxRows               \* bound of the model: rows stored

ASSUME WireAssumption == /\ Play \in Verbs /\ Offsets \subseteq Int /\ Zones \subseteq Int
                         /\ LastTick \in Nat /\ TicksPerSecond \in Nat \ {0}
                         /\ MaxPositionSeconds \in Nat /\ MaxRows \in Nat
                         /\ Now \in 0..LastTick

VARIABLES rows,     \* the stored actions, without their account and device
          answer    \* of the last upload: its record, Refused or Crashed

wireVars == <<rows, answer>>

Ticks == 0..LastTick
Stamps == [local : Ticks, zone : Zones]

(* What is absent or unusable is no text, no number and no time.                  *)
ASSUME AbsenceAssumption == /\ Missing # Bad
                            /\ Bad \notin Subjects /\ Bad \notin Verbs
                            /\ {Missing, Bad} \cap Guids = {}
                            /\ {Missing, Bad} \cap Offsets = {}
                            /\ NoText \notin {Missing, Bad}
                            /\ {Missing, Bad, NoText} \cap
                                 [local : Ticks, zone : Zones \cup {0}] = {}

Raw == [subject : Subjects \cup {Bad}, verb : Verbs \cup {Bad},
        stamp : Stamps \cup {Missing, Bad, NoText}, guid : Guids \cup {Missing, Bad},
        started : Offsets \cup {Missing, Bad}, position : Offsets \cup {Missing, Bad},
        total : Offsets \cup {Missing, Bad}]

(* --------------------------------- uploading ---------------------------------- *)

(* parse_timestamp: a local time, read as UTC or moved to it.                     *)
Moment(stamp) == stamp.local - stamp.zone

(* Mutant: only what is too large is out of range.                                *)
InRangeAbove(offset) ==
  offset = Missing \/ (offset # Bad /\ offset <= MaxPositionSeconds)

InRange(offset) ==
  offset = Missing \/ (offset # Bad /\ -MaxPositionSeconds <= offset
                                    /\ offset <= MaxPositionSeconds)

(* parse_action reads the fields in turn.  What it refuses up to the timestamp is *)
(* refused; a number has no strip(), and a moment outside datetime no UTC: both    *)
(* raise what parse_timestamp does not catch.                                     *)
RefusedEarly(raw) == raw.subject = Bad \/ raw.verb = Bad \/ raw.stamp = Bad
Raises(raw) ==
  \/ raw.stamp = NoText
  \/ raw.stamp \notin {Missing, Bad, NoText} /\ Moment(raw.stamp) \notin Ticks
RefusedLate(raw) ==
  \/ raw.guid = Bad
  \/ ~InRange(raw.started) \/ ~InRange(raw.position) \/ ~InRange(raw.total)

Parsed(raw) ==
  [subject |-> raw.subject, verb |-> raw.verb, guid |-> raw.guid,
   started |-> raw.started, position |-> raw.position, total |-> raw.total,
   at |-> IF raw.stamp = Missing THEN Now ELSE Moment(raw.stamp)]

(* Mutant: an offset of 0 is taken for an absent one.                             *)
ContentKeyFalsy(r) ==
  LET orNone(offset) == IF offset \in {Missing, 0} THEN -1 ELSE offset
  IN  <<r.subject, r.verb, r.guid, orNone(r.started), orNone(r.position), orNone(r.total)>>

(* content_key, and the Coalesce of the uniqueness constraint.                    *)
ContentKey(r) ==
  LET orNone(offset) == IF offset = Missing THEN -1 ELSE offset
  IN  <<r.subject, r.verb, r.guid, orNone(r.started), orNone(r.position), orNone(r.total)>>

Known(r) == \E q \in rows : ContentKey(q) = ContentKey(r)

Accept(raw) ==
  LET r == Parsed(raw)
  IN  /\ ~RefusedEarly(raw) /\ ~Raises(raw) /\ ~RefusedLate(raw)
      /\ Known(r) \/ Cardinality(rows) < MaxRows
      /\ rows' = IF Known(r) THEN rows ELSE rows \cup {r}
      /\ answer' = r

Refuse(raw) ==
  /\ RefusedEarly(raw) \/ (~Raises(raw) /\ RefusedLate(raw))
  /\ answer' = Refused
  /\ UNCHANGED rows

Crash(raw) ==
  /\ ~RefusedEarly(raw) /\ Raises(raw)
  /\ answer' = Crashed
  /\ UNCHANGED rows

(* -------------------------------- downloading --------------------------------- *)

(* has_playback_position: the client's own guard.                                 *)
HasPosition(r) ==
  /\ r.verb = Play
  /\ r.started # Missing /\ r.position # Missing /\ r.total # Missing
  /\ r.started >= 0 /\ r.position > 0 /\ r.total > 0

(* Mutant: a fraction of a second counts as a whole one.                          *)
WholeSecondUp(tick) ==
  [local |-> tick + ((-tick) % TicksPerSecond), zone |-> 0]

(* format_timestamp: no offset, no fraction.                                      *)
WholeSecond(tick) == [local |-> tick - (tick % TicksPerSecond), zone |-> 0]

(* serialise_action, as the object a client may upload in its turn.               *)
Served(r) ==
  LET offset(o) == IF HasPosition(r) THEN o ELSE Missing
  IN  [subject |-> r.subject, verb |-> r.verb, guid |-> r.guid,
       stamp |-> WholeSecond(r.at), started |-> offset(r.started),
       position |-> offset(r.position), total |-> offset(r.total)]

(* ------------------------------- specification --------------------------------- *)

Upload(raw) == Accept(raw) \/ Refuse(raw) \/ Crash(raw)

(* A client reports an action as it was served, or without its timestamp.          *)
Relay(r) ==
  \/ Upload(Served(r))
  \/ Upload([Served(r) EXCEPT !.stamp = Missing])

Init == rows = {} /\ answer = Nobody

Next ==
  \/ \E raw \in Raw : Reports(raw) /\ Upload(raw)
  \/ \E r \in rows : Relay(r)

Spec == Init /\ [][Next]_wireVars

(* --------------------------------- properties ---------------------------------- *)

(* Nothing is stored that the columns cannot hold.                                 *)
WireTypeOK ==
  \A r \in rows : /\ r.subject \in Subjects /\ r.verb \in Verbs
                  /\ r.guid \in Guids \cup {Missing}
                  /\ \A o \in {r.started, r.position, r.total} : o # Missing =>
                       o \in -MaxPositionSeconds..MaxPositionSeconds
                  /\ r.at \in Ticks

(* What a client is shown of an action: everything but when.                       *)
Shown(r) == [Served(r) EXCEPT !.stamp = Missing]

(* A report that is taken for a repetition says nothing a client could have seen   *)
(* beyond the row that is kept: absent and -1 collapse, a real 0 stays apart where  *)
(* it matters (episode_actions.py:176-179).                                        *)
CollapseLosesNothing ==
  answer \notin {Nobody, Refused, Crashed} =>
    \E r \in rows : ContentKey(r) = ContentKey(answer) /\ Shown(r) = Shown(answer)

(* Whatever is stored can be served, and a client that reports it again is heard:  *)
(* it is accepted, shows the same to everybody, and is never later than the row it *)
(* was served from, so an echo replaces no winner.                                 *)
EchoChangesNothing ==
  \A r \in rows :
    LET echo == Served(r)
    IN  /\ ~RefusedEarly(echo) /\ ~Raises(echo) /\ ~RefusedLate(echo)
        /\ Shown(Parsed(echo)) = Shown(r)
        /\ Parsed(echo).at <= r.at

(* "Raises InvalidAction rather than returning a degraded object"                   *)
(* (episode_actions.py:119): an upload is stored or refused, and nothing else.     *)
StoredOrRefused == answer # Crashed
================================================================================

---------------------------- MODULE ActionWire_proofs ----------------------------
(* Theorems about ActionWire, for any texts, offsets, time zones and resolution  *)
(* of the clock.                                                                 *)
EXTENDS ActionWire, TLAPS

(* What the columns of a stored action hold.                                     *)
Stored == [subject : Subjects, verb : Verbs, guid : Guids \cup {Missing},
           started : Offsets \cup {Missing}, position : Offsets \cup {Missing},
           total : Offsets \cup {Missing}, at : Ticks]

InRanges(r) == InRange(r.started) /\ InRange(r.position) /\ InRange(r.total)

WireInv == /\ rows \subseteq Stored
           /\ \A r \in rows : InRanges(r)
           /\ CollapseLosesNothing

(* A whole second below a tick is a tick, and no later.                          *)
LEMMA WholeSecondIsEarlier ==
  ASSUME NEW t \in Ticks
  PROVE  Moment(WholeSecond(t)) \in Ticks /\ Moment(WholeSecond(t)) <= t
         /\ WholeSecond(t) \in [local : Ticks, zone : Zones \cup {0}]
<1>1. LastTick \in Nat /\ TicksPerSecond \in Nat \ {0} /\ t \in Nat /\ t <= LastTick
  BY WireAssumption DEF Ticks
<1>2. t % TicksPerSecond \in Nat /\ t % TicksPerSecond <= t
  BY <1>1
<1>3. t - (t % TicksPerSecond) \in Ticks /\ t - (t % TicksPerSecond) <= t
  BY <1>1, <1>2 DEF Ticks
<1>. QED BY <1>1, <1>3 DEF Moment, WholeSecond, Ticks

(* An action that is as good as stored is shown to everybody as its content says. *)
LEMMA SameKeyShowsSame ==
  ASSUME NEW r \in Stored, NEW q \in Stored, ContentKey(q) = ContentKey(r)
  PROVE  Shown(q) = Shown(r)
<1> DEFINE orNone(o) == IF o = Missing THEN -1 ELSE o
<1>1. /\ q.subject = r.subject /\ q.verb = r.verb /\ q.guid = r.guid
      /\ orNone(q.started) = orNone(r.started)
      /\ orNone(q.position) = orNone(r.position)
      /\ orNone(q.total) = orNone(r.total)
  BY DEF ContentKey
<1>2. \A o \in Offsets : o \in Int
  BY WireAssumption
<1>3. /\ r.started \in Offsets \cup {Missing} /\ q.started \in Offsets \cup {Missing}
      /\ r.position \in Offsets \cup {Missing} /\ q.position \in Offsets \cup {Missing}
      /\ r.total \in Offsets \cup {Missing} /\ q.total \in Offsets \cup {Missing}
  BY DEF Stored
<1>4. HasPosition(r) => /\ HasPosition(q) /\ q.started = r.started
                        /\ q.position = r.position /\ q.total = r.total
  BY <1>1, <1>2, <1>3 DEF HasPosition
<1>5. HasPosition(q) => HasPosition(r)
  BY <1>1, <1>2, <1>3 DEF HasPosition
<1>. QED BY <1>1, <1>4, <1>5 DEF Shown, Served

(* What is accepted of an object fits the columns.                               *)
LEMMA AcceptedFits ==
  ASSUME NEW raw, raw.subject \in Subjects \cup {Bad}, raw.verb \in Verbs \cup {Bad},
         raw.guid \in Guids \cup {Missing, Bad},
         raw.started \in Offsets \cup {Missing, Bad},
         raw.position \in Offsets \cup {Missing, Bad},
         raw.total \in Offsets \cup {Missing, Bad},
         ~RefusedEarly(raw), ~Raises(raw), ~RefusedLate(raw)
  PROVE  Parsed(raw) \in Stored /\ InRanges(Parsed(raw))
<1>1. /\ raw.subject \in Subjects /\ raw.verb \in Verbs /\ raw.guid \in Guids \cup {Missing}
      /\ InRange(raw.started) /\ InRange(raw.position) /\ InRange(raw.total)
  BY DEF RefusedEarly, RefusedLate
<1>2. /\ raw.started \in Offsets \cup {Missing} /\ raw.position \in Offsets \cup {Missing}
      /\ raw.total \in Offsets \cup {Missing}
  BY <1>1, AbsenceAssumption DEF InRange
<1>3. Parsed(raw).at \in Ticks
  BY WireAssumption DEF Parsed, RefusedEarly, Raises, Ticks
<1>. QED BY <1>1, <1>2, <1>3 DEF Parsed, Stored, InRanges

(* An upload keeps the invariant, whoever sends it.                              *)
LEMMA UploadKeeps ==
  ASSUME WireInv, NEW raw, raw.subject \in Subjects \cup {Bad}, raw.verb \in Verbs \cup {Bad},
         raw.guid \in Guids \cup {Missing, Bad},
         raw.started \in Offsets \cup {Missing, Bad},
         raw.position \in Offsets \cup {Missing, Bad},
         raw.total \in Offsets \cup {Missing, Bad},
         Upload(raw)
  PROVE  WireInv'
<1>1. CASE Accept(raw)
  <2> DEFINE r == Parsed(raw)
  <2>1. /\ ~RefusedEarly(raw) /\ ~Raises(raw) /\ ~RefusedLate(raw)
        /\ rows' = (IF Known(r) THEN rows ELSE rows \cup {r}) /\ answer' = r
    BY <1>1 DEF Accept
  <2>2. r \in Stored /\ InRanges(r)
    BY <2>1, AcceptedFits
  <2>. HIDE DEF r
  <2>3. rows' \subseteq Stored /\ \A q \in rows' : InRanges(q)
    BY <2>1, <2>2 DEF WireInv
  <2>4. PICK q \in rows' : ContentKey(q) = ContentKey(r)
    BY <2>1 DEF Known
  <2>5. Shown(q) = Shown(r)
    BY <2>2, <2>3, <2>4, SameKeyShowsSame
  <2>. QED BY <2>1, <2>3, <2>4, <2>5 DEF WireInv, CollapseLosesNothing
<1>2. CASE Refuse(raw) \/ Crash(raw)
  BY <1>2 DEF Refuse, Crash, WireInv, CollapseLosesNothing
<1>. QED BY <1>1, <1>2 DEF Upload

LEMMA WireInvariant == Spec => []WireInv
<1>1. Init => WireInv
  BY DEF Init, WireInv, CollapseLosesNothing
<1>2. WireInv /\ [Next]_wireVars => WireInv'
  <2> SUFFICES ASSUME WireInv, [Next]_wireVars PROVE WireInv'
    OBVIOUS
  <2>1. ASSUME NEW raw \in Raw, Upload(raw) PROVE WireInv'
    BY <2>1, UploadKeeps DEF Raw
  <2>2. ASSUME NEW r \in rows, Relay(r) PROVE WireInv'
    <3> DEFINE again == [Served(r) EXCEPT !.stamp = Missing]
    <3>1. r \in Stored
      BY DEF WireInv
    <3>2. /\ Served(r).subject = r.subject /\ Served(r).verb = r.verb
          /\ Served(r).guid = r.guid
          /\ Served(r).started \in {r.started, Missing}
          /\ Served(r).position \in {r.position, Missing}
          /\ Served(r).total \in {r.total, Missing}
      BY DEF Served
    <3>3. /\ again.subject = r.subject /\ again.verb = r.verb /\ again.guid = r.guid
          /\ again.started \in {r.started, Missing}
          /\ again.position \in {r.position, Missing}
          /\ again.total \in {r.total, Missing}
      BY DEF Served
    <3>. HIDE DEF again
    <3>4. CASE Upload(Served(r))
      BY <3>1, <3>2, <3>4, UploadKeeps DEF Stored
    <3>5. CASE Upload(again)
      BY <3>1, <3>3, <3>5, UploadKeeps DEF Stored
    <3>. QED BY <2>2, <3>4, <3>5 DEF Relay, again
  <2>3. CASE UNCHANGED wireVars
    BY <2>3 DEF wireVars, WireInv, CollapseLosesNothing
  <2>. QED BY <2>1, <2>2, <2>3 DEF Next
<1>. QED BY <1>1, <1>2, PTL DEF Spec

(* Nothing is stored that the columns cannot hold.                               *)
THEOREM ColumnsHold == Spec => []WireTypeOK
<1>1. WireInv => WireTypeOK
  <2> SUFFICES ASSUME WireInv, NEW r \in rows
               PROVE  /\ r.subject \in Subjects /\ r.verb \in Verbs
                      /\ r.guid \in Guids \cup {Missing}
                      /\ \A o \in {r.started, r.position, r.total} : o # Missing =>
                           o \in -MaxPositionSeconds..MaxPositionSeconds
                      /\ r.at \in Ticks
    BY DEF WireTypeOK
  <2>1. r \in Stored /\ InRanges(r)
    BY DEF WireInv
  <2>2. \A o \in {r.started, r.position, r.total} : o # Missing =>
          o \in -MaxPositionSeconds..MaxPositionSeconds
    BY <2>1, WireAssumption DEF Stored, InRanges, InRange
  <2>. QED BY <2>1, <2>2 DEF Stored
<1>. QED BY <1>1, WireInvariant, PTL

(* A report taken for a repetition says nothing beyond the row that is kept.     *)
THEOREM NothingCollapses == Spec => []CollapseLosesNothing
<1>1. WireInv => CollapseLosesNothing
  BY DEF WireInv
<1>. QED BY <1>1, WireInvariant, PTL

(* Whatever is stored can be served and reported again, and replaces no winner.  *)
THEOREM EchoesAreHarmless == Spec => []EchoChangesNothing
<1>1. WireInv => EchoChangesNothing
  <2> SUFFICES ASSUME WireInv, NEW r \in rows
               PROVE  /\ ~RefusedEarly(Served(r)) /\ ~Raises(Served(r))
                      /\ ~RefusedLate(Served(r))
                      /\ Shown(Parsed(Served(r))) = Shown(r)
                      /\ Parsed(Served(r)).at <= r.at
    BY DEF EchoChangesNothing
  <2> DEFINE echo == Served(r)
  <2>1. r \in Stored /\ InRanges(r)
    BY DEF WireInv
  <2>2. /\ echo.subject = r.subject /\ echo.verb = r.verb /\ echo.guid = r.guid
        /\ echo.stamp = WholeSecond(r.at)
        /\ echo.started = IF HasPosition(r) THEN r.started ELSE Missing
        /\ echo.position = IF HasPosition(r) THEN r.position ELSE Missing
        /\ echo.total = IF HasPosition(r) THEN r.total ELSE Missing
    BY DEF Served
  <2>. HIDE DEF echo
  <2>3. /\ Moment(echo.stamp) \in Ticks /\ Moment(echo.stamp) <= r.at
        /\ echo.stamp \notin {Missing, Bad, NoText}
    BY <2>1, <2>2, WholeSecondIsEarlier, AbsenceAssumption DEF Stored
  <2>4. ~RefusedEarly(echo) /\ ~Raises(echo)
    BY <2>1, <2>2, <2>3, AbsenceAssumption DEF RefusedEarly, Raises, Stored
  <2>5. ~RefusedLate(echo)
    <3>1. echo.guid # Bad
      BY <2>1, <2>2, AbsenceAssumption DEF Stored
    <3>. QED BY <2>1, <2>2, <3>1 DEF RefusedLate, InRanges, InRange
  <2>6. Parsed(echo).at <= r.at
    BY <2>3 DEF Parsed
  <2>7. /\ Parsed(echo).subject = r.subject /\ Parsed(echo).verb = r.verb
        /\ Parsed(echo).guid = r.guid
        /\ Parsed(echo).started = IF HasPosition(r) THEN r.started ELSE Missing
        /\ Parsed(echo).position = IF HasPosition(r) THEN r.position ELSE Missing
        /\ Parsed(echo).total = IF HasPosition(r) THEN r.total ELSE Missing
    BY <2>2 DEF Parsed
  <2>8. Shown(Parsed(echo)) = Shown(r)
    <3>1. HasPosition(Parsed(echo)) <=> HasPosition(r)
      BY <2>7 DEF HasPosition
    <3>. HIDE DEF echo
    <3>. QED BY <2>7, <3>1 DEF Shown, Served
  <2>. QED BY <2>4, <2>5, <2>6, <2>8 DEF echo
<1>. QED BY <1>1, WireInvariant, PTL
================================================================================

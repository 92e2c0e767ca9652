------------------------------ MODULE Calendar ------------------------------
(***************************************************************************)
(* Calendar objects: their recurrence sets and what the time-range filters *)
(* say of them, read from the file and read from the index                 *)
(* (xandikos/icalendar.py).                                                *)
(*                                                                         *)
(* Time is counted in ticks, Day ticks to a day.  A time in a calendar     *)
(* object is what the object writes: UTC ticks when it ends in Z, ticks of *)
(* a wall clock that runs Offset ticks behind UTC when it has a TZID, and  *)
(* for a floating time or a date ticks of whatever clock reads it.         *)
(***************************************************************************)
EXTENDS Integers, Sequences, FiniteSets

CONSTANTS Day, Offset

ASSUME ClockAssumption == Day \in Nat \ {0} /\ Offset \in Nat

None == -1          \* the property is not in the component
Zones == {"utc", "tzid", "float", "date"}

\* A window is the time-range of a report: [from |-> first tick, to |-> the
\* tick after the last].
Floor(t) == t - (t % Day)

\* What the tzify of a report makes of time t of component c, the clock of
\* the report being tz ticks behind UTC.
Tzify(c, t, tz) ==
    t + CASE c.zone = "utc" -> 0 [] c.zone = "tzid" -> Offset [] OTHER -> tz

(***************************************************************************)
(* Does a component overlap a window?  One operator per kind.              *)
(***************************************************************************)
OverlapsVevent(c, w, tz) ==
    LET s == Tzify(c, c.start, tz) IN
    /\ w.to > s
    /\ CASE c.end # None -> w.from < Tzify(c, c.end, tz)
         [] c.end = None /\ c.dur # None -> w.from < s + c.dur
         [] c.end = None /\ c.dur = None /\ c.zone # "date" -> w.from <= s
         [] OTHER -> w.from < s + Day

OverlapsStartedVtodo(c, w, tz) ==
    LET s == Tzify(c, c.start, tz) IN
    CASE c.dur # None /\ c.end = None ->
            w.from <= s + c.dur /\ (w.to > s \/ w.to >= s + c.dur)
      [] c.dur = None /\ c.end # None ->
            w.from < Tzify(c, c.end, tz) /\ w.to > s
      [] OTHER -> w.from <= s /\ w.to > s

OverlapsVtodo(c, w, tz) ==
    IF c.start # None THEN OverlapsStartedVtodo(c, w, tz)
    ELSE IF c.end # None
         THEN LET due == Tzify(c, c.end, tz) IN w.from < due /\ w.to >= due
         ELSE LET marks == {c.created, c.done} \ {None} IN
              /\ marks # {} => \E mark \in marks : w.to >= mark
              /\ c.done # None => \E mark \in marks : w.from <= mark

Overlaps(c, w, tz) ==
    CASE c.kind = "VEVENT" -> OverlapsVevent(c, w, tz)
      [] c.kind = "VTODO" -> OverlapsVtodo(c, w, tz)

(***************************************************************************)
(* Recurrence.                                                             *)
(***************************************************************************)
IsRecurring(c) == c.step # 0

\* An EXDATE or an RDATE is read as a time of the kind DTSTART is.
NormalizeToDtstart(c, x) ==
    IF c.zone = "date" THEN Floor(x.at)
    ELSE IF x.isDate THEN Floor(x.at) + (c.start % Day) ELSE x.at

RruleSet(c) ==
    LET Read(xs) == {NormalizeToDtstart(c, x) : x \in xs}
    IN  ({c.start + i * c.step : i \in 0 .. c.count - 1} \cup Read(c.rdates))
            \ Read(c.exdates)

EventDuration(c) ==
    IF c.dur # None THEN c.dur
    ELSE IF c.end # None /\ c.start # None THEN c.end - c.start ELSE 0

\* The occurrence of a recurring component that begins at ts.
Occurrence(c, ts) ==
    [c EXCEPT !.start = ts, !.step = 0, !.count = 0, !.exdates = {}, !.rdates = {},
              !.recid = ts, !.end = IF @ = None THEN None ELSE ts + (@ - c.start)]

\* Mutant: the occurrences in the window as it is.
BetweenBounds(c, w, duration) ==
    {ts \in RruleSet(c) : w.from <= Tzify(c, ts, 0) /\ Tzify(c, ts, 0) <= w.to}

\* The occurrences the rule is asked for: the window, widened to the left by
\* the duration, on the clock of DTSTART; a date knows only days.
Between(c, w, duration) ==
    LET lo == w.from - duration
        Bound(t) == IF c.zone = "date" THEN Floor(t) ELSE t
    IN  {ts \in RruleSet(c) : /\ Bound(lo) <= Tzify(c, ts, 0)
                              /\ Tzify(c, ts, 0) <= Bound(w.to)}

\* A calendar object is a set of components.  Only the index minds their order.
IsOverride(c) == c.recid # None
Overrides(obj) == {c \in obj : IsOverride(c)}
Masters(obj) == {c \in obj : ~IsOverride(c)}
HasRecurrence(obj) == \E c \in obj : IsRecurring(c) \/ IsOverride(c)

\* _event_overlaps_range: always on a clock of UTC.
EventOverlapsRange(c, w) == Overlaps(c, w, 0)

ExpandRrule(obj, c, w) ==
    {o \in {IF \E e \in Overrides(obj) : e.recid = ts
            THEN CHOOSE e \in Overrides(obj) : e.recid = ts
            ELSE Occurrence(c, ts) : ts \in Between(c, w, EventDuration(c))} :
        EventOverlapsRange(o, w)}

\* get_expanded_calendar: the components that stand for the object within w.
ExpandCalendar(obj, w) ==
    IF ~HasRecurrence(obj)
    THEN obj
    ELSE (UNION {ExpandRrule(obj, c, w) : c \in {m \in Masters(obj) : IsRecurring(m)}})
         \cup {m \in Masters(obj) : ~IsRecurring(m)}
         \cup {e \in Overrides(obj) : EventOverlapsRange(e, w)}

(***************************************************************************)
(* calendar-query, from the file.  A filter asks for a component of a      *)
(* kind, in a window (or at any time: NoWindow), with a text in one of its *)
(* properties (or without: the property is not asked about).               *)
(***************************************************************************)
NoWindow == [from |-> None, to |-> None]

TextMatches(text, f) == (text = f.text) # f.negate

PropertyMatches(c, f) ==
    CASE f.prop = "any" -> TRUE
      [] f.prop = "undefined" -> c.text = ""
      [] f.prop = "text" -> c.text # "" /\ TextMatches(c.text, f)

ComponentMatches(c, f, tz) ==
    /\ c.kind = f.kind
    /\ f.w # NoWindow => Overlaps(c, f.w, tz)
    /\ PropertyMatches(c, f)

Check(obj, f, tz) ==
    LET c == IF f.w = NoWindow THEN obj ELSE ExpandCalendar(obj, f.w)
    IN  \E sub \in c : ComponentMatches(sub, f, tz)

(***************************************************************************)
(* calendar-query, from the index.  The index has for each property the    *)
(* values it takes in the components of a kind, one after the other, and   *)
(* writes a time without its TZID.  Here obj is a sequence.                *)
(***************************************************************************)
Nth(rows, i) == CHOOSE r \in rows : Cardinality({q \in rows : q <= r}) = i

Values(obj, kind, Has(_), Value(_)) ==
    LET rows == {r \in DOMAIN obj : obj[r].kind = kind /\ Has(obj[r])}
    IN  [i \in 1 .. Cardinality(rows) |-> Value(obj[Nth(rows, i)])]

IndexZone(c) == IF c.zone = "tzid" THEN "float" ELSE c.zone

Indexes(obj, kind) ==
    [start |-> Values(obj, kind, LAMBDA c : c.start # None,
                      LAMBDA c : [at |-> c.start, zone |-> IndexZone(c)]),
     end   |-> Values(obj, kind, LAMBDA c : c.end # None,
                      LAMBDA c : [at |-> c.end, zone |-> IndexZone(c)]),
     dur   |-> Values(obj, kind, LAMBDA c : c.dur # None, LAMBDA c : c.dur),
     done  |-> Values(obj, kind, LAMBDA c : c.done # None, LAMBDA c : c.done),
     created |-> Values(obj, kind, LAMBDA c : c.created # None, LAMBDA c : c.created),
     rrule |-> Values(obj, kind, IsRecurring,
                      LAMBDA c : [step |-> c.step, count |-> c.count]),
     text  |-> Values(obj, kind, LAMBDA c : c.text # "", LAMBDA c : c.text)]

\* What the i-th values make together, whichever components they are from.
Joined(ix, kind, i) ==
    LET Has(field) == i <= Len(ix[field])
        Time(field) == IF Has(field) THEN ix[field][i].at ELSE None
        Length(field) == IF Has(field) THEN ix[field][i] ELSE None
    IN  [kind |-> kind, start |-> Time("start"), end |-> Time("end"),
         dur |-> Length("dur"), done |-> Length("done"), created |-> Length("created"),
         zone |-> IF Has("start") THEN ix.start[i].zone
                  ELSE IF Has("end") THEN ix.end[i].zone ELSE "utc",
         step |-> IF Has("rrule") THEN ix.rrule[i].step ELSE 0,
         count |-> IF Has("rrule") THEN ix.rrule[i].count ELSE 0,
         exdates |-> {}, rdates |-> {}, recid |-> None]

\* The rule and the start that come first in the index, without what else
\* belongs to the recurrence set.  The end of an event of days is not looked at,
\* and an end that takes no time is taken for none.
RruleMatches(ix, f, tz) ==
    LET first == Joined(ix, f.kind, 1)
        c     == [first EXCEPT !.end =
                      IF first.zone = "date" \/ first.dur # None \/ @ = first.start
                      THEN None ELSE @]
        w     == [f.w EXCEPT !.to = IF c.zone = "date" THEN Floor(@) + Day ELSE @]
    IN  \E ts \in Between(c, w, EventDuration(c)) : Overlaps(Occurrence(c, ts), f.w, tz)

\* Mutant: a time without a zone is expanded from the index like any other.
MatchIndexesNaively(ix, f, tz) == IF RruleMatches(ix, f, tz) THEN "yes" ELSE "no"

\* _match_indexes_with_rrule: what has no zone in the index may have had one.
MatchIndexesWithRrule(ix, f, tz) ==
    IF ix.start[1].zone = "float" THEN "insufficient"
    ELSE IF RruleMatches(ix, f, tz) THEN "yes" ELSE "no"

MatchIndexesPlain(ix, f, tz) ==
    LET rows == UNION {DOMAIN ix[field] : field \in {"start", "end", "dur", "done", "created"}}
    IN  IF rows = {} THEN "insufficient"
        ELSE IF \E i \in rows : Overlaps(Joined(ix, f.kind, i), f.w, tz)
             THEN "yes" ELSE "no"

TimeRangeMatchesIndexes(ix, f, tz) ==
    CASE f.w = NoWindow -> "yes"
      [] f.w # NoWindow /\ ix.rrule = <<>> -> MatchIndexesPlain(ix, f, tz)
      [] f.w # NoWindow /\ ix.rrule # <<>> ->
            IF ix.start = <<>> THEN "no" ELSE MatchIndexesWithRrule(ix, f, tz)

PropertyMatchesIndexes(ix, f) ==
    CASE f.prop = "any" -> TRUE
      [] f.prop = "undefined" -> ix.text = <<>>
      [] f.prop = "text" -> \E i \in DOMAIN ix.text : TextMatches(ix.text[i], f)

\* "yes", "no", or "insufficient", upon which the store reads the file.
CheckFromIndexes(obj, f, tz) ==
    LET ix   == Indexes(obj, f.kind)
        time == TimeRangeMatchesIndexes(ix, f, tz)
    IN  IF f.prop # "text" /\ \A i \in DOMAIN obj : obj[i].kind # f.kind THEN "no"
        ELSE IF time = "yes" /\ ~PropertyMatchesIndexes(ix, f) THEN "no" ELSE time

(***************************************************************************)
(* limit-recurrence-set: the overrides a client with an interest in w gets *)
(***************************************************************************)
\* Mutant: only the instance an override replaces is looked at.
IsRelevantByRecid(e, w) ==
    LET recid == Tzify(e, e.recid, 0) IN w.from <= recid /\ recid <= w.to

\* The end of an event or a duration is looked at, the due time of a task is not.
IsRelevant(e, w) ==
    LET Bound(t) == IF e.zone = "date" THEN Floor(t) ELSE t
        recid == Tzify(e, e.recid, 0)
        start == Tzify(e, e.start, 0)
        end   == IF e.kind = "VEVENT" /\ e.end # None THEN Tzify(e, e.end, 0)
                 ELSE IF e.dur # None THEN start + e.dur ELSE start
    IN  \/ Bound(w.from) <= recid /\ recid <= Bound(w.to)
        \/ start < Bound(w.to) /\ end > Bound(w.from)

LimitRecurrenceSet(obj, w) == {c \in obj : IsOverride(c) => IsRelevant(c, w)}

(***************************************************************************)
(* The calendar-query report, and calendar-data in it.  A query q has a    *)
(* filter, perhaps a clock of its own, and says what of an object to send: *)
(* all of it, or of its instances those in a window, one by one or not.    *)
(***************************************************************************)
ExtractFromCalendar(obj, data, w) ==
    CASE data = "all" -> obj
      [] data = "limit" -> LimitRecurrenceSet(obj, w)
      [] data = "expand" -> ExpandCalendar(obj, w)

\* The clock on which a query is answered: its own, or else the calendar's.
ClockOf(q, timezone) == IF q.tz # None THEN q.tz ELSE timezone

\* What the report sends of an object: nothing when it does not match.
CalendarQuery(obj, q, timezone) ==
    IF Check(obj, q.filter, ClockOf(q, timezone))
    THEN ExtractFromCalendar(obj, q.data, q.w) ELSE {}
=============================================================================

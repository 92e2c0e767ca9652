-------------------------- MODULE CalendarReports --------------------------
(***************************************************************************)
(* A calendar whose clients edit an event or a task, its recurrence set    *)
(* and the user's availability, and ask for reports in between.  A report  *)
(* changes nothing: it is an operator of Calendar or FreeBusy, and the     *)
(* properties compare it, in every state and for every window, with what   *)
(* the object means.                                                       *)
(***************************************************************************)
EXTENDS FreeBusy

CONSTANTS
    Drafts,         \* what a client may create: components
    Availabilities, \* what a client may publish: VAVAILABILITY components
    Times,          \* when a client may put an instance
    Windows,        \* the time-ranges clients ask about
    Filters,        \* the rest of what a calendar-query asks for
    Texts,          \* what a text property may say, "": it is absent
    Horizon,        \* where instances are looked for to say what an object means
    MaxEdits

Exceptions == [at : Nat, isDate : BOOLEAN]

Components ==
    [kind : {"VEVENT", "VTODO"}, zone : Zones, start : Nat \cup {None}, end : Nat \cup {None},
     dur : Nat \cup {None}, done : Nat \cup {None}, created : Nat \cup {None},
     step : Nat, count : Nat,
     exdates : SUBSET Exceptions, rdates : SUBSET Exceptions, recid : Nat \cup {None},
     text : Texts, busy : BusyTypes \cup {"FREE"}, declined : BOOLEAN]

IsOnDay(c, t) == c.zone = "date" => t = Floor(t)

\* RFC 5545: what recurs has a DTSTART, and so has an event; there is not both an
\* end and a duration, no end before the start, and dates recur by days.
IsWritten(c) ==
    /\ c \in Components
    /\ c.kind = "VEVENT" \/ IsRecurring(c) => c.start # None
    /\ c.end = None \/ c.dur = None
    /\ c.start # None =>
          /\ IsOnDay(c, c.start) /\ IsOnDay(c, c.step)
          /\ c.end # None => c.start <= c.end
          /\ \A i \in 0 .. c.count - 1 : c.start + i * c.step \in Horizon

ASSUME DraftsAssumption ==
    \A c \in Drafts : IsWritten(c) /\ c.recid = None /\ c.exdates = {} /\ c.rdates = {}
ASSUME TimesAssumption == Times \subseteq Horizon /\ Horizon \subseteq Nat /\ MaxEdits \in Nat
ASSUME TextsAssumption == "changed" \in Texts
ASSUME QueriesAssumption ==
    /\ Windows \subseteq [from : Nat, to : Nat]
    /\ Filters \subseteq [kind : {"VEVENT", "VTODO"}, prop : {"any", "undefined", "text"},
                          text : Texts, negate : BOOLEAN]

VARIABLES
    object,         \* the components of the one calendar object, <<>>: none yet
    availability,   \* the VAVAILABILITY components, in the order of the listing
    timezone,       \* the calendar's clock: ticks behind UTC
    transparent,    \* schedule-calendar-transp of the calendar
    edits

calendarVars == <<object, availability, timezone, transparent, edits>>

CalendarInit ==
    /\ object = <<>>
    /\ availability = <<>>
    /\ timezone = 0
    /\ transparent = FALSE
    /\ edits = 0

Edit == edits < MaxEdits /\ edits' = edits + 1

CreateObject ==
    /\ Edit
    /\ object = <<>>
    /\ \E draft \in Drafts : object' = <<draft>>
    /\ UNCHANGED <<availability, timezone, transparent>>

\* The calendar object, but for the order of its components.
components == ToSet(object)

\* The instances a client sees and has not changed yet.
Unchanged == RruleSet(object[1]) \ {e.recid : e \in Overrides(components)}

ExcludeInstance ==
    /\ Edit
    /\ object # <<>> /\ IsRecurring(object[1])
    /\ \E ts \in Unchanged, isDate \in BOOLEAN :
           object' = [object EXCEPT ![1].exdates = @ \cup {[at |-> ts, isDate |-> isDate]}]
    /\ UNCHANGED <<availability, timezone, transparent>>

AddInstance ==
    /\ Edit
    /\ object # <<>> /\ IsRecurring(object[1])
    /\ \E t \in Times \ RruleSet(object[1]) :
           /\ IsOnDay(object[1], t)
           /\ object' = [object EXCEPT ![1].rdates = @ \cup {[at |-> t, isDate |-> FALSE]}]
    /\ UNCHANGED <<availability, timezone, transparent>>

\* An instance gets a component of its own, at another time ...
MoveInstance ==
    /\ Edit
    /\ object # <<>> /\ IsRecurring(object[1])
    /\ \E ts \in Unchanged, t \in Times :
           LET o == Occurrence(object[1], ts)
           IN  /\ IsOnDay(o, t)
               /\ object' = Append(object, [Occurrence(o, t) EXCEPT !.recid = ts,
                                                                   !.text = "changed"])
    /\ UNCHANGED <<availability, timezone, transparent>>

\* ... or at its time, because its user will not come.
DeclineInstance ==
    /\ Edit
    /\ object # <<>> /\ IsRecurring(object[1])
    /\ \E ts \in Unchanged :
           object' = Append(object, [Occurrence(object[1], ts) EXCEPT !.declined = TRUE])
    /\ UNCHANGED <<availability, timezone, transparent>>

PublishAvailability ==
    /\ Edit
    /\ \E comp \in Availabilities : availability' = Append(availability, comp)
    /\ UNCHANGED <<object, timezone, transparent>>

SetCalendarTimezone ==
    /\ Edit
    /\ timezone' = Offset - timezone
    /\ UNCHANGED <<object, availability, transparent>>

SetScheduleTransparency ==
    /\ Edit
    /\ transparent' = ~transparent
    /\ UNCHANGED <<object, availability, timezone>>

CalendarNext ==
    \/ CreateObject \/ ExcludeInstance \/ AddInstance \/ MoveInstance
    \/ DeclineInstance \/ PublishAvailability \/ SetCalendarTimezone
    \/ SetScheduleTransparency

CalendarSpec == CalendarInit /\ [][CalendarNext]_calendarVars

-----------------------------------------------------------------------------
(***************************************************************************)
(* What an object means: the instances its user sees.                      *)
(***************************************************************************)
Denotes(c, x, ts) ==
    IF x.isDate \/ c.zone = "date"
    THEN Floor(ts) = Floor(x.at) /\ ts % Day = c.start % Day
    ELSE ts = x.at

Takes(c, ts) ==
    /\ \/ \E i \in 0 .. c.count - 1 : ts = c.start + i * c.step
       \/ \E x \in c.rdates : Denotes(c, x, ts)
    /\ \A x \in c.exdates : ~Denotes(c, x, ts)

Instances(obj) ==
    Overrides(obj)
    \cup {m \in Masters(obj) : ~IsRecurring(m)}
    \cup UNION {{Occurrence(m, ts) : ts \in {t \in Horizon :
                    Takes(m, t) /\ \A e \in Overrides(obj) : e.recid # t}} :
                m \in {n \in Masters(obj) : IsRecurring(n)}}

\* The expansion reads times without a zone on a clock of UTC.
IsMisread(obj, tz) ==
    tz # 0 /\ \E c \in obj : IsRecurring(c) /\ c.zone \in {"float", "date"}

Queries == {[kind |-> f.kind, prop |-> f.prop, text |-> f.text, negate |-> f.negate,
             w |-> w] : f \in Filters, w \in Windows}

(***************************************************************************)
(* A calendar-query that reads the file returns an object exactly when an  *)
(* instance of it, as the user sees it after every exclusion, addition and *)
(* move, overlaps the window, on the clock of the query or else of the     *)
(* calendar, and has the properties asked for: the                         *)
(* expansion (icalendar.py:2122) looks for occurrences far enough to the   *)
(* left, and none of an instance's times comes from the rule once an       *)
(* override has replaced it.                                               *)
(***************************************************************************)
QueriesFindOverlaps ==
    LET instances == Instances(components)
    IN  \A f \in Queries, own \in {None, 0, Offset} :
            LET tz == IF own = None THEN timezone ELSE own
                q  == [filter |-> f, tz |-> own, data |-> "all", w |-> f.w]
            IN  ~IsMisread(components, tz) =>
                    (CalendarQuery(components, q, timezone) # {}
                        <=> \E c \in instances : ComponentMatches(c, f, tz))

\* What the index does not hold, or is not asked for: the exceptions of a recurrence
\* set, the end of what recurs by days or takes no time, the zone of a time.
IsWholeInIndex(obj) ==
    /\ Len(obj) = 1
    /\ obj[1].exdates = {} /\ obj[1].rdates = {}
    /\ IsRecurring(obj[1]) /\ (obj[1].zone = "date" \/ obj[1].end = obj[1].start)
          => obj[1].end = None
    /\ obj[1].zone = "tzid" => IsRecurring(obj[1]) \/ Offset = timezone

(***************************************************************************)
(* A calendar-query answered from the index gives the answer the file      *)
(* gives, or says that it cannot tell (store/__init__.py:424 asserts it in *)
(* paranoid mode), for every object the index holds whole.                 *)
(***************************************************************************)
IndexesAgree ==
    IsWholeInIndex(object) /\ ~IsMisread(components, timezone) =>
        \A f \in Queries :
            CheckFromIndexes(object, f, timezone)
                \in {"insufficient", IF Check(components, f, timezone) THEN "yes" ELSE "no"}

\* An override that limit-recurrence-set may leave out although the client then
\* sees the instance it replaces, or not itself: of a task it does not read the due
\* time, of a day not the length, and what has no end it keeps strictly inside only.
HasLostOverride(obj, w) ==
    \E e \in Overrides(obj) :
        \/ e.kind = "VTODO" \/ e.zone = "date"
        \/ e.end = None /\ e.dur = None
        \/ ~IsRelevant(e, w) /\ Overlaps(Occurrence(e, e.recid), w, 0)

(***************************************************************************)
(* What a client gets of an object shows it its window.  Expanded          *)
(* (icalendar.py:2253) it is exactly the instances that overlap it; with   *)
(* limit-recurrence-set (icalendar.py:2299) a client that expands an event *)
(* of hours sees in the window what it would see of the whole object.      *)
(***************************************************************************)
ExtractsShowTheWindow ==
    \A w \in Windows :
        LET Seen(obj) == {c \in Instances(obj) : Overlaps(c, w, 0)}
            limited == LimitRecurrenceSet(components, w)
        IN  /\ HasRecurrence(components) =>
                  ExtractFromCalendar(components, "expand", w) = Seen(components)
            /\ /\ ExtractFromCalendar(components, "limit", w) # components
               /\ ~HasLostOverride(components, w)
               => Seen(limited) = Seen(components)

-----------------------------------------------------------------------------
(***************************************************************************)
(* Free and busy, tick by tick.                                            *)
(***************************************************************************)
Within(t, p) == p.from <= t /\ (p.to = None \/ t < p.to)

\* The availability of the user at tick t: of the components that cover t, those
\* of the highest priority count; of these a later one that leaves t free
\* overrides the earlier ones, and the strongest of the others decides.
TypesAt(comps, t) ==
    LET covering == {i \in DOMAIN comps : Within(t, comps[i])}
        best  == {i \in covering : \A j \in covering : comps[i].prio <= comps[j].prio}
        IsFree(i) == \E k \in DOMAIN comps[i].free : Within(t, comps[i].free[k])
        after == {i \in best : \A j \in best : j >= i => ~IsFree(j)}
    IN  {comps[i].type : i \in {j \in after : \A k \in after :
            Precedence(comps[k].type) <= Precedence(comps[j].type)}}

EventTypesAt(instances, t, tz, knowsUser) ==
    {c.busy : c \in {e \in instances :
        /\ e.kind = "VEVENT" /\ ShowsAsBusy(e, knowsUser)
        /\ Within(t, ExtractFreebusy(e, tz))}}

\* Days without an end count as no time at all: see the README.
BusyIsTrueIn(periods, w, tz, knowsUser) ==
    LET instances == Instances(components)
    IN  \A t \in w.from .. w.to - 1 :
            {p.type : p \in {q \in periods : Within(t, q)}}
                = TypesAt(availability, t) \cup EventTypesAt(instances, t, tz, knowsUser)

\* The user asks the outbox about the window w, on a clock of the user's if that
\* has not begun before time 0, or else without a zone.
RequestFor(w) ==
    LET behind == IF w.from >= Offset THEN Offset ELSE 0
    IN  [zone |-> IF w.from >= Offset THEN "tzid" ELSE "float",
         start |-> w.from - behind, end |-> w.to - behind,
         attendees |-> {"me", "somebody"}]

(***************************************************************************)
(* At every tick of the window the user is busy in the way the events and  *)
(* the availability of the highest priority say, and free otherwise, for   *)
(* the calendar's own report and for the outbox, on whatever clock it is   *)
(* asked: the timeline of caldav.py:1255 cuts, keeps and drops periods     *)
(* without losing a tick, and an event is seen wherever in the window its  *)
(* instance lies.  Of other users the outbox says nothing.                 *)
(***************************************************************************)
FreeBusyIsTrue ==
    \A w \in Windows :
        /\ ~IsMisread(components, timezone) =>
              BusyIsTrueIn(FreeBusyQuery(components, availability, w, timezone),
                           w, timezone, FALSE)
        /\ LET reply == HandlePost(RequestFor(w), {"me"}, components, availability, transparent)
           IN  /\ reply["somebody"].busy = {}
               /\ IF transparent THEN reply["me"].busy = {}
                  ELSE BusyIsTrueIn(reply["me"].busy, w, 0, TRUE)

-----------------------------------------------------------------------------
(* What the proofs need to know of the variables.                          *)

CalendarTypeOK ==
    /\ object \in Seq(Components)
    /\ availability \in Seq(Availabilities)
    /\ timezone \in {0, Offset}
    /\ transparent \in BOOLEAN
    /\ edits \in 0 .. MaxEdits

IsMaster(m) ==
    /\ IsWritten(m)
    /\ ~IsOverride(m)
    /\ IsRecurring(m) \/ (m.exdates = {} /\ m.rdates = {})
    /\ \A x \in m.rdates : x.at \in Times /\ ~x.isDate /\ IsOnDay(m, x.at)

\* A component of its own is as long as the instances that the rule makes.
IsOverrideOf(e, m) ==
    /\ e.kind = m.kind /\ e.zone = m.zone /\ e.dur = m.dur
    /\ ~IsRecurring(e) /\ IsOverride(e)
    /\ e.start # None
    /\ IsOnDay(e, e.start) /\ IsOnDay(e, e.recid)
    /\ e.end = IF m.end = None THEN None ELSE e.start + (m.end - m.start)

\* The first component is the master, and only a recurring one has others.
CalendarInv ==
    /\ CalendarTypeOK
    /\ object # <<>> => IsMaster(object[1])
    /\ \A i \in DOMAIN object \ {1} :
           IsRecurring(object[1]) /\ IsOverrideOf(object[i], object[1])
=============================================================================

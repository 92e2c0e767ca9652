------------------------------ MODULE FreeBusy ------------------------------
(***************************************************************************)
(* Free and busy time: the events of a calendar and the VAVAILABILITY      *)
(* components in it (xandikos/caldav.py iter_freebusy), for the            *)
(* free-busy-query report of a calendar and for the schedule outbox, which *)
(* answers for its own user alone.                                         *)
(*                                                                         *)
(* A VAVAILABILITY component is [prio, from, to, type, free]: its user has *)
(* time of the type outside the periods free, from tick from until tick to *)
(* (None: for ever).  Priority 1 is the highest, 9 the lowest, and 0, no   *)
(* priority, comes above 1.                                                *)
(***************************************************************************)
EXTENDS Calendar, SequencesExt

BusyTypes == {"BUSY", "BUSY-UNAVAILABLE", "BUSY-TENTATIVE"}

Precedence(type) ==
    CASE type = "BUSY" -> 4 [] type = "BUSY-UNAVAILABLE" -> 3
      [] type = "BUSY-TENTATIVE" -> 2 [] type = "FREE" -> 1

TakesPrecedence(p, q) ==
    \/ p.prio < q.prio
    \/ p.prio = q.prio /\ p.type = "FREE" /\ q.type # "FREE"
    \/ p.prio = q.prio /\ Precedence(p.type) > Precedence(q.type)

(***************************************************************************)
(* _add_period_to_timeline.  A timeline is a sequence of disjoint periods  *)
(* in the order of time.  The new period p is compared with each of them;  *)
(* what is left of p lies between acc.from and acc.to.                     *)
(***************************************************************************)
NonEmpty(periods) == SelectSeq(periods, LAMBDA q : q.from < q.to)

Around(q, from, to) ==
    NonEmpty(<<[q EXCEPT !.to = from], [q EXCEPT !.from = to]>>)

\* Mutant: an existing period inside the new one splits off nothing.
CutOffAtStart(acc, p, q) ==
    CASE q.from <= acc.from -> [acc EXCEPT !.out = Append(@, q), !.from = q.to]
      [] acc.from < q.from /\ acc.to <= q.to ->
            [acc EXCEPT !.out = Append(@, q), !.to = q.from]
      [] acc.from < q.from /\ q.to < acc.to ->
            [acc EXCEPT !.out = Append(@, q), !.from = q.to]

CutOff(acc, p, q) ==
    CASE q.from <= acc.from /\ q.to <= acc.to ->
            [acc EXCEPT !.out = Append(@, q), !.from = q.to]
      [] acc.from < q.from /\ acc.to <= q.to ->
            [acc EXCEPT !.out = Append(@, q), !.to = q.from]
      [] q.from <= acc.from /\ q.to > acc.to ->
            [acc EXCEPT !.out = Append(@, q), !.from = acc.to]
      [] acc.from < q.from /\ q.to < acc.to ->
            [acc EXCEPT !.out = @ \o <<q, [p EXCEPT !.from = acc.from, !.to = q.from]>>,
                        !.from = q.to]

MeetPeriod(acc, p, q) ==
    IF q.to <= acc.from \/ q.from >= acc.to THEN [acc EXCEPT !.out = Append(@, q)]
    ELSE IF TakesPrecedence(p, q)
         THEN [acc EXCEPT !.out = @ \o Around(q, acc.from, acc.to)]
         ELSE CutOff(acc, p, q)

AddPeriodToTimeline(timeline, p) ==
    LET done == FoldLeft(LAMBDA acc, q : MeetPeriod(acc, p, q),
                         [out |-> <<>>, from |-> p.from, to |-> p.to], timeline)
        rest == NonEmpty(<<[p EXCEPT !.from = done.from, !.to = done.to]>>)
    IN  SortSeq(done.out \o rest, LAMBDA q, r : q.from < r.from)

(***************************************************************************)
(* process_vavailability_components: the components in the order of their  *)
(* priority, the lowest first, each as one busy period and then its free   *)
(* ones, cut to the window.  Adjacent periods of one type are not joined   *)
(* here: that changes the type of no tick.                                 *)
(***************************************************************************)
ClipToWindow(p, w) ==
    [p EXCEPT !.from = IF @ < w.from THEN w.from ELSE @,
              !.to = IF @ = None \/ @ > w.to THEN w.to ELSE @]

PeriodsOf(comp, w) ==
    LET busy == ClipToWindow([from |-> comp.from, to |-> comp.to,
                              type |-> comp.type, prio |-> comp.prio], w)
        free == [i \in DOMAIN comp.free |->
                    ClipToWindow([busy EXCEPT !.from = comp.free[i].from,
                                              !.to = comp.free[i].to,
                                              !.type = "FREE"], busy)]
    IN  IF busy.from < busy.to THEN <<busy>> \o NonEmpty(free) ELSE <<>>

ByPriority(comps) ==
    FlattenSeq([k \in 1 .. 10 |-> SelectSeq(comps, LAMBDA c : c.prio = 10 - k)])

ProcessVavailability(comps, w) ==
    FoldLeft(AddPeriodToTimeline, <<>>,
             FlattenSeq([i \in DOMAIN comps |-> PeriodsOf(ByPriority(comps)[i], w)]))

AvailabilityPeriods(comps, w) ==
    {[from |-> p.from, to |-> p.to, type |-> p.type] :
        p \in {q \in ToSet(ProcessVavailability(comps, w)) : q.type # "FREE"}}

(***************************************************************************)
(* The events.  An event without an end takes no time, one that its user   *)
(* declined is not on the schedule, if the caller knows who the user is.   *)
(***************************************************************************)
ExtractFreebusy(c, tz) ==
    LET start == Tzify(c, c.start, tz)
    IN  [from |-> start, type |-> c.busy,
         to |-> IF c.end # None THEN Tzify(c, c.end, tz)
                ELSE IF c.dur # None THEN start + c.dur ELSE start]

ShowsAsBusy(c, knowsUser) == c.busy # "FREE" /\ ~(knowsUser /\ c.declined)

EventPeriods(obj, w, tz, knowsUser) ==
    LET events == {c \in ExpandCalendar(obj, w) :
                      /\ c.kind = "VEVENT" /\ Overlaps(c, w, tz)
                      /\ ShowsAsBusy(c, knowsUser)}
        periods == {ExtractFreebusy(c, tz) : c \in events}
    IN  {ClipToWindow(p, w) : p \in {q \in periods : q.to > w.from /\ q.from < w.to}}

IterFreebusy(obj, comps, w, tz, knowsUser) ==
    AvailabilityPeriods(comps, w) \cup EventPeriods(obj, w, tz, knowsUser)

\* The free-busy-query of the calendar, on the calendar's clock.
FreeBusyQuery(obj, comps, w, tz) == IterFreebusy(obj, comps, w, tz, FALSE)

\* The schedule outbox, on a clock of UTC; a transparent calendar says nothing.
AttendeeBusyPeriods(obj, comps, w, isTransparent) ==
    IF isTransparent THEN {} ELSE IterFreebusy(obj, comps, w, 0, TRUE)

(***************************************************************************)
(* A request to the outbox (xandikos/scheduling.py ScheduleOutbox,         *)
(* itip.py) is [zone, start, end, attendees].                              *)
(***************************************************************************)
IsFreebusyRequest(r) == r.start # None /\ r.end # None /\ r.attendees # {}

\* Floating times and dates are read on a clock of UTC.
FreebusyWindow(r) == [from |-> Tzify(r, r.start, 0), to |-> Tzify(r, r.end, 0)]

NoAuthority == [status |-> "3.7", busy |-> {}]
FreebusyReply(periods) == [status |-> "2.0", busy |-> periods]

\* An answer for each attendee; for strangers the server has no authority.
HandlePost(r, own, obj, comps, isTransparent) ==
    IF ~IsFreebusyRequest(r) THEN <<>>
    ELSE [a \in r.attendees |->
            IF a \in own
            THEN FreebusyReply(AttendeeBusyPeriods(obj, comps, FreebusyWindow(r), isTransparent))
            ELSE NoAuthority]
=============================================================================

------------------------ MODULE MCCalendarReports ------------------------
(***************************************************************************)
(* Three days of two ticks, and what can be seen around them.              *)
(***************************************************************************)
EXTENDS CalendarReports

Component(kind, zone, start, end, dur) ==
    [kind |-> kind, zone |-> zone, start |-> start, end |-> end, dur |-> dur,
     done |-> None, created |-> None, step |-> 0, count |-> 0, exdates |-> {}, rdates |-> {},
     recid |-> None, text |-> "written", busy |-> "BUSY", declined |-> FALSE]

Timed(kind, zones, lengths) ==
    {Component(kind, zone, 3, length[1], length[2]) : zone \in zones, length \in lengths}
Short == {<<None, None>>, <<None, 1>>, <<6, None>>, <<3, None>>}
Allday == {Component("VEVENT", "date", 2, end, None) : end \in {None, 4, 6}}
Tasks ==
    {[Component("VTODO", "utc", None, end, None) EXCEPT !.done = done, !.created = created] :
        end \in {None, 4}, done \in {None, 5}, created \in {None, 3}}

Once ==
    Timed("VEVENT", {"utc", "tzid", "float"}, Short \cup {<<4, None>>, <<None, 3>>})
    \cup Timed("VTODO", {"utc", "float"}, Short) \cup Allday \cup Tasks

Often ==
    {[c EXCEPT !.step = 2, !.count = 3] :
        c \in Timed("VEVENT", {"utc", "tzid", "float"}, Short)
              \cup Timed("VTODO", {"utc"}, Short) \cup Allday}

MCDrafts ==
    Once \cup Often
    \cup {[c EXCEPT !.busy = busy] : c \in Timed("VEVENT", {"utc"}, {<<6, None>>}),
                                     busy \in {"FREE", "BUSY-TENTATIVE"}}

Available(prio, from, to, type, free) ==
    [prio |-> prio, from |-> from, to |-> to, type |-> type, free |-> free]

MCAvailabilities ==
    {Available(prio, 1, to, "BUSY-UNAVAILABLE", free) :
        prio \in {0, 1, 9}, to \in {None, 6}, free \in {<<>>, <<[from |-> 3, to |-> 4]>>}}
    \cup {Available(prio, 2, 5, "BUSY", <<[from |-> 0, to |-> 3]>>) : prio \in {1, 9}}
    \cup {Available(9, 2, 4, "BUSY-TENTATIVE", <<>>)}

MCTimes == {1, 4, 8}
MCTexts == {"", "written", "changed"}
MCHorizon == 0 .. 8
MCWindows == {[from |-> a, to |-> b] : a \in {0, 3, 5, 8}, b \in {3, 4, 6, 9}}
MCWindowsInOrder == {w \in MCWindows : w.from < w.to}
MCFilters ==
    {[kind |-> "VEVENT", prop |-> prop, text |-> "written", negate |-> negate] :
        prop \in {"any", "text"}, negate \in BOOLEAN}
    \cup {[kind |-> "VTODO", prop |-> "any", text |-> "", negate |-> FALSE]}
=============================================================================

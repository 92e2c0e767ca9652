-------------------------- MODULE SchedulingProofs --------------------------
(***************************************************************************)
(* Proofs about Scheduling: types, MeetingIsTheOrganisers, StatusIsTrue    *)
(* and CopiesAgree, for any number of attendees, of requests at a time and *)
(* of requests in all.  The first three follow from Inv of Scheduling.     *)
(* CopiesAgree follows from AgreeInv: the requests are orderly, whatever   *)
(* fails (RequestsAreOrderly), and fit together while none has failed      *)
(* half-way (RequestsFitTogether).  What an action does to a request and   *)
(* to the copies is stated once, in a lemma named for the effect, and the  *)
(* parts of the invariant are shown from that.                             *)
(***************************************************************************)
EXTENDS Scheduling, TLAPS

-----------------------------------------------------------------------------
(* Events and messages                                                     *)

LEMMA Entry ==
  ASSUME NEW e \in Events, NEW a \in Attendees, a \in Invited(e)
  PROVE  /\ e.att[a] \in Entries /\ e.att[a].part \in Parts /\ e.att[a].status \in Codes
         /\ e.att[a].from \in Attendees \cup {Absent}
  BY PeopleAssumption DEF Events, Entries, Invited

LEMMA FreshIsEntry ==
  /\ Fresh \in Entries
  /\ \A u \in Attendees : [Fresh EXCEPT !.from = u] \in Entries
  BY DEF Fresh, Entries, Parts, Codes

LEMMA MessageTyped ==
  ASSUME NEW method \in {"REQUEST", "CANCEL", "REPLY"}, NEW e \in Events,
         NEW u \in Users \cup Remote
  PROVE  /\ Message(method, e, u) \in Messages
         /\ Message(method, e, u).method = method
         /\ Message(method, e, u).event = e
         /\ Message(method, e, u).from = u
  BY DEF Message, Messages

\* What clients send are events.
LEMMA EditsTyped ==
  ASSUME NEW e \in Events \cup {Absent}, NEW u \in Users, NEW new \in Edits(e, u),
         ops \in Nat, ops < MaxOps
  PROVE  new \in Events
  <1>1. ops + 1 \in 1 .. MaxOps
    BY PeopleAssumption
  <1>2. CASE e = Absent /\ u = Organiser
    <2>1. PICK s \in SUBSET Attendees :
            new = [what |-> ops + 1, cancelled |-> FALSE,
                   att |-> [a \in Attendees |-> IF a \in s THEN Fresh ELSE Absent]]
      BY <1>2 DEF Edits, OrganiserEdits
    <2> QED BY <1>1, <2>1, FreshIsEntry DEF Events
  <1>4. CASE e = Absent /\ u # Organiser
    <2>1. new \in AttendeeEdits(e, u)
      BY <1>4 DEF Edits
    <2>2. PICK s \in Imports, f \in {Absent, u} :
            new = [what |-> ops + 1, cancelled |-> FALSE,
                   att |-> [a \in Attendees |->
                              IF a \notin s THEN Absent
                              ELSE IF a = u THEN Fresh ELSE [Fresh EXCEPT !.from = f]]]
      BY <1>4, <2>1 DEF AttendeeEdits
    <2>3. Fresh \in Entries /\ [Fresh EXCEPT !.from = f] \in Entries
      <3>1. f = Absent \/ f \in Attendees
        BY <1>4 DEF Users, Attendees
      <3> QED BY <3>1, FreshIsEntry DEF Fresh, Entries
    <2> QED BY <1>1, <2>2, <2>3 DEF Events
  <1>3. CASE e # Absent
    <2>1. e \in Events /\ [e EXCEPT !.what = ops + 1] \in Events
      BY <1>1, <1>3 DEF Events
    <2>2. ASSUME NEW a \in Attendees
          PROVE  [e EXCEPT !.what = ops + 1,
                           !.att[a] = IF @ = Absent THEN Fresh ELSE Absent] \in Events
      BY <2>1, <1>1, FreshIsEntry DEF Events
    <2>3. ASSUME u \in Invited(e), NEW p \in {"accepted", "declined"}
          PROVE  [e EXCEPT !.att[u].part = p] \in Events
      <3>1. u \in Attendees /\ e.att[u] \in Entries
        BY <2>1, <2>3, Entry DEF Invited
      <3>2. [e.att[u] EXCEPT !.part = p] \in Entries
        BY <3>1 DEF Entries, Parts
      <3> QED BY <2>1, <3>1, <3>2 DEF Events
    <2>4. ASSUME u \in Attendees, NEW a \in Attendees
          PROVE  [e EXCEPT !.att[a] = IF a = u THEN Fresh ELSE [Fresh EXCEPT !.from = u]] \in Events
      BY <2>1, <2>4, FreshIsEntry DEF Events
    <2>5. CASE u = Organiser
      BY <1>3, <2>1, <2>2, <2>5 DEF Edits, OrganiserEdits
    <2>6. CASE u # Organiser
      <3>1. u \in Attendees
        BY <2>6 DEF Users, Attendees
      <3> QED BY <1>3, <2>1, <2>3, <2>4, <2>6, <3>1 DEF Edits, AttendeeEdits, IsAttendee
    <2> QED BY <2>5, <2>6
  <1> QED BY <1>2, <1>3, <1>4

\* An annotation changes one status of the event that will be stored.
LEMMA Annotated ==
  ASSUME NEW r \in Requests, NEW a, NEW code \in Codes, r.new # Absent <=> r.op = "put",
         NEW s, s = Annotate(r, a, code)
  PROVE  /\ s \in Requests /\ (s.new # Absent <=> s.op = "put")
         /\ s.at = r.at /\ s.op = r.op /\ s.user = r.user /\ s.base = r.base
         /\ s.member = r.member /\ s.todo = r.todo /\ s.to = r.to /\ s.message = r.message
         /\ s.found = r.found /\ s.foundAs = r.foundAs /\ s.delivered = r.delivered
         /\ r.op = "put" =>
              /\ s.new.what = r.new.what
              /\ Invited(s.new) = Invited(r.new)
              /\ \A b \in Invited(r.new) :
                   s.new.att[b].status = IF b = a THEN code ELSE r.new.att[b].status
  <1>1. CASE r.op = "put" /\ a \in Attendees /\ a \in Invited(r.new)
    <2>1. r.new \in Events /\ r.new.att[a] \in Entries
      BY <1>1, Entry DEF Requests
    <2> DEFINE entry == [r.new.att[a] EXCEPT !.status = code]
               att == [r.new.att EXCEPT ![a] = entry]
    <2>2. entry \in Entries /\ entry # Absent /\ entry.status = code
      BY <2>1, PeopleAssumption DEF Entries
    <2> HIDE DEF entry
    <2>3. /\ att \in [Attendees -> Entries \cup {Absent}]
          /\ att[a] = entry /\ \A b \in Attendees \ {a} : att[b] = r.new.att[b]
      BY <1>1, <2>1, <2>2 DEF Events
    <2> HIDE DEF att
    <2> DEFINE new == [r.new EXCEPT !.att = att]
    <2>4. new \in Events /\ new.what = r.new.what /\ new.att = att
      BY <2>1, <2>3 DEF Events
    <2> HIDE DEF new
    <2>5. s = [r EXCEPT !.new = new]
      BY <1>1, <2>1 DEF Annotate, new, att, entry, Requests, Events, Entries
    <2>6. Invited(new) = Invited(r.new)
      BY <1>1, <2>2, <2>3, <2>4 DEF Invited
    <2>7. s \in Requests /\ s.new = new
      BY <2>4, <2>5 DEF Requests
    <2>8. \A b \in Invited(r.new) :
             new.att[b].status = IF b = a THEN code ELSE r.new.att[b].status
      BY <2>2, <2>3, <2>4 DEF Invited
    <2>9. new # Absent
      BY <2>4, PeopleAssumption
    <2> QED BY <1>1, <2>4, <2>5, <2>6, <2>7, <2>8, <2>9 DEF Requests
  <1>2. CASE ~(r.op = "put" /\ a \in Attendees /\ a \in Invited(r.new))
    BY <1>2 DEF Annotate, Invited
  <1> QED BY <1>1, <1>2

\* What the inbox makes of a copy: an invitation replaces it by the version that
\* was sent, a cancellation or an answer leaves version, guests and statuses.
LEMMA AppliedRequest ==
  ASSUME NEW m \in Messages, m.method = "REQUEST", NEW old \in Events \cup {Absent}
  PROVE  /\ Applied(m, old) \in Events
         /\ Applied(m, old).what = m.event.what
         /\ Invited(Applied(m, old)) = Invited(m.event)
  <1>1. m.event \in Events
    BY DEF Messages
  <1>2. CASE old = Absent
    BY <1>1, <1>2 DEF Applied
  <1>3. CASE old # Absent
    <2>1. old \in Events
      BY <1>3
    <2> DEFINE att == [a \in Attendees |->
                         IF a \in Invited(old) \cap Invited(m.event)
                           THEN [m.event.att[a] EXCEPT !.part = old.att[a].part]
                           ELSE m.event.att[a]]
    <2>2. ASSUME NEW a \in Attendees
          PROVE  /\ att[a] \in Entries \cup {Absent}
                 /\ att[a] = Absent <=> m.event.att[a] = Absent
      <3>1. CASE a \in Invited(old) \cap Invited(m.event)
        <4>1. m.event.att[a] \in Entries /\ old.att[a].part \in Parts
          BY <1>1, <2>1, <3>1, Entry
        <4>2. [m.event.att[a] EXCEPT !.part = old.att[a].part] \in Entries
          BY <4>1 DEF Entries
        <4> QED BY <3>1, <4>1, <4>2, PeopleAssumption
      <3>2. CASE a \notin Invited(old) \cap Invited(m.event)
        BY <1>1, <3>2 DEF Events
      <3> QED BY <3>1, <3>2
    <2>3. att \in [Attendees -> Entries \cup {Absent}]
      BY <2>2
    <2>4. Applied(m, old) = [m.event EXCEPT !.att = att]
      BY <1>3 DEF Applied, PreservePartstats
    <2> HIDE DEF att
    <2>5. /\ Applied(m, old) \in Events /\ Applied(m, old).what = m.event.what
          /\ Applied(m, old).att = att
      BY <1>1, <2>3, <2>4 DEF Events
    <2> QED BY <2>2, <2>5 DEF Invited
  <1> QED BY <1>2, <1>3

LEMMA AppliedOther ==
  ASSUME NEW m \in Messages, m.method # "REQUEST", NEW old \in Events \cup {Absent}
  PROVE  /\ old = Absent => Applied(m, old) = Absent
         /\ old # Absent =>
              /\ Applied(m, old) \in Events
              /\ Applied(m, old).what = old.what
              /\ Invited(Applied(m, old)) = Invited(old)
              /\ \A a \in Invited(old) : Applied(m, old).att[a].status = old.att[a].status
  <1>1. m.event \in Events /\ m.method \in {"CANCEL", "REPLY"}
    BY DEF Messages
  <1>2. CASE m.method = "CANCEL"
    BY <1>2 DEF Applied, Events, Invited
  <1>3. CASE m.method = "REPLY" /\ (old = Absent \/ m.from \notin Invited(m.event))
    BY <1>3 DEF Applied
  <1>4. CASE m.method = "REPLY" /\ old # Absent /\ m.from \in Invited(m.event)
    <2>1. m.from \in Attendees /\ old \in Events
      BY <1>4 DEF Invited
    <2>2. CASE old.att[m.from] = Absent
      BY <1>4, <2>1, <2>2 DEF Applied
    <2>3. CASE old.att[m.from] # Absent
      <3>1. old.att[m.from] \in Entries /\ m.event.att[m.from].part \in Parts
        BY <1>1, <1>4, <2>1, <2>3, Entry DEF Invited
      <3> DEFINE entry == [old.att[m.from] EXCEPT !.part = m.event.att[m.from].part]
                 att == [old.att EXCEPT ![m.from] = entry]
      <3>2. entry \in Entries /\ entry # Absent /\ entry.status = old.att[m.from].status
        BY <3>1, PeopleAssumption DEF Entries
      <3>3. Applied(m, old) = [old EXCEPT !.att = att]
        BY <1>4, <2>1, <2>3, <3>1 DEF Applied, Events, Entries
      <3> HIDE DEF entry
      <3>4. /\ att \in [Attendees -> Entries \cup {Absent}]
            /\ att[m.from] = entry /\ \A a \in Attendees \ {m.from} : att[a] = old.att[a]
        BY <2>1, <3>2 DEF Events
      <3> HIDE DEF att
      <3>5. /\ Applied(m, old) \in Events /\ Applied(m, old).what = old.what
            /\ Applied(m, old).att = att
        BY <2>1, <3>3, <3>4 DEF Events
      <3>6. m.from \in Invited(old) /\ Invited(old) \subseteq Attendees
        BY <2>1, <2>3 DEF Invited
      <3>7. \A a \in Attendees :
              /\ Applied(m, old).att[a] = Absent <=> old.att[a] = Absent
              /\ Applied(m, old).att[a].status = old.att[a].status
        BY <2>3, <3>2, <3>4, <3>5
      <3>8. Invited(Applied(m, old)) = Invited(old)
        BY <3>7 DEF Invited
      <3> QED BY <1>4, <3>5, <3>6, <3>7, <3>8
    <2> QED BY <2>2, <2>3
  <1> QED BY <1>1, <1>2, <1>3, <1>4

\* What an organiser sends: invitations to the version he stores, to all that it
\* invites, and cancellations to others.
LEMMA SentToAttendees ==
  ASSUME NEW new \in Events, NEW old \in Events \cup {Absent}
  PROVE  /\ \A t \in ToAttendees(new, old) :
              /\ t \in (Users \cup Remote) \X Messages /\ Concerned(t[1], t[2]) \in Attendees
              /\ t[2].method = "REQUEST" => t[2].event = new /\ t[1] \in Invited(new)
              /\ t[2].method # "REQUEST" => t[1] \notin Invited(new)
         /\ \A a \in Invited(new) : \E t \in ToAttendees(new, old) : t[1] = a
  <1>1. \A a \in Attendees : a \in Users \cup Remote
    BY DEF Attendees, Users
  <1>2. ASSUME NEW a \in Invited(new)
        PROVE  /\ <<a, Message("REQUEST", new, Organiser)>> \in ToAttendees(new, old)
               /\ a \in Attendees
    BY DEF ToAttendees, Invited
  <1>3. ASSUME NEW t \in ToAttendees(new, old)
        PROVE  \/ \E a \in Invited(new) : t = <<a, Message("REQUEST", new, Organiser)>>
               \/ /\ old # Absent
                  /\ \E a \in Invited(old) \ Invited(new) :
                       t = <<a, Message("CANCEL", old, Organiser)>>
    BY DEF ToAttendees
  <1>4. Organiser \in Users \cup Remote
    BY DEF Users
  <1>5. ASSUME NEW t \in ToAttendees(new, old)
        PROVE  /\ t \in (Users \cup Remote) \X Messages /\ Concerned(t[1], t[2]) \in Attendees
               /\ t[2].method = "REQUEST" => t[2].event = new /\ t[1] \in Invited(new)
               /\ t[2].method # "REQUEST" => t[1] \notin Invited(new)
    <2>1. CASE \E a \in Invited(new) : t = <<a, Message("REQUEST", new, Organiser)>>
      BY <1>1, <1>2, <1>4, <2>1, MessageTyped DEF Concerned
    <2>2. CASE /\ old # Absent
               /\ \E a \in Invited(old) \ Invited(new) :
                    t = <<a, Message("CANCEL", old, Organiser)>>
      <3>1. PICK a \in Invited(old) \ Invited(new) : t = <<a, Message("CANCEL", old, Organiser)>>
        BY <2>2
      <3>2. a \in Attendees /\ old \in Events
        BY <2>2 DEF Invited
      <3> QED BY <1>1, <1>4, <3>1, <3>2, MessageTyped DEF Concerned
    <2> QED BY <1>3, <2>1, <2>2
  <1> QED BY <1>2, <1>5

\* What an attendee sends: invitations to those he delegates to, and his answer.
LEMMA SentToOrganiser ==
  ASSUME NEW new \in Events, NEW old \in Events \cup {Absent}, NEW u \in Users, u # Organiser, NEW force,
         NEW t \in ToOrganiser(new, old, u, force)
  PROVE  /\ t \in (Users \cup Remote) \X Messages /\ Concerned(t[1], t[2]) \in Attendees
         /\ t[2].method = "REQUEST" => t[2].event = new /\ t[1] \in Invited(new)
  <1>1. \/ \E a \in DelegatesOf(new, u) : t = <<a, Message("REQUEST", new, u)>>
        \/ t = <<Organiser, Message("REPLY", new, u)>>
    BY DEF ToOrganiser
  <1>2. \A a \in DelegatesOf(new, u) : a \in Invited(new) /\ a \in Users \cup Remote /\ a \in Attendees
    BY DEF DelegatesOf, Invited, Attendees, Users
  <1>3. Organiser \in Users /\ u \in Attendees
    BY DEF Users, Attendees
  <1> QED BY <1>1, <1>2, <1>3, MessageTyped DEF Concerned

\* An attendee's change that is let through leaves the version, and his entry.
LEMMA AuthorisedChange ==
  ASSUME NEW new \in Events, NEW old \in Events, NEW u \in Users, u # Organiser,
         IsAttendee(old, u), ~Unauthorised(new, old, u)
  PROVE  new.what = old.what /\ u \in Invited(new)
  <1> DEFINE skip == DelegatesOf(new, u) \ DelegatesOf(old, u)
             Sig(e) == [a \in Attendees |->
                          IF a \in skip \/ e.att[a] = Absent THEN Absent
                          ELSE IF a \in {u} THEN [part |-> "masked"] ELSE e.att[a]]
  <1>1. Signature(new, {u}, skip) = Signature(old, {u}, skip)
    BY DEF Unauthorised
  <1>2. /\ Signature(new, {u}, skip) = [new EXCEPT !.att = Sig(new)]
        /\ Signature(old, {u}, skip) = [old EXCEPT !.att = Sig(old)]
    BY DEF Signature
  <1>3. new.what = old.what /\ Sig(new) = Sig(old)
    <2> HIDE DEF Sig, skip
    <2>1. /\ [new EXCEPT !.att = Sig(new)].what = new.what
          /\ [new EXCEPT !.att = Sig(new)].att = Sig(new)
          /\ [old EXCEPT !.att = Sig(old)].what = old.what
          /\ [old EXCEPT !.att = Sig(old)].att = Sig(old)
      BY DEF Events
    <2> QED BY <1>1, <1>2, <2>1
  <1>4. u \in Attendees /\ old.att[u] # Absent
    BY DEF IsAttendee, Invited
  <1>5. CASE u \in skip
    BY <1>3, <1>5 DEF DelegatesOf
  <1>6. CASE u \notin skip
    <2>1. Sig(old)[u] = [part |-> "masked"] /\ Sig(new)[u] = Sig(old)[u]
      BY <1>3, <1>4, <1>6
    <2>2. [part |-> "masked"] # Absent
      BY PeopleAssumption
    <2>3. new.att[u] # Absent
      BY <1>4, <2>1, <2>2
    <2> QED BY <1>3, <1>4, <2>3 DEF Invited
  <1> QED BY <1>3, <1>5, <1>6

-----------------------------------------------------------------------------
(* Requests                                                                *)

\* The part of TypeOK about one request.
RequestOK(r) ==
  /\ r \in Requests
  /\ r.at = "apply" => r.to \in Users /\ r.message \in Messages
  /\ r.at = "store" => r.op = "put"
  /\ r.at \in {"hook", "store"} => r.todo = {}
  /\ r.op = "put" <=> r.new # Absent

LEMMA IdleIsNoRequest ==
  Idle \notin Requests /\ \A r \in Requests : r # Idle /\ r.at # "idle"
  BY DEF Idle, Requests

LEMMA RequestTyped ==
  ASSUME TypeOK, NEW c \in Calls, NEW r, r = call[c], r # Idle
  PROVE  RequestOK(r) /\ r \in Requests /\ r.user \in Users
  <1>1. r \in Requests
    BY DEF TypeOK
  <1> QED BY <1>1 DEF TypeOK, RequestOK, Requests

\* What other steps leave of a request: inboxes and names grow, and a copy that
\* appears has a new name or is the organiser's or imported.
LEMMA OthersStayRight ==
  ASSUME TypeOK, NEW r \in Requests, RequestOK(r), RequestIsRight(r),
         \A u \in Users : inbox[u] \subseteq inbox'[u],
         \A u \in Users : name'[u] \in Nat /\ name[u] <= name'[u],
         \A u \in Local :
           copy[u] = Absent => copy'[u] = Absent \/ name[u] < name'[u] \/ u \in imported',
         r.op # "import" => r.user \notin imported \ imported'
  PROVE  RequestIsRight(r)'
  <1>1. \A u \in Users : name[u] \in Nat
    BY DEF TypeOK
  <1>2. /\ r.user \in Users /\ r.member \in Nat
        /\ r.at = "apply" => r.to \in Users /\ r.message \in Messages
        /\ r.op = "put" => r.new \in Events
    BY PeopleAssumption DEF RequestOK, Requests
  <1>3. MemberIsKnown(r)'
    BY <1>1, <1>2 DEF RequestIsRight, MemberIsKnown
  <1>4. \A a \in Local : a \in Users
    BY DEF Users
  <1>5. PutIsEntitled(r)'
    <2> SUFFICES ASSUME r.at # "hook", r.op = "put", r.base # Absent,
                        r.user \in Local \ imported',
                        r.member = name'[r.user], copy'[r.user] # Absent
                 PROVE  Entitled(r.user, r.new)'
      BY DEF PutIsEntitled
    <2>1. r.member <= name[r.user] /\ name[r.user] <= name'[r.user]
      BY <1>2 DEF RequestIsRight, MemberIsKnown
    <2>2. r.member = name[r.user] /\ copy[r.user] # Absent /\ r.user \notin imported
      BY <1>1, <1>2, <2>1
    <2>3. Entitled(r.user, r.new)
      BY <2>2 DEF RequestIsRight, PutIsEntitled
    <2> QED BY <1>2, <2>3 DEF Entitled
  <1>6. MessagesAreForTheInvited(r)'
    BY <1>2 DEF RequestIsRight, MessagesAreForTheInvited, Entitled, Concerned
  <1>7. AnnotationsAreTrue(r)'
    <2> SUFFICES ASSUME r.at # "hook", r.op = "put", r.user = Organiser
                 PROVE  AnnotationsAreTrue(r)'
      BY DEF AnnotationsAreTrue
    <2>1. /\ \A t \in r.todo : About(r, t[1], t[2])
          /\ r.at = "apply" => About(r, r.to, r.message)
          /\ \A a \in Invited(r.new) :
               \/ \E t \in r.todo : t[1] = a
               \/ r.at = "apply" /\ r.to = a
               \/ r.new.att[a].status = "success" =>
                    a \in Local /\ Invitation(r.new) \in inbox[a]
      BY DEF RequestIsRight, AnnotationsAreTrue
    <2>2. \A a \in Local : Invitation(r.new) \in inbox[a] => Invitation(r.new) \in inbox'[a]
      BY <1>4
    <2> QED BY <2>1, <2>2 DEF AnnotationsAreTrue
  <1> QED BY <1>3, <1>5, <1>6, <1>7 DEF RequestIsRight

\* Steps of a request that write no copy.
LEMMA QuietStep ==
  ASSUME Inv, NEW c \in Calls,
         call' \in [Calls -> Requests \cup {Idle}],
         \A d \in Calls \ {c} : call'[d] = call[d],
         call'[c] # Idle => RequestOK(call'[c]) /\ RequestIsRight(call[c])',
         copy' = copy, name' = name,
         inbox' \in [Users -> SUBSET [method : {"REQUEST", "CANCEL", "REPLY"}, what : 1 .. MaxOps]],
         \A u \in Users : inbox[u] \subseteq inbox'[u],
         mail' \subseteq Messages, \A m \in mail' : m.method = "REPLY" /\ m.from \in Remote,
         torn' \in BOOLEAN, apart' \subseteq Attendees, imported' = imported,
         ops' \in 0 .. MaxOps
  PROVE  Inv'
  <1>1. \A d \in Calls : call'[d] # Idle => RequestOK(call'[d])
    <2>1. ASSUME NEW d \in Calls \ {c}, call'[d] # Idle
          PROVE  RequestOK(call'[d])
      BY <2>1, RequestTyped DEF Inv
    <2> QED BY <2>1
  <1>2. TypeOK'
    <2>1. \A d \in Calls :
            /\ call'[d].at = "apply" => call'[d].to \in Users /\ call'[d].message \in Messages
            /\ call'[d].at = "store" => call'[d].op = "put"
            /\ call'[d].at \in {"hook", "store"} => call'[d].todo = {}
            /\ call'[d] # Idle => (call'[d].op = "put" <=> call'[d].new # Absent)
      BY <1>1 DEF RequestOK, Idle
    <2> QED BY <2>1 DEF Inv, TypeOK
  <1>3. \A a \in Local : a \in Users
    BY DEF Users
  <1>4. CopiesAreEntitled'
    BY <1>3 DEF Inv, CopiesAreEntitled, Entitled
  <1>5. ASSUME NEW d \in Calls \ {c}, call'[d] # Idle
        PROVE  RequestIsRight(call[d])'
    <2> DEFINE r == call[d]
    <2>1. r' = r /\ r # Idle
      BY <1>5
    <2>2. RequestOK(r) /\ r \in Requests /\ RequestIsRight(r)
      BY <2>1, RequestTyped DEF Inv
    <2>3. \A u \in Users : name'[u] \in Nat /\ name[u] <= name'[u]
      BY DEF Inv, TypeOK
    <2> QED BY <2>1, <2>2, <2>3, OthersStayRight DEF Inv, RequestIsRight
  <1>6. StatusIsTrue'
    BY <1>3 DEF Inv, StatusIsTrue
  <1> QED BY <1>2, <1>4, <1>5, <1>6 DEF Inv

\* A request changes its own record only.
LEMMA OwnRecord ==
  ASSUME TypeOK, NEW c \in Calls, NEW s, call' = [call EXCEPT ![c] = s],
         s \in Requests \cup {Idle}
  PROVE  /\ call' \in [Calls -> Requests \cup {Idle}] /\ call'[c] = s
         /\ \A d \in Calls \ {c} : call'[d] = call[d]
  BY DEF TypeOK

-----------------------------------------------------------------------------
(* Requests begin                                                          *)

LEMMA BeginStep ==
  ASSUME Inv, NEW c \in Calls, NEW u \in Users, NEW op \in {"put", "delete"},
         NEW new \in Events \cup {Absent}, NEW force \in {"none", "look", "reply"},
         Begin(c, u, op, new, force), op = "put" <=> new # Absent
  PROVE  Inv'
  <1> DEFINE s == [at |-> "hook", op |-> op, user |-> u, base |-> copy[u],
                   member |-> name[u], new |-> new, force |-> force, todo |-> {},
                   delivered |-> FALSE, to |-> Absent, message |-> Absent,
                   found |-> Absent, foundAs |-> 0]
  <1>1. copy[u] \in Events \cup {Absent} /\ name[u] \in Nat
    BY DEF Inv, TypeOK
  <1>2. s \in Requests /\ RequestOK(s)
    <2>1. s \in Requests
      BY <1>1 DEF Requests
    <2> QED BY <2>1 DEF RequestOK
  <1>3. call' = [call EXCEPT ![c] = s]
    BY DEF Begin
  <1>4. /\ s.at = "hook" /\ s.op = op /\ s.user = u /\ s.base = copy[u]
        /\ s.member = name[u] /\ s.todo = {}
    OBVIOUS
  <1> HIDE DEF s
  <1>5. /\ call' \in [Calls -> Requests \cup {Idle}] /\ call'[c] = s
        /\ \A d \in Calls \ {c} : call'[d] = call[d]
    BY <1>2, <1>3, OwnRecord DEF Inv
  <1>6. RequestIsRight(call[c])'
    BY <1>1, <1>4, <1>5 DEF Begin, RequestIsRight, MemberIsKnown, PutIsEntitled,
         MessagesAreForTheInvited, AnnotationsAreTrue
  <1>7. /\ copy' = copy /\ name' = name /\ inbox' = inbox /\ mail' = mail /\ apart' = apart
        /\ imported' = imported /\ torn' \in BOOLEAN /\ ops' \in 0 .. MaxOps
    BY PeopleAssumption DEF Begin, CountOp, Inv, TypeOK
  <1> QED
    BY <1>2, <1>5, <1>6, <1>7, QuietStep DEF Inv, TypeOK

LEMMA BeginPutStep ==
  ASSUME Inv, NEW c \in Calls, NEW u \in Users, BeginPut(c, u)
  PROVE  Inv'
  <1>0. copy[u] \in Events \cup {Absent} /\ ops \in Nat
    BY DEF Inv, TypeOK
  <1>1. ASSUME NEW new \in Edits(copy[u], u), Begin(c, u, "put", new, "none")
        PROVE  Inv'
    <2>1. ops < MaxOps
      BY <1>1 DEF Begin, CountOp
    <2>2. new \in Events
      BY <1>0, <2>1, EditsTyped
    <2> QED BY <1>1, <2>2, BeginStep, PeopleAssumption
  <1>2. ASSUME copy[u] # Absent, NEW a \in Invited(copy[u]), NEW mode \in {"REQUEST", "REPLY"},
               Begin(c, u, "put", copy[u], ConsumeForceSend(a, mode, u))
        PROVE  Inv'
    <2>1. ConsumeForceSend(a, mode, u) \in {"none", "look", "reply"}
      BY DEF ConsumeForceSend
    <2> QED BY <1>0, <1>2, <2>1, BeginStep
  <1> QED BY <1>1, <1>2 DEF BeginPut

LEMMA BeginDeleteStep ==
  ASSUME Inv, NEW c \in Calls, NEW u \in Users, BeginDelete(c, u)
  PROVE  Inv'
  BY BeginStep DEF BeginDelete

LEMMA BeginImportStep ==
  ASSUME Inv, NEW c \in Calls, BeginImport(c)
  PROVE  Inv'
  <1>1. PICK m \in mail :
          call' = [call EXCEPT ![c] =
            [at |-> "send", op |-> "import", user |-> Organiser, base |-> Absent, new |-> Absent,
             member |-> 0, force |-> "none", todo |-> {<<Organiser, m>>}, delivered |-> FALSE,
             to |-> Absent, message |-> Absent, found |-> Absent, foundAs |-> 0]]
    BY DEF BeginImport
  <1> DEFINE s == [at |-> "send", op |-> "import", user |-> Organiser, base |-> Absent,
                   new |-> Absent, member |-> 0, force |-> "none", todo |-> {<<Organiser, m>>},
                   delivered |-> FALSE, to |-> Absent, message |-> Absent, found |-> Absent,
                   foundAs |-> 0]
  <1>2. m \in Messages /\ m.method = "REPLY" /\ Organiser \in Users /\ m.from \in Attendees
    BY DEF Inv, TypeOK, Users, Attendees
  <1>3. <<Organiser, m>> \in (Users \cup Remote) \X Messages
    BY <1>2
  <1>4. s \in Requests
    BY <1>2, <1>3 DEF Requests
  <1>5. s.at = "send" /\ s.op = "import" /\ s.new = Absent /\ s.todo = {<<Organiser, m>>}
    OBVIOUS
  <1>6. call' = [call EXCEPT ![c] = s]
    BY <1>1
  <1> HIDE DEF s
  <1>7. RequestOK(s)
    BY <1>4, <1>5 DEF RequestOK
  <1>8. /\ call' \in [Calls -> Requests \cup {Idle}] /\ call'[c] = s
        /\ \A d \in Calls \ {c} : call'[d] = call[d]
    BY <1>4, <1>6, OwnRecord DEF Inv
  <1>9. RequestIsRight(call[c])'
    BY <1>2, <1>5, <1>8 DEF RequestIsRight, MemberIsKnown, PutIsEntitled,
         MessagesAreForTheInvited, AnnotationsAreTrue, Concerned
  <1>10. /\ copy' = copy /\ name' = name /\ inbox' = inbox /\ mail' = mail /\ apart' = apart
         /\ imported' = imported /\ torn' = torn /\ ops' \in 0 .. MaxOps
    BY PeopleAssumption DEF BeginImport, CountOp, Inv, TypeOK
  <1> QED
    BY <1>7, <1>8, <1>9, <1>10, QuietStep DEF Inv, TypeOK

LEMMA RemoteReplyStep ==
  ASSUME Inv, NEW a \in Remote, NEW p \in {"accepted", "declined"}, RemoteReply(a, p)
  PROVE  Inv'
  <1> DEFINE e == copy[Organiser]
  <1>1. e \in Events /\ e.att[a] # Absent /\ a \in Attendees
    BY DEF RemoteReply, Inv, TypeOK, Users, Attendees
  <1>2. e.att[a] \in Entries
    BY <1>1, Entry DEF Invited
  <1>3. [e.att[a] EXCEPT !.part = p] \in Entries
    BY <1>2 DEF Entries, Parts
  <1>4. [e EXCEPT !.att[a].part = p] \in Events
    BY <1>1, <1>3 DEF Events
  <1> DEFINE f == [e EXCEPT !.att[a].part = p]
  <1>5. mail' = mail \cup {Message("REPLY", f, a)}
    BY DEF RemoteReply
  <1> HIDE DEF f, e
  <1>6. f \in Events
    BY <1>4 DEF f
  <1>7. /\ Message("REPLY", f, a) \in Messages /\ Message("REPLY", f, a).method = "REPLY"
        /\ Message("REPLY", f, a).from = a
    BY <1>6, MessageTyped
  <1>8. mail' \subseteq Messages /\ \A m \in mail' : m.method = "REPLY" /\ m.from \in Remote
    BY <1>5, <1>7 DEF Inv, TypeOK
  <1>9. /\ copy' = copy /\ name' = name /\ inbox' = inbox /\ call' = call /\ apart' = apart
        /\ imported' = imported /\ torn' = torn /\ ops' \in 0 .. MaxOps
    BY PeopleAssumption DEF RemoteReply, CountOp, Inv, TypeOK
  <1>10. TypeOK'
    BY <1>8, <1>9 DEF Inv, TypeOK
  <1> QED
    BY <1>9, <1>10 DEF Inv, CopiesAreEntitled, Entitled, StatusIsTrue, RequestIsRight,
         MemberIsKnown, PutIsEntitled, MessagesAreForTheInvited, AnnotationsAreTrue

-----------------------------------------------------------------------------
(* Steps of a request                                                      *)

\* A request that ends, well or not, and has written no copy.
LEMMA EndStep ==
  ASSUME Inv, NEW c \in Calls, call' = [call EXCEPT ![c] = Idle], torn' \in BOOLEAN,
         UNCHANGED <<copy, name, inbox, mail, apart, imported, ops>>
  PROVE  Inv'
  <1>1. /\ call' \in [Calls -> Requests \cup {Idle}] /\ call'[c] = Idle
        /\ \A d \in Calls \ {c} : call'[d] = call[d]
    BY OwnRecord DEF Inv
  <1> QED BY <1>1, QuietStep DEF Inv, TypeOK

LEMMA FailStep ==
  ASSUME Inv, NEW c \in Calls, call[c] # Idle, Fail(c),
         UNCHANGED <<copy, name, inbox, mail, apart, imported, ops>>
  PROVE  Inv'
  <1>1. call[c].delivered \in BOOLEAN
    BY RequestTyped DEF Inv, Requests
  <1>2. torn' \in BOOLEAN
    BY <1>1 DEF Fail, Inv, TypeOK
  <1> QED BY <1>2, EndStep DEF Fail

\* A request that goes on with the record s.
LEMMA GoOnStep ==
  ASSUME Inv, NEW c \in Calls, NEW s, GoOn(c, s), RequestOK(s), RequestIsRight(call[c])',
         UNCHANGED <<copy, name, mail, apart, imported, ops>>,
         inbox' \in [Users -> SUBSET [method : {"REQUEST", "CANCEL", "REPLY"}, what : 1 .. MaxOps]],
         \A u \in Users : inbox[u] \subseteq inbox'[u]
  PROVE  Inv'
  <1>1. s \in Requests /\ torn' = torn /\ call' = [call EXCEPT ![c] = s]
    BY DEF GoOn, RequestOK
  <1>2. /\ call' \in [Calls -> Requests \cup {Idle}] /\ call'[c] = s
        /\ \A d \in Calls \ {c} : call'[d] = call[d]
    BY <1>1, OwnRecord DEF Inv
  <1> QED BY <1>1, <1>2, QuietStep DEF Inv, TypeOK

\* call[c] is what the request goes on with.
LEMMA GoesOnWith ==
  ASSUME Inv, NEW c \in Calls, NEW s, GoOn(c, s), s \in Requests
  PROVE  call'[c] = s
  BY DEF Inv, TypeOK, GoOn

LEMMA PrePutHookStep ==
  ASSUME Inv, NEW c \in Calls, PrePutHook(c)
  PROVE  Inv'
  <1> SUFFICES ASSUME NEW r, r = call[c], NEW old, old = GetMember(r)
               PROVE  Inv'
    OBVIOUS
  <1>1. r.at = "hook" /\ r.op = "put" /\ r # Idle
    BY DEF PrePutHook, Idle
  <1>2. RequestOK(r) /\ r \in Requests /\ r.user \in Users /\ r.new \in Events
    BY <1>1, RequestTyped DEF Inv, RequestOK, Requests
  <1>3. old \in Events \cup {Absent}
    BY <1>2 DEF GetMember, Inv, TypeOK
  <1>4. UNCHANGED <<copy, name, inbox, mail, apart, imported, ops>>
    BY DEF PrePutHook
  <1>5. RequestIsRight(r)
    BY <1>1 DEF Inv
  <1>6. /\ old # Absent => old = copy[r.user] /\ r.member = name[r.user]
        /\ r.user \in Local \ imported /\ old # Absent => Entitled(r.user, old)
    BY DEF GetMember, Inv, CopiesAreEntitled
  <1>7. old = Absent => r.member # name[r.user] \/ copy[r.user] = Absent
    BY DEF GetMember
  <1>8. r.user \in Local => r.user # Organiser
    BY PeopleAssumption DEF Attendees
  <1>9. CASE old # Absent /\ r.new = old /\ GoOn(c, [r EXCEPT !.at = "store"])
    <2> DEFINE s == [r EXCEPT !.at = "store"]
    <2>1. s \in Requests /\ s.at = "store" /\ s.op = "put"
      BY <1>1, <1>2 DEF Requests
    <2>2. /\ s.user = r.user /\ s.new = r.new /\ s.todo = r.todo /\ s.member = r.member
          /\ s.base = r.base
      BY <1>2 DEF Requests
    <2> HIDE DEF s
    <2>3. RequestOK(s)
      BY <1>1, <1>2, <2>1, <2>2 DEF RequestOK
    <2>4. GoOn(c, s)
      BY <1>9 DEF s
    <2>5. call'[c] = s
      BY <2>1, <2>4, GoesOnWith
    <2>6. MemberIsKnown(call[c])'
      BY <1>1, <1>4, <1>5, <2>1, <2>2, <2>5 DEF RequestIsRight, MemberIsKnown
    <2>7. PutIsEntitled(call[c])'
      BY <1>4, <1>6, <1>9, <2>1, <2>2, <2>5 DEF PutIsEntitled, Entitled
    <2>8. MessagesAreForTheInvited(call[c])'
      BY <1>4, <1>5, <2>1, <2>2, <2>5 DEF RequestIsRight, MessagesAreForTheInvited
    <2>9. AnnotationsAreTrue(call[c])'
      <3> SUFFICES ASSUME r.user = Organiser
                   PROVE  AnnotationsAreTrue(call[c])'
        BY <2>2, <2>5 DEF AnnotationsAreTrue
      <3>1. copy[Organiser] = r.new /\ r.new # Absent
        BY <1>6, <1>9
      <3>2. \A a \in Invited(r.new) :
              r.new.att[a].status = "success" =>
                a \in Local /\ Invitation(r.new) \in inbox[a]
        BY <3>1 DEF Inv, StatusIsTrue, Invitation, Invited
      <3>3. r.todo = {}
        BY <1>1, <1>2 DEF RequestOK
      <3> QED BY <1>4, <2>1, <2>2, <2>5, <3>2, <3>3 DEF AnnotationsAreTrue
    <2> QED BY <1>4, <2>3, <2>4, <2>6, <2>7, <2>8, <2>9, GoOnStep DEF RequestIsRight, Inv, TypeOK
  <1>10. CASE Fail(c)
    BY <1>1, <1>4, <1>10, FailStep
  <1>11. ASSUME old # Absent => ~Unauthorised(r.new, old, r.user), NEW todo,
                todo = IF r.user = Organiser THEN ToAttendees(r.new, old)
                       ELSE ToOrganiser(r.new, old, r.user, r.force),
                GoOn(c, [r EXCEPT !.at = "send", !.todo = todo])
         PROVE  Inv'
    <2> DEFINE s == [r EXCEPT !.at = "send", !.todo = todo]
    <2>1. \A t \in todo :
            /\ t \in (Users \cup Remote) \X Messages /\ Concerned(t[1], t[2]) \in Attendees
            /\ t[2].method = "REQUEST" => t[2].event = r.new /\ t[1] \in Invited(r.new)
      <3>1. CASE r.user = Organiser
        BY <1>2, <1>3, <1>11, <3>1, SentToAttendees
      <3>2. CASE r.user # Organiser
        <4>1. todo = ToOrganiser(r.new, old, r.user, r.force)
          BY <1>11, <3>2
        <4> QED BY <1>2, <1>3, <3>2, <4>1, SentToOrganiser
      <3> QED BY <3>1, <3>2
    <2>2. todo \in SUBSET ((Users \cup Remote) \X Messages)
      BY <2>1
    <2>3. s \in Requests
      BY <1>2, <2>2 DEF Requests
    <2>4. /\ s.at = "send" /\ s.op = "put" /\ s.todo = todo
          /\ s.user = r.user /\ s.new = r.new /\ s.member = r.member /\ s.base = r.base
      BY <1>1, <1>2 DEF Requests
    <2> HIDE DEF s
    <2>5. RequestOK(s)
      BY <1>1, <1>2, <2>3, <2>4 DEF RequestOK
    <2>6. GoOn(c, s)
      BY <1>11 DEF s
    <2>7. call'[c] = s
      BY <2>3, <2>6, GoesOnWith
    <2>8. MemberIsKnown(call[c])'
      BY <1>1, <1>4, <1>5, <2>4, <2>7 DEF RequestIsRight, MemberIsKnown
    <2>9. PutIsEntitled(call[c])'
      <3> SUFFICES ASSUME r.user \in Local \ imported, r.member = name[r.user],
                          copy[r.user] # Absent
                   PROVE  Entitled(r.user, r.new)
        BY <1>4, <2>4, <2>7 DEF PutIsEntitled, Entitled
      <3>1. old # Absent /\ r.user # Organiser /\ Entitled(r.user, old)
        BY <1>6, <1>7, <1>8
      <3>2. r.new.what = old.what /\ r.user \in Invited(r.new)
        BY <1>2, <1>3, <1>11, <3>1, AuthorisedChange DEF Entitled, IsAttendee
      <3> QED BY <3>1, <3>2 DEF Entitled, Invitation
    <2>10. MessagesAreForTheInvited(call[c])'
      BY <2>1, <2>4, <2>7 DEF MessagesAreForTheInvited
    <2>11. AnnotationsAreTrue(call[c])'
      <3> SUFFICES ASSUME r.user = Organiser
                   PROVE  AnnotationsAreTrue(call[c])'
        BY <2>4, <2>7 DEF AnnotationsAreTrue
      <3>1. todo = ToAttendees(r.new, old)
        BY <1>11
      <3>2. /\ \A t \in todo :
                 /\ t[2].method = "REQUEST" => t[2].event = r.new
                 /\ t[2].method # "REQUEST" => t[1] \notin Invited(r.new)
            /\ \A a \in Invited(r.new) : \E t \in todo : t[1] = a
        BY <1>2, <1>3, <3>1, SentToAttendees
      <3> QED BY <2>4, <2>7, <3>2 DEF AnnotationsAreTrue, About
    <2> QED BY <1>4, <2>5, <2>6, <2>8, <2>9, <2>10, <2>11, GoOnStep
         DEF RequestIsRight, Inv, TypeOK
  <1> QED
    BY <1>9, <1>10, <1>11 DEF PrePutHook

LEMMA PreDeleteHookStep ==
  ASSUME Inv, NEW c \in Calls, PreDeleteHook(c)
  PROVE  Inv'
  <1> SUFFICES ASSUME NEW r, r = call[c], NEW old, old = GetMember(r)
               PROVE  Inv'
    OBVIOUS
  <1>1. r.at = "hook" /\ r.op = "delete" /\ r # Idle
    BY DEF PreDeleteHook, Idle
  <1>2. RequestOK(r) /\ r \in Requests /\ r.user \in Users
    BY <1>1, RequestTyped DEF Inv
  <1>3. old \in Events \cup {Absent}
    BY <1>2 DEF GetMember, Inv, TypeOK
  <1>4. UNCHANGED <<copy, name, inbox, mail, apart, imported, ops>>
    BY DEF PreDeleteHook
  <1>5. RequestIsRight(r)
    BY <1>1 DEF Inv
  <1>6. PICK todo :
          /\ GoOn(c, [r EXCEPT !.at = "send", !.todo = todo])
          /\ \A t \in todo :
               /\ t \in (Users \cup Remote) \X Messages /\ t[2].method # "REQUEST"
               /\ Concerned(t[1], t[2]) \in Attendees
    <2> DEFINE all == IF old = Absent THEN {}
                      ELSE {<<a, Message("CANCEL", old, Organiser)>> :
                              a \in OrganiserAttendees(old, r.user)}
    <2>1. GoOn(c, [r EXCEPT !.at = "send", !.todo = all])
      BY DEF PreDeleteHook
    <2>2. ASSUME NEW t \in all
          PROVE  /\ t \in (Users \cup Remote) \X Messages /\ t[2].method # "REQUEST"
                 /\ Concerned(t[1], t[2]) \in Attendees
      <3>1. old \in Events
        BY <1>3
      <3>2. PICK a \in Invited(old) : t = <<a, Message("CANCEL", old, Organiser)>>
        BY DEF OrganiserAttendees
      <3>3. a \in Users \cup Remote /\ a \in Attendees /\ Organiser \in Users
        BY DEF Invited, Attendees, Users
      <3> QED BY <3>1, <3>2, <3>3, MessageTyped DEF Concerned
    <2> HIDE DEF all
    <2> QED BY <2>1, <2>2
  <1>7. PICK s : s = [r EXCEPT !.at = "send", !.todo = todo] /\ GoOn(c, s)
    BY <1>6
  <1>8. \A t \in todo : t \in (Users \cup Remote) \X Messages
    BY <1>6
  <1>9. r \in Requests
    BY <1>2
  <1>10. /\ s \in Requests /\ s.at = "send" /\ s.op = "delete" /\ s.todo = todo
         /\ s.user = r.user /\ s.new = r.new /\ s.member = r.member /\ s.base = r.base
    <2>1. /\ s \in Requests /\ s.at = "send" /\ s.todo = todo /\ s.op = r.op
          /\ s.user = r.user /\ s.new = r.new /\ s.member = r.member /\ s.base = r.base
      <3>1. s = [r EXCEPT !.at = "send", !.todo = todo]
        BY <1>7
      <3> QED BY <1>8, <1>9, <3>1 DEF Requests
    <2> QED BY <1>1, <2>1
  <1>11. RequestOK(s)
    BY <1>1, <1>2, <1>10 DEF RequestOK
  <1>12. call'[c] = s
    BY <1>7, <1>10, GoesOnWith
  <1>13. RequestIsRight(call[c])'
    BY <1>1, <1>4, <1>5, <1>6, <1>10, <1>12 DEF RequestIsRight, MemberIsKnown, PutIsEntitled,
         MessagesAreForTheInvited, AnnotationsAreTrue
  <1> QED BY <1>4, <1>7, <1>11, <1>13, GoOnStep DEF Inv, TypeOK

\* A step of r that keeps its place, its user and what it will store, and sends no
\* more, leaves it right where the rest has stayed right.
LEMMA KeepsRight ==
  ASSUME NEW r \in Requests, NEW s \in Requests, RequestIsRight(r)', NEW c, call'[c] = s,
         r.at # "hook", s.at # "hook",
         s.op = r.op, s.user = r.user, s.base = r.base, s.member = r.member,
         s.todo \subseteq r.todo,
         r.op = "put" => s.new.what = r.new.what /\ Invited(s.new) = Invited(r.new),
         s.at = "apply" => Concerned(s.to, s.message) \in Attendees,
         s.at = "apply" /\ s.message.method = "REQUEST" =>
           s.to \in Local /\ Entitled(s.to, s.message.event)'
  PROVE  /\ MemberIsKnown(call[c])' /\ PutIsEntitled(call[c])'
         /\ MessagesAreForTheInvited(call[c])'
  <1>1. MemberIsKnown(call[c])'
    BY DEF RequestIsRight, MemberIsKnown
  <1>2. PutIsEntitled(call[c])'
    BY DEF RequestIsRight, PutIsEntitled, Entitled, Invitation
  <1>3. MessagesAreForTheInvited(call[c])'
    BY DEF RequestIsRight, MessagesAreForTheInvited
  <1> QED BY <1>1, <1>2, <1>3

\* DeliverToInbox has the message in the inbox before anything else happens.
LEMMA DeliverStep ==
  ASSUME Inv, NEW c \in Calls, DeliverToInbox(c)
  PROVE  Inv'
  <1> SUFFICES ASSUME NEW r, r = call[c]
               PROVE  Inv'
    OBVIOUS
  <1>1. r.at = "send" /\ r # Idle
    BY DEF DeliverToInbox, Idle
  <1>2. RequestOK(r) /\ r \in Requests /\ RequestIsRight(r)
    BY <1>1, RequestTyped DEF Inv
  <1>3. UNCHANGED <<copy, name, mail, apart, imported, ops>>
    BY DEF DeliverToInbox
  <1>4. PICK t \in r.todo :
          /\ t[1] \in Users
          /\ \/ /\ inbox' = [inbox EXCEPT ![t[1]] =
                     @ \cup {[method |-> t[2].method, what |-> t[2].event.what]}]
                /\ GoOn(c, [r EXCEPT !.at = "apply", !.todo = @ \ {t}, !.delivered = TRUE,
                                     !.to = t[1], !.message = t[2],
                                     !.found = FindCalendarMember(t[1]),
                                     !.foundAs = name[t[1]]])
             \/ Fail(c) /\ UNCHANGED inbox
    BY DEF DeliverToInbox
  <1>5. CASE Fail(c) /\ UNCHANGED inbox
    BY <1>1, <1>3, <1>5, FailStep
  <1>6. ASSUME inbox' = [inbox EXCEPT ![t[1]] =
                  @ \cup {[method |-> t[2].method, what |-> t[2].event.what]}],
               GoOn(c, [r EXCEPT !.at = "apply", !.todo = @ \ {t}, !.delivered = TRUE,
                                 !.to = t[1], !.message = t[2],
                                 !.found = FindCalendarMember(t[1]), !.foundAs = name[t[1]]])
        PROVE  Inv'
    <2>1. PICK s : /\ s = [r EXCEPT !.at = "apply", !.todo = @ \ {t}, !.delivered = TRUE,
                                    !.to = t[1], !.message = t[2],
                                    !.found = FindCalendarMember(t[1]), !.foundAs = name[t[1]]]
                   /\ GoOn(c, s)
      BY <1>6
    <2>2. /\ \A x \in r.todo : x \in (Users \cup Remote) \X Messages
          /\ t[2] \in Messages /\ t[2].event \in Events
          /\ t[2].method \in {"REQUEST", "CANCEL", "REPLY"}
      BY <1>2, <1>4 DEF Requests, Messages
    <2>3. copy[t[1]] \in Events \cup {Absent} /\ name[t[1]] \in Nat
      BY <1>4 DEF Inv, TypeOK
    <2>4. /\ s \in Requests /\ s.at = "apply" /\ s.todo = r.todo \ {t} /\ s.op = r.op
          /\ s.to = t[1] /\ s.message = t[2]
          /\ s.user = r.user /\ s.new = r.new /\ s.member = r.member /\ s.base = r.base
      <3>1. s = [r EXCEPT !.at = "apply", !.todo = @ \ {t}, !.delivered = TRUE,
                          !.to = t[1], !.message = t[2],
                          !.found = FindCalendarMember(t[1]), !.foundAs = name[t[1]]]
        BY <2>1
      <3> QED BY <1>2, <1>4, <2>2, <2>3, <3>1 DEF Requests, FindCalendarMember
    <2>5. RequestOK(s)
      BY <1>2, <1>4, <2>2, <2>4 DEF RequestOK
    <2>6. call'[c] = s
      BY <2>1, <2>4, GoesOnWith
    <2>7. [method |-> t[2].method, what |-> t[2].event.what]
            \in [method : {"REQUEST", "CANCEL", "REPLY"}, what : 1 .. MaxOps]
      BY <2>2 DEF Events
    <2>8. /\ inbox' \in [Users -> SUBSET [method : {"REQUEST", "CANCEL", "REPLY"},
                                          what : 1 .. MaxOps]]
          /\ \A u \in Users : inbox[u] \subseteq inbox'[u]
          /\ [method |-> t[2].method, what |-> t[2].event.what] \in inbox'[t[1]]
      BY <1>4, <1>6, <2>7 DEF Inv, TypeOK
    <2>9. RequestIsRight(r)'
      <3>1. /\ \A u \in Users : name'[u] \in Nat /\ name[u] <= name'[u]
            /\ \A u \in Local : copy[u] = Absent => copy'[u] = Absent
        BY <1>3 DEF Inv, TypeOK
      <3> QED BY <1>2, <1>3, <2>8, <3>1, OthersStayRight DEF Inv
    <2>10. s.at = "apply" /\ s.message.method = "REQUEST" =>
             s.to \in Local /\ Entitled(s.to, s.message.event)'
      <3> SUFFICES ASSUME t[2].method = "REQUEST"
                   PROVE  t[1] \in Local /\ Entitled(t[1], t[2].event)'
        BY <2>4 DEF Entitled
      <3>1. t[1] \in Invited(t[2].event)
        BY <1>2, <1>4 DEF RequestIsRight, MessagesAreForTheInvited
      <3>2. t[1] \in Local
        BY <1>4, <3>1, PeopleAssumption DEF Invited, Users, Attendees
      <3> QED BY <2>8, <3>1, <3>2 DEF Entitled, Invitation
    <2>11. /\ MemberIsKnown(call[c])' /\ PutIsEntitled(call[c])'
           /\ MessagesAreForTheInvited(call[c])'
      <3>1. Concerned(s.to, s.message) \in Attendees
        BY <1>2, <1>4, <2>4 DEF RequestIsRight, MessagesAreForTheInvited
      <3> QED BY <1>1, <1>2, <2>4, <2>6, <2>9, <2>10, <3>1, KeepsRight
    <2>12. AnnotationsAreTrue(call[c])'
      <3> SUFFICES ASSUME r.op = "put", r.user = Organiser
                   PROVE  AnnotationsAreTrue(call[c])'
        BY <2>4, <2>6 DEF AnnotationsAreTrue
      <3>1. /\ \A x \in r.todo : About(r, x[1], x[2])
            /\ \A a \in Invited(r.new) :
                 \/ \E x \in r.todo : x[1] = a
                 \/ r.new.att[a].status = "success" =>
                      a \in Local /\ Invitation(r.new) \in inbox'[a]
        BY <1>1, <2>9 DEF RequestIsRight, AnnotationsAreTrue
      <3>2. /\ \A x \in s.todo : About(s, x[1], x[2])
            /\ About(s, s.to, s.message)
        BY <1>4, <2>4, <3>1 DEF About
      <3>3. \A a \in Invited(s.new) :
              \/ \E x \in s.todo : x[1] = a
              \/ s.to = a
              \/ s.new.att[a].status = "success" =>
                   a \in Local /\ Invitation(s.new) \in inbox'[a]
        BY <1>4, <2>4, <3>1
      <3> QED BY <2>4, <2>6, <3>2, <3>3 DEF AnnotationsAreTrue
    <2> QED BY <1>3, <2>1, <2>5, <2>8, <2>11, <2>12, GoOnStep DEF RequestIsRight
  <1> QED BY <1>4, <1>5, <1>6

\* Mail is no success.
LEMMA SendViaImipStep ==
  ASSUME Inv, NEW c \in Calls, SendViaImip(c)
  PROVE  Inv'
  <1> SUFFICES ASSUME NEW r, r = call[c]
               PROVE  Inv'
    OBVIOUS
  <1>1. r.at = "send" /\ r # Idle
    BY DEF SendViaImip, Idle
  <1>2. RequestOK(r) /\ r \in Requests /\ RequestIsRight(r)
    BY <1>1, RequestTyped DEF Inv
  <1>3. UNCHANGED <<copy, name, inbox, mail, apart, imported, ops>>
    BY DEF SendViaImip
  <1>4. PICK t \in r.todo, code \in {"sent", "unavailable", "invalid"} :
          \/ GoOn(c, Annotate([r EXCEPT !.todo = @ \ {t}, !.delivered = @ \/ code = "sent"],
                              t[1], code))
          \/ Fail(c)
    BY DEF SendViaImip
  <1>5. CASE Fail(c)
    BY <1>1, <1>3, <1>5, FailStep
  <1>6. ASSUME GoOn(c, Annotate([r EXCEPT !.todo = @ \ {t}, !.delivered = @ \/ code = "sent"],
                                t[1], code))
        PROVE  Inv'
    <2>1. PICK q : /\ q = [r EXCEPT !.todo = @ \ {t}, !.delivered = @ \/ code = "sent"]
                   /\ GoOn(c, Annotate(q, t[1], code))
      BY <1>6
    <2>2. /\ q \in Requests /\ q.at = "send" /\ q.todo = r.todo \ {t} /\ q.op = r.op
          /\ q.user = r.user /\ q.new = r.new /\ q.member = r.member /\ q.base = r.base
      <3> DEFINE delivered == r.delivered \/ code = "sent"
      <3>1. q = [r EXCEPT !.todo = @ \ {t}, !.delivered = delivered]
        BY <2>1
      <3>2. delivered \in BOOLEAN
        OBVIOUS
      <3> HIDE DEF delivered
      <3> QED BY <1>1, <1>2, <3>1, <3>2 DEF Requests
    <2>3. PICK s : s = Annotate(q, t[1], code) /\ GoOn(c, s)
      BY <2>1
    <2>4. q.new # Absent <=> q.op = "put"
      BY <1>2, <2>2 DEF RequestOK
    <2>5. code \in Codes
      BY DEF Codes
    <2>6. /\ s \in Requests /\ (s.new # Absent <=> s.op = "put")
          /\ s.at = q.at /\ s.op = q.op /\ s.user = q.user /\ s.base = q.base
          /\ s.member = q.member /\ s.todo = q.todo
          /\ r.op = "put" =>
               /\ s.new.what = q.new.what
               /\ Invited(s.new) = Invited(q.new)
               /\ \A b \in Invited(q.new) :
                    s.new.att[b].status = IF b = t[1] THEN code ELSE q.new.att[b].status
      BY <2>2, <2>3, <2>4, <2>5, Annotated
    <2>7. RequestOK(s)
      BY <2>2, <2>6 DEF RequestOK
    <2>8. call'[c] = s
      BY <2>3, <2>6, GoesOnWith
    <2>9. RequestIsRight(r)'
      <3>1. /\ \A u \in Users : name'[u] \in Nat /\ name[u] <= name'[u]
            /\ \A u \in Local : copy[u] = Absent => copy'[u] = Absent
            /\ \A u \in Users : inbox[u] \subseteq inbox'[u]
        BY <1>3 DEF Inv, TypeOK
      <3> QED BY <1>2, <1>3, <3>1, OthersStayRight DEF Inv
    <2>10. /\ MemberIsKnown(call[c])' /\ PutIsEntitled(call[c])'
           /\ MessagesAreForTheInvited(call[c])'
      BY <1>1, <1>2, <2>2, <2>6, <2>8, <2>9, KeepsRight
    <2>11. AnnotationsAreTrue(call[c])'
      <3> SUFFICES ASSUME r.op = "put", r.user = Organiser
                   PROVE  AnnotationsAreTrue(call[c])'
        BY <2>2, <2>6, <2>8 DEF AnnotationsAreTrue
      <3>1. /\ \A x \in r.todo : About(r, x[1], x[2])
            /\ \A a \in Invited(r.new) :
                 \/ \E x \in r.todo : x[1] = a
                 \/ r.new.att[a].status = "success" =>
                      a \in Local /\ Invitation(r.new) \in inbox'[a]
        BY <1>1, <2>9 DEF RequestIsRight, AnnotationsAreTrue
      <3>2. \A x \in s.todo : About(s, x[1], x[2])
        BY <2>2, <2>6, <3>1 DEF About
      <3>3. \A a \in Invited(s.new) :
              \/ \E x \in s.todo : x[1] = a
              \/ s.new.att[a].status = "success" =>
                   a \in Local /\ Invitation(s.new) \in inbox'[a]
        BY <2>2, <2>6, <3>1 DEF Invitation
      <3> QED BY <2>2, <2>6, <2>8, <3>2, <3>3 DEF AnnotationsAreTrue
    <2> QED BY <1>3, <2>3, <2>7, <2>10, <2>11, GoOnStep DEF RequestIsRight, Inv, TypeOK
  <1> QED BY <1>4, <1>5, <1>6

LEMMA EndImportStep ==
  ASSUME Inv, NEW c \in Calls, EndImport(c)
  PROVE  Inv'
  <1>1. torn' \in BOOLEAN /\ call' = [call EXCEPT ![c] = Idle]
    BY DEF EndImport, Succeed, Inv, TypeOK
  <1> QED BY <1>1, EndStep DEF EndImport

\* Steps of a request that write the copy of u: what is written he is entitled to,
\* or it is the organiser's and says no more than is true.
LEMMA WriteStep ==
  ASSUME Inv, NEW c \in Calls,
         call' \in [Calls -> Requests \cup {Idle}],
         \A d \in Calls \ {c} : call'[d] = call[d],
         call'[c] # Idle => RequestOK(call'[c]) /\ RequestIsRight(call[c])',
         NEW u \in Users, NEW e \in Events \cup {Absent}, copy' = [copy EXCEPT ![u] = e],
         name' \in [Users -> Nat], \A v \in Users : name[v] <= name'[v],
         u \in Local /\ copy[u] = Absent =>
           e = Absent \/ name[u] < name'[u] \/ u \in imported',
         u \in Local \ imported' /\ e # Absent => Entitled(u, e),
         imported' \subseteq Local, imported \ imported' \subseteq {u},
         \A v \in imported \ imported', d \in Calls : ~OwnRequest(d, v),
         u = Organiser /\ e # Absent =>
           \A a \in Invited(e) : e.att[a].status = "success" =>
             a \in Local /\ Invitation(e) \in inbox[a],
         UNCHANGED <<inbox, mail, ops>>, torn' \in BOOLEAN, apart' \subseteq Attendees
  PROVE  Inv'
  <1>1. \A v \in Users : copy'[v] = IF v = u THEN e ELSE copy[v]
    BY DEF Inv, TypeOK
  <1>2. \A a \in Local : a \in Users
    BY DEF Users
  <1>3. ASSUME NEW d \in Calls \ {c}, call'[d] # Idle
        PROVE  RequestOK(call'[d]) /\ RequestIsRight(call[d])'
    <2> DEFINE r == call[d]
    <2>1. r' = r /\ r # Idle
      BY <1>3
    <2>2. RequestOK(r) /\ r \in Requests /\ RequestIsRight(r)
      BY <2>1, RequestTyped DEF Inv
    <2>3. /\ \A v \in Users : name'[v] \in Nat /\ name[v] <= name'[v]
          /\ \A v \in Users : inbox[v] \subseteq inbox'[v]
      OBVIOUS
    <2>4. \A v \in Local :
            copy[v] = Absent => copy'[v] = Absent \/ name[v] < name'[v] \/ v \in imported'
      BY <1>1, <1>2
    <2>6. r.op # "import" => r.user \notin imported \ imported'
      BY <2>1 DEF OwnRequest
    <2>5. RequestIsRight(r)'
      BY <2>1, <2>2, <2>3, <2>4, <2>6, OthersStayRight DEF Inv, RequestIsRight
    <2> QED BY <2>1, <2>2, <2>5
  <1>4. TypeOK'
    <2>1. \A d \in Calls :
            /\ call'[d].at = "apply" => call'[d].to \in Users /\ call'[d].message \in Messages
            /\ call'[d].at = "store" => call'[d].op = "put"
            /\ call'[d].at \in {"hook", "store"} => call'[d].todo = {}
            /\ call'[d] # Idle => (call'[d].op = "put" <=> call'[d].new # Absent)
      BY <1>3 DEF RequestOK, Idle
    <2>2. copy' \in [Users -> Events \cup {Absent}]
      BY DEF Inv, TypeOK
    <2> QED BY <2>1, <2>2 DEF Inv, TypeOK
  <1>5. CopiesAreEntitled'
    <2> SUFFICES ASSUME NEW a \in Local \ imported', copy'[a] # Absent
                 PROVE  Entitled(a, copy[a])'
      BY DEF CopiesAreEntitled
    <2>1. Entitled(a, copy'[a])
      BY <1>1, <1>2 DEF Inv, CopiesAreEntitled
    <2> QED BY <2>1 DEF Entitled
  <1>6. StatusIsTrue'
    <2> SUFFICES ASSUME copy'[Organiser] # Absent, NEW a \in Attendees,
                        copy'[Organiser].att[a] # Absent,
                        copy'[Organiser].att[a].status = "success"
                 PROVE  /\ a \in Local
                        /\ [method |-> "REQUEST", what |-> copy'[Organiser].what] \in inbox[a]
      BY DEF StatusIsTrue
    <2>1. Organiser \in Users
      BY DEF Users
    <2>2. CASE u = Organiser
      <3>1. copy'[Organiser] = e
        BY <1>1, <2>1, <2>2
      <3>2. a \in Invited(e)
        BY <3>1 DEF Invited
      <3> QED BY <2>2, <3>1, <3>2 DEF Invitation
    <2>3. CASE u # Organiser
      <3>1. copy'[Organiser] = copy[Organiser]
        BY <1>1, <2>1, <2>3
      <3> QED BY <3>1 DEF Inv, StatusIsTrue
    <2> QED BY <2>2, <2>3
  <1> QED BY <1>3, <1>4, <1>5, <1>6 DEF Inv

LEMMA ApplyMessageStep ==
  ASSUME Inv, NEW c \in Calls, ApplyMessage(c)
  PROVE  Inv'
  <1> SUFFICES ASSUME NEW r, r = call[c], NEW result, result = Applied(r.message, r.found)
               PROVE  Inv'
    OBVIOUS
  <1>1. r.at = "apply" /\ r # Idle
    BY DEF ApplyMessage, Idle
  <1>2. /\ RequestOK(r) /\ r \in Requests /\ RequestIsRight(r)
        /\ r.to \in Users /\ r.message \in Messages /\ r.found \in Events \cup {Absent}
    BY <1>1, RequestTyped DEF Inv, RequestOK, Requests
  <1>3. result \in Events \cup {Absent}
    BY <1>2, AppliedRequest, AppliedOther
  <1>4. UNCHANGED <<inbox, mail, ops>>
    BY DEF ApplyMessage
  <1>5. CASE Fail(c) /\ UNCHANGED <<copy, name, apart, imported>>
    BY <1>1, <1>4, <1>5, FailStep
  <1>6. ASSUME ReplaceMemberBody(r, result),
               apart' \subseteq apart \cup {Concerned(r.to, r.message)},
               imported' = Imported(r, copy'[r.to]),
               GoOn(c, Annotate([r EXCEPT !.at = "send", !.to = Absent, !.message = Absent,
                                          !.found = Absent, !.foundAs = 0], r.to, "success"))
        PROVE  Inv'
    <2>1. PICK q : /\ q = [r EXCEPT !.at = "send", !.to = Absent, !.message = Absent,
                                    !.found = Absent, !.foundAs = 0]
                   /\ GoOn(c, Annotate(q, r.to, "success"))
      BY <1>6
    <2>2. /\ q \in Requests /\ q.at = "send" /\ q.todo = r.todo /\ q.op = r.op
          /\ q.user = r.user /\ q.new = r.new /\ q.member = r.member /\ q.base = r.base
      <3>1. q = [r EXCEPT !.at = "send", !.to = Absent, !.message = Absent,
                          !.found = Absent, !.foundAs = 0]
        BY <2>1
      <3> QED BY <1>2, <3>1 DEF Requests
    <2>3. PICK s : s = Annotate(q, r.to, "success") /\ GoOn(c, s)
      BY <2>1
    <2>4. q.new # Absent <=> q.op = "put"
      BY <1>2, <2>2 DEF RequestOK
    <2>5. "success" \in Codes
      BY DEF Codes
    <2>6. /\ s \in Requests /\ (s.new # Absent <=> s.op = "put")
          /\ s.at = "send" /\ s.op = r.op /\ s.user = r.user /\ s.base = r.base
          /\ s.member = r.member /\ s.todo = r.todo
          /\ r.op = "put" =>
               /\ s.new.what = r.new.what
               /\ Invited(s.new) = Invited(r.new)
               /\ \A b \in Invited(r.new) :
                    s.new.att[b].status = IF b = r.to THEN "success" ELSE r.new.att[b].status
      BY <2>2, <2>3, <2>4, <2>5, Annotated
    <2>7. RequestOK(s)
      BY <2>6 DEF RequestOK
    <2>8. /\ call' \in [Calls -> Requests \cup {Idle}] /\ call'[c] = s
          /\ \A d \in Calls \ {c} : call'[d] = call[d]
          /\ torn' \in BOOLEAN
      <3>1. call' = [call EXCEPT ![c] = s] /\ torn' = torn
        BY <2>3 DEF GoOn
      <3> QED BY <2>6, <3>1, OwnRecord DEF Inv, TypeOK
    <2>9. PICK e \in Events \cup {Absent} :
            /\ copy' = [copy EXCEPT ![r.to] = e]
            /\ \/ e = copy[r.to] /\ name' = name
               \/ /\ e = result /\ result # r.found /\ copy[r.to] = r.found
                  /\ name' = IF r.found = Absent THEN [name EXCEPT ![r.to] = @ + 1] ELSE name
      <3>1. CASE result = r.found /\ UNCHANGED <<copy, name>>
        <4>1. copy[r.to] \in Events \cup {Absent} /\ copy' = [copy EXCEPT ![r.to] = copy[r.to]]
          BY <1>2, <3>1 DEF Inv, TypeOK
        <4> QED BY <3>1, <4>1
      <3>2. CASE /\ result # r.found /\ copy[r.to] = r.found
                 /\ copy' = [copy EXCEPT ![r.to] = result]
                 /\ name' = IF r.found = Absent THEN [name EXCEPT ![r.to] = @ + 1] ELSE name
        BY <1>3, <3>2
      <3> QED BY <1>6, <3>1, <3>2 DEF ReplaceMemberBody
    <2>10. /\ name' \in [Users -> Nat] /\ \A v \in Users : name[v] <= name'[v]
           /\ copy[r.to] = Absent => e = Absent \/ name[r.to] < name'[r.to]
      <3>0. name \in [Users -> Nat]
        BY DEF Inv, TypeOK
      <3>1. CASE name' = name
        <4>1. copy[r.to] = Absent => e = Absent
          <5>1. e = result /\ result # r.found /\ copy[r.to] = r.found =>
                  name' = IF r.found = Absent THEN [name EXCEPT ![r.to] = @ + 1] ELSE name
            BY <2>9
          <5>2. [name EXCEPT ![r.to] = @ + 1] # name
            <6>1. [name EXCEPT ![r.to] = @ + 1][r.to] = name[r.to] + 1 /\ name[r.to] \in Nat
              BY <1>2, <3>0
            <6> QED BY <6>1
          <5> QED BY <2>9, <3>1, <5>1, <5>2
        <4>2. \A v \in Users : name[v] \in Nat
          BY <3>0
        <4> QED BY <3>0, <3>1, <4>1, <4>2
      <3>2. CASE name' = [name EXCEPT ![r.to] = @ + 1]
        BY <1>2, <3>0, <3>2
      <3> QED BY <2>9, <3>1, <3>2
    <2>11. e # Absent /\ e # copy[r.to] /\ r.message.method # "REQUEST" =>
             /\ copy[r.to] # Absent
             /\ e.what = copy[r.to].what /\ Invited(e) = Invited(copy[r.to])
             /\ \A a \in Invited(e) : e.att[a].status = copy[r.to].att[a].status
      BY <1>2, <2>9, AppliedOther
    <2>12. r.message.method = "REQUEST" =>
             r.to \in Local /\ Entitled(r.to, r.message.event) /\ Entitled(r.to, result)
      <3> SUFFICES ASSUME r.message.method = "REQUEST"
                   PROVE  /\ r.to \in Local /\ Entitled(r.to, r.message.event)
                          /\ Entitled(r.to, result)
        OBVIOUS
      <3>1. r.to \in Local /\ Entitled(r.to, r.message.event)
        BY <1>1, <1>2 DEF RequestIsRight, MessagesAreForTheInvited
      <3> QED BY <1>2, <3>1, AppliedRequest DEF Entitled, Invitation
    <2>20. /\ imported' \subseteq Local /\ imported' \subseteq imported
           /\ imported \ imported' \subseteq {r.to}
           /\ \A v \in imported \ imported' : v = r.to
           /\ \A v \in imported \ imported', d \in Calls : ~OwnRequest(d, v)
           /\ imported' # imported => e = result /\ r.message.method = "REQUEST"
      <3>1. copy'[r.to] = e
        BY <1>2, <2>9 DEF Inv, TypeOK
      <3> QED BY <1>6, <3>1 DEF Imported, Inv, TypeOK
    <2>13. r.to \in Local \ imported' /\ e # Absent => Entitled(r.to, e)
      <3>1. r.to \in Local \ imported /\ copy[r.to] # Absent => Entitled(r.to, copy[r.to])
        BY DEF Inv, CopiesAreEntitled
      <3>2. CASE r.to \in imported
        BY <2>12, <2>20, <3>2
      <3>3. CASE r.to \notin imported
        BY <2>9, <2>11, <2>12, <3>1, <3>3 DEF Entitled, Invitation
      <3> QED BY <3>2, <3>3
    <2>14. r.to = Organiser /\ e # Absent =>
             \A a \in Invited(e) : e.att[a].status = "success" =>
               a \in Local /\ Invitation(e) \in inbox[a]
      <3> SUFFICES ASSUME r.to = Organiser, e # Absent
                   PROVE  \A a \in Invited(e) : e.att[a].status = "success" =>
                            a \in Local /\ Invitation(e) \in inbox[a]
        OBVIOUS
      <3>1. r.message.method # "REQUEST"
        BY <2>12, PeopleAssumption DEF Attendees
      <3>2. /\ copy[Organiser] # Absent /\ e.what = copy[Organiser].what
            /\ Invited(e) = Invited(copy[Organiser])
            /\ \A a \in Invited(e) : e.att[a].status = copy[Organiser].att[a].status
        BY <2>9, <2>11, <3>1
      <3>3. \A a \in Invited(copy[Organiser]) :
              copy[Organiser].att[a].status = "success" =>
                a \in Local /\ Invitation(copy[Organiser]) \in inbox[a]
        BY <3>2 DEF Inv, StatusIsTrue, Invitation, Invited
      <3> QED BY <3>2, <3>3 DEF Invitation
    <2>15. apart' \subseteq Attendees
      <3>1. Concerned(r.to, r.message) \in Attendees
        BY <1>1, <1>2 DEF RequestIsRight, MessagesAreForTheInvited
      <3> QED BY <1>6, <3>1 DEF Inv, TypeOK
    <2>16. RequestIsRight(r)'
      <3>1. /\ \A v \in Users : name'[v] \in Nat /\ name[v] <= name'[v]
            /\ \A v \in Users : inbox[v] \subseteq inbox'[v]
        BY <1>4, <2>10
      <3>2. \A v \in Local : copy[v] = Absent => copy'[v] = Absent \/ name[v] < name'[v]
        <4>1. \A v \in Local : v \in Users
          BY DEF Users
        <4>2. \A v \in Users : copy'[v] = IF v = r.to THEN e ELSE copy[v]
          BY <2>9 DEF Inv, TypeOK
        <4> QED BY <2>10, <4>1, <4>2
      <3>3. r.op # "import" => r.user \notin imported \ imported'
        BY <1>1, <2>20 DEF OwnRequest
      <3> QED BY <1>2, <3>1, <3>2, <3>3, OthersStayRight DEF Inv
    <2>17. /\ MemberIsKnown(call[c])' /\ PutIsEntitled(call[c])'
           /\ MessagesAreForTheInvited(call[c])'
      BY <1>1, <1>2, <2>6, <2>8, <2>16, KeepsRight
    <2>18. AnnotationsAreTrue(call[c])'
      <3> SUFFICES ASSUME r.op = "put", r.user = Organiser
                   PROVE  AnnotationsAreTrue(call[c])'
        BY <2>6, <2>8 DEF AnnotationsAreTrue
      <3>1. /\ \A x \in r.todo : About(r, x[1], x[2])
            /\ About(r, r.to, r.message)
            /\ \A a \in Invited(r.new) :
                 \/ \E x \in r.todo : x[1] = a
                 \/ r.to = a
                 \/ r.new.att[a].status = "success" =>
                      a \in Local /\ Invitation(r.new) \in inbox[a]
        BY <1>1, <1>2 DEF RequestIsRight, AnnotationsAreTrue
      <3>2. \A x \in s.todo : About(s, x[1], x[2])
        BY <2>6, <3>1 DEF About
      <3>3. r.to \in Invited(r.new) =>
              r.to \in Local /\ Invitation(r.new) \in inbox[r.to]
        BY <2>12, <3>1 DEF About, Entitled, Invitation
      <3>4. \A a \in Invited(s.new) :
              \/ \E x \in s.todo : x[1] = a
              \/ s.new.att[a].status = "success" =>
                   a \in Local /\ Invitation(s.new) \in inbox'[a]
        BY <1>4, <2>6, <3>1, <3>3 DEF Invitation
      <3> QED BY <2>6, <2>8, <3>2, <3>4 DEF AnnotationsAreTrue
    <2>19. RequestIsRight(call[c])'
      BY <2>17, <2>18 DEF RequestIsRight
    <2> QED
      BY <1>2, <1>4, <2>7, <2>8, <2>9, <2>10, <2>13, <2>14, <2>15, <2>19, <2>20, WriteStep
  <1>7. Apart(r.to, r.message, copy[r.to], copy'[r.to])
          \subseteq apart \cup {Concerned(r.to, r.message)}
    BY DEF Apart
  <1> QED BY <1>5, <1>6, <1>7 DEF ApplyMessage

\* StoreOwn writes what the hook let through, while the member is still the one
\* that the request is about.
LEMMA StoreOwnStep ==
  ASSUME Inv, NEW c \in Calls, StoreOwn(c)
  PROVE  Inv'
  <1> SUFFICES ASSUME NEW r, r = call[c]
               PROVE  Inv'
    OBVIOUS
  <1>1. r.at \in {"store", "send"} /\ r # Idle
    BY DEF StoreOwn, Idle
  <1>2. RequestOK(r) /\ r \in Requests /\ r.user \in Users /\ RequestIsRight(r)
    BY <1>1, RequestTyped DEF Inv
  <1>3. UNCHANGED <<name, inbox, mail, apart, ops>>
    BY DEF StoreOwn
  <1>4. r.todo = {} /\ r.op # "import"
    BY <1>1, <1>2 DEF StoreOwn, RequestOK
  <1>5. CASE UNCHANGED <<copy, imported>> /\ Fail(c)
    BY <1>1, <1>3, <1>5, FailStep
  <1>6. ASSUME name[r.user] = r.member, copy[r.user] = r.base,
               copy' = [copy EXCEPT ![r.user] = r.new], Succeed(c),
               imported' = IF r.base = Absent /\ r.user \in Local
                             THEN imported \cup {r.user} ELSE imported
        PROVE  Inv'
    <2>1. /\ call' \in [Calls -> Requests \cup {Idle}] /\ call'[c] = Idle
          /\ \A d \in Calls \ {c} : call'[d] = call[d]
          /\ torn' \in BOOLEAN
      BY <1>6, OwnRecord DEF Succeed, Inv, TypeOK
    <2>2. r.new \in Events \cup {Absent} /\ (r.new # Absent => r.op = "put")
      BY <1>2 DEF Requests, RequestOK
    <2>3. /\ imported' \subseteq Local /\ imported \subseteq imported'
          /\ r.user \in Local \ imported' =>
               r.user \notin imported /\ r.base # Absent /\ copy[r.user] # Absent
          /\ r.user \in Local /\ copy[r.user] = Absent => r.user \in imported'
      BY <1>6 DEF Inv, TypeOK
    <2>4. r.user \in Local \ imported' /\ r.new # Absent => Entitled(r.user, r.new)
      BY <1>1, <1>2, <1>6, <2>2, <2>3 DEF RequestIsRight, PutIsEntitled
    <2>5. r.user = Organiser /\ r.new # Absent =>
            \A a \in Invited(r.new) : r.new.att[a].status = "success" =>
              a \in Local /\ Invitation(r.new) \in inbox[a]
      BY <1>1, <1>2, <1>4, <2>2 DEF RequestIsRight, AnnotationsAreTrue
    <2>6. name' \in [Users -> Nat] /\ \A v \in Users : name[v] <= name'[v]
      BY <1>3 DEF Inv, TypeOK
    <2>7. apart' \subseteq Attendees
      BY <1>3 DEF Inv, TypeOK
    <2> QED BY <1>2, <1>3, <1>6, <2>1, <2>2, <2>3, <2>4, <2>5, <2>6, <2>7, WriteStep
  <1> QED BY <1>5, <1>6 DEF StoreOwn

-----------------------------------------------------------------------------
(* The invariant and what follows from it                                  *)

LEMMA InitInv ==
  ASSUME Init
  PROVE  Inv
  <1>1. /\ \A u \in Users : copy[u] = Absent
        /\ \A c \in Calls : call[c] = Idle
        /\ Organiser \in Users /\ Local \subseteq Users
    BY DEF Init, Users
  <1>2. TypeOK
    <2>1. 0 \in 0 .. MaxOps
      BY PeopleAssumption
    <2> QED BY <1>1, <2>1 DEF Init, TypeOK, Idle
  <1> QED BY <1>1, <1>2 DEF Inv, CopiesAreEntitled, StatusIsTrue

LEMMA StepKeepsInv ==
  ASSUME Inv, Next
  PROVE  Inv'
  <1>1. ASSUME NEW c \in Calls, Step(c)
        PROVE  Inv'
    BY <1>1, PrePutHookStep, PreDeleteHookStep, DeliverStep, SendViaImipStep,
       ApplyMessageStep, StoreOwnStep, EndImportStep DEF Step
  <1>2. ASSUME NEW c \in Calls, NEW u \in Users, BeginPut(c, u) \/ BeginDelete(c, u)
        PROVE  Inv'
    BY <1>2, BeginPutStep, BeginDeleteStep
  <1>3. ASSUME NEW c \in Calls, BeginImport(c)
        PROVE  Inv'
    BY <1>3, BeginImportStep
  <1>4. ASSUME NEW a \in Remote, NEW p \in {"accepted", "declined"}, RemoteReply(a, p)
        PROVE  Inv'
    BY <1>4, RemoteReplyStep
  <1> QED BY <1>1, <1>2, <1>3, <1>4 DEF Next

LEMMA StutterKeepsInv ==
  ASSUME Inv, UNCHANGED vars
  PROVE  Inv'
  <1>1. TypeOK'
    BY DEF Inv, TypeOK, vars
  <1> QED
    BY <1>1 DEF Inv, vars, CopiesAreEntitled, Entitled, StatusIsTrue, RequestIsRight,
       MemberIsKnown, PutIsEntitled, MessagesAreForTheInvited, AnnotationsAreTrue

\* Whatever the requests, the mail and the clients do, and in whatever order, the
\* copies of attendees, the requests that pass the hooks and the messages under
\* way are in step: this is what pre_put_hook, deliver_to_inbox and
\* post_create_member_hook of web.py leave behind between any two of their steps.
THEOREM Invariant == Spec => []Inv
  <1>1. Init => Inv
    BY InitInv
  <1>2. Inv /\ [Next]_vars => Inv'
    BY StepKeepsInv, StutterKeepsInv
  <1> QED BY <1>1, <1>2, PTL DEF Spec

\* Every record, copy and message has its type; a request that stores has sent
\* all its messages, and only a PUT has something to store.
THEOREM TypeCorrect == Spec => []TypeOK
  <1>1. Inv => TypeOK
    BY DEF Inv
  <1> QED BY <1>1, Invariant, PTL

\* "Attendees may only modify their own ATTENDEE entry"
\* (_reject_unauthorised_attendee_change): however the requests of an attendee and
\* the messages to him interleave, his copy is a version that was sent to him and
\* that invites him, unless it goes back to a PUT of his own where he had none,
\* which pre_put_hook has nothing to hold against.
THEOREM MeetingStaysTheOrganisers == Spec => []MeetingIsTheOrganisers
  <1>1. Inv => MeetingIsTheOrganisers
    BY DEF Inv, CopiesAreEntitled, Entitled, Invitation, MeetingIsTheOrganisers
  <1> QED BY <1>1, Invariant, PTL

\* A SCHEDULE-STATUS of success that _annotate_schedule_status leaves in the
\* organiser's copy is true of the version it stands in, for good.
THEOREM StatusStaysTrue == Spec => []StatusIsTrue
  <1>1. Inv => StatusIsTrue
    BY DEF Inv
  <1> QED BY <1>1, Invariant, PTL
-----------------------------------------------------------------------------
(* Orderly requests                                                        *)

\* e is f but for statuses: it has been annotated.
SameButStatus(e, f) ==
  /\ e = Absent <=> f = Absent
  /\ f # Absent =>
       /\ e.what = f.what /\ e.cancelled = f.cancelled /\ Invited(e) = Invited(f)
       /\ \A a \in Invited(f) : e.att[a].part = f.att[a].part /\ e.att[a].from = f.att[a].from

\* s is what request r has become, in whatever place it is now.
Keeps(s, r) ==
  /\ s.op = r.op /\ s.user = r.user /\ s.base = r.base /\ s.member = r.member
  /\ SameButStatus(s.new, r.new)

LEMMA OrganiserEditsPlainly ==
  ASSUME NEW e \in Events \cup {Absent}, Plain(e), NEW new \in OrganiserEdits(e),
         ops \in Nat, ops < MaxOps
  PROVE  /\ Plain(new) /\ KeepsParts(new, e)
         /\ new.what = ops + 1 \/ (e # Absent /\ new.what = e.what)
  <1>0. /\ Fresh \in Entries /\ Fresh # Absent /\ Fresh.from = Absent
    BY FreshIsEntry, PeopleAssumption DEF Fresh
  <1>1. CASE e = Absent
    <2>1. PICK s \in SUBSET Attendees :
            new = [what |-> ops + 1, cancelled |-> FALSE,
                   att |-> [a \in Attendees |-> IF a \in s THEN Fresh ELSE Absent]]
      BY <1>1 DEF OrganiserEdits
    <2>2. \A a \in Invited(new) : new.att[a] = Fresh
      BY <2>1 DEF Invited
    <2> QED BY <1>0, <1>1, <2>1, <2>2 DEF Plain, KeepsParts
  <1>2. CASE e # Absent
    <2>0. e \in Events
      BY <1>2
    <2>1. CASE new = e
      BY <1>2, <2>1 DEF Plain, KeepsParts
    <2>2. CASE new = [e EXCEPT !.what = ops + 1]
      <3>1. new.what = ops + 1 /\ new.cancelled = e.cancelled /\ new.att = e.att
        BY <2>0, <2>2 DEF Events
      <3> QED BY <1>2, <3>1 DEF Plain, KeepsParts, Invited
    <2>3. ASSUME NEW a \in Attendees,
                 new = [e EXCEPT !.what = ops + 1,
                                 !.att[a] = IF @ = Absent THEN Fresh ELSE Absent]
          PROVE  /\ Plain(new) /\ KeepsParts(new, e) /\ new.what = ops + 1
      <3> DEFINE x == IF e.att[a] = Absent THEN Fresh ELSE Absent
      <3>1. /\ new.what = ops + 1 /\ new.cancelled = e.cancelled /\ new.att[a] = x
            /\ \A b \in Attendees \ {a} : new.att[b] = e.att[b]
        BY <2>0, <2>3 DEF Events
      <3>2. new.att[a] # Absent => new.att[a] = Fresh /\ e.att[a] = Absent
        BY <3>1
      <3> QED BY <1>0, <1>2, <3>1, <3>2 DEF Plain, KeepsParts, Invited
    <2> QED BY <1>2, <2>1, <2>2, <2>3 DEF OrganiserEdits
  <1> QED BY <1>1, <1>2

LEMMA AttendeeNamesVersion ==
  ASSUME NEW e \in Events \cup {Absent}, NEW u \in Attendees, NEW new \in AttendeeEdits(e, u)
  PROVE  new.what = ops + 1 \/ (e # Absent /\ new.what = e.what)
  <1>1. CASE e = Absent
    <2>1. PICK s \in Imports, f \in {Absent, u} :
            new = [what |-> ops + 1, cancelled |-> FALSE,
                   att |-> [a \in Attendees |->
                              IF a \notin s THEN Absent
                              ELSE IF a = u THEN Fresh ELSE [Fresh EXCEPT !.from = f]]]
      BY <1>1 DEF AttendeeEdits
    <2> QED BY <2>1
  <1>2. CASE e # Absent
    <2>1. e \in Events
      BY <1>2
    <2>2. ASSUME NEW p \in {"accepted", "declined"}, new = [e EXCEPT !.att[u].part = p]
          PROVE  new.what = e.what
      BY <2>1, <2>2 DEF Events
    <2>3. ASSUME NEW a \in Attendees,
                 new = [e EXCEPT !.att[a] = IF a = u THEN Fresh ELSE [Fresh EXCEPT !.from = u]]
          PROVE  new.what = e.what
      BY <2>1, <2>3 DEF Events
    <2>4. CASE new = [e EXCEPT !.what = ops + 1]
      BY <2>1, <2>4 DEF Events
    <2> QED BY <1>2, <2>2, <2>3, <2>4 DEF AttendeeEdits
  <1> QED BY <1>1, <1>2

LEMMA AttendeeEditsHisEntry ==
  ASSUME NEW e \in Events, NEW u \in Invited(e), NEW new \in AttendeeEdits(e, u),
         ops \in Nat, ops < MaxOps
  PROVE  /\ u \in Invited(new)
         /\ new.cancelled = e.cancelled /\ new.att[u].from = e.att[u].from
         /\ new.what = ops + 1 \/ new.what = e.what
  <1>0. e # Absent /\ u \in Attendees /\ e.att[u] \in Entries /\ e.att[u] # Absent
    BY Entry, PeopleAssumption DEF Invited
  <1>1. CASE new = e
    BY <1>1
  <1>2. CASE new = [e EXCEPT !.what = ops + 1]
    <2>1. new.what = ops + 1 /\ new.cancelled = e.cancelled /\ new.att = e.att
      BY <1>2 DEF Events
    <2> QED BY <1>0, <2>1 DEF Invited
  <1>3. ASSUME NEW p \in {"accepted", "declined"}, new = [e EXCEPT !.att[u].part = p]
        PROVE  /\ u \in Invited(new) /\ new.what = e.what
               /\ new.cancelled = e.cancelled /\ new.att[u].from = e.att[u].from
    <2> DEFINE x == [e.att[u] EXCEPT !.part = p]
    <2>1. x \in Entries /\ x # Absent /\ x.from = e.att[u].from
      <3>1. x \in Entries
        BY <1>0, <1>3 DEF Entries, Parts
      <3> QED BY <1>0, <3>1, PeopleAssumption DEF Entries
    <2>2. new = [e EXCEPT !.att = [e.att EXCEPT ![u] = x]]
      BY <1>0, <1>3 DEF Events, Entries
    <2> HIDE DEF x
    <2>3. new.what = e.what /\ new.cancelled = e.cancelled /\ new.att[u] = x
      BY <1>0, <2>1, <2>2 DEF Events
    <2> QED BY <1>0, <2>1, <2>3 DEF Invited
  <1>4. ASSUME NEW a \in Attendees \ Invited(e),
               new = [e EXCEPT !.att[a] = IF a = u THEN Fresh ELSE [Fresh EXCEPT !.from = u]]
        PROVE  /\ u \in Invited(new) /\ new.what = e.what
               /\ new.cancelled = e.cancelled /\ new.att[u].from = e.att[u].from
    <2>1. a # u
      OBVIOUS
    <2>2. new.what = e.what /\ new.cancelled = e.cancelled /\ new.att[u] = e.att[u]
      BY <1>0, <1>4, <2>1 DEF Events
    <2> QED BY <1>0, <2>2 DEF Invited
  <1> QED BY <1>0, <1>1, <1>2, <1>3, <1>4 DEF AttendeeEdits, IsAttendee

\* The parts of RequestsAreOrderly about request c.
IsOrderly(c) ==
  call[c] # Idle =>
    /\ \A t \in call[c].todo : Sends(call[c], t[1], t[2])
    /\ call[c].at = "apply" => Sends(call[c], call[c].to, call[c].message)
    /\ OwnRequest(c, Organiser) => OrganisersRequest(call[c])
    /\ \A u \in Local : OwnRequest(c, u) => AttendeesRequest(call[c])

\* Who takes in the organiser's version has no request of his own under way.
StaysImported == \A v \in imported \ imported', d \in Calls : ~OwnRequest(d, v)

Known(w) == \E v \in Users : copy[v] # Absent /\ copy[v].what = w

\* Steps of c, which bring no version but those that are known or its own.
LEMMA OrderlyStep ==
  ASSUME Inv, RequestsAreOrderly, NEW c \in Calls,
         \A d \in Calls \ {c} : call'[d] = call[d],
         ops' \in Nat, ops <= ops', \A u \in Users : inbox[u] \subseteq inbox'[u],
         Plain(copy[Organiser])',
         copy'[Organiser] # Absent =>
           \A a \in Local \cap Invited(copy'[Organiser]) :
             Invitation(copy'[Organiser]) \in inbox'[a],
         IsOrderly(c)',
         \A u \in Users : copy'[u] # Absent =>
           \/ Known(copy'[u].what)
           \/ call[c] # Idle /\ call[c].new # Absent /\ call[c].new.what = copy'[u].what,
         call'[c] # Idle /\ call'[c].new # Absent =>
           \/ Known(call'[c].new.what)
           \/ call[c] # Idle /\ call[c].new # Absent /\ call[c].new.what = call'[c].new.what
           \/ call'[c].new.what = ops + 1 /\ ops' = ops + 1,
         MadeHere(c)' \/ call'[c] = Idle \/ call'[c].at # "hook",
         StaysImported
  PROVE  RequestsAreOrderly'
  <1>0. ops \in Nat
    BY DEF Inv, TypeOK
  <1>1. \A w : Known(w) => w <= ops /\ w \in Nat
    <2> SUFFICES ASSUME NEW v \in Users, copy[v] # Absent
                 PROVE  copy[v].what <= ops /\ copy[v].what \in Nat
      BY DEF Known
    <2>1. copy[v] \in Events
      BY DEF Inv, TypeOK
    <2> QED BY <2>1 DEF Events, RequestsAreOrderly
  <1>2. call[c] # Idle /\ call[c].new # Absent => call[c].new.what <= ops /\ call[c].new.what \in Nat
    <2> SUFFICES ASSUME call[c] # Idle, call[c].new # Absent
                 PROVE  call[c].new.what <= ops /\ call[c].new.what \in Nat
      OBVIOUS
    <2>1. call[c].new \in Events
      BY RequestTyped DEF Inv, Requests
    <2> QED BY <2>1 DEF Events, RequestsAreOrderly, MadeHere
  <1>3. \A u \in Users : copy'[u] # Absent => copy'[u].what <= ops'
    BY <1>0, <1>1, <1>2
  <1>4. call'[c] # Idle /\ call'[c].new # Absent => call'[c].new.what <= ops'
    BY <1>0, <1>1, <1>2
  <1>5. call'[c] # Idle => MadeHere(c)'
    BY <1>4 DEF MadeHere
  <1>6. ASSUME NEW d \in Calls \ {c}, call'[d] # Idle
        PROVE  MadeHere(d)'
    <2> DEFINE r == call[d]
    <2>1. r' = r /\ r # Idle
      BY <1>6
    <2>2. MadeHere(d)
      BY <2>1 DEF RequestsAreOrderly
    <2>3. r \in Requests /\ RequestOK(r)
      BY <2>1, RequestTyped DEF Inv
    <2>4. r.new # Absent => r.new \in Events /\ r.new.what \in Nat /\ r.new.what <= ops
      BY <2>1, <2>2, <2>3 DEF Requests, Events, MadeHere
    <2>5. r.new # Absent => r.new.what <= ops'
      BY <1>0, <2>4
    <2>6. ASSUME r.at = "hook", r.op = "put", r.base = Absent \/ r.new.what # r.base.what
          PROVE  /\ \A u \in Users : copy'[u] # Absent => copy'[u].what # r.new.what
                 /\ \A x \in Calls \ {d} :
                      call'[x] # Idle /\ call'[x].new # Absent => call'[x].new.what # r.new.what
      <3>1. /\ \A u \in Users : copy[u] # Absent => copy[u].what # r.new.what
            /\ \A x \in Calls \ {d} :
                 call[x] # Idle /\ call[x].new # Absent => call[x].new.what # r.new.what
        BY <2>2, <2>6 DEF MadeHere
      <3>2. ~Known(r.new.what)
        BY <3>1 DEF Known
      <3>3. call[c] # Idle /\ call[c].new # Absent => call[c].new.what # r.new.what
        BY <3>1
      <3>4. r.new # Absent
        BY <2>3, <2>6 DEF RequestOK
      <3>5. r.new.what # ops + 1
        BY <1>0, <2>4, <3>4
      <3>6. call'[c] # Idle /\ call'[c].new # Absent => call'[c].new.what # r.new.what
        BY <3>2, <3>3, <3>5
      <3> QED BY <3>1, <3>2, <3>3, <3>6
    <2> QED BY <2>1, <2>5, <2>6 DEF MadeHere
  <1>7. ASSUME NEW d \in Calls \ {c}
        PROVE  IsOrderly(d)'
    <2>1. IsOrderly(d) /\ call'[d] = call[d]
      BY DEF RequestsAreOrderly, IsOrderly
    <2>2. OrganisersRequest(call[d]) => OrganisersRequest(call[d])'
      <3>1. \A a \in Local : a \in Users
        BY DEF Users
      <3> QED BY <2>1, <3>1 DEF OrganisersRequest
    <2>3. ASSUME NEW u \in Local, OwnRequest(d, u), AttendeesRequest(call[d])
          PROVE  AttendeesRequest(call[d])'
      <3>1. call[d].user = u /\ (u \in imported => u \in imported')
        BY <2>3 DEF OwnRequest, StaysImported
      <3> QED BY <2>1, <2>3, <3>1 DEF AttendeesRequest, IsAbout
    <2> QED BY <2>1, <2>2, <2>3 DEF IsOrderly, OwnRequest
  <1> QED BY <1>3, <1>5, <1>6, <1>7 DEF RequestsAreOrderly, IsOrderly

-----------------------------------------------------------------------------
(* What steps of a request do to it                                        *)

LEMMA AnnotatedKeeps ==
  ASSUME NEW r \in Requests, NEW a, NEW code \in Codes, r.new # Absent <=> r.op = "put",
         NEW s, s = Annotate(r, a, code)
  PROVE  Keeps(s, r)
  <1>1. CASE r.op = "put" /\ a \in Attendees /\ a \in Invited(r.new)
    <2>1. r.new \in Events /\ r.new # Absent /\ r.new.att[a] \in Entries
      BY <1>1, Entry DEF Requests
    <2> DEFINE entry == [r.new.att[a] EXCEPT !.status = code]
               att == [r.new.att EXCEPT ![a] = entry]
    <2>2. /\ entry \in Entries /\ entry # Absent
          /\ entry.part = r.new.att[a].part /\ entry.from = r.new.att[a].from
      BY <2>1, PeopleAssumption DEF Entries
    <2> HIDE DEF entry
    <2>3. /\ att \in [Attendees -> Entries \cup {Absent}]
          /\ att[a] = entry /\ \A b \in Attendees \ {a} : att[b] = r.new.att[b]
      BY <1>1, <2>1, <2>2 DEF Events
    <2> HIDE DEF att
    <2> DEFINE new == [r.new EXCEPT !.att = att]
    <2>4. /\ new \in Events /\ new.what = r.new.what /\ new.cancelled = r.new.cancelled
          /\ new.att = att
      BY <2>1, <2>3 DEF Events
    <2> HIDE DEF new
    <2>5. s = [r EXCEPT !.new = new]
      BY <1>1, <2>1 DEF Annotate, new, att, entry, Requests, Events, Entries
    <2>6. Invited(new) = Invited(r.new)
      BY <1>1, <2>2, <2>3, <2>4 DEF Invited
    <2>7. /\ s.new = new /\ s.op = r.op /\ s.user = r.user /\ s.base = r.base
          /\ s.member = r.member
      BY <2>5 DEF Requests
    <2>8. \A b \in Invited(r.new) :
             new.att[b].part = r.new.att[b].part /\ new.att[b].from = r.new.att[b].from
      BY <2>2, <2>3, <2>4 DEF Invited
    <2>9. new # Absent
      BY <2>4, PeopleAssumption
    <2> QED BY <2>1, <2>4, <2>6, <2>7, <2>8, <2>9 DEF Keeps, SameButStatus
  <1>2. CASE ~(r.op = "put" /\ a \in Attendees /\ a \in Invited(r.new))
    BY <1>2 DEF Annotate, Keeps, SameButStatus
  <1> QED BY <1>1, <1>2

\* Request c goes on as s.
GoesOn(c, s) ==
  /\ s # Idle /\ RequestOK(s) /\ Keeps(s, call[c])
  /\ call'[c] = s /\ torn' = torn
  /\ \A d \in Calls \ {c} : call'[d] = call[d]

\* Request c ends, and no copy knows of it.
GivesUp(c) ==
  /\ call'[c] = Idle /\ torn' = (torn \/ call[c].delivered)
  /\ \A d \in Calls \ {c} : call'[d] = call[d]
  /\ UNCHANGED <<copy, name, inbox, mail, apart, imported, ops>>

LEMMA FailGivesUp ==
  ASSUME Inv, NEW c \in Calls, Fail(c), UNCHANGED <<copy, name, inbox, mail, apart, imported, ops>>
  PROVE  GivesUp(c)
  BY OwnRecord DEF Fail, GivesUp, Inv

LEMMA GoOnGoesOn ==
  ASSUME Inv, NEW c \in Calls, NEW s, GoOn(c, s), RequestOK(s), Keeps(s, call[c])
  PROVE  GoesOn(c, s)
  <1>1. s \in Requests /\ torn' = torn /\ call' = [call EXCEPT ![c] = s]
    BY DEF GoOn, RequestOK
  <1>2. s # Idle
    BY <1>1, IdleIsNoRequest
  <1>3. call'[c] = s /\ \A d \in Calls \ {c} : call'[d] = call[d]
    BY <1>1, OwnRecord DEF Inv
  <1> QED BY <1>1, <1>2, <1>3 DEF GoesOn

LEMMA NewTyped ==
  ASSUME Inv, NEW c \in Calls, call[c] # Idle
  PROVE  /\ call[c] \in Requests /\ RequestOK(call[c]) /\ RequestIsRight(call[c])
         /\ call[c].user \in Users /\ call[c].new \in Events \cup {Absent}
         /\ call[c].base \in Events \cup {Absent} /\ call[c].found \in Events \cup {Absent}
         /\ call[c].delivered \in BOOLEAN
         /\ call[c].op \in {"put", "delete", "import"}
         /\ \A t \in call[c].todo :
              /\ t = <<t[1], t[2]>> /\ t[1] \in Users \cup Remote /\ t[2] \in Messages
              /\ t[2].event \in Events
         /\ call[c].at = "apply" =>
              call[c].to \in Users /\ call[c].message \in Messages
              /\ call[c].message.event \in Events
  <1>1. call[c] \in Requests /\ RequestOK(call[c]) /\ RequestIsRight(call[c])
    BY RequestTyped DEF Inv
  <1>2. \A t \in call[c].todo : t \in (Users \cup Remote) \X Messages
    BY <1>1 DEF Requests
  <1>3. \A m \in Messages : m.event \in Events
    BY DEF Messages
  <1> QED BY <1>1, <1>2, <1>3 DEF RequestOK, Requests

\* Request c has passed its hook as s, where old was found.
PassesHook(c, s, old) ==
  LET r == call[c] IN
  /\ GoesOn(c, s) /\ s.new = r.new /\ s.delivered = r.delivered
  /\ \/ /\ s.at = "store" /\ s.op = "put" /\ s.todo = {}
        /\ old # Absent /\ r.new = old
     \/ /\ s.at = "send" /\ s.op = "put"
        /\ old # Absent => ~Unauthorised(r.new, old, r.user)
        /\ s.todo = IF r.user = Organiser THEN ToAttendees(r.new, old)
                    ELSE ToOrganiser(r.new, old, r.user, r.force)
     \/ /\ s.at = "send" /\ s.op = "delete"
        /\ s.todo = IF old = Absent THEN {}
                    ELSE {<<a, Message("CANCEL", old, Organiser)>> :
                            a \in OrganiserAttendees(old, r.user)}

LEMMA HookEffect ==
  ASSUME Inv, NEW c \in Calls, PrePutHook(c) \/ PreDeleteHook(c), NEW r, r = call[c],
         NEW old, old = GetMember(r)
  PROVE  /\ r # Idle /\ r.at = "hook" /\ r.op \in {"put", "delete"}
         /\ UNCHANGED <<copy, name, inbox, mail, apart, imported, ops>>
         /\ \/ GivesUp(c)
            \/ \E s : PassesHook(c, s, old)
  <1>1. r # Idle /\ r.at = "hook" /\ r.op \in {"put", "delete"}
    BY DEF PrePutHook, PreDeleteHook, Idle
  <1>2. RequestOK(r) /\ r \in Requests /\ r.user \in Users /\ r.new \in Events \cup {Absent}
    BY <1>1, NewTyped
  <1>3. old \in Events \cup {Absent}
    BY <1>2 DEF GetMember, Inv, TypeOK
  <1>4. UNCHANGED <<copy, name, inbox, mail, apart, imported, ops>>
    BY DEF PrePutHook, PreDeleteHook
  <1>5. ASSUME NEW s \in Requests, GoOn(c, s), s.at \in {"send", "store"},
               s.op = r.op, s.user = r.user, s.new = r.new, s.member = r.member,
               s.base = r.base, s.at = "store" => r.op = "put" /\ s.todo = {}
        PROVE  GoesOn(c, s)
    <2>1. RequestOK(s)
      BY <1>1, <1>2, <1>5 DEF RequestOK
    <2>2. Keeps(s, r)
      BY <1>5 DEF Keeps, SameButStatus
    <2> QED BY <1>5, <2>1, <2>2, GoOnGoesOn
  <1>7. CASE PrePutHook(c)
    <2>1. r.op = "put" /\ r.new \in Events
      BY <1>2, <1>7, PeopleAssumption DEF PrePutHook, RequestOK
    <2>2. CASE old # Absent /\ r.new = old /\ GoOn(c, [r EXCEPT !.at = "store"])
      <3>1. PICK s : s = [r EXCEPT !.at = "store"] /\ GoOn(c, s)
        BY <2>2
      <3>2. r.todo = {}
        BY <1>1, <1>2 DEF RequestOK
      <3>3. /\ s \in Requests /\ s.at = "store" /\ s.todo = {} /\ s.op = r.op
            /\ s.user = r.user /\ s.new = r.new /\ s.member = r.member /\ s.base = r.base
            /\ s.delivered = r.delivered
        BY <1>2, <3>1, <3>2 DEF Requests
      <3>4. GoesOn(c, s)
        BY <1>5, <2>1, <3>1, <3>3
      <3> QED BY <1>1, <1>4, <2>1, <2>2, <3>3, <3>4 DEF PassesHook
    <2>3. CASE Fail(c)
      BY <1>1, <1>4, <2>3, FailGivesUp
    <2>4. CASE /\ old # Absent => ~Unauthorised(r.new, old, r.user)
               /\ GoOn(c, [r EXCEPT !.at = "send",
                      !.todo = IF r.user = Organiser THEN ToAttendees(r.new, old)
                               ELSE ToOrganiser(r.new, old, r.user, r.force)])
      <3>1. PICK todo : todo = IF r.user = Organiser THEN ToAttendees(r.new, old)
                               ELSE ToOrganiser(r.new, old, r.user, r.force)
        OBVIOUS
      <3>2. PICK s : s = [r EXCEPT !.at = "send", !.todo = todo] /\ GoOn(c, s)
        BY <2>4, <3>1
      <3>3. \A t \in todo : t \in (Users \cup Remote) \X Messages
        <4>1. CASE r.user = Organiser
          BY <2>1, <1>3, <3>1, <4>1, SentToAttendees
        <4>2. CASE r.user # Organiser
          <5>1. todo = ToOrganiser(r.new, old, r.user, r.force)
            BY <3>1, <4>2
          <5> QED BY <1>2, <1>3, <2>1, <4>2, <5>1, SentToOrganiser
        <4> QED BY <4>1, <4>2
      <3>4. /\ GoesOn(c, s) /\ s.new = r.new /\ s.delivered = r.delivered
            /\ s.at = "send" /\ s.todo = todo /\ s.op = r.op
        <4>1. r \in Requests /\ todo \in SUBSET ((Users \cup Remote) \X Messages)
          BY <1>2, <3>3
        <4>2. /\ s \in Requests /\ s.at = "send" /\ s.todo = todo /\ s.op = r.op
              /\ s.user = r.user /\ s.new = r.new /\ s.member = r.member /\ s.base = r.base
              /\ s.delivered = r.delivered
          BY <3>2, <4>1 DEF Requests
        <4> QED BY <1>5, <3>2, <4>2
      <3> QED BY <1>1, <1>4, <2>1, <2>4, <3>1, <3>4 DEF PassesHook
    <2> QED BY <1>7, <2>2, <2>3, <2>4 DEF PrePutHook
  <1>8. CASE PreDeleteHook(c)
    <2>1. r.op = "delete"
      BY <1>8 DEF PreDeleteHook
    <2>2. PICK todo : todo = IF old = Absent THEN {}
                             ELSE {<<a, Message("CANCEL", old, Organiser)>> :
                                     a \in OrganiserAttendees(old, r.user)}
      OBVIOUS
    <2>3. PICK s : s = [r EXCEPT !.at = "send", !.todo = todo] /\ GoOn(c, s)
      BY <1>8, <2>2 DEF PreDeleteHook
    <2>4. ASSUME NEW t \in todo
          PROVE  t \in (Users \cup Remote) \X Messages
      <3>1. old \in Events
        BY <1>3, <2>2
      <3>2. PICK a \in Invited(old) : t = <<a, Message("CANCEL", old, Organiser)>>
        BY <2>2, <2>4 DEF OrganiserAttendees
      <3>3. a \in Users \cup Remote /\ Organiser \in Users
        BY DEF Invited, Attendees, Users
      <3> QED BY <3>1, <3>2, <3>3, MessageTyped
    <2>5. /\ GoesOn(c, s) /\ s.new = r.new /\ s.delivered = r.delivered
          /\ s.at = "send" /\ s.todo = todo /\ s.op = r.op
      <3>1. r \in Requests /\ todo \in SUBSET ((Users \cup Remote) \X Messages)
        BY <1>2, <2>4
      <3>2. /\ s \in Requests /\ s.at = "send" /\ s.todo = todo /\ s.op = r.op
            /\ s.user = r.user /\ s.new = r.new /\ s.member = r.member /\ s.base = r.base
            /\ s.delivered = r.delivered
        BY <2>3, <3>1 DEF Requests
      <3> QED BY <1>5, <2>3, <3>2
    <2> QED BY <1>1, <1>4, <2>1, <2>2, <2>5 DEF PassesHook
  <1> QED BY <1>7, <1>8

\* Request c has delivered t and is s now.
Delivers(c, t, s) ==
  LET r == call[c] IN
  /\ GoesOn(c, s) /\ s.new = r.new /\ s.delivered = TRUE
  /\ t \in r.todo /\ s.at = "apply" /\ s.todo = r.todo \ {t}
  /\ t[1] \in Users /\ s.to = t[1] /\ s.message = t[2] /\ s.found = copy[t[1]]
  /\ \A u \in Users : inbox[u] \subseteq inbox'[u]
  /\ [method |-> t[2].method, what |-> t[2].event.what] \in inbox'[t[1]]

LEMMA DeliverEffect ==
  ASSUME Inv, NEW c \in Calls, DeliverToInbox(c), NEW r, r = call[c]
  PROVE  /\ r # Idle /\ r.at = "send" /\ UNCHANGED <<copy, name, mail, apart, imported, ops>>
         /\ GivesUp(c) \/ \E t, s : Delivers(c, t, s)
  <1>1. r.at = "send" /\ r # Idle
    BY DEF DeliverToInbox, Idle
  <1>2. /\ RequestOK(r) /\ r \in Requests
        /\ \A t \in r.todo : t \in (Users \cup Remote) \X Messages /\ t[2] \in Messages
    <2>1. RequestOK(r) /\ r \in Requests
      BY <1>1, NewTyped
    <2> QED BY <2>1 DEF Requests
  <1>3. UNCHANGED <<copy, name, mail, apart, imported, ops>>
    BY DEF DeliverToInbox
  <1>4. PICK t \in r.todo :
          /\ t[1] \in Users
          /\ \/ /\ inbox' = [inbox EXCEPT ![t[1]] =
                     @ \cup {[method |-> t[2].method, what |-> t[2].event.what]}]
                /\ GoOn(c, [r EXCEPT !.at = "apply", !.todo = @ \ {t}, !.delivered = TRUE,
                                     !.to = t[1], !.message = t[2],
                                     !.found = FindCalendarMember(t[1]),
                                     !.foundAs = name[t[1]]])
             \/ Fail(c) /\ UNCHANGED inbox
    BY DEF DeliverToInbox
  <1>5. CASE Fail(c) /\ UNCHANGED inbox
    BY <1>1, <1>3, <1>5, FailGivesUp
  <1>6. ASSUME inbox' = [inbox EXCEPT ![t[1]] =
                  @ \cup {[method |-> t[2].method, what |-> t[2].event.what]}],
               GoOn(c, [r EXCEPT !.at = "apply", !.todo = @ \ {t}, !.delivered = TRUE,
                                 !.to = t[1], !.message = t[2],
                                 !.found = FindCalendarMember(t[1]), !.foundAs = name[t[1]]])
        PROVE  \E s : Delivers(c, t, s)
    <2>1. PICK s : /\ s = [r EXCEPT !.at = "apply", !.todo = @ \ {t}, !.delivered = TRUE,
                                    !.to = t[1], !.message = t[2],
                                    !.found = FindCalendarMember(t[1]), !.foundAs = name[t[1]]]
                   /\ GoOn(c, s)
      BY <1>6
    <2>2. copy[t[1]] \in Events \cup {Absent} /\ name[t[1]] \in Nat
      BY <1>4 DEF Inv, TypeOK
    <2>3. /\ s \in Requests /\ s.at = "apply" /\ s.todo = r.todo \ {t} /\ s.op = r.op
          /\ s.to = t[1] /\ s.message = t[2] /\ s.delivered = TRUE /\ s.found = copy[t[1]]
          /\ s.user = r.user /\ s.new = r.new /\ s.member = r.member /\ s.base = r.base
      <3>1. s = [r EXCEPT !.at = "apply", !.todo = @ \ {t}, !.delivered = TRUE,
                          !.to = t[1], !.message = t[2],
                          !.found = FindCalendarMember(t[1]), !.foundAs = name[t[1]]]
        BY <2>1
      <3> QED BY <1>2, <1>4, <2>2, <3>1 DEF Requests, FindCalendarMember
    <2>4. RequestOK(s)
      BY <1>2, <1>4, <2>3 DEF RequestOK
    <2>5. Keeps(s, r)
      BY <2>3 DEF Keeps, SameButStatus
    <2>6. GoesOn(c, s)
      BY <2>1, <2>4, <2>5, GoOnGoesOn
    <2>7. /\ \A u \in Users : inbox[u] \subseteq inbox'[u]
          /\ [method |-> t[2].method, what |-> t[2].event.what] \in inbox'[t[1]]
      BY <1>4, <1>6 DEF Inv, TypeOK
    <2> QED BY <1>4, <2>3, <2>6, <2>7 DEF Delivers
  <1> QED BY <1>1, <1>3, <1>4, <1>5, <1>6

LEMMA MailEffect ==
  ASSUME Inv, NEW c \in Calls, SendViaImip(c), NEW r, r = call[c]
  PROVE  /\ r # Idle /\ r.at = "send" /\ UNCHANGED <<copy, name, inbox, mail, apart, imported, ops>>
         /\ \/ GivesUp(c)
            \/ \E t \in r.todo : \E s :
                 /\ GoesOn(c, s)
                 /\ r.delivered => s.delivered
                 /\ s.at = "send" /\ s.todo = r.todo \ {t} /\ t[1] \in Remote
  <1>1. r.at = "send" /\ r # Idle
    BY DEF SendViaImip, Idle
  <1>2. RequestOK(r) /\ r \in Requests
    BY <1>1, NewTyped
  <1>3. UNCHANGED <<copy, name, inbox, mail, apart, imported, ops>>
    BY DEF SendViaImip
  <1>4. PICK t \in r.todo, code \in {"sent", "unavailable", "invalid"} :
          /\ t[1] \in Remote
          /\ \/ GoOn(c, Annotate([r EXCEPT !.todo = @ \ {t}, !.delivered = @ \/ code = "sent"],
                                 t[1], code))
             \/ Fail(c)
    BY DEF SendViaImip
  <1>5. CASE Fail(c)
    BY <1>1, <1>3, <1>5, FailGivesUp
  <1>6. ASSUME GoOn(c, Annotate([r EXCEPT !.todo = @ \ {t}, !.delivered = @ \/ code = "sent"],
                                t[1], code))
        PROVE  \E s : /\ GoesOn(c, s)
                      /\ r.delivered => s.delivered
                      /\ s.at = "send" /\ s.todo = r.todo \ {t}
    <2>1. PICK q : /\ q = [r EXCEPT !.todo = @ \ {t}, !.delivered = @ \/ code = "sent"]
                   /\ GoOn(c, Annotate(q, t[1], code))
      BY <1>6
    <2>2. /\ q \in Requests /\ q.at = "send" /\ q.todo = r.todo \ {t} /\ q.op = r.op
          /\ q.user = r.user /\ q.new = r.new /\ q.member = r.member /\ q.base = r.base
          /\ r.delivered => q.delivered
      <3> DEFINE delivered == r.delivered \/ code = "sent"
      <3>1. q = [r EXCEPT !.todo = @ \ {t}, !.delivered = delivered]
        BY <2>1
      <3>2. delivered \in BOOLEAN
        OBVIOUS
      <3>3. r.delivered => delivered
        OBVIOUS
      <3> HIDE DEF delivered
      <3>4. q.delivered = delivered
        BY <1>2, <3>1 DEF Requests
      <3>5. /\ q \in Requests /\ q.at = "send" /\ q.todo = r.todo \ {t} /\ q.op = r.op
            /\ q.user = r.user /\ q.new = r.new /\ q.member = r.member /\ q.base = r.base
        BY <1>1, <1>2, <3>1, <3>2 DEF Requests
      <3> QED BY <3>3, <3>4, <3>5
    <2>3. PICK s : s = Annotate(q, t[1], code) /\ GoOn(c, s)
      BY <2>1
    <2>4. q.new # Absent <=> q.op = "put"
      BY <1>2, <2>2 DEF RequestOK
    <2>5. code \in Codes
      BY DEF Codes
    <2>6. /\ s \in Requests /\ (s.new # Absent <=> s.op = "put")
          /\ s.at = q.at /\ s.todo = q.todo /\ s.delivered = q.delivered
      BY <2>2, <2>3, <2>4, <2>5, Annotated
    <2>7. RequestOK(s)
      BY <2>2, <2>6 DEF RequestOK
    <2>8. Keeps(s, q)
      BY <2>2, <2>3, <2>4, <2>5, AnnotatedKeeps
    <2>9. Keeps(s, r)
      BY <2>2, <2>8 DEF Keeps
    <2>10. GoesOn(c, s)
      BY <2>3, <2>7, <2>9, GoOnGoesOn
    <2> QED BY <2>2, <2>6, <2>10
  <1> QED BY <1>1, <1>3, <1>4, <1>5, <1>6

\* What the inbox makes of the entries of a copy.
LEMMA RequestTaken ==
  ASSUME NEW m \in Messages, m.method = "REQUEST", NEW old \in Events \cup {Absent},
         NEW new, new = Applied(m, old)
  PROVE  /\ new \in Events /\ new # Absent /\ new.what = m.event.what
         /\ new.cancelled = m.event.cancelled /\ Invited(new) = Invited(m.event)
         /\ \A b \in Invited(m.event) :
              /\ new.att[b].from = m.event.att[b].from
              /\ new.att[b].part = IF old # Absent /\ b \in Invited(old) THEN old.att[b].part
                                   ELSE m.event.att[b].part
  <1>1. m.event \in Events
    BY DEF Messages
  <1>2. new \in Events /\ new # Absent /\ new.what = m.event.what /\ Invited(new) = Invited(m.event)
    BY AppliedRequest, PeopleAssumption
  <1>3. CASE old = Absent
    BY <1>2, <1>3 DEF Applied
  <1>4. CASE old # Absent
    <2>1. old \in Events
      BY <1>4
    <2> DEFINE att == [a \in Attendees |->
                         IF a \in Invited(old) \cap Invited(m.event)
                           THEN [m.event.att[a] EXCEPT !.part = old.att[a].part]
                           ELSE m.event.att[a]]
    <2>2. new = [m.event EXCEPT !.att = att]
      BY <1>4 DEF Applied, PreservePartstats
    <2>3. new.cancelled = m.event.cancelled /\ new.att = att
      BY <1>1, <2>2 DEF Events
    <2>4. ASSUME NEW b \in Invited(m.event)
          PROVE  /\ att[b].from = m.event.att[b].from
                 /\ att[b].part = IF b \in Invited(old) THEN old.att[b].part
                                  ELSE m.event.att[b].part
      <3>1. m.event.att[b] \in Entries /\ b \in Attendees
        BY <1>1, Entry DEF Invited
      <3>2. CASE b \in Invited(old)
        <4>1. att[b] = [m.event.att[b] EXCEPT !.part = old.att[b].part]
          BY <3>1, <3>2
        <4> QED BY <3>1, <3>2, <4>1 DEF Entries
      <3>3. CASE b \notin Invited(old)
        BY <3>1, <3>3
      <3> QED BY <3>2, <3>3
    <2> QED BY <1>2, <1>4, <2>3, <2>4
  <1> QED BY <1>3, <1>4

LEMMA CancelTaken ==
  ASSUME NEW m \in Messages, m.method = "CANCEL", NEW old \in Events \cup {Absent},
         NEW new, new = Applied(m, old)
  PROVE  /\ new = Absent <=> old = Absent
         /\ old # Absent =>
              /\ new.what = old.what /\ new.cancelled /\ new.att = old.att
              /\ Invited(new) = Invited(old)
  <1>1. CASE old = Absent
    BY <1>1 DEF Applied
  <1>2. CASE old # Absent
    <2>1. old \in Events /\ new = [old EXCEPT !.cancelled = TRUE]
      BY <1>2 DEF Applied
    <2>2. new \in Events /\ new.what = old.what /\ new.cancelled = TRUE /\ new.att = old.att
      BY <2>1 DEF Events
    <2> QED BY <1>2, <2>2, PeopleAssumption DEF Invited
  <1> QED BY <1>1, <1>2

\* e is f but for the answer of b.
SameButAnswer(e, f, b) ==
  /\ e = Absent <=> f = Absent
  /\ f # Absent =>
       /\ e.what = f.what /\ e.cancelled = f.cancelled /\ Invited(e) = Invited(f)
       /\ \A a \in Invited(f) :
            /\ e.att[a].from = f.att[a].from
            /\ a # b => e.att[a].part = f.att[a].part

LEMMA ReplyTaken ==
  ASSUME NEW m \in Messages, m.method = "REPLY", NEW old \in Events \cup {Absent},
         NEW new, new = Applied(m, old)
  PROVE  SameButAnswer(new, old, m.from)
  <1>1. m.event \in Events
    BY DEF Messages
  <1>2. CASE old = Absent \/ m.from \notin Invited(m.event)
    BY <1>2 DEF Applied, SameButAnswer
  <1>3. CASE old # Absent /\ m.from \in Invited(m.event)
    <2>1. m.from \in Attendees /\ old \in Events
      BY <1>3 DEF Invited
    <2>2. CASE old.att[m.from] = Absent
      BY <1>3, <2>1, <2>2 DEF Applied, SameButAnswer
    <2>3. CASE old.att[m.from] # Absent
      <3>1. old.att[m.from] \in Entries /\ m.event.att[m.from].part \in Parts
        BY <1>1, <1>3, <2>1, <2>3, Entry DEF Invited
      <3> DEFINE entry == [old.att[m.from] EXCEPT !.part = m.event.att[m.from].part]
                 att == [old.att EXCEPT ![m.from] = entry]
      <3>2. entry \in Entries /\ entry # Absent /\ entry.from = old.att[m.from].from
        BY <3>1, PeopleAssumption DEF Entries
      <3>3. new = [old EXCEPT !.att = att]
        BY <1>3, <2>1, <2>3, <3>1 DEF Applied, Events, Entries
      <3> HIDE DEF entry
      <3>4. /\ att \in [Attendees -> Entries \cup {Absent}]
            /\ att[m.from] = entry /\ \A a \in Attendees \ {m.from} : att[a] = old.att[a]
        BY <2>1, <3>2 DEF Events
      <3> HIDE DEF att
      <3>5. /\ new \in Events /\ new.what = old.what /\ new.cancelled = old.cancelled
            /\ new.att = att
        BY <2>1, <3>3, <3>4 DEF Events
      <3>6. \A a \in Attendees :
              /\ new.att[a] = Absent <=> old.att[a] = Absent
              /\ new.att[a].from = old.att[a].from
              /\ a # m.from => new.att[a] = old.att[a]
        BY <2>3, <3>2, <3>4, <3>5
      <3>7. Invited(new) = Invited(old) /\ Invited(old) \subseteq Attendees
        BY <3>6 DEF Invited
      <3>8. new # Absent
        BY <3>5, PeopleAssumption
      <3> QED BY <1>3, <3>5, <3>6, <3>7, <3>8 DEF SameButAnswer
    <2> QED BY <2>2, <2>3
  <1> QED BY <1>2, <1>3

LEMMA ApplyEffect ==
  ASSUME Inv, NEW c \in Calls, ApplyMessage(c), NEW r, r = call[c]
  PROVE  /\ r # Idle /\ r.at = "apply" /\ UNCHANGED <<inbox, mail, ops>>
         /\ \/ GivesUp(c)
            \/ \E s :
                 /\ GoesOn(c, s) /\ s.at = "send" /\ s.todo = r.todo
                 /\ s.delivered = r.delivered
                 /\ apart' = Apart(r.to, r.message, copy[r.to], copy'[r.to])
                 /\ imported' = Imported(r, copy'[r.to])
                 /\ \A v \in Users : v # r.to => copy'[v] = copy[v] /\ name'[v] = name[v]
                 /\ IF copy[r.to] # Absent \/ copy'[r.to] = Absent
                      THEN name'[r.to] = name[r.to] ELSE name'[r.to] = name[r.to] + 1
                 /\ \/ copy'[r.to] = copy[r.to] /\ r.found = Applied(r.message, r.found)
                    \/ copy'[r.to] = Applied(r.message, copy[r.to])
  <1>1. r.at = "apply" /\ r # Idle
    BY DEF ApplyMessage, Idle
  <1>2. /\ RequestOK(r) /\ r \in Requests /\ r.to \in Users
        /\ copy \in [Users -> Events \cup {Absent}] /\ name \in [Users -> Nat]
    <2>1. RequestOK(r) /\ r \in Requests
      BY <1>1, NewTyped
    <2> QED BY <1>1, <2>1 DEF RequestOK, Inv, TypeOK
  <1>3. UNCHANGED <<inbox, mail, ops>>
    BY DEF ApplyMessage
  <1>4. CASE Fail(c) /\ UNCHANGED <<copy, name, apart, imported>>
    BY <1>1, <1>3, <1>4, FailGivesUp
  <1>5. ASSUME ReplaceMemberBody(r, Applied(r.message, r.found)),
               apart' = Apart(r.to, r.message, copy[r.to], copy'[r.to]),
               imported' = Imported(r, copy'[r.to]),
               GoOn(c, Annotate([r EXCEPT !.at = "send", !.to = Absent, !.message = Absent,
                                          !.found = Absent, !.foundAs = 0], r.to, "success"))
        PROVE  \E s :
                 /\ GoesOn(c, s) /\ s.at = "send" /\ s.todo = r.todo
                 /\ s.delivered = r.delivered
                 /\ apart' = Apart(r.to, r.message, copy[r.to], copy'[r.to])
                 /\ imported' = Imported(r, copy'[r.to])
                 /\ \A v \in Users : v # r.to => copy'[v] = copy[v] /\ name'[v] = name[v]
                 /\ IF copy[r.to] # Absent \/ copy'[r.to] = Absent
                      THEN name'[r.to] = name[r.to] ELSE name'[r.to] = name[r.to] + 1
                 /\ \/ copy'[r.to] = copy[r.to] /\ r.found = Applied(r.message, r.found)
                    \/ copy'[r.to] = Applied(r.message, copy[r.to])
    <2>1. PICK q : /\ q = [r EXCEPT !.at = "send", !.to = Absent, !.message = Absent,
                                    !.found = Absent, !.foundAs = 0]
                   /\ GoOn(c, Annotate(q, r.to, "success"))
      BY <1>5
    <2>2. /\ q \in Requests /\ q.at = "send" /\ q.todo = r.todo /\ q.op = r.op
          /\ q.user = r.user /\ q.new = r.new /\ q.member = r.member /\ q.base = r.base
          /\ q.delivered = r.delivered
      <3>1. q = [r EXCEPT !.at = "send", !.to = Absent, !.message = Absent,
                          !.found = Absent, !.foundAs = 0]
        BY <2>1
      <3> QED BY <1>2, <3>1 DEF Requests
    <2>3. PICK s : s = Annotate(q, r.to, "success") /\ GoOn(c, s)
      BY <2>1
    <2>4. q.new # Absent <=> q.op = "put"
      BY <1>2, <2>2 DEF RequestOK
    <2>5. "success" \in Codes
      BY DEF Codes
    <2>6. /\ s \in Requests /\ (s.new # Absent <=> s.op = "put")
          /\ s.at = "send" /\ s.todo = r.todo /\ s.delivered = r.delivered
      BY <2>2, <2>3, <2>4, <2>5, Annotated
    <2>7. RequestOK(s)
      BY <2>6 DEF RequestOK
    <2>8. Keeps(s, q)
      BY <2>2, <2>3, <2>4, <2>5, AnnotatedKeeps
    <2>9. Keeps(s, r)
      BY <2>2, <2>8 DEF Keeps
    <2>10. GoesOn(c, s)
      BY <2>3, <2>7, <2>9, GoOnGoesOn
    <2>11. /\ \A v \in Users : v # r.to => copy'[v] = copy[v] /\ name'[v] = name[v]
           /\ IF copy[r.to] # Absent \/ copy'[r.to] = Absent
                THEN name'[r.to] = name[r.to] ELSE name'[r.to] = name[r.to] + 1
           /\ \/ copy'[r.to] = copy[r.to] /\ r.found = Applied(r.message, r.found)
              \/ copy'[r.to] = Applied(r.message, copy[r.to])
      <3>1. PICK new : new = Applied(r.message, r.found)
        OBVIOUS
      <3>2. CASE new = r.found /\ UNCHANGED <<copy, name>>
        BY <3>1, <3>2
      <3>3. CASE /\ new # r.found /\ copy[r.to] = r.found
                 /\ copy' = [copy EXCEPT ![r.to] = new]
                 /\ name' = IF r.found = Absent THEN [name EXCEPT ![r.to] = @ + 1] ELSE name
        <4>1. \A v \in Users : copy'[v] = IF v = r.to THEN new ELSE copy[v]
          BY <1>2, <3>3
        <4>2. \A v \in Users : v # r.to => name'[v] = name[v]
          BY <1>2, <3>3
        <4>3. name'[r.to] = IF r.found = Absent THEN name[r.to] + 1 ELSE name[r.to]
          BY <1>2, <3>3
        <4>4. copy'[r.to] = new /\ new = Applied(r.message, copy[r.to])
          BY <1>2, <3>1, <3>3, <4>1
        <4>5. new = Absent => r.found # Absent
          BY <3>3
        <4> QED BY <3>3, <4>1, <4>2, <4>3, <4>4, <4>5
      <3> QED BY <1>5, <3>1, <3>2, <3>3 DEF ReplaceMemberBody
    <2> QED BY <1>5, <2>6, <2>10, <2>11
  <1> QED BY <1>1, <1>3, <1>4, <1>5 DEF ApplyMessage

LEMMA StoreEffect ==
  ASSUME Inv, NEW c \in Calls, StoreOwn(c), NEW r, r = call[c]
  PROVE  /\ r # Idle /\ r.at \in {"send", "store"} /\ r.todo = {} /\ r.op # "import"
         /\ UNCHANGED <<name, inbox, mail, apart, ops>>
         /\ \/ GivesUp(c)
            \/ /\ call'[c] = Idle /\ torn' = torn
               /\ imported' = IF r.base = Absent /\ r.user \in Local
                                THEN imported \cup {r.user} ELSE imported
               /\ \A d \in Calls \ {c} : call'[d] = call[d]
               /\ copy[r.user] = r.base /\ name[r.user] = r.member
               /\ \A v \in Users : copy'[v] = IF v = r.user THEN r.new ELSE copy[v]
  <1>1. r.at \in {"store", "send"} /\ r # Idle
    BY DEF StoreOwn, Idle
  <1>2. RequestOK(r) /\ r.user \in Users /\ copy \in [Users -> Events \cup {Absent}]
    BY <1>1, NewTyped DEF Inv, TypeOK
  <1>3. r.todo = {} /\ r.op # "import" /\ UNCHANGED <<name, inbox, mail, apart, ops>>
    BY <1>1, <1>2 DEF StoreOwn, RequestOK
  <1>4. CASE UNCHANGED <<copy, imported>> /\ Fail(c)
    BY <1>1, <1>3, <1>4, FailGivesUp
  <1>5. ASSUME name[r.user] = r.member, copy[r.user] = r.base,
               copy' = [copy EXCEPT ![r.user] = r.new], Succeed(c)
        PROVE  /\ call'[c] = Idle /\ torn' = torn
               /\ \A d \in Calls \ {c} : call'[d] = call[d]
               /\ \A v \in Users : copy'[v] = IF v = r.user THEN r.new ELSE copy[v]
    <2>1. call' = [call EXCEPT ![c] = Idle] /\ torn' = torn
      BY <1>5 DEF Succeed
    <2> QED BY <1>2, <1>5, <2>1, OwnRecord DEF Inv
  <1> QED BY <1>1, <1>3, <1>4, <1>5 DEF StoreOwn

-----------------------------------------------------------------------------
(* Orderly requests stay orderly                                           *)

LEMMA SendsKept ==
  ASSUME NEW r, NEW s, Keeps(s, r), NEW a, NEW m, Sends(r, a, m)
  PROVE  Sends(s, a, m)
  <1>1. r.op = "import" => ImportSends(a, m)
    BY DEF Sends
  <1>2. r.op # "import" /\ r.user = Organiser => OrganiserSends(s, a, m)
    BY DEF Sends, OrganiserSends, Keeps, SameButStatus
  <1>3. r.op # "import" /\ r.user # Organiser => AttendeeSends(s, a, m)
    BY DEF Sends, AttendeeSends, Keeps, SameButStatus
  <1> QED BY <1>1, <1>2, <1>3 DEF Sends, Keeps

LEMMA OwnUser ==
  ASSUME Inv, NEW c \in Calls, call[c] # Idle, call[c].op # "import", IsOrderly(c)
  PROVE  /\ call[c].user = Organiser => OwnRequest(c, Organiser) /\ OrganisersRequest(call[c])
         /\ call[c].user # Organiser =>
              /\ call[c].user \in Local /\ OwnRequest(c, call[c].user)
              /\ AttendeesRequest(call[c])
              /\ call[c].new # Absent /\ IsAbout(call[c]) =>
                   call[c].op = "put" /\ call[c].user \in Invited(call[c].new)
  <1>1. call[c].user \in Users /\ RequestOK(call[c])
    BY NewTyped
  <1> QED BY <1>1 DEF Users, OwnRequest, IsOrderly, AttendeesRequest, RequestOK

LEMMA StaysOrderly ==
  ASSUME Inv, NEW c \in Calls, NEW r, r = call[c], r # Idle, IsOrderly(c),
         NEW s, GoesOn(c, s), StaysImported,
         \A t \in s.todo : Sends(s, t[1], t[2]),
         s.at = "apply" => Sends(s, s.to, s.message),
         r.op # "import" /\ r.user = Organiser =>
           /\ \A x, t \in s.todo : x[1] = t[1] => x = t
           /\ s.at = "apply" => \A t \in s.todo : t[1] # s.to
           /\ s.at # "hook" /\ s.op = "put" =>
                \A a \in Local \cap Invited(s.new) :
                  Invitation(s.new) \in inbox'[a] \/ \E t \in s.todo : t[1] = a
  PROVE  IsOrderly(c)'
  <1>1. call'[c] = s /\ s # Idle /\ Keeps(s, r)
    BY DEF GoesOn
  <1>2. OwnRequest(c, Organiser)' => OrganisersRequest(call[c])'
    <2> SUFFICES ASSUME r.op # "import", r.user = Organiser
                 PROVE  OrganisersRequest(call[c])'
      BY <1>1 DEF OwnRequest, Keeps
    <2>1. OrganisersRequest(r)
      BY OwnUser
    <2>2. Plain(s.base) /\ Plain(s.new) /\ KeepsParts(s.new, s.base)
      BY <1>1, <2>1 DEF OrganisersRequest, Keeps, SameButStatus, Plain, KeepsParts
    <2> QED BY <1>1, <2>2 DEF OrganisersRequest
  <1>3. ASSUME NEW u \in Local, OwnRequest(c, u)'
        PROVE  AttendeesRequest(call[c])'
    <2>1. r.op # "import" /\ r.user = u /\ OwnRequest(c, u)
      BY <1>1, <1>3 DEF OwnRequest, Keeps
    <2>2. AttendeesRequest(r)
      BY <2>1 DEF IsOrderly
    <2>3. r.op = "put" => r.new # Absent
      BY NewTyped DEF RequestOK
    <2>4. u \in imported => u \in imported'
      BY <2>1 DEF StaysImported
    <2>5. s.base = r.base /\ s.user = r.user /\ s.op = r.op /\ SameButStatus(s.new, r.new)
      BY <1>1 DEF Keeps
    <2> QED
      BY <1>1, <2>1, <2>2, <2>3, <2>4, <2>5 DEF AttendeesRequest, IsAbout, SameButStatus
  <1> QED BY <1>1, <1>2, <1>3 DEF IsOrderly

\* What PutMethod of an organiser and of an attendee sends.
LEMMA OrganiserTells ==
  ASSUME NEW r, NEW new \in Events, r.new = new, Plain(new), NEW old \in Events \cup {Absent}
  PROVE  /\ \A t \in ToAttendees(new, old) : OrganiserSends(r, t[1], t[2])
         /\ \A s, t \in ToAttendees(new, old) : s[1] = t[1] => s = t
         /\ \A a \in Invited(new) : \E t \in ToAttendees(new, old) : t[1] = a
         /\ old # Absent => \A a \in Invited(old) : \E t \in ToAttendees(new, old) : t[1] = a
  <1>1. ASSUME NEW t \in ToAttendees(new, old)
        PROVE  \/ t[1] \in Invited(new) /\ t = <<t[1], Message("REQUEST", new, Organiser)>>
               \/ /\ old # Absent /\ t[1] \in Invited(old) \ Invited(new)
                  /\ t = <<t[1], Message("CANCEL", old, Organiser)>>
    BY DEF ToAttendees
  <1>2. ASSUME NEW t \in ToAttendees(new, old)
        PROVE  OrganiserSends(r, t[1], t[2])
    <2>1. new # Absent
      BY PeopleAssumption
    <2>2. CASE t[1] \in Invited(new) /\ t = <<t[1], Message("REQUEST", new, Organiser)>>
      <3>1. t[2].method = "REQUEST" /\ t[2].event = new /\ t[2].from = Organiser
        BY <2>2 DEF Message
      <3> QED BY <2>1, <2>2, <3>1 DEF OrganiserSends, Plain
    <2>3. CASE /\ old # Absent /\ t[1] \in Invited(old) \ Invited(new)
               /\ t = <<t[1], Message("CANCEL", old, Organiser)>>
      <3>1. t[2].method = "CANCEL" /\ t[2].from = Organiser
        BY <2>3 DEF Message
      <3> QED BY <2>3, <3>1 DEF OrganiserSends
    <2> QED BY <1>1, <1>2, <2>2, <2>3
  <1>3. ASSUME NEW s \in ToAttendees(new, old), NEW t \in ToAttendees(new, old), s[1] = t[1]
        PROVE  s = t
    BY <1>1, <1>3
  <1>4. ASSUME old # Absent, NEW a \in Invited(old) \ Invited(new)
        PROVE  <<a, Message("CANCEL", old, Organiser)>> \in ToAttendees(new, old)
    BY <1>4 DEF ToAttendees
  <1>5. \A a \in Invited(new) : \E t \in ToAttendees(new, old) : t[1] = a
    BY SentToAttendees
  <1>6. ASSUME old # Absent, NEW a \in Invited(old)
        PROVE  \E t \in ToAttendees(new, old) : t[1] = a
    <2>1. CASE a \in Invited(new)
      BY <1>5, <2>1
    <2>2. CASE a \notin Invited(new)
      <3>1. <<a, Message("CANCEL", old, Organiser)>> \in ToAttendees(new, old)
        BY <1>4, <1>6, <2>2
      <3>2. <<a, Message("CANCEL", old, Organiser)>>[1] = a
        OBVIOUS
      <3> QED BY <3>1, <3>2
    <2> QED BY <2>1, <2>2
  <1> QED BY <1>2, <1>3, <1>5, <1>6

LEMMA AttendeeTells ==
  ASSUME NEW r, NEW new \in Events, r.new = new, NEW old \in Events \cup {Absent}, NEW force,
         NEW u \in Users, u # Organiser, r.user = u,
         NEW t \in ToOrganiser(new, old, u, force)
  PROVE  AttendeeSends(r, t[1], t[2])
  <1>1. new # Absent /\ u # Absent
    BY PeopleAssumption
  <1>2. \/ \E a \in DelegatesOf(new, u) : t = <<a, Message("REQUEST", new, u)>>
        \/ IsAttendee(new, u) /\ t = <<Organiser, Message("REPLY", new, u)>>
    BY DEF ToOrganiser
  <1>3. CASE \E a \in DelegatesOf(new, u) : t = <<a, Message("REQUEST", new, u)>>
    <2>1. t[1] \in DelegatesOf(new, u) /\ t[2] = Message("REQUEST", new, u)
      BY <1>3
    <2>2. t[2].method = "REQUEST" /\ t[2].event = new /\ t[2].from = u
      BY <2>1 DEF Message
    <2> QED BY <1>1, <2>1, <2>2 DEF AttendeeSends, DelegatesOf
  <1>4. CASE IsAttendee(new, u) /\ t = <<Organiser, Message("REPLY", new, u)>>
    <2>1. t[1] = Organiser /\ t[2].method = "REPLY" /\ t[2].event = new /\ t[2].from = u
      BY <1>4 DEF Message
    <2> QED BY <1>1, <1>4, <2>1 DEF AttendeeSends, IsAttendee
  <1> QED BY <1>2, <1>3, <1>4

LEMMA AttendeeAnswers ==
  ASSUME NEW new \in Events, NEW old \in Events, NEW force, NEW u \in Invited(new),
         new.att[u].part # old.att[u].part
  PROVE  \E t \in ToOrganiser(new, old, u, force) : t[2].method = "REPLY"
  <1>1. old # Absent
    BY PeopleAssumption
  <1>2. <<Organiser, Message("REPLY", new, u)>> \in ToOrganiser(new, old, u, force)
    BY <1>1 DEF ToOrganiser, IsAttendee
  <1>3. Message("REPLY", new, u).method = "REPLY"
    BY DEF Message
  <1> QED BY <1>2, <1>3

\* What the organiser has, others have: it stays plain, and invites who knows it.
LEMMA OrganisersCopy ==
  ASSUME Inv, RequestsAreOrderly
  PROVE  /\ Organiser \in Users /\ Local \subseteq Users /\ Organiser \notin Local
         /\ copy[Organiser] \in Events \cup {Absent}
         /\ \A u \in Users : copy[u] # Absent => Known(copy[u].what)
         /\ \A c \in Calls : IsOrderly(c)
  BY PeopleAssumption DEF Users, Attendees, Inv, TypeOK, Known, RequestsAreOrderly, IsOrderly

\* A request goes on, or ends, and no copy has changed.
LEMMA QuietlyOrderly ==
  ASSUME Inv, RequestsAreOrderly, NEW c \in Calls, call[c] # Idle,
         \A d \in Calls \ {c} : call'[d] = call[d],
         UNCHANGED <<copy, imported, ops>>, \A u \in Users : inbox[u] \subseteq inbox'[u],
         call'[c] # Idle =>
           Keeps(call'[c], call[c]) /\ IsOrderly(c)' /\ call'[c].at # "hook"
  PROVE  RequestsAreOrderly'
  <1>1. Plain(copy[Organiser])'
    BY DEF RequestsAreOrderly
  <1>2. copy'[Organiser] # Absent =>
          \A a \in Local \cap Invited(copy'[Organiser]) :
            Invitation(copy'[Organiser]) \in inbox'[a]
    BY OrganisersCopy DEF RequestsAreOrderly
  <1>3. \A u \in Users : copy'[u] # Absent => Known(copy'[u].what)
    BY OrganisersCopy
  <1>4. call'[c] # Idle /\ call'[c].new # Absent =>
          call[c].new # Absent /\ call[c].new.what = call'[c].new.what
    BY DEF Keeps, SameButStatus
  <1>5. IsOrderly(c)'
    BY DEF IsOrderly, OwnRequest
  <1>6. ops' \in Nat /\ ops <= ops'
    BY DEF Inv, TypeOK
  <1>7. StaysImported
    BY DEF StaysImported
  <1> QED BY <1>1, <1>2, <1>3, <1>4, <1>5, <1>6, <1>7, OrderlyStep

LEMMA GivesUpOrderly ==
  ASSUME Inv, RequestsAreOrderly, NEW c \in Calls, call[c] # Idle, GivesUp(c)
  PROVE  RequestsAreOrderly'
  BY QuietlyOrderly DEF GivesUp

LEMMA HookOrderly ==
  ASSUME Inv, RequestsAreOrderly, NEW c \in Calls, PrePutHook(c) \/ PreDeleteHook(c)
  PROVE  RequestsAreOrderly'
  <1> SUFFICES ASSUME NEW r, r = call[c], NEW old, old = GetMember(r)
               PROVE  RequestsAreOrderly'
    OBVIOUS
  <1>1. /\ r # Idle /\ r.at = "hook" /\ r.op \in {"put", "delete"}
        /\ UNCHANGED <<copy, name, inbox, mail, apart, imported, ops>>
    BY HookEffect
  <1>2. CASE GivesUp(c)
    BY <1>1, <1>2, GivesUpOrderly
  <1>3. ASSUME NEW s, PassesHook(c, s, old)
        PROVE  RequestsAreOrderly'
    <2>1. /\ call'[c] = s /\ s # Idle /\ Keeps(s, r) /\ \A d \in Calls \ {c} : call'[d] = call[d]
          /\ s.op = r.op /\ s.user = r.user /\ s.new = r.new /\ GoesOn(c, s)
      BY <1>3 DEF PassesHook, GoesOn, Keeps
    <2>2. /\ IsOrderly(c) /\ RequestOK(r) /\ r.user \in Users /\ r.new \in Events \cup {Absent}
          /\ old \in Events \cup {Absent} /\ Organiser \in Users /\ Organiser \notin Local
      <3>1. RequestOK(r) /\ r.user \in Users /\ r.new \in Events \cup {Absent}
        BY <1>1, NewTyped
      <3> QED BY <3>1, OrganisersCopy DEF GetMember, Inv, TypeOK
    <2>3. r.user = Organiser => OrganisersRequest(r)
      BY <1>1, <2>2, OwnUser
    <2>4. CASE s.at = "store" /\ s.op = "put" /\ s.todo = {} /\ old # Absent /\ r.new = old
      <3>1. r.user = Organiser => r.new = copy[Organiser] /\ copy[Organiser] # Absent
        BY <2>4 DEF GetMember
      <3>2. r.user = Organiser =>
              \A a \in Local \cap Invited(s.new) : Invitation(s.new) \in inbox'[a]
        BY <1>1, <2>1, <3>1 DEF RequestsAreOrderly
      <3>3. IsOrderly(c)'
        BY <1>1, <2>1, <2>2, <2>4, <3>2, StaysOrderly DEF StaysImported
      <3> QED BY <1>1, <2>1, <2>4, <3>3, QuietlyOrderly
    <2>5. CASE /\ s.at = "send" /\ s.op = "put"
               /\ s.todo = IF r.user = Organiser THEN ToAttendees(r.new, old)
                           ELSE ToOrganiser(r.new, old, r.user, r.force)
      <3>1. r.new \in Events /\ r.new # Absent
        BY <2>1, <2>2, <2>5 DEF RequestOK
      <3>2. CASE r.user = Organiser
        <4>1. /\ \A t \in s.todo : OrganiserSends(s, t[1], t[2])
              /\ \A x, t \in s.todo : x[1] = t[1] => x = t
              /\ \A a \in Invited(s.new) : \E t \in s.todo : t[1] = a
          <5>1. s.todo = ToAttendees(r.new, old) /\ Plain(r.new)
            BY <2>3, <2>5, <3>2 DEF OrganisersRequest
          <5> QED BY <2>1, <2>2, <3>1, <5>1, OrganiserTells
        <4>2. \A t \in s.todo : Sends(s, t[1], t[2])
          BY <1>1, <2>1, <3>2, <4>1 DEF Sends
        <4>3. IsOrderly(c)'
          BY <1>1, <2>1, <2>2, <2>5, <4>1, <4>2, StaysOrderly DEF StaysImported
        <4> QED BY <1>1, <2>1, <2>5, <4>3, QuietlyOrderly
      <3>3. CASE r.user # Organiser
        <4>1. \A t \in s.todo : AttendeeSends(s, t[1], t[2])
          <5>1. s.todo = ToOrganiser(r.new, old, r.user, r.force)
            BY <2>5, <3>3
          <5>2. /\ s.new = r.new /\ s.user = r.user /\ r.user \in Users /\ r.new \in Events
                /\ old \in Events \cup {Absent}
            BY <2>1, <2>2, <3>1
          <5>3. ASSUME NEW t \in ToOrganiser(r.new, old, r.user, r.force)
                PROVE  AttendeeSends(s, t[1], t[2])
            BY <3>3, <5>2, <5>3, AttendeeTells
          <5> QED BY <5>1, <5>3
        <4>2. \A t \in s.todo : Sends(s, t[1], t[2])
          BY <1>1, <2>1, <3>3, <4>1 DEF Sends
        <4>3. IsOrderly(c)'
          BY <1>1, <2>1, <2>2, <2>5, <3>3, <4>2, StaysOrderly DEF StaysImported
        <4> QED BY <1>1, <2>1, <2>5, <4>3, QuietlyOrderly
      <3> QED BY <3>2, <3>3
    <2>6. CASE /\ s.at = "send" /\ s.op = "delete"
               /\ s.todo = IF old = Absent THEN {}
                           ELSE {<<a, Message("CANCEL", old, Organiser)>> :
                                   a \in OrganiserAttendees(old, r.user)}
      <3>1. r.new = Absent
        BY <2>1, <2>2, <2>6 DEF RequestOK
      <3>2. ASSUME NEW t \in s.todo
            PROVE  /\ r.user = Organiser /\ t[2].method = "CANCEL" /\ t[2].from = Organiser
                   /\ t = <<t[1], Message("CANCEL", old, Organiser)>>
        <4>1. PICK a \in OrganiserAttendees(old, r.user) :
                t = <<a, Message("CANCEL", old, Organiser)>>
          BY <2>6, <3>2
        <4>2. r.user = Organiser
          BY <4>1 DEF OrganiserAttendees
        <4> QED BY <4>1, <4>2 DEF Message
      <3>3. \A t \in s.todo : Sends(s, t[1], t[2])
        BY <1>1, <2>1, <3>1, <3>2 DEF Sends, OrganiserSends
      <3>4. \A x, t \in s.todo : x[1] = t[1] => x = t
        BY <3>2
      <3>5. IsOrderly(c)'
        BY <1>1, <2>1, <2>2, <2>6, <3>3, <3>4, StaysOrderly DEF StaysImported
      <3> QED BY <1>1, <2>1, <2>6, <3>5, QuietlyOrderly
    <2> QED BY <1>3, <2>4, <2>5, <2>6 DEF PassesHook
  <1> QED BY <1>2, <1>3, HookEffect

LEMMA DeliverOrderly ==
  ASSUME Inv, RequestsAreOrderly, NEW c \in Calls, DeliverToInbox(c)
  PROVE  RequestsAreOrderly'
  <1> SUFFICES ASSUME NEW r, r = call[c]
               PROVE  RequestsAreOrderly'
    OBVIOUS
  <1>1. r # Idle /\ r.at = "send" /\ UNCHANGED <<copy, name, mail, apart, imported, ops>>
    BY DeliverEffect
  <1>2. CASE GivesUp(c)
    BY <1>1, <1>2, GivesUpOrderly
  <1>3. ASSUME NEW t, NEW s, Delivers(c, t, s)
        PROVE  RequestsAreOrderly'
    <2>0. /\ GoesOn(c, s) /\ s.new = r.new /\ t \in r.todo
          /\ s.at = "apply" /\ s.todo = r.todo \ {t}
          /\ t[1] \in Users /\ s.to = t[1] /\ s.message = t[2]
          /\ \A u \in Users : inbox[u] \subseteq inbox'[u]
          /\ [method |-> t[2].method, what |-> t[2].event.what] \in inbox'[t[1]]
      BY <1>3 DEF Delivers
    <2>1. /\ call'[c] = s /\ s # Idle /\ Keeps(s, r) /\ \A d \in Calls \ {c} : call'[d] = call[d]
          /\ s.op = r.op /\ s.user = r.user
      BY <2>0 DEF GoesOn, Keeps
    <2>2. /\ IsOrderly(c) /\ RequestOK(r) /\ Organiser \notin Local /\ Local \subseteq Users
          /\ \A x \in r.todo : Sends(r, x[1], x[2])
      BY <1>1, NewTyped, OrganisersCopy DEF IsOrderly
    <2>3. \A x \in r.todo : Sends(s, x[1], x[2])
      BY <2>1, <2>2, SendsKept
    <2>4. ASSUME r.op # "import", r.user = Organiser
          PROVE  /\ \A x, y \in s.todo : x[1] = y[1] => x = y
                 /\ \A x \in s.todo : x[1] # s.to
                 /\ s.op = "put" =>
                      \A a \in Local \cap Invited(s.new) :
                        Invitation(s.new) \in inbox'[a] \/ \E x \in s.todo : x[1] = a
      <3>1. OrganisersRequest(r)
        BY <1>1, <2>2, <2>4, OwnUser
      <3>2. ASSUME s.op = "put", NEW a \in Local \cap Invited(s.new)
            PROVE  Invitation(s.new) \in inbox'[a] \/ \E x \in s.todo : x[1] = a
        <4>1. Invitation(r.new) \in inbox[a] \/ \E x \in r.todo : x[1] = a
          BY <1>1, <2>0, <2>1, <3>1, <3>2 DEF OrganisersRequest
        <4>2. CASE t[1] = a
          <5>1. OrganiserSends(s, t[1], t[2])
            BY <2>0, <2>1, <2>3, <2>4 DEF Sends
          <5>2. s.new # Absent
            BY <2>0, <2>1, <3>2 DEF GoesOn, RequestOK
          <5>3. t[2].method = "REQUEST" /\ t[2].event.what = s.new.what
            BY <3>2, <4>2, <5>1, <5>2 DEF OrganiserSends
          <5> QED BY <2>0, <4>2, <5>3 DEF Invitation
        <4>3. CASE t[1] # a
          BY <2>0, <2>2, <4>1, <4>3
        <4> QED BY <4>2, <4>3
      <3> QED BY <2>0, <3>1, <3>2 DEF OrganisersRequest
    <2>5. IsOrderly(c)'
      BY <1>1, <2>0, <2>2, <2>3, <2>4, StaysOrderly DEF StaysImported
    <2> QED BY <1>1, <2>0, <2>1, <2>5, QuietlyOrderly
  <1> QED BY <1>2, <1>3, DeliverEffect

LEMMA MailOrderly ==
  ASSUME Inv, RequestsAreOrderly, NEW c \in Calls, SendViaImip(c)
  PROVE  RequestsAreOrderly'
  <1> SUFFICES ASSUME NEW r, r = call[c]
               PROVE  RequestsAreOrderly'
    OBVIOUS
  <1>1. r # Idle /\ r.at = "send" /\ UNCHANGED <<copy, name, inbox, mail, apart, imported, ops>>
    BY MailEffect
  <1>2. CASE GivesUp(c)
    BY <1>1, <1>2, GivesUpOrderly
  <1>3. ASSUME NEW t \in r.todo, NEW s, GoesOn(c, s),
               s.at = "send", s.todo = r.todo \ {t}, t[1] \in Remote
        PROVE  RequestsAreOrderly'
    <2>1. /\ call'[c] = s /\ s # Idle /\ Keeps(s, r) /\ \A d \in Calls \ {c} : call'[d] = call[d]
          /\ s.op = r.op /\ s.user = r.user
      BY <1>3 DEF GoesOn, Keeps
    <2>2. /\ IsOrderly(c) /\ RequestOK(r) /\ \A a \in Local : a # t[1]
          /\ \A x \in r.todo : Sends(r, x[1], x[2])
      BY <1>1, <1>3, NewTyped, OrganisersCopy, PeopleAssumption DEF IsOrderly
    <2>3. \A x \in r.todo : Sends(s, x[1], x[2])
      BY <2>1, <2>2, SendsKept
    <2>4. ASSUME r.op # "import", r.user = Organiser
          PROVE  /\ \A x, y \in s.todo : x[1] = y[1] => x = y
                 /\ s.op = "put" =>
                      \A a \in Local \cap Invited(s.new) :
                        Invitation(s.new) \in inbox'[a] \/ \E x \in s.todo : x[1] = a
      <3>1. OrganisersRequest(r)
        BY <1>1, <2>2, <2>4, OwnUser
      <3>2. ASSUME s.op = "put", NEW a \in Local \cap Invited(s.new)
            PROVE  Invitation(s.new) \in inbox'[a] \/ \E x \in s.todo : x[1] = a
        <4>1. a \in Invited(r.new) /\ Invitation(s.new) = Invitation(r.new)
          BY <2>1, <2>2, <3>2 DEF Keeps, SameButStatus, Invitation, RequestOK
        <4>2. Invitation(r.new) \in inbox[a] \/ \E x \in r.todo : x[1] = a
          BY <1>1, <2>1, <3>1, <3>2, <4>1 DEF OrganisersRequest
        <4> QED BY <1>1, <1>3, <2>2, <4>1, <4>2
      <3> QED BY <1>3, <3>1, <3>2 DEF OrganisersRequest
    <2>5. IsOrderly(c)'
      BY <1>1, <1>3, <2>2, <2>3, <2>4, StaysOrderly DEF StaysImported
    <2> QED BY <1>1, <1>3, <2>1, <2>5, QuietlyOrderly
  <1> QED BY <1>2, <1>3, MailEffect

\* What ends up in a copy, of what comes to an inbox.
LEMMA TakenIn ==
  ASSUME Inv, RequestsAreOrderly, NEW c \in Calls, ApplyMessage(c),
         NEW r, r = call[c], NEW u, u = r.to, NEW m, m = r.message, copy'[u] # copy[u]
  PROVE  /\ r.op = "import" => ImportSends(u, m)
         /\ r.op # "import" /\ r.user = Organiser => OrganiserSends(r, u, m)
         /\ r.op # "import" /\ r.user # Organiser => AttendeeSends(r, u, m)
         /\ m.method = "REQUEST" =>
              /\ u \in Local /\ copy'[u] # Absent /\ u \in Invited(m.event)
              /\ copy'[u].what = r.new.what /\ r.new # Absent
              /\ copy'[u].cancelled = m.event.cancelled
              /\ Invited(copy'[u]) = Invited(m.event)
              /\ copy'[u].att[u].from = m.event.att[u].from
              /\ copy'[u].att[u].part =
                   IF copy[u] # Absent /\ u \in Invited(copy[u]) THEN copy[u].att[u].part
                   ELSE m.event.att[u].part
         /\ m.method = "CANCEL" =>
              /\ copy[u] # Absent /\ copy'[u] # Absent
              /\ copy'[u].what = copy[u].what /\ copy'[u].cancelled
              /\ copy'[u].att = copy[u].att /\ Invited(copy'[u]) = Invited(copy[u])
         /\ m.method = "REPLY" => copy[u] # Absent /\ SameButAnswer(copy'[u], copy[u], m.from)
         /\ m.method \in {"REQUEST", "CANCEL", "REPLY"}
  <1>1. /\ r # Idle /\ r.at = "apply" /\ copy'[u] = Applied(m, copy[u])
        /\ UNCHANGED <<inbox, mail, ops>>
    BY ApplyEffect DEF GivesUp
  <1>2. /\ m \in Messages /\ u \in Users /\ copy[u] \in Events \cup {Absent}
        /\ IsOrderly(c) /\ RequestIsRight(r)
    BY <1>1, NewTyped, OrganisersCopy DEF Inv, TypeOK
  <1>3. Sends(r, u, m)
    BY <1>1, <1>2 DEF IsOrderly
  <1>4. ASSUME m.method = "REQUEST"
        PROVE  /\ u \in Local /\ u \in Invited(m.event)
               /\ m.event.what = r.new.what /\ r.new # Absent
    <2>1. u \in Local /\ u \in Invited(m.event)
      BY <1>1, <1>2, <1>4 DEF RequestIsRight, MessagesAreForTheInvited, Entitled
    <2> QED BY <1>3, <1>4, <2>1 DEF Sends, ImportSends, OrganiserSends, AttendeeSends
  <1>6. m.method = "REQUEST" =>
              /\ u \in Local /\ copy'[u] # Absent /\ u \in Invited(m.event)
              /\ copy'[u].what = r.new.what /\ r.new # Absent
              /\ copy'[u].cancelled = m.event.cancelled
              /\ Invited(copy'[u]) = Invited(m.event)
              /\ copy'[u].att[u].from = m.event.att[u].from
              /\ copy'[u].att[u].part =
                   IF copy[u] # Absent /\ u \in Invited(copy[u]) THEN copy[u].att[u].part
                   ELSE m.event.att[u].part
    <2> SUFFICES ASSUME m.method = "REQUEST"
                 PROVE  /\ u \in Local /\ copy'[u] # Absent /\ u \in Invited(m.event)
                        /\ copy'[u].what = r.new.what /\ r.new # Absent
                        /\ copy'[u].cancelled = m.event.cancelled
                        /\ Invited(copy'[u]) = Invited(m.event)
                        /\ copy'[u].att[u].from = m.event.att[u].from
                        /\ copy'[u].att[u].part =
                             IF copy[u] # Absent /\ u \in Invited(copy[u])
                               THEN copy[u].att[u].part ELSE m.event.att[u].part
      OBVIOUS
    <2>1. /\ copy'[u] # Absent /\ copy'[u].what = m.event.what
          /\ copy'[u].cancelled = m.event.cancelled /\ Invited(copy'[u]) = Invited(m.event)
          /\ \A b \in Invited(m.event) :
               /\ copy'[u].att[b].from = m.event.att[b].from
               /\ copy'[u].att[b].part =
                    IF copy[u] # Absent /\ b \in Invited(copy[u]) THEN copy[u].att[b].part
                    ELSE m.event.att[b].part
      BY <1>1, <1>2, RequestTaken
    <2> QED BY <1>4, <2>1
  <1>7. m.method = "CANCEL" =>
              /\ copy[u] # Absent /\ copy'[u] # Absent
              /\ copy'[u].what = copy[u].what /\ copy'[u].cancelled
              /\ copy'[u].att = copy[u].att /\ Invited(copy'[u]) = Invited(copy[u])
    BY <1>1, <1>2, CancelTaken
  <1>8. m.method = "REPLY" => copy[u] # Absent /\ SameButAnswer(copy'[u], copy[u], m.from)
    BY <1>1, <1>2, ReplyTaken DEF SameButAnswer
  <1>9. m.method \in {"REQUEST", "CANCEL", "REPLY"}
    BY <1>2 DEF Messages
  <1> QED BY <1>3, <1>6, <1>7, <1>8, <1>9 DEF Sends

LEMMA ApplyOrderly ==
  ASSUME Inv, RequestsAreOrderly, NEW c \in Calls, ApplyMessage(c)
  PROVE  RequestsAreOrderly'
  <1> SUFFICES ASSUME NEW r, r = call[c], NEW u, u = r.to, NEW m, m = r.message
               PROVE  RequestsAreOrderly'
    OBVIOUS
  <1>1. r # Idle /\ r.at = "apply" /\ UNCHANGED <<inbox, mail, ops>>
    BY ApplyEffect
  <1>2. CASE GivesUp(c)
    BY <1>1, <1>2, GivesUpOrderly
  <1>3. ASSUME NEW s, GoesOn(c, s), s.at = "send", s.todo = r.todo,
               imported' = Imported(r, copy'[r.to]),
               \A v \in Users : v # r.to => copy'[v] = copy[v]
        PROVE  RequestsAreOrderly'
    <2>1. /\ call'[c] = s /\ s # Idle /\ Keeps(s, r) /\ \A d \in Calls \ {c} : call'[d] = call[d]
          /\ s.op = r.op /\ s.user = r.user
      BY <1>3 DEF GoesOn, Keeps
    <2>2. /\ IsOrderly(c) /\ RequestOK(r) /\ u \in Users
          /\ Organiser \in Users /\ Organiser \notin Local /\ Local \subseteq Users
          /\ copy[Organiser] \in Events \cup {Absent}
          /\ \A x \in r.todo : Sends(r, x[1], x[2])
          /\ \A v \in Users : copy[v] # Absent => Known(copy[v].what)
      BY <1>1, NewTyped, OrganisersCopy DEF IsOrderly
    <2>3. \A x \in r.todo : Sends(s, x[1], x[2])
      BY <2>1, <2>2, SendsKept
    <2>4. ASSUME r.op # "import", r.user = Organiser
          PROVE  /\ \A x, y \in s.todo : x[1] = y[1] => x = y
                 /\ s.op = "put" =>
                      \A a \in Local \cap Invited(s.new) :
                        Invitation(s.new) \in inbox'[a] \/ \E x \in s.todo : x[1] = a
      <3>1. OrganisersRequest(r)
        BY <1>1, <2>2, <2>4, OwnUser
      <3>2. ASSUME s.op = "put", NEW a \in Local \cap Invited(s.new)
            PROVE  Invitation(s.new) \in inbox'[a] \/ \E x \in s.todo : x[1] = a
        <4>1. a \in Invited(r.new) /\ Invitation(s.new) = Invitation(r.new)
          BY <2>1, <2>2, <3>2 DEF Keeps, SameButStatus, Invitation, RequestOK
        <4>2. Invitation(r.new) \in inbox[a] \/ \E x \in r.todo : x[1] = a
          BY <1>1, <2>1, <3>1, <3>2, <4>1 DEF OrganisersRequest
        <4> QED BY <1>1, <1>3, <4>1, <4>2
      <3> QED BY <1>3, <3>1, <3>2 DEF OrganisersRequest
    <2>13. StaysImported
      BY <1>3 DEF Imported, StaysImported
    <2>5. IsOrderly(c)'
      BY <1>1, <1>3, <2>2, <2>3, <2>4, <2>13, StaysOrderly
    <2>6. copy'[u] = copy[u] \/
            /\ copy'[u] # Absent
            /\ \/ Known(copy'[u].what)
               \/ r.new # Absent /\ r.new.what = copy'[u].what
      <3> SUFFICES ASSUME copy'[u] # copy[u]
                   PROVE  /\ copy'[u] # Absent
                          /\ \/ Known(copy'[u].what)
                             \/ r.new # Absent /\ r.new.what = copy'[u].what
        OBVIOUS
      <3> QED BY <2>2, TakenIn DEF SameButAnswer
    <2>7. \A v \in Users : copy'[v] # Absent =>
            Known(copy'[v].what) \/ (r.new # Absent /\ r.new.what = copy'[v].what)
      BY <1>3, <2>2, <2>6
    <2>8. copy'[Organiser] # copy[Organiser] =>
            /\ u = Organiser /\ copy[Organiser] # Absent
            /\ copy'[Organiser] # Absent /\ copy'[Organiser].what = copy[Organiser].what
            /\ copy'[Organiser].cancelled = copy[Organiser].cancelled
            /\ Invited(copy'[Organiser]) = Invited(copy[Organiser])
            /\ \A a \in Invited(copy[Organiser]) :
                 copy'[Organiser].att[a].from = copy[Organiser].att[a].from
      <3> SUFFICES ASSUME copy'[Organiser] # copy[Organiser]
                   PROVE  /\ u = Organiser /\ copy[Organiser] # Absent
                          /\ SameButAnswer(copy'[Organiser], copy[Organiser], m.from)
        BY DEF SameButAnswer
      <3>1. u = Organiser
        BY <1>3, <2>2
      <3>2. /\ r.op = "import" => ImportSends(u, m)
            /\ r.op # "import" /\ r.user # Organiser => AttendeeSends(r, u, m)
            /\ m.method = "REQUEST" => u \in Local
            /\ m.method = "REPLY" => copy[u] # Absent /\ SameButAnswer(copy'[u], copy[u], m.from)
            /\ m.method \in {"REQUEST", "CANCEL", "REPLY"}
        <4>1. copy'[u] # copy[u]
          BY <3>1
        <4> QED BY <4>1, TakenIn
      <3>3. m.method = "REPLY"
        <4>1. m.method # "REQUEST"
          BY <2>2, <3>1, <3>2
        <4>2. m.method # "CANCEL"
          <5>1. CASE r.op = "import"
            BY <3>2, <5>1 DEF ImportSends
          <5>2. CASE r.op # "import" /\ r.user # Organiser
            BY <3>2, <5>2 DEF AttendeeSends
          <5>3. CASE r.op # "import" /\ r.user = Organiser /\ m.method = "CANCEL"
            <6>1. Concerned(u, m) \in Attendees
              BY <1>1, NewTyped DEF RequestIsRight, MessagesAreForTheInvited
            <6> QED BY <3>1, <5>3, <6>1, PeopleAssumption DEF Concerned
          <5> QED BY <5>1, <5>2, <5>3
        <4> QED BY <3>2, <4>1, <4>2
      <3> QED BY <3>1, <3>2, <3>3
    <2>9. Plain(copy[Organiser])'
      BY <2>8 DEF RequestsAreOrderly, Plain
    <2>10. copy'[Organiser] # Absent =>
             \A a \in Local \cap Invited(copy'[Organiser]) :
               Invitation(copy'[Organiser]) \in inbox'[a]
      BY <1>1, <2>8 DEF RequestsAreOrderly, Invitation
    <2>11. s.new # Absent => r.new # Absent /\ r.new.what = s.new.what
      BY <2>1 DEF Keeps, SameButStatus
    <2>12. ops' \in Nat /\ ops <= ops' /\ \A v \in Users : inbox[v] \subseteq inbox'[v]
      BY <1>1 DEF Inv, TypeOK
    <2> QED BY <1>1, <1>3, <2>1, <2>5, <2>7, <2>9, <2>10, <2>11, <2>12, <2>13, OrderlyStep
  <1> QED BY <1>2, <1>3, ApplyEffect

LEMMA StoreOrderly ==
  ASSUME Inv, RequestsAreOrderly, NEW c \in Calls, StoreOwn(c)
  PROVE  RequestsAreOrderly'
  <1> SUFFICES ASSUME NEW r, r = call[c]
               PROVE  RequestsAreOrderly'
    OBVIOUS
  <1>1. /\ r # Idle /\ r.at \in {"send", "store"} /\ r.todo = {} /\ r.op # "import"
        /\ UNCHANGED <<name, inbox, mail, apart, ops>>
    BY StoreEffect
  <1>2. CASE GivesUp(c)
    BY <1>1, <1>2, GivesUpOrderly
  <1>3. ASSUME call'[c] = Idle, \A d \in Calls \ {c} : call'[d] = call[d],
               imported \subseteq imported',
               \A v \in Users : copy'[v] = IF v = r.user THEN r.new ELSE copy[v]
        PROVE  RequestsAreOrderly'
    <2>1. /\ IsOrderly(c) /\ RequestOK(r) /\ r.user \in Users
          /\ Organiser \in Users /\ Organiser \notin Local /\ Local \subseteq Users
          /\ \A v \in Users : copy[v] # Absent => Known(copy[v].what)
      BY <1>1, NewTyped, OrganisersCopy DEF IsOrderly
    <2>2. r.user = Organiser => OrganisersRequest(r)
      BY <1>1, <2>1, OwnUser
    <2>3. copy'[Organiser] = IF r.user = Organiser THEN r.new ELSE copy[Organiser]
      BY <1>3, <2>1
    <2>4. Plain(copy[Organiser])'
      <3>1. Plain(copy'[Organiser])
        BY <2>2, <2>3 DEF RequestsAreOrderly, OrganisersRequest
      <3> QED BY <3>1 DEF Plain
    <2>5. copy'[Organiser] # Absent =>
            \A a \in Local \cap Invited(copy'[Organiser]) :
              Invitation(copy'[Organiser]) \in inbox'[a]
      <3>1. CASE r.user = Organiser
        <4>1. r.new # Absent => r.op = "put" /\ r.at # "hook"
          BY <1>1, <2>1 DEF RequestOK
        <4> QED BY <1>1, <2>2, <2>3, <3>1, <4>1 DEF OrganisersRequest
      <3>2. CASE r.user # Organiser
        BY <1>1, <2>3, <3>2 DEF RequestsAreOrderly
      <3> QED BY <3>1, <3>2
    <2>6. IsOrderly(c)'
      BY <1>3 DEF IsOrderly, OwnRequest
    <2>7. \A v \in Users : copy'[v] # Absent =>
            Known(copy'[v].what) \/ (r.new # Absent /\ r.new.what = copy'[v].what)
      BY <1>3, <2>1
    <2>8. ops' \in Nat /\ ops <= ops' /\ \A v \in Users : inbox[v] \subseteq inbox'[v]
      BY <1>1 DEF Inv, TypeOK
    <2>9. StaysImported
      BY <1>3 DEF StaysImported
    <2> QED BY <1>1, <1>3, <2>4, <2>5, <2>6, <2>7, <2>8, <2>9, OrderlyStep
  <1> QED BY <1>2, <1>3, StoreEffect

\* Requests that have just begun.
BeginsAs(c, u, op, new, s) ==
  /\ s # Idle /\ RequestOK(s)
  /\ s.at = "hook" /\ s.op = op /\ s.user = u /\ s.base = copy[u] /\ s.member = name[u]
  /\ s.new = new /\ s.todo = {} /\ s.delivered = FALSE
  /\ call[c] = Idle /\ call'[c] = s /\ \A d \in Calls \ {c} : call'[d] = call[d]
  /\ torn' = (torn \/ \E d \in Calls \ {c} : OwnRequest(d, u))
  /\ UNCHANGED <<copy, name, inbox, mail, apart, imported>> /\ ops' = ops + 1 /\ ops < MaxOps

LEMMA BeginEffect ==
  ASSUME Inv, NEW c \in Calls, NEW u \in Users, NEW op \in {"put", "delete"},
         NEW new \in Events \cup {Absent}, NEW force \in {"none", "look", "reply"},
         Begin(c, u, op, new, force), op = "put" <=> new # Absent
  PROVE  \E s : BeginsAs(c, u, op, new, s)
  <1> DEFINE s == [at |-> "hook", op |-> op, user |-> u, base |-> copy[u],
                   member |-> name[u], new |-> new, force |-> force, todo |-> {},
                   delivered |-> FALSE, to |-> Absent, message |-> Absent,
                   found |-> Absent, foundAs |-> 0]
  <1>1. copy[u] \in Events \cup {Absent} /\ name[u] \in Nat
    BY DEF Inv, TypeOK
  <1>2. s \in Requests /\ RequestOK(s)
    <2>1. s \in Requests
      BY <1>1 DEF Requests
    <2> QED BY <2>1 DEF RequestOK
  <1>3. call' = [call EXCEPT ![c] = s]
    BY DEF Begin
  <1>4. /\ s.at = "hook" /\ s.op = op /\ s.user = u /\ s.base = copy[u]
        /\ s.member = name[u] /\ s.new = new /\ s.todo = {} /\ s.delivered = FALSE
    OBVIOUS
  <1> HIDE DEF s
  <1>5. call'[c] = s /\ \A d \in Calls \ {c} : call'[d] = call[d]
    BY <1>2, <1>3, OwnRecord DEF Inv
  <1>6. s # Idle
    BY <1>2, IdleIsNoRequest
  <1>7. /\ call[c] = Idle /\ UNCHANGED <<copy, name, inbox, mail, apart, imported>>
        /\ torn' = (torn \/ \E d \in Calls \ {c} : OwnRequest(d, u))
        /\ ops' = ops + 1 /\ ops < MaxOps
    BY DEF Begin, CountOp
  <1> QED BY <1>2, <1>4, <1>5, <1>6, <1>7 DEF BeginsAs

\* What a client of u may make of his copy.
IsEdit(u, new) ==
  /\ u = Organiser => Plain(new) /\ KeepsParts(new, copy[u])
  /\ u # Organiser /\ new # Absent /\ copy[u] # Absent /\ u \notin imported =>
       /\ u \in Invited(new) /\ new.cancelled = copy[u].cancelled
       /\ new.att[u].from = copy[u].att[u].from
  /\ new # Absent => new.what = ops + 1 \/ (copy[u] # Absent /\ new.what = copy[u].what)

LEMMA BeginsOrderly ==
  ASSUME Inv, RequestsAreOrderly, NEW c \in Calls, NEW u \in Users, NEW op \in {"put", "delete"},
         NEW new \in Events \cup {Absent}, NEW s, BeginsAs(c, u, op, new, s), IsEdit(u, new)
  PROVE  RequestsAreOrderly'
  <1>0. /\ u = Organiser => Plain(new) /\ KeepsParts(new, copy[u])
        /\ u # Organiser /\ new # Absent /\ copy[u] # Absent /\ u \notin imported =>
             /\ u \in Invited(new) /\ new.cancelled = copy[u].cancelled
             /\ new.att[u].from = copy[u].att[u].from
        /\ new # Absent => new.what = ops + 1 \/ (copy[u] # Absent /\ new.what = copy[u].what)
    BY DEF IsEdit
  <1>1. /\ s.at = "hook" /\ s.op = op /\ s.user = u /\ s.base = copy[u]
        /\ s.new = new /\ s.todo = {} /\ s # Idle /\ RequestOK(s)
        /\ call[c] = Idle /\ call'[c] = s /\ \A d \in Calls \ {c} : call'[d] = call[d]
        /\ UNCHANGED <<copy, name, inbox, mail, apart, imported>> /\ ops' = ops + 1 /\ ops \in Nat
    BY DEF BeginsAs, Inv, TypeOK
  <1>2. /\ Organiser \in Users /\ Organiser \notin Local /\ Local \subseteq Users
        /\ \A v \in Users : copy[v] # Absent => Known(copy[v].what)
    BY OrganisersCopy
  <1>3. /\ u # Organiser => u \in Local
        /\ u # Organiser /\ copy[u] # Absent /\ u \notin imported => u \in Invited(copy[u])
    BY DEF Users, Inv, CopiesAreEntitled, Entitled
  <1>4. IsOrderly(c)'
    <2>1. OwnRequest(c, Organiser)' => OrganisersRequest(call[c])'
      <3> SUFFICES ASSUME u = Organiser
                   PROVE  OrganisersRequest(call[c])'
        BY <1>1 DEF OwnRequest
      <3>1. Plain(s.base) /\ Plain(s.new) /\ KeepsParts(s.new, s.base)
        BY <1>0, <1>1 DEF RequestsAreOrderly
      <3> QED BY <1>1, <3>1 DEF OrganisersRequest
    <2>2. ASSUME NEW v \in Local, OwnRequest(c, v)'
          PROVE  AttendeesRequest(call[c])'
      <3>1. v = u /\ u # Organiser
        BY <1>1, <1>2, <2>2 DEF OwnRequest
      <3>2. s.op = "put" => s.new # Absent
        BY <1>1 DEF RequestOK
      <3> QED BY <1>0, <1>1, <1>3, <3>1, <3>2 DEF AttendeesRequest, IsAbout
    <2> QED BY <1>1, <2>1, <2>2 DEF IsOrderly
  <1>5. /\ \A v \in Users : copy[v] # Absent => copy[v].what <= ops /\ copy[v].what \in Nat
        /\ \A d \in Calls : call[d] # Idle /\ call[d].new # Absent =>
             call[d].new.what <= ops /\ call[d].new.what \in Nat
    <2>1. ASSUME NEW v \in Users, copy[v] # Absent
          PROVE  copy[v].what <= ops /\ copy[v].what \in Nat
      <3>1. copy[v] \in Events
        BY <2>1 DEF Inv, TypeOK
      <3> QED BY <2>1, <3>1 DEF Events, RequestsAreOrderly
    <2>2. ASSUME NEW d \in Calls, call[d] # Idle, call[d].new # Absent
          PROVE  call[d].new.what <= ops /\ call[d].new.what \in Nat
      <3>1. call[d].new \in Events
        BY <2>2, NewTyped
      <3> QED BY <2>2, <3>1 DEF Events, RequestsAreOrderly, MadeHere
    <2> QED BY <2>1, <2>2
  <1>6. MadeHere(c)'
    <2>1. s.new # Absent => s.new.what <= ops'
      BY <1>0, <1>1, <1>5
    <2>2. ASSUME s.op = "put", s.base = Absent \/ s.new.what # s.base.what
          PROVE  /\ \A v \in Users : copy'[v] # Absent => copy'[v].what # s.new.what
                 /\ \A d \in Calls \ {c} :
                      call'[d] # Idle /\ call'[d].new # Absent => call'[d].new.what # s.new.what
      <3>1. s.new.what = ops + 1
        BY <1>0, <1>1, <2>2 DEF RequestOK
      <3> QED BY <1>1, <1>5, <3>1
    <2> QED BY <1>1, <2>1, <2>2 DEF MadeHere
  <1>7. Plain(copy[Organiser])'
    BY <1>1 DEF RequestsAreOrderly
  <1>8. copy'[Organiser] # Absent =>
          \A a \in Local \cap Invited(copy'[Organiser]) :
            Invitation(copy'[Organiser]) \in inbox'[a]
    BY <1>1 DEF RequestsAreOrderly
  <1>9. \A v \in Users : copy'[v] # Absent => Known(copy'[v].what)
    BY <1>1, <1>2
  <1>10. s.new # Absent => Known(s.new.what) \/ (s.new.what = ops + 1 /\ ops' = ops + 1)
    BY <1>0, <1>1, <1>2
  <1>11. /\ ops' \in Nat /\ ops <= ops' /\ \A v \in Users : inbox[v] \subseteq inbox'[v]
         /\ StaysImported
    BY <1>1 DEF StaysImported
  <1> QED BY <1>1, <1>4, <1>6, <1>7, <1>8, <1>9, <1>10, <1>11, OrderlyStep

LEMMA BeginCases ==
  ASSUME Inv, RequestsAreOrderly, NEW c \in Calls, NEW u \in Users,
         BeginPut(c, u) \/ BeginDelete(c, u)
  PROVE  \E op \in {"put", "delete"}, new \in Events \cup {Absent} : \E s :
           BeginsAs(c, u, op, new, s) /\ IsEdit(u, new)
  <1>1. /\ copy[u] \in Events \cup {Absent} /\ ops \in Nat
        /\ u = Organiser => Plain(copy[u])
        /\ u # Organiser /\ copy[u] # Absent /\ u \notin imported => u \in Invited(copy[u])
    BY DEF Inv, TypeOK, CopiesAreEntitled, Entitled, Users, RequestsAreOrderly
  <1>2. ASSUME NEW new \in Edits(copy[u], u), Begin(c, u, "put", new, "none")
        PROVE  \E s : BeginsAs(c, u, "put", new, s) /\ IsEdit(u, new) /\ new \in Events
    <2>1. ops < MaxOps
      BY <1>2 DEF Begin, CountOp
    <2>2. new \in Events /\ new # Absent
      BY <1>1, <2>1, EditsTyped, PeopleAssumption
    <2>3. IsEdit(u, new)
      <3>1. CASE u = Organiser
        <4>1. new \in OrganiserEdits(copy[u])
          BY <1>2, <3>1 DEF Edits
        <4> QED BY <1>1, <2>1, <3>1, <4>1, OrganiserEditsPlainly DEF IsEdit
      <3>2. CASE u # Organiser
        <4>1. new \in AttendeeEdits(copy[u], u) /\ u \in Attendees
          BY <1>2, <3>2 DEF Edits, Users, Attendees
        <4>2. ASSUME copy[u] # Absent, u \notin imported
              PROVE  /\ u \in Invited(new) /\ new.cancelled = copy[u].cancelled
                     /\ new.att[u].from = copy[u].att[u].from
          <5>1. copy[u] \in Events /\ u \in Invited(copy[u])
            BY <1>1, <3>2, <4>2
          <5> QED BY <1>1, <2>1, <4>1, <5>1, AttendeeEditsHisEntry
        <4>3. new.what = ops + 1 \/ (copy[u] # Absent /\ new.what = copy[u].what)
          BY <1>1, <4>1, AttendeeNamesVersion
        <4> QED BY <3>2, <4>2, <4>3 DEF IsEdit
      <3> QED BY <3>1, <3>2
    <2>4. \E s : BeginsAs(c, u, "put", new, s)
      BY <1>2, <2>2, BeginEffect
    <2> QED BY <2>2, <2>3, <2>4
  <1>3. copy[u] # Absent => IsEdit(u, copy[u])
    BY <1>1 DEF IsEdit, KeepsParts
  <1>4. ASSUME copy[u] # Absent, NEW a \in Invited(copy[u]), NEW mode \in {"REQUEST", "REPLY"},
               Begin(c, u, "put", copy[u], ConsumeForceSend(a, mode, u))
        PROVE  \E s : BeginsAs(c, u, "put", copy[u], s)
    <2>1. ConsumeForceSend(a, mode, u) \in {"none", "look", "reply"}
      BY DEF ConsumeForceSend
    <2> QED BY <1>1, <1>4, <2>1, BeginEffect
  <1>5. ASSUME BeginDelete(c, u)
        PROVE  \E s : BeginsAs(c, u, "delete", Absent, s) /\ IsEdit(u, Absent)
    <2>1. IsEdit(u, Absent)
      BY <1>5 DEF BeginDelete, IsEdit, Plain, KeepsParts
    <2>2. \E s : BeginsAs(c, u, "delete", Absent, s)
      BY <1>5, BeginEffect DEF BeginDelete
    <2> QED BY <2>1, <2>2
  <1>6. CASE \E new \in Edits(copy[u], u) : Begin(c, u, "put", new, "none")
    BY <1>2, <1>6
  <1>7. CASE /\ copy[u] # Absent
             /\ \E a \in Invited(copy[u]), mode \in {"REQUEST", "REPLY"} :
                  Begin(c, u, "put", copy[u], ConsumeForceSend(a, mode, u))
    BY <1>1, <1>3, <1>4, <1>7
  <1> QED BY <1>5, <1>6, <1>7 DEF BeginPut

LEMMA BeginOrderly ==
  ASSUME Inv, RequestsAreOrderly, NEW c \in Calls, NEW u \in Users,
         BeginPut(c, u) \/ BeginDelete(c, u)
  PROVE  RequestsAreOrderly'
  BY BeginCases, BeginsOrderly

LEMMA BeginImportEffect ==
  ASSUME Inv, NEW c \in Calls, BeginImport(c)
  PROVE  /\ call[c] = Idle /\ \A d \in Calls \ {c} : call'[d] = call[d]
         /\ UNCHANGED <<copy, name, inbox, mail, torn, apart, imported>> /\ ops' = ops + 1 /\ ops \in Nat
         /\ \E s : /\ call'[c] = s /\ s # Idle /\ s.op = "import" /\ s.at = "send"
                   /\ s.new = Absent /\ \A t \in s.todo : ImportSends(t[1], t[2])
  <1>1. PICK m \in mail :
          call' = [call EXCEPT ![c] =
            [at |-> "send", op |-> "import", user |-> Organiser, base |-> Absent, new |-> Absent,
             member |-> 0, force |-> "none", todo |-> {<<Organiser, m>>}, delivered |-> FALSE,
             to |-> Absent, message |-> Absent, found |-> Absent, foundAs |-> 0]]
    BY DEF BeginImport
  <1> DEFINE s == [at |-> "send", op |-> "import", user |-> Organiser, base |-> Absent,
                   new |-> Absent, member |-> 0, force |-> "none", todo |-> {<<Organiser, m>>},
                   delivered |-> FALSE, to |-> Absent, message |-> Absent, found |-> Absent,
                   foundAs |-> 0]
  <1>2. m \in Messages /\ m.method = "REPLY" /\ m.from \in Remote /\ Organiser \in Users
    BY DEF Inv, TypeOK, Users
  <1>3. <<Organiser, m>> \in (Users \cup Remote) \X Messages
    BY <1>2
  <1>4. s \in Requests
    BY <1>2, <1>3 DEF Requests
  <1>5. s.at = "send" /\ s.op = "import" /\ s.new = Absent /\ s.todo = {<<Organiser, m>>}
    OBVIOUS
  <1>6. call' = [call EXCEPT ![c] = s]
    BY <1>1
  <1> HIDE DEF s
  <1>7. call'[c] = s /\ \A d \in Calls \ {c} : call'[d] = call[d]
    BY <1>4, <1>6, OwnRecord DEF Inv
  <1>8. s # Idle
    BY <1>4, IdleIsNoRequest
  <1>9. /\ call[c] = Idle /\ UNCHANGED <<copy, name, inbox, mail, torn, apart, imported>>
        /\ ops' = ops + 1 /\ ops \in Nat
    BY DEF BeginImport, CountOp, Inv, TypeOK
  <1>10. \A t \in s.todo : ImportSends(t[1], t[2])
    BY <1>2, <1>5 DEF ImportSends
  <1> QED BY <1>5, <1>7, <1>8, <1>9, <1>10

\* A step of the command that takes mail in, which sends no version.
LEMMA ImportOrderly ==
  ASSUME Inv, RequestsAreOrderly, NEW c \in Calls, BeginImport(c) \/ EndImport(c)
  PROVE  RequestsAreOrderly'
  <1>1. /\ \A d \in Calls \ {c} : call'[d] = call[d]
        /\ UNCHANGED <<copy, imported, inbox>> /\ ops' \in Nat /\ ops <= ops'
        /\ call'[c] # Idle =>
             /\ call'[c].op = "import" /\ call'[c].at = "send" /\ call'[c].new = Absent
             /\ \A t \in call'[c].todo : ImportSends(t[1], t[2])
    <2>1. CASE BeginImport(c)
      BY <2>1, BeginImportEffect
    <2>2. CASE EndImport(c)
      <3>1. call' = [call EXCEPT ![c] = Idle] /\ UNCHANGED <<copy, imported, inbox, ops>>
        BY <2>2 DEF EndImport, Succeed
      <3> QED BY <3>1, OwnRecord DEF Inv, TypeOK
    <2> QED BY <2>1, <2>2
  <1>2. IsOrderly(c)'
    BY <1>1 DEF IsOrderly, OwnRequest, Sends
  <1>3. Plain(copy[Organiser])'
    BY <1>1 DEF RequestsAreOrderly
  <1>4. copy'[Organiser] # Absent =>
          \A a \in Local \cap Invited(copy'[Organiser]) :
            Invitation(copy'[Organiser]) \in inbox'[a]
    BY <1>1 DEF RequestsAreOrderly
  <1>5. \A v \in Users : copy'[v] # Absent => Known(copy'[v].what)
    BY <1>1, OrganisersCopy
  <1>6. (\A v \in Users : inbox[v] \subseteq inbox'[v]) /\ StaysImported
    BY <1>1 DEF StaysImported
  <1> QED BY <1>1, <1>2, <1>3, <1>4, <1>5, <1>6, OrderlyStep

\* Only the count of operations moves, if anything.
LEMMA StillOrderly ==
  ASSUME Inv, RequestsAreOrderly, UNCHANGED <<copy, inbox, imported, call>>,
         ops' \in Nat, ops <= ops'
  PROVE  RequestsAreOrderly'
  <1>1. \A v \in Users : copy'[v] # Absent => copy'[v].what <= ops'
    <2> SUFFICES ASSUME NEW v \in Users, copy[v] # Absent
                 PROVE  copy[v].what <= ops'
      OBVIOUS
    <2>1. copy[v] \in Events /\ copy[v].what <= ops /\ ops \in Nat
      BY DEF Inv, TypeOK, RequestsAreOrderly
    <2> QED BY <2>1 DEF Events
  <1>2. ASSUME NEW c \in Calls, call'[c] # Idle
        PROVE  MadeHere(c)'
    <2>1. MadeHere(c) /\ call[c].new \in Events \cup {Absent} /\ ops \in Nat
      BY <1>2, NewTyped DEF RequestsAreOrderly, Inv, TypeOK
    <2>2. call[c].new # Absent => call[c].new.what <= ops'
      BY <2>1 DEF MadeHere, Events
    <2> QED BY <2>1, <2>2 DEF MadeHere
  <1>3. ASSUME NEW c \in Calls
        PROVE  IsOrderly(c)'
    <2>1. IsOrderly(c)
      BY OrganisersCopy
    <2> QED BY <2>1 DEF IsOrderly, OwnRequest, OrganisersRequest, AttendeesRequest, IsAbout
  <1>4. /\ Plain(copy[Organiser])'
        /\ copy'[Organiser] # Absent =>
             \A a \in Local \cap Invited(copy'[Organiser]) :
               Invitation(copy'[Organiser]) \in inbox'[a]
    BY DEF RequestsAreOrderly
  <1> QED BY <1>1, <1>2, <1>3, <1>4 DEF RequestsAreOrderly, IsOrderly

LEMMA StepKeepsOrderly ==
  ASSUME Inv, RequestsAreOrderly, [Next]_vars
  PROVE  RequestsAreOrderly'
  <1>0. ops \in Nat
    BY DEF Inv, TypeOK
  <1>1. CASE UNCHANGED vars
    BY <1>0, <1>1, StillOrderly DEF vars
  <1>2. ASSUME NEW a \in Remote, NEW p, RemoteReply(a, p)
        PROVE  RequestsAreOrderly'
    BY <1>0, <1>2, StillOrderly DEF RemoteReply, CountOp
  <1>3. ASSUME NEW c \in Calls, Step(c)
        PROVE  RequestsAreOrderly'
    BY <1>3, HookOrderly, DeliverOrderly, MailOrderly, ApplyOrderly, StoreOrderly, ImportOrderly
       DEF Step
  <1>4. ASSUME NEW c \in Calls, NEW u \in Users, BeginPut(c, u) \/ BeginDelete(c, u)
        PROVE  RequestsAreOrderly'
    BY <1>4, BeginOrderly
  <1>5. ASSUME NEW c \in Calls, BeginImport(c)
        PROVE  RequestsAreOrderly'
    BY <1>5, ImportOrderly
  <1> QED BY <1>1, <1>2, <1>3, <1>4, <1>5 DEF Next
-----------------------------------------------------------------------------
(* Requests that fit together                                              *)

OthersRest(c) == \A d \in Calls \ {c} : call'[d] = call[d]

\* The parts of RequestsFitTogether about request c, about pairs and about a.
TakesTurn(c) ==
  /\ OwnRequest(c, Organiser) => OrganisersTurn(call[c])
  /\ \A u \in Local : OwnRequest(c, u) => AttendeesTurn(call[c])
  /\ call[c].at = "apply" => call[c].delivered

OneAtATime == \A c, d \in Calls, u \in Users : OwnRequest(c, u) /\ OwnRequest(d, u) => c = d

Consistent(a) == VersionsAgree(a) /\ AnswersAreKnown(a)

OwnAnswer(c, a) == OwnRequest(c, a) /\ Answered(call[c])

\* Attendee a finds the same answer of his in e and f, or none.
SameAnswer(a, e, f) ==
  /\ e # Absent /\ a \in Invited(e) <=> f # Absent /\ a \in Invited(f)
  /\ f # Absent /\ a \in Invited(f) => e.att[a].part = f.att[a].part

LEMMA FitTogether ==
  RequestsFitTogether <=>
    /\ OneAtATime
    /\ \A c \in Calls : TakesTurn(c)
    /\ \A a \in Local \ imported : Consistent(a)
  BY DEF RequestsFitTogether, OneAtATime, TakesTurn, Consistent

LEMMA OthersAsBefore ==
  ASSUME NEW c \in Calls, OthersRest(c), NEW d \in Calls \ {c}
  PROVE  /\ call'[d] = call[d]
         /\ \A u : OwnRequest(d, u)' <=> OwnRequest(d, u)
         /\ \A a : Told(d, a)' <=> Told(d, a)
         /\ \A a : OwnAnswer(d, a)' <=> OwnAnswer(d, a)
  <1>1. call'[d] = call[d]
    BY DEF OthersRest
  <1>2. ASSUME NEW u
        PROVE  OwnRequest(d, u)' <=> OwnRequest(d, u)
    BY <1>1 DEF OwnRequest
  <1>3. ASSUME NEW a
        PROVE  Told(d, a)' <=> Told(d, a)
    BY <1>1 DEF Told, OwnRequest, Telling, Waiting
  <1>4. ASSUME NEW a
        PROVE  OwnAnswer(d, a)' <=> OwnAnswer(d, a)
    BY <1>1 DEF OwnAnswer, OwnRequest, Answered, ReplyIsDue
  <1> QED BY <1>1, <1>2, <1>3, <1>4

LEMMA VersionsKept ==
  ASSUME NEW a \in Local, NEW c \in Calls, OthersRest(c), VersionsAgree(a),
         Told(c, a)' <=> Told(c, a), Told(c, a) => SameMeeting(call'[c].new, call[c].new),
         SameMeeting(copy'[Organiser], copy[Organiser]),
         Direct(copy'[a], a) =>
           /\ Direct(copy[a], a)
           /\ copy'[a].what = copy[a].what /\ copy'[a].cancelled = copy[a].cancelled
  PROVE  VersionsAgree(a)'
  <1>1. ASSUME NEW e, NEW f, SameMeeting(f, e), Agrees(a, e)
        PROVE  Direct(copy'[a], a) =>
                 IF f # Absent /\ a \in Invited(f) THEN copy'[a].what = f.what /\ ~copy'[a].cancelled
                 ELSE copy'[a].cancelled
    BY <1>1 DEF Agrees, SameMeeting
  <1>2. \A d \in Calls : Told(d, a)' <=> Told(d, a)
    BY OthersAsBefore
  <1>3. (\A d \in Calls : ~Told(d, a)') => Agrees(a, copy[Organiser])'
    <2> SUFFICES ASSUME \A d \in Calls : ~Told(d, a)'
                 PROVE  Agrees(a, copy[Organiser])'
      OBVIOUS
    <2>1. Agrees(a, copy[Organiser])
      BY <1>2 DEF VersionsAgree
    <2> QED BY <1>1, <2>1 DEF Agrees
  <1>4. ASSUME NEW d \in Calls, Told(d, a)'
        PROVE  Agrees(a, call[d].new)'
    <2>1. Agrees(a, call[d].new)
      BY <1>2, <1>4 DEF VersionsAgree
    <2>2. SameMeeting(call'[d].new, call[d].new)
      <3>1. CASE d = c
        BY <1>4, <3>1
      <3>2. CASE d # c
        BY <3>2, OthersAsBefore DEF SameMeeting
      <3> QED BY <3>1, <3>2
    <2> QED BY <1>1, <2>1, <2>2 DEF Agrees
  <1> QED BY <1>3, <1>4 DEF VersionsAgree

LEMMA KnowsKept ==
  ASSUME NEW a \in Local, NEW c \in Calls, OthersRest(c), NEW p, Knows(a, p),
         Told(c, a)' <=> Told(c, a),
         Told(c, a) => SameAnswer(a, call'[c].new, call[c].new) /\ call'[c].base = call[c].base,
         SameAnswer(a, copy'[Organiser], copy[Organiser])
  PROVE  Knows(a, p)'
  <1> DEFINE known == copy[Organiser] # Absent /\ a \in Invited(copy[Organiser])
  <1>1. \A d \in Calls : Told(d, a)' <=> Told(d, a)
    BY OthersAsBefore
  <1>2. known' <=> known
    BY DEF SameAnswer
  <1>3. known => copy'[Organiser].att[a].part = copy[Organiser].att[a].part
    BY DEF SameAnswer
  <1>4. ASSUME NEW d \in Calls, Told(d, a)'
        PROVE  SameAnswer(a, call'[d].new, call[d].new) /\ call'[d].base = call[d].base
    <2>1. CASE d = c
      BY <1>4, <2>1
    <2>2. CASE d # c
      BY <2>2, OthersAsBefore DEF SameAnswer
    <2> QED BY <2>1, <2>2
  <1>5. known' /\ (\A d \in Calls : ~Told(d, a)') => p = copy'[Organiser].att[a].part
    BY <1>1, <1>2, <1>3 DEF Knows
  <1>6. ASSUME NEW d \in Calls, Told(d, a)', call'[d].new # Absent, a \in Invited(call'[d].new)
        PROVE  IF known'
                 THEN copy'[Organiser].att[a].part = call'[d].base.att[a].part =>
                        p = copy'[Organiser].att[a].part
                 ELSE p = call'[d].new.att[a].part
    <2>1. /\ call[d].new # Absent /\ a \in Invited(call[d].new) /\ call'[d].base = call[d].base
          /\ call'[d].new.att[a].part = call[d].new.att[a].part
      BY <1>4, <1>6 DEF SameAnswer
    <2>2. IF known
            THEN copy[Organiser].att[a].part = call[d].base.att[a].part =>
                   p = copy[Organiser].att[a].part
            ELSE p = call[d].new.att[a].part
      BY <1>1, <1>6, <2>1 DEF Knows
    <2> QED BY <1>2, <1>3, <2>1, <2>2
  <1> QED BY <1>5, <1>6 DEF Knows

LEMMA AnswersKept ==
  ASSUME NEW a \in Local, NEW c \in Calls, OthersRest(c), AnswersAreKnown(a),
         \A p : Knows(a, p) => Knows(a, p)',
         a \in apart => a \in apart',
         copy'[a] # Absent =>
           copy[a] # Absent /\ copy'[a].att[a].part = copy[a].att[a].part,
         OwnAnswer(c, a)' <=> OwnAnswer(c, a),
         OwnAnswer(c, a) => call'[c].new.att[a].part = call[c].new.att[a].part
  PROVE  AnswersAreKnown(a)'
  <1> SUFFICES ASSUME a \notin apart', copy'[a] # Absent
               PROVE  /\ (\A d \in Calls : ~OwnAnswer(d, a)') => Knows(a, copy[a].att[a].part)'
                      /\ \A d \in Calls :
                           OwnAnswer(d, a)' => Knows(a, call[d].new.att[a].part)'
    BY DEF AnswersAreKnown, OwnAnswer
  <1>1. \A d \in Calls : OwnAnswer(d, a)' <=> OwnAnswer(d, a)
    BY OthersAsBefore
  <1>2. /\ (\A d \in Calls : ~OwnAnswer(d, a)) => Knows(a, copy[a].att[a].part)
        /\ \A d \in Calls : OwnAnswer(d, a) => Knows(a, call[d].new.att[a].part)
    BY DEF AnswersAreKnown, OwnAnswer
  <1>3. (\A d \in Calls : ~OwnAnswer(d, a)') => Knows(a, copy[a].att[a].part)'
    <2> SUFFICES ASSUME \A d \in Calls : ~OwnAnswer(d, a)'
                 PROVE  Knows(a, copy[a].att[a].part)'
      OBVIOUS
    <2>1. PICK p : p = copy[a].att[a].part
      OBVIOUS
    <2>2. Knows(a, p)' /\ p = copy'[a].att[a].part
      BY <1>1, <1>2, <2>1
    <2> QED BY <2>2 DEF Knows
  <1>4. ASSUME NEW d \in Calls, OwnAnswer(d, a)'
        PROVE  Knows(a, call[d].new.att[a].part)'
    <2>1. PICK p : p = call[d].new.att[a].part
      OBVIOUS
    <2>2. p = call'[d].new.att[a].part
      BY <1>1, <1>4, <2>1, OthersAsBefore
    <2>3. Knows(a, p)'
      BY <1>1, <1>2, <1>4, <2>1
    <2> QED BY <2>2, <2>3 DEF Knows
  <1> QED BY <1>3, <1>4

\* A member that was gone does not come back under its name.
StillFindsNothing(v) ==
  \A n \in Nat : n <= name[v] /\ (n # name[v] \/ copy[v] = Absent) =>
                   n # name'[v] \/ copy'[v] = Absent

\* What requests of others leave of a turn.
LEMMA TurnKept ==
  ASSUME Inv, NEW c \in Calls, OthersRest(c), NEW d \in Calls \ {c}, TakesTurn(d),
         OwnRequest(d, Organiser) =>
           /\ name'[Organiser] = name[Organiser]
           /\ SameMeeting(copy'[Organiser], copy[Organiser])
           /\ \A v \in Users \ imported' : Direct(copy'[v], v) =>
                /\ v \notin imported /\ Direct(copy[v], v)
                /\ copy'[v].what = copy[v].what /\ copy'[v].cancelled = copy[v].cancelled,
         \A v \in Local \ imported' : OwnRequest(d, v) => v \notin imported,
         \A v \in Local \ imported' : OwnRequest(d, v) /\ copy[v] # Absent =>
           /\ name'[v] = name[v]
           /\ copy'[v] # Absent /\ copy'[v].att[v].part = copy[v].att[v].part,
         \A v \in Local : OwnRequest(d, v) => StillFindsNothing(v)
  PROVE  TakesTurn(d)'
  <1> DEFINE r == call[d]
  <1>1. call'[d] = r /\ \A u : OwnRequest(d, u)' <=> OwnRequest(d, u)
    BY OthersAsBefore
  <1>2. ASSUME OwnRequest(d, Organiser)
        PROVE  OrganisersTurn(call[d])'
    <2>1. OrganisersTurn(r) /\ r # Idle
      BY <1>2 DEF TakesTurn, OwnRequest
    <2>2. /\ name'[Organiser] = name[Organiser]
          /\ SameMeeting(copy'[Organiser], copy[Organiser])
      BY <1>2
    <2>3. /\ r.member = name'[Organiser]
          /\ SameMeeting(r.base, copy'[Organiser])
          /\ r.at = "store" => SameMeeting(r.new, copy'[Organiser])
      BY <2>1, <2>2 DEF OrganisersTurn, SameMeeting
    <2>4. Telling(r) /\ ~r.delivered =>
            /\ r.new # Absent => \A a \in Local \cap Invited(r.new) : Waiting(r, a)
            /\ copy'[Organiser] # Absent =>
                 \A a \in Local \cap Invited(copy'[Organiser]) : Waiting(r, a)
      BY <2>1, <2>2 DEF OrganisersTurn, SameMeeting
    <2>5. r.at = "apply" /\ Direct(copy'[r.to], r.to) /\ r.to \notin imported' =>
            /\ Direct(r.found, r.to)
            /\ r.found.what = copy'[r.to].what /\ r.found.cancelled = copy'[r.to].cancelled
      <3> SUFFICES ASSUME r.at = "apply", Direct(copy'[r.to], r.to), r.to \notin imported'
                   PROVE  /\ Direct(r.found, r.to)
                          /\ r.found.what = copy'[r.to].what
                          /\ r.found.cancelled = copy'[r.to].cancelled
        OBVIOUS
      <3>1. r.to \in Users
        BY <2>1, NewTyped
      <3>2. /\ r.to \notin imported /\ Direct(copy[r.to], r.to)
            /\ copy'[r.to].what = copy[r.to].what /\ copy'[r.to].cancelled = copy[r.to].cancelled
        BY <1>2, <3>1
      <3> QED BY <2>1, <3>2 DEF OrganisersTurn
    <2> QED BY <1>1, <2>3, <2>4, <2>5 DEF OrganisersTurn, Telling, Waiting
  <1>3. ASSUME NEW v \in Local, OwnRequest(d, v)
        PROVE  AttendeesTurn(call[d])'
    <2>1. AttendeesTurn(r) /\ r.user = v
      BY <1>3 DEF TakesTurn, OwnRequest
    <2>1a. r.base = Absent => (r.at = "hook" => FindsNothing(r)') /\ ~ReplyIsDue(r)
      <3>1. r.member <= name[v] /\ r.member \in Nat
        BY <1>3, NewTyped DEF OwnRequest, RequestIsRight, MemberIsKnown, Requests
      <3> QED BY <1>1, <1>3, <2>1, <3>1 DEF AttendeesTurn, FindsNothing, StillFindsNothing
    <2>2. CASE r.base = Absent \/ v \in imported'
      BY <1>1, <2>1, <2>2, <2>1a DEF AttendeesTurn, IsAbout, FindsNothing, ReplyIsDue
    <2>3. CASE r.base # Absent /\ v \notin imported'
      <3>1. IsAbout(r)
        BY <1>3, <2>1, <2>3 DEF IsAbout
      <3>2. copy[v] # Absent
        BY <2>1, <3>1 DEF AttendeesTurn
      <3>3. name'[v] = name[v] /\ copy'[v] # Absent /\ copy'[v].att[v].part = copy[v].att[v].part
        BY <1>3, <2>3, <3>2
      <3> QED BY <1>1, <2>1, <2>3, <3>1, <3>3 DEF AttendeesTurn, Answered, ReplyIsDue
    <2> QED BY <2>2, <2>3
  <1>4. call'[d].at = "apply" => call'[d].delivered
    BY <1>1 DEF TakesTurn
  <1> QED BY <1>1, <1>2, <1>3, <1>4 DEF TakesTurn

LEMMA OneAtATimeKept ==
  ASSUME OneAtATime, NEW c \in Calls, OthersRest(c),
         \A u \in Users : OwnRequest(c, u)' =>
           OwnRequest(c, u) \/ \A d \in Calls \ {c} : ~OwnRequest(d, u)
  PROVE  OneAtATime'
  <1> SUFFICES ASSUME NEW x \in Calls, NEW y \in Calls, NEW u \in Users,
                      OwnRequest(x, u)', OwnRequest(y, u)', x # y
               PROVE  FALSE
    BY DEF OneAtATime
  <1>1. \A d \in Calls \ {c} : OwnRequest(d, u)' <=> OwnRequest(d, u)
    BY OthersAsBefore
  <1>2. CASE x # c /\ y # c
    BY <1>1, <1>2 DEF OneAtATime
  <1>3. CASE x = c
    BY <1>1, <1>3 DEF OneAtATime
  <1>4. CASE y = c
    BY <1>1, <1>4 DEF OneAtATime
  <1> QED BY <1>2, <1>3, <1>4

LEMMA Assembled ==
  ASSUME OneAtATime, NEW c \in Calls, OthersRest(c),
         \A u \in Users : OwnRequest(c, u)' =>
           OwnRequest(c, u) \/ \A d \in Calls \ {c} : ~OwnRequest(d, u),
         TakesTurn(c)', \A d \in Calls \ {c} : TakesTurn(d)',
         \A a \in Local \ imported' : Consistent(a)'
  PROVE  RequestsFitTogether'
  <1>1. OneAtATime'
    BY OneAtATimeKept
  <1>2. \A d \in Calls : TakesTurn(d)'
    <2> SUFFICES ASSUME NEW d \in Calls
                 PROVE  TakesTurn(d)'
      OBVIOUS
    <2> QED BY DEF TakesTurn
  <1> QED BY <1>1, <1>2 DEF RequestsFitTogether, OneAtATime, TakesTurn, Consistent

\* No copy changes: it is enough to look at the request itself and who is told.
LEMMA QuietlyAssembled ==
  ASSUME Inv, RequestsFitTogether, NEW c \in Calls, OthersRest(c),
         UNCHANGED <<copy, name, imported>>,
         \A u \in Users : OwnRequest(c, u)' =>
           OwnRequest(c, u) \/ \A d \in Calls \ {c} : ~OwnRequest(d, u),
         TakesTurn(c)', \A a \in Local \ imported : Consistent(a)'
  PROVE  RequestsFitTogether'
  <1>1. OneAtATime /\ \A d \in Calls : TakesTurn(d)
    BY FitTogether
  <1>2. ASSUME NEW d \in Calls \ {c}
        PROVE  TakesTurn(d)'
    <2>1. SameMeeting(copy'[Organiser], copy[Organiser])
      BY DEF SameMeeting
    <2>2. \A v \in Local : StillFindsNothing(v)
      BY DEF StillFindsNothing
    <2> QED BY <1>1, <2>1, <2>2, TurnKept
  <1> QED BY <1>1, <1>2, Assembled

LEMMA AnnotatedIsSame ==
  ASSUME NEW e, NEW f, SameButStatus(e, f)
  PROVE  SameMeeting(e, f) /\ \A a : SameAnswer(a, e, f)
  <1>1. SameMeeting(e, f)
    BY DEF SameButStatus, SameMeeting
  <1>2. ASSUME NEW a
        PROVE  SameAnswer(a, e, f)
    BY DEF SameButStatus, SameAnswer
  <1> QED BY <1>1, <1>2

LEMMA QuietlyKnown ==
  ASSUME NEW a \in Local, NEW c \in Calls, OthersRest(c), UNCHANGED copy,
         Told(c, a)' <=> Told(c, a),
         Told(c, a) => SameButStatus(call'[c].new, call[c].new) /\ call'[c].base = call[c].base
  PROVE  /\ VersionsAgree(a) => VersionsAgree(a)'
         /\ \A p : Knows(a, p) => Knows(a, p)'
  <1>1. Told(c, a) =>
          SameMeeting(call'[c].new, call[c].new) /\ SameAnswer(a, call'[c].new, call[c].new)
    BY AnnotatedIsSame
  <1>2. SameMeeting(copy'[Organiser], copy[Organiser])
    BY DEF SameMeeting
  <1>3. SameAnswer(a, copy'[Organiser], copy[Organiser])
    BY DEF SameAnswer
  <1>4. VersionsAgree(a) => VersionsAgree(a)'
    BY <1>1, <1>2, VersionsKept
  <1>5. ASSUME NEW p, Knows(a, p)
        PROVE  Knows(a, p)'
    BY <1>1, <1>3, <1>5, KnowsKept
  <1> QED BY <1>4, <1>5

LEMMA StaysConsistent ==
  ASSUME NEW a \in Local, NEW c \in Calls, OthersRest(c), Consistent(a), UNCHANGED <<copy, apart>>,
         Told(c, a)' <=> Told(c, a), OwnAnswer(c, a)' <=> OwnAnswer(c, a),
         Told(c, a) => SameButStatus(call'[c].new, call[c].new) /\ call'[c].base = call[c].base,
         OwnAnswer(c, a) => call'[c].new.att[a].part = call[c].new.att[a].part
  PROVE  Consistent(a)'
  <1>1. VersionsAgree(a) /\ AnswersAreKnown(a)
    BY DEF Consistent
  <1>2. VersionsAgree(a)' /\ \A p : Knows(a, p) => Knows(a, p)'
    BY <1>1, QuietlyKnown
  <1>3. AnswersAreKnown(a)'
    BY <1>1, <1>2, AnswersKept
  <1> QED BY <1>2, <1>3 DEF Consistent

\* The request c of a begins to stand for his answer, or ceases to, and his copy
\* has the same one.
LEMMA SameAnswerOfHis ==
  ASSUME NEW a \in Local, a \in Users, NEW c \in Calls, OthersRest(c), Consistent(a), OneAtATime,
         UNCHANGED <<copy, apart>>, OwnRequest(c, a), ~Told(c, a), ~Told(c, a)',
         OwnAnswer(c, a) => call[c].new.att[a].part = copy[a].att[a].part,
         OwnAnswer(c, a)' => call'[c].new.att[a].part = copy[a].att[a].part
  PROVE  Consistent(a)'
  <1>1. VersionsAgree(a) /\ AnswersAreKnown(a)
    BY DEF Consistent
  <1>2. VersionsAgree(a)' /\ \A p : Knows(a, p) => Knows(a, p)'
    BY <1>1, QuietlyKnown
  <1>3. \A d \in Calls \ {c} : ~OwnAnswer(d, a) /\ ~OwnAnswer(d, a)'
    <2>1. \A d \in Calls \ {c} : ~OwnAnswer(d, a)
      BY DEF OneAtATime, OwnAnswer
    <2> QED BY <2>1, OthersAsBefore
  <1>4. PICK p : p = copy[a].att[a].part
    OBVIOUS
  <1>5. ASSUME a \notin apart, copy[a] # Absent
        PROVE  Knows(a, p)'
    <2>1. CASE OwnAnswer(c, a)
      <3>1. Knows(a, call[c].new.att[a].part)
        BY <1>1, <1>5, <2>1 DEF AnswersAreKnown, OwnAnswer
      <3> QED BY <1>2, <1>4, <2>1, <3>1
    <2>2. CASE ~OwnAnswer(c, a)
      <3>1. \A d \in Calls : ~OwnAnswer(d, a)
        BY <1>3, <2>2
      <3>2. Knows(a, p)
        BY <1>1, <1>4, <1>5, <3>1 DEF AnswersAreKnown, OwnAnswer
      <3> QED BY <1>2, <3>2
    <2> QED BY <2>1, <2>2
  <1>6. AnswersAreKnown(a)'
    <2> SUFFICES ASSUME a \notin apart', copy'[a] # Absent
                 PROVE  /\ (\A d \in Calls : ~OwnAnswer(d, a)') => Knows(a, copy[a].att[a].part)'
                        /\ \A d \in Calls :
                             OwnAnswer(d, a)' => Knows(a, call[d].new.att[a].part)'
      BY DEF AnswersAreKnown, OwnAnswer
    <2>1. Knows(a, p)' /\ p = copy'[a].att[a].part
      BY <1>4, <1>5
    <2>2. Knows(a, copy[a].att[a].part)'
      BY <2>1 DEF Knows
    <2>3. ASSUME NEW d \in Calls, OwnAnswer(d, a)'
          PROVE  Knows(a, call[d].new.att[a].part)'
      <3>1. d = c
        BY <1>3, <2>3
      <3>2. call'[d].new.att[a].part = p
        BY <1>4, <2>3, <3>1
      <3> QED BY <2>1, <3>2 DEF Knows
    <2> QED BY <2>2, <2>3
  <1> QED BY <1>2, <1>6 DEF Consistent

\* The organiser has nothing to tell a, who is not invited and will not be.
LEMMA ToldNothing ==
  ASSUME NEW a \in Local, NEW c \in Calls, OthersRest(c), Consistent(a), UNCHANGED copy,
         \A d \in Calls \ {c} : ~Told(d, a),
         copy[Organiser] # Absent => a \notin Invited(copy[Organiser]),
         Told(c, a) /\ call[c].new # Absent => a \notin Invited(call[c].new),
         Told(c, a)' /\ call'[c].new # Absent => a \notin Invited(call'[c].new)
  PROVE  Consistent(a)'
  <1>1. VersionsAgree(a)
    BY DEF Consistent
  <1>2. \A d \in Calls \ {c} : ~Told(d, a)'
    BY OthersAsBefore
  <1>3. Direct(copy[a], a) => copy[a].cancelled
    <2>1. CASE Told(c, a)
      <3>1. Agrees(a, call[c].new)
        BY <1>1, <2>1 DEF VersionsAgree
      <3> QED BY <2>1, <3>1 DEF Agrees
    <2>2. CASE ~Told(c, a)
      <3>1. \A d \in Calls : ~Told(d, a)
        BY <2>2
      <3>2. Agrees(a, copy[Organiser])
        BY <1>1, <3>1 DEF VersionsAgree
      <3> QED BY <3>2 DEF Agrees
    <2> QED BY <2>1, <2>2
  <1>4. VersionsAgree(a)'
    <2>1. Agrees(a, copy[Organiser])'
      BY <1>3 DEF Agrees
    <2>2. ASSUME NEW d \in Calls, Told(d, a)'
          PROVE  Agrees(a, call[d].new)'
      <3>1. d = c
        BY <1>2, <2>2
      <3>2. ~(call'[d].new # Absent /\ a \in Invited(call'[d].new))
        BY <2>2, <3>1
      <3> QED BY <1>3, <3>2 DEF Agrees
    <2> QED BY <2>1, <2>2 DEF VersionsAgree
  <1>5. \A p : Knows(a, p)'
    <2>1. ~(copy'[Organiser] # Absent /\ a \in Invited(copy'[Organiser]))
      OBVIOUS
    <2>2. \A d \in Calls : Told(d, a)' => ~(call'[d].new # Absent /\ a \in Invited(call'[d].new))
      BY <1>2
    <2> QED BY <2>1, <2>2 DEF Knows
  <1>6. AnswersAreKnown(a)'
    <2>1. \A d \in Calls : Knows(a, call[d].new.att[a].part)'
      BY <1>5 DEF Knows
    <2>2. Knows(a, copy[a].att[a].part)'
      BY <1>5 DEF Knows
    <2> QED BY <2>1, <2>2 DEF AnswersAreKnown
  <1> QED BY <1>4, <1>6 DEF Consistent

-----------------------------------------------------------------------------
(* Steps that change no copy                                               *)

LEMMA TurnOf ==
  ASSUME Inv, RequestsAreOrderly, RequestsFitTogether, NEW c \in Calls
  PROVE  /\ OneAtATime /\ TakesTurn(c) /\ \A a \in Local \ imported : Consistent(a)
         /\ OwnRequest(c, Organiser) => OrganisersTurn(call[c]) /\ OrganisersRequest(call[c])
         /\ \A v \in Local : OwnRequest(c, v) => AttendeesTurn(call[c]) /\ AttendeesRequest(call[c])
         /\ \A v : OwnRequest(c, v) =>
              \A d \in Calls \ {c} : v \in Users => ~OwnRequest(d, v)
         /\ \A v : ~OwnRequest(c, Organiser) => ~Told(c, v)
         /\ \A v : ~OwnRequest(c, v) => ~OwnAnswer(c, v)
         /\ Organiser \in Users /\ Local \subseteq Users /\ Organiser \notin Local
  <1>1. OneAtATime /\ TakesTurn(c) /\ \A a \in Local \ imported : Consistent(a)
    BY FitTogether
  <1>2. IsOrderly(c) /\ Organiser \in Users /\ Local \subseteq Users /\ Organiser \notin Local
    BY OrganisersCopy
  <1>3. OwnRequest(c, Organiser) => OrganisersTurn(call[c]) /\ OrganisersRequest(call[c])
    BY <1>1, <1>2 DEF TakesTurn, IsOrderly, OwnRequest
  <1>4. ASSUME NEW v \in Local, OwnRequest(c, v)
        PROVE  AttendeesTurn(call[c]) /\ AttendeesRequest(call[c])
    BY <1>1, <1>2, <1>4 DEF TakesTurn, IsOrderly, OwnRequest
  <1>5. ASSUME NEW v, OwnRequest(c, v), NEW d \in Calls \ {c}, v \in Users
        PROVE  ~OwnRequest(d, v)
    BY <1>1, <1>5 DEF OneAtATime
  <1>6. \A v : ~OwnRequest(c, Organiser) => ~Told(c, v)
    BY DEF Told
  <1>7. \A v : ~OwnRequest(c, v) => ~OwnAnswer(c, v)
    BY DEF OwnAnswer
  <1> QED BY <1>1, <1>2, <1>3, <1>4, <1>5, <1>6, <1>7

LEMMA NothingIsIdle ==
  ASSUME NEW c \in Calls, call'[c] = Idle
  PROVE  /\ \A u : ~OwnRequest(c, u)' /\ ~Told(c, u)' /\ ~OwnAnswer(c, u)'
         /\ TakesTurn(c)'
  BY DEF OwnRequest, Told, OwnAnswer, TakesTurn, Idle

\* A request of which nobody has heard may fail: who was to be told nothing was
\* not invited, and who was to tell nobody keeps his answer.
LEMMA GivesUpFits ==
  ASSUME Inv, RequestsAreOrderly, RequestsFitTogether, NEW c \in Calls, call[c] # Idle,
         GivesUp(c), ~torn'
  PROVE  RequestsFitTogether'
  <1> DEFINE r == call[c]
  <1>1. /\ call'[c] = Idle /\ OthersRest(c)
        /\ UNCHANGED <<copy, name, apart, imported>> /\ ~r.delivered
    BY DEF GivesUp, OthersRest
  <1>2. /\ \A u : ~OwnRequest(c, u)' /\ ~Told(c, u)' /\ ~OwnAnswer(c, u)'
        /\ TakesTurn(c)'
    BY <1>1, NothingIsIdle
  <1>3. ASSUME NEW a \in Local \ imported
        PROVE  Consistent(a)'
    <2>1. /\ OneAtATime /\ Consistent(a)
          /\ Organiser \in Users /\ a \in Users /\ Organiser # a
          /\ OwnRequest(c, Organiser) =>
               OrganisersTurn(r) /\ \A d \in Calls \ {c} : ~OwnRequest(d, Organiser)
          /\ OwnRequest(c, a) => AttendeesTurn(r)
          /\ ~OwnRequest(c, Organiser) => ~Told(c, a)
          /\ ~OwnRequest(c, a) => ~OwnAnswer(c, a)
      BY TurnOf
    <2>2. CASE Told(c, a)
      <3>1. OwnRequest(c, Organiser) /\ Telling(r) /\ ~Waiting(r, a)
        BY <2>2 DEF Told
      <3>2. \A d \in Calls \ {c} : ~Told(d, a)
        BY <2>1, <3>1 DEF Told
      <3>3. /\ r.new # Absent => a \notin Invited(r.new)
            /\ copy[Organiser] # Absent => a \notin Invited(copy[Organiser])
        BY <1>1, <2>1, <3>1 DEF OrganisersTurn
      <3> QED BY <1>1, <1>2, <2>1, <3>2, <3>3, ToldNothing
    <2>3. CASE OwnRequest(c, a)
      <3>1. ~OwnRequest(c, Organiser)
        BY <2>1, <2>3 DEF OwnRequest
      <3>2. OwnAnswer(c, a) => r.new.att[a].part = copy[a].att[a].part
        BY <1>1, <2>1, <2>3 DEF AttendeesTurn, IsAbout, Answered, OwnAnswer, OwnRequest
      <3> QED BY <1>1, <1>2, <2>1, <2>3, <3>1, <3>2, SameAnswerOfHis
    <2>4. CASE ~Told(c, a) /\ ~OwnRequest(c, a)
      BY <1>1, <1>2, <2>1, <2>4, StaysConsistent
    <2> QED BY <2>2, <2>3, <2>4
  <1> QED BY <1>1, <1>2, <1>3, QuietlyAssembled

\* What a request is after it goes on.
LEMMA GoesOnAs ==
  ASSUME NEW c \in Calls, call[c] # Idle, NEW s, GoesOn(c, s)
  PROVE  /\ call'[c] = s /\ OthersRest(c) /\ s # Idle
         /\ s.op = call[c].op /\ s.user = call[c].user
         /\ s.base = call[c].base /\ s.member = call[c].member
         /\ SameButStatus(s.new, call[c].new) /\ SameMeeting(s.new, call[c].new)
         /\ \A u : SameAnswer(u, s.new, call[c].new)
         /\ \A u : OwnRequest(c, u)' <=> OwnRequest(c, u)
         /\ \A u : Told(c, u)' <=> OwnRequest(c, Organiser) /\ Telling(s) /\ ~Waiting(s, u)
         /\ \A u : OwnAnswer(c, u)' <=> OwnRequest(c, u) /\ Answered(s)
         /\ \A u : Told(c, u) <=> OwnRequest(c, Organiser) /\ Telling(call[c]) /\ ~Waiting(call[c], u)
         /\ \A u : OwnAnswer(c, u) <=> OwnRequest(c, u) /\ Answered(call[c])
  <1>1. /\ call'[c] = s /\ OthersRest(c) /\ s # Idle
        /\ s.op = call[c].op /\ s.user = call[c].user
        /\ s.base = call[c].base /\ s.member = call[c].member
        /\ SameButStatus(s.new, call[c].new)
    BY DEF GoesOn, Keeps, OthersRest
  <1>2. \A u : OwnRequest(c, u)' <=> OwnRequest(c, u)
    BY <1>1 DEF OwnRequest
  <1>3. \A u : Told(c, u)' <=> OwnRequest(c, Organiser) /\ Telling(s) /\ ~Waiting(s, u)
    BY <1>1, <1>2 DEF Told, Telling, Waiting
  <1>4. \A u : OwnAnswer(c, u)' <=> OwnRequest(c, u) /\ Answered(s)
    BY <1>1, <1>2 DEF OwnAnswer, Answered, ReplyIsDue
  <1>5. /\ \A u : Told(c, u) <=> OwnRequest(c, Organiser) /\ Telling(call[c]) /\ ~Waiting(call[c], u)
        /\ \A u : OwnAnswer(c, u) <=> OwnRequest(c, u) /\ Answered(call[c])
    BY DEF Told, OwnAnswer
  <1>6. SameMeeting(s.new, call[c].new) /\ \A u : SameAnswer(u, s.new, call[c].new)
    BY <1>1, AnnotatedIsSame
  <1> QED BY <1>1, <1>2, <1>3, <1>4, <1>5, <1>6

\* Turns of s, as which request c goes on.
LEMMA TurnAs ==
  ASSUME Inv, RequestsAreOrderly, NEW c \in Calls, call[c] # Idle, NEW s, GoesOn(c, s),
         OwnRequest(c, Organiser) =>
           /\ s.member = name'[Organiser]
           /\ SameMeeting(s.base, copy'[Organiser])
           /\ s.at = "store" => SameMeeting(s.new, copy'[Organiser])
           /\ Telling(s) /\ ~s.delivered =>
                /\ s.new # Absent => \A a \in Local \cap Invited(s.new) : Waiting(s, a)
                /\ copy'[Organiser] # Absent =>
                     \A a \in Local \cap Invited(copy'[Organiser]) : Waiting(s, a)
           /\ s.at = "apply" /\ Direct(copy'[s.to], s.to) /\ s.to \notin imported' =>
                /\ Direct(s.found, s.to)
                /\ s.found.what = copy'[s.to].what /\ s.found.cancelled = copy'[s.to].cancelled,
         \A u \in Local \ imported' : OwnRequest(c, u) /\ s.base # Absent =>
           /\ s.member = name'[u]
           /\ copy'[u] # Absent /\ copy'[u].att[u].part = s.base.att[u].part
           /\ s.at # "hook" /\ s.op = "put" => s.new.what = s.base.what
           /\ Answered(s) /\ ~s.delivered => s.new.att[u].part = s.base.att[u].part
           /\ \A x, t \in s.todo : x[2].method = "REPLY" /\ t[2].method = "REPLY" => x = t
           /\ s.at = "apply" /\ s.message.method = "REPLY" =>
                \A t \in s.todo : t[2].method # "REPLY",
         \A u \in Local : OwnRequest(c, u) /\ s.base = Absent =>
           s.at # "hook" /\ ~ReplyIsDue(s),
         s.at = "apply" => s.delivered
  PROVE  TakesTurn(c)'
  <1>1. /\ call'[c] = s /\ s.user = call[c].user
        /\ \A u : OwnRequest(c, u)' <=> OwnRequest(c, u)
    BY GoesOnAs
  <1>2. OwnRequest(c, Organiser) => OrganisersTurn(call[c])'
    BY <1>1 DEF OrganisersTurn, Telling, Waiting
  <1>3. ASSUME NEW u \in Local, OwnRequest(c, u)
        PROVE  AttendeesTurn(call[c])'
    <2>1. s.user = u
      BY <1>1, <1>3 DEF OwnRequest
    <2> QED BY <1>1, <1>3, <2>1 DEF AttendeesTurn, IsAbout, Answered, ReplyIsDue
  <1> QED BY <1>1, <1>2, <1>3 DEF TakesTurn

LEMMA OrganiserPassesHook ==
  ASSUME Inv, RequestsAreOrderly, RequestsFitTogether, NEW c \in Calls,
         OwnRequest(c, Organiser), call[c].at = "hook",
         NEW old, old = GetMember(call[c]), NEW s, PassesHook(c, s, old),
         UNCHANGED <<copy, name, apart, imported>>
  PROVE  RequestsFitTogether'
  <1> DEFINE r == call[c]
  <1>1. /\ r # Idle /\ r.user = Organiser /\ r.op # "import"
        /\ GoesOn(c, s) /\ s.new = r.new /\ s.at # "apply" /\ s.at # "hook"
    BY DEF OwnRequest, PassesHook
  <1>2. /\ OthersRest(c) /\ s.base = r.base /\ s.member = r.member /\ s.op = r.op
        /\ \A u : OwnRequest(c, u)' <=> OwnRequest(c, u)
        /\ \A u : Told(c, u)' <=> OwnRequest(c, Organiser) /\ Telling(s) /\ ~Waiting(s, u)
        /\ \A u : ~Told(c, u)
    <2>1. /\ OthersRest(c) /\ s.base = r.base /\ s.member = r.member /\ s.op = r.op
          /\ \A u : OwnRequest(c, u)' <=> OwnRequest(c, u)
          /\ \A u : Told(c, u)' <=> OwnRequest(c, Organiser) /\ Telling(s) /\ ~Waiting(s, u)
      BY <1>1, GoesOnAs
    <2> QED BY <2>1 DEF Told, Telling
  <1>3. /\ OneAtATime /\ OrganisersTurn(r) /\ OrganisersRequest(r)
        /\ \A d \in Calls \ {c} : ~OwnRequest(d, Organiser)
        /\ \A a \in Local \ imported : Consistent(a)
        /\ \A a \in Local : a \in Users /\ a # Organiser
    BY TurnOf
  <1>4. old = copy[Organiser] /\ old \in Events \cup {Absent} /\ r.new \in Events \cup {Absent}
    <2>1. r.new \in Events \cup {Absent}
      BY <1>1, NewTyped
    <2> QED BY <1>1, <1>3, <2>1, TurnOf DEF GetMember, OrganisersTurn, Inv, TypeOK
  <1>5. s.at = "store" => SameMeeting(s.new, copy[Organiser])
    BY <1>1, <1>4 DEF PassesHook, SameMeeting
  <1>6. s.at = "send" =>
          /\ r.new # Absent => \A a \in Invited(r.new) : \E t \in s.todo : t[1] = a
          /\ old # Absent => \A a \in Invited(old) : \E t \in s.todo : t[1] = a
    <2>1. CASE s.at = "store"
      BY <2>1
    <2>2. CASE s.op = "put" /\ s.todo = ToAttendees(r.new, old)
      <3>1. r.new \in Events
        BY <1>1, <1>2, <1>4, <2>2 DEF GoesOn, RequestOK
      <3>2. Plain(r.new)
        BY <1>3 DEF OrganisersRequest
      <3>3. /\ \A a \in Invited(r.new) : \E t \in ToAttendees(r.new, old) : t[1] = a
            /\ old # Absent => \A a \in Invited(old) : \E t \in ToAttendees(r.new, old) : t[1] = a
        <4> HIDE DEF r
        <4> QED BY <1>4, <3>1, <3>2, OrganiserTells
      <3> QED BY <2>2, <3>3
    <2>3. CASE /\ s.op = "delete"
               /\ s.todo = IF old = Absent THEN {}
                           ELSE {<<a, Message("CANCEL", old, Organiser)>> :
                                   a \in OrganiserAttendees(old, r.user)}
      <3>1. r.new = Absent
        BY <1>1, <1>2, <2>3 DEF GoesOn, RequestOK
      <3>2. ASSUME old # Absent, NEW a \in Invited(old)
            PROVE  \E t \in s.todo : t[1] = a
        <4>1. <<a, Message("CANCEL", old, Organiser)>> \in s.todo
          BY <1>1, <2>3, <3>2 DEF OrganiserAttendees
        <4>2. <<a, Message("CANCEL", old, Organiser)>>[1] = a
          OBVIOUS
        <4> QED BY <4>1, <4>2
      <3> QED BY <3>1, <3>2
    <2> QED BY <1>1, <2>1, <2>2, <2>3 DEF PassesHook
  <1>7. Telling(s) =>
          /\ s.new # Absent => \A a \in Local \cap Invited(s.new) : Waiting(s, a)
          /\ copy[Organiser] # Absent =>
               \A a \in Local \cap Invited(copy[Organiser]) : Waiting(s, a)
    BY <1>1, <1>4, <1>6 DEF Telling, Waiting
  <1>8. TakesTurn(c)'
    <2>1. \A u \in Local : ~OwnRequest(c, u)
      BY <1>1, <1>3 DEF OwnRequest
    <2>2. s.member = name'[Organiser] /\ SameMeeting(s.base, copy'[Organiser])
      BY <1>2, <1>3 DEF OrganisersTurn
    <2> QED BY <1>1, <1>5, <1>7, <2>1, <2>2, TurnAs
  <1>9. ASSUME NEW a \in Local \ imported
        PROVE  Consistent(a)'
    <2>1. ~OwnRequest(c, a)
      BY <1>1, <1>3 DEF OwnRequest
    <2>2. ~OwnAnswer(c, a) /\ ~OwnAnswer(c, a)'
      BY <1>2, <2>1 DEF OwnAnswer
    <2>3. CASE ~Told(c, a)'
      BY <1>2, <1>3, <2>2, <2>3, StaysConsistent
    <2>4. CASE Told(c, a)'
      <3>1. Telling(s) /\ ~Waiting(s, a) /\ call'[c].new = s.new
        BY <1>1, <1>2, <2>4 DEF GoesOn
      <3>2. /\ s.new # Absent => a \notin Invited(s.new)
            /\ copy[Organiser] # Absent => a \notin Invited(copy[Organiser])
        BY <1>7, <3>1
      <3>3. \A d \in Calls \ {c} : ~Told(d, a)
        BY <1>3 DEF Told
      <3> QED BY <1>2, <1>3, <3>1, <3>2, <3>3, ToldNothing
    <2> QED BY <2>3, <2>4
  <1> QED BY <1>2, <1>8, <1>9, QuietlyAssembled

LEMMA OneReply ==
  ASSUME NEW new, NEW old, NEW u, NEW force,
         NEW x \in ToOrganiser(new, old, u, force), NEW t \in ToOrganiser(new, old, u, force),
         x[2].method = "REPLY", t[2].method = "REPLY"
  PROVE  x = t
  <1>1. ASSUME NEW y \in ToOrganiser(new, old, u, force), y[2].method = "REPLY"
        PROVE  y = <<Organiser, Message("REPLY", new, u)>>
    <2>1. CASE \E a \in Attendees : y = <<a, Message("REQUEST", new, u)>>
      BY <1>1, <2>1 DEF Message
    <2>2. CASE y = <<Organiser, Message("REPLY", new, u)>>
      BY <2>2
    <2> QED BY <2>1, <2>2 DEF ToOrganiser, DelegatesOf, Invited
  <1> QED BY <1>1

LEMMA AttendeePassesHook ==
  ASSUME Inv, RequestsAreOrderly, RequestsFitTogether, NEW c \in Calls,
         NEW v \in Local, OwnRequest(c, v), call[c].at = "hook", IsAbout(call[c]),
         NEW old, old = GetMember(call[c]), NEW s, PassesHook(c, s, old),
         UNCHANGED <<copy, name, apart, imported>>
  PROVE  RequestsFitTogether'
  <1> DEFINE r == call[c]
  <1>1. /\ r # Idle /\ r.user = v /\ r.op # "import"
        /\ GoesOn(c, s) /\ s.new = r.new /\ s.at # "apply" /\ s.at # "hook"
    BY DEF OwnRequest, PassesHook
  <1>2. /\ OneAtATime /\ AttendeesTurn(r) /\ AttendeesRequest(r)
        /\ \A a \in Local \ imported : Consistent(a)
        /\ \A a \in Local : a \in Users /\ a # Organiser
        /\ Organiser \in Users
    BY TurnOf
  <1>3. /\ OthersRest(c) /\ s.base = r.base /\ s.member = r.member /\ s.op = r.op
        /\ s.user = v /\ ~OwnRequest(c, Organiser)
        /\ \A u : OwnRequest(c, u)' <=> OwnRequest(c, u)
        /\ \A u : ~Told(c, u) /\ ~Told(c, u)'
        /\ \A u : OwnAnswer(c, u)' <=> OwnRequest(c, u) /\ Answered(s)
        /\ \A u : ~OwnAnswer(c, u)
        /\ v \notin imported /\ r.base # Absent
    <2>1. /\ OthersRest(c) /\ s.base = r.base /\ s.member = r.member /\ s.op = r.op
          /\ s.user = v
          /\ \A u : OwnRequest(c, u)' <=> OwnRequest(c, u)
          /\ \A u : Told(c, u)' <=> OwnRequest(c, Organiser) /\ Telling(s) /\ ~Waiting(s, u)
          /\ \A u : OwnAnswer(c, u)' <=> OwnRequest(c, u) /\ Answered(s)
      BY <1>1, GoesOnAs
    <2>2. ~OwnRequest(c, Organiser)
      BY <1>1, <1>2 DEF OwnRequest
    <2>3. \A u : ~OwnAnswer(c, u) /\ ~Told(c, u)
      BY <2>2 DEF OwnAnswer, Answered, Told
    <2>4. v \notin imported /\ r.base # Absent
      BY <1>1 DEF IsAbout
    <2> QED BY <2>1, <2>2, <2>3, <2>4
  <1>4. /\ old = copy[v] /\ old \in Events /\ old # Absent /\ v \in Invited(old)
        /\ r.new \in Events \cup {Absent} /\ copy[v].att[v].part = r.base.att[v].part
        /\ r.base # Absent
    <2>1. r.new \in Events \cup {Absent}
      BY <1>1, NewTyped
    <2>2. old = copy[v] /\ copy[v] # Absent /\ copy[v].att[v].part = r.base.att[v].part
      BY <1>1, <1>2 DEF GetMember, AttendeesTurn
    <2>3. old \in Events /\ v \in Invited(old)
      BY <1>2, <1>3, <2>2 DEF Inv, TypeOK, CopiesAreEntitled, Entitled
    <2> QED BY <1>3, <2>1, <2>2, <2>3
  <1>5. s.op = "put" => r.new \in Events /\ v \in Invited(r.new) /\ r.op = "put"
    BY <1>1, <1>2, <1>3, <1>4 DEF AttendeesRequest, GoesOn, RequestOK
  <1>6. CASE s.op = "put" /\ s.todo = {} /\ s.at = "store" /\ r.new = old
    <2>1. r.new.what = r.base.what
      <3>1. MadeHere(c)
        BY <1>1 DEF RequestsAreOrderly
      <3> QED BY <1>2, <1>4, <1>5, <1>6, <3>1 DEF MadeHere
    <2>2. s.new.att[v].part = r.base.att[v].part
      BY <1>1, <1>4, <1>6
    <2>3. TakesTurn(c)'
      <3>1. \A u \in Local : OwnRequest(c, u) => u = v
        BY <1>1 DEF OwnRequest
      <3>2. s.member = name'[v] /\ copy'[v] # Absent
        BY <1>2, <1>1, <1>3, <1>4 DEF AttendeesTurn
      <3> QED BY <1>1, <1>3, <1>4, <1>6, <2>1, <2>2, <3>1, <3>2, TurnAs
    <2>4. ASSUME NEW a \in Local \ imported
          PROVE  Consistent(a)'
      <3>1. CASE a = v
        <4>1. call'[c].new.att[v].part = copy[v].att[v].part
          BY <1>1, <1>4, <2>2 DEF GoesOn
        <4> QED BY <1>2, <1>3, <3>1, <4>1, SameAnswerOfHis
      <3>2. CASE a # v
        <4>1. ~OwnRequest(c, a)
          BY <1>1, <3>2 DEF OwnRequest
        <4> QED BY <1>2, <1>3, <4>1, StaysConsistent
      <3> QED BY <3>1, <3>2
    <2> QED BY <1>3, <2>3, <2>4, QuietlyAssembled
  <1>7. CASE /\ s.op = "put" /\ s.at = "send" /\ ~Unauthorised(r.new, old, v)
             /\ s.todo = ToOrganiser(r.new, old, v, r.force)
    <2>0. r.new \in Events /\ v \in Users /\ v # Organiser /\ r.new # Absent
      BY <1>2, <1>5, <1>7, PeopleAssumption
    <2>1. r.new.what = r.base.what
      <3>1. MadeHere(c)
        BY <1>1 DEF RequestsAreOrderly
      <3>2. r.new.what = copy[v].what
        BY <1>4, <1>7, <2>0, AuthorisedChange DEF IsAttendee
      <3> QED BY <1>2, <1>4, <1>5, <1>7, <2>0, <3>1, <3>2 DEF MadeHere
    <2>2. Answered(s) => s.new.att[v].part = r.base.att[v].part
      <3>1. r.new.att[v].part # old.att[v].part => \E t \in s.todo : t[2].method = "REPLY"
        BY <1>4, <1>5, <1>7, <2>0, AttendeeAnswers
      <3> QED BY <1>1, <1>4, <3>1 DEF Answered, ReplyIsDue
    <2>3. TakesTurn(c)'
      <3>1. \A u \in Local : OwnRequest(c, u) => u = v
        BY <1>1 DEF OwnRequest
      <3>2. \A x, t \in s.todo : x[2].method = "REPLY" /\ t[2].method = "REPLY" => x = t
        BY <1>7, OneReply
      <3>3. s.member = name'[v] /\ copy'[v] # Absent
        BY <1>2, <1>1, <1>3, <1>4 DEF AttendeesTurn
      <3> QED BY <1>1, <1>3, <1>4, <1>7, <2>1, <2>2, <3>1, <3>2, <3>3, TurnAs
    <2>4. ASSUME NEW a \in Local \ imported
          PROVE  Consistent(a)'
      <3>1. CASE a = v
        <4>1. OwnAnswer(c, v)' => call'[c].new.att[v].part = copy[v].att[v].part
          BY <1>1, <1>3, <1>4, <2>2 DEF GoesOn
        <4> QED BY <1>2, <1>3, <3>1, <4>1, SameAnswerOfHis
      <3>2. CASE a # v
        <4>1. ~OwnRequest(c, a)
          BY <1>1, <3>2 DEF OwnRequest
        <4> QED BY <1>2, <1>3, <4>1, StaysConsistent
      <3> QED BY <3>1, <3>2
    <2> QED BY <1>3, <2>3, <2>4, QuietlyAssembled
  <1>8. CASE /\ s.op = "delete" /\ s.at = "send"
             /\ s.todo = {<<a, Message("CANCEL", old, Organiser)>> :
                            a \in OrganiserAttendees(old, v)}
    <2>1. s.todo = {} /\ ~Answered(s)
      BY <1>2, <1>8 DEF OrganiserAttendees, Answered
    <2>2. TakesTurn(c)'
      <3>1. \A u \in Local : OwnRequest(c, u) => u = v
        BY <1>1 DEF OwnRequest
      <3>2. s.member = name'[v] /\ copy'[v] # Absent
        BY <1>2, <1>1, <1>3, <1>4 DEF AttendeesTurn
      <3> QED BY <1>1, <1>3, <1>4, <1>8, <2>1, <3>1, <3>2, TurnAs
    <2>3. \A a \in Local \ imported : Consistent(a)'
      BY <1>2, <1>3, <2>1, StaysConsistent
    <2> QED BY <1>3, <2>2, <2>3, QuietlyAssembled
  <1> QED BY <1>1, <1>2, <1>4, <1>6, <1>7, <1>8 DEF PassesHook

\* Of a version of his own making nobody knows an answer.
LEMMA AttendeePassesAnyway ==
  ASSUME Inv, RequestsAreOrderly, RequestsFitTogether, NEW c \in Calls,
         NEW v \in Local, OwnRequest(c, v), call[c].at = "hook", ~IsAbout(call[c]),
         NEW old, old = GetMember(call[c]), NEW s, PassesHook(c, s, old),
         UNCHANGED <<copy, name, apart, imported>>
  PROVE  RequestsFitTogether'
  <1> DEFINE r == call[c]
  <1>1. /\ r # Idle /\ r.user = v /\ ~OwnRequest(c, Organiser)
        /\ GoesOn(c, s) /\ s.at # "apply"
        /\ \A u : OwnRequest(c, u) => u = v
    BY TurnOf DEF OwnRequest, PassesHook
  <1>2. /\ OthersRest(c) /\ s.base = r.base
        /\ \A u : OwnRequest(c, u)' <=> OwnRequest(c, u)
        /\ \A u : ~Told(c, u) /\ ~Told(c, u)'
        /\ \A u : OwnAnswer(c, u)' <=> OwnRequest(c, u) /\ Answered(s)
        /\ \A u : ~OwnAnswer(c, u)
    <2>1. /\ OthersRest(c) /\ s.base = r.base
          /\ \A u : OwnRequest(c, u)' <=> OwnRequest(c, u)
          /\ \A u : Told(c, u)' <=> OwnRequest(c, Organiser) /\ Telling(s) /\ ~Waiting(s, u)
          /\ \A u : OwnAnswer(c, u)' <=> OwnRequest(c, u) /\ Answered(s)
      BY <1>1, GoesOnAs
    <2>2. \A u : ~OwnAnswer(c, u) /\ ~Told(c, u)
      BY <1>1 DEF OwnAnswer, Answered, Told
    <2> QED BY <1>1, <2>1, <2>2
  <1>3. v \in imported \/ s.base = Absent
    BY <1>1, <1>2 DEF IsAbout
  <1>4. TakesTurn(c)'
    <2>1. ASSUME s.base = Absent
          PROVE  s.at # "hook" /\ ~ReplyIsDue(s)
      <3>1. old = Absent
        BY <1>1, <1>2, <2>1, TurnOf DEF AttendeesTurn, FindsNothing, GetMember
      <3>2. r.user # Organiser
        BY <1>1, TurnOf
      <3>3. \A t \in ToOrganiser(r.new, old, v, r.force) : t[2].method # "REPLY"
        BY <3>1 DEF ToOrganiser, Message
      <3> QED BY <1>1, <3>1, <3>2, <3>3 DEF PassesHook, ReplyIsDue
    <2> QED BY <1>1, <1>3, <2>1, TurnAs
  <1>5. ASSUME NEW a \in Local \ imported
        PROVE  Consistent(a)'
    <2>1. ~OwnAnswer(c, a)'
      BY <1>1, <1>2, <1>3 DEF Answered
    <2> QED BY <1>2, <2>1, TurnOf, StaysConsistent
  <1> QED BY <1>2, <1>4, <1>5, QuietlyAssembled

LEMMA HookFits ==
  ASSUME Inv, RequestsAreOrderly, RequestsFitTogether, NEW c \in Calls,
         PrePutHook(c) \/ PreDeleteHook(c), ~torn'
  PROVE  RequestsFitTogether'
  <1> SUFFICES ASSUME NEW old, old = GetMember(call[c])
               PROVE  RequestsFitTogether'
    OBVIOUS
  <1>1. /\ call[c] # Idle /\ call[c].at = "hook" /\ call[c].op # "import"
        /\ UNCHANGED <<copy, name, apart, imported>>
        /\ GivesUp(c) \/ \E s : PassesHook(c, s, old)
    BY HookEffect
  <1>2. OwnRequest(c, Organiser) \/ \E v \in Local : OwnRequest(c, v)
    BY <1>1, OwnUser, OrganisersCopy
  <1> QED BY <1>1, <1>2, GivesUpFits, OrganiserPassesHook, AttendeePassesHook,
             AttendeePassesAnyway

\* A message that is in an inbox is still waiting to be taken in.
LEMMA DeliverFits ==
  ASSUME Inv, RequestsAreOrderly, RequestsFitTogether, NEW c \in Calls, DeliverToInbox(c), ~torn'
  PROVE  RequestsFitTogether'
  <1> SUFFICES ASSUME NEW r, r = call[c]
               PROVE  RequestsFitTogether'
    OBVIOUS
  <1>1. /\ r # Idle /\ r.at = "send" /\ UNCHANGED <<copy, name, mail, apart, imported, ops>>
        /\ GivesUp(c) \/ \E t, s : Delivers(c, t, s)
    BY DeliverEffect
  <1>2. ASSUME NEW t, NEW s, Delivers(c, t, s)
        PROVE  RequestsFitTogether'
    <2>1. /\ GoesOn(c, s) /\ s.new = r.new /\ s.delivered = TRUE
          /\ t \in r.todo /\ s.at = "apply" /\ s.todo = r.todo \ {t}
          /\ s.to = t[1] /\ s.message = t[2] /\ s.found = copy[t[1]]
      BY <1>2 DEF Delivers
    <2>2. /\ OthersRest(c) /\ s.base = r.base /\ s.member = r.member /\ s.op = r.op
          /\ call'[c] = s /\ SameButStatus(s.new, r.new)
          /\ \A u : OwnRequest(c, u)' <=> OwnRequest(c, u)
          /\ \A u : Told(c, u)' <=> OwnRequest(c, Organiser) /\ Telling(s) /\ ~Waiting(s, u)
          /\ \A u : Told(c, u) <=> OwnRequest(c, Organiser) /\ Telling(r) /\ ~Waiting(r, u)
          /\ \A u : OwnAnswer(c, u)' <=> OwnRequest(c, u) /\ Answered(s)
          /\ \A u : OwnAnswer(c, u) <=> OwnRequest(c, u) /\ Answered(r)
      BY <1>1, <2>1, GoesOnAs
    <2>3. ASSUME NEW a
          PROVE  Waiting(s, a) <=> Waiting(r, a)
      BY <1>1, <2>1 DEF Waiting
    <2>4. ReplyIsDue(s) <=> ReplyIsDue(r)
      BY <1>1, <2>1 DEF ReplyIsDue
    <2>5. Telling(s) /\ Telling(r) /\ (Answered(s) <=> Answered(r))
      BY <1>1, <2>1, <2>2, <2>4 DEF Telling, Answered
    <2>6. \A a : (Told(c, a)' <=> Told(c, a)) /\ (OwnAnswer(c, a)' <=> OwnAnswer(c, a))
      BY <2>2, <2>3, <2>5
    <2>7. TakesTurn(c)'
      <3>1. ASSUME OwnRequest(c, Organiser)
            PROVE  s.member = name'[Organiser] /\ SameMeeting(s.base, copy'[Organiser])
        BY <1>1, <2>2, <3>1, TurnOf DEF OrganisersTurn
      <3>2. ASSUME NEW u \in Local \ imported, OwnRequest(c, u), s.base # Absent
            PROVE  /\ s.member = name'[u]
                   /\ copy'[u] # Absent /\ copy'[u].att[u].part = s.base.att[u].part
                   /\ s.op = "put" => s.new.what = s.base.what
                   /\ \A x, y \in s.todo : x[2].method = "REPLY" /\ y[2].method = "REPLY" => x = y
                   /\ s.message.method = "REPLY" => \A x \in s.todo : x[2].method # "REPLY"
        <4>1. AttendeesTurn(r) /\ r.user = u /\ IsAbout(r)
          BY <2>2, <3>2, TurnOf DEF OwnRequest, IsAbout
        <4>2. \A x, y \in r.todo : x[2].method = "REPLY" /\ y[2].method = "REPLY" => x = y
          BY <4>1 DEF AttendeesTurn
        <4>3. /\ \A x, y \in s.todo : x[2].method = "REPLY" /\ y[2].method = "REPLY" => x = y
              /\ s.message.method = "REPLY" => \A x \in s.todo : x[2].method # "REPLY"
          BY <2>1, <4>2
        <4> QED BY <1>1, <2>1, <2>2, <4>1, <4>3 DEF AttendeesTurn
      <3>3. Direct(copy'[s.to], s.to) =>
              /\ Direct(s.found, s.to)
              /\ s.found.what = copy'[s.to].what /\ s.found.cancelled = copy'[s.to].cancelled
        BY <1>1, <2>1 DEF Direct
      <3>4. ASSUME NEW u \in Local, OwnRequest(c, u), s.base = Absent
            PROVE  ~ReplyIsDue(s)
        BY <2>2, <2>4, <3>4, TurnOf DEF AttendeesTurn
      <3> QED BY <1>1, <2>1, <3>1, <3>2, <3>3, <3>4, TurnAs
    <2>8. ASSUME NEW a \in Local \ imported
          PROVE  Consistent(a)'
      BY <1>1, <2>1, <2>2, <2>6, TurnOf, StaysConsistent
    <2> QED BY <1>1, <2>2, <2>7, <2>8, QuietlyAssembled
  <1> QED BY <1>1, <1>2, GivesUpFits

\* What is sent by mail is for nobody here.
LEMMA MailFits ==
  ASSUME Inv, RequestsAreOrderly, RequestsFitTogether, NEW c \in Calls, SendViaImip(c), ~torn'
  PROVE  RequestsFitTogether'
  <1> SUFFICES ASSUME NEW r, r = call[c]
               PROVE  RequestsFitTogether'
    OBVIOUS
  <1>1. /\ r # Idle /\ r.at = "send" /\ UNCHANGED <<copy, name, inbox, mail, apart, imported, ops>>
        /\ \/ GivesUp(c)
           \/ \E t \in r.todo : \E s :
                /\ GoesOn(c, s)
                /\ r.delivered => s.delivered
                /\ s.at = "send" /\ s.todo = r.todo \ {t} /\ t[1] \in Remote
    BY MailEffect
  <1>2. ASSUME NEW t \in r.todo, NEW s, GoesOn(c, s), r.delivered => s.delivered,
               s.at = "send", s.todo = r.todo \ {t}, t[1] \in Remote
        PROVE  RequestsFitTogether'
    <2>2. /\ OthersRest(c) /\ s.base = r.base /\ s.member = r.member /\ s.op = r.op
          /\ call'[c] = s /\ SameButStatus(s.new, r.new)
          /\ \A u : SameAnswer(u, s.new, r.new)
          /\ \A u : OwnRequest(c, u)' <=> OwnRequest(c, u)
          /\ \A u : Told(c, u)' <=> OwnRequest(c, Organiser) /\ Telling(s) /\ ~Waiting(s, u)
          /\ \A u : Told(c, u) <=> OwnRequest(c, Organiser) /\ Telling(r) /\ ~Waiting(r, u)
          /\ \A u : OwnAnswer(c, u)' <=> OwnRequest(c, u) /\ Answered(s)
          /\ \A u : OwnAnswer(c, u) <=> OwnRequest(c, u) /\ Answered(r)
      BY <1>1, <1>2, GoesOnAs
    <2>3. ASSUME NEW a \in Local
          PROVE  Waiting(s, a) <=> Waiting(r, a)
      <3>1. a # t[1]
        BY <1>2, PeopleAssumption
      <3> QED BY <1>1, <1>2, <3>1 DEF Waiting
    <2>4. ASSUME NEW u \in Local, OwnRequest(c, u)
          PROVE  Answered(s) <=> Answered(r)
      <3>1. t[2].method # "REPLY"
        <4>1. Sends(r, t[1], t[2]) /\ r.user # Organiser /\ r.op # "import"
          BY <1>1, <1>2, <2>4, OrganisersCopy DEF IsOrderly, OwnRequest
        <4>2. t[1] # Organiser
          BY <1>2, PeopleAssumption DEF Attendees
        <4> QED BY <4>1, <4>2 DEF Sends, AttendeeSends
      <3>2. ReplyIsDue(s) <=> ReplyIsDue(r)
        BY <1>1, <1>2, <3>1 DEF ReplyIsDue
      <3> QED BY <1>1, <1>2, <2>2, <3>2 DEF Answered
    <2>5. Telling(s) /\ Telling(r)
      BY <1>1, <1>2 DEF Telling
    <2>6. \A a \in Local : (Told(c, a)' <=> Told(c, a)) /\ (OwnAnswer(c, a)' <=> OwnAnswer(c, a))
      BY <2>2, <2>3, <2>4, <2>5
    <2>7. ASSUME NEW u \in Local \ imported, OwnRequest(c, u), r.op = "put", r.base # Absent
          PROVE  s.new.att[u].part = r.new.att[u].part /\ s.new.what = r.new.what
      <3>1. u \in Invited(r.new) /\ r.new # Absent
        BY <1>1, <2>7, TurnOf, NewTyped DEF AttendeesRequest, IsAbout, OwnRequest, RequestOK
      <3> QED BY <2>2, <3>1 DEF SameAnswer, SameButStatus
    <2>8. TakesTurn(c)'
      <3>1. ASSUME OwnRequest(c, Organiser)
            PROVE  /\ s.member = name'[Organiser] /\ SameMeeting(s.base, copy'[Organiser])
                   /\ ~s.delivered =>
                        /\ s.new # Absent => \A a \in Local \cap Invited(s.new) : Waiting(s, a)
                        /\ copy'[Organiser] # Absent =>
                             \A a \in Local \cap Invited(copy'[Organiser]) : Waiting(s, a)
        <4>1. OrganisersTurn(r)
          BY <3>1, TurnOf
        <4>2. /\ s.new # Absent => r.new # Absent /\ Invited(s.new) = Invited(r.new)
          BY <2>2 DEF SameButStatus
        <4> QED BY <1>1, <1>2, <2>2, <2>3, <2>5, <4>1, <4>2 DEF OrganisersTurn
      <3>2. ASSUME NEW u \in Local \ imported, OwnRequest(c, u), s.base # Absent
            PROVE  /\ s.member = name'[u]
                   /\ copy'[u] # Absent /\ copy'[u].att[u].part = s.base.att[u].part
                   /\ s.op = "put" => s.new.what = s.base.what
                   /\ Answered(s) /\ ~s.delivered => s.new.att[u].part = s.base.att[u].part
                   /\ \A x, y \in s.todo : x[2].method = "REPLY" /\ y[2].method = "REPLY" => x = y
        <4>1. AttendeesTurn(r) /\ r.user = u /\ IsAbout(r)
          BY <2>2, <3>2, TurnOf DEF OwnRequest, IsAbout
        <4>2. \A x, y \in s.todo : x[2].method = "REPLY" /\ y[2].method = "REPLY" => x = y
          BY <1>2, <4>1 DEF AttendeesTurn
        <4>3. s.op = "put" => s.new.what = s.base.what
          BY <1>1, <2>2, <2>7, <3>2, <4>1 DEF AttendeesTurn
        <4>4. Answered(s) /\ ~s.delivered => s.new.att[u].part = s.base.att[u].part
          BY <1>2, <2>2, <2>4, <2>7, <3>2, <4>1 DEF AttendeesTurn, Answered
        <4>5. s.member = name'[u] /\ copy'[u] # Absent /\ copy'[u].att[u].part = s.base.att[u].part
          BY <1>1, <2>2, <4>1 DEF AttendeesTurn
        <4> QED BY <4>2, <4>3, <4>4, <4>5
      <3>3. ASSUME NEW u \in Local, OwnRequest(c, u), s.base = Absent
            PROVE  ~ReplyIsDue(s)
        <4>1. ~ReplyIsDue(r)
          BY <2>2, <3>3, TurnOf DEF AttendeesTurn
        <4> QED BY <1>1, <1>2, <4>1 DEF ReplyIsDue
      <3> QED BY <1>1, <1>2, <3>1, <3>2, <3>3, TurnAs
    <2>9. ASSUME NEW a \in Local \ imported
          PROVE  Consistent(a)'
      <3>1. OwnAnswer(c, a) => s.new.att[a].part = r.new.att[a].part
        BY <2>7 DEF OwnAnswer, Answered
      <3> QED BY <1>1, <2>2, <2>6, <3>1, TurnOf, StaysConsistent
    <2> QED BY <1>1, <2>2, <2>8, <2>9, QuietlyAssembled
  <1> QED BY <1>1, <1>2, GivesUpFits

\* A request that begins when its user has no other.
LEMMA BeginFits ==
  ASSUME Inv, RequestsAreOrderly, RequestsFitTogether, NEW c \in Calls, NEW u \in Users,
         BeginPut(c, u) \/ BeginDelete(c, u), ~torn'
  PROVE  RequestsFitTogether'
  <1>0. PICK op \in {"put", "delete"}, new \in Events \cup {Absent} :
          \E s : BeginsAs(c, u, op, new, s) /\ IsEdit(u, new)
    BY BeginCases
  <1>1. PICK s : BeginsAs(c, u, op, new, s) /\ IsEdit(u, new)
    BY <1>0
  <1>2. /\ s # Idle /\ s.at = "hook" /\ s.user = u /\ s.base = copy[u] /\ s.member = name[u]
        /\ s.todo = {} /\ call[c] = Idle /\ call'[c] = s /\ OthersRest(c)
        /\ \A d \in Calls \ {c} : ~OwnRequest(d, u)
        /\ UNCHANGED <<copy, name, apart, imported>>
    BY <1>1 DEF BeginsAs, OthersRest
  <1>3. \A v : OwnRequest(c, v)' => v = u
    BY <1>2 DEF OwnRequest
  <1>4. \A v : ~Told(c, v) /\ ~Told(c, v)' /\ ~OwnAnswer(c, v) /\ ~OwnAnswer(c, v)'
    BY <1>2 DEF Told, OwnAnswer, OwnRequest, Telling, Answered
  <1>5. TakesTurn(c)'
    <2>1. OwnRequest(c, Organiser)' => OrganisersTurn(call[c])'
      <3> SUFFICES ASSUME u = Organiser
                   PROVE  OrganisersTurn(call[c])'
        BY <1>3
      <3>1. SameMeeting(s.base, copy[Organiser])
        BY <1>2 DEF SameMeeting
      <3> QED BY <1>2, <3>1 DEF OrganisersTurn, Telling
    <2>2. ASSUME NEW v \in Local, OwnRequest(c, v)'
          PROVE  AttendeesTurn(call[c])'
      <3>1. v = u /\ u # Organiser
        BY <1>3, <2>2, OrganisersCopy
      <3> QED BY <1>2, <3>1 DEF AttendeesTurn, IsAbout, Answered, ReplyIsDue, FindsNothing
    <2> QED BY <1>2, <2>1, <2>2 DEF TakesTurn
  <1>6. ASSUME NEW a \in Local \ imported
        PROVE  Consistent(a)'
    BY <1>2, <1>4, TurnOf, StaysConsistent
  <1> QED BY <1>2, <1>3, <1>5, <1>6, QuietlyAssembled

\* The command that takes mail in is nobody's request.
LEMMA ImportFits ==
  ASSUME Inv, RequestsAreOrderly, RequestsFitTogether, NEW c \in Calls,
         BeginImport(c) \/ EndImport(c)
  PROVE  RequestsFitTogether'
  <1>1. /\ OthersRest(c) /\ UNCHANGED <<copy, name, apart, imported>>
        /\ call[c] # Idle => call[c].op = "import"
        /\ call'[c] # Idle => call'[c].op = "import" /\ call'[c].at = "send"
    <2>1. CASE BeginImport(c)
      BY <2>1, BeginImportEffect DEF OthersRest
    <2>2. CASE EndImport(c)
      <3>1. call' = [call EXCEPT ![c] = Idle] /\ UNCHANGED <<copy, name, apart, imported>>
        BY <2>2 DEF EndImport, Succeed
      <3> QED BY <2>2, <3>1, OwnRecord DEF Inv, OthersRest, EndImport
    <2> QED BY <2>1, <2>2
  <1>2. /\ \A u : ~OwnRequest(c, u) /\ ~OwnRequest(c, u)'
        /\ \A u : ~Told(c, u) /\ ~Told(c, u)' /\ ~OwnAnswer(c, u) /\ ~OwnAnswer(c, u)'
    BY <1>1 DEF OwnRequest, Told, OwnAnswer
  <1>3. TakesTurn(c)'
    BY <1>1, <1>2 DEF TakesTurn, Idle
  <1>4. ASSUME NEW a \in Local \ imported
        PROVE  Consistent(a)'
    BY <1>1, <1>2, TurnOf, StaysConsistent
  <1> QED BY <1>1, <1>2, <1>3, <1>4, QuietlyAssembled

LEMMA StillFits ==
  ASSUME RequestsFitTogether, UNCHANGED <<copy, name, call, apart, imported>>
  PROVE  RequestsFitTogether'
  <1>1. /\ OneAtATime
        /\ \A c \in Calls : TakesTurn(c)
        /\ \A a \in Local \ imported : Consistent(a)
    BY FitTogether
  <1>2. OneAtATime'
    BY <1>1 DEF OneAtATime, OwnRequest
  <1>3. ASSUME NEW c \in Calls
        PROVE  TakesTurn(c)'
    BY <1>1 DEF TakesTurn, OwnRequest, OrganisersTurn, AttendeesTurn, IsAbout, Telling, Waiting,
       Answered, ReplyIsDue, FindsNothing
  <1>4. ASSUME NEW a \in Local \ imported
        PROVE  Consistent(a)'
    <2>1. Consistent(a)
      BY <1>1
    <2>2. \A c \in Calls : Told(c, a)' <=> Told(c, a)
      BY DEF Told, OwnRequest, Telling, Waiting
    <2>3. \A p : Knows(a, p)' <=> Knows(a, p)
      BY <2>2 DEF Knows
    <2>4. VersionsAgree(a)'
      BY <2>1, <2>2 DEF Consistent, VersionsAgree, Agrees
    <2>5. \A c \in Calls : OwnAnswer(c, a)' <=> OwnAnswer(c, a)
      BY DEF OwnAnswer, OwnRequest, Answered, ReplyIsDue
    <2>6. AnswersAreKnown(a)'
      BY <2>1, <2>2, <2>5 DEF Consistent, AnswersAreKnown, OwnAnswer, Knows
    <2> QED BY <2>4, <2>6 DEF Consistent
  <1>5. \A a \in Local \ imported' : Consistent(a)'
    BY <1>4
  <1> QED BY <1>2, <1>3, <1>5 DEF RequestsFitTogether, OneAtATime, TakesTurn, Consistent

-----------------------------------------------------------------------------
(* Steps that change a copy                                                *)

\* The organiser stores what he has told everybody.
LEMMA OrganiserStores ==
  ASSUME Inv, RequestsAreOrderly, RequestsFitTogether, NEW c \in Calls,
         NEW r, r = call[c], OwnRequest(c, Organiser), r.at \in {"send", "store"}, r.todo = {},
         call'[c] = Idle, OthersRest(c), UNCHANGED <<name, apart, imported>>,
         copy[Organiser] = r.base,
         \A v \in Users : copy'[v] = IF v = Organiser THEN r.new ELSE copy[v]
  PROVE  RequestsFitTogether'
  <1>1. /\ OneAtATime /\ OrganisersTurn(r) /\ OrganisersRequest(r)
        /\ \A d \in Calls \ {c} : ~OwnRequest(d, Organiser)
        /\ Organiser \in Users
    BY TurnOf
  <1>2. /\ \A u : ~OwnRequest(c, u)' /\ ~Told(c, u)' /\ ~OwnAnswer(c, u)'
        /\ TakesTurn(c)'
    BY NothingIsIdle
  <1>3. copy'[Organiser] = r.new /\ \A a \in Local : copy'[a] = copy[a]
    BY <1>1, OrganisersCopy
  <1>4. ASSUME NEW d \in Calls \ {c}
        PROVE  TakesTurn(d)'
    <2>1. TakesTurn(d)
      BY FitTogether
    <2>2. \A v \in Local : StillFindsNothing(v)
      BY <1>3 DEF StillFindsNothing
    <2> QED BY <1>1, <1>3, <2>1, <2>2, TurnKept
  <1>5. ASSUME NEW a \in Local \ imported'
        PROVE  Consistent(a)'
    <2>1. VersionsAgree(a) /\ AnswersAreKnown(a) /\ ~OwnRequest(c, a) /\ ~OwnAnswer(c, a)
      BY TurnOf, OrganisersCopy DEF Consistent, OwnRequest, OwnAnswer
    <2>2. \A d \in Calls : ~Told(d, a)'
      <3>1. \A d \in Calls \ {c} : ~Told(d, a)
        BY <1>1 DEF Told
      <3> QED BY <1>2, <3>1, OthersAsBefore
    <2>3. CASE r.at = "send"
      <3>1. Told(c, a)
        BY <2>3 DEF Told, Telling, Waiting
      <3>2. VersionsAgree(a)'
        <4>1. Agrees(a, r.new)
          BY <2>1, <3>1 DEF VersionsAgree
        <4>2. Agrees(a, copy[Organiser])'
          BY <1>3, <4>1 DEF Agrees
        <4> QED BY <2>2, <4>2 DEF VersionsAgree
      <3>3. ASSUME NEW p, Knows(a, p)
            PROVE  Knows(a, p)'
        <4>1. r.new # Absent /\ a \in Invited(r.new) => p = r.new.att[a].part
          <5> SUFFICES ASSUME r.new # Absent, a \in Invited(r.new)
                       PROVE  p = r.new.att[a].part
            OBVIOUS
          <5>1. IF r.base # Absent /\ a \in Invited(r.base) THEN p = r.base.att[a].part
                ELSE p = r.new.att[a].part
            BY <3>1, <3>3 DEF Knows
          <5>2. r.base # Absent /\ a \in Invited(r.base) => r.new.att[a].part = r.base.att[a].part
            BY <1>1 DEF OrganisersRequest, KeepsParts
          <5> QED BY <5>1, <5>2
        <4> QED BY <1>3, <2>2, <4>1 DEF Knows
      <3>4. AnswersAreKnown(a)'
        BY <1>2, <1>3, <2>1, <3>3, AnswersKept
      <3> QED BY <3>2, <3>4 DEF Consistent
    <2>4. CASE r.at = "store"
      <3>1. \A d \in Calls : ~Told(d, a)
        BY <1>1, <2>4 DEF Told, Telling
      <3>2. SameMeeting(r.new, copy[Organiser])
        BY <1>1, <2>4 DEF OrganisersTurn
      <3>3. VersionsAgree(a)'
        <4>1. Agrees(a, copy[Organiser])
          BY <2>1, <3>1 DEF VersionsAgree
        <4>2. Agrees(a, r.new)
          BY <3>2, <4>1 DEF Agrees, SameMeeting
        <4>3. Agrees(a, copy[Organiser])'
          BY <1>3, <4>2 DEF Agrees
        <4> QED BY <2>2, <4>3 DEF VersionsAgree
      <3>4. ASSUME NEW p, Knows(a, p)
            PROVE  Knows(a, p)'
        <4>1. copy[Organiser] # Absent /\ a \in Invited(copy[Organiser]) =>
                p = copy[Organiser].att[a].part
          BY <3>1, <3>4 DEF Knows
        <4>2. r.new # Absent /\ a \in Invited(r.new) => p = r.new.att[a].part
          BY <1>1, <3>2, <4>1 DEF SameMeeting, OrganisersRequest, KeepsParts
        <4> QED BY <1>3, <2>2, <4>2 DEF Knows
      <3>5. AnswersAreKnown(a)'
        BY <1>2, <1>3, <2>1, <3>4, AnswersKept
      <3> QED BY <3>3, <3>5 DEF Consistent
    <2> QED BY <2>3, <2>4
  <1> QED BY <1>1, <1>2, <1>4, <1>5, Assembled

\* An attendee stores the version that he was sent, with his answer.
LEMMA AttendeeStores ==
  ASSUME Inv, RequestsAreOrderly, RequestsFitTogether, NEW c \in Calls, NEW v \in Local,
         NEW r, r = call[c], OwnRequest(c, v), r.at \in {"send", "store"}, r.todo = {},
         call'[c] = Idle, OthersRest(c), UNCHANGED <<name, apart>>,
         copy[v] = r.base,
         imported' = IF r.base = Absent THEN imported \cup {v} ELSE imported,
         \A w \in Users : copy'[w] = IF w = v THEN r.new ELSE copy[w]
  PROVE  RequestsFitTogether'
  <1>1. /\ OneAtATime /\ AttendeesTurn(r) /\ AttendeesRequest(r) /\ r.user = v /\ r # Idle
        /\ \A d \in Calls \ {c} : ~OwnRequest(d, v)
        /\ Organiser \in Users /\ v \in Users /\ v # Organiser /\ ~OwnRequest(c, Organiser)
    BY TurnOf DEF OwnRequest
  <1>2. /\ \A u : ~OwnRequest(c, u)' /\ ~Told(c, u)' /\ ~OwnAnswer(c, u)'
        /\ TakesTurn(c)'
    BY NothingIsIdle
  <1>3. /\ copy'[v] = r.new /\ copy'[Organiser] = copy[Organiser]
        /\ \A a \in Local : a # v => copy'[a] = copy[a]
    BY <1>1, OrganisersCopy
  <1>4. RequestOK(r)
    BY <1>1, NewTyped
  <1>4a. imported \subseteq imported' /\ (v \notin imported' => IsAbout(r))
    BY <1>1 DEF IsAbout
  <1>5. copy'[v] # Absent /\ v \notin imported' =>
          /\ r.op = "put" /\ OwnAnswer(c, v)
          /\ copy'[v].what = copy[v].what /\ copy'[v].cancelled = copy[v].cancelled
          /\ Direct(copy'[v], v) => Direct(copy[v], v)
    <2> SUFFICES ASSUME r.new # Absent, v \notin imported'
                 PROVE  /\ r.op = "put" /\ OwnAnswer(c, v)
                        /\ r.new.what = r.base.what /\ r.new.cancelled = r.base.cancelled
                        /\ Direct(r.new, v) => Direct(r.base, v)
      BY <1>3
    <2>1. r.op = "put" /\ r.at # "hook" /\ r.at # "apply"
      BY <1>4 DEF RequestOK
    <2>2. OwnAnswer(c, v)
      BY <1>4a, <2>1 DEF IsAbout, OwnAnswer, Answered, ReplyIsDue
    <2>3. r.new.what = r.base.what
      BY <1>1, <1>4a, <2>1 DEF AttendeesTurn
    <2>4. /\ r.new.cancelled = r.base.cancelled
          /\ Direct(r.new, v) => Direct(r.base, v)
      BY <1>1, <1>4a, <2>1 DEF AttendeesRequest, Direct
    <2> QED BY <2>1, <2>2, <2>3, <2>4
  <1>6. ASSUME NEW w \in Users \ imported', Direct(copy'[w], w)
        PROVE  /\ w \notin imported /\ Direct(copy[w], w)
               /\ copy'[w].what = copy[w].what /\ copy'[w].cancelled = copy[w].cancelled
    <2>1. CASE w = v
      BY <1>5, <1>6, <1>4a, <2>1 DEF Direct
    <2>2. CASE w # v
      <3>1. copy'[w] = copy[w]
        BY <2>2
      <3> QED BY <1>6, <1>4a, <3>1 DEF Direct
    <2> QED BY <2>1, <2>2
  <1>7. SameMeeting(copy'[Organiser], copy[Organiser])
    BY <1>3 DEF SameMeeting
  <1>8. ASSUME NEW d \in Calls \ {c}
        PROVE  TakesTurn(d)'
    <2>1. TakesTurn(d)
      BY FitTogether
    <2>2. \A w \in Local : OwnRequest(d, w) => copy'[w] = copy[w] /\ StillFindsNothing(w)
      BY <1>1, <1>3 DEF StillFindsNothing
    <2> QED BY <1>6, <1>7, <1>4a, <2>1, <2>2, TurnKept
  <1>9. ASSUME NEW a \in Local \ imported'
        PROVE  Consistent(a)'
    <2>1. VersionsAgree(a) /\ AnswersAreKnown(a) /\ ~Told(c, a) /\ a \in Users
      BY <1>1, <1>4a, TurnOf DEF Consistent
    <2>2. VersionsAgree(a)'
      BY <1>2, <1>6, <1>7, <2>1, VersionsKept
    <2>3. ASSUME NEW p, Knows(a, p)
          PROVE  Knows(a, p)'
      <3>1. SameAnswer(a, copy'[Organiser], copy[Organiser])
        BY <1>3 DEF SameAnswer
      <3> QED BY <1>2, <2>1, <2>3, <3>1, KnowsKept
    <2>4. CASE a # v
      <3>1. ~OwnAnswer(c, a)
        BY <1>1, <2>4 DEF OwnAnswer, OwnRequest
      <3>2. AnswersAreKnown(a)'
        BY <1>2, <1>3, <2>1, <2>3, <2>4, <3>1, AnswersKept
      <3> QED BY <2>2, <3>2 DEF Consistent
    <2>5. CASE a = v
      <3>1. \A d \in Calls : ~OwnAnswer(d, v)'
        <4>1. \A d \in Calls \ {c} : ~OwnAnswer(d, v)
          BY <1>1 DEF OwnAnswer
        <4> QED BY <1>2, <4>1, OthersAsBefore
      <3>2. ASSUME v \notin apart', copy'[v] # Absent
            PROVE  Knows(v, copy[v].att[v].part)'
        <4>1. Knows(v, r.new.att[v].part)
          <5>1. v \notin apart /\ copy[v] # Absent /\ OwnAnswer(c, v)
            BY <1>1, <1>5, <1>4a, <2>5, <3>2 DEF AttendeesTurn
          <5> QED BY <2>1, <2>5, <5>1 DEF AnswersAreKnown, OwnAnswer
        <4>2. PICK p : p = r.new.att[v].part
          OBVIOUS
        <4>3. Knows(v, p)' /\ p = copy'[v].att[v].part
          BY <1>3, <2>3, <2>5, <4>1, <4>2
        <4> QED BY <4>3 DEF Knows
      <3>3. AnswersAreKnown(v)'
        BY <3>1, <3>2 DEF AnswersAreKnown, OwnAnswer
      <3> QED BY <2>2, <2>5, <3>3 DEF Consistent
    <2> QED BY <2>4, <2>5
  <1> QED BY <1>1, <1>2, <1>8, <1>9, Assembled

LEMMA StoreFits ==
  ASSUME Inv, RequestsAreOrderly, RequestsFitTogether, NEW c \in Calls, StoreOwn(c), ~torn'
  PROVE  RequestsFitTogether'
  <1> SUFFICES ASSUME NEW r, r = call[c]
               PROVE  RequestsFitTogether'
    OBVIOUS
  <1>1. /\ r # Idle /\ r.at \in {"send", "store"} /\ r.todo = {} /\ r.op # "import"
        /\ UNCHANGED <<name, inbox, mail, apart, ops>>
        /\ \/ GivesUp(c)
           \/ /\ call'[c] = Idle /\ OthersRest(c) /\ copy[r.user] = r.base
              /\ imported' = IF r.base = Absent /\ r.user \in Local
                               THEN imported \cup {r.user} ELSE imported
              /\ \A v \in Users : copy'[v] = IF v = r.user THEN r.new ELSE copy[v]
    BY StoreEffect DEF OthersRest
  <1>2. \/ OwnRequest(c, Organiser) /\ r.user = Organiser
        \/ r.user \in Local /\ OwnRequest(c, r.user)
    BY <1>1, OwnUser, OrganisersCopy
  <1>3. CASE GivesUp(c)
    BY <1>1, <1>3, GivesUpFits
  <1>4. CASE /\ call'[c] = Idle /\ OthersRest(c) /\ copy[r.user] = r.base
             /\ imported' = IF r.base = Absent /\ r.user \in Local
                              THEN imported \cup {r.user} ELSE imported
             /\ \A v \in Users : copy'[v] = IF v = r.user THEN r.new ELSE copy[v]
    <2>1. CASE OwnRequest(c, Organiser) /\ r.user = Organiser
      BY <1>1, <1>4, <2>1, OrganiserStores, OrganisersCopy
    <2>2. CASE r.user \in Local /\ OwnRequest(c, r.user)
      <3>1. PICK v \in Local : v = r.user
        BY <2>2
      <3> QED BY <1>1, <1>4, <2>2, <3>1, AttendeeStores
    <2> QED BY <1>2, <2>1, <2>2
  <1> QED BY <1>1, <1>3, <1>4

\* Request c has had its message taken in and is s now.
TakesIn(c, s) ==
  LET r == call[c] IN
  /\ GoesOn(c, s) /\ s.at = "send" /\ s.todo = r.todo /\ s.delivered = r.delivered
  /\ apart' = Apart(r.to, r.message, copy[r.to], copy'[r.to])
  /\ imported' = Imported(r, copy'[r.to])
  /\ \A v \in Users : v # r.to => copy'[v] = copy[v] /\ name'[v] = name[v]
  /\ IF copy[r.to] # Absent \/ copy'[r.to] = Absent
       THEN name'[r.to] = name[r.to] ELSE name'[r.to] = name[r.to] + 1
  /\ \/ copy'[r.to] = copy[r.to] /\ r.found = Applied(r.message, r.found)
     \/ copy'[r.to] = Applied(r.message, copy[r.to])

LEMMA TakesInBasics ==
  ASSUME Inv, RequestsAreOrderly, RequestsFitTogether, NEW c \in Calls,
         NEW r, r = call[c], r # Idle, r.at = "apply", NEW s, TakesIn(c, s)
  PROVE  /\ r.delivered /\ s.delivered = r.delivered /\ s.at = "send" /\ s.todo = r.todo
         /\ r.to \in Users /\ r.message \in Messages /\ Concerned(r.to, r.message) \in Attendees
         /\ apart \subseteq Attendees
         /\ Sends(r, r.to, r.message)
         /\ GoesOn(c, s)
         /\ \A v \in Users : v # r.to => copy'[v] = copy[v]
         /\ \A v \in Users : copy[v] # Absent => name'[v] = name[v]
         /\ copy'[Organiser] = Absent => name'[Organiser] = name[Organiser]
         /\ apart' = Apart(r.to, r.message, copy[r.to], copy'[r.to])
         /\ imported' \subseteq imported
         /\ r.message.method # "REQUEST" \/ r.message.from # Organiser => imported' = imported
         /\ \A v \in imported \ imported' :
              /\ v = r.to /\ copy'[r.to] = Applied(r.message, r.found)
              /\ \A d \in Calls : ~OwnRequest(d, v)
         /\ \A v \in Local : StillFindsNothing(v)
  <1>1. /\ s.delivered = r.delivered /\ s.at = "send" /\ s.todo = r.todo /\ GoesOn(c, s)
        /\ \A v \in Users : v # r.to => copy'[v] = copy[v] /\ name'[v] = name[v]
        /\ IF copy[r.to] # Absent \/ copy'[r.to] = Absent
             THEN name'[r.to] = name[r.to] ELSE name'[r.to] = name[r.to] + 1
        /\ apart' = Apart(r.to, r.message, copy[r.to], copy'[r.to])
        /\ imported' = Imported(r, copy'[r.to])
    BY DEF TakesIn
  <1>2. r.delivered
    BY TurnOf DEF TakesTurn
  <1>3. r.to \in Users /\ r.message \in Messages /\ Concerned(r.to, r.message) \in Attendees
    BY NewTyped DEF RequestIsRight, MessagesAreForTheInvited
  <1>4. Sends(r, r.to, r.message)
    BY OrganisersCopy DEF IsOrderly
  <1>5. Organiser \in Users /\ apart \subseteq Attendees
    BY OrganisersCopy DEF Inv, TypeOK
  <1>6. \A v \in Users : copy[v] # Absent => name'[v] = name[v]
    <2> SUFFICES ASSUME NEW v \in Users, copy[v] # Absent
                 PROVE  name'[v] = name[v]
      OBVIOUS
    <2>1. CASE v = r.to
      BY <1>1, <2>1
    <2>2. CASE v # r.to
      BY <1>1, <2>2
    <2> QED BY <2>1, <2>2
  <1>7. copy'[Organiser] = Absent => name'[Organiser] = name[Organiser]
    <2>1. CASE Organiser = r.to
      BY <1>1, <2>1
    <2>2. CASE Organiser # r.to
      BY <1>1, <1>5, <2>2
    <2> QED BY <2>1, <2>2
  <1>8. /\ imported' \subseteq imported
        /\ r.message.method # "REQUEST" \/ r.message.from # Organiser => imported' = imported
        /\ \A v \in imported \ imported' :
             /\ v = r.to /\ copy'[r.to] = Applied(r.message, r.found)
             /\ \A d \in Calls : ~OwnRequest(d, v)
    BY <1>1 DEF Imported
  <1>9. ASSUME NEW v \in Local
        PROVE  StillFindsNothing(v)
    <2>1. v \in Users /\ name[v] \in Nat
      BY OrganisersCopy DEF Inv, TypeOK
    <2>2. CASE v # r.to
      BY <1>1, <2>1, <2>2 DEF StillFindsNothing
    <2>3. CASE v = r.to
      BY <1>1, <2>1, <2>3 DEF StillFindsNothing
    <2> QED BY <2>2, <2>3
  <1> QED BY <1>1, <1>2, <1>3, <1>4, <1>5, <1>6, <1>7, <1>8, <1>9

\* An answer that the organiser takes in changes that answer in his copy.
LEMMA AnswerTakenIn ==
  ASSUME Inv, RequestsAreOrderly, RequestsFitTogether, NEW c \in Calls, ApplyMessage(c),
         NEW r, r = call[c], r # Idle, r.at = "apply", NEW s, TakesIn(c, s),
         r.to = Organiser, r.message.method = "REPLY", ~OwnRequest(c, Organiser)
  PROVE  /\ SameMeeting(copy'[Organiser], copy[Organiser])
         /\ imported' = imported
         /\ \A a \in Local : copy'[a] = copy[a]
         /\ \A a \in Local \ imported : VersionsAgree(a)'
         /\ name'[Organiser] = name[Organiser]
         /\ \A d \in Calls \ {c} : TakesTurn(d)'
         /\ \A a \in Local \ imported :
              a # r.message.from /\ ~OwnRequest(c, a) => Consistent(a)'
  <1> DEFINE m == r.message
  <1>1. /\ \A v \in Users : v # Organiser => copy'[v] = copy[v]
        /\ \A v \in Users : copy[v] # Absent => name'[v] = name[v]
        /\ copy'[Organiser] = Absent => name'[Organiser] = name[Organiser]
        /\ apart' = Apart(r.to, m, copy[r.to], copy'[r.to]) /\ GoesOn(c, s)
        /\ imported' = imported
        /\ \A v \in Local : StillFindsNothing(v)
    BY TakesInBasics
  <1>2. /\ Organiser \in Users /\ Local \subseteq Users /\ Organiser \notin Local
        /\ OthersRest(c) /\ \A u : ~Told(c, u) /\ ~Told(c, u)'
    BY <1>1, OrganisersCopy, GoesOnAs DEF Told
  <1>3. SameButAnswer(copy'[Organiser], copy[Organiser], m.from)
    <2>1. CASE copy'[Organiser] = copy[Organiser]
      BY <2>1 DEF SameButAnswer
    <2>2. CASE copy'[Organiser] # copy[Organiser]
      <3>1. copy'[r.to] # copy[r.to]
        BY <2>2
      <3>2. m.method = "REPLY" => SameButAnswer(copy'[r.to], copy[r.to], m.from)
        BY <3>1, TakenIn
      <3> QED BY <3>2
    <2> QED BY <2>1, <2>2
  <1>4. SameMeeting(copy'[Organiser], copy[Organiser])
    BY <1>3 DEF SameButAnswer, SameMeeting
  <1>5. \A a \in Local : copy'[a] = copy[a]
    BY <1>1, <1>2
  <1>6. name'[Organiser] = name[Organiser]
    BY <1>1, <1>2, <1>4 DEF SameMeeting
  <1>7. ASSUME NEW w \in Users, Direct(copy'[w], w)
        PROVE  /\ Direct(copy[w], w)
               /\ copy'[w].what = copy[w].what /\ copy'[w].cancelled = copy[w].cancelled
    <2>1. w # Organiser
      BY <1>7, PeopleAssumption DEF Direct, Invited
    <2>2. copy'[w] = copy[w]
      BY <1>1, <2>1
    <2> QED BY <1>7, <2>2 DEF Direct
  <1>8. ASSUME NEW d \in Calls \ {c}
        PROVE  TakesTurn(d)'
    <2>1. TakesTurn(d)
      BY FitTogether
    <2> QED BY <1>1, <1>2, <1>4, <1>5, <1>6, <1>7, <2>1, TurnKept
  <1>9. ASSUME NEW a \in Local \ imported
        PROVE  VersionsAgree(a)'
    <2>1. VersionsAgree(a) /\ a \in Users
      BY <1>2, TurnOf DEF Consistent
    <2> QED BY <1>2, <1>4, <1>7, <2>1, VersionsKept
  <1>10. ASSUME NEW a \in Local \ imported, a # m.from, ~OwnRequest(c, a)
         PROVE  Consistent(a)'
    <2>1. AnswersAreKnown(a)
      BY TurnOf DEF Consistent
    <2>2. SameAnswer(a, copy'[Organiser], copy[Organiser])
      BY <1>3, <1>10 DEF SameButAnswer, SameAnswer
    <2>3. \A p : Knows(a, p) => Knows(a, p)'
      BY <1>2, <2>2, KnowsKept
    <2>4. ~OwnAnswer(c, a) /\ ~OwnAnswer(c, a)'
      BY <1>1, <1>10, GoesOnAs DEF OwnAnswer
    <2>5. a \in apart => a \in apart'
      BY <1>1, <1>10 DEF Apart, Concerned
    <2>6. AnswersAreKnown(a)'
      BY <1>2, <1>5, <2>1, <2>3, <2>4, <2>5, AnswersKept
    <2> QED BY <1>9, <2>6 DEF Consistent
  <1> QED BY <1>1, <1>4, <1>5, <1>6, <1>8, <1>9, <1>10

LEMMA ImportTakesIn ==
  ASSUME Inv, RequestsAreOrderly, RequestsFitTogether, NEW c \in Calls, ApplyMessage(c),
         NEW r, r = call[c], r # Idle, r.at = "apply", NEW s, TakesIn(c, s), r.op = "import"
  PROVE  RequestsFitTogether'
  <1>1. r.to = Organiser /\ r.message.method = "REPLY" /\ r.message.from \in Remote
    BY TakesInBasics DEF Sends, ImportSends
  <1>2. /\ \A u : ~OwnRequest(c, u) /\ ~OwnRequest(c, u)'
        /\ call'[c] = s /\ s.at = "send" /\ OthersRest(c)
    BY TakesInBasics, GoesOnAs DEF OwnRequest
  <1>3. TakesTurn(c)'
    BY <1>2 DEF TakesTurn
  <1>4. /\ \A d \in Calls \ {c} : TakesTurn(d)'
        /\ \A a \in Local \ imported :
             a # r.message.from /\ ~OwnRequest(c, a) => Consistent(a)'
        /\ imported' = imported
    BY <1>1, <1>2, AnswerTakenIn
  <1>5. \A a \in Local \ imported' : Consistent(a)'
    BY <1>1, <1>2, <1>4, PeopleAssumption
  <1> QED BY <1>2, <1>3, <1>4, <1>5, TurnOf, Assembled

\* The organiser takes in the answer of v.
LEMMA ReplyTakesIn ==
  ASSUME Inv, RequestsAreOrderly, RequestsFitTogether, NEW c \in Calls, ApplyMessage(c),
         NEW r, r = call[c], r # Idle, r.at = "apply", NEW s, TakesIn(c, s),
         NEW v \in Local, OwnRequest(c, v), r.message.method = "REPLY"
  PROVE  RequestsFitTogether'
  <1> DEFINE m == r.message
  <1>1. /\ r.user = v /\ r.op # "import" /\ v # Organiser /\ v \in Users /\ v \in Attendees
        /\ ~OwnRequest(c, Organiser)
        /\ OneAtATime /\ AttendeesTurn(r) /\ AttendeesRequest(r)
    BY TurnOf DEF OwnRequest, Attendees
  <1>2. /\ r.to = Organiser /\ m.from = v /\ v \in Invited(m.event) /\ r.new # Absent
        /\ m.event.att[v].part = r.new.att[v].part
    BY <1>1, TakesInBasics DEF Sends, AttendeeSends
  <1>3. /\ call'[c] = s /\ OthersRest(c) /\ s.op = r.op /\ s.base = r.base /\ s.member = r.member
        /\ s.at = "send" /\ s.todo = r.todo /\ s.delivered /\ SameButStatus(s.new, r.new)
        /\ SameAnswer(v, s.new, r.new) /\ GoesOn(c, s)
        /\ \A u : OwnRequest(c, u)' <=> OwnRequest(c, u)
        /\ \A u : OwnAnswer(c, u)' <=> OwnRequest(c, u) /\ Answered(s)
    <2>1. s.at = "send" /\ s.todo = r.todo /\ s.delivered /\ GoesOn(c, s)
      BY TakesInBasics
    <2> QED BY <2>1, GoesOnAs
  <1>4. /\ \A a \in Local : copy'[a] = copy[a]
        /\ \A a \in Local \ imported : VersionsAgree(a)'
        /\ \A d \in Calls \ {c} : TakesTurn(d)'
        /\ \A a \in Local \ imported : a # m.from /\ ~OwnRequest(c, a) => Consistent(a)'
        /\ imported' = imported
    BY <1>1, <1>2, AnswerTakenIn
  <1>5. r.base # Absent /\ r.op = "put" /\ v \in Invited(r.new)
    <2>1. r.op = "put"
      BY <1>2, NewTyped DEF RequestOK
    <2>2. ReplyIsDue(r)
      BY DEF ReplyIsDue
    <2> QED BY <1>1, <1>2, <2>1, <2>2, TakesInBasics DEF AttendeesTurn, Sends, AttendeeSends
  <1>5a. v \notin imported => IsAbout(r)
    BY <1>1, <1>5 DEF IsAbout
  <1>6. /\ s.new.att[v].part = r.new.att[v].part
        /\ v \notin imported => s.new.what = r.base.what
    BY <1>1, <1>2, <1>3, <1>5, <1>5a DEF AttendeesTurn, SameButStatus, SameAnswer
  <1>7. v \notin imported => Answered(s)
    BY <1>1, <1>3, <1>5, <1>5a DEF AttendeesTurn, Answered, ReplyIsDue
  <1>8. TakesTurn(c)'
    <2>1. \A u \in Local : OwnRequest(c, u) => u = v
      BY <1>1 DEF OwnRequest
    <2>2. v \notin imported =>
            /\ s.member = name'[v] /\ copy'[v] # Absent
            /\ copy'[v].att[v].part = s.base.att[v].part
      BY <1>1, <1>3, <1>4, <1>5a, TakesInBasics DEF AttendeesTurn
    <2>3. v \notin imported =>
            \A x, t \in s.todo : x[2].method = "REPLY" /\ t[2].method = "REPLY" => x = t
      BY <1>1, <1>3, <1>5a DEF AttendeesTurn
    <2>4. Answered(s) /\ ~s.delivered => FALSE
      BY <1>3
    <2> QED BY <1>1, <1>3, <1>4, <1>5, <1>6, <2>1, <2>2, <2>3, <2>4, TurnAs
  <1>9. v \notin imported => AnswersAreKnown(v)'
    <2> SUFFICES ASSUME v \notin imported
                 PROVE  AnswersAreKnown(v)'
      OBVIOUS
    <2> SUFFICES ASSUME v \notin apart'
                 PROVE  /\ \E d \in Calls : OwnAnswer(d, v)'
                        /\ \A d \in Calls : OwnAnswer(d, v)' => Knows(v, call[d].new.att[v].part)'
      BY DEF AnswersAreKnown, OwnAnswer
    <2>1. OwnAnswer(c, v)'
      BY <1>3, <1>7
    <2>2. \A d \in Calls : OwnAnswer(d, v)' => d = c
      <3>1. OneAtATime'
        BY <1>1, <1>3, OneAtATimeKept
      <3>2. OwnRequest(c, v)'
        BY <1>3
      <3> QED BY <1>1, <3>1, <3>2 DEF OneAtATime, OwnAnswer
    <2>3. Alike(m, copy'[Organiser], v)
      <3>1. apart' = Apart(Organiser, m, copy[Organiser], copy'[Organiser])
        BY <1>2, TakesInBasics
      <3>2. apart' = IF Alike(m, copy'[Organiser], v) THEN apart \ {v} ELSE apart \cup {v}
        BY <1>2, <3>1 DEF Apart, Concerned
      <3> QED BY <3>2
    <2>4. /\ copy'[Organiser] # Absent /\ v \in Invited(copy'[Organiser])
          /\ copy'[Organiser].att[v].part = s.new.att[v].part
      BY <1>1, <1>2, <1>6, <2>3 DEF Alike, Invited
    <2>5. Knows(v, call[c].new.att[v].part)'
      BY <1>3, <2>4 DEF Knows
    <2> QED BY <2>1, <2>2, <2>5
  <1>10. ASSUME NEW a \in Local \ imported'
         PROVE  Consistent(a)'
    <2>1. CASE a = v
      BY <1>4, <1>9, <2>1 DEF Consistent
    <2>2. CASE a # v
      <3>1. ~OwnRequest(c, a)
        BY <1>1, <2>2 DEF OwnRequest
      <3> QED BY <1>2, <1>4, <2>2, <3>1
    <2> QED BY <2>1, <2>2
  <1> QED BY <1>1, <1>3, <1>4, <1>8, <1>10, Assembled

\* What an inbox takes in leaves an attendee's answer as it is.
LEMMA PartKept ==
  ASSUME Inv, RequestsAreOrderly, RequestsFitTogether, NEW c \in Calls, ApplyMessage(c),
         NEW r, r = call[c], r # Idle, r.at = "apply", NEW s, TakesIn(c, s),
         r.to \in Local, NEW w \in Local \ imported, copy[w] # Absent
  PROVE  /\ copy'[w] # Absent /\ copy'[w].att[w].part = copy[w].att[w].part
         /\ name'[w] = name[w]
  <1>1. w \in Users /\ r.to # Organiser
    BY OrganisersCopy
  <1>2. name'[w] = name[w]
    BY <1>1, TakesInBasics
  <1>3. CASE copy'[w] = copy[w]
    BY <1>2, <1>3
  <1>4. CASE copy'[w] # copy[w]
    <2>1. w = r.to
      BY <1>1, <1>4, TakesInBasics
    <2>2. copy'[r.to] # copy[r.to]
      BY <1>4, <2>1
    <2>3. /\ r.message.method = "REQUEST" =>
               /\ copy'[r.to] # Absent
               /\ r.to \in Invited(copy[r.to]) =>
                    copy'[r.to].att[r.to].part = copy[r.to].att[r.to].part
          /\ r.message.method = "CANCEL" =>
               copy'[r.to] # Absent /\ copy'[r.to].att = copy[r.to].att
          /\ r.message.method \in {"REQUEST", "CANCEL", "REPLY"}
      BY <1>1, <2>1, <2>2, TakenIn
    <2>4. r.message.method # "REPLY"
      <3>1. Sends(r, r.to, r.message)
        BY TakesInBasics
      <3> QED BY <1>1, <3>1 DEF Sends, ImportSends, AttendeeSends, OrganiserSends
    <2>5. w \in Invited(copy[w])
      BY DEF Inv, CopiesAreEntitled, Entitled
    <2> QED BY <1>2, <2>1, <2>3, <2>4, <2>5
  <1> QED BY <1>3, <1>4

\* A delegate takes in what an attendee sends him.
LEMMA DelegateTakesIn ==
  ASSUME Inv, RequestsAreOrderly, RequestsFitTogether, NEW c \in Calls, ApplyMessage(c),
         NEW r, r = call[c], r # Idle, r.at = "apply", NEW s, TakesIn(c, s),
         NEW v \in Local, OwnRequest(c, v), r.message.method = "REQUEST"
  PROVE  RequestsFitTogether'
  <1> DEFINE m == r.message
             u == r.to
  <1>1. /\ r.user = v /\ r.op # "import" /\ v # Organiser /\ v \in Users
        /\ ~OwnRequest(c, Organiser) /\ Organiser \in Users /\ Local \subseteq Users
        /\ OneAtATime /\ AttendeesTurn(r) /\ AttendeesRequest(r)
    BY TurnOf DEF OwnRequest
  <1>2. m.from = v /\ m.event.att[u].from # Absent /\ r.new # Absent
    BY <1>1, TakesInBasics DEF Sends, AttendeeSends
  <1>3. u \in Local /\ u # Organiser
    BY OrganisersCopy, NewTyped DEF RequestIsRight, MessagesAreForTheInvited
  <1>4. /\ call'[c] = s /\ OthersRest(c) /\ s.op = r.op /\ s.base = r.base /\ s.member = r.member
        /\ s.at = "send" /\ s.todo = r.todo /\ s.delivered /\ SameButStatus(s.new, r.new)
        /\ SameAnswer(v, s.new, r.new) /\ GoesOn(c, s)
        /\ \A w : OwnRequest(c, w)' <=> OwnRequest(c, w)
        /\ \A w : OwnAnswer(c, w)' <=> OwnRequest(c, w) /\ Answered(s)
        /\ \A w : OwnAnswer(c, w) <=> OwnRequest(c, w) /\ Answered(r)
        /\ \A w : ~Told(c, w) /\ ~Told(c, w)'
    <2>1. s.at = "send" /\ s.todo = r.todo /\ s.delivered /\ GoesOn(c, s)
      BY TakesInBasics
    <2> QED BY <1>1, <2>1, GoesOnAs DEF Told
  <1>5. Answered(s) <=> Answered(r)
    BY <1>4 DEF Answered, ReplyIsDue
  <1>6. ASSUME r.base # Absent, v \notin imported
        PROVE  /\ r.op = "put" /\ s.new.what = r.base.what
               /\ s.new.att[v].part = r.new.att[v].part /\ IsAbout(r)
    <2>0. IsAbout(r)
      BY <1>1, <1>6 DEF IsAbout
    <2>1. r.op = "put"
      BY <1>2, NewTyped DEF RequestOK
    <2>2. r.at # "hook" /\ v \in Invited(r.new)
      BY <1>1, <2>1, <2>0 DEF AttendeesRequest
    <2> QED BY <1>1, <1>2, <1>4, <2>1, <2>2, <2>0 DEF AttendeesTurn, SameButStatus, SameAnswer
  <1>7. /\ \A w \in Users : w # u => copy'[w] = copy[w]
        /\ copy'[Organiser] = copy[Organiser] /\ name'[Organiser] = name[Organiser]
        /\ apart' = IF copy[u] = Absent THEN apart \cup {u} ELSE apart
        /\ imported' = imported /\ \A w \in Local : StillFindsNothing(w)
    <2>1. /\ \A w \in Users : w # u => copy'[w] = copy[w]
          /\ apart' = Apart(u, m, copy[u], copy'[u])
      BY TakesInBasics
    <2>2. copy'[Organiser] = copy[Organiser]
      BY <1>1, <1>3, <2>1
    <2>3. name'[Organiser] = name[Organiser]
      BY <1>1, <1>3, <2>2 DEF TakesIn
    <2>4. apart' = IF copy[u] = Absent THEN apart \cup {u} ELSE apart
      BY <1>1, <1>2, <2>1 DEF Apart, Concerned
    <2>5. imported' = imported /\ \A w \in Local : StillFindsNothing(w)
      BY <1>1, <1>2, TakesInBasics
    <2> QED BY <2>1, <2>2, <2>3, <2>4, <2>5
  <1>8. ASSUME NEW w \in Users, Direct(copy'[w], w)
        PROVE  /\ Direct(copy[w], w)
               /\ copy'[w].what = copy[w].what /\ copy'[w].cancelled = copy[w].cancelled
    <2>1. copy'[w] = copy[w]
      <3> SUFFICES ASSUME copy'[w] # copy[w]
                   PROVE  FALSE
        OBVIOUS
      <3>1. w = u
        BY <1>7
      <3>2. copy'[u] # copy[u]
        BY <3>1
      <3>3. copy'[u].att[u].from = m.event.att[u].from
        BY <3>2, TakenIn
      <3> QED BY <1>2, <1>8, <3>1, <3>3 DEF Direct
    <2> QED BY <1>8, <2>1 DEF Direct
  <1>9. ASSUME NEW w \in Local \ imported, copy[w] # Absent
        PROVE  /\ copy'[w] # Absent /\ copy'[w].att[w].part = copy[w].att[w].part
               /\ name'[w] = name[w]
    BY <1>3, <1>9, PartKept
  <1>10. SameMeeting(copy'[Organiser], copy[Organiser])
    BY <1>7 DEF SameMeeting
  <1>11. ASSUME NEW d \in Calls \ {c}
         PROVE  TakesTurn(d)'
    <2>1. TakesTurn(d)
      BY FitTogether
    <2> QED BY <1>4, <1>7, <1>8, <1>9, <1>10, <2>1, TurnKept
  <1>12. TakesTurn(c)'
    <2>1. \A w \in Local : OwnRequest(c, w) => w = v
      BY <1>1 DEF OwnRequest
    <2>2. ASSUME r.base # Absent, v \notin imported
          PROVE  /\ s.member = name'[v] /\ copy'[v] # Absent
                 /\ copy'[v].att[v].part = s.base.att[v].part
                 /\ \A x, t \in s.todo : x[2].method = "REPLY" /\ t[2].method = "REPLY" => x = t
      BY <1>1, <1>4, <1>6, <1>9, <2>2 DEF AttendeesTurn
    <2>3. ASSUME r.base = Absent
          PROVE  ~ReplyIsDue(s)
      BY <1>1, <1>4, <2>3 DEF AttendeesTurn, ReplyIsDue
    <2> QED BY <1>1, <1>4, <1>6, <1>7, <2>1, <2>2, <2>3, TurnAs
  <1>13. ASSUME NEW a \in Local \ imported'
         PROVE  Consistent(a)'
    <2>1. VersionsAgree(a) /\ AnswersAreKnown(a) /\ a \in Users
      BY <1>1, <1>7, TurnOf DEF Consistent
    <2>2. VersionsAgree(a)'
      BY <1>4, <1>8, <1>10, <2>1, VersionsKept
    <2>3. \A p : Knows(a, p) => Knows(a, p)'
      <3>1. SameAnswer(a, copy'[Organiser], copy[Organiser])
        BY <1>7 DEF SameAnswer
      <3> QED BY <1>4, <3>1, KnowsKept
    <2>4. OwnAnswer(c, a) => s.new.att[a].part = r.new.att[a].part
      BY <1>1, <1>6, <1>7 DEF OwnAnswer, Answered, OwnRequest
    <2>5. CASE copy[a] # Absent \/ copy'[a] = Absent
      <3>1. copy'[a] # Absent =>
              copy[a] # Absent /\ copy'[a].att[a].part = copy[a].att[a].part
        BY <1>7, <1>9, <2>5
      <3>2. a \in apart => a \in apart'
        BY <1>7
      <3>3. AnswersAreKnown(a)'
        BY <1>4, <1>5, <2>1, <2>3, <2>4, <3>1, <3>2, AnswersKept
      <3> QED BY <2>2, <3>3 DEF Consistent
    <2>6. CASE copy[a] = Absent /\ copy'[a] # Absent
      <3>1. a = u
        BY <1>7, <2>1, <2>6
      <3>2. a \in apart'
        BY <1>7, <2>6, <3>1
      <3>3. AnswersAreKnown(a)'
        BY <3>2 DEF AnswersAreKnown
      <3> QED BY <2>2, <3>3 DEF Consistent
    <2> QED BY <2>5, <2>6
  <1> QED BY <1>1, <1>4, <1>11, <1>12, <1>13, Assembled

\* An attendee who has taken in a message of the organiser has been told.
LEMMA OrganiserTold ==
  ASSUME Inv, RequestsAreOrderly, RequestsFitTogether, NEW c \in Calls, ApplyMessage(c),
         NEW r, r = call[c], r # Idle, r.at = "apply", NEW s, TakesIn(c, s),
         NEW u, u = r.to, NEW m, m = r.message, OwnRequest(c, Organiser)
  PROVE  /\ u \in Local /\ OrganiserSends(r, u, m)
         /\ u \notin imported' => Agrees(u, r.new)'
  <1>1. /\ r.user = Organiser /\ r.op # "import" /\ OrganisersTurn(r)
        /\ Organiser \in Users /\ Organiser \notin Attendees
    BY TurnOf, PeopleAssumption DEF OwnRequest
  <1>2. OrganiserSends(r, u, m) /\ u \in Users /\ Concerned(u, m) \in Attendees /\ m \in Messages
    BY <1>1, TakesInBasics DEF Sends
  <1>3. u \in Local /\ u # Organiser
    BY <1>1, <1>2 DEF OrganiserSends, Concerned, Users
  <1>4. m.method = "CANCEL" \/ m.method = "REQUEST"
    BY <1>2 DEF OrganiserSends
  <1>5. CASE copy'[u] = copy[u] /\ r.found = Applied(m, r.found) /\ u \notin imported'
    <2>1. ASSUME Direct(copy'[u], u)
          PROVE  /\ r.found # Absent /\ r.found \in Events \cup {Absent}
                 /\ r.found.what = copy'[u].what /\ r.found.cancelled = copy'[u].cancelled
      <3>1. Direct(copy[r.to], r.to)
        BY <1>5, <2>1 DEF Direct
      <3>2. CASE u \notin imported
        BY <1>1, <1>5, <3>1, <3>2, NewTyped DEF OrganisersTurn, Direct
      <3>3. CASE u \in imported
        <4>1. copy'[u] = r.found
          BY <1>5, <3>3, TakesInBasics
        <4> QED BY <1>5, <3>1, <4>1, NewTyped DEF Direct
      <3> QED BY <3>2, <3>3
    <2>2. CASE m.method = "REQUEST"
      <3>1. /\ r.new # Absent /\ u \in Invited(r.new)
            /\ m.event.what = r.new.what /\ ~m.event.cancelled
        BY <1>2, <2>2 DEF OrganiserSends
      <3>2. ASSUME Direct(copy'[u], u)
            PROVE  copy'[u].what = r.new.what /\ ~copy'[u].cancelled
        <4>1. r.found.what = m.event.what /\ r.found.cancelled = m.event.cancelled
          BY <1>2, <1>5, <2>1, <2>2, <3>2, RequestTaken
        <4> QED BY <2>1, <3>1, <3>2, <4>1
      <3> QED BY <1>2, <1>3, <1>5, <3>1, <3>2 DEF Agrees
    <2>3. CASE m.method = "CANCEL"
      <3>1. ~(r.new # Absent /\ u \in Invited(r.new))
        BY <1>2, <2>3 DEF OrganiserSends
      <3>2. ASSUME Direct(copy'[u], u)
            PROVE  copy'[u].cancelled
        <4>1. r.found.cancelled
          BY <1>2, <1>5, <2>1, <2>3, <3>2, CancelTaken
        <4> QED BY <2>1, <3>2, <4>1
      <3> QED BY <1>2, <1>3, <2>3, <3>1, <3>2 DEF Agrees
    <2> QED BY <1>4, <2>2, <2>3
  <1>6. CASE copy'[u] = Applied(m, copy[u])
    <2>1. copy[u] \in Events \cup {Absent}
      BY <1>2 DEF Inv, TypeOK
    <2>2. CASE m.method = "REQUEST"
      <3>1. /\ r.new # Absent /\ u \in Invited(r.new) /\ u \in Invited(m.event)
            /\ m.event.what = r.new.what /\ ~m.event.cancelled
        <4>1. u \in Invited(m.event)
          BY <2>2, NewTyped DEF RequestIsRight, MessagesAreForTheInvited, Entitled
        <4> QED BY <1>2, <2>2, <4>1 DEF OrganiserSends
      <3>2. copy'[u].what = m.event.what /\ copy'[u].cancelled = m.event.cancelled
        BY <1>2, <1>6, <2>1, <2>2, <3>1, RequestTaken
      <3> QED BY <1>2, <1>3, <2>1, <3>1, <3>2 DEF Agrees
    <2>3. CASE m.method = "CANCEL"
      <3>1. ~(r.new # Absent /\ u \in Invited(r.new))
        BY <1>2, <2>3 DEF OrganiserSends
      <3>2. copy'[u] # Absent => copy'[u].cancelled
        BY <1>2, <1>6, <2>1, <2>3, CancelTaken
      <3> QED BY <1>2, <1>3, <2>3, <3>1, <3>2 DEF Agrees, Direct
    <2> QED BY <1>4, <2>2, <2>3
  <1> QED BY <1>2, <1>3, <1>5, <1>6 DEF TakesIn

\* What a then has for an answer is what the organiser sent him, or he is apart.
LEMMA OrganiserTakesIn ==
  ASSUME Inv, RequestsAreOrderly, RequestsFitTogether, NEW c \in Calls, ApplyMessage(c),
         NEW r, r = call[c], r # Idle, r.at = "apply", NEW s, TakesIn(c, s),
         OwnRequest(c, Organiser)
  PROVE  RequestsFitTogether'
  <1> DEFINE m == r.message
             u == r.to
  <1>1. /\ r.user = Organiser /\ r.op # "import"
        /\ Organiser \in Users /\ Local \subseteq Users /\ Organiser \notin Local
        /\ OneAtATime /\ OrganisersTurn(r) /\ OrganisersRequest(r)
        /\ \A d \in Calls \ {c} : ~OwnRequest(d, Organiser)
        /\ \A a \in Local : ~OwnRequest(c, a)
    BY TurnOf DEF OwnRequest
  <1>2. /\ u \in Local /\ u # Organiser /\ OrganiserSends(r, u, m)
        /\ u \notin imported' => Agrees(u, r.new)'
    BY <1>1, OrganiserTold
  <1>3. /\ call'[c] = s /\ OthersRest(c) /\ s.op = r.op /\ s.base = r.base /\ s.member = r.member
        /\ s.at = "send" /\ s.todo = r.todo /\ s.delivered /\ SameMeeting(s.new, r.new)
        /\ \A w : SameAnswer(w, s.new, r.new)
        /\ GoesOn(c, s)
        /\ \A w : OwnRequest(c, w)' <=> OwnRequest(c, w)
        /\ \A w : Told(c, w)' <=> OwnRequest(c, Organiser) /\ Telling(s) /\ ~Waiting(s, w)
        /\ \A w : Told(c, w) <=> OwnRequest(c, Organiser) /\ Telling(r) /\ ~Waiting(r, w)
    <2>1. s.at = "send" /\ s.todo = r.todo /\ s.delivered /\ GoesOn(c, s)
      BY TakesInBasics
    <2> QED BY <2>1, GoesOnAs
  <1>4. /\ \A w \in Users : w # u => copy'[w] = copy[w]
        /\ copy'[Organiser] = copy[Organiser] /\ name'[Organiser] = name[Organiser]
        /\ apart' = IF Alike(m, copy'[u], u) /\ ~Answering(u) THEN apart \ {u} ELSE apart \cup {u}
    <2>1. /\ \A w \in Users : w # u => copy'[w] = copy[w]
          /\ apart' = Apart(u, m, copy[u], copy'[u])
      BY TakesInBasics
    <2>2. copy'[Organiser] = copy[Organiser]
      BY <1>1, <1>2, <2>1
    <2>3. name'[Organiser] = name[Organiser]
      BY <1>1, <1>2, <2>2 DEF TakesIn
    <2>4. m.from = Organiser /\ m.method # "REPLY"
      BY <1>2 DEF OrganiserSends
    <2>5. apart' = IF Alike(m, copy'[u], u) /\ ~Answering(u) THEN apart \ {u} ELSE apart \cup {u}
      BY <2>1, <2>4 DEF Apart, Concerned
    <2> QED BY <2>1, <2>2, <2>3, <2>5
  <1>5. ASSUME NEW w \in Local \ imported, copy[w] # Absent
        PROVE  /\ copy'[w] # Absent /\ copy'[w].att[w].part = copy[w].att[w].part
               /\ name'[w] = name[w]
    BY <1>2, <1>5, PartKept
  <1>5a. /\ \A w \in imported \ imported' : w = u /\ \A d \in Calls : ~OwnRequest(d, w)
         /\ \A w \in Local : StillFindsNothing(w)
    BY TakesInBasics
  <1>6. SameMeeting(copy'[Organiser], copy[Organiser])
    BY <1>4 DEF SameMeeting
  <1>7. ASSUME NEW d \in Calls \ {c}
        PROVE  TakesTurn(d)'
    <2>1. TakesTurn(d)
      BY FitTogether
    <2> QED BY <1>1, <1>3, <1>5, <1>5a, <2>1, TurnKept
  <1>8. TakesTurn(c)'
    <2>1. s.member = name'[Organiser] /\ SameMeeting(s.base, copy'[Organiser])
      BY <1>1, <1>3, <1>4 DEF OrganisersTurn
    <2> QED BY <1>1, <1>3, <2>1, TurnAs
  <1>9. \A a \in Local : ~OwnAnswer(c, a) /\ ~OwnAnswer(c, a)'
    BY <1>1, <1>3 DEF OwnAnswer
  <1>10. ASSUME NEW a \in Local \ imported', a # u
         PROVE  Consistent(a)'
    <2>1. VersionsAgree(a) /\ AnswersAreKnown(a) /\ a \in Users
      BY <1>1, <1>10, <1>5a, TurnOf DEF Consistent
    <2>2. Told(c, a)' <=> Told(c, a)
      <3>1. Waiting(s, a) <=> Waiting(r, a)
        BY <1>3, <1>10 DEF Waiting
      <3> QED BY <1>3, <3>1 DEF Telling
    <2>3. copy'[a] = copy[a]
      BY <1>4, <1>10, <2>1
    <2>4. VersionsAgree(a)'
      <3>1. Direct(copy'[a], a) => Direct(copy[a], a)
        BY <2>3 DEF Direct
      <3> QED BY <1>3, <1>6, <2>1, <2>2, <2>3, <3>1, VersionsKept
    <2>5. \A p : Knows(a, p) => Knows(a, p)'
      <3>1. SameAnswer(a, copy'[Organiser], copy[Organiser])
        BY <1>4 DEF SameAnswer
      <3> QED BY <1>3, <2>2, <3>1, KnowsKept
    <2>6. AnswersAreKnown(a)'
      <3>1. a \in apart => a \in apart'
        BY <1>4, <1>10
      <3> QED BY <1>3, <1>9, <2>1, <2>3, <2>5, <3>1, AnswersKept
    <2> QED BY <2>4, <2>6 DEF Consistent
  <1>11. /\ Told(c, u)'
         /\ \A d \in Calls : Told(d, u)' => d = c
    <2>1. ~Waiting(s, u)
      BY <1>1, <1>3 DEF OrganisersRequest, Waiting
    <2>2. Told(c, u)'
      BY <1>3, <2>1 DEF Telling
    <2>3. \A d \in Calls \ {c} : ~Told(d, u)'
      <3>1. \A d \in Calls \ {c} : ~Told(d, u)
        BY <1>1 DEF Told
      <3> QED BY <1>3, <3>1, OthersAsBefore
    <2> QED BY <2>2, <2>3
  <1>12. u \notin imported' => VersionsAgree(u)'
    <2> SUFFICES ASSUME u \notin imported'
                 PROVE  VersionsAgree(u)'
      OBVIOUS
    <2>1. Agrees(u, call[c].new)'
      BY <1>2, <1>3 DEF Agrees, SameMeeting
    <2> QED BY <1>11, <2>1 DEF VersionsAgree
  <1>13. u \notin imported' => AnswersAreKnown(u)'
    <2> SUFFICES ASSUME u \notin imported'
                 PROVE  AnswersAreKnown(u)'
      OBVIOUS
    <2> SUFFICES ASSUME u \notin apart', copy'[u] # Absent
                 PROVE  /\ Knows(u, copy[u].att[u].part)'
                        /\ \A d \in Calls :
                             OwnAnswer(d, u)' => Knows(u, call[d].new.att[u].part)'
      BY DEF AnswersAreKnown, OwnAnswer
    <2>1. Alike(m, copy'[u], u) /\ ~Answering(u)
      BY <1>4
    <2>2. PICK p : p = copy'[u].att[u].part
      OBVIOUS
    <2>3. ASSUME r.new # Absent, u \in Invited(r.new)
          PROVE  p = r.new.att[u].part
      <3>1. /\ m.method = "REQUEST" /\ m.event.att[u].part = r.new.att[u].part
        BY <1>2, <2>3 DEF OrganiserSends
      <3>2. u \in Invited(m.event)
        BY <3>1, NewTyped DEF RequestIsRight, MessagesAreForTheInvited, Entitled
      <3> QED BY <2>1, <2>2, <3>1, <3>2 DEF Alike
    <2>4. Knows(u, p)'
      <3>1. ASSUME s.new # Absent, u \in Invited(s.new)
            PROVE  IF copy[Organiser] # Absent /\ u \in Invited(copy[Organiser])
                     THEN copy[Organiser].att[u].part = s.base.att[u].part =>
                            p = copy[Organiser].att[u].part
                     ELSE p = s.new.att[u].part
        <4>1. /\ r.new # Absent /\ u \in Invited(r.new)
              /\ s.new.att[u].part = r.new.att[u].part
          BY <1>3, <3>1 DEF SameAnswer
        <4>2. p = r.new.att[u].part
          BY <2>3, <4>1
        <4>3. copy[Organiser] # Absent /\ u \in Invited(copy[Organiser]) =>
                r.new.att[u].part = r.base.att[u].part
          BY <1>1, <4>1 DEF OrganisersTurn, OrganisersRequest, SameMeeting, KeepsParts
        <4> QED BY <1>3, <4>1, <4>2, <4>3
      <3> QED BY <1>3, <1>4, <1>11, <3>1 DEF Knows
    <2>5. ASSUME NEW d \in Calls, OwnAnswer(d, u)'
          PROVE  call'[d].new.att[u].part = p
      <3>1. d # c
        BY <1>9, <2>5, <1>2
      <3>2. call'[d] = call[d] /\ OwnAnswer(d, u)
        BY <1>3, <2>5, <3>1, OthersAsBefore
      <3>3. OwnRequest(d, u) /\ Answered(call[d]) /\ ~call[d].delivered
        BY <2>1, <3>2 DEF OwnAnswer, Answering
      <3>3a. u \notin imported
        BY <1>5a, <3>3
      <3>4. AttendeesTurn(call[d]) /\ call[d].user = u /\ IsAbout(call[d])
        BY <1>2, <3>3, <3>3a, TurnOf DEF OwnRequest, IsAbout, Answered
      <3>5. copy[u] # Absent /\ call[d].new.att[u].part = copy[u].att[u].part
        BY <3>3, <3>4 DEF AttendeesTurn
      <3> QED BY <1>2, <1>5, <2>2, <3>2, <3>5, <3>3a
    <2>6. Knows(u, copy[u].att[u].part)'
      BY <2>2, <2>4 DEF Knows
    <2>7. ASSUME NEW d \in Calls, OwnAnswer(d, u)'
          PROVE  Knows(u, call[d].new.att[u].part)'
      BY <2>4, <2>5, <2>7 DEF Knows
    <2> QED BY <2>6, <2>7
  <1>14. ASSUME NEW a \in Local \ imported'
         PROVE  Consistent(a)'
    BY <1>10, <1>12, <1>13 DEF Consistent
  <1> QED BY <1>1, <1>3, <1>7, <1>8, <1>14, Assembled

LEMMA ApplyFits ==
  ASSUME Inv, RequestsAreOrderly, RequestsFitTogether, NEW c \in Calls, ApplyMessage(c), ~torn'
  PROVE  RequestsFitTogether'
  <1> SUFFICES ASSUME NEW r, r = call[c]
               PROVE  RequestsFitTogether'
    OBVIOUS
  <1>1. /\ r # Idle /\ r.at = "apply"
        /\ GivesUp(c) \/ \E s : TakesIn(c, s)
    BY ApplyEffect DEF TakesIn
  <1>2. CASE GivesUp(c)
    BY <1>1, <1>2, GivesUpFits
  <1>3. ASSUME NEW s, TakesIn(c, s)
        PROVE  RequestsFitTogether'
    <2>1. CASE r.op = "import"
      BY <1>1, <1>3, <2>1, ImportTakesIn
    <2>2. CASE OwnRequest(c, Organiser)
      BY <1>1, <1>3, <2>2, OrganiserTakesIn
    <2>3. ASSUME NEW v \in Local, OwnRequest(c, v)
          PROVE  RequestsFitTogether'
      <3>1. r.message.method \in {"REQUEST", "REPLY"}
        <4>1. r.user # Organiser /\ r.op # "import"
          BY <2>3, OrganisersCopy DEF OwnRequest
        <4> QED BY <1>1, <1>3, <4>1, TakesInBasics DEF Sends, AttendeeSends
      <3> QED BY <1>1, <1>3, <2>3, <3>1, ReplyTakesIn, DelegateTakesIn
    <2>4. r.op = "import" \/ OwnRequest(c, Organiser) \/ \E v \in Local : OwnRequest(c, v)
      BY <1>1, OwnUser, OrganisersCopy
    <2> QED BY <2>1, <2>2, <2>3, <2>4
  <1> QED BY <1>1, <1>2, <1>3

-----------------------------------------------------------------------------
(* The copies agree                                                        *)

LEMMA StepKeepsFit ==
  ASSUME Inv, RequestsAreOrderly, RequestsFitTogether, [Next]_vars, ~torn'
  PROVE  RequestsFitTogether'
  <1>1. CASE UNCHANGED vars
    BY <1>1, StillFits DEF vars
  <1>2. ASSUME NEW a \in Remote, NEW p, RemoteReply(a, p)
        PROVE  RequestsFitTogether'
    BY <1>2, StillFits DEF RemoteReply
  <1>3. ASSUME NEW c \in Calls, Step(c)
        PROVE  RequestsFitTogether'
    BY <1>3, HookFits, DeliverFits, MailFits, ApplyFits, StoreFits, ImportFits DEF Step
  <1>4. ASSUME NEW c \in Calls, NEW u \in Users, BeginPut(c, u) \/ BeginDelete(c, u)
        PROVE  RequestsFitTogether'
    BY <1>4, BeginFits
  <1>5. ASSUME NEW c \in Calls, BeginImport(c)
        PROVE  RequestsFitTogether'
    BY <1>5, ImportFits
  <1> QED BY <1>1, <1>2, <1>3, <1>4, <1>5 DEF Next

LEMMA TornForGood ==
  ASSUME Inv, [Next]_vars, torn
  PROVE  torn'
  <1>1. ASSUME NEW c \in Calls, Step(c)
        PROVE  torn'
    BY <1>1 DEF Step, PrePutHook, PreDeleteHook, DeliverToInbox, SendViaImip, ApplyMessage,
       StoreOwn, EndImport, GoOn, Fail, Succeed
  <1>2. ASSUME NEW c \in Calls, NEW u \in Users, BeginPut(c, u) \/ BeginDelete(c, u)
        PROVE  torn'
    BY <1>2 DEF BeginPut, BeginDelete, Begin
  <1>3. (\E c \in Calls : BeginImport(c)) \/ UNCHANGED vars => torn'
    BY DEF BeginImport, vars
  <1>4. ASSUME NEW a \in Remote, NEW p, RemoteReply(a, p)
        PROVE  torn'
    BY <1>4 DEF RemoteReply
  <1> QED BY <1>1, <1>2, <1>3, <1>4 DEF Next

LEMMA InitAgreeInv ==
  ASSUME Init
  PROVE  AgreeInv
  <1>1. /\ \A u \in Users : copy[u] = Absent
        /\ \A c \in Calls : call[c] = Idle
        /\ Organiser \in Users /\ Local \subseteq Users
    BY DEF Init, Users
  <1>2. RequestsAreOrderly
    BY <1>1 DEF RequestsAreOrderly, Plain
  <1>3. \A c \in Calls : \A u : ~OwnRequest(c, u)
    BY <1>1 DEF OwnRequest
  <1>4. \A c \in Calls : call[c].at = "idle"
    BY <1>1 DEF Idle
  <1>5. ASSUME NEW a \in Local
        PROVE  VersionsAgree(a) /\ AnswersAreKnown(a)
    BY <1>1, <1>3 DEF VersionsAgree, AnswersAreKnown, Told, Agrees, Direct
  <1>6. RequestsFitTogether
    BY <1>3, <1>4, <1>5 DEF RequestsFitTogether
  <1> QED BY <1>2, <1>6, InitInv DEF AgreeInv

\* As long as no request fails half-way and nobody has two at a time, the
\* organiser's request has told each attendee what it will store, or has yet to
\* tell him; an attendee's request stores the version that he has; and whoever is
\* not apart has, or will store, the answer that the organiser has or will get.
\* This is what the hooks and deliver_to_inbox of web.py keep between their steps.
THEOREM AgreeInvariant == Spec => []AgreeInv
  <1>1. Init => AgreeInv
    BY InitAgreeInv
  <1>2. AgreeInv /\ [Next]_vars => AgreeInv'
    <2> SUFFICES ASSUME AgreeInv, [Next]_vars
                 PROVE  AgreeInv'
      OBVIOUS
    <2>1. Inv'
      BY StepKeepsInv, StutterKeepsInv DEF AgreeInv
    <2>2. RequestsAreOrderly'
      BY StepKeepsOrderly DEF AgreeInv
    <2>3. ASSUME ~torn'
          PROVE  RequestsFitTogether'
      BY <2>3, TornForGood, StepKeepsFit DEF AgreeInv
    <2> QED BY <2>1, <2>2, <2>3 DEF AgreeInv
  <1> QED BY <1>1, <1>2, PTL DEF Spec

\* When every request has ended and none had failed half-way, the organiser and
\* the attendees have the same meeting and the same answers: the messages that
\* _dispatch_organiser_put, pre_delete_hook and _dispatch_attendee_put send are
\* enough, in whatever order they and the requests of others come.
THEOREM CopiesStayInAgreement == Spec => []CopiesAgree
  <1>1. ASSUME AgreeInv
        PROVE  CopiesAgree
    <2> SUFFICES ASSUME \A c \in Calls : call[c] = Idle, ~torn, NEW a \in Local
                 PROVE  LET own == copy[a]
                            entry == copy[Organiser].att[a]
                            invited == copy[Organiser] # Absent /\ entry # Absent
                        IN
                        /\ invited => [method |-> "REQUEST", what |-> copy[Organiser].what] \in inbox[a]
                        /\ invited /\ own # Absent /\ a \notin imported =>
                             /\ \/ own.what = copy[Organiser].what /\ ~own.cancelled
                                \/ own.att[a].from # Absent
                             /\ own.att[a].part = entry.part \/ a \in apart
                        /\ own # Absent /\ ~own.cancelled /\ a \notin imported =>
                             invited \/ (IsAttendee(own, a) /\ own.att[a].from # Absent)
      BY DEF CopiesAgree
    <2> DEFINE own == copy[a]
               invited == copy[Organiser] # Absent /\ a \in Invited(copy[Organiser])
    <2>1. /\ Inv /\ RequestsAreOrderly
          /\ a \notin imported => VersionsAgree(a) /\ AnswersAreKnown(a)
      BY <1>1 DEF AgreeInv, RequestsFitTogether
    <2>2. \A c \in Calls : ~Told(c, a) /\ ~OwnRequest(c, a)
      BY DEF Told, OwnRequest
    <2>3. a \in Attendees /\ (own # Absent /\ a \notin imported => a \in Invited(own))
      BY <2>1 DEF Attendees, Inv, CopiesAreEntitled, Entitled
    <2>4. invited => Invitation(copy[Organiser]) \in inbox[a]
      BY <2>1 DEF RequestsAreOrderly
    <2>5. a \notin imported => Agrees(a, copy[Organiser])
      BY <2>1, <2>2 DEF VersionsAgree
    <2>6. a \notin imported \cup apart /\ own # Absent => Knows(a, own.att[a].part)
      BY <2>1, <2>2 DEF AnswersAreKnown
    <2>7. a \notin imported \cup apart /\ own # Absent /\ invited =>
            own.att[a].part = copy[Organiser].att[a].part
      BY <2>2, <2>6 DEF Knows
    <2>8. invited <=> copy[Organiser] # Absent /\ copy[Organiser].att[a] # Absent
      BY <2>3 DEF Invited
    <2> QED BY <2>3, <2>4, <2>5, <2>7, <2>8 DEF Agrees, Direct, Invitation, IsAttendee
  <1>2. AgreeInv => CopiesAgree
    BY <1>1
  <1> QED BY <1>2, AgreeInvariant, PTL
=============================================================================

----------------------------- MODULE Scheduling -----------------------------
(***************************************************************************)
(* Implicit scheduling: the hooks of CalendarCollection and ScheduleInbox  *)
(* (xandikos/web.py), delivery (xandikos/scheduling.py) and the messages   *)
(* (xandikos/itip.py), for one meeting: its organiser, local attendees     *)
(* with an inbox and a default calendar each, and remote ones.             *)
(*                                                                         *)
(* A PUT or DELETE first sends its messages and then stores its event.  It *)
(* gives the event loop away whenever a thread reads or writes a member,   *)
(* so two of them interleave between the steps below.  The command that    *)
(* takes mail in (import_imip.py) is another process and is one more call. *)
(* A store call is atomic here; TreeGitStore has its inside.               *)
(***************************************************************************)
EXTENDS Naturals, FiniteSets

CONSTANTS
  Calls,       \* requests that run at a time
  Organiser,
  Local,       \* attendees with an account
  Remote,      \* attendees that are reached by mail, if at all
  Absent,      \* no member; no entry in an event; nobody
  Imports,     \* the lists of attendees that an attendee may import
  MaxOps       \* bound on the requests

Users == {Organiser} \cup Local
Attendees == Local \cup Remote

VARIABLES
  copy,    \* [Users -> event or Absent]: the meeting in each user's calendar
  name,    \* [Users -> number]: the name that the member has or had there
  inbox,   \* [Users -> set of [method, what]]: the messages stored there
  mail,    \* replies of remote attendees, on their way for as long as we like
  call,    \* [Calls -> what a request is doing, or Idle]
  torn,    \* history: a request failed when it had delivered a message, or somebody
           \* had two requests of his own under way
  apart,   \* history: attendees whose answer the organiser may not know: it found no
           \* entry of theirs, met an invitation older than it or crossed one, or it is
           \* the answer to an invitation that another attendee sent
  imported, \* history: attendees that had no copy and have PUT one of their own, until
           \* they take in what the organiser sends
  ops

vars == <<copy, name, inbox, mail, call, torn, apart, imported, ops>>

\* PARTSTAT, and SCHEDULE-STATUS (2.0, 1.1, 5.1 and 3.7)
Parts == {"needsaction", "accepted", "declined"}
Codes == {"none", "success", "sent", "unavailable", "invalid"}
Entries == [part : Parts, status : Codes, from : Attendees \cup {Absent}]

\* what stands for all that belongs to the organiser: time, place, summary.
Events == [what : 1 .. MaxOps, cancelled : BOOLEAN, att : [Attendees -> Entries \cup {Absent}]]

Invited(e) == {a \in Attendees : e.att[a] # Absent}

Messages == [method : {"REQUEST", "CANCEL", "REPLY"}, event : Events, from : Users \cup Remote]

\* What a request is doing: op for user, who means the member of that name with
\* the content base.  It has to send todo; in "apply", message is in the inbox of
\* to, where it has found what stands under foundAs.
Requests ==
  [at : {"hook", "send", "apply", "store"}, op : {"put", "delete", "import"}, user : Users,
   base : Events \cup {Absent}, member : Nat, new : Events \cup {Absent},
   force : {"none", "look", "reply"}, todo : SUBSET ((Users \cup Remote) \X Messages),
   delivered : BOOLEAN, to : Users \cup {Absent}, message : Messages \cup {Absent},
   found : Events \cup {Absent}, foundAs : Nat]

Idle == [at |-> "idle"]

ASSUME PeopleAssumption ==
  /\ Organiser \notin Attendees /\ Local \cap Remote = {}
  /\ Absent \notin Users \cup Remote \cup Entries \cup Events
  /\ Absent \notin Messages \cup {[part |-> "masked"]}
  /\ MaxOps \in Nat /\ Imports \subseteq SUBSET Attendees

-----------------------------------------------------------------------------
(* The helpers of web.py and itip.py.                                      *)

\* extract_scheduling_signature.  mask loses its parameters, skip its entries.
Signature(e, mask, skip) ==
  [e EXCEPT !.att = [a \in Attendees |->
     IF a \in skip \/ e.att[a] = Absent THEN Absent
     ELSE IF a \in mask THEN [part |-> "masked"] ELSE e.att[a]]]

\* _delegates_of: the attendees that u has delegated to.
DelegatesOf(e, u) == {a \in Invited(e) : e.att[a].from = u}

\* _own_attendee_address, _organiser_attendees.  Only the organiser of this
\* meeting is its ORGANIZER.
IsAttendee(e, u) == u \in Invited(e)
OrganiserAttendees(e, u) == IF u = Organiser THEN Invited(e) ELSE {}

\* preserve_partstats: every answer that the old copy knows stays.
PreservePartstats(old, new) ==
  [new EXCEPT !.att = [a \in Attendees |->
     IF a \in Invited(old) \cap Invited(new)
       THEN [new.att[a] EXCEPT !.part = old.att[a].part] ELSE new.att[a]]]

\* build_itip_request, build_itip_cancel, build_itip_reply: a message.  Who has
\* sent it matters only for a reply, which names its sender alone.
Message(method, e, u) == [method |-> method, event |-> e, from |-> u]

\* What a method makes of the copy it finds: _apply_request, _apply_cancel and
\* _apply_reply.  Absent, or the same copy, means that nothing is written.
Applied(m, old) ==
  CASE m.method = "REQUEST" ->
         IF old = Absent THEN m.event ELSE PreservePartstats(old, m.event)
    [] m.method = "CANCEL" ->
         IF old = Absent THEN Absent ELSE [old EXCEPT !.cancelled = TRUE]
    [] m.method = "REPLY" ->
         IF old = Absent \/ m.from \notin Invited(m.event) THEN old
         ELSE IF old.att[m.from] = Absent THEN old
         ELSE [old EXCEPT !.att[m.from].part = m.event.att[m.from].part]

-----------------------------------------------------------------------------
Init ==
  /\ copy = [u \in Users |-> Absent]
  /\ name = [u \in Users |-> 0]
  /\ inbox = [u \in Users |-> {}]
  /\ mail = {}
  /\ call = [c \in Calls |-> Idle]
  /\ torn = FALSE
  /\ apart = {}
  /\ imported = {}
  /\ ops = 0

CountOp == ops < MaxOps /\ ops' = ops + 1

\* A request ends.  One that has delivered something and fails tears the copies
\* apart.
Succeed(c) ==
  /\ call' = [call EXCEPT ![c] = Idle]
  /\ UNCHANGED torn

Fail(c) ==
  /\ call' = [call EXCEPT ![c] = Idle]
  /\ torn' = (torn \/ call[c].delivered)

GoOn(c, next) ==
  /\ call' = [call EXCEPT ![c] = next]
  /\ UNCHANGED torn

-----------------------------------------------------------------------------
(* What clients send (external).                                           *)

Fresh == [part |-> "needsaction", status |-> "none", from |-> Absent]

\* An organiser's client makes a meeting, moves it, invites or drops somebody,
\* or sends it back as it is.
OrganiserEdits(e) ==
  IF e = Absent
    THEN {[what |-> ops + 1, cancelled |-> FALSE,
           att |-> [a \in Attendees |-> IF a \in s THEN Fresh ELSE Absent]]
            : s \in SUBSET Attendees}
    ELSE {e, [e EXCEPT !.what = ops + 1]}
           \cup {[e EXCEPT !.what = ops + 1,
                           !.att[a] = IF @ = Absent THEN Fresh ELSE Absent] : a \in Attendees}

\* An attendee's client answers, delegates, or tries to move the meeting.  Where
\* he has no copy it stores any: the hook has nothing to compare it with.
AttendeeEdits(e, u) ==
  IF e = Absent
    THEN {[what |-> ops + 1, cancelled |-> FALSE,
           att |-> [a \in Attendees |->
                      IF a \notin s THEN Absent
                      ELSE IF a = u THEN Fresh ELSE [Fresh EXCEPT !.from = f]]]
            : s \in Imports, f \in {Absent, u}}
  ELSE {e, [e EXCEPT !.what = ops + 1]}
         \cup (IF IsAttendee(e, u)
                 THEN {[e EXCEPT !.att[u].part = p] : p \in {"accepted", "declined"}} ELSE {})
         \cup {[e EXCEPT !.att[a] = IF a = u THEN Fresh ELSE [Fresh EXCEPT !.from = u]]
                  : a \in Attendees \ Invited(e)}

Edits(e, u) == IF u = Organiser THEN OrganiserEdits(e) ELSE AttendeeEdits(e, u)

-----------------------------------------------------------------------------
(* PUT and DELETE                                                          *)

\* _consume_force_send: what a SCHEDULE-FORCE-SEND on the entry of an attendee
\* makes the hook do.  Each makes it look at an event whose signature has not
\* changed; only a REPLY on the user's own entry makes it send the answer again.
ConsumeForceSend(attendee, mode, u) ==
  IF mode = "REPLY" /\ attendee = u THEN "reply" ELSE "look"

\* Request c is a PUT or DELETE of u.
OwnRequest(c, u) == call[c] # Idle /\ call[c].op # "import" /\ call[c].user = u

\* PutMethod and DeleteMethod look at the resource and its etag.
Begin(c, u, op, new, force) ==
  /\ CountOp
  /\ call[c] = Idle
  /\ call' = [call EXCEPT ![c] =
       [at |-> "hook", op |-> op, user |-> u, base |-> copy[u], member |-> name[u], new |-> new,
        force |-> force, todo |-> {}, delivered |-> FALSE, to |-> Absent, message |-> Absent,
        found |-> Absent, foundAs |-> 0]]
  /\ torn' = (torn \/ \E d \in Calls \ {c} : OwnRequest(d, u))
  /\ UNCHANGED <<copy, name, inbox, mail, apart, imported>>

BeginPut(c, u) ==
  \/ \E new \in Edits(copy[u], u) : Begin(c, u, "put", new, "none")
  \/ /\ copy[u] # Absent
     /\ \E a \in Invited(copy[u]), mode \in {"REQUEST", "REPLY"} :
          Begin(c, u, "put", copy[u], ConsumeForceSend(a, mode, u))

BeginDelete(c, u) ==
  copy[u] # Absent /\ Begin(c, u, "delete", Absent, "none")

\* Mutant of ToAttendees: attendees that were dropped are not told.
ToTheInvited(new, old) ==
  {<<a, Message("REQUEST", new, Organiser)>> : a \in Invited(new)}

\* _dispatch_organiser_put
ToAttendees(new, old) ==
  {<<a, Message("REQUEST", new, Organiser)>> : a \in Invited(new)}
    \cup (IF old = Absent THEN {}
          ELSE {<<a, Message("CANCEL", old, Organiser)>> : a \in Invited(old) \ Invited(new)})

\* _dispatch_attendee_put, with _partstat_changed
ToOrganiser(new, old, u, force) ==
  {<<a, Message("REQUEST", new, u)>> :
     a \in DelegatesOf(new, u) \ (IF old = Absent THEN {} ELSE DelegatesOf(old, u))}
    \cup (IF /\ IsAttendee(new, u) /\ old # Absent
             /\ force = "reply" \/ ~IsAttendee(old, u) \/ new.att[u].part # old.att[u].part
          THEN {<<Organiser, Message("REPLY", new, u)>>} ELSE {})

\* Mutant of Unauthorised: an attendee that is invited may change the event.
Authorised(new, old, u) == u # Organiser /\ ~IsAttendee(old, u)

\* _reject_unauthorised_attendee_change
Unauthorised(new, old, u) ==
  /\ u # Organiser /\ IsAttendee(old, u)
  /\ LET skip == DelegatesOf(new, u) \ DelegatesOf(old, u)
     IN Signature(new, {u}, skip) # Signature(old, {u}, skip)

\* get_member of the hooks: the old event is read again, under its name.
GetMember(r) == IF name[r.user] = r.member THEN copy[r.user] ELSE Absent

\* pre_put_hook up to the first message.
PrePutHook(c) ==
  LET r == call[c]
      old == GetMember(r)
  IN
  /\ r.at = "hook" /\ r.op = "put"
  /\ \/ /\ old # Absent /\ r.new = old /\ r.force = "none"
        /\ GoOn(c, [r EXCEPT !.at = "store"])
     \/ /\ old # Absent /\ (r.new # old \/ r.force # "none")
        /\ Unauthorised(r.new, old, r.user)
        /\ Fail(c)
     \/ /\ old # Absent => (r.new # old \/ r.force # "none") /\ ~Unauthorised(r.new, old, r.user)
        /\ GoOn(c, [r EXCEPT !.at = "send",
             !.todo = IF r.user = Organiser THEN ToAttendees(r.new, old)
                      ELSE ToOrganiser(r.new, old, r.user, r.force)])
  /\ UNCHANGED <<copy, name, inbox, mail, apart, imported, ops>>

\* pre_delete_hook up to the first message.
PreDeleteHook(c) ==
  LET r == call[c]
      old == GetMember(r)
  IN
  /\ r.at = "hook" /\ r.op = "delete"
  /\ GoOn(c, [r EXCEPT !.at = "send",
       !.todo = IF old = Absent THEN {}
                ELSE {<<a, Message("CANCEL", old, Organiser)>> :
                        a \in OrganiserAttendees(old, r.user)}])
  /\ UNCHANGED <<copy, name, inbox, mail, apart, imported, ops>>

\* _annotate_schedule_status on the event that will be stored, for the
\* attendees of that event.
Annotate(r, a, code) ==
  IF r.op = "put" /\ a \in Attendees /\ a \in Invited(r.new)
    THEN [r EXCEPT !.new.att[a].status = code] ELSE r

\* Mutant of DeliverToInbox: a store that refuses counts as a delivery.
DeliverCarelessly(c) ==
  LET r == call[c] IN
  /\ r.at = "send"
  /\ \E t \in r.todo :
       /\ t[1] \in Users
       /\ \/ /\ inbox' = [inbox EXCEPT ![t[1]] =
                  @ \cup {[method |-> t[2].method, what |-> t[2].event.what]}]
             /\ GoOn(c, [r EXCEPT !.at = "apply", !.todo = @ \ {t}, !.delivered = TRUE,
                                  !.to = t[1], !.message = t[2], !.found = copy[t[1]],
                                  !.foundAs = name[t[1]]])
          \/ /\ GoOn(c, Annotate([r EXCEPT !.todo = @ \ {t}], t[1], "success"))
             /\ UNCHANGED inbox
  /\ UNCHANGED <<copy, name, mail, apart, imported, ops>>

\* _find_calendar_member_by_uid in the default calendar
FindCalendarMember(u) == copy[u]

\* _replace_member_body and create_member: the copy must still be the one that
\* was found (replace_etag; a new member clashes with one that has the UID now).
\* A new member is given a name of its own: create_member(None, ...).
ReplaceMemberBody(r, new) ==
  \/ new = r.found /\ UNCHANGED <<copy, name>>
  \/ /\ new # r.found /\ copy[r.to] = r.found
     /\ r.found # Absent => name[r.to] = r.foundAs
     /\ copy' = [copy EXCEPT ![r.to] = new]
     /\ name' = IF r.found = Absent THEN [name EXCEPT ![r.to] = @ + 1] ELSE name

\* _deliver_status and deliver_to_inbox for somebody with an account: the
\* message is stored, and the copy that it is about is looked up
\* (post_create_member_hook, _find_calendar_member_by_uid).  Or the store
\* refuses, and the request with it.
DeliverToInbox(c) ==
  LET r == call[c] IN
  /\ r.at = "send"
  /\ \E t \in r.todo :
       /\ t[1] \in Users
       /\ \/ /\ inbox' = [inbox EXCEPT ![t[1]] =
                  @ \cup {[method |-> t[2].method, what |-> t[2].event.what]}]
             /\ GoOn(c, [r EXCEPT !.at = "apply", !.todo = @ \ {t}, !.delivered = TRUE,
                                  !.to = t[1], !.message = t[2], !.found = FindCalendarMember(t[1]),
                                  !.foundAs = name[t[1]]])
          \/ Fail(c) /\ UNCHANGED inbox
  /\ UNCHANGED <<copy, name, mail, apart, imported, ops>>

\* _send_via_imip: a transport that fails as it should fails the delivery only,
\* another exception (an OSError of STARTTLS) fails the request.
SendViaImip(c) ==
  LET r == call[c] IN
  /\ r.at = "send"
  /\ \E t \in r.todo, code \in {"sent", "unavailable", "invalid"} :
       /\ t[1] \in Remote
       /\ \/ GoOn(c, Annotate([r EXCEPT !.todo = @ \ {t}, !.delivered = @ \/ code = "sent"],
                              t[1], code))
          \/ code = "unavailable" /\ Fail(c)
  /\ UNCHANGED <<copy, name, inbox, mail, apart, imported, ops>>

\* The attendee that a message to u is about, and whether he and the organiser now
\* think alike of his answer.
Concerned(u, m) == IF m.method = "REPLY" THEN m.from ELSE u
Alike(m, result, a) ==
  /\ result # Absent /\ result.att[a] # Absent
  /\ a \in Invited(m.event) => result.att[a].part = m.event.att[a].part

\* Attendee a has told somebody of an event that he has yet to store.
Answering(a) == \E d \in Calls : OwnRequest(d, a) /\ call[d].delivered

\* Who is apart when u has taken in m and then has new, where old was.
Apart(u, m, old, new) ==
  LET a == Concerned(u, m) IN
  CASE m.method = "REPLY" -> IF Alike(m, new, a) THEN apart \ {a} ELSE apart \cup {a}
    [] m.method # "REPLY" /\ m.from = Organiser ->
         IF Alike(m, new, a) /\ ~Answering(a) THEN apart \ {a} ELSE apart \cup {a}
    [] m.method # "REPLY" /\ m.from # Organiser ->
         IF old = Absent THEN apart \cup {a} ELSE apart

\* Who may have a version of his own making when the message of r is taken in.
\* Nobody who then has what the organiser sends and is not about to change it.
Imported(r, new) ==
  IF /\ r.message.method = "REQUEST" /\ r.message.from = Organiser
     /\ new = Applied(r.message, r.found) /\ ~\E d \in Calls : OwnRequest(d, r.to)
    THEN imported \ {r.to} ELSE imported

\* The rest of post_create_member_hook.  What goes wrong goes wrong for the
\* request.
ApplyMessage(c) ==
  LET r == call[c]
      result == Applied(r.message, r.found)
  IN
  /\ r.at = "apply"
  /\ \/ /\ ReplaceMemberBody(r, result)
        /\ apart' = Apart(r.to, r.message, copy[r.to], copy'[r.to])
        /\ imported' = Imported(r, copy'[r.to])
        /\ GoOn(c, Annotate([r EXCEPT !.at = "send", !.to = Absent, !.message = Absent,
                                      !.found = Absent, !.foundAs = 0], r.to, "success"))
     \/ result # r.found /\ Fail(c) /\ UNCHANGED <<copy, name, apart, imported>>
  /\ UNCHANGED <<inbox, mail, ops>>

\* The hook has returned: set_body, create_member or delete_member, with the
\* etag of the beginning.
StoreOwn(c) ==
  LET r == call[c] IN
  /\ \/ r.at = "store"
     \/ r.at = "send" /\ r.todo = {} /\ r.op # "import"
  /\ \/ /\ name[r.user] = r.member /\ copy[r.user] = r.base
        /\ copy' = [copy EXCEPT ![r.user] = r.new]
        /\ imported' = IF r.base = Absent /\ r.user \in Local
                         THEN imported \cup {r.user} ELSE imported
        /\ Succeed(c)
     \/ UNCHANGED <<copy, imported>> /\ Fail(c)
  /\ UNCHANGED <<name, inbox, mail, apart, ops>>

-----------------------------------------------------------------------------
(* Mail                                                                    *)

\* A remote attendee that was invited answers (external).
RemoteReply(a, p) ==
  /\ CountOp
  /\ copy[Organiser] # Absent
  /\ copy[Organiser].att[a] # Absent /\ copy[Organiser].att[a].status = "sent"
  /\ mail' = mail \cup {Message("REPLY", [copy[Organiser] EXCEPT !.att[a].part = p], a)}
  /\ UNCHANGED <<copy, name, inbox, call, torn, apart, imported>>

\* import_imip puts a message into the inbox it is for, late or twice or never.
BeginImport(c) ==
  /\ CountOp
  /\ call[c] = Idle
  /\ \E m \in mail :
       call' = [call EXCEPT ![c] =
         [at |-> "send", op |-> "import", user |-> Organiser, base |-> Absent, new |-> Absent,
          member |-> 0, force |-> "none", todo |-> {<<Organiser, m>>}, delivered |-> FALSE,
          to |-> Absent, message |-> Absent, found |-> Absent, foundAs |-> 0]]
  /\ UNCHANGED <<copy, name, inbox, mail, torn, apart, imported>>

EndImport(c) ==
  /\ call[c].at = "send" /\ call[c].op = "import" /\ call[c].todo = {}
  /\ Succeed(c)
  /\ UNCHANGED <<copy, name, inbox, mail, apart, imported, ops>>

-----------------------------------------------------------------------------
Step(c) ==
  \/ PrePutHook(c) \/ PreDeleteHook(c) \/ DeliverToInbox(c) \/ SendViaImip(c)
  \/ ApplyMessage(c) \/ StoreOwn(c) \/ EndImport(c)

Next ==
  \/ \E c \in Calls :
       \/ \E u \in Users : BeginPut(c, u) \/ BeginDelete(c, u)
       \/ BeginImport(c)
       \/ Step(c)
  \/ \E a \in Remote, p \in {"accepted", "declined"} : RemoteReply(a, p)

Spec == Init /\ [][Next]_vars

-----------------------------------------------------------------------------
(* Properties *)

TypeOK ==
  /\ copy \in [Users -> Events \cup {Absent}]
  /\ name \in [Users -> Nat]
  /\ inbox \in [Users -> SUBSET [method : {"REQUEST", "CANCEL", "REPLY"}, what : 1 .. MaxOps]]
  /\ mail \subseteq Messages /\ \A m \in mail : m.method = "REPLY" /\ m.from \in Remote
  /\ call \in [Calls -> Requests \cup {Idle}]
  /\ \A c \in Calls :
       /\ call[c].at = "apply" => call[c].to \in Users /\ call[c].message \in Messages
       /\ call[c].at = "store" => call[c].op = "put"
       /\ call[c].at \in {"hook", "store"} => call[c].todo = {}
       /\ call[c] # Idle => (call[c].op = "put" <=> call[c].new # Absent)
  /\ torn \in BOOLEAN
  /\ apart \subseteq Attendees /\ imported \subseteq Local
  /\ ops \in 0 .. MaxOps

\* When nothing is under way, no request failed half-way and nobody had two of his
\* own at once, everybody has the same meeting: who is invited was sent the organiser's version and, unless he
\* has deleted it, has it; who is not has a cancelled copy or none; and the
\* organiser knows the answer of everybody who is not apart from him.  A delegate
\* hears from the attendee that named him, who may send him an older version than
\* the organiser's, or a cancelled one: no SEQUENCE, DTSTAMP or STATUS is compared.
\* Whoever has imported a version has that one until the organiser's next.
CopiesAgree ==
  (\A c \in Calls : call[c] = Idle) /\ ~torn =>
    \A a \in Local :
      LET own == copy[a]
          entry == copy[Organiser].att[a]
          invited == copy[Organiser] # Absent /\ entry # Absent
      IN
      /\ invited => [method |-> "REQUEST", what |-> copy[Organiser].what] \in inbox[a]
      /\ invited /\ own # Absent /\ a \notin imported =>
           /\ \/ own.what = copy[Organiser].what /\ ~own.cancelled
              \/ own.att[a].from # Absent
           /\ own.att[a].part = entry.part \/ a \in apart
      /\ own # Absent /\ ~own.cancelled /\ a \notin imported =>
           invited \/ (IsAttendee(own, a) /\ own.att[a].from # Absent)

\* "Attendees may only modify their own ATTENDEE entry": what an attendee has is
\* something that was sent to him, whatever he PUTs over it and whatever crosses
\* it.  The hook does not keep that promise where he has no copy (never had one or
\* has deleted it): what he stores there is his own until the organiser's next.
MeetingIsTheOrganisers ==
  \A a \in Local \ imported :
    copy[a] # Absent => [method |-> "REQUEST", what |-> copy[a].what] \in inbox[a]

\* A SCHEDULE-STATUS of success in the organiser's copy is true of the version
\* it stands in: the invitation is in the inbox, and it was applied.
StatusIsTrue ==
  copy[Organiser] # Absent =>
    \A a \in Attendees :
      copy[Organiser].att[a] # Absent /\ copy[Organiser].att[a].status = "success" =>
        /\ a \in Local
        /\ [method |-> "REQUEST", what |-> copy[Organiser].what] \in inbox[a]
-----------------------------------------------------------------------------
(* What the proofs of SchedulingProofs need besides.                       *)

Invitation(e) == [method |-> "REQUEST", what |-> e.what]

\* Local attendee a was sent this version, and it invites him.
Entitled(a, e) == a \in Invited(e) /\ Invitation(e) \in inbox[a]

CopiesAreEntitled ==
  \A a \in Local \ imported : copy[a] # Absent => Entitled(a, copy[a])

\* The member that a request of a user is about: later ones have later names.
MemberIsKnown(r) == r.op # "import" => r.member <= name[r.user]

\* A PUT of an attendee over what he was sent that has passed the hook: the member
\* is gone, or what it will store is something he was sent, too.
PutIsEntitled(r) ==
  r.at # "hook" /\ r.op = "put" /\ r.base # Absent /\ r.user \in Local \ imported =>
    \/ r.member # name[r.user] \/ copy[r.user] = Absent
    \/ Entitled(r.user, r.new)

\* Every message is to or of an attendee.  Invitations go to those they invite, and
\* to their inbox before their calendar.
MessagesAreForTheInvited(r) ==
  /\ \A t \in r.todo :
       /\ Concerned(t[1], t[2]) \in Attendees
       /\ t[2].method = "REQUEST" => t[1] \in Invited(t[2].event)
  /\ r.at = "apply" => Concerned(r.to, r.message) \in Attendees
  /\ r.at = "apply" /\ r.message.method = "REQUEST" =>
       r.to \in Local /\ Entitled(r.to, r.message.event)

\* An organiser's PUT sends invitations to the version it stores, and nothing
\* else to those it invites.
About(r, u, m) ==
  IF m.method = "REQUEST" THEN m.event.what = r.new.what ELSE u \notin Invited(r.new)

\* It annotates a success on those that have the invitation; the rest is yet to
\* come or is under way.
AnnotationsAreTrue(r) ==
  r.at # "hook" /\ r.op = "put" /\ r.user = Organiser =>
    /\ \A t \in r.todo : About(r, t[1], t[2])
    /\ r.at = "apply" => About(r, r.to, r.message)
    /\ \A a \in Invited(r.new) :
         \/ \E t \in r.todo : t[1] = a
         \/ r.at = "apply" /\ r.to = a
         \/ r.new.att[a].status = "success" =>
              a \in Local /\ Invitation(r.new) \in inbox[a]

RequestIsRight(r) ==
  /\ MemberIsKnown(r)
  /\ PutIsEntitled(r)
  /\ MessagesAreForTheInvited(r)
  /\ AnnotationsAreTrue(r)

Inv ==
  /\ TypeOK
  /\ CopiesAreEntitled
  /\ \A c \in Calls : call[c] # Idle => RequestIsRight(call[c])
  /\ StatusIsTrue
-----------------------------------------------------------------------------
(* What the proof of CopiesAgree needs besides.                            *)

Plain(e) == e # Absent => ~e.cancelled /\ \A a \in Invited(e) : e.att[a].from = Absent

SameMeeting(e, f) ==
  /\ e = Absent <=> f = Absent
  /\ e # Absent => e.what = f.what /\ Invited(e) = Invited(f)

\* The organiser's edit e of d keeps what it knows.
KeepsParts(e, d) ==
  e # Absent /\ d # Absent =>
    \A a \in Invited(e) \cap Invited(d) : e.att[a].part = d.att[a].part

\* What the organiser sends invites to the version it stores or cancels.
OrganiserSends(r, a, m) ==
  /\ m.from = Organiser /\ m.method \in {"REQUEST", "CANCEL"}
  /\ m.method = "CANCEL" => r.new = Absent \/ a \notin Invited(r.new)
  /\ m.method = "REQUEST" =>
       /\ r.new # Absent /\ a \in Invited(r.new)
       /\ m.event.what = r.new.what /\ ~m.event.cancelled
       /\ m.event.att[a].from = Absent /\ m.event.att[a].part = r.new.att[a].part

\* An attendee invites whom he delegates to, and tells the organiser his answer.
AttendeeSends(r, a, m) ==
  /\ r.new # Absent /\ m.from = r.user /\ m.method \in {"REQUEST", "REPLY"}
  /\ m.method = "REQUEST" => m.event.what = r.new.what /\ m.event.att[a].from # Absent
  /\ m.method = "REPLY" =>
       /\ a = Organiser /\ r.user \in Invited(m.event) /\ r.user \in Invited(r.new)
       /\ m.event.att[r.user].part = r.new.att[r.user].part

ImportSends(a, m) == a = Organiser /\ m.method = "REPLY" /\ m.from \in Remote

Sends(r, a, m) ==
  /\ r.op = "import" => ImportSends(a, m)
  /\ r.op # "import" /\ r.user = Organiser => OrganiserSends(r, a, m)
  /\ r.op # "import" /\ r.user # Organiser => AttendeeSends(r, a, m)

Waiting(r, a) == (\E t \in r.todo : t[1] = a) \/ (r.at = "apply" /\ r.to = a)

\* A message for everybody, and the invitation for those that do not have it.
OrganisersRequest(r) ==
  /\ Plain(r.base) /\ Plain(r.new) /\ KeepsParts(r.new, r.base)
  /\ \A s, t \in r.todo : s[1] = t[1] => s = t
  /\ r.at = "apply" => \A t \in r.todo : t[1] # r.to
  /\ r.at # "hook" /\ r.op = "put" =>
       \A a \in Local \cap Invited(r.new) :
         Invitation(r.new) \in inbox[a] \/ \E t \in r.todo : t[1] = a

\* An attendee's request about something that he was sent.
IsAbout(r) == r.base # Absent /\ r.user \notin imported

AttendeesRequest(r) ==
  LET u == r.user IN
  IsAbout(r) =>
    /\ u \in Invited(r.base)
    /\ r.op = "put" =>
         /\ u \in Invited(r.new)
         /\ r.new.cancelled = r.base.cancelled /\ r.new.att[u].from = r.base.att[u].from

\* A version of the meeting that nobody has but the client that made it.
MadeHere(c) ==
  LET r == call[c] IN
  /\ r.new # Absent => r.new.what <= ops
  /\ r.at = "hook" /\ r.op = "put" /\ (r.base = Absent \/ r.new.what # r.base.what) =>
       /\ \A u \in Users : copy[u] # Absent => copy[u].what # r.new.what
       /\ \A d \in Calls \ {c} :
            call[d] # Idle /\ call[d].new # Absent => call[d].new.what # r.new.what

\* What holds whether or not requests fail.
RequestsAreOrderly ==
  /\ Plain(copy[Organiser])
  /\ \A u \in Users : copy[u] # Absent => copy[u].what <= ops
  /\ copy[Organiser] # Absent =>
       \A a \in Local \cap Invited(copy[Organiser]) : Invitation(copy[Organiser]) \in inbox[a]
  /\ \A c \in Calls :
       call[c] # Idle =>
         /\ \A t \in call[c].todo : Sends(call[c], t[1], t[2])
         /\ call[c].at = "apply" => Sends(call[c], call[c].to, call[c].message)
         /\ OwnRequest(c, Organiser) => OrganisersRequest(call[c])
         /\ \A u \in Local : OwnRequest(c, u) => AttendeesRequest(call[c])
         /\ MadeHere(c)

Direct(e, a) == e # Absent /\ a \in Invited(e) /\ e.att[a].from = Absent

Telling(r) == r.at \in {"send", "apply"}

\* The organiser's request while none of his has failed.
OrganisersTurn(r) ==
  /\ r.member = name[Organiser]
  /\ SameMeeting(r.base, copy[Organiser])
  /\ r.at = "store" => SameMeeting(r.new, copy[Organiser])
  /\ Telling(r) /\ ~r.delivered =>
       /\ r.new # Absent => \A a \in Local \cap Invited(r.new) : Waiting(r, a)
       /\ copy[Organiser] # Absent =>
            \A a \in Local \cap Invited(copy[Organiser]) : Waiting(r, a)
  /\ r.at = "apply" /\ Direct(copy[r.to], r.to) /\ r.to \notin imported =>
       /\ Direct(r.found, r.to)
       /\ r.found.what = copy[r.to].what /\ r.found.cancelled = copy[r.to].cancelled

ReplyIsDue(r) ==
  \/ \E t \in r.todo : t[2].method = "REPLY"
  \/ r.at = "apply" /\ r.message.method = "REPLY"

Answered(r) ==
  r.op = "put" /\ r.base # Absent /\ r.at \in {"send", "apply", "store"} /\ ~ReplyIsDue(r)

\* The hook finds nothing to compare a request with, and has no answer to send.
FindsNothing(r) == r.member # name[r.user] \/ copy[r.user] = Absent

AttendeesTurn(r) ==
  LET u == r.user IN
  /\ r.base = Absent => (r.at = "hook" => FindsNothing(r)) /\ ~ReplyIsDue(r)
  /\ IsAbout(r) =>
       /\ r.member = name[u]
       /\ copy[u] # Absent /\ copy[u].att[u].part = r.base.att[u].part
       /\ r.at # "hook" /\ r.op = "put" => r.new.what = r.base.what
       /\ Answered(r) /\ ~r.delivered => r.new.att[u].part = r.base.att[u].part
       /\ \A s, t \in r.todo : s[2].method = "REPLY" /\ t[2].method = "REPLY" => s = t
       /\ r.at = "apply" /\ r.message.method = "REPLY" =>
            \A t \in r.todo : t[2].method # "REPLY"

\* The organiser's request c has told a what it will store.
Told(c, a) == OwnRequest(c, Organiser) /\ Telling(call[c]) /\ ~Waiting(call[c], a)

\* What a has is what e is, if it comes from the organiser.
Agrees(a, e) ==
  Direct(copy[a], a) =>
    IF e # Absent /\ a \in Invited(e) THEN copy[a].what = e.what /\ ~copy[a].cancelled
    ELSE copy[a].cancelled

VersionsAgree(a) ==
  /\ (\A c \in Calls : ~Told(c, a)) => Agrees(a, copy[Organiser])
  /\ \A c \in Calls : Told(c, a) => Agrees(a, call[c].new)

\* The organiser will know that p is the answer of a.
Knows(a, p) ==
  LET old == copy[Organiser]
      known == old # Absent /\ a \in Invited(old)
  IN
  /\ known /\ (\A c \in Calls : ~Told(c, a)) => p = old.att[a].part
  /\ \A c \in Calls :
       Told(c, a) /\ call[c].new # Absent /\ a \in Invited(call[c].new) =>
         IF known THEN old.att[a].part = call[c].base.att[a].part => p = old.att[a].part
         ELSE p = call[c].new.att[a].part

AnswersAreKnown(a) ==
  a \notin apart /\ copy[a] # Absent =>
    /\ (\A c \in Calls : OwnRequest(c, a) => ~Answered(call[c])) => Knows(a, copy[a].att[a].part)
    /\ \A c \in Calls :
         OwnRequest(c, a) /\ Answered(call[c]) => Knows(a, call[c].new.att[a].part)

\* What holds as long as no request has failed half-way.
RequestsFitTogether ==
  /\ \A c, d \in Calls, u \in Users : OwnRequest(c, u) /\ OwnRequest(d, u) => c = d
  /\ \A c \in Calls :
       /\ OwnRequest(c, Organiser) => OrganisersTurn(call[c])
       /\ \A u \in Local : OwnRequest(c, u) => AttendeesTurn(call[c])
       /\ call[c].at = "apply" => call[c].delivered
  /\ \A a \in Local \ imported : VersionsAgree(a) /\ AnswersAreKnown(a)

AgreeInv ==
  /\ Inv
  /\ RequestsAreOrderly
  /\ ~torn => RequestsFitTogether
=============================================================================

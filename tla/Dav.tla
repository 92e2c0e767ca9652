-------------------------------- MODULE Dav --------------------------------
(***************************************************************************)
(* Requests on collections (xandikos/webdav.py, web.py, fs.py) and the     *)
(* notifications they cause (xandikos/webdav_push.py).                     *)
(*                                                                         *)
(* One server answers requests as coroutines: a request runs alone until   *)
(* it waits for a file, for the rest of its body or for a push service,    *)
(* and other requests run meanwhile.  Requests that are refused at once    *)
(* change nothing and are left out.                                        *)
(*                                                                         *)
(* A collection holds the subscriptions to its changes in a file of its    *)
(* own; an index beside all collections remembers where each is.  Every    *)
(* change starts a round, a task that lists the subscriptions and calls    *)
(* the push service of each in turn.                                       *)
(***************************************************************************)
EXTENDS Naturals, FiniteSets

CONSTANTS
  Paths,     \* where collections may be
  Bodies,    \* contents of the one member a collection has; also its ETag
  Devices,   \* clients with a push service; a device is its push-resource
  Triggers,  \* [Devices -> SUBSET {"content", "property"}]: what it asked for
  Conns,     \* connections with a request on its way
  Absent,
  MaxOps,    \* bound on requests
  MaxTime,   \* bound on the clock
  Lifetime,  \* how long a subscription lasts that does not say until when
  Asked      \* times until when a device may ask to be subscribed

Ids == 1 .. MaxOps
Subscriptions == [id : Ids, expires : Nat]
Collections == [push : BOOLEAN, member : Bodies \cup {Absent},
                subs : [Devices -> Subscriptions \cup {Absent}]]
Promises == [id : Ids, path : Paths, expires : Nat]

ASSUME DavAssumption ==
  /\ Triggers \in [Devices -> SUBSET {"content", "property"}]
  /\ Absent \notin Paths \cup Bodies \cup Devices \cup Nat
                   \cup Subscriptions \cup Collections \cup Promises
  /\ MaxOps \in Nat /\ MaxTime \in Nat /\ Lifetime \in Nat \ {0} /\ Asked \subseteq Nat

VARIABLES
  coll,    \* [Paths -> collection or Absent]
  index,   \* SubscriptionIndex: [subscription ids -> path or Absent]
  req,     \* [Conns -> request under way, or Absent]
  rounds,  \* notify_subscribers tasks
  now, ops,
  ack,     \* [Devices -> the subscription it was last promised, or Absent]
  quit,    \* ids of which a device was told that they are no more
  spread,  \* history: ids whose file was moved or copied with its collection
  raced    \* history: devices that renewed, or whose collection moved, while a round
           \* held an older record

vars == <<coll, index, req, rounds, now, ops, ack, quit, spread, raced>>

Conditions == {"none", "new"} \cup Bodies  \* If-None-Match: *, or If-Match
Silent == {{}, Devices} \cup {{d} : d \in Devices}  \* Push-Dont-Notify

NoSubs == [d \in Devices |-> Absent]
Plain == [push |-> FALSE, member |-> Absent, subs |-> NoSubs]
Calendar == [Plain EXCEPT !.push = TRUE]

Init ==
  /\ coll \in {[p \in Paths |-> IF p = first THEN Calendar ELSE Absent] : first \in Paths}
  /\ index = [i \in Ids |-> Absent]
  /\ req = [k \in Conns |-> Absent]
  /\ rounds = {}
  /\ now = 0 /\ ops = 0
  /\ ack = [d \in Devices |-> Absent]
  /\ quit = {} /\ spread = {} /\ raced = {}

CountOp == ops < MaxOps /\ ops' = ops + 1

SubsOf(p) == {[dev |-> d, sub |-> coll[p].subs[d]] :
                d \in {e \in Devices : coll[p] # Absent /\ coll[p].subs[e] # Absent}}

-----------------------------------------------------------------------------
(* Rounds of notifications                                                 *)

\* The listener that install adds: what becomes of a change of a calendar or an
\* address book.  owed is history: who should be told.
Listener(p, kind, quiet) ==
  {[id |-> CHOOSE n \in Ids : \A o \in rounds : o.id # n, path |-> p, kind |-> kind,
    quiet |-> quiet, at |-> Absent, todo |-> {}, busy |-> Absent, tried |-> {},
    owed |-> {s \in SubsOf(p) : s.sub.expires > now /\ s.dev \notin quiet
                                /\ kind \in Triggers[s.dev]}]}

\* _dispatch_change: what the listener returns becomes a task.  The request had
\* the collection as q says when it began.
Dispatch(q, kind) ==
  \E quiet \in Silent :
    rounds' = IF q.push THEN rounds \cup Listener(q.path, kind, quiet) ELSE rounds

\* _is_suppressed, and the filter on triggers, which looks at property changes
\* only
IsSkipped(r, s) ==
  s.dev \in r.quiet \/ (r.kind = "property" /\ "property" \notin Triggers[s.dev])

IsExpired(s, at) == s.sub.expires <= at

\* Mutant of Passed: devices that are skipped end the round.
PassedAll(r, done) == IF done = {} THEN r.todo ELSE {}

\* What is left of a round when the subscriptions in done are behind it
Passed(r, done) == r.todo \ done

\* store.remove: the subscriptions of p without those in S
Without(p, S) ==
  IF coll[p] = Absent THEN coll
  ELSE [coll EXCEPT ![p].subs = [d \in Devices |->
         IF \E s \in S : coll[p].subs[d] # Absent /\ coll[p].subs[d].id = s.sub.id
         THEN Absent ELSE coll[p].subs[d]]]

\* The records that a round has read from the file and has yet to deal with
Held(r) == r.todo \cup ({r.busy} \ {Absent})

\* The body of the loop, up to the next call of a push service or the end:
\* expired subscriptions leave the file, others are passed over.  bad is the
\* subscription, if any, that leaves after the last delivery, and disowned the
\* one that the push service does not know any more.
Advance(r, bad, disowned) ==
  \E done \in SUBSET {s \in r.todo : IsExpired(s, r.at) \/ IsSkipped(r, s)} :
    LET left == Passed(r, done)
        evicted == {s \in done : IsExpired(s, r.at)} \cup bad
    IN
    /\ coll' = Without(r.path, evicted)
    /\ ack' = [d \in Devices |->
         IF ack[d] # Absent /\ \E s \in disowned \cap SubsOf(ack[d].path) : s.dev = d
         THEN Absent ELSE ack[d]]
    /\ \/ left = {} /\ rounds' = {o \in rounds : o.id # r.id}
       \/ \E s \in left :
            /\ ~IsExpired(s, r.at) /\ ~IsSkipped(r, s)
            /\ rounds' = {o \in rounds : o.id # r.id} \cup
                 {[r EXCEPT !.todo = left \ {s}, !.busy = s, !.tried = @ \cup {s}]}
    /\ UNCHANGED <<index, req, now, ops, quit, spread, raced>>

\* The task starts: it lists the subscriptions and asks for the time.
RoundStarts(r) == r.at = Absent /\ Advance([r EXCEPT !.at = now, !.todo = SubsOf(r.path)], {}, {})

\* Mutant of EvictsOn: whatever goes wrong ends a subscription.
EvictsOnFailure(status) == status # "sent"

\* 404 and 410 end a subscription; errors and exceptions are logged.
EvictsOn(status) == status = "gone"

\* The push service answers, and the round goes on.
Delivered(r, status) ==
  /\ r.busy # Absent
  /\ Advance([r EXCEPT !.busy = Absent], IF EvictsOn(status) THEN {r.busy} ELSE {},
             IF status = "gone" THEN {r.busy} ELSE {})

-----------------------------------------------------------------------------
(* Members                                                                 *)

\* If-Match and If-None-Match
Matches(cond, member) ==
  cond \in {"none", member} \/ (cond = "new" /\ member = Absent)

\* PUT and DELETE: the body is read and the preconditions hold; the hooks of the
\* collection, and then the store, are waited for.
BeginWrite(k) ==
  /\ CountOp
  /\ req[k] = Absent
  /\ \E p \in Paths, c \in Conditions :
       /\ coll[p] # Absent
       /\ Matches(c, coll[p].member)
       /\ req' = [req EXCEPT ![k] =
            [op |-> "write", cond |-> c, seen |-> coll[p].member,
             path |-> p, push |-> coll[p].push]]
  /\ UNCHANGED <<coll, index, rounds, now, ack, quit, spread, raced>>

\* Mutant of IsAsSeen: the ETag read before the wait is not given to the store.
IsAsSeenAlways(c, seen) == TRUE

\* set_body and delete_member give the store the ETag that was read before;
\* create_member looks whether the member is still missing.
IsAsSeen(c, seen) == c.member = seen

\* The store has done it, and the change is dispatched.  Otherwise the answer is
\* an error and nothing changed.
EndWrite(k) ==
  LET q == req[k] IN
  /\ q # Absent /\ q.op = "write"
  /\ req' = [req EXCEPT ![k] = Absent]
  /\ \/ /\ coll[q.path] # Absent /\ IsAsSeen(coll[q.path], q.seen)
        /\ \E body \in Bodies \cup (IF q.seen = Absent THEN {} ELSE {Absent}) :
             coll' = [coll EXCEPT ![q.path].member = body]
        /\ Dispatch(q, "content")
     \/ UNCHANGED <<coll, rounds>>
  /\ UNCHANGED <<index, now, ops, ack, quit, spread, raced>>

\* handle_post: a member is added under a name that nothing else has; of it only
\* the change is modelled.
AddMember(p) == Dispatch([path |-> p, push |-> coll[p].push], "content")

\* POST to a collection of something that is no push-register
Post ==
  /\ CountOp
  /\ \E p \in Paths : coll[p] # Absent /\ AddMember(p)
  /\ UNCHANGED <<coll, index, req, now, ack, quit, spread, raced>>

-----------------------------------------------------------------------------
(* Collections                                                             *)

\* MKCALENDAR sets the type of what it created at once.
Mkcalendar ==
  /\ CountOp
  /\ \E p \in Paths : coll[p] = Absent /\ coll' = [coll EXCEPT ![p] = Calendar]
  /\ UNCHANGED <<index, req, rounds, now, ack, quit, spread, raced>>

\* MKCOL creates the collection and then waits for the body.
BeginMkcol(k) ==
  /\ CountOp
  /\ req[k] = Absent
  /\ \E p \in Paths :
       /\ coll[p] = Absent
       /\ coll' = [coll EXCEPT ![p] = Plain]
       /\ req' = [req EXCEPT ![k] = [op |-> "props", path |-> p, push |-> FALSE]]
  /\ UNCHANGED <<index, rounds, now, ack, quit, spread, raced>>

\* PROPPATCH finds the collection and then waits for the body.
BeginProppatch(k) ==
  /\ CountOp
  /\ req[k] = Absent
  /\ \E p \in Paths :
       coll[p] # Absent /\ req' = [req EXCEPT ![k] = [op |-> "props", path |-> p, push |-> coll[p].push]]
  /\ UNCHANGED <<coll, index, rounds, now, ack, quit, spread, raced>>

\* set_resource_types: a calendar, or a type without notifications
Typed(c) == {[c EXCEPT !.push = push] : push \in BOOLEAN}

\* apply_modify_prop, for one property after the other: the collection gets a
\* type, or another property, and the display name, a change that is dispatched,
\* or is refused them: they are unknown, protected or not for this class.
ApplyProperties(q) ==
  /\ \E c \in {coll[q.path]} \cup Typed(coll[q.path]) : coll' = [coll EXCEPT ![q.path] = c]
  /\ Dispatch(q, "property") \/ UNCHANGED rounds

\* MKCOL and PROPPATCH with their bodies; a bad body leaves what there is.
EndProps(k) ==
  LET q == req[k] IN
  /\ q # Absent /\ q.op = "props"
  /\ req' = [req EXCEPT ![k] = Absent]
  /\ \/ coll[q.path] # Absent /\ ApplyProperties(q)
     \/ UNCHANGED <<coll, rounds>>
  /\ UNCHANGED <<index, now, ops, ack, quit, spread, raced>>

\* What devices may still count on when the collections at gone went and that
\* at p, if any, went to q
Kept(gone, p, q) ==
  [d \in Devices |->
    IF ack[d] = Absent THEN Absent
    ELSE IF ack[d].path = p THEN [ack[d] EXCEPT !.path = q]
    ELSE IF ack[d].path \in gone THEN Absent ELSE ack[d]]

\* DELETE of a collection; the index still has its subscriptions.
DeleteCollection ==
  /\ CountOp
  /\ \E p \in Paths :
       /\ coll[p] # Absent
       /\ coll' = [coll EXCEPT ![p] = Absent]
       /\ ack' = Kept({p}, Absent, Absent)
  /\ UNCHANGED <<index, req, rounds, now, quit, spread, raced>>

SubIds(p) == {s.sub.id : s \in SubsOf(p)}

\* History: what was owed to the subscribers of a collection that another takes
\* the place of is owed no more.
Released(q) == {[r EXCEPT !.owed = IF r.path = q THEN {} ELSE @] : r \in rounds}

\* History: devices of which a round at q holds an older record than p has
Outrun(p, q) ==
  {d \in Devices : \E r \in rounds : \E s \in Held(r) :
     r.path = q /\ s.dev = d /\ s.sub.id \in SubIds(p) /\ s \notin SubsOf(p)}

\* move_collection: what was at q is removed first; the file of subscriptions is
\* in the directory.
Moved(p, q) == [coll EXCEPT ![q] = coll[p], ![p] = Absent]

\* MOVE of a collection to another path; the index does not follow.
MoveCollection ==
  /\ CountOp
  /\ \E p, q \in Paths :
       /\ p # q /\ coll[p] # Absent
       /\ coll' = Moved(p, q)
       /\ ack' = Kept({q}, p, q)
       /\ spread' = spread \cup SubIds(p)
       /\ raced' = raced \cup Outrun(p, q)
       /\ rounds' = Released(q)
  /\ UNCHANGED <<index, req, now, quit>>

\* copy_collection, with everything in the directory
Copied(p, q) == [coll EXCEPT ![q] = coll[p]]

\* COPY of a collection: all of it, or with Depth: 0 a new collection in the
\* place of what was there
CopyCollection ==
  /\ CountOp
  /\ \E p, q \in Paths :
       /\ p # q /\ coll[p] # Absent
       /\ \/ coll' = Copied(p, q) /\ spread' = spread \cup SubIds(p)
          \/ coll' = [coll EXCEPT ![q] = Plain] /\ UNCHANGED spread
       /\ ack' = Kept({q}, Absent, Absent)
       /\ rounds' = Released(q)
  /\ UNCHANGED <<index, req, now, quit, raced>>

-----------------------------------------------------------------------------
(* Subscriptions                                                           *)

\* The id of the subscription that this push-resource has in the collection, or
\* a fresh one
IdFor(p, d) == IF coll[p].subs[d] # Absent THEN coll[p].subs[d].id ELSE ops'

\* parse_push_register: until when the device asks to be subscribed, if it says
\* so; without a trigger it is refused.
Requested(d) == IF Triggers[d] = {} THEN {} ELSE Asked \cup {Absent}

Expiry(asked) == IF asked = Absent THEN now + Lifetime ELSE asked

\* POST of push-register.  A device has one subscription at a time.
Register(d) ==
  /\ CountOp
  /\ \E p \in Paths, asked \in Requested(d) :
       LET sub == [id |-> IdFor(p, d), expires |-> Expiry(asked)] IN
       /\ coll[p] # Absent
       /\ ack[d] # Absent => ack[d].path = p
       /\ coll' = [coll EXCEPT ![p].subs[d] = sub]
       /\ index' = [index EXCEPT ![sub.id] = p]
       /\ ack' = [ack EXCEPT ![d] = [id |-> sub.id, path |-> p, expires |-> sub.expires]]
       /\ quit' = quit \ {sub.id}
  /\ raced' = IF \E r \in rounds : \E s \in Held(r) : s.dev = d
              THEN raced \cup {d} ELSE raced \ {d}
  /\ UNCHANGED <<req, rounds, now, spread>>

\* Mutant of FoundAt: a subscription that has expired counts as unknown.
FoundAtIfFresh(i) ==
  IF \E s \in SubsOf(index[i]) : s.sub.id = i /\ s.sub.expires > now THEN index[i] ELSE Absent

\* The path of a subscription that is in the index, as long as there is a
\* collection at that path
FoundAt(i) == IF index[i] # Absent /\ coll[index[i]] # Absent THEN index[i] ELSE Absent

\* DELETE of the subscription, at the address that the answer to its
\* registration gave: delete_subscription.  The answer is 204 or 404.
Unregister(d) ==
  /\ CountOp
  /\ ack[d] # Absent
  /\ LET i == ack[d].id
         p == FoundAt(i)
     IN
     /\ index' = [index EXCEPT ![i] = Absent]
     /\ coll' = IF p = Absent THEN coll ELSE Without(p, {s \in SubsOf(p) : s.sub.id = i})
     /\ quit' = quit \cup {i}
  /\ ack' = [ack EXCEPT ![d] = Absent]
  /\ UNCHANGED <<req, rounds, now, spread, raced>>

Tick ==
  /\ now < MaxTime /\ now' = now + 1
  /\ UNCHANGED <<coll, index, req, rounds, ops, ack, quit, spread, raced>>

-----------------------------------------------------------------------------
Next ==
  \/ \E r \in rounds : RoundStarts(r) \/ \E s \in {"sent", "failed", "gone"} : Delivered(r, s)
  \/ \E k \in Conns : BeginWrite(k) \/ EndWrite(k) \/ BeginMkcol(k)
                         \/ BeginProppatch(k) \/ EndProps(k)
  \/ \E d \in Devices : Register(d) \/ Unregister(d)
  \/ Post \/ Mkcalendar \/ DeleteCollection \/ MoveCollection \/ CopyCollection
  \/ Tick

Spec == Init /\ [][Next]_vars

-----------------------------------------------------------------------------
(* Properties *)

\* A PUT or DELETE that changes the member does so while its If-Match or
\* If-None-Match holds, though it was looked at before the hooks were run.
ConditionalWritesHold ==
  [][\A k \in Conns :
       req[k] # Absent /\ req'[k] = Absent /\ req[k].op = "write" /\ coll' # coll =>
         LET m == coll[req[k].path].member IN
         \/ req[k].cond \in {"none", m}
         \/ req[k].cond = "new" /\ m = Absent]_vars

\* A subscription that a device was promised is kept until it expires, the
\* device ends it, the push service disowns it or its collection goes: other
\* requests, failed deliveries and rounds that listed an older state of the file
\* do not end it; unless it was renewed, or its collection moved to the place of
\* another, just while a round held an older record of it.
PromisesAreKept ==
  \A d \in Devices :
    ack[d] # Absent /\ now < ack[d].expires /\ d \notin raced =>
      LET c == coll[ack[d].path] IN
      c # Absent /\ c.subs[d] # Absent /\ c.subs[d].id = ack[d].id

\* What a device was told is gone is in no file any more, unless its collection
\* was moved or copied with the file in it, which the index never learns.
GoneIsGone ==
  \A p \in Paths : quit \cap SubIds(p) \subseteq spread

\* When a round ends, everyone who was subscribed to the collection when it
\* changed, and still is, has been tried, whatever happened to the others; unless
\* a MOVE or COPY has put another collection into its place.
EveryoneIsTold ==
  [][\A r \in rounds :
       (\A o \in rounds' : o.id # r.id) =>
         \A s \in r.owed :
           \/ s.dev \in {t.dev : t \in r.tried}
           \/ coll'[r.path] = Absent
           \/ coll'[r.path].subs[s.dev] = Absent
           \/ coll'[r.path].subs[s.dev].id # s.sub.id]_vars

-----------------------------------------------------------------------------
(* The inductive invariant behind these properties.                        *)

Records == [dev : Devices, sub : Subscriptions]

Requests ==
  [op : {"write"}, cond : Conditions, seen : Bodies \cup {Absent}, path : Paths, push : BOOLEAN]
    \cup [op : {"props"}, path : Paths, push : BOOLEAN]

Rounds ==
  [id : Ids, path : Paths, kind : {"content", "property"}, quiet : SUBSET Devices,
   at : Nat \cup {Absent}, todo : SUBSET Records, busy : Records \cup {Absent},
   tried : SUBSET Records, owed : SUBSET Records]

TypeOK ==
  /\ coll \in [Paths -> Collections \cup {Absent}]
  /\ index \in [Ids -> Paths \cup {Absent}]
  /\ req \in [Conns -> Requests \cup {Absent}]
  /\ rounds \subseteq Rounds
  /\ now \in Nat /\ ops \in 0 .. MaxOps
  /\ ack \in [Devices -> Promises \cup {Absent}]

\* A write under way was let in by its precondition.
WritesWereAllowed ==
  \A k \in Conns : req[k] # Absent /\ req[k].op = "write" => Matches(req[k].cond, req[k].seen)

\* Rounds have ids of their own, and one is left for each request under way.
UnderWay == {k \in Conns : req[k] # Absent}

RoundsAreCounted ==
  /\ \A r, o \in rounds : r.id = o.id => r = o
  /\ IsFiniteSet(rounds) /\ IsFiniteSet(UnderWay)
  /\ Cardinality(rounds) + Cardinality(UnderWay) <= ops

\* Whose an id is: what files, rounds and promises say of it.
Known == UNION ({SubsOf(p) : p \in Paths} \cup {Held(r) \cup r.owed : r \in rounds})

Owners ==
  {<<s.sub.id, s.dev>> : s \in Known}
    \cup {<<ack[d].id, d>> : d \in {e \in Devices : ack[e] # Absent}}

IdsHaveOneOwner ==
  /\ \A x \in Owners : x[1] <= ops
  /\ \A x, y \in Owners : x[1] = y[1] => x[2] = y[2]

\* The index is right about what has not been moved or copied.
IndexIsRight == \A p \in Paths : \A i \in SubIds(p) : i \in spread \/ index[i] = p

\* The file says of a subscription what the device was told, and so do the
\* rounds that may take it out of the file.
HasPromised(d) ==
  LET c == coll[ack[d].path] IN c # Absent /\ c.subs[d] # Absent /\ c.subs[d].id = ack[d].id

PromisesAreTrue ==
  \A d \in Devices :
    ack[d] # Absent /\ HasPromised(d) =>
      /\ coll[ack[d].path].subs[d].expires = ack[d].expires
      /\ d \notin raced =>
           \A r \in rounds : \A s \in Held(r) :
             r.path = ack[d].path /\ s.dev = d /\ s.sub.id = ack[d].id =>
               s.sub.expires = ack[d].expires

\* Who is owed a message was tried, or will be, as long as he is subscribed.
NobodyIsForgotten ==
  \A r \in rounds :
    /\ r.at = Absent => r.todo = {} /\ r.busy = Absent
    /\ r.at # Absent => r.at <= now
    /\ r.busy # Absent => r.busy \in r.tried
    /\ \A s \in r.owed :
         /\ s.dev \notin r.quiet /\ r.kind \in Triggers[s.dev]
         /\ r.at # Absent /\ s.dev \notin {t.dev : t \in r.tried} =>
              \/ coll[r.path] = Absent
              \/ coll[r.path].subs[s.dev] = Absent
              \/ coll[r.path].subs[s.dev].id # s.sub.id
              \/ \E t \in r.todo : t.dev = s.dev /\ t.sub.id = s.sub.id

IInv ==
  /\ TypeOK /\ WritesWereAllowed /\ RoundsAreCounted /\ IdsHaveOneOwner /\ IndexIsRight
  /\ PromisesAreKept /\ GoneIsGone /\ PromisesAreTrue /\ NobodyIsForgotten
=============================================================================

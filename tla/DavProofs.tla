------------------------------ MODULE DavProofs ------------------------------
(***************************************************************************)
(* Proofs about Dav, for any number of collections, devices, connections   *)
(* and requests.                                                           *)
(***************************************************************************)
EXTENDS Dav, FiniteSetTheorems, TLAPS

-----------------------------------------------------------------------------
(* Collections and who is subscribed to them.                              *)

\* The subscription of a device in a collection, if there is one.
SubAt(p, d) == IF coll[p] = Absent THEN Absent ELSE coll[p].subs[d]

LEMMA Sorts ==
  /\ Absent \notin Paths /\ Absent \notin Bodies /\ Absent \notin Devices /\ Absent \notin Nat
  /\ Absent \notin Subscriptions /\ Absent \notin Collections /\ Absent \notin Promises
  BY DavAssumption

LEMMA NewCollections ==
  /\ Plain \in Collections /\ Calendar \in Collections
  /\ \A d \in Devices : Plain.subs[d] = Absent /\ Calendar.subs[d] = Absent
  BY DEF Plain, Calendar, NoSubs, Collections

LEMMA Listed ==
  ASSUME NEW p
  PROVE  /\ \A s : s \in SubsOf(p) <=> \E d \in Devices :
              SubAt(p, d) # Absent /\ s = [dev |-> d, sub |-> SubAt(p, d)]
         /\ \A s : s \in SubsOf(p)' <=> \E d \in Devices :
              SubAt(p, d)' # Absent /\ s = [dev |-> d, sub |-> SubAt(p, d)']
         /\ \A i : i \in SubIds(p) <=> \E d \in Devices :
              SubAt(p, d) # Absent /\ i = SubAt(p, d).id
         /\ \A i : i \in SubIds(p)' <=> \E d \in Devices :
              SubAt(p, d)' # Absent /\ i = SubAt(p, d)'.id
  <1>1. \A s : s \in SubsOf(p) <=> \E d \in Devices :
          SubAt(p, d) # Absent /\ s = [dev |-> d, sub |-> SubAt(p, d)]
    BY DEF SubAt, SubsOf
  <1>2. \A s : s \in SubsOf(p)' <=> \E d \in Devices :
          SubAt(p, d)' # Absent /\ s = [dev |-> d, sub |-> SubAt(p, d)']
    BY DEF SubAt, SubsOf
  <1>3. \A i : i \in SubIds(p) <=> \E d \in Devices :
          SubAt(p, d) # Absent /\ i = SubAt(p, d).id
    <2>1. \A i : i \in SubIds(p) <=> \E s \in SubsOf(p) : i = s.sub.id
      BY DEF SubIds
    <2>2. ASSUME NEW i, i \in SubIds(p)
          PROVE  \E d \in Devices : SubAt(p, d) # Absent /\ i = SubAt(p, d).id
      <3>1. PICK s \in SubsOf(p) : i = s.sub.id
        BY <2>1, <2>2
      <3>2. PICK d \in Devices : SubAt(p, d) # Absent /\ s = [dev |-> d, sub |-> SubAt(p, d)]
        BY <1>1, <3>1
      <3> QED
        BY <3>1, <3>2
    <2>3. ASSUME NEW d \in Devices, SubAt(p, d) # Absent
          PROVE  SubAt(p, d).id \in SubIds(p)
      <3>1. [dev |-> d, sub |-> SubAt(p, d)] \in SubsOf(p)
        BY <1>1, <2>3
      <3>2. [dev |-> d, sub |-> SubAt(p, d)].sub = SubAt(p, d)
        OBVIOUS
      <3> QED
        BY <2>1, <3>1, <3>2
    <2> QED
      BY <2>2, <2>3
  <1>4. \A i : i \in SubIds(p)' <=> \E d \in Devices :
          SubAt(p, d)' # Absent /\ i = SubAt(p, d)'.id
    <2>1. \A i : i \in SubIds(p)' <=> \E s \in SubsOf(p)' : i = s.sub.id
      BY DEF SubIds
    <2>2. ASSUME NEW i, i \in SubIds(p)'
          PROVE  \E d \in Devices : SubAt(p, d)' # Absent /\ i = SubAt(p, d)'.id
      <3>1. PICK s \in SubsOf(p)' : i = s.sub.id
        BY <2>1, <2>2
      <3>2. PICK d \in Devices : SubAt(p, d)' # Absent /\ s = [dev |-> d, sub |-> SubAt(p, d)']
        BY <1>2, <3>1
      <3> QED
        BY <3>1, <3>2
    <2>3. ASSUME NEW d \in Devices, SubAt(p, d)' # Absent
          PROVE  SubAt(p, d)'.id \in SubIds(p)'
      <3>1. [dev |-> d, sub |-> SubAt(p, d)'] \in SubsOf(p)'
        BY <1>2, <2>3
      <3>2. [dev |-> d, sub |-> SubAt(p, d)'].sub = SubAt(p, d)'
        OBVIOUS
      <3> QED
        BY <2>1, <3>1, <3>2
    <2> QED
      BY <2>2, <2>3
  <1> QED
    BY <1>1, <1>2, <1>3, <1>4

LEMMA SubTypes ==
  ASSUME TypeOK, NEW p \in Paths, NEW d \in Devices
  PROVE  SubAt(p, d) \in Subscriptions \cup {Absent}
  BY DEF TypeOK, SubAt, Collections

LEMMA SubTypesNext ==
  ASSUME TypeOK', NEW p \in Paths, NEW d \in Devices
  PROVE  SubAt(p, d)' \in Subscriptions \cup {Absent}
  BY DEF TypeOK, SubAt, Collections

LEMMA ListedTypes ==
  ASSUME TypeOK, NEW p \in Paths
  PROVE  SubsOf(p) \subseteq Records /\ SubIds(p) \subseteq Ids
  BY Listed, SubTypes DEF Records, Subscriptions

-----------------------------------------------------------------------------
(* Rounds have ids of their own.                                           *)

\* A round that a listener has just made.
IsFresh(r) ==
  /\ r \in Rounds
  /\ \A o \in rounds : o.id # r.id
  /\ r.at = Absent /\ r.todo = {} /\ r.busy = Absent
  /\ r.owed \subseteq SubsOf(r.path)
  /\ \A s \in r.owed : s.dev \notin r.quiet /\ r.kind \in Triggers[s.dev]

LEMMA AnIdIsLeft ==
  ASSUME IsFiniteSet(rounds), Cardinality(rounds) < MaxOps
  PROVE  \E n \in Ids : \A o \in rounds : o.id # n
  <1> SUFFICES ASSUME \A n \in Ids : \E o \in rounds : o.id = n PROVE FALSE
    OBVIOUS
  <1> DEFINE used == {o.id : o \in rounds}
             f == [o \in rounds |-> o.id]
  <1>1. f \in Surjection(rounds, used)
    BY DEF Surjection
  <1>2. IsFiniteSet(used) /\ Cardinality(used) <= Cardinality(rounds)
    <2> HIDE DEF f, used
    <2> QED
      BY <1>1, FS_Surjection
  <1>3. Ids \subseteq used
    OBVIOUS
  <1>4. MaxOps \in Nat /\ Cardinality(rounds) \in Nat /\ Cardinality(used) \in Nat
    BY <1>2, DavAssumption, FS_CardinalityType
  <1>5. Cardinality(Ids) = MaxOps
    BY <1>4, FS_Interval DEF Ids
  <1>6. Cardinality(Ids) <= Cardinality(used)
    BY <1>2, <1>3, FS_Subset
  <1> QED
    BY <1>2, <1>4, <1>5, <1>6

LEMMA ListenerIsFresh ==
  ASSUME TypeOK, IsFiniteSet(rounds), Cardinality(rounds) < MaxOps,
         NEW p \in Paths, NEW kind \in {"content", "property"}, NEW quiet \in Silent
  PROVE  \E r : IsFresh(r) /\ Listener(p, kind, quiet) = {r}
  <1> DEFINE n == CHOOSE n \in Ids : \A o \in rounds : o.id # n
             owed == {s \in SubsOf(p) : s.sub.expires > now /\ s.dev \notin quiet
                                /\ kind \in Triggers[s.dev]}
             r == [id |-> n, path |-> p, kind |-> kind, quiet |-> quiet, at |-> Absent,
                   todo |-> {}, busy |-> Absent, tried |-> {}, owed |-> owed]
  <1>1. n \in Ids /\ \A o \in rounds : o.id # n
    BY AnIdIsLeft
  <1>2. owed \subseteq SubsOf(p) /\ \A s \in owed : s.dev \notin quiet /\ kind \in Triggers[s.dev]
    OBVIOUS
  <1>3. quiet \in SUBSET Devices
    BY DEF Silent
  <1>4. Listener(p, kind, quiet) = {r}
    BY DEF Listener
  <1> HIDE DEF n, owed
  <1>5. owed \in SUBSET Records
    BY <1>2, ListedTypes
  <1>6. r \in Rounds
    BY <1>1, <1>3, <1>5 DEF Rounds
  <1>7. IsFresh(r)
    BY <1>1, <1>2, <1>6 DEF IsFresh
  <1> HIDE DEF r
  <1> QED
    BY <1>4, <1>7

-----------------------------------------------------------------------------
(* Requests that leave the subscriptions alone.                            *)

\* Nothing is dispatched, or one round begins.
RoundsGrow == rounds' = rounds \/ \E r : IsFresh(r) /\ rounds' = rounds \cup {r}

QuietStep ==
  /\ \A p \in Paths, d \in Devices : SubAt(p, d)' = SubAt(p, d)
  /\ UNCHANGED <<index, ack, quit, spread, raced>>
  /\ now' >= now /\ ops' >= ops
  /\ RoundsGrow

QuietAction ==
  \/ \E k \in Conns : BeginWrite(k) \/ EndWrite(k) \/ BeginMkcol(k) \/ BeginProppatch(k)
                        \/ EndProps(k)
  \/ Post \/ Mkcalendar \/ Tick \/ UNCHANGED vars

LEMMA DispatchIsFresh ==
  ASSUME TypeOK, IsFiniteSet(rounds), Cardinality(rounds) < MaxOps,
         NEW q, q.path \in Paths, NEW kind \in {"content", "property"}, Dispatch(q, kind)
  PROVE  RoundsGrow
  BY ListenerIsFresh DEF Dispatch, RoundsGrow

LEMMA CountedTypes ==
  ASSUME TypeOK, RoundsAreCounted
  PROVE  /\ Cardinality(rounds) \in Nat /\ Cardinality(UnderWay) \in Nat
         /\ ops \in Nat /\ MaxOps \in Nat /\ ops <= MaxOps
         /\ ops < MaxOps => Cardinality(rounds) < MaxOps
         /\ \A k \in UnderWay : Cardinality(rounds) < MaxOps
  <1>1. /\ Cardinality(rounds) \in Nat /\ Cardinality(UnderWay) \in Nat
        /\ ops \in Nat /\ MaxOps \in Nat /\ ops <= MaxOps
    BY FS_CardinalityType, DavAssumption DEF TypeOK, RoundsAreCounted
  <1>2. ASSUME NEW k \in UnderWay PROVE Cardinality(UnderWay) # 0
    BY <1>2, FS_EmptySet DEF RoundsAreCounted
  <1> QED
    BY <1>1, <1>2 DEF RoundsAreCounted

LEMMA CollStays ==
  ASSUME TypeOK, NEW p \in Paths, NEW c \in Collections, coll' = [coll EXCEPT ![p] = c],
         \A d \in Devices : c.subs[d] = SubAt(p, d)
  PROVE  /\ coll' \in [Paths -> Collections \cup {Absent}]
         /\ \A q \in Paths, d \in Devices : SubAt(q, d)' = SubAt(q, d)
  <1>1. coll' \in [Paths -> Collections \cup {Absent}] /\ coll'[p] = c
        /\ \A q \in Paths \ {p} : coll'[q] = coll[q]
    BY DEF TypeOK
  <1> QED
    BY <1>1, Sorts DEF SubAt

LEMMA RequestsStay ==
  ASSUME TypeOK, NEW k \in Conns, NEW q \in Requests \cup {Absent}, req' = [req EXCEPT ![k] = q]
  PROVE  /\ req' \in [Conns -> Requests \cup {Absent}]
         /\ WritesWereAllowed /\ (q # Absent /\ q.op = "write" => Matches(q.cond, q.seen)) => WritesWereAllowed'
  <1>1. req' \in [Conns -> Requests \cup {Absent}]
    BY DEF TypeOK
  <1>2. req'[k] = q /\ \A j \in Conns \ {k} : req'[j] = req[j]
    BY DEF TypeOK
  <1> QED
    BY <1>1, <1>2 DEF WritesWereAllowed, Matches

LEMMA FreshTypes ==
  ASSUME TypeOK, RoundsGrow
  PROVE  rounds' \subseteq Rounds
  BY DEF TypeOK, RoundsGrow, IsFresh

LEMMA OpsGrow ==
  ASSUME TypeOK, CountOp
  PROVE  ops' \in 0 .. MaxOps /\ ops' = ops + 1 /\ ops \in Nat /\ ops < MaxOps /\ ops' >= ops
  BY DavAssumption DEF TypeOK, CountOp

LEMMA QuietActions ==
  ASSUME IInv, QuietAction
  PROVE  TypeOK' /\ QuietStep /\ WritesWereAllowed'
  <1> USE DEF IInv
  <1>1. /\ TypeOK /\ RoundsAreCounted /\ WritesWereAllowed /\ IsFiniteSet(rounds)
        /\ req \in [Conns -> Requests \cup {Absent}] /\ coll \in [Paths -> Collections \cup {Absent}]
        /\ now \in Nat /\ ops \in Nat
    BY DavAssumption DEF TypeOK, RoundsAreCounted
  <1>2. ASSUME NEW k \in Conns, BeginWrite(k) PROVE TypeOK' /\ QuietStep /\ WritesWereAllowed'
    <2>1. PICK p \in Paths, c \in Conditions :
            /\ coll[p] # Absent
            /\ Matches(c, coll[p].member)
            /\ req' = [req EXCEPT ![k] =
                 [op |-> "write", cond |-> c, seen |-> coll[p].member,
                  path |-> p, push |-> coll[p].push]]
      BY <1>2 DEF BeginWrite
    <2> DEFINE q == [op |-> "write", cond |-> c, seen |-> coll[p].member,
                     path |-> p, push |-> coll[p].push]
    <2>2. q \in Requests /\ q.cond = c /\ q.seen = coll[p].member
      BY <1>1, <2>1 DEF Requests, Collections
    <2>3. req' = [req EXCEPT ![k] = q] /\ Matches(q.cond, q.seen)
      BY <2>1
    <2> HIDE DEF q
    <2>4. req' \in [Conns -> Requests \cup {Absent}] /\ WritesWereAllowed'
      BY <1>1, <2>2, <2>3, RequestsStay
    <2> QED
      BY <1>1, <1>2, <2>4, OpsGrow DEF BeginWrite, TypeOK, QuietStep, RoundsGrow, SubAt
  <1>3. ASSUME NEW k \in Conns, BeginProppatch(k) PROVE TypeOK' /\ QuietStep /\ WritesWereAllowed'
    <2>1. PICK p \in Paths :
            /\ coll[p] # Absent
            /\ req' = [req EXCEPT ![k] = [op |-> "props", path |-> p, push |-> coll[p].push]]
      BY <1>3 DEF BeginProppatch
    <2> DEFINE q == [op |-> "props", path |-> p, push |-> coll[p].push]
    <2>2. q \in Requests /\ q.op # "write"
      BY <1>1, <2>1 DEF Requests, Collections
    <2>3. req' = [req EXCEPT ![k] = q]
      BY <2>1
    <2> HIDE DEF q
    <2>4. req' \in [Conns -> Requests \cup {Absent}] /\ WritesWereAllowed'
      BY <1>1, <2>2, <2>3, RequestsStay
    <2> QED
      BY <1>1, <1>3, <2>4, OpsGrow DEF BeginProppatch, TypeOK, QuietStep, RoundsGrow, SubAt
  <1>4. ASSUME NEW k \in Conns, BeginMkcol(k) PROVE TypeOK' /\ QuietStep /\ WritesWereAllowed'
    <2>1. PICK p \in Paths :
            /\ coll[p] = Absent
            /\ coll' = [coll EXCEPT ![p] = Plain]
            /\ req' = [req EXCEPT ![k] = [op |-> "props", path |-> p, push |-> FALSE]]
      BY <1>4 DEF BeginMkcol
    <2> DEFINE q == [op |-> "props", path |-> p, push |-> FALSE]
    <2>2. q \in Requests /\ q.op # "write"
      BY DEF Requests
    <2>3. req' = [req EXCEPT ![k] = q]
      BY <2>1
    <2> HIDE DEF q
    <2>4. req' \in [Conns -> Requests \cup {Absent}] /\ WritesWereAllowed'
      BY <1>1, <2>2, <2>3, RequestsStay
    <2>5. \A d \in Devices : Plain.subs[d] = SubAt(p, d)
      BY <2>1, NewCollections DEF SubAt
    <2>6. /\ coll' \in [Paths -> Collections \cup {Absent}]
          /\ \A o \in Paths, d \in Devices : SubAt(o, d)' = SubAt(o, d)
      BY <1>1, <2>1, <2>5, NewCollections, CollStays
    <2> QED
      BY <1>1, <1>4, <2>4, <2>6, OpsGrow DEF BeginMkcol, TypeOK, QuietStep, RoundsGrow
  <1>5. ASSUME NEW k \in Conns, EndWrite(k) PROVE TypeOK' /\ QuietStep /\ WritesWereAllowed'
    <2>1. /\ req[k] # Absent /\ req[k].op = "write" /\ req[k] \in Requests
          /\ req' = [req EXCEPT ![k] = Absent] /\ k \in UnderWay
      BY <1>1, <1>5 DEF EndWrite, UnderWay
    <2>2. req[k].path \in Paths /\ req[k].seen \in Bodies \cup {Absent}
      BY <2>1 DEF Requests
    <2>3. req' \in [Conns -> Requests \cup {Absent}] /\ WritesWereAllowed'
      BY <1>1, <2>1, RequestsStay
    <2>4. RoundsGrow
      BY <1>1, <1>5, <2>1, <2>2, CountedTypes, DispatchIsFresh DEF EndWrite, RoundsGrow
    <2>5. /\ coll' \in [Paths -> Collections \cup {Absent}]
          /\ \A o \in Paths, d \in Devices : SubAt(o, d)' = SubAt(o, d)
      <3>1. CASE UNCHANGED coll
        BY <1>1, <3>1 DEF SubAt
      <3>2. ASSUME NEW body \in Bodies \cup {Absent}, coll[req[k].path] # Absent,
                   coll' = [coll EXCEPT ![req[k].path].member = body]
            PROVE  /\ coll' \in [Paths -> Collections \cup {Absent}]
                   /\ \A o \in Paths, d \in Devices : SubAt(o, d)' = SubAt(o, d)
        <4> DEFINE p == req[k].path
                   c == [coll[p] EXCEPT !.member = body]
        <4>1. c \in Collections /\ c.subs = coll[p].subs /\ coll' = [coll EXCEPT ![p] = c]
          BY <1>1, <2>2, <3>2 DEF Collections
        <4>2. \A d \in Devices : c.subs[d] = SubAt(p, d)
          BY <3>2, <4>1 DEF SubAt
        <4>3. p \in Paths
          BY <2>2
        <4> HIDE DEF p, c
        <4> QED
          BY <1>1, <4>1, <4>2, <4>3, CollStays
      <3> QED
        BY <1>5, <2>2, <3>1, <3>2 DEF EndWrite
    <2> QED
      BY <1>1, <1>5, <2>3, <2>4, <2>5, FreshTypes DEF EndWrite, TypeOK, QuietStep
  <1>6. ASSUME NEW k \in Conns, EndProps(k) PROVE TypeOK' /\ QuietStep /\ WritesWereAllowed'
    <2>1. /\ req[k] # Absent /\ req[k] \in Requests
          /\ req' = [req EXCEPT ![k] = Absent] /\ k \in UnderWay
      BY <1>1, <1>6 DEF EndProps, UnderWay
    <2>2. req[k].path \in Paths
      BY <2>1 DEF Requests
    <2>3. req' \in [Conns -> Requests \cup {Absent}] /\ WritesWereAllowed'
      BY <1>1, <2>1, RequestsStay
    <2>4. RoundsGrow
      BY <1>1, <1>6, <2>1, <2>2, CountedTypes, DispatchIsFresh
      DEF EndProps, ApplyProperties, RoundsGrow
    <2>5. /\ coll' \in [Paths -> Collections \cup {Absent}]
          /\ \A o \in Paths, d \in Devices : SubAt(o, d)' = SubAt(o, d)
      <3>1. CASE UNCHANGED coll
        BY <1>1, <3>1 DEF SubAt
      <3>2. ASSUME NEW c \in {coll[req[k].path]} \cup Typed(coll[req[k].path]),
                   coll[req[k].path] # Absent, coll' = [coll EXCEPT ![req[k].path] = c]
            PROVE  /\ coll' \in [Paths -> Collections \cup {Absent}]
                   /\ \A o \in Paths, d \in Devices : SubAt(o, d)' = SubAt(o, d)
        <4>1. c \in Collections /\ c.subs = coll[req[k].path].subs
          BY <1>1, <2>2, <3>2 DEF Collections, Typed
        <4> QED
          BY <1>1, <2>2, <3>2, <4>1, CollStays DEF SubAt
      <3> QED
        BY <1>6, <2>2, <3>1, <3>2 DEF EndProps, ApplyProperties
    <2> QED
      BY <1>1, <1>6, <2>3, <2>4, <2>5, FreshTypes DEF EndProps, TypeOK, QuietStep
  <1>7. CASE Post
    <2>1. PICK p \in Paths : Dispatch([path |-> p, push |-> coll[p].push], "content")
      BY <1>7 DEF Post, AddMember
    <2>2. RoundsGrow
      <3> DEFINE q == [path |-> p, push |-> coll[p].push]
      <3>1. q.path \in Paths /\ Dispatch(q, "content")
        BY <2>1
      <3> HIDE DEF q
      <3> QED
        BY <1>1, <1>7, <3>1, OpsGrow, CountedTypes, DispatchIsFresh DEF Post
    <2> QED
      BY <1>1, <1>7, <2>2, OpsGrow, FreshTypes
      DEF Post, TypeOK, QuietStep, SubAt, WritesWereAllowed, Matches
  <1>8. CASE Mkcalendar
    <2>1. PICK p \in Paths : coll[p] = Absent /\ coll' = [coll EXCEPT ![p] = Calendar]
      BY <1>8 DEF Mkcalendar
    <2>2. \A d \in Devices : Calendar.subs[d] = SubAt(p, d)
      BY <2>1, NewCollections DEF SubAt
    <2>3. /\ coll' \in [Paths -> Collections \cup {Absent}]
          /\ \A o \in Paths, d \in Devices : SubAt(o, d)' = SubAt(o, d)
      BY <1>1, <2>1, <2>2, NewCollections, CollStays
    <2> QED
      BY <1>1, <1>8, <2>3, OpsGrow
      DEF Mkcalendar, TypeOK, QuietStep, RoundsGrow, WritesWereAllowed, Matches
  <1>9. CASE Tick
    BY <1>1, <1>9 DEF Tick, TypeOK, QuietStep, RoundsGrow, WritesWereAllowed, Matches, SubAt
  <1>10. CASE UNCHANGED vars
    BY <1>1, <1>10 DEF vars, TypeOK, QuietStep, RoundsGrow, WritesWereAllowed, Matches, SubAt
  <1> QED
    BY <1>2, <1>3, <1>4, <1>5, <1>6, <1>7, <1>8, <1>9, <1>10 DEF QuietAction

-----------------------------------------------------------------------------
(* Whose an id is.                                                         *)

LEMMA KnownFrom ==
  /\ \A s : s \in Known <=>
       \/ \E p \in Paths : s \in SubsOf(p)
       \/ \E r \in rounds : s \in Held(r) \/ s \in r.owed
  /\ \A s : s \in Known' <=>
       \/ \E p \in Paths : s \in SubsOf(p)'
       \/ \E r \in rounds' : s \in Held(r) \/ s \in r.owed
  <1>1. \A s : s \in Known <=>
          \/ \E p \in Paths : s \in SubsOf(p)
          \/ \E r \in rounds : s \in Held(r) \/ s \in r.owed
    BY DEF Known
  <1>2. \A s : s \in Known' <=>
          \/ \E p \in Paths : s \in SubsOf(p)'
          \/ \E r \in rounds' : s \in Held(r) \/ s \in r.owed
    <2>1. Known' = UNION ({SubsOf(p)' : p \in Paths} \cup {Held(r) \cup r.owed : r \in rounds'})
      BY DEF Known, Held
    <2> QED
      BY <2>1
  <1> QED
    BY <1>1, <1>2

LEMMA HeldTypes ==
  ASSUME NEW r \in Rounds
  PROVE  Held(r) \subseteq Records /\ r.owed \subseteq Records
  BY DEF Held, Rounds

LEMMA KnownTypes ==
  ASSUME TypeOK
  PROVE  Known \subseteq Records
  BY KnownFrom, ListedTypes, HeldTypes DEF TypeOK

LEMMA OwnersFrom ==
  /\ \A s \in Known : <<s.sub.id, s.dev>> \in Owners
  /\ \A d \in Devices : ack[d] # Absent => <<ack[d].id, d>> \in Owners
  /\ \A x \in Owners : \/ \E s \in Known : x = <<s.sub.id, s.dev>>
                       \/ \E d \in Devices : ack[d] # Absent /\ x = <<ack[d].id, d>>
  /\ \A x \in Owners' : \/ \E s \in Known' : x = <<s.sub.id, s.dev>>
                        \/ \E d \in Devices : ack'[d] # Absent /\ x = <<ack'[d].id, d>>
  <1>1. \A x \in Owners : \/ \E s \in Known : x = <<s.sub.id, s.dev>>
                          \/ \E d \in Devices : ack[d] # Absent /\ x = <<ack[d].id, d>>
    BY DEF Owners
  <1>2. \A x \in Owners' : \/ \E s \in Known' : x = <<s.sub.id, s.dev>>
                           \/ \E d \in Devices : ack'[d] # Absent /\ x = <<ack'[d].id, d>>
    BY DEF Owners
  <1>3. /\ \A s \in Known : <<s.sub.id, s.dev>> \in Owners
        /\ \A d \in Devices : ack[d] # Absent => <<ack[d].id, d>> \in Owners
    BY DEF Owners
  <1> QED
    BY <1>1, <1>2, <1>3

LEMMA OwnersTypes ==
  ASSUME TypeOK
  PROVE  Owners \subseteq Ids \X Devices
  <1>1. ASSUME NEW x \in Owners PROVE x \in Ids \X Devices
    <2>1. ASSUME NEW s \in Known, x = <<s.sub.id, s.dev>> PROVE x \in Ids \X Devices
      <3>1. s \in Records
        BY KnownTypes
      <3>2. s.sub.id \in Ids /\ s.dev \in Devices
        BY <3>1 DEF Records, Subscriptions
      <3> QED
        BY <2>1, <3>2
    <2>2. ASSUME NEW d \in Devices, ack[d] # Absent, x = <<ack[d].id, d>>
          PROVE  x \in Ids \X Devices
      BY <2>2 DEF TypeOK, Promises
    <2> QED
      BY <1>1, <2>1, <2>2, OwnersFrom
  <1> QED
    BY <1>1

\* What one owner means, in the words the other proofs use.
LEMMA OneOwner ==
  ASSUME TypeOK, IdsHaveOneOwner
  PROVE  /\ \A s, t \in Known : s.sub.id = t.sub.id => s.dev = t.dev
         /\ \A s \in Known, d \in Devices : ack[d] # Absent /\ s.sub.id = ack[d].id => s.dev = d
         /\ \A d, e \in Devices :
              ack[d] # Absent /\ ack[e] # Absent /\ ack[d].id = ack[e].id => d = e
         /\ \A s \in Known : s.sub.id \in Nat /\ s.sub.id <= ops
         /\ \A d \in Devices : ack[d] # Absent => ack[d].id \in Nat /\ ack[d].id <= ops
  <1>1. /\ \A s \in Known : <<s.sub.id, s.dev>> \in Owners
        /\ \A d \in Devices : ack[d] # Absent => <<ack[d].id, d>> \in Owners
    BY OwnersFrom
  <1>2. ASSUME NEW i, NEW d, <<i, d>> \in Owners PROVE i \in Nat /\ i <= ops
    <2>1. i \in Nat
      BY <1>2, OwnersTypes DEF Ids
    <2> QED
      BY <1>2, <2>1 DEF IdsHaveOneOwner
  <1>3. ASSUME NEW i, NEW d, NEW e, <<i, d>> \in Owners, <<i, e>> \in Owners PROVE d = e
    BY <1>3 DEF IdsHaveOneOwner
  <1>4. ASSUME NEW s \in Known, NEW t \in Known, s.sub.id = t.sub.id PROVE s.dev = t.dev
    <2>1. <<s.sub.id, s.dev>> \in Owners /\ <<s.sub.id, t.dev>> \in Owners
      BY <1>1, <1>4
    <2> QED
      BY <1>3, <2>1
  <1>5. ASSUME NEW s \in Known, NEW d \in Devices, ack[d] # Absent, s.sub.id = ack[d].id
        PROVE  s.dev = d
    <2>1. <<s.sub.id, s.dev>> \in Owners /\ <<s.sub.id, d>> \in Owners
      BY <1>1, <1>5
    <2> QED
      BY <1>3, <2>1
  <1>6. ASSUME NEW d \in Devices, NEW e \in Devices,
               ack[d] # Absent, ack[e] # Absent, ack[d].id = ack[e].id
        PROVE  d = e
    <2>1. <<ack[d].id, d>> \in Owners /\ <<ack[d].id, e>> \in Owners
      BY <1>1, <1>6
    <2> QED
      BY <1>3, <2>1
  <1>7. ASSUME NEW s \in Known PROVE s.sub.id \in Nat /\ s.sub.id <= ops
    <2>1. <<s.sub.id, s.dev>> \in Owners
      BY <1>1
    <2> QED
      BY <1>2, <2>1
  <1>8. ASSUME NEW d \in Devices, ack[d] # Absent PROVE ack[d].id \in Nat /\ ack[d].id <= ops
    <2>1. <<ack[d].id, d>> \in Owners
      BY <1>1, <1>8
    <2> QED
      BY <1>2, <2>1
  <1> QED
    BY <1>4, <1>5, <1>6, <1>7, <1>8

LEMMA OwnersStay ==
  ASSUME TypeOK, IdsHaveOneOwner, TypeOK', ops' >= ops, Known' \subseteq Known,
         \A d \in Devices : ack'[d] # Absent => ack[d] # Absent /\ ack'[d].id = ack[d].id
  PROVE  IdsHaveOneOwner'
  <1>1. Owners' \subseteq Owners
    BY OwnersFrom
  <1>2. \A x \in Owners : x[1] \in Nat /\ x[1] <= ops
    BY OwnersTypes DEF Ids, IdsHaveOneOwner
  <1>3. ops \in Nat /\ ops' \in Nat
    BY DavAssumption DEF TypeOK
  <1> QED
    BY <1>1, <1>2, <1>3 DEF IdsHaveOneOwner

-----------------------------------------------------------------------------
(* What quiet steps keep.                                                  *)

LEMMA QuietKeeps ==
  ASSUME IInv, TypeOK', QuietStep
  PROVE  /\ IdsHaveOneOwner' /\ IndexIsRight' /\ PromisesAreKept' /\ GoneIsGone'
         /\ PromisesAreTrue' /\ NobodyIsForgotten'
  <1> USE DEF IInv
  <1>1. /\ \A p \in Paths, d \in Devices : SubAt(p, d)' = SubAt(p, d)
        /\ UNCHANGED <<index, ack, quit, spread, raced>>
        /\ now' >= now /\ ops' >= ops /\ RoundsGrow
    BY DEF QuietStep
  <1>2. ASSUME NEW p \in Paths PROVE SubsOf(p)' = SubsOf(p) /\ SubIds(p)' = SubIds(p)
    <2>1. \A s : s \in SubsOf(p)' <=> s \in SubsOf(p)
      BY <1>1, Listed
    <2>2. \A i : i \in SubIds(p)' <=> i \in SubIds(p)
      BY <1>1, Listed
    <2> QED
      BY <2>1, <2>2
  <1>3. /\ now \in Nat /\ now' \in Nat /\ rounds \subseteq Rounds
        /\ ack \in [Devices -> Promises \cup {Absent}]
    BY DEF TypeOK
  <1>4. \A r \in rounds' : r \in rounds \/ IsFresh(r)
    BY <1>1 DEF RoundsGrow
  <1>5. \A r \in rounds' : r \in rounds \/ Held(r) = {}
    BY <1>4 DEF IsFresh, Held
  <1>6. IdsHaveOneOwner'
    <2>1. \A r \in rounds' : r \in rounds \/ (r.path \in Paths /\ r.owed \subseteq SubsOf(r.path))
      BY <1>4 DEF IsFresh, Rounds
    <2>2. Known' \subseteq Known
      BY <1>2, <1>5, <2>1, KnownFrom
    <2> QED
      BY <1>1, <2>2, OwnersStay
  <1>7. IndexIsRight' /\ GoneIsGone'
    BY <1>1, <1>2 DEF IndexIsRight, GoneIsGone
  <1>8. \A d \in Devices : ack[d] # Absent => ack[d].path \in Paths /\ ack[d].expires \in Nat
    BY <1>3 DEF Promises
  <1>9. PromisesAreKept'
    <2> SUFFICES ASSUME NEW d \in Devices, ack[d] # Absent, now' < ack[d].expires, d \notin raced
                 PROVE  SubAt(ack[d].path, d)' # Absent /\ SubAt(ack[d].path, d)'.id = ack[d].id
      BY <1>1 DEF PromisesAreKept, SubAt
    <2>1. now < ack[d].expires
      BY <1>1, <1>3, <1>8
    <2>2. SubAt(ack[d].path, d) # Absent /\ SubAt(ack[d].path, d).id = ack[d].id
      BY <2>1 DEF PromisesAreKept, SubAt
    <2> QED
      BY <1>1, <1>8, <2>2
  <1>10. PromisesAreTrue'
    BY <1>1, <1>5, <1>8 DEF PromisesAreTrue, HasPromised, SubAt
  <1>11. NobodyIsForgotten'
    <2> DEFINE Fine(r, time) ==
          /\ r.at = Absent => r.todo = {} /\ r.busy = Absent
          /\ r.at # Absent => r.at <= time
          /\ r.busy # Absent => r.busy \in r.tried
    <2>1. \A r \in rounds' : Fine(r, now')
      <3>1. \A r \in rounds : Fine(r, now)
        BY DEF NobodyIsForgotten
      <3>2. \A r \in rounds : r.at # Absent => r.at \in Nat
        BY <1>3 DEF Rounds
      <3> QED
        BY <1>1, <1>3, <1>4, <3>1, <3>2 DEF IsFresh
    <2>2. ASSUME NEW r \in rounds', NEW s \in r.owed
          PROVE  /\ s.dev \notin r.quiet /\ r.kind \in Triggers[s.dev]
                 /\ r.at # Absent /\ s.dev \notin {t.dev : t \in r.tried} =>
                      \/ SubAt(r.path, s.dev)' = Absent
                      \/ SubAt(r.path, s.dev)'.id # s.sub.id
                      \/ \E t \in r.todo : t.dev = s.dev /\ t.sub.id = s.sub.id
      <3>1. CASE r \in rounds
        <4>1. s \in Records /\ r.path \in Paths
          BY <1>3, <3>1, HeldTypes DEF Rounds
        <4>2. s.dev \in Devices
          BY <4>1 DEF Records
        <4>3. SubAt(r.path, s.dev)' = SubAt(r.path, s.dev)
          BY <1>1, <4>1, <4>2
        <4> QED
          BY <3>1, <4>3 DEF NobodyIsForgotten, SubAt
      <3>2. CASE IsFresh(r)
        BY <3>2 DEF IsFresh
      <3> QED
        BY <1>4, <3>1, <3>2
    <2> QED
      BY <2>1, <2>2 DEF NobodyIsForgotten, SubAt
  <1> QED
    BY <1>6, <1>7, <1>9, <1>10, <1>11

-----------------------------------------------------------------------------
(* A turn of a round: what it finds in the file or hears from the push     *)
(* service, up to its next call.                                           *)

\* rr is the round as it goes on, and bad what the push service has disowned.
RoundTurn(r, rr, bad) ==
  /\ r \in rounds /\ rr \in Rounds
  /\ rr.id = r.id /\ rr.path = r.path /\ rr.kind = r.kind /\ rr.quiet = r.quiet
  /\ rr.tried = r.tried /\ rr.owed = r.owed
  /\ rr.at \in Nat /\ rr.at <= now
  /\ \/ rr.todo = SubsOf(r.path) /\ bad = {}
     \/ rr.todo = r.todo /\ r.at # Absent /\ bad \subseteq Held(r)
  /\ Advance(rr, bad, bad)

LEMMA TurnsOfRounds ==
  ASSUME IInv, NEW r \in rounds,
         RoundStarts(r) \/ \E s \in {"sent", "failed", "gone"} : Delivered(r, s)
  PROVE  \E rr, bad : RoundTurn(r, rr, bad)
  <1>1. r \in Rounds /\ now \in Nat /\ r.path \in Paths /\ TypeOK
    BY DEF IInv, TypeOK, Rounds
  <1>2. CASE RoundStarts(r)
    <2> DEFINE rr == [r EXCEPT !.at = now, !.todo = SubsOf(r.path)]
    <2>1. SubsOf(r.path) \in SUBSET Records
      BY <1>1, ListedTypes
    <2>2. rr \in Rounds
      BY <1>1, <2>1 DEF Rounds
    <2>3. /\ rr.id = r.id /\ rr.path = r.path /\ rr.kind = r.kind /\ rr.quiet = r.quiet
          /\ rr.tried = r.tried /\ rr.owed = r.owed /\ rr.at = now /\ rr.todo = SubsOf(r.path)
      BY <1>1 DEF Rounds
    <2>4. Advance(rr, {}, {})
      BY <1>2 DEF RoundStarts
    <2> HIDE DEF rr
    <2>5. RoundTurn(r, rr, {})
      BY <1>1, <2>2, <2>3, <2>4 DEF RoundTurn
    <2> QED
      BY <2>5
  <1>3. ASSUME NEW s \in {"sent", "failed", "gone"}, Delivered(r, s)
        PROVE  \E rr, bad : RoundTurn(r, rr, bad)
    <2> DEFINE rr == [r EXCEPT !.busy = Absent]
               bad == IF s = "gone" THEN {r.busy} ELSE {}
    <2>1. rr \in Rounds
      BY <1>1 DEF Rounds
    <2>2. /\ rr.id = r.id /\ rr.path = r.path /\ rr.kind = r.kind /\ rr.quiet = r.quiet
          /\ rr.tried = r.tried /\ rr.owed = r.owed /\ rr.at = r.at /\ rr.todo = r.todo
      BY <1>1 DEF Rounds
    <2>3. r.busy # Absent /\ Advance(rr, bad, bad)
      BY <1>3 DEF Delivered, EvictsOn
    <2>4. r.at # Absent /\ r.at \in Nat /\ r.at <= now
      BY <1>1, <2>3 DEF IInv, NobodyIsForgotten, Rounds
    <2>5. bad \subseteq Held(r)
      BY <2>3 DEF Held
    <2> HIDE DEF rr, bad
    <2>6. RoundTurn(r, rr, bad)
      BY <1>1, <2>1, <2>2, <2>3, <2>4, <2>5 DEF RoundTurn
    <2> QED
      BY <2>6
  <1> QED
    BY <1>2, <1>3

\* Subscriptions with the id of one in S leave the file of p.
Leaves(S, p, q, d) ==
  q = p /\ SubAt(p, d) # Absent /\ \E s \in S : SubAt(p, d).id = s.sub.id

LEMMA WithoutSubs ==
  ASSUME TypeOK, NEW p \in Paths, NEW S, coll' = Without(p, S)
  PROVE  /\ coll' \in [Paths -> Collections \cup {Absent}]
         /\ \A q \in Paths, d \in Devices :
              SubAt(q, d)' = IF Leaves(S, p, q, d) THEN Absent ELSE SubAt(q, d)
  <1>1. CASE coll[p] = Absent
    BY <1>1 DEF Without, TypeOK, SubAt, Leaves
  <1>2. CASE coll[p] # Absent
    <2> DEFINE subs == [d \in Devices |->
                 IF \E s \in S : coll[p].subs[d] # Absent /\ coll[p].subs[d].id = s.sub.id
                 THEN Absent ELSE coll[p].subs[d]]
               c == [coll[p] EXCEPT !.subs = subs]
    <2>1. coll[p] \in Collections
      BY <1>2 DEF TypeOK
    <2>2. coll' = [coll EXCEPT ![p] = c]
      BY <1>2 DEF Without
    <2>3. subs \in [Devices -> Subscriptions \cup {Absent}]
      BY <2>1 DEF Collections
    <2>4. \A d \in Devices : subs[d] = IF Leaves(S, p, p, d) THEN Absent ELSE SubAt(p, d)
      BY <1>2 DEF Leaves, SubAt
    <2> HIDE DEF subs
    <2>5. c \in Collections /\ c.subs = subs
      BY <2>1, <2>3 DEF Collections
    <2> HIDE DEF c
    <2>6. coll' \in [Paths -> Collections \cup {Absent}] /\ coll'[p] = c
          /\ \A q \in Paths \ {p} : coll'[q] = coll[q]
      BY <2>2, <2>5 DEF TypeOK
    <2>7. c # Absent
      BY <2>5, Sorts
    <2>8. ASSUME NEW q \in Paths, NEW d \in Devices
          PROVE  SubAt(q, d)' = IF Leaves(S, p, q, d) THEN Absent ELSE SubAt(q, d)
      <3>1. CASE q = p
        BY <2>4, <2>5, <2>6, <2>7, <3>1 DEF SubAt
      <3>2. CASE q # p
        BY <2>6, <3>2 DEF SubAt, Leaves
      <3> QED
        BY <3>1, <3>2
    <2> QED
      BY <2>6, <2>8
  <1> QED
    BY <1>1, <1>2

\* The rounds beside r
Others(r) == {o \in rounds : o.id # r.id}

\* The round that calls the push service of s next, with left still to do.
Calling(rr, s, left) == [rr EXCEPT !.todo = left \ {s}, !.busy = s, !.tried = @ \cup {s}]

\* What a turn does with those behind it and those that go.
TurnDone(r, rr, bad, done, gone) ==
  /\ done \subseteq {s \in rr.todo : IsExpired(s, rr.at) \/ IsSkipped(rr, s)}
  /\ gone = {s \in done : IsExpired(s, rr.at)} \cup bad
  /\ coll' = Without(r.path, gone)
  /\ ack' = [d \in Devices |->
       IF ack[d] # Absent /\ \E s \in bad \cap SubsOf(ack[d].path) : s.dev = d
       THEN Absent ELSE ack[d]]
  /\ \/ rr.todo \ done = {} /\ rounds' = Others(r)
     \/ \E s \in rr.todo \ done : rounds' = Others(r) \cup {Calling(rr, s, rr.todo \ done)}
  /\ UNCHANGED <<index, req, now, ops, quit, spread, raced>>

LEMMA TurnsAreDone ==
  ASSUME NEW r, NEW rr, NEW bad, RoundTurn(r, rr, bad)
  PROVE  \E done, gone : TurnDone(r, rr, bad, done, gone)
  <1>1. rr.id = r.id /\ rr.path = r.path
    BY DEF RoundTurn
  <1>2. PICK done \in SUBSET {s \in rr.todo : IsExpired(s, rr.at) \/ IsSkipped(rr, s)} :
    LET left == Passed(rr, done)
        evicted == {s \in done : IsExpired(s, rr.at)} \cup bad
    IN
    /\ coll' = Without(rr.path, evicted)
    /\ ack' = [d \in Devices |->
         IF ack[d] # Absent /\ \E s \in bad \cap SubsOf(ack[d].path) : s.dev = d
         THEN Absent ELSE ack[d]]
    /\ \/ left = {} /\ rounds' = {o \in rounds : o.id # rr.id}
       \/ \E s \in left :
            /\ ~IsExpired(s, rr.at) /\ ~IsSkipped(rr, s)
            /\ rounds' = {o \in rounds : o.id # rr.id} \cup
                 {[rr EXCEPT !.todo = left \ {s}, !.busy = s, !.tried = @ \cup {s}]}
    /\ UNCHANGED <<index, req, now, ops, quit, spread, raced>>
    BY DEF RoundTurn, Advance
  <1> DEFINE gone == {s \in done : IsExpired(s, rr.at)} \cup bad
  <1>3. TurnDone(r, rr, bad, done, gone)
    BY <1>1, <1>2 DEF TurnDone, Passed, Others, Calling
  <1> QED
    BY <1>3

LEMMA RoundTypes ==
  ASSUME TypeOK, NEW r \in rounds
  PROVE  /\ r \in Rounds /\ r.path \in Paths /\ r.owed \subseteq Records
         /\ r.todo \subseteq Records /\ r.tried \subseteq Records /\ Held(r) \subseteq Records
         /\ \A s \in Records : /\ s.dev \in Devices /\ s.sub \in Subscriptions
                               /\ s.sub.id \in Ids /\ s.sub.expires \in Nat
  BY DEF TypeOK, Rounds, Held, Records, Subscriptions

\* A device that is owed a message, is subscribed and was not tried is on the list.
LEMMA OwedAreListed ==
  ASSUME IInv, NEW r, NEW rr, NEW bad, RoundTurn(r, rr, bad),
         NEW x \in r.owed, x.dev \notin {t.dev : t \in r.tried}
  PROVE  \/ SubAt(r.path, x.dev) = Absent
         \/ SubAt(r.path, x.dev).id # x.sub.id
         \/ \E t \in rr.todo : t.dev = x.dev /\ t.sub.id = x.sub.id
  <1>1. r \in rounds /\ TypeOK
    BY DEF RoundTurn, IInv
  <1>2. x.dev \in Devices
    BY <1>1, RoundTypes
  <1>3. CASE rr.todo = SubsOf(r.path)
    <2> DEFINE t == [dev |-> x.dev, sub |-> SubAt(r.path, x.dev)]
    <2>1. SubAt(r.path, x.dev) # Absent => t \in SubsOf(r.path)
      BY <1>2, Listed
    <2>2. t.dev = x.dev /\ t.sub = SubAt(r.path, x.dev)
      OBVIOUS
    <2> HIDE DEF t
    <2> QED
      BY <1>3, <2>1, <2>2
  <1>4. CASE rr.todo = r.todo /\ r.at # Absent
    BY <1>1, <1>4 DEF IInv, NobodyIsForgotten, SubAt
  <1> QED
    BY <1>3, <1>4 DEF RoundTurn

\* After the turn he still is, unless his subscription has gone.
LEMMA OwedStayListed ==
  ASSUME IInv, NEW r, NEW rr, NEW bad, RoundTurn(r, rr, bad),
         NEW done, NEW gone, TurnDone(r, rr, bad, done, gone),
         NEW x \in r.owed, x.dev \notin {t.dev : t \in r.tried}
  PROVE  \/ SubAt(r.path, x.dev)' = Absent
         \/ SubAt(r.path, x.dev)'.id # x.sub.id
         \/ \E t \in rr.todo \ done : t.dev = x.dev /\ t.sub.id = x.sub.id
  <1>1. r \in rounds /\ TypeOK /\ r.path \in Paths /\ x.dev \in Devices
    BY RoundTypes DEF RoundTurn, IInv
  <1>2. SubAt(r.path, x.dev)' =
          IF Leaves(gone, r.path, r.path, x.dev) THEN Absent ELSE SubAt(r.path, x.dev)
    BY <1>1, WithoutSubs DEF TurnDone
  <1>3. x.dev \notin rr.quiet /\ rr.kind \in Triggers[x.dev]
    BY <1>1 DEF IInv, NobodyIsForgotten, RoundTurn
  <1>4. ASSUME NEW t \in done, t.dev = x.dev, t.sub.id = x.sub.id,
               SubAt(r.path, x.dev) # Absent, SubAt(r.path, x.dev).id = x.sub.id
        PROVE  Leaves(gone, r.path, r.path, x.dev)
    <2>1. ~IsSkipped(rr, t)
      BY <1>3, <1>4 DEF IsSkipped
    <2>2. t \in gone
      BY <1>4, <2>1 DEF TurnDone
    <2> QED
      BY <1>4, <2>2 DEF Leaves
  <1> QED
    BY <1>2, <1>4, OwedAreListed

LEMMA TurnRounds ==
  ASSUME IInv, NEW r, NEW rr, NEW bad, RoundTurn(r, rr, bad),
         NEW done, NEW gone, TurnDone(r, rr, bad, done, gone)
  PROVE  \A o \in rounds' :
           \/ o \in Others(r)
           \/ \E s \in rr.todo \ done :
                /\ o \in Rounds
                /\ o.id = r.id /\ o.path = r.path /\ o.kind = r.kind /\ o.quiet = r.quiet
                /\ o.at = rr.at /\ o.owed = r.owed /\ o.busy = s
                /\ \A t : t \in o.todo <=> t \in rr.todo /\ t \notin done /\ t # s
                /\ \A t : t \in o.tried <=> t \in r.tried \/ t = s
  <1>1. /\ rr \in Rounds /\ rr.id = r.id /\ rr.path = r.path /\ rr.kind = r.kind
        /\ rr.quiet = r.quiet /\ rr.tried = r.tried /\ rr.owed = r.owed
    BY DEF RoundTurn
  <1>2. TAKE o \in rounds'
  <1>3. CASE o \notin Others(r)
    <2>1. PICK s \in rr.todo \ done : o = Calling(rr, s, rr.todo \ done)
      BY <1>3 DEF TurnDone
    <2>2. /\ o \in Rounds /\ o.id = rr.id /\ o.path = rr.path /\ o.kind = rr.kind
          /\ o.quiet = rr.quiet /\ o.at = rr.at /\ o.owed = rr.owed
          /\ o.todo = (rr.todo \ done) \ {s} /\ o.busy = s /\ o.tried = rr.tried \cup {s}
      <3>1. /\ s \in Records /\ (rr.todo \ done) \ {s} \in SUBSET Records
            /\ rr.tried \cup {s} \in SUBSET Records
        BY <1>1, <2>1 DEF Rounds
      <3> QED
        BY <1>1, <2>1, <3>1 DEF Calling, Rounds
    <2> QED
      BY <1>1, <2>1, <2>2
  <1> QED
    BY <1>3

LEMMA TurnTypes ==
  ASSUME IInv, NEW r, NEW rr, NEW bad, RoundTurn(r, rr, bad),
         NEW done, NEW gone, TurnDone(r, rr, bad, done, gone)
  PROVE  TypeOK' /\ WritesWereAllowed'
  <1>1. TypeOK /\ r \in rounds /\ r.path \in Paths
    BY RoundTypes DEF IInv, RoundTurn
  <1>2. coll' \in [Paths -> Collections \cup {Absent}]
    BY <1>1, WithoutSubs DEF TurnDone
  <1>3. rounds' \subseteq Rounds
    BY <1>1, TurnRounds DEF Others, TypeOK
  <1>4. ack' \in [Devices -> Promises \cup {Absent}]
    BY <1>1 DEF TurnDone, TypeOK
  <1>5. UNCHANGED <<index, req, now, ops>>
    BY DEF TurnDone
  <1> QED
    BY <1>1, <1>2, <1>3, <1>4, <1>5 DEF TypeOK, IInv, WritesWereAllowed, Matches

LEMMA TurnKeepsOwners ==
  ASSUME IInv, NEW r, NEW rr, NEW bad, RoundTurn(r, rr, bad),
         NEW done, NEW gone, TurnDone(r, rr, bad, done, gone)
  PROVE  IdsHaveOneOwner' /\ IndexIsRight' /\ GoneIsGone'
  <1>1. TypeOK /\ TypeOK' /\ r \in rounds /\ r.path \in Paths
    BY RoundTypes, TurnTypes DEF IInv, RoundTurn
  <1>2. \A q \in Paths, d \in Devices : SubAt(q, d)' # Absent => SubAt(q, d)' = SubAt(q, d)
    BY <1>1, WithoutSubs DEF TurnDone
  <1>3. ASSUME NEW q \in Paths PROVE SubsOf(q)' \subseteq SubsOf(q) /\ SubIds(q)' \subseteq SubIds(q)
    <2>1. \A s : s \in SubsOf(q)' => s \in SubsOf(q)
      BY <1>2, Listed
    <2>2. \A i : i \in SubIds(q)' => i \in SubIds(q)
      BY <1>2, Listed
    <2> QED
      BY <2>1, <2>2
  <1>4. UNCHANGED <<index, ops, quit, spread>> /\ ops \in Nat
    BY <1>1 DEF TurnDone, TypeOK
  <1>5. rr.todo \subseteq Known
    BY <1>1, KnownFrom DEF RoundTurn, Held
  <1>6. ASSUME NEW o \in rounds', NEW s \in Held(o) \cup o.owed PROVE s \in Known
    <2>1. CASE o \in rounds
      BY <1>6, <2>1, KnownFrom
    <2>2. CASE o \notin rounds
      <3>0. o \notin Others(r)
        BY <2>2 DEF Others
      <3>1. PICK t \in rr.todo \ done :
              o.owed \subseteq r.owed /\ o.todo \subseteq rr.todo /\ o.busy = t
        BY <1>6, <3>0, TurnRounds
      <3> QED
        BY <1>1, <1>5, <1>6, <3>1, KnownFrom DEF Held
    <2> QED
      BY <2>1, <2>2
  <1>7. Known' \subseteq Known
    BY <1>3, <1>6, KnownFrom
  <1>8. \A d \in Devices : ack'[d] # Absent => ack[d] # Absent /\ ack'[d].id = ack[d].id
    BY DEF TurnDone
  <1>9. IdsHaveOneOwner'
    BY <1>1, <1>4, <1>7, <1>8, OwnersStay DEF IInv
  <1> QED
    BY <1>3, <1>4, <1>9 DEF IInv, IndexIsRight, GoneIsGone

\* What leaves the file of a device that was not raced had expired or was
\* disowned.
LEMMA TurnKeepsPromises ==
  ASSUME IInv, NEW r, NEW rr, NEW bad, RoundTurn(r, rr, bad),
         NEW done, NEW gone, TurnDone(r, rr, bad, done, gone)
  PROVE  PromisesAreKept' /\ PromisesAreTrue'
  <1>1. /\ TypeOK /\ TypeOK' /\ r \in rounds /\ r.path \in Paths /\ r \in Rounds /\ rr \in Rounds
        /\ Held(r) \subseteq Records /\ now \in Nat /\ rr.at \in Nat /\ rr.at <= now
        /\ ack \in [Devices -> Promises \cup {Absent}]
    BY RoundTypes, TurnTypes DEF IInv, RoundTurn, TypeOK
  <1>2. \A q \in Paths, d \in Devices :
          SubAt(q, d)' = IF Leaves(gone, r.path, q, d) THEN Absent ELSE SubAt(q, d)
    BY <1>1, WithoutSubs DEF TurnDone
  <1>3. /\ UNCHANGED <<now, raced>>
        /\ \A d \in Devices : ack'[d] # Absent => ack[d] # Absent /\ ack'[d] = ack[d]
    BY DEF TurnDone
  <1>4. \A d \in Devices : ack[d] # Absent =>
          ack[d].path \in Paths /\ ack[d].expires \in Nat /\ ack[d].id \in Ids
    BY <1>1 DEF Promises
  \* What a turn reads of the subscription of a device is what the device was told.
  <1>5. ASSUME NEW d \in Devices, ack[d] # Absent, d \notin raced, ack[d].path = r.path,
               SubAt(r.path, d) # Absent, SubAt(r.path, d).id = ack[d].id,
               NEW s \in rr.todo \cup bad, s.sub.id = ack[d].id
        PROVE  s.dev = d /\ s.sub = SubAt(r.path, d) /\ s.sub.expires = ack[d].expires
    <2>1. /\ SubAt(r.path, d).expires = ack[d].expires
          /\ \A t \in Held(r) : t.dev = d /\ t.sub.id = ack[d].id => t.sub.expires = ack[d].expires
      BY <1>1, <1>5 DEF IInv, PromisesAreTrue, HasPromised, SubAt
    <2>2. s \in SubsOf(r.path) \/ s \in Held(r)
      BY <1>5 DEF RoundTurn, Held
    <2>3. s \in Known /\ s \in Records
      BY <1>1, <2>2, KnownFrom, KnownTypes
    <2>4. s.dev = d
      BY <1>1, <1>5, <2>3, OneOwner DEF IInv
    <2>5. CASE s \in SubsOf(r.path)
      <3>1. PICK e \in Devices : s = [dev |-> e, sub |-> SubAt(r.path, e)]
        BY <2>5, Listed
      <3>2. s.sub = SubAt(r.path, d)
        BY <2>4, <3>1
      <3> QED
        BY <2>1, <2>4, <3>2
    <2>6. CASE s \in Held(r)
      <3>1. s.sub.expires = ack[d].expires
        BY <1>5, <2>1, <2>4, <2>6
      <3>2. s.sub \in Subscriptions /\ SubAt(r.path, d) \in Subscriptions
        BY <1>1, <1>5, <2>3, SubTypes DEF Records
      <3>3. s.sub = SubAt(r.path, d)
        BY <1>5, <2>1, <3>1, <3>2 DEF Subscriptions
      <3> QED
        BY <2>4, <3>1, <3>3
    <2> QED
      BY <2>2, <2>5, <2>6
  <1>6. PromisesAreKept'
    <2> SUFFICES ASSUME NEW d \in Devices, ack'[d] # Absent, now' < ack'[d].expires,
                        d \notin raced', NEW p, p = ack'[d].path
                 PROVE  SubAt(p, d)' # Absent /\ SubAt(p, d)'.id = ack'[d].id
      BY DEF PromisesAreKept, SubAt
    <2>1. /\ ack[d] # Absent /\ ack'[d] = ack[d] /\ now < ack[d].expires /\ d \notin raced
          /\ p = ack[d].path
      BY <1>3
    <2>2. SubAt(ack[d].path, d) # Absent /\ SubAt(ack[d].path, d).id = ack[d].id
      BY <2>1 DEF IInv, PromisesAreKept, SubAt
    <2>3. ASSUME Leaves(gone, r.path, ack[d].path, d) PROVE FALSE
      <3>1. PICK s \in gone : ack[d].path = r.path /\ s.sub.id = ack[d].id
        BY <2>2, <2>3 DEF Leaves
      <3>2. s \in rr.todo \cup bad
        BY <3>1 DEF TurnDone
      <3>3. s.dev = d /\ s.sub = SubAt(r.path, d) /\ s.sub.expires = ack[d].expires
        BY <1>5, <2>1, <2>2, <3>1, <3>2
      <3>4. CASE s \in bad
        <4>1. s \in Held(r)
          BY <3>4 DEF RoundTurn
        <4>2. s = [dev |-> d, sub |-> SubAt(r.path, d)]
          BY <1>1, <3>3, <4>1 DEF Records
        <4>3. s \in SubsOf(ack[d].path)
          BY <2>2, <3>1, <4>2, Listed
        <4>4. ack'[d] = Absent
          BY <3>3, <3>4, <4>3, <2>1 DEF TurnDone
        <4> QED
          BY <4>4
      <3>5. CASE s \in done /\ IsExpired(s, rr.at)
        <4>1. ack[d].expires <= rr.at
          BY <3>3, <3>5 DEF IsExpired
        <4> QED
          BY <1>1, <1>4, <2>1, <4>1
      <3> QED
        BY <3>1, <3>4, <3>5 DEF TurnDone
    <2> QED
      BY <1>2, <1>4, <2>1, <2>2, <2>3
  <1>7. PromisesAreTrue'
    <2> SUFFICES ASSUME NEW d \in Devices, ack'[d] # Absent, NEW p, p = ack'[d].path,
                        SubAt(p, d)' # Absent, SubAt(p, d)'.id = ack'[d].id
                 PROVE  /\ SubAt(p, d)'.expires = ack'[d].expires
                        /\ d \notin raced' =>
                             \A o \in rounds' : \A s \in Held(o) :
                               o.path = p /\ s.dev = d /\ s.sub.id = ack'[d].id =>
                                 s.sub.expires = ack'[d].expires
      BY DEF PromisesAreTrue, HasPromised, SubAt, Held
    <2>1. /\ ack[d] # Absent /\ ack'[d] = ack[d] /\ raced' = raced
          /\ p = ack[d].path /\ p \in Paths
      BY <1>3, <1>4
    <2>2. SubAt(p, d)' = SubAt(p, d)
      BY <1>2, <2>1
    <2>3. /\ SubAt(p, d).expires = ack[d].expires
          /\ d \notin raced =>
               \A o \in rounds : \A s \in Held(o) :
                 o.path = ack[d].path /\ s.dev = d /\ s.sub.id = ack[d].id =>
                   s.sub.expires = ack[d].expires
      BY <2>1, <2>2 DEF IInv, PromisesAreTrue, HasPromised, SubAt
    <2>4. ASSUME d \notin raced, NEW o \in rounds', NEW s \in Held(o),
                 o.path = ack[d].path, s.dev = d, s.sub.id = ack[d].id
          PROVE  s.sub.expires = ack[d].expires
      <3>1. CASE o \in Others(r)
        BY <2>3, <2>4, <3>1 DEF Others
      <3>2. CASE o \notin Others(r)
        <4>1. PICK t \in rr.todo \ done :
                /\ o.path = r.path /\ o.busy = t
                /\ \A u : u \in o.todo <=> u \in rr.todo /\ u \notin done /\ u # t
          BY <2>4, <3>2, TurnRounds
        <4>2. s \in rr.todo
          BY <2>4, <4>1 DEF Held
        <4>3. /\ ack[d].path = r.path
              /\ SubAt(r.path, d) # Absent /\ SubAt(r.path, d).id = ack[d].id
          BY <2>1, <2>2, <2>4, <4>1
        <4> QED
          BY <1>5, <2>1, <2>4, <4>2, <4>3
      <3> QED
        BY <3>1, <3>2
    <2> QED
      BY <2>1, <2>2, <2>3, <2>4
  <1> QED
    BY <1>6, <1>7

LEMMA TurnForgetsNobody ==
  ASSUME IInv, NEW r, NEW rr, NEW bad, RoundTurn(r, rr, bad),
         NEW done, NEW gone, TurnDone(r, rr, bad, done, gone)
  PROVE  NobodyIsForgotten'
  <1>1. /\ TypeOK /\ TypeOK' /\ r \in rounds /\ r.path \in Paths
        /\ now \in Nat /\ rr.at \in Nat /\ rr.at <= now /\ now' = now
    BY RoundTypes, TurnTypes DEF IInv, RoundTurn, TypeOK, TurnDone
  <1>2. \A q \in Paths, d \in Devices : SubAt(q, d)' = SubAt(q, d) \/ SubAt(q, d)' = Absent
    BY <1>1, WithoutSubs DEF TurnDone
  <1> SUFFICES ASSUME NEW o \in rounds'
               PROVE  /\ o.at = Absent => o.todo = {} /\ o.busy = Absent
                      /\ o.at # Absent => o.at <= now
                      /\ o.busy # Absent => o.busy \in o.tried
                      /\ \A x \in o.owed :
                           /\ x.dev \notin o.quiet /\ o.kind \in Triggers[x.dev]
                           /\ o.at # Absent /\ x.dev \notin {t.dev : t \in o.tried} =>
                                \/ SubAt(o.path, x.dev)' = Absent
                                \/ SubAt(o.path, x.dev)'.id # x.sub.id
                                \/ \E t \in o.todo : t.dev = x.dev /\ t.sub.id = x.sub.id
    BY <1>1 DEF NobodyIsForgotten, SubAt
  <1>3. CASE o \in Others(r)
    <2>1. o \in rounds
      BY <1>3 DEF Others
    <2>2. \A x \in o.owed : x.dev \in Devices /\ o.path \in Paths
      BY <1>1, <2>1, RoundTypes
    <2>3. /\ o.at = Absent => o.todo = {} /\ o.busy = Absent
          /\ o.at # Absent => o.at <= now
          /\ o.busy # Absent => o.busy \in o.tried
          /\ \A x \in o.owed :
               /\ x.dev \notin o.quiet /\ o.kind \in Triggers[x.dev]
               /\ o.at # Absent /\ x.dev \notin {t.dev : t \in o.tried} =>
                    \/ SubAt(o.path, x.dev) = Absent
                    \/ SubAt(o.path, x.dev).id # x.sub.id
                    \/ \E t \in o.todo : t.dev = x.dev /\ t.sub.id = x.sub.id
      BY <2>1 DEF IInv, NobodyIsForgotten, SubAt
    <2> QED
      BY <1>2, <2>2, <2>3
  <1>4. CASE o \notin Others(r)
    <2>1. PICK s \in rr.todo \ done :
            /\ o.path = r.path /\ o.kind = r.kind /\ o.quiet = r.quiet
            /\ o.at = rr.at /\ o.owed = r.owed /\ o.busy = s
            /\ \A t : t \in o.todo <=> t \in rr.todo /\ t \notin done /\ t # s
            /\ \A t : t \in o.tried <=> t \in r.tried \/ t = s
      BY <1>4, TurnRounds
    <2>2. o.at # Absent /\ o.at <= now /\ o.busy \in o.tried
      BY <1>1, <2>1, Sorts
    <2>3. ASSUME NEW x \in r.owed
          PROVE  /\ x.dev \notin r.quiet /\ r.kind \in Triggers[x.dev]
                 /\ x.dev \notin {t.dev : t \in o.tried} =>
                      \/ SubAt(r.path, x.dev)' = Absent
                      \/ SubAt(r.path, x.dev)'.id # x.sub.id
                      \/ \E t \in o.todo : t.dev = x.dev /\ t.sub.id = x.sub.id
      <3>1. x.dev \notin r.quiet /\ r.kind \in Triggers[x.dev]
        BY <1>1 DEF IInv, NobodyIsForgotten
      <3>2. ASSUME x.dev \notin {t.dev : t \in o.tried}
            PROVE  x.dev \notin {t.dev : t \in r.tried} /\ x.dev # s.dev
        BY <2>1, <3>2
      <3>3. ASSUME NEW t \in rr.todo \ done, t.dev = x.dev, x.dev # s.dev PROVE t \in o.todo
        BY <2>1, <3>3
      <3> QED
        BY <3>1, <3>2, <3>3, OwedStayListed
    <2> QED
      BY <2>1, <2>2, <2>3
  <1> QED
    BY <1>3, <1>4

-----------------------------------------------------------------------------
(* Collections that go, move or are copied.                                *)

\* A round without what it owes
Void(r) == [r EXCEPT !.owed = {}]

\* Another collection, or none, lands at q.
LandStep(q) ==
  /\ q \in Paths
  /\ \A p \in Paths \ {q}, d \in Devices : SubAt(p, d)' = SubAt(p, d) \/ SubAt(p, d)' = Absent
  /\ \A d \in Devices : SubAt(q, d)' # Absent =>
       \E p \in Paths : SubAt(q, d)' = SubAt(p, d) /\ SubAt(p, d).id \in spread'
  /\ spread \subseteq spread' /\ raced \subseteq raced'
  /\ UNCHANGED <<index, req, now, quit>> /\ ops' >= ops
  /\ \A o \in rounds' :
       /\ o \in rounds \/ \E r \in rounds : o = Void(r)
       /\ o.path = q => o.owed = {} \/ \A d \in Devices : SubAt(q, d)' = Absent
  /\ \A d \in Devices : ack'[d] # Absent =>
       /\ ack[d] # Absent /\ ack'[d].id = ack[d].id /\ ack'[d].expires = ack[d].expires
       /\ \/ /\ ack'[d].path = ack[d].path
             /\ SubAt(ack[d].path, d) # Absent => \A p \in Paths :
                  p = ack[d].path => SubAt(p, d)' = SubAt(p, d)
             /\ ack[d].path # q
          \/ /\ ack'[d].path = q /\ SubAt(q, d)' = SubAt(ack[d].path, d)
             /\ d \notin raced' => \A r \in rounds : \A s \in Held(r) :
                  r.path = q /\ s.dev = d /\ s.sub.id \in SubIds(ack[d].path) =>
                    s \in SubsOf(ack[d].path)

LEMMA ReleasedRounds ==
  ASSUME TypeOK, NEW q \in Paths, rounds' = Released(q)
  PROVE  /\ rounds' \subseteq Rounds
         /\ \A o \in rounds' : /\ o \in rounds \/ \E r \in rounds : o = Void(r)
                               /\ o.path = q => o.owed = {}
         /\ \A o \in rounds' : \E r \in rounds : o.id = r.id
  <1>1. ASSUME NEW o \in rounds'
        PROVE  \E r \in rounds : o = [r EXCEPT !.owed = IF r.path = q THEN {} ELSE r.owed]
    BY DEF Released
  <1>2. ASSUME NEW o \in rounds'
        PROVE  \E r \in rounds :
                 \/ r.path = q /\ o = [r EXCEPT !.owed = {}]
                 \/ r.path # q /\ o = r
    <2>1. PICK r \in rounds : o = [r EXCEPT !.owed = IF r.path = q THEN {} ELSE r.owed]
      BY <1>1
    <2>2. r \in Rounds
      BY RoundTypes
    <2>3. CASE r.path = q
      BY <2>1, <2>3
    <2>4. CASE r.path # q
      BY <2>1, <2>2, <2>4 DEF Rounds
    <2> QED
      BY <2>3, <2>4
  <1>3. ASSUME NEW r \in rounds PROVE Void(r) \in Rounds /\ Void(r).id = r.id /\ Void(r).owed = {}
    BY RoundTypes DEF Rounds, Void
  <1>4. ASSUME NEW o \in rounds'
        PROVE  /\ o \in Rounds /\ (o \in rounds \/ \E r \in rounds : o = Void(r))
               /\ o.path = q => o.owed = {}
               /\ \E r \in rounds : o.id = r.id
    <2>1. \A r \in rounds : [r EXCEPT !.owed = {}] = Void(r)
      BY DEF Void
    <2>2. CASE \E r \in rounds : r.path = q /\ o = Void(r)
      BY <1>3, <2>2
    <2>3. CASE \E r \in rounds : r.path # q /\ o = r
      BY <2>3, RoundTypes
    <2> QED
      BY <1>2, <2>1, <2>2, <2>3
  <1> QED
    BY <1>4

LEMMA KeptPromises ==
  ASSUME TypeOK, NEW q \in Paths, ack' = Kept({q}, Absent, Absent)
  PROVE  /\ ack' \in [Devices -> Promises \cup {Absent}]
         /\ \A d \in Devices : ack'[d] # Absent =>
              /\ ack[d] # Absent /\ ack'[d].id = ack[d].id /\ ack'[d].expires = ack[d].expires
              /\ ack[d].path \in Paths /\ ack[d].path # q /\ ack'[d].path = ack[d].path
  <1>1. ASSUME NEW d \in Devices, ack[d] # Absent
        PROVE  ack[d] \in Promises /\ ack[d].path \in Paths /\ ack[d].path # Absent
    BY <1>1, Sorts DEF TypeOK, Promises
  <1>2. ASSUME NEW d \in Devices
        PROVE  /\ ack[d] = Absent => ack'[d] = Absent
               /\ ack[d] # Absent /\ ack[d].path = q => ack'[d] = Absent
               /\ ack[d] # Absent /\ ack[d].path # q => ack'[d] = ack[d]
    BY <1>1 DEF Kept
  <1>3. ack' = [d \in Devices |-> ack'[d]]
    BY DEF Kept
  <1>4. \A d \in Devices : ack'[d] \in Promises \cup {Absent}
    BY <1>1, <1>2
  <1>5. ack' \in [Devices -> Promises \cup {Absent}]
    BY <1>3, <1>4
  <1> QED
    BY <1>1, <1>2, <1>5

LEMMA MovedPromises ==
  ASSUME TypeOK, NEW p \in Paths, NEW q \in Paths, ack' = Kept({q}, p, q)
  PROVE  /\ ack' \in [Devices -> Promises \cup {Absent}]
         /\ \A d \in Devices : ack'[d] # Absent =>
              /\ ack[d] # Absent /\ ack'[d].id = ack[d].id /\ ack'[d].expires = ack[d].expires
              /\ ack[d].path \in Paths
              /\ \/ ack[d].path = p /\ ack'[d].path = q
                 \/ ack[d].path # p /\ ack[d].path # q /\ ack'[d].path = ack[d].path
  <1>1. ASSUME NEW d \in Devices, ack[d] # Absent
        PROVE  /\ ack[d] \in Promises /\ ack[d].path \in Paths
               /\ ack[d].path = p => /\ [ack[d] EXCEPT !.path = q] \in Promises
                                     /\ [ack[d] EXCEPT !.path = q].id = ack[d].id
                                     /\ [ack[d] EXCEPT !.path = q].expires = ack[d].expires
                                     /\ [ack[d] EXCEPT !.path = q].path = q
    BY <1>1 DEF TypeOK, Promises
  <1>2. ASSUME NEW d \in Devices
        PROVE  /\ ack[d] = Absent => ack'[d] = Absent
               /\ ack[d] # Absent /\ ack[d].path = p => ack'[d] = [ack[d] EXCEPT !.path = q]
               /\ ack[d] # Absent /\ ack[d].path # p /\ ack[d].path = q => ack'[d] = Absent
               /\ ack[d] # Absent /\ ack[d].path # p /\ ack[d].path # q => ack'[d] = ack[d]
    BY DEF Kept
  <1>3. ack' = [d \in Devices |-> ack'[d]]
    BY DEF Kept
  <1>4. \A d \in Devices : ack'[d] \in Promises \cup {Absent}
    BY <1>1, <1>2
  <1>5. ack' \in [Devices -> Promises \cup {Absent}]
    BY <1>3, <1>4
  <1> QED
    BY <1>1, <1>2, <1>5

LEMMA CollectionPut ==
  ASSUME TypeOK, NEW q \in Paths, NEW c \in Collections \cup {Absent}, coll' = [coll EXCEPT ![q] = c]
  PROVE  /\ coll' \in [Paths -> Collections \cup {Absent}]
         /\ \A d \in Devices : SubAt(q, d)' = IF c = Absent THEN Absent ELSE c.subs[d]
         /\ \A p \in Paths \ {q}, d \in Devices : SubAt(p, d)' = SubAt(p, d)
  <1>1. coll' \in [Paths -> Collections \cup {Absent}] /\ coll'[q] = c
        /\ \A p \in Paths \ {q} : coll'[p] = coll[p]
    BY DEF TypeOK
  <1> QED
    BY <1>1 DEF SubAt

LEMMA Deletes ==
  ASSUME IInv, DeleteCollection
  PROVE  TypeOK' /\ WritesWereAllowed' /\ \E q \in Paths : LandStep(q)
  <1>1. TypeOK /\ WritesWereAllowed
    BY DEF IInv
  <1>2. PICK p \in Paths : coll' = [coll EXCEPT ![p] = Absent] /\ ack' = Kept({p}, Absent, Absent)
    BY DEF DeleteCollection
  <1>3. /\ coll' \in [Paths -> Collections \cup {Absent}]
        /\ \A d \in Devices : SubAt(p, d)' = Absent
        /\ \A o \in Paths \ {p}, d \in Devices : SubAt(o, d)' = SubAt(o, d)
    BY <1>1, <1>2, CollectionPut
  <1>4. /\ ack' \in [Devices -> Promises \cup {Absent}]
        /\ \A d \in Devices : ack'[d] # Absent =>
             /\ ack[d] # Absent /\ ack'[d].id = ack[d].id /\ ack'[d].expires = ack[d].expires
             /\ ack[d].path \in Paths /\ ack[d].path # p /\ ack'[d].path = ack[d].path
    BY <1>1, <1>2, KeptPromises
  <1>5. UNCHANGED <<index, req, rounds, now, quit, spread, raced>> /\ ops' \in 0 .. MaxOps /\ ops' >= ops
    BY <1>1, OpsGrow DEF DeleteCollection
  <1>6. LandStep(p)
    BY <1>3, <1>4, <1>5 DEF LandStep
  <1> QED
    BY <1>1, <1>3, <1>4, <1>5, <1>6 DEF TypeOK, WritesWereAllowed, Matches

LEMMA Copies ==
  ASSUME IInv, CopyCollection
  PROVE  TypeOK' /\ WritesWereAllowed' /\ \E q \in Paths : LandStep(q) /\ rounds' = Released(q)
  <1>1. TypeOK /\ WritesWereAllowed
    BY DEF IInv
  <1>2. PICK p \in Paths, q \in Paths :
          /\ p # q /\ coll[p] # Absent
          /\ \/ coll' = Copied(p, q) /\ spread' = spread \cup SubIds(p)
             \/ coll' = [coll EXCEPT ![q] = Plain] /\ UNCHANGED spread
          /\ ack' = Kept({q}, Absent, Absent)
          /\ rounds' = Released(q)
    BY DEF CopyCollection
  <1>3. /\ coll' \in [Paths -> Collections \cup {Absent}]
        /\ \A d \in Devices : SubAt(q, d)' # Absent =>
             SubAt(q, d)' = SubAt(p, d) /\ SubAt(p, d).id \in spread'
        /\ \A o \in Paths \ {q}, d \in Devices : SubAt(o, d)' = SubAt(o, d)
    <2>1. CASE coll' = Copied(p, q) /\ spread' = spread \cup SubIds(p)
      <3>1. coll[p] \in Collections /\ coll' = [coll EXCEPT ![q] = coll[p]]
        BY <1>1, <1>2, <2>1 DEF TypeOK, Copied
      <3>2. \A d \in Devices : SubAt(q, d)' = SubAt(p, d)
        BY <1>1, <1>2, <3>1, CollectionPut DEF SubAt
      <3>3. \A d \in Devices : SubAt(p, d) # Absent => SubAt(p, d).id \in spread'
        BY <2>1, Listed
      <3> QED
        BY <1>1, <3>1, <3>2, <3>3, CollectionPut
    <2>2. CASE coll' = [coll EXCEPT ![q] = Plain]
      <3>0. coll' = [coll EXCEPT ![q] = Plain] /\ Plain \in Collections \cup {Absent}
        BY <2>2, NewCollections
      <3>1. \A d \in Devices : SubAt(q, d)' = Absent
        BY <1>1, <3>0, NewCollections, CollectionPut
      <3> QED
        BY <1>1, <3>0, <3>1, CollectionPut
    <2> QED
      BY <1>2, <2>1, <2>2
  <1>4. /\ ack' \in [Devices -> Promises \cup {Absent}]
        /\ \A d \in Devices : ack'[d] # Absent =>
             /\ ack[d] # Absent /\ ack'[d].id = ack[d].id /\ ack'[d].expires = ack[d].expires
             /\ ack[d].path \in Paths /\ ack[d].path # q /\ ack'[d].path = ack[d].path
    BY <1>1, <1>2, KeptPromises
  <1>5. /\ UNCHANGED <<index, req, now, quit, raced>> /\ spread \subseteq spread'
        /\ ops' \in 0 .. MaxOps /\ ops' >= ops
    BY <1>1, <1>2, OpsGrow DEF CopyCollection
  <1>7. /\ rounds' \subseteq Rounds
        /\ \A o \in rounds' : /\ o \in rounds \/ \E r \in rounds : o = Void(r)
                              /\ o.path = q => o.owed = {}
    BY <1>1, <1>2, ReleasedRounds
  <1>6. LandStep(q)
    BY <1>3, <1>4, <1>5, <1>7 DEF LandStep
  <1> QED
    BY <1>1, <1>2, <1>3, <1>4, <1>5, <1>6, <1>7 DEF TypeOK, WritesWereAllowed, Matches

LEMMA Moves ==
  ASSUME IInv, MoveCollection
  PROVE  TypeOK' /\ WritesWereAllowed' /\ \E q \in Paths : LandStep(q) /\ rounds' = Released(q)
  <1>1. TypeOK /\ WritesWereAllowed
    BY DEF IInv
  <1>2. PICK p \in Paths, q \in Paths :
          /\ p # q /\ coll[p] # Absent
          /\ coll' = Moved(p, q)
          /\ ack' = Kept({q}, p, q)
          /\ spread' = spread \cup SubIds(p)
          /\ raced' = raced \cup Outrun(p, q)
          /\ rounds' = Released(q)
    BY DEF MoveCollection
  <1>3. /\ coll' \in [Paths -> Collections \cup {Absent}]
        /\ coll'[q] = coll[p] /\ coll'[p] = Absent
        /\ \A o \in Paths \ {p, q} : coll'[o] = coll[o]
    BY <1>1, <1>2 DEF Moved, TypeOK
  <1>4. /\ \A d \in Devices : SubAt(q, d)' = SubAt(p, d) /\ SubAt(p, d)' = Absent
        /\ \A o \in Paths \ {p, q}, d \in Devices : SubAt(o, d)' = SubAt(o, d)
    BY <1>2, <1>3 DEF SubAt
  <1>5. \A d \in Devices : SubAt(p, d) # Absent => SubAt(p, d).id \in spread'
    BY <1>2, Listed
  <1>6. /\ ack' \in [Devices -> Promises \cup {Absent}]
        /\ \A d \in Devices : ack'[d] # Absent =>
             /\ ack[d] # Absent /\ ack'[d].id = ack[d].id /\ ack'[d].expires = ack[d].expires
             /\ ack[d].path \in Paths
             /\ \/ ack[d].path = p /\ ack'[d].path = q
                \/ ack[d].path # p /\ ack[d].path # q /\ ack'[d].path = ack[d].path
    BY <1>1, <1>2, MovedPromises
  <1>7. ASSUME NEW d \in Devices, d \notin raced'
        PROVE  \A r \in rounds : \A s \in Held(r) :
                 r.path = q /\ s.dev = d /\ s.sub.id \in SubIds(p) => s \in SubsOf(p)
    BY <1>2, <1>7 DEF Outrun
  <1>8. /\ UNCHANGED <<index, req, now, quit>> /\ spread \subseteq spread' /\ raced \subseteq raced'
        /\ ops' \in 0 .. MaxOps /\ ops' >= ops
    BY <1>1, <1>2, OpsGrow DEF MoveCollection
  <1>9. /\ rounds' \subseteq Rounds
        /\ \A o \in rounds' : /\ o \in rounds \/ \E r \in rounds : o = Void(r)
                              /\ o.path = q => o.owed = {}
    BY <1>1, <1>2, ReleasedRounds
  <1>10. ASSUME NEW d \in Devices, ack'[d] # Absent
         PROVE  \/ /\ ack'[d].path = ack[d].path
                   /\ SubAt(ack[d].path, d) # Absent => \A o \in Paths :
                        o = ack[d].path => SubAt(o, d)' = SubAt(o, d)
                   /\ ack[d].path # q
                \/ /\ ack'[d].path = q /\ SubAt(q, d)' = SubAt(ack[d].path, d)
                   /\ d \notin raced' => \A r \in rounds : \A s \in Held(r) :
                        r.path = q /\ s.dev = d /\ s.sub.id \in SubIds(ack[d].path) =>
                          s \in SubsOf(ack[d].path)
    <2>1. CASE ack[d].path = p /\ ack'[d].path = q
      BY <1>4, <1>7, <2>1
    <2>2. CASE ack[d].path # p /\ ack[d].path # q /\ ack'[d].path = ack[d].path
      BY <1>4, <1>6, <1>10, <2>2
    <2> QED
      BY <1>6, <1>10, <2>1, <2>2
  <1>11. LandStep(q)
    BY <1>2, <1>4, <1>5, <1>6, <1>8, <1>9, <1>10 DEF LandStep
  <1> QED
    BY <1>1, <1>2, <1>3, <1>6, <1>8, <1>9, <1>11 DEF TypeOK, WritesWereAllowed, Matches

LEMMA VoidTypes ==
  ASSUME TypeOK, NEW r \in rounds
  PROVE  /\ Void(r).path = r.path /\ Void(r).owed = {} /\ Held(Void(r)) = Held(r)
         /\ Void(r).at = r.at /\ Void(r).todo = r.todo /\ Void(r).busy = r.busy
         /\ Void(r).tried = r.tried /\ Void(r).id = r.id
  BY RoundTypes DEF Void, Held, Rounds

LEMMA LandKeeps ==
  ASSUME IInv, TypeOK', NEW q, LandStep(q)
  PROVE  /\ IdsHaveOneOwner' /\ IndexIsRight' /\ PromisesAreKept' /\ GoneIsGone'
         /\ PromisesAreTrue' /\ NobodyIsForgotten'
  <1>1. /\ q \in Paths /\ TypeOK /\ TypeOK' /\ ops' >= ops
        /\ UNCHANGED <<index, req, now, quit>> /\ spread \subseteq spread' /\ raced \subseteq raced'
    BY DEF LandStep, IInv
  <1>2. /\ \A p \in Paths \ {q}, d \in Devices : SubAt(p, d)' # Absent => SubAt(p, d)' = SubAt(p, d)
        /\ \A d \in Devices : SubAt(q, d)' # Absent =>
             \E p \in Paths : SubAt(q, d)' = SubAt(p, d) /\ SubAt(p, d).id \in spread'
    BY DEF LandStep
  <1>3. \A d \in Devices : ack'[d] # Absent =>
          /\ ack[d] # Absent /\ ack'[d].id = ack[d].id /\ ack'[d].expires = ack[d].expires
          /\ ack[d].path \in Paths
    BY <1>1 DEF LandStep, TypeOK, Promises
  <1>4. \A o \in rounds' :
          \E r \in rounds : /\ o.path = r.path /\ Held(o) = Held(r)
                            /\ \A x : x \in o.owed => x \in r.owed
    BY <1>1, VoidTypes DEF LandStep
  <1>5. IdsHaveOneOwner'
    <2>1. ASSUME NEW p \in Paths, NEW s \in SubsOf(p)' PROVE s \in Known
      <3>1. PICK d \in Devices : SubAt(p, d)' # Absent /\ s = [dev |-> d, sub |-> SubAt(p, d)']
        BY <2>1, Listed
      <3>2. PICK o \in Paths : SubAt(p, d)' = SubAt(o, d)
        BY <1>2, <3>1
      <3>3. SubAt(o, d) # Absent /\ s = [dev |-> d, sub |-> SubAt(o, d)]
        BY <3>1, <3>2
      <3>4. s \in SubsOf(o)
        BY <3>3, Listed
      <3> QED
        BY <3>4, KnownFrom
    <2>2. ASSUME NEW o \in rounds', NEW s, s \in Held(o) \/ s \in o.owed PROVE s \in Known
      BY <1>4, <2>2, KnownFrom
    <2>3. Known' \subseteq Known
      BY <2>1, <2>2, KnownFrom
    <2> QED
      BY <1>1, <1>3, <2>3, OwnersStay DEF IInv
  <1>6. ASSUME NEW p \in Paths, NEW i, i \in SubIds(p)'
        PROVE  i \in spread' \/ (p # q /\ i \in SubIds(p))
    <2>1. PICK d \in Devices : SubAt(p, d)' # Absent /\ i = SubAt(p, d)'.id
      BY <1>6, Listed
    <2>2. CASE p = q
      BY <1>2, <2>1, <2>2
    <2>3. CASE p # q
      <3>1. SubAt(p, d) # Absent /\ i = SubAt(p, d).id
        BY <1>2, <2>1, <2>3
      <3> QED
        BY <2>3, <3>1, Listed
    <2> QED
      BY <2>2, <2>3
  <1>7. IndexIsRight' /\ GoneIsGone'
    <2>1. IndexIsRight'
      BY <1>1, <1>6 DEF IInv, IndexIsRight
    <2>2. GoneIsGone'
      BY <1>1, <1>6 DEF IInv, GoneIsGone
    <2> QED
      BY <2>1, <2>2
  <1>8. PromisesAreKept'
    <2> SUFFICES ASSUME NEW d \in Devices, ack'[d] # Absent, now' < ack'[d].expires,
                        d \notin raced', NEW p, p = ack'[d].path
                 PROVE  SubAt(p, d)' # Absent /\ SubAt(p, d)'.id = ack'[d].id
      BY DEF PromisesAreKept, SubAt
    <2>1. /\ ack[d] # Absent /\ ack'[d].id = ack[d].id /\ now < ack[d].expires
          /\ d \notin raced /\ ack[d].path \in Paths
      BY <1>1, <1>3
    <2>2. SubAt(ack[d].path, d) # Absent /\ SubAt(ack[d].path, d).id = ack[d].id
      BY <2>1 DEF IInv, PromisesAreKept, SubAt
    <2>3. CASE p = ack[d].path /\ p # q
      <3>1. \A o \in Paths : o = ack[d].path => SubAt(o, d)' = SubAt(o, d)
        BY <2>2, <2>3, <1>1 DEF LandStep
      <3> QED
        BY <2>1, <2>2, <2>3, <3>1
    <2>4. CASE p = q
      <3>1. SubAt(q, d)' = SubAt(ack[d].path, d)
        BY <2>4 DEF LandStep
      <3> QED
        BY <2>1, <2>2, <2>4, <3>1
    <2> QED
      BY <2>3, <2>4 DEF LandStep
  <1>9. PromisesAreTrue'
    <2> SUFFICES ASSUME NEW d \in Devices, ack'[d] # Absent, NEW p, p = ack'[d].path,
                        SubAt(p, d)' # Absent, SubAt(p, d)'.id = ack'[d].id
                 PROVE  /\ SubAt(p, d)'.expires = ack'[d].expires
                        /\ d \notin raced' =>
                             \A o \in rounds' : \A s \in Held(o) :
                               o.path = p /\ s.dev = d /\ s.sub.id = ack'[d].id =>
                                 s.sub.expires = ack'[d].expires
      BY DEF PromisesAreTrue, HasPromised, SubAt, Held
    <2>1. /\ ack[d] # Absent /\ ack'[d].id = ack[d].id /\ ack'[d].expires = ack[d].expires
          /\ ack[d].path \in Paths
      BY <1>3
    <2>2. ASSUME SubAt(ack[d].path, d) # Absent, SubAt(ack[d].path, d).id = ack[d].id
          PROVE  /\ SubAt(ack[d].path, d).expires = ack[d].expires
                 /\ d \notin raced' =>
                      \A r \in rounds : \A s \in Held(r) :
                        r.path = ack[d].path /\ s.dev = d /\ s.sub.id = ack[d].id =>
                          s.sub.expires = ack[d].expires
      BY <1>1, <2>1, <2>2 DEF IInv, PromisesAreTrue, HasPromised, SubAt
    <2>3. CASE p = ack[d].path /\ p # q
      <3>1. SubAt(p, d)' = SubAt(p, d)
        BY <1>2, <2>1, <2>3
      <3>2. SubAt(p, d).expires = ack[d].expires /\ SubAt(p, d) # Absent /\ SubAt(p, d).id = ack[d].id
        BY <2>1, <2>2, <2>3, <3>1
      <3>3. ASSUME d \notin raced', NEW o \in rounds', NEW s \in Held(o),
                   o.path = p, s.dev = d, s.sub.id = ack[d].id
            PROVE  s.sub.expires = ack[d].expires
        <4>1. PICK r \in rounds : o.path = r.path /\ Held(o) = Held(r)
          BY <1>4
        <4> QED
          BY <2>2, <2>3, <3>2, <3>3, <4>1
      <3> QED
        BY <2>1, <3>1, <3>2, <3>3
    <2>4. CASE p = q
      <3>1. /\ SubAt(q, d)' = SubAt(ack[d].path, d)
            /\ d \notin raced' => \A r \in rounds : \A s \in Held(r) :
                 r.path = q /\ s.dev = d /\ s.sub.id \in SubIds(ack[d].path) =>
                   s \in SubsOf(ack[d].path)
        BY <2>4 DEF LandStep
      <3>2. /\ SubAt(ack[d].path, d).expires = ack[d].expires
            /\ SubAt(ack[d].path, d) # Absent /\ SubAt(ack[d].path, d).id = ack[d].id
        BY <2>1, <2>2, <2>4, <3>1
      <3>3. ASSUME d \notin raced', NEW o \in rounds', NEW s \in Held(o),
                   o.path = q, s.dev = d, s.sub.id = ack[d].id
            PROVE  s.sub.expires = ack[d].expires
        <4>1. PICK r \in rounds : o.path = r.path /\ Held(o) = Held(r)
          BY <1>4
        <4>2. s.sub.id \in SubIds(ack[d].path)
          BY <3>2, <3>3, Listed
        <4>3. s \in SubsOf(ack[d].path)
          BY <3>1, <3>3, <4>1, <4>2
        <4>4. PICK e \in Devices : s = [dev |-> e, sub |-> SubAt(ack[d].path, e)]
          BY <4>3, Listed
        <4>5. s.sub = SubAt(ack[d].path, d)
          BY <3>3, <4>4
        <4> QED
          BY <3>2, <4>5
      <3> QED
        BY <2>1, <2>4, <3>1, <3>2, <3>3
    <2> QED
      BY <2>3, <2>4 DEF LandStep
  <1>10. NobodyIsForgotten'
    <2> SUFFICES ASSUME NEW o \in rounds'
                 PROVE  /\ o.at = Absent => o.todo = {} /\ o.busy = Absent
                        /\ o.at # Absent => o.at <= now
                        /\ o.busy # Absent => o.busy \in o.tried
                        /\ \A x \in o.owed :
                             /\ x.dev \notin o.quiet /\ o.kind \in Triggers[x.dev]
                             /\ o.at # Absent /\ x.dev \notin {t.dev : t \in o.tried} =>
                                  \/ SubAt(o.path, x.dev)' = Absent
                                  \/ SubAt(o.path, x.dev)'.id # x.sub.id
                                  \/ \E t \in o.todo : t.dev = x.dev /\ t.sub.id = x.sub.id
      BY <1>1 DEF NobodyIsForgotten, SubAt
    <2>1. CASE o \in rounds
      <3>1. /\ o.at = Absent => o.todo = {} /\ o.busy = Absent
            /\ o.at # Absent => o.at <= now
            /\ o.busy # Absent => o.busy \in o.tried
            /\ \A x \in o.owed :
                 /\ x.dev \notin o.quiet /\ o.kind \in Triggers[x.dev]
                 /\ o.at # Absent /\ x.dev \notin {t.dev : t \in o.tried} =>
                      \/ SubAt(o.path, x.dev) = Absent
                      \/ SubAt(o.path, x.dev).id # x.sub.id
                      \/ \E t \in o.todo : t.dev = x.dev /\ t.sub.id = x.sub.id
        BY <2>1 DEF IInv, NobodyIsForgotten, SubAt
      <3>2. \A x \in o.owed : x.dev \in Devices /\ o.path \in Paths
        BY <1>1, <2>1, RoundTypes
      <3>3. \A x \in o.owed : \/ SubAt(o.path, x.dev)' = Absent
                              \/ SubAt(o.path, x.dev)' = SubAt(o.path, x.dev)
        <4>1. CASE o.path = q
          BY <3>2, <4>1 DEF LandStep
        <4>2. CASE o.path # q
          BY <1>2, <3>2, <4>2
        <4> QED
          BY <4>1, <4>2
      <3> QED
        BY <3>1, <3>3
    <2>2. ASSUME NEW r \in rounds, o = Void(r)
          PROVE  /\ o.at = Absent => o.todo = {} /\ o.busy = Absent
                 /\ o.at # Absent => o.at <= now
                 /\ o.busy # Absent => o.busy \in o.tried
                 /\ o.owed = {}
      BY <1>1, <2>2, VoidTypes DEF IInv, NobodyIsForgotten
    <2> QED
      BY <2>1, <2>2 DEF LandStep
  <1> QED
    BY <1>5, <1>7, <1>8, <1>9, <1>10

-----------------------------------------------------------------------------
(* Subscriptions that end.                                                 *)

LEMMA Endings ==
  ASSUME IInv, NEW d \in Devices, Unregister(d)
  PROVE  /\ TypeOK' /\ WritesWereAllowed'
         /\ ack[d] # Absent /\ ack[d].id \in Ids
         /\ \A o \in Paths, e \in Devices :
              \/ SubAt(o, e)' = SubAt(o, e) /\ (SubAt(o, e) # Absent /\ SubAt(o, e).id = ack[d].id =>
                                                   index[ack[d].id] # o)
              \/ SubAt(o, e)' = Absent /\ SubAt(o, e) # Absent /\ SubAt(o, e).id = ack[d].id
         /\ ack'[d] = Absent /\ \A e \in Devices \ {d} : ack'[e] = ack[e]
         /\ index'[ack[d].id] = Absent /\ \A i \in Ids \ {ack[d].id} : index'[i] = index[i]
         /\ quit' = quit \cup {ack[d].id}
         /\ UNCHANGED <<req, rounds, now, spread, raced>> /\ ops' >= ops
  <1>1. TypeOK /\ WritesWereAllowed /\ ack[d] # Absent /\ CountOp
    BY DEF IInv, Unregister
  <1>2. ack[d] \in Promises /\ ack[d].id \in Ids
    BY <1>1 DEF TypeOK, Promises
  <1> DEFINE i == ack[d].id
             p == FoundAt(i)
  <1>3. /\ index' = [index EXCEPT ![i] = Absent]
        /\ coll' = IF p = Absent THEN coll ELSE Without(p, {s \in SubsOf(p) : s.sub.id = i})
        /\ quit' = quit \cup {i}
        /\ ack' = [ack EXCEPT ![d] = Absent]
        /\ UNCHANGED <<req, rounds, now, spread, raced>>
    BY DEF Unregister
  <1>4. i \in Ids
    BY <1>2
  <1>5. /\ \A o \in Paths : coll[o] # Absent /\ index[i] = o => p = o
        /\ p # Absent => p \in Paths
    BY <1>1, <1>4, Sorts DEF FoundAt, TypeOK
  <1> HIDE DEF i, p
  <1>6. CASE p = Absent
    <2>1. coll' \in [Paths -> Collections \cup {Absent}]
      BY <1>1, <1>3, <1>6 DEF TypeOK
    <2>2. \A o \in Paths, e \in Devices :
            SubAt(o, e)' = SubAt(o, e) /\ (SubAt(o, e) # Absent => index[i] # o)
      BY <1>3, <1>5, <1>6, Sorts DEF SubAt
    <2>3. TypeOK' /\ WritesWereAllowed'
      BY <1>1, <1>3, <1>4, <2>1, OpsGrow DEF TypeOK, WritesWereAllowed, Matches
    <2> QED
      BY <1>1, <1>2, <1>3, <2>2, <2>3, OpsGrow DEF i, TypeOK
  <1>7. CASE p # Absent
    <2> DEFINE S == {s \in SubsOf(p) : s.sub.id = i}
    <2>1. p \in Paths /\ coll' = Without(p, S)
      BY <1>3, <1>5, <1>7
    <2>2. ASSUME NEW o \in Paths, NEW e \in Devices
          PROVE  Leaves(S, p, o, e) <=> o = p /\ SubAt(o, e) # Absent /\ SubAt(o, e).id = i
      <3>1. ASSUME SubAt(p, e) # Absent, SubAt(p, e).id = i
            PROVE  \E s \in S : SubAt(p, e).id = s.sub.id
        <4> DEFINE s == [dev |-> e, sub |-> SubAt(p, e)]
        <4>1. s \in SubsOf(p) /\ s.sub = SubAt(p, e)
          BY <3>1, Listed
        <4> HIDE DEF s
        <4> QED
          BY <3>1, <4>1
      <3> QED
        BY <3>1 DEF Leaves
    <2> HIDE DEF S
    <2>3. /\ coll' \in [Paths -> Collections \cup {Absent}]
          /\ \A o \in Paths, e \in Devices :
               SubAt(o, e)' = IF Leaves(S, p, o, e) THEN Absent ELSE SubAt(o, e)
      BY <1>1, <2>1, WithoutSubs
    <2>4. TypeOK' /\ WritesWereAllowed'
      BY <1>1, <1>3, <1>4, <2>3, OpsGrow DEF TypeOK, WritesWereAllowed, Matches
    <2>5. \A o \in Paths, e \in Devices : SubAt(o, e) # Absent => coll[o] # Absent
      BY DEF SubAt
    <2>6. \A o \in Paths, e \in Devices :
            \/ SubAt(o, e)' = SubAt(o, e) /\ (SubAt(o, e) # Absent /\ SubAt(o, e).id = i =>
                                                 index[i] # o)
            \/ SubAt(o, e)' = Absent /\ SubAt(o, e) # Absent /\ SubAt(o, e).id = i
      BY <1>5, <2>2, <2>3, <2>5
    <2> QED
      BY <1>1, <1>2, <1>3, <2>4, <2>6, OpsGrow DEF i, TypeOK
  <1> QED
    BY <1>6, <1>7

LEMMA EndingKeeps ==
  ASSUME IInv, NEW d \in Devices, Unregister(d)
  PROVE  /\ IdsHaveOneOwner' /\ IndexIsRight' /\ PromisesAreKept' /\ GoneIsGone'
         /\ PromisesAreTrue' /\ NobodyIsForgotten'
  <1>1. TypeOK /\ TypeOK' /\ ack[d] # Absent
    BY Endings DEF IInv
  <1> DEFINE i == ack[d].id
  <1>2. /\ i \in Ids
        /\ \A o \in Paths, e \in Devices :
             \/ SubAt(o, e)' = SubAt(o, e) /\ (SubAt(o, e) # Absent /\ SubAt(o, e).id = i =>
                                                  index[i] # o)
             \/ SubAt(o, e)' = Absent /\ SubAt(o, e) # Absent /\ SubAt(o, e).id = i
        /\ ack'[d] = Absent /\ \A e \in Devices \ {d} : ack'[e] = ack[e]
        /\ \A j \in Ids \ {i} : index'[j] = index[j]
        /\ quit' = quit \cup {i}
        /\ UNCHANGED <<req, rounds, now, spread, raced>> /\ ops' >= ops
    BY Endings
  <1>3. \A e \in Devices \ {d} : ack[e] # Absent => ack[e].path \in Paths /\ ack[e].id # i
    BY <1>1, OneOwner DEF IInv, TypeOK, Promises
  <1> HIDE DEF i
  <1>4. ASSUME NEW p \in Paths, NEW j, j \in SubIds(p)'
        PROVE  j \in SubIds(p) /\ j \in Ids /\ (j = i => index[i] # p)
    <2>1. PICK e \in Devices : SubAt(p, e)' # Absent /\ j = SubAt(p, e)'.id
      BY <1>4, Listed
    <2>2. /\ SubAt(p, e) # Absent /\ SubAt(p, e).id = j
          /\ SubAt(p, e).id = i => index[i] # p
      BY <1>2, <2>1
    <2>3. j \in SubIds(p)
      BY <2>2, Listed
    <2> QED
      BY <1>1, <2>2, <2>3, ListedTypes
  <1>5. IndexIsRight' /\ GoneIsGone'
    BY <1>2, <1>4 DEF IInv, IndexIsRight, GoneIsGone
  <1>6. IdsHaveOneOwner'
    <2>1. ASSUME NEW p \in Paths, NEW s \in SubsOf(p)' PROVE s \in SubsOf(p)
      <3>1. PICK e \in Devices : SubAt(p, e)' # Absent /\ s = [dev |-> e, sub |-> SubAt(p, e)']
        BY <2>1, Listed
      <3>2. SubAt(p, e)' = SubAt(p, e)
        BY <1>2, <3>1
      <3> QED
        BY <3>1, <3>2, Listed
    <2>2. rounds' = rounds
      BY <1>2
    <2>3. Known' \subseteq Known
      BY <2>1, <2>2, KnownFrom
    <2>4. \A e \in Devices : ack'[e] # Absent => ack[e] # Absent /\ ack'[e].id = ack[e].id
      BY <1>2
    <2>5. IdsHaveOneOwner /\ ops' >= ops
      BY <1>2 DEF IInv
    <2> QED
      BY <1>1, <2>3, <2>4, <2>5, OwnersStay
  <1>7. PromisesAreKept'
    <2> SUFFICES ASSUME NEW e \in Devices, ack'[e] # Absent, now' < ack'[e].expires,
                        e \notin raced', NEW p, p = ack'[e].path
                 PROVE  SubAt(p, e)' # Absent /\ SubAt(p, e)'.id = ack'[e].id
      BY DEF PromisesAreKept, SubAt
    <2>1. e # d /\ ack'[e] = ack[e] /\ now' = now /\ raced' = raced /\ p \in Paths /\ ack[e].id # i
      BY <1>2, <1>3
    <2>2. SubAt(p, e) # Absent /\ SubAt(p, e).id = ack[e].id
      BY <2>1 DEF IInv, PromisesAreKept, SubAt
    <2> QED
      BY <1>2, <2>1, <2>2
  <1>8. PromisesAreTrue'
    <2> SUFFICES ASSUME NEW e \in Devices, ack'[e] # Absent, NEW p, p = ack'[e].path,
                        SubAt(p, e)' # Absent, SubAt(p, e)'.id = ack'[e].id
                 PROVE  /\ SubAt(p, e)'.expires = ack'[e].expires
                        /\ e \notin raced' =>
                             \A o \in rounds' : \A s \in Held(o) :
                               o.path = p /\ s.dev = e /\ s.sub.id = ack'[e].id =>
                                 s.sub.expires = ack'[e].expires
      BY DEF PromisesAreTrue, HasPromised, SubAt, Held
    <2>1. e # d /\ ack'[e] = ack[e] /\ raced' = raced /\ rounds' = rounds /\ p \in Paths
      BY <1>2, <1>3
    <2>2. SubAt(p, e)' = SubAt(p, e)
      BY <1>2, <2>1
    <2> QED
      BY <2>1, <2>2 DEF IInv, PromisesAreTrue, HasPromised, SubAt
  <1>9. NobodyIsForgotten'
    <2>1. \A r \in rounds : \A x \in r.owed :
            SubAt(r.path, x.dev)' = SubAt(r.path, x.dev) \/ SubAt(r.path, x.dev)' = Absent
      BY <1>1, <1>2, RoundTypes
    <2>2. now' = now /\ rounds' = rounds
      BY <1>2
    <2> QED
      BY <2>1, <2>2 DEF IInv, NobodyIsForgotten, SubAt
  <1> QED
    BY <1>5, <1>6, <1>7, <1>8, <1>9

-----------------------------------------------------------------------------
(* Subscriptions that begin or are renewed.                                *)

\* The device has what it has asked for, under the id it had or a fresh one.
Registered(d, p, sub) ==
  /\ p \in Paths /\ sub \in Subscriptions
  /\ SubAt(p, d)' = sub
  /\ \A o \in Paths, e \in Devices : o # p \/ e # d => SubAt(o, e)' = SubAt(o, e)
  /\ IF SubAt(p, d) # Absent THEN sub.id = SubAt(p, d).id ELSE sub.id = ops + 1
  /\ \A e \in Devices \ {d} : ack'[e] = ack[e]
  /\ ack'[d] # Absent /\ ack'[d].id = sub.id /\ ack'[d].path = p /\ ack'[d].expires = sub.expires
  /\ index'[sub.id] = p /\ \A j \in Ids \ {sub.id} : index'[j] = index[j]
  /\ \A j : j \in quit' <=> j \in quit /\ j # sub.id
  /\ \A e \in Devices \ {d} : e \in raced' <=> e \in raced
  /\ d \notin raced' => \A r \in rounds : \A s \in Held(r) : s.dev # d
  /\ UNCHANGED <<req, rounds, now, spread>> /\ ops' = ops + 1

LEMMA Registrations ==
  ASSUME IInv, NEW d \in Devices, Register(d)
  PROVE  TypeOK' /\ WritesWereAllowed' /\ \E p, sub : Registered(d, p, sub)
  <1>1. TypeOK /\ WritesWereAllowed /\ CountOp
    BY DEF IInv, Register
  <1>2. PICK p \in Paths, asked \in Requested(d) :
       LET sub == [id |-> IdFor(p, d), expires |-> Expiry(asked)] IN
       /\ coll[p] # Absent
       /\ ack[d] # Absent => ack[d].path = p
       /\ coll' = [coll EXCEPT ![p].subs[d] = sub]
       /\ index' = [index EXCEPT ![sub.id] = p]
       /\ ack' = [ack EXCEPT ![d] = [id |-> sub.id, path |-> p, expires |-> sub.expires]]
       /\ quit' = quit \ {sub.id}
    BY DEF Register
  <1> DEFINE sub == [id |-> IdFor(p, d), expires |-> Expiry(asked)]
             said == [id |-> sub.id, path |-> p, expires |-> sub.expires]
  <1>3. coll[p] \in Collections /\ SubAt(p, d) = coll[p].subs[d]
    BY <1>1, <1>2 DEF TypeOK, SubAt
  <1>4. ops' = ops + 1 /\ ops \in Nat /\ ops' \in Ids /\ ops' \in 0 .. MaxOps
    BY <1>1, OpsGrow DEF Ids
  <1>5. IdFor(p, d) = IF SubAt(p, d) # Absent THEN SubAt(p, d).id ELSE ops + 1
    BY <1>3, <1>4 DEF IdFor
  <1>6. IdFor(p, d) \in Ids
    BY <1>1, <1>4, <1>5, SubTypes DEF Subscriptions
  <1>7. Expiry(asked) \in Nat
    <2>1. now \in Nat /\ Lifetime \in Nat /\ Asked \subseteq Nat
      BY <1>1, DavAssumption DEF TypeOK
    <2>2. CASE asked = Absent
      BY <2>1, <2>2 DEF Expiry
    <2>3. CASE asked # Absent
      <3>1. asked \in Asked
        BY <2>3 DEF Requested
      <3> QED
        BY <2>1, <2>3, <3>1 DEF Expiry
    <2> QED
      BY <2>2, <2>3
  <1>8. sub \in Subscriptions /\ sub.id = IdFor(p, d) /\ sub.id \in Ids
    BY <1>6, <1>7 DEF Subscriptions
  <1>9. /\ said \in Promises /\ said.id = sub.id /\ said.path = p /\ said.expires = sub.expires
    BY <1>8 DEF Promises, Subscriptions
  <1>10. /\ coll' = [coll EXCEPT ![p].subs[d] = sub]
         /\ index' = [index EXCEPT ![sub.id] = p]
         /\ ack' = [ack EXCEPT ![d] = said]
         /\ quit' = quit \ {sub.id}
    BY <1>2
  <1> HIDE DEF sub, said
  <1>11. /\ coll' \in [Paths -> Collections \cup {Absent}]
         /\ SubAt(p, d)' = sub
         /\ \A o \in Paths, e \in Devices : o # p \/ e # d => SubAt(o, e)' = SubAt(o, e)
    <2> DEFINE c == [coll[p] EXCEPT !.subs = [coll[p].subs EXCEPT ![d] = sub]]
    <2>1. coll' = [coll EXCEPT ![p] = c]
      BY <1>10
    <2>2. [coll[p].subs EXCEPT ![d] = sub] \in [Devices -> Subscriptions \cup {Absent}]
      BY <1>3, <1>8 DEF Collections
    <2>3. c \in Collections /\ c.subs = [coll[p].subs EXCEPT ![d] = sub]
      BY <1>3, <2>2 DEF Collections
    <2>4. c.subs[d] = sub /\ \A e \in Devices \ {d} : c.subs[e] = coll[p].subs[e]
      BY <1>3, <2>3 DEF Collections
    <2> HIDE DEF c
    <2>5. c # Absent
      BY <2>3, Sorts
    <2>6. /\ coll' \in [Paths -> Collections \cup {Absent}]
          /\ \A e \in Devices : SubAt(p, e)' = c.subs[e]
          /\ \A o \in Paths \ {p}, e \in Devices : SubAt(o, e)' = SubAt(o, e)
      BY <1>1, <2>1, <2>3, <2>5, CollectionPut
    <2>7. \A e \in Devices : SubAt(p, e) = coll[p].subs[e]
      BY <1>2 DEF SubAt
    <2> QED
      BY <2>4, <2>6, <2>7
  <1>12. /\ ack' \in [Devices -> Promises \cup {Absent}]
         /\ ack'[d] = said /\ \A e \in Devices \ {d} : ack'[e] = ack[e]
    BY <1>1, <1>9, <1>10 DEF TypeOK
  <1>13. said # Absent
    BY <1>9, Sorts
  <1>14. /\ index' \in [Ids -> Paths \cup {Absent}]
         /\ index'[sub.id] = p /\ \A j \in Ids \ {sub.id} : index'[j] = index[j]
    BY <1>1, <1>8, <1>10 DEF TypeOK
  <1>15. /\ \A e \in Devices \ {d} : e \in raced' <=> e \in raced
         /\ d \notin raced' => \A r \in rounds : \A s \in Held(r) : s.dev # d
         /\ UNCHANGED <<req, rounds, now, spread>>
    BY DEF Register
  <1>16. Registered(d, p, sub)
    BY <1>4, <1>5, <1>8, <1>9, <1>10, <1>11, <1>12, <1>13, <1>14, <1>15 DEF Registered
  <1>17. TypeOK' /\ WritesWereAllowed'
    BY <1>1, <1>4, <1>11, <1>12, <1>14, <1>15 DEF TypeOK, WritesWereAllowed, Matches
  <1> QED
    BY <1>16, <1>17

LEMMA RegistrationKeeps ==
  ASSUME IInv, TypeOK', NEW d \in Devices, NEW p, NEW sub, Registered(d, p, sub)
  PROVE  /\ IdsHaveOneOwner' /\ IndexIsRight' /\ PromisesAreKept' /\ GoneIsGone'
         /\ PromisesAreTrue' /\ NobodyIsForgotten'
  <1>1. /\ TypeOK /\ p \in Paths /\ sub \in Subscriptions /\ sub.id \in Ids
        /\ ops \in Nat /\ ops' \in Nat /\ ops' = ops + 1
    BY DavAssumption DEF Registered, IInv, TypeOK, Subscriptions
  <1>2. /\ SubAt(p, d)' = sub
        /\ \A o \in Paths, e \in Devices : o # p \/ e # d => SubAt(o, e)' = SubAt(o, e)
        /\ SubAt(p, d) # Absent => sub.id = SubAt(p, d).id
        /\ SubAt(p, d) = Absent => sub.id = ops + 1
    BY DEF Registered
  <1>3. /\ \A e \in Devices \ {d} : ack'[e] = ack[e]
        /\ ack'[d].id = sub.id /\ ack'[d].path = p /\ ack'[d].expires = sub.expires
        /\ UNCHANGED <<req, rounds, now, spread>>
        /\ \A e \in Devices \ {d} : e \in raced' <=> e \in raced
        /\ d \notin raced' => \A r \in rounds : \A s \in Held(r) : s.dev # d
    BY DEF Registered
  <1>4. /\ index'[sub.id] = p /\ \A j \in Ids \ {sub.id} : index'[j] = index[j]
        /\ \A j : j \in quit' <=> j \in quit /\ j # sub.id
    BY DEF Registered
  <1>5. \A e \in Devices : ack[e] # Absent => ack[e].path \in Paths
    BY <1>1 DEF TypeOK, Promises
  \* An id that is in a file was given before this request.
  <1>6. ASSUME NEW o \in Paths, NEW e \in Devices, SubAt(o, e) # Absent
        PROVE  /\ [dev |-> e, sub |-> SubAt(o, e)] \in Known
               /\ SubAt(o, e).id \in SubIds(o) /\ SubAt(o, e).id \in Ids /\ SubAt(o, e).id <= ops
    <2> DEFINE s == [dev |-> e, sub |-> SubAt(o, e)]
    <2>1. s \in SubsOf(o) /\ SubAt(o, e).id \in SubIds(o)
      BY <1>6, Listed
    <2>2. s \in Known /\ s.sub = SubAt(o, e)
      BY <2>1, KnownFrom
    <2>3. SubAt(o, e).id \in Ids
      BY <1>1, <1>6, SubTypes DEF Subscriptions
    <2> HIDE DEF s
    <2>4. SubAt(o, e).id <= ops
      BY <1>1, <2>2, OneOwner DEF IInv
    <2> QED
      BY <2>1, <2>2, <2>3, <2>4 DEF s
  <1>7. ASSUME NEW o \in Paths, NEW j, j \in SubIds(o)'
        PROVE  \/ o = p /\ j = sub.id
               \/ /\ j \in SubIds(o) /\ j \in Ids
                  /\ j = sub.id => j \in SubIds(p)
    <2>1. PICK e \in Devices : SubAt(o, e)' # Absent /\ j = SubAt(o, e)'.id
      BY <1>7, Listed
    <2>2. CASE o = p /\ e = d
      BY <1>2, <2>1, <2>2
    <2>3. CASE o # p \/ e # d
      <3>1. SubAt(o, e) # Absent /\ j = SubAt(o, e).id
        BY <1>2, <2>1, <2>3
      <3>2. j \in SubIds(o) /\ j \in Ids /\ j <= ops
        BY <1>6, <3>1
      <3>3. ASSUME j = sub.id PROVE j \in SubIds(p)
        <4>1. SubAt(p, d) # Absent
          BY <1>1, <1>2, <3>2, <3>3
        <4> QED
          BY <1>1, <1>2, <1>6, <3>3, <4>1
      <3> QED
        BY <3>2, <3>3
    <2> QED
      BY <2>2, <2>3
  <1>8. IndexIsRight'
    <2> SUFFICES ASSUME NEW o \in Paths, NEW j, j \in SubIds(o)'
                 PROVE  j \in spread \/ index'[j] = o
      BY <1>3 DEF IndexIsRight
    <2>1. /\ \A i \in SubIds(o) : i \in spread \/ index[i] = o
          /\ \A i \in SubIds(p) : i \in spread \/ index[i] = p
      BY <1>1 DEF IInv, IndexIsRight
    <2> QED
      BY <1>4, <1>7, <2>1
  <1>9. GoneIsGone'
    BY <1>3, <1>4, <1>7 DEF IInv, GoneIsGone
  <1>10. IdsHaveOneOwner'
    <2>1. ASSUME NEW s \in Known' PROVE s \in Known \/ (s.sub.id = sub.id /\ s.dev = d)
      <3>1. ASSUME NEW o \in Paths, s \in SubsOf(o)'
            PROVE  s \in Known \/ (s.sub.id = sub.id /\ s.dev = d)
        <4>1. PICK e \in Devices : SubAt(o, e)' # Absent /\ s = [dev |-> e, sub |-> SubAt(o, e)']
          BY <3>1, Listed
        <4>2. CASE o = p /\ e = d
          BY <1>2, <4>1, <4>2
        <4>3. CASE o # p \/ e # d
          <5>1. SubAt(o, e)' = SubAt(o, e)
            BY <1>2, <4>3
          <5> QED
            BY <1>6, <4>1, <5>1
        <4> QED
          BY <4>2, <4>3
      <3>2. rounds' = rounds
        BY <1>3
      <3> QED
        BY <3>1, <3>2, KnownFrom
    <2>2. ASSUME NEW x \in Owners' PROVE x \in Owners \/ x = <<sub.id, d>>
      <3>1. CASE \E s \in Known' : x = <<s.sub.id, s.dev>>
        BY <2>1, <3>1, OwnersFrom
      <3>2. CASE \E e \in Devices : ack'[e] # Absent /\ x = <<ack'[e].id, e>>
        <4>1. PICK e \in Devices : ack'[e] # Absent /\ x = <<ack'[e].id, e>>
          BY <3>2
        <4>2. CASE e = d
          BY <1>3, <4>1, <4>2
        <4>3. CASE e # d
          BY <1>3, <4>1, <4>3, OwnersFrom
        <4> QED
          BY <4>2, <4>3
      <3> QED
        BY <3>1, <3>2, OwnersFrom
    <2>3. \A x \in Owners : x[1] \in Nat /\ x[1] <= ops
      BY <1>1, OwnersTypes DEF Ids, IInv, IdsHaveOneOwner
    <2>4. sub.id <= ops + 1 /\ \A x \in Owners : x[1] = sub.id => x[2] = d
      <3>1. CASE SubAt(p, d) # Absent
        <4> DEFINE s == [dev |-> d, sub |-> SubAt(p, d)]
        <4>1. s \in Known /\ s.sub.id = sub.id /\ s.dev = d /\ sub.id <= ops
          BY <1>1, <1>2, <1>6, <3>1
        <4> HIDE DEF s
        <4>2. <<sub.id, d>> \in Owners
          BY <4>1, OwnersFrom
        <4>3. \A x \in Owners : x[1] = sub.id => x[2] = d
          BY <4>2 DEF IInv, IdsHaveOneOwner
        <4> QED
          BY <1>1, <4>1, <4>3 DEF Ids
      <3>2. CASE SubAt(p, d) = Absent
        BY <1>1, <1>2, <2>3, <3>2
      <3> QED
        BY <3>1, <3>2
    <2>5. \A x, y \in Owners : x[1] = y[1] => x[2] = y[2]
      BY DEF IInv, IdsHaveOneOwner
    <2>6. \A x \in Owners' : x[1] <= ops'
      BY <1>1, <2>2, <2>3, <2>4
    <2>7. \A x, y \in Owners' : x[1] = y[1] => x[2] = y[2]
      BY <2>2, <2>4, <2>5
    <2> QED
      BY <2>6, <2>7 DEF IdsHaveOneOwner
  <1>11. PromisesAreKept'
    <2> SUFFICES ASSUME NEW e \in Devices, ack'[e] # Absent, now' < ack'[e].expires,
                        e \notin raced', NEW o, o = ack'[e].path
                 PROVE  SubAt(o, e)' # Absent /\ SubAt(o, e)'.id = ack'[e].id
      BY DEF PromisesAreKept, SubAt
    <2>1. CASE e = d
      BY <1>1, <1>2, <1>3, <2>1, Sorts
    <2>2. CASE e # d
      <3>1. ack'[e] = ack[e] /\ now' = now /\ e \notin raced /\ o \in Paths
        BY <1>3, <1>5, <2>2
      <3>2. SubAt(o, e) # Absent /\ SubAt(o, e).id = ack[e].id
        BY <3>1 DEF IInv, PromisesAreKept, SubAt
      <3> QED
        BY <1>2, <2>2, <3>1, <3>2
    <2> QED
      BY <2>1, <2>2
  <1>12. PromisesAreTrue'
    <2> SUFFICES ASSUME NEW e \in Devices, ack'[e] # Absent, NEW o, o = ack'[e].path,
                        SubAt(o, e)' # Absent, SubAt(o, e)'.id = ack'[e].id
                 PROVE  /\ SubAt(o, e)'.expires = ack'[e].expires
                        /\ e \notin raced' =>
                             \A r \in rounds' : \A s \in Held(r) :
                               r.path = o /\ s.dev = e /\ s.sub.id = ack'[e].id =>
                                 s.sub.expires = ack'[e].expires
      BY DEF PromisesAreTrue, HasPromised, SubAt, Held
    <2>1. CASE e = d
      BY <1>2, <1>3, <2>1
    <2>2. CASE e # d
      <3>1. ack'[e] = ack[e] /\ rounds' = rounds /\ (e \in raced' <=> e \in raced) /\ o \in Paths
        BY <1>3, <1>5, <2>2
      <3>2. SubAt(o, e)' = SubAt(o, e)
        BY <1>2, <2>2, <3>1
      <3> QED
        BY <3>1, <3>2 DEF IInv, PromisesAreTrue, HasPromised, SubAt
    <2> QED
      BY <2>1, <2>2
  <1>13. NobodyIsForgotten'
    <2>1. ASSUME NEW r \in rounds, NEW x \in r.owed
          PROVE  \/ SubAt(r.path, x.dev)' = SubAt(r.path, x.dev)
                 \/ SubAt(r.path, x.dev) # Absent /\ SubAt(r.path, x.dev)'.id = SubAt(r.path, x.dev).id
                 \/ SubAt(r.path, x.dev)'.id # x.sub.id
      <3>1. x \in Known /\ r.path \in Paths /\ x.dev \in Devices /\ x.sub.id \in Nat
        BY <1>1, KnownFrom, RoundTypes DEF Ids
      <3>2. x.sub.id <= ops
        BY <1>1, <3>1, OneOwner DEF IInv
      <3>3. CASE r.path = p /\ x.dev = d
        BY <1>1, <1>2, <3>1, <3>2, <3>3
      <3>4. CASE r.path # p \/ x.dev # d
        BY <1>2, <3>1, <3>4
      <3> QED
        BY <3>3, <3>4
    <2>2. now' = now /\ rounds' = rounds
      BY <1>3
    <2> QED
      BY <2>1, <2>2 DEF IInv, NobodyIsForgotten, SubAt
  <1> QED
    BY <1>8, <1>9, <1>10, <1>11, <1>12, <1>13

-----------------------------------------------------------------------------
(* There are never more rounds and requests under way than requests made.  *)

LEMMA Grown ==
  ASSUME NEW S, IsFiniteSet(S), NEW x, NEW T, T \subseteq S \cup {x}
  PROVE  /\ IsFiniteSet(T) /\ Cardinality(T) <= Cardinality(S) + 1
         /\ Cardinality(T) \in Nat /\ Cardinality(S) \in Nat
  <1>1. /\ IsFiniteSet(S \cup {x}) /\ Cardinality(S \cup {x}) <= Cardinality(S) + 1
        /\ Cardinality(S) \in Nat
    BY FS_AddElement, FS_CardinalityType
  <1>2. /\ IsFiniteSet(T) /\ Cardinality(T) <= Cardinality(S \cup {x})
        /\ Cardinality(S \cup {x}) \in Nat /\ Cardinality(T) \in Nat
    BY <1>1, FS_Subset, FS_CardinalityType
  <1> QED
    BY <1>1, <1>2

LEMMA RoundsAreAdded ==
  ASSUME RoundsAreCounted, RoundsGrow
  PROVE  /\ \A r, o \in rounds' : r.id = o.id => r = o
         /\ IsFiniteSet(rounds') /\ Cardinality(rounds') <= Cardinality(rounds) + 1
         /\ Cardinality(rounds') \in Nat /\ Cardinality(rounds) \in Nat
  <1>1. CASE rounds' = rounds
    BY <1>1, FS_CardinalityType DEF RoundsAreCounted
  <1>2. ASSUME NEW r, IsFresh(r), rounds' = rounds \cup {r}
        PROVE  /\ \A s, o \in rounds' : s.id = o.id => s = o
               /\ IsFiniteSet(rounds') /\ Cardinality(rounds') <= Cardinality(rounds) + 1
               /\ Cardinality(rounds') \in Nat /\ Cardinality(rounds) \in Nat
    <2>1. \A s, o \in rounds' : s.id = o.id => s = o
      BY <1>2 DEF RoundsAreCounted, IsFresh
    <2>2. rounds' \subseteq rounds \cup {r} /\ IsFiniteSet(rounds)
      BY <1>2 DEF RoundsAreCounted
    <2> QED
      BY <2>1, <2>2, Grown
  <1> QED
    BY <1>1, <1>2 DEF RoundsGrow

LEMMA RequestsAreCounted ==
  ASSUME TypeOK, RoundsAreCounted, NEW k \in Conns, NEW q, req' = [req EXCEPT ![k] = q]
  PROVE  /\ IsFiniteSet(UnderWay') /\ Cardinality(UnderWay') <= Cardinality(UnderWay) + 1
         /\ Cardinality(UnderWay') \in Nat /\ Cardinality(UnderWay) \in Nat
         /\ q = Absent /\ req[k] # Absent => Cardinality(UnderWay') + 1 <= Cardinality(UnderWay)
  <1>1. req'[k] = q /\ \A j \in Conns \ {k} : req'[j] = req[j]
    BY DEF TypeOK
  <1>2. /\ UnderWay' \subseteq UnderWay \cup {k} /\ IsFiniteSet(UnderWay)
        /\ q = Absent /\ req[k] # Absent => UnderWay' = UnderWay \ {k} /\ k \in UnderWay
    BY <1>1 DEF UnderWay, RoundsAreCounted
  <1>3. /\ IsFiniteSet(UnderWay') /\ Cardinality(UnderWay') <= Cardinality(UnderWay) + 1
        /\ Cardinality(UnderWay') \in Nat /\ Cardinality(UnderWay) \in Nat
    BY <1>2, Grown
  <1>4. k \in UnderWay => Cardinality(UnderWay \ {k}) = Cardinality(UnderWay) - 1
    BY <1>2, FS_RemoveElement
  <1> QED
    BY <1>2, <1>3, <1>4

LEMMA CountsStay ==
  ASSUME TypeOK, RoundsAreCounted, req' = req, rounds' = rounds, ops' \in Nat, ops' >= ops
  PROVE  RoundsAreCounted'
  <1>1. UnderWay' = UnderWay
    BY DEF UnderWay
  <1>2. Cardinality(rounds) \in Nat /\ Cardinality(UnderWay) \in Nat /\ ops \in Nat
    BY CountedTypes
  <1> QED
    BY <1>1, <1>2 DEF RoundsAreCounted

LEMMA QuietCounts ==
  ASSUME IInv, QuietAction
  PROVE  RoundsAreCounted'
  <1>1. TypeOK /\ RoundsAreCounted /\ RoundsGrow
    BY QuietActions DEF IInv, QuietStep
  <1>2. /\ Cardinality(rounds) \in Nat /\ Cardinality(UnderWay) \in Nat /\ ops \in Nat
        /\ Cardinality(rounds) + Cardinality(UnderWay) <= ops
    BY <1>1, CountedTypes DEF RoundsAreCounted
  <1>3. /\ \A r, o \in rounds' : r.id = o.id => r = o
        /\ IsFiniteSet(rounds') /\ Cardinality(rounds') <= Cardinality(rounds) + 1
        /\ Cardinality(rounds') \in Nat
    BY <1>1, RoundsAreAdded
  <1>4. ASSUME NEW k \in Conns, BeginWrite(k) \/ BeginMkcol(k) \/ BeginProppatch(k)
        PROVE  RoundsAreCounted'
    <2>1. CountOp /\ rounds' = rounds /\ \E q : req' = [req EXCEPT ![k] = q]
      BY <1>4 DEF BeginWrite, BeginMkcol, BeginProppatch
    <2>2. /\ IsFiniteSet(UnderWay') /\ Cardinality(UnderWay') <= Cardinality(UnderWay) + 1
          /\ Cardinality(UnderWay') \in Nat
      BY <1>1, <2>1, RequestsAreCounted
    <2>3. ops' = ops + 1
      BY <1>1, <2>1, OpsGrow
    <2> QED
      BY <1>2, <1>3, <2>1, <2>2, <2>3 DEF RoundsAreCounted
  <1>5. ASSUME NEW k \in Conns, EndWrite(k) \/ EndProps(k)
        PROVE  RoundsAreCounted'
    <2>1. req[k] # Absent /\ req' = [req EXCEPT ![k] = Absent] /\ ops' = ops
      BY <1>5 DEF EndWrite, EndProps
    <2>2. /\ IsFiniteSet(UnderWay') /\ Cardinality(UnderWay') + 1 <= Cardinality(UnderWay)
          /\ Cardinality(UnderWay') \in Nat
      BY <1>1, <2>1, RequestsAreCounted
    <2> QED
      BY <1>2, <1>3, <2>1, <2>2 DEF RoundsAreCounted
  <1>6. CASE Post
    <2>1. UnderWay' = UnderWay /\ ops' = ops + 1
      BY <1>1, <1>6, OpsGrow DEF Post, UnderWay
    <2> QED
      BY <1>1, <1>2, <1>3, <2>1 DEF RoundsAreCounted
  <1>7. CASE Mkcalendar
    <2>1. req' = req /\ rounds' = rounds /\ ops' \in Nat /\ ops' >= ops
      BY <1>1, <1>2, <1>7, OpsGrow DEF Mkcalendar
    <2> QED
      BY <1>1, <2>1, CountsStay
  <1>8. CASE Tick \/ UNCHANGED vars
    <2>1. req' = req /\ rounds' = rounds /\ ops' \in Nat /\ ops' >= ops
      BY <1>2, <1>8 DEF Tick, vars
    <2> QED
      BY <1>1, <2>1, CountsStay
  <1> QED
    BY <1>4, <1>5, <1>6, <1>7, <1>8 DEF QuietAction

LEMMA TurnCounts ==
  ASSUME IInv, NEW r, NEW rr, NEW bad, RoundTurn(r, rr, bad),
         NEW done, NEW gone, TurnDone(r, rr, bad, done, gone)
  PROVE  RoundsAreCounted'
  <1>1. TypeOK /\ RoundsAreCounted /\ r \in rounds /\ rr.id = r.id /\ rr \in Rounds
    BY DEF IInv, RoundTurn
  <1>2. UnderWay' = UnderWay /\ ops' = ops
    BY DEF TurnDone, UnderWay
  <1>3. \A o \in rounds' : o \in Others(r) \/ o.id = r.id
    BY TurnRounds
  <1>4. \E x : rounds' \subseteq Others(r) \cup {x}
    BY DEF TurnDone
  <1>5. IsFiniteSet(rounds') /\ Cardinality(rounds') <= Cardinality(rounds)
    <2>1. Others(r) \subseteq rounds \ {r}
      BY DEF Others
    <2>2. IsFiniteSet(rounds \ {r}) /\ Cardinality(rounds \ {r}) = Cardinality(rounds) - 1
      BY <1>1, FS_RemoveElement DEF RoundsAreCounted
    <2>3. PICK x : rounds' \subseteq (rounds \ {r}) \cup {x}
      BY <1>4, <2>1
    <2>4. IsFiniteSet(rounds') /\ Cardinality(rounds') <= Cardinality(rounds \ {r}) + 1
      BY <2>2, <2>3, Grown
    <2>5. Cardinality(rounds) \in Nat
      BY <1>1, CountedTypes
    <2> QED
      BY <2>2, <2>4, <2>5
  <1>6. ASSUME NEW o \in rounds', NEW p \in rounds', o.id = p.id PROVE o = p
    <2>1. CASE o \in Others(r) \/ p \in Others(r)
      <3>1. o \in Others(r) /\ p \in Others(r)
        BY <1>3, <1>6, <2>1 DEF Others
      <3> QED
        BY <1>1, <1>6, <3>1 DEF Others, RoundsAreCounted
    <2>2. CASE o \notin Others(r) /\ p \notin Others(r)
      BY <1>4, <2>2
    <2> QED
      BY <2>1, <2>2
  <1>7. Cardinality(rounds') \in Nat /\ Cardinality(rounds) \in Nat /\ Cardinality(UnderWay) \in Nat
        /\ ops \in Nat
    BY <1>1, <1>5, CountedTypes, FS_CardinalityType
  <1> QED
    BY <1>1, <1>2, <1>5, <1>6, <1>7 DEF RoundsAreCounted

LEMMA ReleasedCounts ==
  ASSUME TypeOK, RoundsAreCounted, NEW q \in Paths, rounds' = Released(q), req' = req,
         ops' \in Nat, ops' >= ops
  PROVE  RoundsAreCounted'
  <1> DEFINE Void1(r) == [r EXCEPT !.owed = IF r.path = q THEN {} ELSE r.owed]
             f == [r \in rounds |-> Void1(r)]
  <1>1. rounds' = {Void1(r) : r \in rounds}
    BY DEF Released
  <1>2. f \in Surjection(rounds, rounds')
    BY <1>1 DEF Surjection
  <1>3. IsFiniteSet(rounds') /\ Cardinality(rounds') <= Cardinality(rounds)
    <2> HIDE DEF f
    <2> QED
      BY <1>2, FS_Surjection DEF RoundsAreCounted
  <1>4. UnderWay' = UnderWay
    BY DEF UnderWay
  <1>5. /\ Cardinality(rounds) \in Nat /\ Cardinality(rounds') \in Nat
        /\ Cardinality(UnderWay) \in Nat /\ ops \in Nat
    BY <1>3, CountedTypes, FS_CardinalityType
  <1>6. \A o, p \in rounds' : o.id = p.id => o = p
    <2>1. \A r \in rounds : Void1(r).id = r.id
      BY RoundTypes DEF Rounds
    <2>2. ASSUME NEW r \in rounds, NEW s \in rounds, Void1(r).id = Void1(s).id
          PROVE  Void1(r) = Void1(s)
      BY <2>1, <2>2 DEF RoundsAreCounted
    <2> HIDE DEF Void1
    <2> QED
      BY <1>1, <2>2
  <1> QED
    BY <1>3, <1>4, <1>5, <1>6 DEF RoundsAreCounted

-----------------------------------------------------------------------------
(* Theorems.                                                               *)

LEMMA Steps ==
  ASSUME [Next]_vars
  PROVE  \/ QuietAction
         \/ \E d \in Devices : Register(d) \/ Unregister(d)
         \/ DeleteCollection \/ MoveCollection \/ CopyCollection
         \/ \E r \in rounds : RoundStarts(r) \/ \E s \in {"sent", "failed", "gone"} : Delivered(r, s)
  BY DEF Next, QuietAction

LEMMA InitInv == Init => IInv
  <1> SUFFICES ASSUME Init PROVE IInv
    OBVIOUS
  <1>1. PICK first \in Paths : coll = [p \in Paths |-> IF p = first THEN Calendar ELSE Absent]
    BY DEF Init
  <1>2. /\ index = [i \in Ids |-> Absent] /\ req = [k \in Conns |-> Absent] /\ rounds = {}
        /\ now = 0 /\ ops = 0 /\ ack = [d \in Devices |-> Absent]
        /\ quit = {} /\ spread = {} /\ raced = {}
    BY DEF Init
  <1>3. TypeOK
    BY <1>1, <1>2, NewCollections, DavAssumption DEF TypeOK
  <1>4. \A p \in Paths, d \in Devices : SubAt(p, d) = Absent
    BY <1>1, NewCollections DEF SubAt
  <1>5. \A p \in Paths : \A x : x \notin SubsOf(p) /\ x \notin SubIds(p)
    BY <1>4, Listed
  <1>6. RoundsAreCounted
    <2>1. UnderWay = {}
      BY <1>2 DEF UnderWay
    <2>2. IsFiniteSet({}) /\ Cardinality({}) = 0
      BY FS_EmptySet
    <2> QED
      BY <1>2, <2>1, <2>2 DEF RoundsAreCounted
  <1>7. IdsHaveOneOwner
    <2>1. \A s : s \notin Known
      BY <1>2, <1>5, KnownFrom
    <2>2. \A x : x \notin Owners
      BY <1>2, <2>1, OwnersFrom
    <2> QED
      BY <2>2 DEF IdsHaveOneOwner
  <1> QED
    BY <1>2, <1>3, <1>5, <1>6, <1>7
    DEF IInv, WritesWereAllowed, IndexIsRight, PromisesAreKept, GoneIsGone, PromisesAreTrue,
        NobodyIsForgotten

LEMMA TurnKeeps ==
  ASSUME IInv, NEW r \in rounds,
         RoundStarts(r) \/ \E s \in {"sent", "failed", "gone"} : Delivered(r, s)
  PROVE  IInv'
  <1>1. PICK rr, bad : RoundTurn(r, rr, bad)
    BY TurnsOfRounds
  <1>2. PICK done, gone : TurnDone(r, rr, bad, done, gone)
    BY <1>1, TurnsAreDone
  <1>3. TypeOK' /\ WritesWereAllowed' /\ RoundsAreCounted'
    BY <1>1, <1>2, TurnTypes, TurnCounts
  <1>4. /\ IdsHaveOneOwner' /\ IndexIsRight' /\ GoneIsGone'
        /\ PromisesAreKept' /\ PromisesAreTrue' /\ NobodyIsForgotten'
    BY <1>1, <1>2, TurnKeepsOwners, TurnKeepsPromises, TurnForgetsNobody
  <1> QED
    BY <1>3, <1>4 DEF IInv

LEMMA NextInv == IInv /\ [Next]_vars => IInv'
  <1> SUFFICES ASSUME IInv, [Next]_vars PROVE IInv'
    OBVIOUS
  <1>1. CASE QuietAction
    BY <1>1, QuietActions, QuietKeeps, QuietCounts DEF IInv
  <1>2. ASSUME NEW d \in Devices, Register(d) PROVE IInv'
    <2>1. PICK p, sub : Registered(d, p, sub)
      BY <1>2, Registrations
    <2>2. TypeOK' /\ WritesWereAllowed'
      BY <1>2, Registrations
    <2>3. RoundsAreCounted'
      BY <2>1, <2>2, CountsStay DEF IInv, Registered, TypeOK
    <2>4. /\ IdsHaveOneOwner' /\ IndexIsRight' /\ PromisesAreKept' /\ GoneIsGone'
          /\ PromisesAreTrue' /\ NobodyIsForgotten'
      BY <2>1, <2>2, RegistrationKeeps
    <2> QED
      BY <2>2, <2>3, <2>4 DEF IInv
  <1>3. ASSUME NEW d \in Devices, Unregister(d) PROVE IInv'
    <2>1. TypeOK' /\ WritesWereAllowed' /\ UNCHANGED <<req, rounds>> /\ ops' >= ops
      BY <1>3, Endings
    <2>2. RoundsAreCounted'
      BY <2>1, CountsStay DEF IInv, TypeOK
    <2> QED
      BY <1>3, <2>1, <2>2, EndingKeeps DEF IInv
  <1>4. CASE DeleteCollection
    <2>1. PICK q \in Paths : LandStep(q)
      BY <1>4, Deletes
    <2>2. TypeOK' /\ WritesWereAllowed'
      BY <1>4, Deletes
    <2>3. RoundsAreCounted'
      BY <1>4, <2>1, <2>2, CountsStay DEF IInv, LandStep, DeleteCollection, TypeOK
    <2> QED
      BY <2>1, <2>2, <2>3, LandKeeps DEF IInv
  <1>5. CASE MoveCollection \/ CopyCollection
    <2>1. PICK q \in Paths : LandStep(q) /\ rounds' = Released(q)
      BY <1>5, Moves, Copies
    <2>2. TypeOK' /\ WritesWereAllowed'
      BY <1>5, Moves, Copies
    <2>3. RoundsAreCounted'
      BY <2>1, <2>2, ReleasedCounts DEF IInv, LandStep, TypeOK
    <2> QED
      BY <2>1, <2>2, <2>3, LandKeeps DEF IInv
  <1> QED
    BY <1>1, <1>2, <1>3, <1>4, <1>5, Steps, TurnKeeps

\* In every state the variables have their types and the records of the file,
\* of the rounds and of the devices agree as IInv says.
THEOREM Invariant == Spec => []IInv
  BY InitInv, NextInv, PTL DEF Spec

\* The state always has its type: collections and their files, the index, the
\* requests and the rounds under way.
THEOREM TypeCorrect == Spec => []TypeOK
  <1>1. IInv => TypeOK
    BY DEF IInv
  <1> QED
    BY <1>1, Invariant, PTL

\* No request, failed delivery or round that has listed an older state of the
\* file takes a subscription away that its device was promised.
THEOREM SubscriptionsLast == Spec => []PromisesAreKept
  <1>1. IInv => PromisesAreKept
    BY DEF IInv
  <1> QED
    BY <1>1, Invariant, PTL

\* What delete_subscription has answered for is in no file any more.
THEOREM EndedIsEnded == Spec => []GoneIsGone
  <1>1. IInv => GoneIsGone
    BY DEF IInv
  <1> QED
    BY <1>1, Invariant, PTL

LEMMA AnsweredAreEnds ==
  ASSUME IInv, [Next]_vars, NEW k \in Conns, req[k] # Absent, req'[k] = Absent
  PROVE  EndWrite(k) \/ EndProps(k)
  <1>1. req \in [Conns -> Requests \cup {Absent}]
    BY DEF IInv, TypeOK
  <1>2. req' # req
    OBVIOUS
  <1>3. ASSUME NEW j \in Conns, BeginWrite(j) \/ BeginMkcol(j) \/ BeginProppatch(j) PROVE FALSE
    <2>1. req[j] = Absent /\ \E q : req' = [req EXCEPT ![j] = q]
      BY <1>3 DEF BeginWrite, BeginMkcol, BeginProppatch
    <2> QED
      BY <1>1, <2>1
  <1>4. ASSUME NEW j \in Conns, j # k, EndWrite(j) \/ EndProps(j) PROVE FALSE
    <2>1. req' = [req EXCEPT ![j] = Absent]
      BY <1>4 DEF EndWrite, EndProps
    <2> QED
      BY <1>1, <1>4, <2>1
  <1>5. ASSUME NEW r \in rounds,
               RoundStarts(r) \/ \E s \in {"sent", "failed", "gone"} : Delivered(r, s)
        PROVE  FALSE
    BY <1>2, <1>5 DEF RoundStarts, Delivered, Advance
  <1>6. ASSUME \/ \E d \in Devices : Register(d) \/ Unregister(d)
               \/ DeleteCollection \/ MoveCollection \/ CopyCollection
               \/ Post \/ Mkcalendar \/ Tick \/ UNCHANGED vars
        PROVE  FALSE
    BY <1>2, <1>6
    DEF Register, Unregister, DeleteCollection, MoveCollection, CopyCollection, Post, Mkcalendar,
        Tick, vars
  <1> QED
    BY <1>3, <1>4, <1>5, <1>6, Steps DEF QuietAction

\* A PUT or DELETE that changes the member does so while its If-Match or
\* If-None-Match holds, whatever came between its look at the member and the store.
THEOREM WritesAreConditional == Spec => ConditionalWritesHold
  <1>1. ASSUME IInv, [Next]_vars, NEW k \in Conns,
               req[k] # Absent, req'[k] = Absent, req[k].op = "write", coll' # coll
        PROVE  \/ req[k].cond \in {"none", coll[req[k].path].member}
               \/ req[k].cond = "new" /\ coll[req[k].path].member = Absent
    <2>1. EndWrite(k)
      BY <1>1, AnsweredAreEnds DEF EndProps
    <2>2. IsAsSeen(coll[req[k].path], req[k].seen)
      BY <1>1, <2>1 DEF EndWrite
    <2>3. Matches(req[k].cond, req[k].seen)
      BY <1>1 DEF IInv, WritesWereAllowed
    <2> QED
      BY <2>2, <2>3 DEF IsAsSeen, Matches
  <1>2. IInv /\ [Next]_vars =>
          [\A k \in Conns :
             req[k] # Absent /\ req'[k] = Absent /\ req[k].op = "write" /\ coll' # coll =>
               LET m == coll[req[k].path].member IN
               \/ req[k].cond \in {"none", m}
               \/ req[k].cond = "new" /\ m = Absent]_vars
    BY <1>1
  <1> QED
    BY Invariant, <1>2, PTL DEF Spec, ConditionalWritesHold

LEMMA EndsAreTurns ==
  ASSUME IInv, [Next]_vars, NEW r \in rounds, \A o \in rounds' : o.id # r.id
  PROVE  RoundStarts(r) \/ \E s \in {"sent", "failed", "gone"} : Delivered(r, s)
  <1>1. r \notin rounds' /\ ~(rounds \subseteq rounds')
    OBVIOUS
  <1>2. ~QuietAction
    BY <1>1, QuietActions DEF QuietStep, RoundsGrow
  <1>3. ~ \E d \in Devices : Register(d) \/ Unregister(d)
    BY <1>1 DEF Register, Unregister
  <1>4. ~DeleteCollection
    BY <1>1 DEF DeleteCollection
  <1>5. ~(MoveCollection \/ CopyCollection)
    <2>1. ASSUME NEW q, rounds' = Released(q) PROVE FALSE
      <3> DEFINE o == [r EXCEPT !.owed = IF r.path = q THEN {} ELSE r.owed]
      <3>1. o \in rounds'
        BY <2>1 DEF Released
      <3>2. o.id = r.id
        BY RoundTypes DEF IInv, Rounds
      <3> HIDE DEF o
      <3> QED
        BY <3>1, <3>2
    <2> QED
      BY <2>1 DEF MoveCollection, CopyCollection
  <1>6. ASSUME NEW o \in rounds, o # r,
               RoundStarts(o) \/ \E s \in {"sent", "failed", "gone"} : Delivered(o, s)
        PROVE  FALSE
    <2>1. PICK rr, bad : RoundTurn(o, rr, bad)
      BY <1>6, TurnsOfRounds
    <2>2. \E done, gone : TurnDone(o, rr, bad, done, gone)
      BY <2>1, TurnsAreDone
    <2>3. \A t : t \in Others(o) => t \in rounds'
      BY <2>2 DEF TurnDone
    <2>4. r \in Others(o)
      BY <1>6 DEF Others, IInv, RoundsAreCounted
    <2> QED
      BY <1>1, <2>3, <2>4
  <1> QED
    BY <1>2, <1>3, <1>4, <1>5, <1>6, Steps

\* A round that ends has tried everyone who was subscribed when the change was
\* made and still is, whatever became of the deliveries to the others.
THEOREM RoundsTellEveryone == Spec => EveryoneIsTold
  <1>1. ASSUME IInv, [Next]_vars, NEW r \in rounds, \A o \in rounds' : o.id # r.id,
               NEW x \in r.owed, x.dev \notin {t.dev : t \in r.tried}
        PROVE  SubAt(r.path, x.dev)' = Absent \/ SubAt(r.path, x.dev)'.id # x.sub.id
    <2>1. PICK rr, bad : RoundTurn(r, rr, bad)
      BY <1>1, EndsAreTurns, TurnsOfRounds
    <2>2. PICK done, gone : TurnDone(r, rr, bad, done, gone)
      BY <2>1, TurnsAreDone
    <2>3. \A s : s \notin rr.todo \ done
      <3>1. rr \in Rounds /\ rr.id = r.id
        BY <2>1 DEF RoundTurn
      <3>2. ASSUME NEW s, rounds' = Others(r) \cup {Calling(rr, s, rr.todo \ done)} PROVE FALSE
        <4>1. Calling(rr, s, rr.todo \ done).id = r.id
          BY <3>1 DEF Calling, Rounds
        <4> QED
          BY <1>1, <3>2, <4>1
      <3> QED
        BY <2>2, <3>2 DEF TurnDone
    <2> QED
      BY <1>1, <2>1, <2>2, <2>3, OwedStayListed
  <1>2. IInv /\ [Next]_vars =>
          [\A r \in rounds :
             (\A o \in rounds' : o.id # r.id) =>
               \A s \in r.owed :
                 \/ s.dev \in {t.dev : t \in r.tried}
                 \/ coll'[r.path] = Absent
                 \/ coll'[r.path].subs[s.dev] = Absent
                 \/ coll'[r.path].subs[s.dev].id # s.sub.id]_vars
    BY <1>1 DEF SubAt
  <1> QED
    BY Invariant, <1>2, PTL DEF Spec, EveryoneIsTold
=============================================================================

---------------------------- MODULE ReportProofs ----------------------------
(***************************************************************************)
(* Proofs about the reports.  First the sync-collection REPORT, for every  *)
(* set of clients, names and bodies and any number of changes, when        *)
(* clients set no limit.  Then the calendar reports, for every length of   *)
(* the day and offset of the zone, all drafts that RFC 5545 allows, all    *)
(* windows and filters and any number of edits: what an expansion, a query *)
(* from the file or from the index, an extract and the events of a         *)
(* free/busy answer say of an object is what the object means.             *)
(***************************************************************************)
EXTENDS SyncCollection, CalendarReports, FiniteSetTheorems, TLAPS

-----------------------------------------------------------------------------
(* sync-collection.                                                        *)

LEMMA NoFilesIsTree == NoFiles \in Trees
BY DEF NoFiles, Trees

LEMMA InitIInv == Init => IInv
<1> SUFFICES ASSUME Init PROVE IInv
  OBVIOUS
<1>1. TypeOK
  BY NoFilesIsTree, BoundAssumption DEF Init, TypeOK, Phases, Requests
<1>2. ReplicaIsSnapshot
  BY DEF Init, ReplicaIsSnapshot, OldTree
<1> QED
  BY <1>1, <1>2 DEF Init, IInv, ReportIsExact

\* Every operation keeps the types, with and without limits.
LEMMA ServerTypeOK ==
  ASSUME TypeOK,
         (\E n \in Names, b \in Bodies \cup {Absent} : Write(n, b)) \/ Recreate
  PROVE  TypeOK'
<1>1. CASE \E n \in Names, b \in Bodies \cup {Absent} : Write(n, b)
  <2>1. PICK n \in Names, b \in Bodies \cup {Absent} : Write(n, b)
    BY <1>1
  <2>2. tree' \in Trees /\ objects' \subseteq Trees
    BY <2>1 DEF Write, TypeOK, Trees
  <2>3. writes' \in 0 .. MaxWrites
    BY <2>1, BoundAssumption DEF Write, TypeOK
  <2> QED
    BY <2>1, <2>2, <2>3 DEF Write, TypeOK
<1>2. CASE Recreate
  <2>1. writes' \in 0 .. MaxWrites
    BY <1>2, BoundAssumption DEF Recreate, TypeOK
  <2> QED
    BY <1>2, <2>1, NoFilesIsTree DEF Recreate, TypeOK, Phases
<1> QED
  BY <1>1, <1>2

LEMMA BeginTypeOK ==
  ASSUME TypeOK, NEW c \in Clients, NEW k \in Limits, BeginReport(c, k)
  PROVE  TypeOK'
<1> DEFINE r == [old |-> token[c], new |-> tree, left |-> Changed(token[c], tree),
                 sent |-> {}, limit |-> k]
<1>1. r \in Requests
  BY LimitAssumption DEF TypeOK, Requests, Changed
<1>2. request' \in [Clients -> Requests]
  BY <1>1 DEF BeginReport, TypeOK
<1>3. phase' \in [Clients -> Phases]
  BY DEF BeginReport, TypeOK, Phases
<1> QED
  BY <1>2, <1>3 DEF BeginReport, TypeOK

\* What Emit does, without the order in which it picks names.
LEMMA EmitChanges ==
  ASSUME TypeOK, NEW c \in Clients, Emit(c)
  PROVE  \E n \in request[c].left :
           request' = [request EXCEPT ![c] =
             [old |-> request[c].old, new |-> request[c].new,
              left |-> request[c].left \ {n}, sent |-> request[c].sent \cup {n},
              limit |-> IF request[c].limit = NoLimit THEN NoLimit
                        ELSE request[c].limit - 1]]
BY DEF Emit

LEMMA EmitTypeOK ==
  ASSUME TypeOK, NEW c \in Clients, Emit(c)
  PROVE  TypeOK'
<1> DEFINE k == IF request[c].limit = NoLimit THEN NoLimit ELSE request[c].limit - 1
<1>1. request[c] \in Requests
  BY DEF TypeOK
<1>2. PICK n \in request[c].left :
        request' = [request EXCEPT ![c] =
          [old |-> request[c].old, new |-> request[c].new,
           left |-> request[c].left \ {n}, sent |-> request[c].sent \cup {n},
           limit |-> k]]
  BY EmitChanges
<1>3. k \in Nat \cup {NoLimit}
  BY <1>1 DEF Emit, Requests
<1>4. n \in Names
  BY <1>1, <1>2 DEF Requests
<1>5. [old |-> request[c].old, new |-> request[c].new,
       left |-> request[c].left \ {n}, sent |-> request[c].sent \cup {n},
       limit |-> k] \in Requests
  BY <1>1, <1>3, <1>4 DEF Requests
<1>6. request' \in [Clients -> Requests]
  BY <1>2, <1>5 DEF TypeOK
<1> QED
  BY <1>6 DEF Emit, server, TypeOK

LEMMA ClientTypeOK ==
  ASSUME TypeOK, NEW c \in Clients,
         EndReport(c) \/ Receive(c) \/ StartOver(c) \/ Lose(c)
  PROVE  TypeOK'
<1>1. request[c] \in Requests
  BY DEF TypeOK
<1>2. CASE EndReport(c)
  BY <1>2 DEF EndReport, server, TypeOK, Phases
<1>3. CASE Receive(c)
  <2>1. [n \in Names |-> IF n \in request[c].sent THEN request[c].new[n]
                         ELSE replica[c][n]] \in Trees
    BY <1>1 DEF TypeOK, Requests, Trees
  <2>2. replica' \in [Clients -> Trees]
    BY <1>3, <2>1 DEF Receive, TypeOK
  <2>3. token' \in [Clients -> Trees \cup {NoToken}]
    BY <1>1, <1>3 DEF Receive, TypeOK, Requests
  <2> QED
    BY <1>3, <2>2, <2>3 DEF Receive, server, TypeOK, Phases
<1>4. CASE StartOver(c)
  BY <1>4, NoFilesIsTree DEF StartOver, server, TypeOK, Phases
<1>5. CASE Lose(c)
  BY <1>5 DEF Lose, server, TypeOK, Phases
<1> QED
  BY <1>2, <1>3, <1>4, <1>5

LEMMA NextTypeOK ==
  ASSUME TypeOK, [Next]_vars
  PROVE  TypeOK'
<1>1. CASE UNCHANGED vars
  BY <1>1 DEF vars, TypeOK
<1>2. CASE Next
  BY <1>2, ServerTypeOK, BeginTypeOK, EmitTypeOK, ClientTypeOK DEF Next, Ask
<1> QED
  BY <1>1, <1>2

\* Every variable keeps its shape, whatever limits clients set.
THEOREM TypeCorrect == Spec => []TypeOK
<1>1. Init => TypeOK
  BY InitIInv DEF IInv
<1>2. TypeOK /\ [Next]_vars => TypeOK'
  BY NextTypeOK
<1> QED
  BY <1>1, <1>2, PTL DEF Spec

-----------------------------------------------------------------------------
\* A change of the collection leaves the requests, the tokens and the copies.
LEMMA ServerKeepsIInv ==
  ASSUME IInv,
         (\E n \in Names, b \in Bodies \cup {Absent} : Write(n, b)) \/ Recreate
  PROVE  IInv'
<1>1. TypeOK'
  BY ServerTypeOK DEF IInv
<1>2. UNCHANGED <<request, token, replica>>
  BY DEF Write, Recreate
<1>3. \A c \in Clients : phase'[c] # "idle" => phase'[c] = phase[c]
  BY DEF Write, Recreate, IInv, TypeOK
<1>4. ReplicaIsSnapshot'
  BY <1>2 DEF IInv, ReplicaIsSnapshot, OldTree
<1>5. ReportIsExact'
  BY <1>2, <1>3 DEF IInv, ReportIsExact, Changed, OldTree
<1>6. \A c \in Clients :
        /\ phase'[c] # "idle" => request'[c].old = token'[c]
        /\ phase'[c] \in {"report", "replied"} => request'[c].limit = NoLimit
        /\ phase'[c] = "replied" =>
             request'[c].sent = Changed(request'[c].old, request'[c].new)
  BY <1>2, <1>3 DEF IInv
<1> QED
  BY <1>1, <1>4, <1>5, <1>6 DEF IInv, Changed, OldTree

LEMMA BeginKeepsIInv ==
  ASSUME IInv, Limits = {NoLimit}, NEW c \in Clients, Ask(c)
  PROVE  IInv'
<1>1. PICK k \in Limits : BeginReport(c, k)
  BY DEF Ask
<1>2. k = NoLimit
  OBVIOUS
<1>3. TypeOK'
  BY <1>1, BeginTypeOK DEF IInv
<1>4. request' = [request EXCEPT ![c] =
        [old |-> token[c], new |-> tree, left |-> Changed(token[c], tree),
         sent |-> {}, limit |-> NoLimit]]
  BY <1>1, <1>2 DEF BeginReport
<1>5. phase'[c] \in {"report", "refused"} /\ \A d \in Clients \ {c} : phase'[d] = phase[d]
  BY <1>1 DEF BeginReport, IInv, TypeOK
<1>6. UNCHANGED <<token, replica>>
  BY <1>1 DEF BeginReport
<1>7. /\ request'[c].old = token[c] /\ request'[c].new = tree
      /\ request'[c].left = Changed(token[c], tree) /\ request'[c].sent = {}
      /\ request'[c].limit = NoLimit
  BY <1>4 DEF IInv, TypeOK
<1>8. \A d \in Clients \ {c} : request'[d] = request[d]
  BY <1>4 DEF IInv, TypeOK
<1>9. ReplicaIsSnapshot'
  BY <1>6 DEF IInv, ReplicaIsSnapshot, OldTree
<1>10. ReportIsExact'
  <2> SUFFICES ASSUME NEW d \in Clients, phase'[d] = "report"
               PROVE  /\ request'[d].sent \cap request'[d].left = {}
                      /\ request'[d].sent \cup request'[d].left
                           = Changed(request'[d].old, request'[d].new)
    BY DEF ReportIsExact, Changed, OldTree
  <2>1. CASE d = c
    BY <1>7, <2>1
  <2>2. CASE d # c
    BY <1>5, <1>8, <2>2 DEF IInv, ReportIsExact
  <2> QED
    BY <2>1, <2>2
<1>11. \A d \in Clients :
        /\ phase'[d] # "idle" => request'[d].old = token'[d]
        /\ phase'[d] \in {"report", "replied"} => request'[d].limit = NoLimit
        /\ phase'[d] = "replied" =>
             request'[d].sent = Changed(request'[d].old, request'[d].new)
  <2> TAKE d \in Clients
  <2>1. CASE d = c
    BY <1>5, <1>6, <1>7, <2>1
  <2>2. CASE d # c
    BY <1>5, <1>6, <1>8, <2>2 DEF IInv
  <2> QED
    BY <2>1, <2>2
<1> QED
  BY <1>3, <1>9, <1>10, <1>11 DEF IInv, Changed, OldTree

LEMMA EmitKeepsIInv ==
  ASSUME IInv, NEW c \in Clients, Emit(c)
  PROVE  IInv'
<1>1. TypeOK /\ TypeOK'
  BY EmitTypeOK DEF IInv
<1>2. phase[c] = "report" /\ UNCHANGED <<phase, token, replica>>
  BY DEF Emit
<1>3. PICK n \in request[c].left :
        request' = [request EXCEPT ![c] =
          [old |-> request[c].old, new |-> request[c].new,
           left |-> request[c].left \ {n}, sent |-> request[c].sent \cup {n},
           limit |-> IF request[c].limit = NoLimit THEN NoLimit
                     ELSE request[c].limit - 1]]
  BY <1>1, EmitChanges
<1>4. /\ request'[c].old = request[c].old /\ request'[c].new = request[c].new
      /\ request'[c].left = request[c].left \ {n}
      /\ request'[c].sent = request[c].sent \cup {n}
      /\ request[c].limit = NoLimit => request'[c].limit = NoLimit
  BY <1>1, <1>3 DEF TypeOK
<1>5. \A d \in Clients \ {c} : request'[d] = request[d]
  BY <1>1, <1>3 DEF TypeOK
<1>6. ReplicaIsSnapshot'
  BY <1>2 DEF IInv, ReplicaIsSnapshot, OldTree
<1>7. ReportIsExact'
  <2> SUFFICES ASSUME NEW d \in Clients, phase'[d] = "report"
               PROVE  /\ request'[d].sent \cap request'[d].left = {}
                      /\ request'[d].sent \cup request'[d].left
                           = Changed(request'[d].old, request'[d].new)
    BY DEF ReportIsExact, Changed, OldTree
  <2>0. /\ request[d].sent \cap request[d].left = {}
        /\ request[d].sent \cup request[d].left = Changed(request[d].old, request[d].new)
    BY <1>2 DEF IInv, ReportIsExact
  <2>1. CASE d = c
    BY <1>3, <1>4, <2>0, <2>1
  <2>2. CASE d # c
    BY <1>5, <2>0, <2>2
  <2> QED
    BY <2>1, <2>2
<1>8. \A d \in Clients :
        /\ phase'[d] # "idle" => request'[d].old = token'[d]
        /\ phase'[d] \in {"report", "replied"} => request'[d].limit = NoLimit
        /\ phase'[d] = "replied" =>
             request'[d].sent = Changed(request'[d].old, request'[d].new)
  <2> TAKE d \in Clients
  <2>1. CASE d = c
    BY <1>2, <1>4, <2>1 DEF IInv
  <2>2. CASE d # c
    BY <1>2, <1>5, <2>2 DEF IInv
  <2> QED
    BY <2>1, <2>2
<1> QED
  BY <1>1, <1>6, <1>7, <1>8 DEF IInv, Changed, OldTree

\* Without a limit a report ends only when nothing is left to send.
LEMMA EndKeepsIInv ==
  ASSUME IInv, NEW c \in Clients, EndReport(c)
  PROVE  IInv'
<1>1. TypeOK /\ TypeOK'
  BY ClientTypeOK DEF IInv
<1>2. phase[c] = "report" /\ UNCHANGED <<request, token, replica>>
  BY DEF EndReport
<1>3. phase' = [phase EXCEPT ![c] = "replied"]
  BY DEF EndReport
<1>4. request[c].left = {}
  BY <1>2, LimitAssumption DEF EndReport, IInv
<1>5. request[c].sent = Changed(request[c].old, request[c].new)
  BY <1>2, <1>4 DEF IInv, ReportIsExact
<1>6. ReplicaIsSnapshot'
  BY <1>2 DEF IInv, ReplicaIsSnapshot, OldTree
<1>7. ReportIsExact'
  BY <1>1, <1>2, <1>3 DEF IInv, TypeOK, ReportIsExact, Changed, OldTree
<1>8. \A d \in Clients :
        /\ phase'[d] # "idle" => request'[d].old = token'[d]
        /\ phase'[d] \in {"report", "replied"} => request'[d].limit = NoLimit
        /\ phase'[d] = "replied" =>
             request'[d].sent = Changed(request'[d].old, request'[d].new)
  <2> TAKE d \in Clients
  <2>1. CASE d = c
    BY <1>1, <1>2, <1>3, <1>5, <2>1 DEF IInv, TypeOK
  <2>2. CASE d # c
    BY <1>1, <1>2, <1>3, <2>2 DEF IInv, TypeOK
  <2> QED
    BY <2>1, <2>2
<1> QED
  BY <1>1, <1>6, <1>7, <1>8 DEF IInv, Changed, OldTree

\* A whole difference applied to the old tree gives the new one.
LEMMA DifferenceApplies ==
  ASSUME NEW old \in Trees \cup {NoToken}, NEW new \in Trees, NEW n \in Names \ Metadata,
         n \notin Changed(old, new)
  PROVE  OldTree(old)[n] = new[n]
BY DEF Changed

LEMMA ReceiveKeepsIInv ==
  ASSUME IInv, NEW c \in Clients, Receive(c)
  PROVE  IInv'
<1> DEFINE r == request[c]
<1>1. TypeOK /\ TypeOK'
  BY ClientTypeOK DEF IInv
<1>2. phase[c] = "replied" /\ UNCHANGED request
  BY DEF Receive
<1>3. /\ phase' = [phase EXCEPT ![c] = "idle"]
      /\ token' = [token EXCEPT ![c] = r.new]
      /\ replica' = [replica EXCEPT ![c] =
           [n \in Names |-> IF n \in r.sent THEN r.new[n] ELSE replica[c][n]]]
  BY <1>1 DEF Receive, TypeOK
<1>4. r \in Requests
  BY <1>1 DEF TypeOK
<1>5. r.sent = Changed(r.old, r.new) /\ r.old = token[c]
  BY <1>2 DEF IInv
<1>6. \A d \in Clients \ {c} :
        phase'[d] = phase[d] /\ token'[d] = token[d] /\ replica'[d] = replica[d]
  BY <1>1, <1>3 DEF TypeOK
<1>7. phase'[c] = "idle" /\ token'[c] = r.new /\ OldTree(token'[c]) = r.new
  BY <1>1, <1>3, <1>4, TokenAssumption DEF TypeOK, OldTree, Requests
<1>8. ASSUME NEW n \in Names \ Metadata
      PROVE  replica'[c][n] = r.new[n]
  <2>1. replica'[c][n] = IF n \in r.sent THEN r.new[n] ELSE replica[c][n]
    BY <1>1, <1>3 DEF TypeOK
  <2>2. CASE n \in r.sent
    BY <2>1, <2>2
  <2>3. CASE n \notin r.sent
    <3>1. replica[c][n] = OldTree(r.old)[n]
      BY <1>5 DEF IInv, ReplicaIsSnapshot
    <3>2. OldTree(r.old)[n] = r.new[n]
      BY <1>4, <1>5, <2>3, DifferenceApplies DEF Requests
    <3> QED
      BY <2>1, <2>3, <3>1, <3>2
  <2> QED
    BY <2>2, <2>3
<1>9. ReplicaIsSnapshot'
  <2> SUFFICES ASSUME NEW d \in Clients, NEW n \in Names \ Metadata
               PROVE  replica'[d][n] = OldTree(token'[d])[n]
    BY DEF ReplicaIsSnapshot, OldTree
  <2>1. CASE d = c
    BY <1>7, <1>8, <2>1
  <2>2. CASE d # c
    BY <1>6, <2>2 DEF IInv, ReplicaIsSnapshot
  <2> QED
    BY <2>1, <2>2
<1>10. ReportIsExact'
  BY <1>2, <1>6, <1>7 DEF IInv, ReportIsExact, Changed, OldTree
<1>11. \A d \in Clients :
        /\ phase'[d] # "idle" => request'[d].old = token'[d]
        /\ phase'[d] \in {"report", "replied"} => request'[d].limit = NoLimit
        /\ phase'[d] = "replied" =>
             request'[d].sent = Changed(request'[d].old, request'[d].new)
  BY <1>2, <1>6, <1>7 DEF IInv
<1> QED
  BY <1>1, <1>9, <1>10, <1>11 DEF IInv, Changed, OldTree

LEMMA DropKeepsIInv ==
  ASSUME IInv, NEW c \in Clients, StartOver(c) \/ Lose(c)
  PROVE  IInv'
<1>1. TypeOK /\ TypeOK'
  BY ClientTypeOK DEF IInv
<1>2. phase' = [phase EXCEPT ![c] = "idle"] /\ UNCHANGED request
  BY DEF StartOver, Lose
<1>3. \A d \in Clients \ {c} :
        phase'[d] = phase[d] /\ token'[d] = token[d] /\ replica'[d] = replica[d]
  BY <1>1, <1>2 DEF TypeOK, StartOver, Lose
<1>4. phase'[c] = "idle"
  BY <1>1, <1>2 DEF TypeOK
<1>5. ReplicaIsSnapshot'
  <2> SUFFICES ASSUME NEW d \in Clients, NEW n \in Names \ Metadata
               PROVE  replica'[d][n] = OldTree(token'[d])[n]
    BY DEF ReplicaIsSnapshot, OldTree
  <2>1. CASE d # c
    BY <1>3, <2>1 DEF IInv, ReplicaIsSnapshot
  <2>2. CASE d = c /\ StartOver(c)
    BY <1>1, <2>2 DEF StartOver, TypeOK, OldTree
  <2>3. CASE d = c /\ Lose(c)
    BY <2>3 DEF Lose, IInv, ReplicaIsSnapshot, OldTree
  <2> QED
    BY <2>1, <2>2, <2>3
<1>6. ReportIsExact'
  BY <1>2, <1>3, <1>4 DEF IInv, ReportIsExact, Changed, OldTree
<1>7. \A d \in Clients :
        /\ phase'[d] # "idle" => request'[d].old = token'[d]
        /\ phase'[d] \in {"report", "replied"} => request'[d].limit = NoLimit
        /\ phase'[d] = "replied" =>
             request'[d].sent = Changed(request'[d].old, request'[d].new)
  BY <1>2, <1>3, <1>4 DEF IInv
<1> QED
  BY <1>1, <1>5, <1>6, <1>7 DEF IInv, Changed, OldTree

LEMMA NextKeepsIInv ==
  ASSUME IInv, Limits = {NoLimit}, [Next]_vars
  PROVE  IInv'
<1>1. CASE UNCHANGED vars
  BY <1>1, NextTypeOK DEF vars, IInv, ReplicaIsSnapshot, ReportIsExact, Changed, OldTree
<1>2. CASE Next
  BY <1>2, ServerKeepsIInv, BeginKeepsIInv, EmitKeepsIInv, EndKeepsIInv,
     ReceiveKeepsIInv, DropKeepsIInv DEF Next
<1> QED
  BY <1>1, <1>2

\* Clients that set no limit: the invariant of a request.
THEOREM Invariant ==
  ASSUME Limits = {NoLimit}
  PROVE  Spec => []IInv
<1>1. IInv /\ [Next]_vars => IInv'
  BY NextKeepsIInv
<1> QED
  BY InitIInv, <1>1, PTL DEF Spec

\* A client that sets no limit always holds the collection its token names,
\* for any number of clients, members, changes and lost responses.
THEOREM CopiesAreTrue ==
  ASSUME Limits = {NoLimit}
  PROVE  Spec => []ReplicaIsSnapshot
<1>1. IInv => ReplicaIsSnapshot
  BY DEF IInv
<1> QED
  BY Invariant, <1>1, PTL

-----------------------------------------------------------------------------
(* Days.                                                                   *)

LEMMA Remainder ==
  ASSUME NEW t \in Int
  PROVE  t % Day \in 0 .. Day - 1
  BY ClockAssumption

LEMMA FloorBounds ==
  ASSUME NEW t \in Int
  PROVE  /\ Floor(t) \in Int /\ Floor(t) <= t /\ t < Floor(t) + Day
         /\ t \in Nat => Floor(t) \in Nat
  BY ClockAssumption, Remainder DEF Floor

LEMMA FloorIsMultiple ==
  ASSUME NEW t \in Int
  PROVE  \E k \in Int : Floor(t) = k * Day
  <1> DEFINE k == t \div Day
             r == t % Day
  <1>1. k \in Int /\ Day \in Int /\ r \in Int /\ t = k * Day + r
    BY Remainder, ClockAssumption
  <1>2. Floor(t) = t - r
    BY DEF Floor
  <1>3. t - r = k * Day
    <2> HIDE DEF k, r
    <2> QED BY <1>1
  <1> QED BY <1>1, <1>2, <1>3

LEMMA MultipleIsFloor ==
  ASSUME NEW k \in Int, NEW r \in 0 .. Day - 1
  PROVE  Floor(k * Day + r) = k * Day /\ (k * Day + r) % Day = r
  <1>1. (k * Day + r) % Day = r
    BY ClockAssumption
  <1>2. k * Day \in Int /\ r \in Int
    BY ClockAssumption
  <1>3. (k * Day + r) - r = k * Day
    BY <1>2
  <1> QED BY <1>1, <1>3 DEF Floor

\* The ticks of a day.
LEMMA SameDay ==
  ASSUME NEW t \in Int, NEW r \in 0 .. Day - 1
  PROVE  Floor(Floor(t) + r) = Floor(t) /\ (Floor(t) + r) % Day = r
  BY FloorIsMultiple, MultipleIsFloor

\* A day that begins before t begins no later than that of t.
LEMMA FloorIsLast ==
  ASSUME NEW s \in Int, NEW t \in Int, s = Floor(s)
  PROVE  /\ s <= t => s <= Floor(t)
         /\ t < s + Day => Floor(t) <= s
  <1>1. PICK i \in Int : s = i * Day
    BY FloorIsMultiple
  <1>2. PICK j \in Int : Floor(t) = j * Day
    BY FloorIsMultiple
  <1>3. ASSUME NEW k \in Int, k >= 1
        PROVE  k * Day >= Day
    BY <1>3, ClockAssumption
  <1>4. /\ i > j => (i - j) * Day >= Day
        /\ j > i => (j - i) * Day >= Day
    BY <1>3
  <1>5. (i - j) * Day = s - Floor(t) /\ (j - i) * Day = Floor(t) - s
    BY <1>1, <1>2, ClockAssumption
  <1>6. i <= j => s <= Floor(t)
    BY <1>1, <1>2, <1>4, <1>5, FloorBounds, ClockAssumption
  <1>7. j <= i => Floor(t) <= s
    BY <1>1, <1>2, <1>4, <1>5, FloorBounds, ClockAssumption
  <1>8. i > j => s >= Floor(t) + Day
    BY <1>4, <1>5, FloorBounds, ClockAssumption
  <1>9. j > i => Floor(t) >= s + Day
    BY <1>4, <1>5, FloorBounds, ClockAssumption
  <1> QED BY <1>6, <1>7, <1>8, <1>9, FloorBounds, ClockAssumption

LEMMA FloorOfSum ==
  ASSUME NEW s \in Nat, NEW d \in Nat, NEW i \in Nat, s = Floor(s), d = Floor(d)
  PROVE  s + i * d = Floor(s + i * d)
  <1>1. PICK j \in Int : s = j * Day
    BY FloorIsMultiple
  <1>2. PICK k \in Int : d = k * Day
    BY FloorIsMultiple
  <1>3. s + i * d = (j + i * k) * Day + 0
    BY <1>1, <1>2, ClockAssumption
  <1>4. j + i * k \in Int
    OBVIOUS
  <1>5. Floor((j + i * k) * Day + 0) = (j + i * k) * Day
    <2>1. 0 \in 0 .. Day - 1
      BY ClockAssumption
    <2> QED BY <1>4, <2>1, MultipleIsFloor
  <1>6. (j + i * k) * Day + 0 = (j + i * k) * Day
    BY <1>4, ClockAssumption
  <1> QED BY <1>3, <1>5, <1>6

-----------------------------------------------------------------------------
(* Recurrence sets.                                                        *)

\* What an EXDATE or RDATE denotes is what it is read as.
LEMMA DenotesWhatIsRead ==
  ASSUME NEW c \in Components, c.start # None, IsOnDay(c, c.start),
         NEW x \in Exceptions, NEW ts \in Nat
  PROVE  Denotes(c, x, ts) <=> ts = NormalizeToDtstart(c, x)
  <1>1. /\ c.start \in Nat /\ x.at \in Nat /\ x.isDate \in BOOLEAN
        /\ c.start % Day \in 0 .. Day - 1 /\ ts % Day \in 0 .. Day - 1
    BY Remainder DEF Components, Exceptions
  <1> DEFINE r == c.start % Day
             day == Floor(x.at)
  <1>2. c.zone = "date" => r = 0
    <2>1. c.zone = "date" => c.start = c.start - r
      BY DEF IsOnDay, Floor
    <2> QED BY <1>1, <2>1
  <1>3. Floor(day + r) = day /\ (day + r) % Day = r /\ day \in Nat
    BY <1>1, SameDay, FloorBounds
  <1> DEFINE m == ts % Day
  <1>4. ts = Floor(ts) + m
    <2>1. Floor(ts) = ts - m
      BY DEF Floor
    <2>2. m \in Int
      BY <1>1
    <2> HIDE DEF m
    <2> QED BY <2>1, <2>2
  <1>5. Floor(ts) = day /\ m = r <=> ts = day + r
    <2>1. ts = day + r => Floor(ts) = day /\ m = r
      BY <1>3
    <2> HIDE DEF m, day, r
    <2> QED BY <1>4, <2>1
  <1>6. CASE c.zone = "date"
    <2>1. Denotes(c, x, ts) <=> ts = day + r
      BY <1>5, <1>6 DEF Denotes
    <2>2. day + r = day /\ NormalizeToDtstart(c, x) = day
      BY <1>2, <1>3, <1>6 DEF NormalizeToDtstart
    <2> QED BY <2>1, <2>2
  <1>7. CASE c.zone # "date" /\ x.isDate
    BY <1>5, <1>7 DEF Denotes, NormalizeToDtstart
  <1>8. CASE c.zone # "date" /\ ~x.isDate
    BY <1>8 DEF Denotes, NormalizeToDtstart
  <1> QED BY <1>1, <1>6, <1>7, <1>8

\* rruleset_from_comp: the recurrence set is what the rule, the additions and the
\* exclusions take.
LEMMA RruleSetTakes ==
  ASSUME NEW c \in Components, c.start # None, IsOnDay(c, c.start), NEW ts \in Nat
  PROVE  ts \in RruleSet(c) <=> Takes(c, ts)
  <1>1. /\ c.rdates \subseteq Exceptions /\ c.exdates \subseteq Exceptions
    BY DEF Components
  <1>2. \A x \in c.rdates \cup c.exdates : Denotes(c, x, ts) <=> ts = NormalizeToDtstart(c, x)
    BY <1>1, DenotesWhatIsRead
  <1> QED BY <1>2 DEF RruleSet, Takes

LEMMA RruleSetOfMaster ==
  ASSUME NEW m, IsMaster(m), IsRecurring(m), NEW ts \in RruleSet(m)
  PROVE  ts \in Horizon /\ ts \in Nat /\ IsOnDay(m, ts)
  <1>1. /\ m \in Components /\ m.start \in Nat /\ m.step \in Nat /\ m.count \in Nat
        /\ IsOnDay(m, m.start) /\ IsOnDay(m, m.step)
        /\ \A i \in 0 .. m.count - 1 : m.start + i * m.step \in Horizon
        /\ m.rdates \subseteq Exceptions
    BY DEF IsMaster, IsWritten, Components
  <1>2. CASE \E i \in 0 .. m.count - 1 : ts = m.start + i * m.step
    <2>1. PICK i \in 0 .. m.count - 1 : ts = m.start + i * m.step
      BY <1>2
    <2>2. i \in Nat
      BY <1>1, <2>1
    <2> QED BY <1>1, <2>1, <2>2, FloorOfSum, TimesAssumption DEF IsOnDay
  <1>3. CASE \E x \in m.rdates : ts = NormalizeToDtstart(m, x)
    <2>1. PICK x \in m.rdates : ts = NormalizeToDtstart(m, x)
      BY <1>3
    <2>2. x.at \in Times /\ ~x.isDate /\ IsOnDay(m, x.at)
      BY <2>1 DEF IsMaster
    <2>3. ts = x.at
      BY <2>1, <2>2 DEF NormalizeToDtstart, IsOnDay
    <2> QED BY <2>2, <2>3, TimesAssumption
  <1> QED BY <1>2, <1>3 DEF RruleSet

-----------------------------------------------------------------------------
(* Overlaps.                                                               *)

Spans == [from : Nat, to : Nat]
MaybeTimes == Nat \cup {None}

LEMMA ZoneShift ==
  ASSUME NEW c, c.zone \in Zones, NEW t \in Int, NEW tz \in Nat
  PROVE  /\ Tzify(c, t, tz) \in Int /\ Tzify(c, t, tz) >= t
         /\ c.zone = "date" => Tzify(c, t, 0) = t
         /\ \A u \in Int : Tzify(c, u, tz) - Tzify(c, t, tz) = u - t
  BY ClockAssumption DEF Tzify, Zones

\* A time with a zone of its own is the same on every clock.
LEMMA OneClock ==
  ASSUME NEW c, c.kind \in {"VEVENT", "VTODO"}, NEW w, NEW tz,
         tz = 0 \/ c.zone \in {"utc", "tzid"}
  PROVE  Overlaps(c, w, tz) <=> Overlaps(c, w, 0)
  <1>1. \A t : Tzify(c, t, tz) = Tzify(c, t, 0)
    BY DEF Tzify
  <1>2. OverlapsVevent(c, w, tz) <=> OverlapsVevent(c, w, 0)
    BY <1>1 DEF OverlapsVevent
  <1>3. OverlapsStartedVtodo(c, w, tz) <=> OverlapsStartedVtodo(c, w, 0)
    BY <1>1 DEF OverlapsStartedVtodo
  <1>4. OverlapsVtodo(c, w, tz) <=> OverlapsVtodo(c, w, 0)
    BY <1>1, <1>3 DEF OverlapsVtodo
  <1> QED BY <1>2, <1>4 DEF Overlaps

\* What overlaps and what does not is a matter of these properties.
Alike(d, e) ==
  /\ d.kind = e.kind /\ d.zone = e.zone /\ d.dur = e.dur
  /\ d.start = e.start /\ d.end = e.end

LEMMA AlikeOverlap ==
  ASSUME NEW d, NEW e, Alike(d, e), e.start # None, NEW w, NEW tz
  PROVE  Overlaps(d, w, tz) <=> Overlaps(e, w, tz)
  <1>1. \A t : Tzify(d, t, tz) = Tzify(e, t, tz)
    BY DEF Tzify, Alike
  <1> QED BY <1>1 DEF Alike, Overlaps, OverlapsVevent, OverlapsVtodo, OverlapsStartedVtodo

\* o is the occurrence at ts of what c is.
IsOccurrence(o, c, ts) ==
  /\ o.kind = c.kind /\ o.zone = c.zone /\ o.dur = c.dur /\ o.start = ts
  /\ o.end = IF c.end = None THEN None ELSE ts + (c.end - c.start)

\* The part of IsWritten that recurrence needs.
MayRecur(c) ==
  /\ c.kind \in {"VEVENT", "VTODO"} /\ c.zone \in Zones
  /\ c.start \in Nat /\ c.end \in MaybeTimes /\ c.dur \in MaybeTimes
  /\ c.end = None \/ c.dur = None
  /\ c.end # None => c.start <= c.end

\* How the rule is asked: the window is wide enough for whatever overlaps it.
LEMMA OverlapIsBetween ==
  ASSUME NEW c, MayRecur(c), NEW ts \in Nat, IsOnDay(c, ts), NEW o, IsOccurrence(o, c, ts),
         NEW w \in Spans, Overlaps(o, w, 0)
  PROVE  LET lo == w.from - EventDuration(c)
         IN  /\ Tzify(c, ts, 0) <= IF c.zone = "date" THEN Floor(w.to) ELSE w.to
             /\ (IF c.zone = "date" THEN Floor(lo) ELSE lo) <= Tzify(c, ts, 0)
  <1> DEFINE s == Tzify(c, ts, 0)
             d == EventDuration(c)
  <1>1. /\ w.from \in Nat /\ w.to \in Nat /\ s \in Int /\ d \in Nat
        /\ c.zone = "date" => s = ts /\ s = Floor(s)
    BY ZoneShift DEF Spans, MayRecur, MaybeTimes, EventDuration, None, IsOnDay
  <1>2. /\ \A t : Tzify(o, t, 0) = Tzify(c, t, 0)
        /\ o.end # None => c.end # None /\ Tzify(c, o.end, 0) = s + d
        /\ o.end = None => c.end = None
        /\ o.dur # None => o.dur = d
        /\ o.end = None /\ o.dur = None => d = 0
    <2>1. \A t : Tzify(o, t, 0) = Tzify(c, t, 0)
      BY DEF Tzify, IsOccurrence
    <2>2. ASSUME c.end # None
          PROVE  /\ o.end # None /\ Tzify(c, o.end, 0) = s + d
                 /\ c.dur = None
      <3>1. c.dur = None /\ d = c.end - c.start /\ c.end \in Nat /\ c.start \in Nat
        BY <2>2 DEF MayRecur, MaybeTimes, EventDuration, None
      <3>2. o.end = ts + d /\ o.end \in Nat
        BY <1>1, <2>2, <3>1 DEF IsOccurrence
      <3>3. Tzify(c, o.end, 0) - Tzify(c, ts, 0) = o.end - ts /\ Tzify(c, o.end, 0) \in Int
        BY <3>2, ZoneShift DEF MayRecur
      <3> QED BY <1>1, <3>1, <3>2, <3>3 DEF None
    <2>3. c.end = None => o.end = None
      BY DEF IsOccurrence
    <2>4. o.dur = c.dur /\ (c.dur # None => d = c.dur)
          /\ (c.dur = None /\ c.end = None => d = 0)
      BY DEF IsOccurrence, EventDuration
    <2> QED BY <2>1, <2>2, <2>3, <2>4
  <1>3. s < w.to \/ s <= w.to
    <2>1. CASE o.kind = "VEVENT"
      BY <1>1, <1>2, <2>1 DEF Overlaps, OverlapsVevent, IsOccurrence
    <2>2. CASE o.kind = "VTODO"
      BY <1>1, <1>2, <2>2 DEF Overlaps, OverlapsVtodo, OverlapsStartedVtodo, IsOccurrence, None
    <2> QED BY <2>1, <2>2 DEF MayRecur, IsOccurrence
  <1>4. w.from <= s + d \/ (c.zone = "date" /\ d = 0 /\ w.from < s + Day)
    <2>1. CASE o.kind = "VEVENT"
      BY <1>1, <1>2, <2>1, ClockAssumption DEF Overlaps, OverlapsVevent, IsOccurrence
    <2>2. CASE o.kind = "VTODO"
      BY <1>1, <1>2, <2>2 DEF Overlaps, OverlapsVtodo, OverlapsStartedVtodo, IsOccurrence, None
    <2> QED BY <2>1, <2>2 DEF MayRecur, IsOccurrence
  <1>5. CASE c.zone # "date"
    BY <1>1, <1>3, <1>4, <1>5
  <1>6. CASE c.zone = "date"
    <2>1. s <= Floor(w.to)
      BY <1>1, <1>3, <1>6, FloorIsLast
    <2>2. w.from - d < s + Day /\ w.from - d \in Int
      BY <1>1, <1>4, ClockAssumption
    <2>3. Floor(w.from - d) <= s
      BY <1>1, <1>6, <2>2, FloorIsLast
    <2> QED BY <1>6, <2>1, <2>3
  <1> QED BY <1>5, <1>6

-----------------------------------------------------------------------------
(* Objects.                                                                *)

LEMMA OccurrenceFields ==
  ASSUME NEW c \in Components, MayRecur(c), NEW ts \in Nat
  PROVE  LET o == Occurrence(c, ts)
         IN  /\ IsOccurrence(o, c, ts)
             /\ o \in Components /\ MayRecur(o)
             /\ o.recid = ts /\ o.step = 0 /\ o.exdates = {} /\ o.rdates = {}
             /\ o.text = c.text /\ o.busy = c.busy /\ o.declined = c.declined
  <1> DEFINE o == Occurrence(c, ts)
             end == IF c.end = None THEN None ELSE ts + (c.end - c.start)
  <1>1. end \in MaybeTimes /\ (end # None => ts <= end) /\ (end = None <=> c.end = None)
    BY DEF MayRecur, MaybeTimes, None
  <1>2. o = [c EXCEPT !.start = ts, !.step = 0, !.count = 0, !.exdates = {}, !.rdates = {},
                      !.recid = ts, !.end = end]
    BY DEF Occurrence, Components
  <1>3. /\ o \in Components
        /\ o.kind = c.kind /\ o.zone = c.zone /\ o.dur = c.dur /\ o.start = ts /\ o.end = end
        /\ o.recid = ts /\ o.step = 0 /\ o.exdates = {} /\ o.rdates = {}
        /\ o.text = c.text /\ o.busy = c.busy /\ o.declined = c.declined
    <2> HIDE DEF o, end
    <2> QED BY <1>1, <1>2 DEF Components, MaybeTimes
  <1>4. IsOccurrence(o, c, ts)
    BY <1>3 DEF IsOccurrence
  <1>5. MayRecur(o)
    <2> HIDE DEF o, end
    <2> QED BY <1>1, <1>3 DEF MayRecur
  <1> QED BY <1>3, <1>4, <1>5

LEMMA MasterMayRecur ==
  ASSUME NEW m, IsMaster(m), IsRecurring(m)
  PROVE  m \in Components /\ MayRecur(m) /\ IsOnDay(m, m.start)
  <1>1. m \in Components /\ m.start # None
    BY DEF IsMaster, IsWritten
  <1>2. m.start \in Nat
    BY <1>1 DEF Components
  <1>3. IsOnDay(m, m.start) /\ (m.end # None => m.start <= m.end) /\ (m.end = None \/ m.dur = None)
    BY <1>1 DEF IsMaster, IsWritten
  <1> QED BY <1>1, <1>2, <1>3 DEF Components, MayRecur, MaybeTimes

\* The set obj of components has the master m.
Describes(obj, m) ==
  /\ m \in obj /\ IsMaster(m)
  /\ \A e \in obj \ {m} : e \in Components /\ IsRecurring(m) /\ IsOverrideOf(e, m)

LEMMA DescribedParts ==
  ASSUME NEW obj, NEW m, Describes(obj, m)
  PROVE  /\ Masters(obj) = {m} /\ Overrides(obj) = obj \ {m}
         /\ HasRecurrence(obj) <=> IsRecurring(m)
         /\ ~IsRecurring(m) => obj = {m}
  BY DEF Describes, Masters, Overrides, HasRecurrence, IsMaster, IsOverrideOf

\* What an override is like.
LEMMA OverrideMayRecur ==
  ASSUME NEW m, IsMaster(m), IsRecurring(m), NEW e \in Components, IsOverrideOf(e, m)
  PROVE  MayRecur(e) /\ IsOnDay(e, e.start) /\ e.recid \in Nat
  <1>1. MayRecur(m) /\ m \in Components
    BY MasterMayRecur
  <1>2. e.start \in Nat /\ e.recid \in Nat
    BY DEF IsOverrideOf, Components, IsOverride
  <1>3. e.end = None \/ (m.end # None /\ e.start <= e.end)
    BY <1>1, <1>2 DEF IsOverrideOf, MayRecur, MaybeTimes, None
  <1> QED BY <1>1, <1>2, <1>3 DEF IsOverrideOf, MayRecur, Components, MaybeTimes

\* The instances are the overrides and the occurrences that nothing replaces.
LEMMA InstancesOfRecurring ==
  ASSUME NEW obj, NEW m, Describes(obj, m), IsRecurring(m)
  PROVE  Instances(obj) = Overrides(obj)
           \cup {Occurrence(m, ts) : ts \in {t \in RruleSet(m) : \A e \in Overrides(obj) : e.recid # t}}
  <1>1. /\ m \in Components /\ m.start # None /\ IsOnDay(m, m.start)
        /\ Masters(obj) = {m} /\ IsMaster(m)
    BY MasterMayRecur, DescribedParts DEF Describes, IsMaster, IsWritten
  <1>2. \A t : t \in Horizon /\ Takes(m, t) <=> t \in RruleSet(m)
    BY <1>1, RruleSetTakes, RruleSetOfMaster, TimesAssumption
  <1>3. {t \in Horizon : Takes(m, t) /\ \A e \in Overrides(obj) : e.recid # t}
          = {t \in RruleSet(m) : \A e \in Overrides(obj) : e.recid # t}
    BY <1>2
  <1>4. {n \in Masters(obj) : ~IsRecurring(n)} = {} /\ {n \in Masters(obj) : IsRecurring(n)} = {m}
    BY <1>1
  <1> QED BY <1>3, <1>4 DEF Instances

LEMMA InstancesOfSingle ==
  ASSUME NEW obj, NEW m, Describes(obj, m), ~IsRecurring(m)
  PROVE  Instances(obj) = obj
  <1>1. Masters(obj) = {m} /\ Overrides(obj) = {} /\ obj = {m}
    BY DescribedParts
  <1>2. {n \in Masters(obj) : ~IsRecurring(n)} = {m} /\ {n \in Masters(obj) : IsRecurring(n)} = {}
    BY <1>1
  <1> QED BY <1>1, <1>2 DEF Instances

\* get_expanded_calendar: the instances that overlap the window, and no others.
LEMMA ExpansionIsExact ==
  ASSUME NEW obj, NEW m, Describes(obj, m), IsRecurring(m), NEW w \in Spans
  PROVE  ExpandCalendar(obj, w) = {c \in Instances(obj) : Overlaps(c, w, 0)}
  <1>1. /\ m \in Components /\ MayRecur(m) /\ IsMaster(m)
        /\ Masters(obj) = {m} /\ HasRecurrence(obj)
    BY MasterMayRecur, DescribedParts DEF Describes
  <1>2. {n \in Masters(obj) : ~IsRecurring(n)} = {} /\ {n \in Masters(obj) : IsRecurring(n)} = {m}
    BY <1>1
  <1>3. ExpandCalendar(obj, w) = ExpandRrule(obj, m, w) \cup {e \in Overrides(obj) : Overlaps(e, w, 0)}
    <2> DEFINE R == UNION {ExpandRrule(obj, c, w) : c \in {n \in Masters(obj) : IsRecurring(n)}}
               S == {n \in Masters(obj) : ~IsRecurring(n)}
               T == {e \in Overrides(obj) : EventOverlapsRange(e, w)}
    <2>1. ExpandCalendar(obj, w) = R \cup S \cup T
      BY <1>1 DEF ExpandCalendar
    <2>2. R = ExpandRrule(obj, m, w) /\ S = {} /\ T = {e \in Overrides(obj) : Overlaps(e, w, 0)}
      BY <1>2 DEF EventOverlapsRange
    <2> HIDE DEF R, S, T
    <2> QED BY <2>1, <2>2
  <1>4. ASSUME NEW o \in ExpandRrule(obj, m, w)
        PROVE  o \in Instances(obj) /\ Overlaps(o, w, 0)
    <2>1. PICK ts \in Between(m, w, EventDuration(m)) :
            /\ o = IF \E e \in Overrides(obj) : e.recid = ts
                   THEN CHOOSE e \in Overrides(obj) : e.recid = ts ELSE Occurrence(m, ts)
            /\ Overlaps(o, w, 0)
      BY <1>4 DEF ExpandRrule, EventOverlapsRange
    <2>2. ts \in RruleSet(m)
      BY DEF Between
    <2>3. CASE \E e \in Overrides(obj) : e.recid = ts
      BY <2>1, <2>3, InstancesOfRecurring
    <2>4. CASE ~\E e \in Overrides(obj) : e.recid = ts
      BY <2>1, <2>2, <2>4, InstancesOfRecurring
    <2> QED BY <2>1, <2>3, <2>4
  <1>5. ASSUME NEW ts \in RruleSet(m), \A e \in Overrides(obj) : e.recid # ts,
               Overlaps(Occurrence(m, ts), w, 0)
        PROVE  Occurrence(m, ts) \in ExpandRrule(obj, m, w)
    <2>1. ts \in Nat /\ IsOnDay(m, ts)
      BY <1>1, RruleSetOfMaster
    <2>2. IsOccurrence(Occurrence(m, ts), m, ts)
      BY <1>1, <2>1, OccurrenceFields
    <2>3. ts \in Between(m, w, EventDuration(m))
      BY <1>1, <1>5, <2>1, <2>2, OverlapIsBetween DEF Between
    <2> QED BY <1>5, <2>3 DEF ExpandRrule, EventOverlapsRange
  <1>6. ASSUME NEW c \in Instances(obj), Overlaps(c, w, 0)
        PROVE  c \in ExpandCalendar(obj, w)
    BY <1>3, <1>5, <1>6, InstancesOfRecurring
  <1>7. ASSUME NEW c \in ExpandCalendar(obj, w)
        PROVE  c \in Instances(obj) /\ Overlaps(c, w, 0)
    BY <1>3, <1>4, <1>7, InstancesOfRecurring
  <1> QED BY <1>6, <1>7

LEMMA ExpansionOfSingle ==
  ASSUME NEW obj, NEW m, Describes(obj, m), ~IsRecurring(m), NEW w
  PROVE  ExpandCalendar(obj, w) = obj
  BY DescribedParts DEF ExpandCalendar

\* Instances are of the kind and in the zone of their master.
LEMMA InstanceIsAlike ==
  ASSUME NEW obj, NEW m, Describes(obj, m), IsRecurring(m), NEW c \in Instances(obj)
  PROVE  /\ c \in Components /\ MayRecur(c) /\ c.kind = m.kind /\ c.zone = m.zone
  <1>1. m \in Components /\ MayRecur(m) /\ IsMaster(m)
    BY MasterMayRecur DEF Describes
  <1>2. CASE c \in Overrides(obj)
    <2>1. c \in Components /\ IsOverrideOf(c, m)
      BY <1>2, DescribedParts DEF Describes
    <2> QED BY <1>1, <2>1, OverrideMayRecur DEF IsOverrideOf
  <1>3. CASE \E ts \in RruleSet(m) : c = Occurrence(m, ts)
    <2>1. PICK ts \in RruleSet(m) : c = Occurrence(m, ts)
      BY <1>3
    <2>2. ts \in Nat
      BY <1>1, RruleSetOfMaster
    <2> QED BY <1>1, <2>1, <2>2, OccurrenceFields DEF IsOccurrence
  <1> QED BY <1>2, <1>3, InstancesOfRecurring

-----------------------------------------------------------------------------
(* The object in a state.                                                  *)

LEMMA ObjectIsDescribed ==
  ASSUME CalendarInv, object # <<>>
  PROVE  Describes(components, object[1])
  <1>1. object \in Seq(Components) /\ 1 \in DOMAIN object
    BY DEF CalendarInv, CalendarTypeOK
  <1>2. \A e \in components : \E i \in DOMAIN object : e = object[i] /\ e \in Components
    BY <1>1 DEF components, ToSet
  <1>3. object[1] \in components
    BY <1>1 DEF components, ToSet
  <1>4. ASSUME NEW e \in components \ {object[1]}
        PROVE  e \in Components /\ IsRecurring(object[1]) /\ IsOverrideOf(e, object[1])
    <2>1. PICK i \in DOMAIN object : e = object[i] /\ e \in Components
      BY <1>2
    <2> QED BY <2>1 DEF CalendarInv
  <1> QED BY <1>3, <1>4 DEF Describes, CalendarInv

LEMMA EmptyObject ==
  ASSUME object = <<>>
  PROVE  /\ components = {} /\ Instances(components) = {}
         /\ \A w : ExpandCalendar(components, w) = {}
         /\ ~HasRecurrence(components)
  <1>1. components = {}
    BY DEF components, ToSet
  <1>2. Overrides({}) = {} /\ Masters({}) = {} /\ ~HasRecurrence({})
    BY DEF Overrides, Masters, HasRecurrence
  <1> QED BY <1>1, <1>2 DEF Instances, ExpandCalendar

LEMMA QueryShape ==
  ASSUME NEW f \in Queries
  PROVE  /\ f.w \in Windows /\ f.w \in Spans /\ f.w # NoWindow
         /\ f.kind \in {"VEVENT", "VTODO"} /\ f.prop \in {"any", "undefined", "text"}
  BY QueriesAssumption DEF Queries, Spans, NoWindow, None

\* A time-range filter of a calendar-query on the expansion finds what it finds
\* among the instances.
LEMMA CheckFindsInstances ==
  ASSUME CalendarInv, NEW f \in Queries, NEW tz, ~IsMisread(components, tz)
  PROVE  Check(components, f, tz) <=> \E c \in Instances(components) : ComponentMatches(c, f, tz)
  <1> DEFINE m == object[1]
  <1>1. Check(components, f, tz)
          <=> \E c \in ExpandCalendar(components, f.w) : ComponentMatches(c, f, tz)
    BY QueryShape DEF Check
  <1>2. CASE object = <<>>
    BY <1>1, <1>2, EmptyObject
  <1>3. CASE object # <<>> /\ ~IsRecurring(m)
    BY <1>1, <1>3, ObjectIsDescribed, ExpansionOfSingle, InstancesOfSingle
  <1>4. CASE object # <<>> /\ IsRecurring(m)
    <2>1. Describes(components, m)
      BY <1>4, ObjectIsDescribed
    <2>2. tz = 0 \/ m.zone \in {"utc", "tzid"}
      <3>1. m \in components /\ m.zone \in Zones
        BY <2>1 DEF Describes, IsMaster, IsWritten, Components
      <3> QED BY <1>4, <3>1 DEF IsMisread, Zones
    <2>3. ASSUME NEW c \in Instances(components), ComponentMatches(c, f, tz)
          PROVE  Overlaps(c, f.w, 0)
      <3>1. c.zone = m.zone /\ c.kind \in {"VEVENT", "VTODO"}
        BY <1>4, <2>1, InstanceIsAlike DEF MayRecur
      <3>2. Overlaps(c, f.w, tz)
        BY <2>3, QueryShape DEF ComponentMatches
      <3> QED BY <2>2, <3>1, <3>2, OneClock
    <2>4. ExpandCalendar(components, f.w) = {c \in Instances(components) : Overlaps(c, f.w, 0)}
      BY <1>4, <2>1, ExpansionIsExact, QueryShape
    <2> QED BY <1>1, <2>3, <2>4
  <1> QED BY <1>2, <1>3, <1>4

LEMMA QueriesFind ==
  ASSUME CalendarInv
  PROVE  QueriesFindOverlaps
  <1> SUFFICES ASSUME NEW f \in Queries, NEW own \in {None, 0, Offset},
                      NEW tz, tz = IF own = None THEN timezone ELSE own,
                      ~IsMisread(components, tz),
                      NEW q, q = [filter |-> f, tz |-> own, data |-> "all", w |-> f.w]
               PROVE  CalendarQuery(components, q, timezone) # {}
                        <=> \E c \in Instances(components) : ComponentMatches(c, f, tz)
    BY DEF QueriesFindOverlaps
  <1>1. ClockOf(q, timezone) = tz
    BY DEF ClockOf
  <1>2. Check(components, f, tz) => components # {}
    BY EmptyObject, CheckFindsInstances DEF components, ToSet, Instances, Overrides, Masters
  <1>3. CalendarQuery(components, q, timezone) = IF Check(components, f, tz) THEN components ELSE {}
    BY <1>1 DEF CalendarQuery, ExtractFromCalendar
  <1> QED BY <1>2, <1>3, CheckFindsInstances

-----------------------------------------------------------------------------
(* What a client gets.                                                     *)

\* An override that is not sent does not overlap the window.
LEMMA LostDoesNotOverlap ==
  ASSUME NEW m, IsMaster(m), IsRecurring(m), NEW e \in Components, IsOverrideOf(e, m),
         NEW w \in Spans, ~IsRelevant(e, w), e.kind # "VTODO", e.zone # "date",
         ~(e.end = None /\ e.dur = None)
  PROVE  ~Overlaps(e, w, 0)
  <1>1. MayRecur(e) /\ e.start \in Nat /\ e.kind = "VEVENT" /\ e.start # None
    BY OverrideMayRecur DEF MayRecur, None
  <1> DEFINE s == Tzify(e, e.start, 0)
             last == IF e.end # None THEN Tzify(e, e.end, 0)
                     ELSE IF e.dur # None THEN s + e.dur ELSE s
  <1>2. ~(s < w.to /\ last > w.from)
    BY <1>1 DEF IsRelevant
  <1>3. w.from \in Nat /\ w.to \in Nat /\ s \in Int /\ last \in Int
    <2>1. /\ e.zone \in Zones /\ e.end \in Nat \cup {None} /\ e.dur \in Nat \cup {None}
          /\ w.from \in Nat /\ w.to \in Nat
      BY DEF Components, Spans
    <2>2. s \in Int /\ (e.end # None => Tzify(e, e.end, 0) \in Int)
      <3>1. \A t \in Int : Tzify(e, t, 0) \in Int
        BY <2>1, ZoneShift
      <3> QED BY <1>1, <2>1, <3>1 DEF None
    <2>3. e.dur # None => s + e.dur \in Int
      BY <2>1, <2>2
    <2> QED BY <2>1, <2>2, <2>3
  <1>4. Overlaps(e, w, 0) => s < w.to /\ last > w.from
    BY <1>1, <1>3 DEF Overlaps, OverlapsVevent
  <1> QED BY <1>2, <1>4

\* The instance that an override replaces, made from either.
LEMMA ReplacedInstance ==
  ASSUME NEW m, IsMaster(m), IsRecurring(m), NEW e \in Components, IsOverrideOf(e, m), NEW w
  PROVE  Overlaps(Occurrence(e, e.recid), w, 0) <=> Overlaps(Occurrence(m, e.recid), w, 0)
  <1>1. /\ m \in Components /\ MayRecur(m) /\ MayRecur(e) /\ e.recid \in Nat
    BY MasterMayRecur, OverrideMayRecur
  <1>2. /\ IsOccurrence(Occurrence(e, e.recid), e, e.recid)
        /\ IsOccurrence(Occurrence(m, e.recid), m, e.recid)
    BY <1>1, OccurrenceFields
  <1>3. /\ e.end = None <=> m.end = None
        /\ e.end # None => e.end - e.start = m.end - m.start
    BY <1>1 DEF MayRecur, MaybeTimes, IsOverrideOf, None
  <1>4. Alike(Occurrence(e, e.recid), Occurrence(m, e.recid))
    BY <1>2, <1>3 DEF Alike, IsOccurrence, IsOverrideOf
  <1>5. Occurrence(m, e.recid).start # None
    BY <1>1, <1>2 DEF IsOccurrence, None
  <1> QED BY <1>4, <1>5, AlikeOverlap

\* What a client sees in a window of the components obj.
SeenIn(obj, w) == {c \in Instances(obj) : Overlaps(c, w, 0)}

\* An expansion sends the instances in the window.
LEMMA ExpansionsShow ==
  ASSUME CalendarInv, NEW w \in Windows, HasRecurrence(components)
  PROVE  ExtractFromCalendar(components, "expand", w) = SeenIn(components, w)
  <1>1. object # <<>>
    BY EmptyObject
  <1>2. Describes(components, object[1])
    BY <1>1, ObjectIsDescribed
  <1>3. w \in Spans
    BY QueriesAssumption DEF Spans
  <1> QED BY <1>2, <1>3, DescribedParts, ExpansionIsExact DEF ExtractFromCalendar, SeenIn

\* limit-recurrence-set sends what the window needs.
LEMMA LimitsShow ==
  ASSUME CalendarInv, NEW w \in Windows,
         LimitRecurrenceSet(components, w) # components, ~HasLostOverride(components, w)
  PROVE  SeenIn(LimitRecurrenceSet(components, w), w) = SeenIn(components, w)
  <1> DEFINE m == object[1]
             limited == LimitRecurrenceSet(components, w)
  <1>1. object # <<>>
    <2>1. object = <<>> => limited = components
      BY EmptyObject DEF LimitRecurrenceSet
    <2> QED BY <2>1
  <1>2. Describes(components, m) /\ IsMaster(m)
    BY <1>1, ObjectIsDescribed DEF Describes
  <1>3. Describes(limited, m)
    BY <1>2 DEF Describes, LimitRecurrenceSet, IsMaster
  <1>4. IsRecurring(m)
    <2>1. ~IsRecurring(m) => components = {m} /\ limited = {m}
      BY <1>2, <1>3, DescribedParts
    <2> QED BY <2>1
  <1>5. w \in Spans
    BY QueriesAssumption DEF Spans
  <1>6. Overrides(limited) \subseteq Overrides(components)
    BY DEF Overrides, LimitRecurrenceSet
  <1>7. ASSUME NEW e \in Overrides(components), e \notin Overrides(limited)
        PROVE  ~Overlaps(e, w, 0) /\ ~Overlaps(Occurrence(m, e.recid), w, 0)
    <2>1. e \in Components /\ IsOverrideOf(e, m) /\ ~IsRelevant(e, w)
      BY <1>2, <1>7, DescribedParts DEF Describes, Overrides, LimitRecurrenceSet
    <2>2. /\ e.kind # "VTODO" /\ e.zone # "date" /\ ~(e.end = None /\ e.dur = None)
          /\ ~Overlaps(Occurrence(e, e.recid), w, 0)
      BY <1>7, <2>1 DEF HasLostOverride
    <2> QED BY <1>2, <1>4, <1>5, <2>1, <2>2, LostDoesNotOverlap, ReplacedInstance
  <1>8. ASSUME NEW c \in Instances(limited), Overlaps(c, w, 0)
        PROVE  c \in Instances(components)
    <2>1. CASE c \in Overrides(limited)
      BY <1>2, <1>4, <1>6, <2>1, InstancesOfRecurring
    <2>2. CASE \E ts \in RruleSet(m) : c = Occurrence(m, ts) /\ \A e \in Overrides(limited) : e.recid # ts
      <3>1. PICK ts \in RruleSet(m) :
              c = Occurrence(m, ts) /\ \A e \in Overrides(limited) : e.recid # ts
        BY <2>2
      <3>2. \A e \in Overrides(components) : e.recid # ts
        BY <1>7, <1>8, <3>1
      <3> QED BY <1>2, <1>4, <3>1, <3>2, InstancesOfRecurring
    <2> QED BY <1>3, <1>4, <2>1, <2>2, InstancesOfRecurring
  <1>9. ASSUME NEW c \in Instances(components), Overlaps(c, w, 0)
        PROVE  c \in Instances(limited)
    <2>1. CASE c \in Overrides(components)
      BY <1>3, <1>4, <1>7, <1>9, <2>1, InstancesOfRecurring
    <2>2. CASE \E ts \in RruleSet(m) : c = Occurrence(m, ts) /\ \A e \in Overrides(components) : e.recid # ts
      BY <1>3, <1>4, <1>6, <2>2, InstancesOfRecurring
    <2> QED BY <1>2, <1>4, <2>1, <2>2, InstancesOfRecurring
  <1> QED BY <1>8, <1>9 DEF SeenIn

LEMMA ExtractsShow ==
  ASSUME CalendarInv
  PROVE  ExtractsShowTheWindow
  <1>1. \A obj, w : {c \in Instances(obj) : Overlaps(c, w, 0)} = SeenIn(obj, w)
    BY DEF SeenIn
  <1>2. \A obj, w : ExtractFromCalendar(obj, "limit", w) = LimitRecurrenceSet(obj, w)
    BY DEF ExtractFromCalendar
  <1> QED BY <1>1, <1>2, ExpansionsShow, LimitsShow DEF ExtractsShowTheWindow

-----------------------------------------------------------------------------
(* The index of an object with one component.                              *)

LEMMA OneRow ==
  /\ Cardinality({1}) = 1 /\ Nth({1}, 1) = 1
  /\ Cardinality({}) = 0
  <1>1. Cardinality({1}) = 1 /\ Cardinality({}) = 0
    BY FS_Singleton, FS_EmptySet
  <1>2. {q \in {1} : q <= 1} = {1}
    OBVIOUS
  <1> QED BY <1>1, <1>2 DEF Nth

LEMMA OneValue ==
  ASSUME NEW v
  PROVE  [i \in 1 .. 1 |-> v] = <<v>>
  OBVIOUS

\* The sequence obj has the one component c.
IsOnly(obj, c) == DOMAIN obj = {1} /\ c = obj[1]

\* What the index holds of c, for a filter that asks for a component of a kind.
IndexOf(c, kind) ==
  [start |-> IF c.kind = kind /\ c.start # None
             THEN <<[at |-> c.start, zone |-> IndexZone(c)]>> ELSE <<>>,
   end |-> IF c.kind = kind /\ c.end # None
           THEN <<[at |-> c.end, zone |-> IndexZone(c)]>> ELSE <<>>,
   dur |-> IF c.kind = kind /\ c.dur # None THEN <<c.dur>> ELSE <<>>,
   done |-> IF c.kind = kind /\ c.done # None THEN <<c.done>> ELSE <<>>,
   created |-> IF c.kind = kind /\ c.created # None THEN <<c.created>> ELSE <<>>,
   rrule |-> IF c.kind = kind /\ IsRecurring(c)
             THEN <<[step |-> c.step, count |-> c.count]>> ELSE <<>>,
   text |-> IF c.kind = kind /\ c.text # "" THEN <<c.text>> ELSE <<>>]

LEMMA IndexOfOne ==
  ASSUME NEW obj, NEW c, IsOnly(obj, c), NEW kind
  PROVE  Indexes(obj, kind) = IndexOf(c, kind)
  <1> DEFINE ix == Indexes(obj, kind)
             here == c.kind = kind
  <1>0. DOMAIN obj = {1} /\ c = obj[1]
    BY DEF IsOnly
  <1>1. ix.start = (IF here /\ c.start # None THEN <<[at |-> c.start, zone |-> IndexZone(c)]>> ELSE <<>>)
    <2> DEFINE rows == {r \in DOMAIN obj : obj[r].kind = kind /\ obj[r].start # None}
    <2>1. rows = IF here /\ c.start # None THEN {1} ELSE {}
      BY <1>0
    <2>2. ix.start = [i \in 1 .. Cardinality(rows) |->
                        [at |-> obj[Nth(rows, i)].start, zone |-> IndexZone(obj[Nth(rows, i)])]]
      BY DEF Indexes, Values
    <2> DEFINE given == here /\ c.start # None
    <2>3. Cardinality(rows) = (IF given THEN 1 ELSE 0) /\ (given => Nth(rows, 1) = 1)
      BY <2>1, OneRow
    <2> HIDE DEF rows
    <2> HIDE DEF ix
    <2>4. CASE given
      <3>1. ix.start = [i \in 1 .. 1 |-> [at |-> c.start, zone |-> IndexZone(c)]]
        BY <1>0, <2>2, <2>3, <2>4
      <3> QED BY <2>4, <3>1, OneValue
    <2>5. CASE ~given
      <3>1. ix.start = <<>>
        BY <2>2, <2>3, <2>5
      <3> QED BY <2>5, <3>1
    <2> QED BY <2>4, <2>5
  <1>2. ix.end = (IF here /\ c.end # None THEN <<[at |-> c.end, zone |-> IndexZone(c)]>> ELSE <<>>)
    <2> DEFINE rows == {r \in DOMAIN obj : obj[r].kind = kind /\ obj[r].end # None}
    <2>1. rows = IF here /\ c.end # None THEN {1} ELSE {}
      BY <1>0
    <2>2. ix.end = [i \in 1 .. Cardinality(rows) |->
                      [at |-> obj[Nth(rows, i)].end, zone |-> IndexZone(obj[Nth(rows, i)])]]
      BY DEF Indexes, Values
    <2> DEFINE given == here /\ c.end # None
    <2>3. Cardinality(rows) = (IF given THEN 1 ELSE 0) /\ (given => Nth(rows, 1) = 1)
      BY <2>1, OneRow
    <2> HIDE DEF rows
    <2> HIDE DEF ix
    <2>4. CASE given
      <3>1. ix.end = [i \in 1 .. 1 |-> [at |-> c.end, zone |-> IndexZone(c)]]
        BY <1>0, <2>2, <2>3, <2>4
      <3> QED BY <2>4, <3>1, OneValue
    <2>5. CASE ~given
      <3>1. ix.end = <<>>
        BY <2>2, <2>3, <2>5
      <3> QED BY <2>5, <3>1
    <2> QED BY <2>4, <2>5
  <1>3. ix.dur = (IF here /\ c.dur # None THEN <<c.dur>> ELSE <<>>)
    <2> DEFINE rows == {r \in DOMAIN obj : obj[r].kind = kind /\ obj[r].dur # None}
    <2>1. rows = IF here /\ c.dur # None THEN {1} ELSE {}
      BY <1>0
    <2>2. ix.dur = [i \in 1 .. Cardinality(rows) |-> obj[Nth(rows, i)].dur]
      BY DEF Indexes, Values
    <2> DEFINE given == here /\ c.dur # None
    <2>3. Cardinality(rows) = (IF given THEN 1 ELSE 0) /\ (given => Nth(rows, 1) = 1)
      BY <2>1, OneRow
    <2> HIDE DEF rows
    <2> HIDE DEF ix
    <2>4. CASE given
      <3>1. ix.dur = [i \in 1 .. 1 |-> c.dur]
        BY <1>0, <2>2, <2>3, <2>4
      <3> QED BY <2>4, <3>1, OneValue
    <2>5. CASE ~given
      <3>1. ix.dur = <<>>
        BY <2>2, <2>3, <2>5
      <3> QED BY <2>5, <3>1
    <2> QED BY <2>4, <2>5
  <1>4. ix.done = (IF here /\ c.done # None THEN <<c.done>> ELSE <<>>)
    <2> DEFINE rows == {r \in DOMAIN obj : obj[r].kind = kind /\ obj[r].done # None}
    <2>1. rows = IF here /\ c.done # None THEN {1} ELSE {}
      BY <1>0
    <2>2. ix.done = [i \in 1 .. Cardinality(rows) |-> obj[Nth(rows, i)].done]
      BY DEF Indexes, Values
    <2> DEFINE given == here /\ c.done # None
    <2>3. Cardinality(rows) = (IF given THEN 1 ELSE 0) /\ (given => Nth(rows, 1) = 1)
      BY <2>1, OneRow
    <2> HIDE DEF rows
    <2> HIDE DEF ix
    <2>4. CASE given
      <3>1. ix.done = [i \in 1 .. 1 |-> c.done]
        BY <1>0, <2>2, <2>3, <2>4
      <3> QED BY <2>4, <3>1, OneValue
    <2>5. CASE ~given
      <3>1. ix.done = <<>>
        BY <2>2, <2>3, <2>5
      <3> QED BY <2>5, <3>1
    <2> QED BY <2>4, <2>5
  <1>5. ix.rrule = (IF here /\ IsRecurring(c) THEN <<[step |-> c.step, count |-> c.count]>> ELSE <<>>)
    <2> DEFINE rows == {r \in DOMAIN obj : obj[r].kind = kind /\ IsRecurring(obj[r])}
    <2>1. rows = IF here /\ IsRecurring(c) THEN {1} ELSE {}
      BY <1>0
    <2>2. ix.rrule = [i \in 1 .. Cardinality(rows) |->
                        [step |-> obj[Nth(rows, i)].step, count |-> obj[Nth(rows, i)].count]]
      BY DEF Indexes, Values
    <2> DEFINE given == here /\ IsRecurring(c)
    <2>3. Cardinality(rows) = (IF given THEN 1 ELSE 0) /\ (given => Nth(rows, 1) = 1)
      BY <2>1, OneRow
    <2> HIDE DEF rows
    <2> HIDE DEF ix
    <2>4. CASE given
      <3>1. ix.rrule = [i \in 1 .. 1 |-> [step |-> c.step, count |-> c.count]]
        BY <1>0, <2>2, <2>3, <2>4
      <3> QED BY <2>4, <3>1, OneValue
    <2>5. CASE ~given
      <3>1. ix.rrule = <<>>
        BY <2>2, <2>3, <2>5
      <3> QED BY <2>5, <3>1
    <2> QED BY <2>4, <2>5
  <1>6. ix.text = (IF here /\ c.text # "" THEN <<c.text>> ELSE <<>>)
    <2> DEFINE rows == {r \in DOMAIN obj : obj[r].kind = kind /\ obj[r].text # ""}
    <2>1. rows = IF here /\ c.text # "" THEN {1} ELSE {}
      BY <1>0
    <2>2. ix.text = [i \in 1 .. Cardinality(rows) |-> obj[Nth(rows, i)].text]
      BY DEF Indexes, Values
    <2> DEFINE given == here /\ c.text # ""
    <2>3. Cardinality(rows) = (IF given THEN 1 ELSE 0) /\ (given => Nth(rows, 1) = 1)
      BY <2>1, OneRow
    <2> HIDE DEF rows
    <2>4. ix.text = (IF given THEN <<c.text>> ELSE <<>>)
      <3> HIDE DEF ix, given, here
      <3>1. CASE given
        <4>1. ix.text = [i \in 1 .. 1 |-> c.text]
          BY <1>0, <2>2, <2>3, <3>1
        <4> QED BY <3>1, <4>1, OneValue
      <3>2. CASE ~given
        <4>1. ix.text = <<>>
          BY <2>2, <2>3, <3>2
        <4> QED BY <3>2, <4>1
      <3> QED BY <3>1, <3>2
    <2> QED BY <2>4
  <1>7. ix.created = (IF here /\ c.created # None THEN <<c.created>> ELSE <<>>)
    <2> DEFINE rows == {r \in DOMAIN obj : obj[r].kind = kind /\ obj[r].created # None}
    <2>1. rows = IF here /\ c.created # None THEN {1} ELSE {}
      BY <1>0
    <2>2. ix.created = [i \in 1 .. Cardinality(rows) |-> obj[Nth(rows, i)].created]
      BY DEF Indexes, Values
    <2> DEFINE given == here /\ c.created # None
    <2>3. Cardinality(rows) = (IF given THEN 1 ELSE 0) /\ (given => Nth(rows, 1) = 1)
      BY <2>1, OneRow
    <2> HIDE DEF rows
    <2> HIDE DEF ix
    <2>4. CASE given
      <3>1. ix.created = [i \in 1 .. 1 |-> c.created]
        BY <1>0, <2>2, <2>3, <2>4
      <3> QED BY <2>4, <3>1, OneValue
    <2>5. CASE ~given
      <3>1. ix.created = <<>>
        BY <2>2, <2>3, <2>5
      <3> QED BY <2>5, <3>1
    <2> QED BY <2>4, <2>5
  <1>8. ix = [start |-> ix.start, end |-> ix.end, dur |-> ix.dur, done |-> ix.done,
              created |-> ix.created, rrule |-> ix.rrule, text |-> ix.text]
    BY DEF Indexes
  <1> HIDE DEF ix
  <1>9. ix = IndexOf(c, kind)
    BY <1>1, <1>2, <1>3, <1>4, <1>5, <1>6, <1>7, <1>8 DEF IndexOf
  <1> QED BY <1>9 DEF ix

LEMMA IndexOfOtherKind ==
  ASSUME NEW c, NEW kind, c.kind # kind
  PROVE  LET ix == IndexOf(c, kind)
         IN  /\ ix.start = <<>> /\ ix.end = <<>> /\ ix.dur = <<>> /\ ix.done = <<>>
             /\ ix.created = <<>> /\ ix.rrule = <<>> /\ ix.text = <<>>
  BY DEF IndexOf

\* What can be known of c from the index.
KnownOf(c) ==
  [kind |-> c.kind, start |-> c.start, end |-> c.end, dur |-> c.dur, done |-> c.done,
   created |-> c.created,
   zone |-> IF c.start # None \/ c.end # None THEN IndexZone(c) ELSE "utc",
   step |-> c.step, count |-> IF IsRecurring(c) THEN c.count ELSE 0,
   exdates |-> {}, rdates |-> {}, recid |-> None]

LEMMA JoinedOfOne ==
  ASSUME NEW c
  PROVE  Joined(IndexOf(c, c.kind), c.kind, 1) = KnownOf(c)
  <1> DEFINE ix == IndexOf(c, c.kind)
             has(field) == 1 <= Len(ix[field])
  <1>1. has("start") = (c.start # None)
        /\ (c.start # None => ix["start"][1] = [at |-> c.start, zone |-> IndexZone(c)])
    BY DEF IndexOf
  <1>2. has("end") = (c.end # None)
        /\ (c.end # None => ix["end"][1] = [at |-> c.end, zone |-> IndexZone(c)])
    BY DEF IndexOf
  <1>3. has("dur") = (c.dur # None) /\ (c.dur # None => ix["dur"][1] = c.dur)
    BY DEF IndexOf
  <1>4. has("done") = (c.done # None) /\ (c.done # None => ix["done"][1] = c.done)
    BY DEF IndexOf
  <1>4a. has("created") = (c.created # None)
         /\ (c.created # None => ix["created"][1] = c.created)
    BY DEF IndexOf
  <1>5. has("rrule") = IsRecurring(c)
        /\ (IsRecurring(c) => ix["rrule"][1] = [step |-> c.step, count |-> c.count])
    BY DEF IndexOf, IsRecurring
  <1> HIDE DEF ix
  <1>6. (IF has("start") THEN ix["start"][1].at ELSE None) = c.start
    BY <1>1
  <1>7. (IF has("end") THEN ix["end"][1].at ELSE None) = c.end
    BY <1>2
  <1>8. (IF has("dur") THEN ix["dur"][1] ELSE None) = c.dur
    BY <1>3
  <1>9. (IF has("done") THEN ix["done"][1] ELSE None) = c.done
    BY <1>4
  <1>9a. (IF has("created") THEN ix["created"][1] ELSE None) = c.created
    BY <1>4a
  <1>10. (IF has("start") THEN ix["start"][1].zone
          ELSE IF has("end") THEN ix["end"][1].zone ELSE "utc")
           = IF c.start # None \/ c.end # None THEN IndexZone(c) ELSE "utc"
    BY <1>1, <1>2
  <1>11. /\ (IF has("rrule") THEN ix["rrule"][1].step ELSE 0) = c.step
         /\ (IF has("rrule") THEN ix["rrule"][1].count ELSE 0)
              = IF IsRecurring(c) THEN c.count ELSE 0
    BY <1>5 DEF IsRecurring
  <1>12. Joined(ix, c.kind, 1)
           = [kind |-> c.kind,
              start |-> IF has("start") THEN ix["start"][1].at ELSE None,
              end |-> IF has("end") THEN ix["end"][1].at ELSE None,
              dur |-> IF has("dur") THEN ix["dur"][1] ELSE None,
              done |-> IF has("done") THEN ix["done"][1] ELSE None,
              created |-> IF has("created") THEN ix["created"][1] ELSE None,
              zone |-> IF has("start") THEN ix["start"][1].zone
                       ELSE IF has("end") THEN ix["end"][1].zone ELSE "utc",
              step |-> IF has("rrule") THEN ix["rrule"][1].step ELSE 0,
              count |-> IF has("rrule") THEN ix["rrule"][1].count ELSE 0,
              exdates |-> {}, rdates |-> {}, recid |-> None]
    BY DEF Joined
  <1> HIDE DEF has
  <1>13. Joined(ix, c.kind, 1) = KnownOf(c)
    BY <1>6, <1>7, <1>8, <1>9, <1>10, <1>11, <1>12, <1>9a DEF KnownOf
  <1> QED BY <1>13 DEF ix

LEMMA PropertyFromIndex ==
  ASSUME NEW c, NEW f, f.kind = c.kind, f.prop \in {"any", "undefined", "text"}
  PROVE  PropertyMatchesIndexes(IndexOf(c, f.kind), f) <=> PropertyMatches(c, f)
  <1> DEFINE ix == IndexOf(c, f.kind)
  <1>1. ix.text = IF c.text # "" THEN <<c.text>> ELSE <<>>
    BY DEF IndexOf
  <1> HIDE DEF ix
  <1>2. (ix.text = <<>> <=> c.text = "")
        /\ ((\E i \in DOMAIN ix.text : TextMatches(ix.text[i], f))
             <=> c.text # "" /\ TextMatches(c.text, f))
    <2>1. CASE c.text = ""
      <3>1. ix.text = <<>>
        BY <1>1, <2>1
      <3>2. DOMAIN ix.text = {}
        BY <3>1
      <3> QED BY <2>1, <3>1, <3>2
    <2>2. CASE c.text # ""
      <3>1. ix.text = <<c.text>>
        BY <1>1, <2>2
      <3>2. ix.text # <<>> /\ DOMAIN ix.text = {1} /\ ix.text[1] = c.text
        BY <3>1
      <3> QED BY <2>2, <3>2
    <2> QED BY <2>1, <2>2
  <1>3. PropertyMatchesIndexes(ix, f) <=> PropertyMatches(c, f)
    BY <1>2 DEF PropertyMatchesIndexes, PropertyMatches
  <1> QED BY <1>3 DEF ix

LEMMA OverlapsByKind ==
  ASSUME NEW c, NEW w, NEW tz
  PROVE  /\ c.kind = "VEVENT" => (Overlaps(c, w, tz) <=> OverlapsVevent(c, w, tz))
         /\ c.kind = "VTODO" => (Overlaps(c, w, tz) <=> OverlapsVtodo(c, w, tz))
  BY DEF Overlaps

\* A time whose zone the index has lost is read on the right clock when that is
\* the calendar's.
LEMMA KnownOverlaps ==
  ASSUME NEW c \in Components, c.kind = "VEVENT" => c.start # None,
         NEW tz, c.zone = "tzid" => Offset = tz, NEW w
  PROVE  Overlaps(KnownOf(c), w, tz) <=> Overlaps(c, w, tz)
  <1> DEFINE k == KnownOf(c)
  <1>1. /\ k.kind = c.kind /\ k.start = c.start /\ k.end = c.end /\ k.dur = c.dur
        /\ k.done = c.done /\ k.created = c.created
        /\ k.zone = IF c.start # None \/ c.end # None THEN IndexZone(c) ELSE "utc"
    BY DEF KnownOf
  <1> HIDE DEF k
  <1>0. c.kind \in {"VEVENT", "VTODO"}
    BY DEF Components
  <1>2. ASSUME c.start # None \/ c.end # None
        PROVE  \A t : Tzify(k, t, tz) = Tzify(c, t, tz)
    BY <1>1, <1>2 DEF Tzify, IndexZone
  <1>3. ASSUME c.start # None \/ c.end # None
        PROVE  Overlaps(k, w, tz) <=> Overlaps(c, w, tz)
    <2>1. OverlapsVevent(k, w, tz) <=> OverlapsVevent(c, w, tz)
      <3>1. c.zone # "tzid" => k.zone = c.zone
        BY <1>1, <1>3 DEF IndexZone
      <3>2. c.zone = "tzid" => k.zone = "float"
        BY <1>1, <1>3 DEF IndexZone
      <3> QED BY <1>1, <1>2, <1>3, <3>1, <3>2 DEF OverlapsVevent
    <2>2. OverlapsStartedVtodo(k, w, tz) <=> OverlapsStartedVtodo(c, w, tz)
      BY <1>1, <1>2, <1>3 DEF OverlapsStartedVtodo
    <2>3. OverlapsVtodo(k, w, tz) <=> OverlapsVtodo(c, w, tz)
      BY <1>1, <1>2, <1>3, <2>2 DEF OverlapsVtodo
    <2> QED BY <1>0, <1>1, <2>1, <2>3, OverlapsByKind
  <1>4. ASSUME c.start = None, c.end = None
        PROVE  Overlaps(k, w, tz) <=> Overlaps(c, w, tz)
    <2>1. c.kind = "VTODO"
      BY <1>0, <1>4
    <2>2. OverlapsVtodo(k, w, tz) <=> OverlapsVtodo(c, w, tz)
      BY <1>1, <1>4 DEF OverlapsVtodo
    <2> QED BY <1>1, <2>1, <2>2, OverlapsByKind
  <1> QED BY <1>3, <1>4 DEF k

\* _match_indexes on the values of one component.
LEMMA PlainFromIndex ==
  ASSUME NEW c \in Components, c.kind = "VEVENT" => c.start # None,
         NEW f, f.kind = c.kind, NEW tz, c.zone = "tzid" => Offset = tz
  PROVE  MatchIndexesPlain(IndexOf(c, f.kind), f, tz)
           \in {"insufficient", IF Overlaps(c, f.w, tz) THEN "yes" ELSE "no"}
  <1> DEFINE ix == IndexOf(c, f.kind)
             fields == {"start", "end", "dur", "done", "created"}
             rows == UNION {DOMAIN ix[field] : field \in fields}
  <1>1. \A field \in fields : DOMAIN ix[field] \subseteq {1}
    <2>1. DOMAIN ix["start"] \subseteq {1}
      BY DEF IndexOf
    <2>2. DOMAIN ix["end"] \subseteq {1}
      BY DEF IndexOf
    <2>3. DOMAIN ix["dur"] \subseteq {1}
      BY DEF IndexOf
    <2>4. DOMAIN ix["done"] \subseteq {1}
      BY DEF IndexOf
    <2>5. DOMAIN ix["created"] \subseteq {1}
      BY DEF IndexOf
    <2> HIDE DEF ix
    <2> QED BY <2>1, <2>2, <2>3, <2>4, <2>5
  <1>2. rows = {} \/ rows = {1}
    <2> HIDE DEF ix, fields
    <2> QED BY <1>1
  <1>3. Joined(ix, f.kind, 1) = KnownOf(c)
    BY JoinedOfOne
  <1>4. Overlaps(KnownOf(c), f.w, tz) <=> Overlaps(c, f.w, tz)
    BY KnownOverlaps
  <1>5. MatchIndexesPlain(ix, f, tz)
          = IF rows = {} THEN "insufficient"
            ELSE IF \E i \in rows : Overlaps(Joined(ix, f.kind, i), f.w, tz)
                 THEN "yes" ELSE "no"
    BY DEF MatchIndexesPlain
  <1> HIDE DEF ix, rows
  <1>6. MatchIndexesPlain(ix, f, tz)
          \in {"insufficient", IF Overlaps(c, f.w, tz) THEN "yes" ELSE "no"}
    BY <1>2, <1>3, <1>4, <1>5
  <1> QED BY <1>6 DEF ix

\* _match_indexes_with_rrule on the values of one component.
LEMMA RruleFromIndex ==
  ASSUME NEW m, IsMaster(m), IsRecurring(m), m.exdates = {}, m.rdates = {},
         m.zone \in {"utc", "date"}, m.zone = "date" \/ m.end = m.start => m.end = None,
         NEW tz, m.zone = "date" => tz = 0,
         NEW f, f.kind = m.kind, f.w \in Spans
  PROVE  RruleMatches(IndexOf(m, f.kind), f, tz)
           <=> \E ts \in RruleSet(m) : Overlaps(Occurrence(m, ts), f.w, tz)
  <1> DEFINE first == Joined(IndexOf(m, f.kind), f.kind, 1)
             c == [first EXCEPT !.end =
                     IF first.zone = "date" \/ first.dur # None \/ @ = first.start
                     THEN None ELSE @]
             w == [f.w EXCEPT !.to = IF c.zone = "date" THEN Floor(@) + Day ELSE @]
  <1>1. m \in Components /\ MayRecur(m) /\ m.start # None
    BY MasterMayRecur DEF IsMaster, IsWritten
  <1>2. first = KnownOf(m)
    BY JoinedOfOne
  <1>3. c = KnownOf(m)
    <2>1. m.zone = "date" \/ m.dur # None \/ m.end = m.start => m.end = None
      BY <1>1 DEF MayRecur
    <2>2. /\ KnownOf(m).zone = m.zone /\ KnownOf(m).dur = m.dur
          /\ KnownOf(m).end = m.end /\ KnownOf(m).start = m.start
      BY <1>1 DEF KnownOf, IndexZone
    <2>3. c = [KnownOf(m) EXCEPT !.end = m.end]
      BY <1>2, <2>1, <2>2
    <2> QED BY <2>3 DEF KnownOf
  <1> DEFINE k == KnownOf(m)
  <1>4. /\ k.kind = m.kind /\ k.zone = m.zone /\ k.start = m.start /\ k.end = m.end
        /\ k.dur = m.dur /\ k.step = m.step /\ k.count = m.count
        /\ k.exdates = {} /\ k.rdates = {}
    BY <1>1 DEF KnownOf, IndexZone
  <1>5. RruleMatches(IndexOf(m, f.kind), f, tz)
          <=> \E ts \in Between(k, w, EventDuration(k)) : Overlaps(Occurrence(k, ts), f.w, tz)
    BY <1>3 DEF RruleMatches
  <1>6. RruleSet(k) = RruleSet(m) /\ EventDuration(k) = EventDuration(m)
        /\ \A t : Tzify(k, t, 0) = Tzify(m, t, 0)
    BY <1>4 DEF RruleSet, EventDuration, Tzify
  <1>7. ASSUME NEW ts \in RruleSet(m)
        PROVE  Overlaps(Occurrence(k, ts), f.w, tz) <=> Overlaps(Occurrence(m, ts), f.w, tz)
    <2>1. ts \in Nat
      BY RruleSetOfMaster
    <2>2. IsOccurrence(Occurrence(m, ts), m, ts)
      BY <1>1, <2>1, OccurrenceFields
    <2>3. IsOccurrence(Occurrence(k, ts), k, ts)
      BY DEF IsOccurrence, Occurrence, KnownOf
    <2> DEFINE o == Occurrence(m, ts)
               p == Occurrence(k, ts)
    <2> HIDE DEF o, p, k
    <2>4. Alike(p, o) /\ o.start # None
      BY <1>4, <2>1, <2>2, <2>3 DEF o, p, Alike, IsOccurrence, None
    <2> QED BY <2>4, AlikeOverlap DEF o, p
  <1>8. ASSUME NEW ts \in RruleSet(m), Overlaps(Occurrence(m, ts), f.w, tz)
        PROVE  ts \in Between(k, w, EventDuration(k))
    <2>1. ts \in Nat /\ IsOnDay(m, ts)
      BY RruleSetOfMaster
    <2>2. IsOccurrence(Occurrence(m, ts), m, ts)
      BY <1>1, <2>1, OccurrenceFields
    <2>3. Overlaps(Occurrence(m, ts), f.w, 0)
      <3>1. m.kind \in {"VEVENT", "VTODO"} /\ Occurrence(m, ts).kind = m.kind
            /\ Occurrence(m, ts).zone = m.zone
        BY <1>1, <2>2 DEF MayRecur, IsOccurrence
      <3> QED BY <1>8, <3>1, OneClock
    <2> DEFINE lo == f.w.from - EventDuration(m)
               s == Tzify(m, ts, 0)
    <2>4. /\ s <= IF m.zone = "date" THEN Floor(f.w.to) ELSE f.w.to
          /\ (IF m.zone = "date" THEN Floor(lo) ELSE lo) <= s
      BY <1>1, <2>1, <2>2, <2>3, OverlapIsBetween
    <2>5. w.from = f.w.from /\ w.to = IF m.zone = "date" THEN Floor(f.w.to) + Day ELSE f.w.to
      BY <1>3, <1>4 DEF Spans
    <2>6. f.w.to \in Nat /\ s \in Int /\ Floor(f.w.to) \in Nat /\ Floor(f.w.to) + Day \in Nat
      <3>1. f.w.to \in Nat
        BY DEF Spans
      <3>2. s \in Int
        BY <1>1, <2>1, ZoneShift DEF MayRecur
      <3> QED BY <3>1, <3>2, FloorBounds, ClockAssumption
    <2>7. m.zone = "date" => s = Floor(s)
      BY <1>1, <2>1, ZoneShift DEF IsOnDay, MayRecur
    <2>8. m.zone = "date" => s <= Floor(Floor(f.w.to) + Day)
      <3> DEFINE day == Floor(f.w.to)
      <3> HIDE DEF day, s
      <3>1. m.zone = "date" => s <= day + Day
        BY <2>4, <2>6, ClockAssumption DEF day
      <3> QED BY <2>6, <2>7, <3>1, FloorIsLast, ClockAssumption DEF day
    <2> HIDE DEF w, c, k, s
    <2>9. /\ (IF k.zone = "date" THEN Floor(w.from - EventDuration(k)) ELSE w.from - EventDuration(k)) <= s
          /\ s <= IF k.zone = "date" THEN Floor(w.to) ELSE w.to
      BY <1>4, <1>6, <2>4, <2>5, <2>8
    <2> QED BY <1>6, <2>9 DEF Between, s
  <1> QED BY <1>5, <1>6, <1>7, <1>8 DEF Between

\* A calendar-query on the object of one component.
LEMMA IndexesAlwaysAgree ==
  ASSUME CalendarInv
  PROVE  IndexesAgree
  <1> SUFFICES ASSUME IsWholeInIndex(object), ~IsMisread(components, timezone), NEW f \in Queries
               PROVE  CheckFromIndexes(object, f, timezone)
                        \in {"insufficient", IF Check(components, f, timezone) THEN "yes" ELSE "no"}
    BY DEF IndexesAgree
  <1> DEFINE c == object[1]
             tz == timezone
             ix == Indexes(object, f.kind)
             time == TimeRangeMatchesIndexes(ix, f, tz)
             result == IF Check(components, f, tz) THEN "yes" ELSE "no"
  <1>1. DOMAIN object = {1} /\ object # <<>> /\ IsOnly(object, c) /\ components = {c}
    <2>1. object \in Seq(Components) /\ Len(object) = 1
      BY DEF CalendarInv, CalendarTypeOK, IsWholeInIndex
    <2>2. DOMAIN object = {1}
      BY <2>1
    <2> QED BY <2>1, <2>2 DEF IsOnly, components, ToSet
  <1>2. /\ Describes(components, c) /\ IsMaster(c) /\ c \in Components
        /\ c.kind = "VEVENT" => c.start # None
        /\ IsRecurring(c) => c.start # None
        /\ Overrides(components) = {}
    BY <1>1, ObjectIsDescribed, DescribedParts DEF Describes, IsMaster, IsWritten
  <1>3. ix = IndexOf(c, f.kind)
    BY <1>1, IndexOfOne
  <1>4. Check(components, f, tz) <=> \E o \in Instances(components) : ComponentMatches(o, f, tz)
    BY CheckFindsInstances
  <1>5. CheckFromIndexes(object, f, tz)
          = IF f.prop # "text" /\ c.kind # f.kind THEN "no"
            ELSE IF time = "yes" /\ ~PropertyMatchesIndexes(ix, f) THEN "no" ELSE time
    BY <1>1 DEF CheckFromIndexes
  <1>6. f.w # NoWindow /\ f.w \in Spans /\ f.prop \in {"any", "undefined", "text"}
    BY QueryShape
  <1>7. /\ IsRecurring(c) => Instances(components) = {Occurrence(c, ts) : ts \in RruleSet(c)}
        /\ ~IsRecurring(c) => Instances(components) = {c}
    <2>1. IsRecurring(c) =>
            Instances(components) = {} \cup {Occurrence(c, ts) : ts \in {t \in RruleSet(c) : TRUE}}
      BY <1>2, InstancesOfRecurring
    <2> QED BY <1>1, <1>2, <2>1, InstancesOfSingle
  <1>8. ASSUME NEW o \in Instances(components)
        PROVE  o.kind = c.kind /\ o.text = c.text
    <2>1. ASSUME NEW ts \in RruleSet(c), IsRecurring(c)
          PROVE  Occurrence(c, ts).kind = c.kind /\ Occurrence(c, ts).text = c.text
      BY <1>2, <2>1, RruleSetOfMaster, MasterMayRecur, OccurrenceFields DEF IsOccurrence
    <2> QED BY <1>7, <2>1
  <1>9. Check(components, f, tz)
          <=> /\ c.kind = f.kind /\ PropertyMatches(c, f)
              /\ \E o \in Instances(components) : Overlaps(o, f.w, tz)
    <2>1. \A o : o.text = c.text => (PropertyMatches(o, f) <=> PropertyMatches(c, f))
      BY <1>6 DEF PropertyMatches
    <2>2. \A o \in Instances(components) :
             ComponentMatches(o, f, tz)
               <=> c.kind = f.kind /\ PropertyMatches(c, f) /\ Overlaps(o, f.w, tz)
      BY <1>6, <1>8, <2>1 DEF ComponentMatches
    <2> QED BY <1>4, <2>2
  <1>10. ASSUME c.kind # f.kind
         PROVE  CheckFromIndexes(object, f, tz) \in {"insufficient", result}
    <2>1. result = "no"
      BY <1>9, <1>10
    <2>2. /\ ix.start = <<>> /\ ix.end = <<>> /\ ix.dur = <<>> /\ ix.done = <<>>
          /\ ix.created = <<>> /\ ix.rrule = <<>>
      BY <1>3, <1>10, IndexOfOtherKind
    <2> DEFINE rows == UNION {DOMAIN ix[field] : field \in {"start", "end", "dur", "done", "created"}}
    <2>3. rows = {}
      <3> HIDE DEF ix
      <3>1. \A field \in {"start", "end", "dur", "done", "created"} : DOMAIN ix[field] = {}
        BY <2>2
      <3> QED BY <3>1
    <2>4. MatchIndexesPlain(ix, f, tz) = "insufficient"
      <3> HIDE DEF ix
      <3> QED BY <2>3 DEF MatchIndexesPlain
    <2>5. time = "insufficient"
      <3> HIDE DEF ix
      <3> QED BY <1>6, <2>2, <2>4 DEF TimeRangeMatchesIndexes
    <2> HIDE DEF time, result
    <2> QED BY <1>5, <2>1, <2>5
  <1> DEFINE meets == \E o \in Instances(components) : Overlaps(o, f.w, tz)
  <1>11. ASSUME c.kind = f.kind, time \in {"insufficient", IF meets THEN "yes" ELSE "no"}
         PROVE  CheckFromIndexes(object, f, tz) \in {"insufficient", result}
    <2>1. PropertyMatchesIndexes(ix, f) <=> PropertyMatches(c, f)
      BY <1>3, <1>6, <1>11, PropertyFromIndex
    <2>2. result = IF PropertyMatches(c, f) /\ meets THEN "yes" ELSE "no"
      BY <1>9, <1>11
    <2> HIDE DEF time, result, meets, ix
    <2> QED BY <1>5, <1>11, <2>1, <2>2
  <1>12. ASSUME c.kind = f.kind, ~IsRecurring(c)
         PROVE  time \in {"insufficient", IF meets THEN "yes" ELSE "no"}
    <2>1. meets <=> Overlaps(c, f.w, tz)
      BY <1>7, <1>12
    <2>2. ix.rrule = <<>>
      <3>1. IndexOf(c, f.kind).rrule = <<>>
        BY <1>12 DEF IndexOf
      <3> HIDE DEF ix
      <3> QED BY <1>3, <3>1
    <2>3. c.zone = "tzid" => Offset = tz
      BY <1>12 DEF IsWholeInIndex
    <2>4. MatchIndexesPlain(ix, f, tz) \in {"insufficient", IF Overlaps(c, f.w, tz) THEN "yes" ELSE "no"}
      BY <1>2, <1>3, <1>12, <2>3, PlainFromIndex
    <2> HIDE DEF meets, ix
    <2>5. time = MatchIndexesPlain(ix, f, tz)
      BY <1>6, <2>2 DEF TimeRangeMatchesIndexes
    <2> HIDE DEF time
    <2> QED BY <2>1, <2>4, <2>5
  <1>13. ASSUME c.kind = f.kind, IsRecurring(c)
         PROVE  time \in {"insufficient", IF meets THEN "yes" ELSE "no"}
    <2>1. ix.start = <<[at |-> c.start, zone |-> IndexZone(c)]>> /\ ix.rrule # <<>>
      <3>1. IndexOf(c, f.kind).start = <<[at |-> c.start, zone |-> IndexZone(c)]>>
        BY <1>2, <1>13 DEF IndexOf
      <3>2. IndexOf(c, f.kind).rrule = <<[step |-> c.step, count |-> c.count]>>
        BY <1>13 DEF IndexOf
      <3> HIDE DEF ix
      <3> QED BY <1>3, <3>1, <3>2
    <2>2. c.zone \in Zones
      BY <1>2 DEF Components
    <2>3. time = MatchIndexesWithRrule(ix, f, tz)
      <3> HIDE DEF ix
      <3> QED BY <1>6, <2>1 DEF TimeRangeMatchesIndexes
    <2>4. MatchIndexesWithRrule(ix, f, tz)
            = IF IndexZone(c) = "float" THEN "insufficient"
              ELSE IF RruleMatches(ix, f, tz) THEN "yes" ELSE "no"
      <3> HIDE DEF ix
      <3> QED BY <2>1 DEF MatchIndexesWithRrule
    <2>5. ASSUME IndexZone(c) # "float"
          PROVE  RruleMatches(ix, f, tz) <=> meets
      <3>1. c.zone \in {"utc", "date"}
        BY <2>2, <2>5 DEF IndexZone, Zones
      <3>2. /\ c.exdates = {} /\ c.rdates = {}
            /\ c.zone = "date" \/ c.end = c.start => c.end = None
        BY <1>13 DEF IsWholeInIndex
      <3>3. c.zone = "date" => tz = 0
        BY <1>1, <1>13 DEF IsMisread
      <3> HIDE DEF ix
      <3> QED BY <1>2, <1>3, <1>6, <1>7, <1>13, <3>1, <3>2, <3>3, RruleFromIndex
    <2> HIDE DEF time, ix, meets
    <2> QED BY <2>3, <2>4, <2>5
  <1> HIDE DEF time, ix, meets, result
  <1>14. CheckFromIndexes(object, f, tz) \in {"insufficient", result}
    BY <1>10, <1>11, <1>12, <1>13
  <1> QED BY <1>14 DEF result

-----------------------------------------------------------------------------
(* Busy time.                                                              *)

\* The half of FreeBusyIsTrue that is about events: at every tick of a window the
\* events of the answer (caldav.py iter_freebusy) are those that last at that tick.
EventsShowAsBusy ==
  \A w \in Windows, tz \in {0, timezone}, knowsUser \in BOOLEAN :
    ~IsMisread(components, tz) =>
      \A t \in w.from .. w.to - 1 :
        {p.type : p \in {q \in EventPeriods(components, w, tz, knowsUser) : Within(t, q)}}
          = EventTypesAt(Instances(components), t, tz, knowsUser)

\* An event of the object, as far as its time is concerned.
IsEvent(c) ==
  /\ c.kind = "VEVENT" /\ c.zone \in Zones
  /\ c.start \in Nat /\ c.end \in MaybeTimes /\ c.dur \in MaybeTimes

LEMMA EventTakesTime ==
  ASSUME NEW c, IsEvent(c), NEW tz \in Nat
  PROVE  LET p == ExtractFreebusy(c, tz)
         IN  p.from \in Nat /\ p.to \in Nat /\ p.type = c.busy
  <1> DEFINE s == Tzify(c, c.start, tz)
             to == IF c.end # None THEN Tzify(c, c.end, tz)
                   ELSE IF c.dur # None THEN s + c.dur ELSE s
  <1>1. s \in Nat
    <2>1. s \in Int /\ s >= c.start /\ c.start \in Nat
      BY ZoneShift DEF IsEvent
    <2> QED BY <2>1
  <1>2. c.end # None => Tzify(c, c.end, tz) \in Nat
    <2>1. c.end # None => c.end \in Nat
      BY DEF IsEvent, MaybeTimes
    <2>2. c.end # None => Tzify(c, c.end, tz) \in Int /\ Tzify(c, c.end, tz) >= c.end
      BY <2>1, ZoneShift DEF IsEvent
    <2> QED BY <2>1, <2>2
  <1>3. c.dur # None => c.dur \in Nat
    BY DEF IsEvent, MaybeTimes
  <1>4. to \in Nat
    <2> HIDE DEF s
    <2> QED BY <1>1, <1>2, <1>3
  <1> QED BY <1>1, <1>4 DEF ExtractFreebusy

\* What is busy at a tick of a window overlaps it.
LEMMA BusyOverlaps ==
  ASSUME NEW c, IsEvent(c), NEW tz \in Nat, NEW w \in Spans, NEW t \in w.from .. w.to - 1,
         Within(t, ExtractFreebusy(c, tz))
  PROVE  Overlaps(c, w, tz)
  <1> DEFINE p == ExtractFreebusy(c, tz)
             s == Tzify(c, c.start, tz)
  <1>1. p.from \in Nat /\ p.to \in Nat
    BY EventTakesTime
  <1>2. w.from \in Nat /\ w.to \in Nat /\ t \in Int /\ w.from <= t /\ t < w.to
    BY DEF Spans
  <1>3. p.from <= t /\ t < p.to
    BY <1>1 DEF Within, None
  <1>4. p.from = s /\ p.to = IF c.end # None THEN Tzify(c, c.end, tz)
                             ELSE IF c.dur # None THEN s + c.dur ELSE s
    BY DEF ExtractFreebusy
  <1> HIDE DEF p, s
  <1>5. w.from < p.to /\ s < w.to /\ p.to # s
    BY <1>1, <1>2, <1>3, <1>4
  <1>6. OverlapsVevent(c, w, tz)
    BY <1>1, <1>4, <1>5 DEF OverlapsVevent, s
  <1> QED BY <1>6 DEF Overlaps, IsEvent

\* Cutting a period to the window takes away no tick of the window.
LEMMA ClipKeeps ==
  ASSUME NEW p, p.from \in Nat, p.to \in Nat, NEW w \in Spans, NEW t \in w.from .. w.to - 1,
         NEW q, q = ClipToWindow(p, w), NEW type, p = [from |-> p.from, type |-> type, to |-> p.to]
  PROVE  (Within(t, q) <=> Within(t, p)) /\ q.type = type
  <1>1. w.from \in Nat /\ w.to \in Nat /\ t \in Int /\ w.from <= t /\ t < w.to
    BY DEF Spans
  <1>2. /\ q.from = IF p.from < w.from THEN w.from ELSE p.from
        /\ q.to = IF p.to > w.to THEN w.to ELSE p.to
        /\ q.type = type
    BY DEF ClipToWindow, None
  <1> QED BY <1>1, <1>2 DEF Within, None

LEMMA EventsAreBusy ==
  ASSUME CalendarInv
  PROVE  EventsShowAsBusy
  <1> SUFFICES ASSUME NEW w \in Windows, NEW tz \in {0, timezone}, NEW knowsUser \in BOOLEAN,
                      ~IsMisread(components, tz), NEW t \in w.from .. w.to - 1
               PROVE  {p.type : p \in {q \in EventPeriods(components, w, tz, knowsUser) : Within(t, q)}}
                        = EventTypesAt(Instances(components), t, tz, knowsUser)
    BY DEF EventsShowAsBusy
  <1> DEFINE m == object[1]
             instances == Instances(components)
             events == {c \in ExpandCalendar(components, w) :
                          /\ c.kind = "VEVENT" /\ Overlaps(c, w, tz)
                          /\ ShowsAsBusy(c, knowsUser)}
             P(c) == ExtractFreebusy(c, tz)
  <1>1. w \in Spans /\ tz \in Nat
    BY QueriesAssumption, ClockAssumption DEF Spans, CalendarInv, CalendarTypeOK
  <1>2. ASSUME NEW c \in instances, c.kind = "VEVENT"
        PROVE  /\ IsEvent(c)
               /\ Overlaps(c, w, tz) => c \in ExpandCalendar(components, w)
    <2>1. object # <<>>
      BY EmptyObject
    <2>2. Describes(components, m) /\ IsMaster(m)
      BY <2>1, ObjectIsDescribed DEF Describes
    <2>3. CASE IsRecurring(m)
      <3>1. MayRecur(c) /\ c.zone = m.zone
        BY <2>2, <2>3, InstanceIsAlike
      <3>2. tz = 0 \/ c.zone \in {"utc", "tzid"}
        <4>1. m \in components /\ m.zone \in Zones
          BY <2>2 DEF Describes, IsMaster, IsWritten, Components
        <4> QED BY <2>3, <3>1, <4>1 DEF IsMisread, Zones
      <3>3. Overlaps(c, w, tz) <=> Overlaps(c, w, 0)
        BY <3>1, <3>2, OneClock DEF MayRecur
      <3> QED BY <1>1, <1>2, <2>2, <2>3, <3>1, <3>3, ExpansionIsExact DEF IsEvent, MayRecur
    <2>4. CASE ~IsRecurring(m)
      <3>1. instances = components /\ ExpandCalendar(components, w) = components /\ c = m
        BY <2>2, <2>4, InstancesOfSingle, ExpansionOfSingle, DescribedParts
      <3>2. IsEvent(c)
        BY <1>2, <2>2, <3>1 DEF IsMaster, IsWritten, Components, IsEvent, MaybeTimes
      <3> QED BY <3>1, <3>2
    <2> QED BY <2>3, <2>4
  <1>3. ExpandCalendar(components, w) \subseteq instances
    <2>1. CASE object = <<>>
      BY <2>1, EmptyObject
    <2>2. CASE object # <<>>
      BY <1>1, <2>2, ObjectIsDescribed, ExpansionIsExact, InstancesOfSingle, ExpansionOfSingle
    <2> QED BY <2>1, <2>2
  <1>4. EventPeriods(components, w, tz, knowsUser)
          = {ClipToWindow(p, w) : p \in {q \in {P(c) : c \in events} : q.to > w.from /\ q.from < w.to}}
    BY DEF EventPeriods
  <1>5. ASSUME NEW c \in instances, c.kind = "VEVENT"
        PROVE  /\ P(c).from \in Nat /\ P(c).to \in Nat
               /\ Within(t, ClipToWindow(P(c), w)) <=> Within(t, P(c))
               /\ ClipToWindow(P(c), w).type = c.busy
    <2>1. P(c).from \in Nat /\ P(c).to \in Nat /\ P(c).type = c.busy
      BY <1>1, <1>2, <1>5, EventTakesTime
    <2>2. P(c) = [from |-> P(c).from, type |-> c.busy, to |-> P(c).to]
      BY DEF ExtractFreebusy
    <2> HIDE DEF P
    <2> QED BY <1>1, <2>1, <2>2, ClipKeeps
  <1>6. ASSUME NEW c \in instances, c.kind = "VEVENT", ShowsAsBusy(c, knowsUser), Within(t, P(c))
        PROVE  ClipToWindow(P(c), w) \in EventPeriods(components, w, tz, knowsUser)
    <2>1. c \in events
      BY <1>1, <1>2, <1>6, BusyOverlaps
    <2>2. P(c).to > w.from /\ P(c).from < w.to
      <3>1. w.from \in Nat /\ w.to \in Nat /\ t \in Int /\ w.from <= t /\ t < w.to
        BY <1>1 DEF Spans
      <3> HIDE DEF P
      <3> QED BY <1>5, <1>6, <3>1 DEF Within, None
    <2> HIDE DEF P, events
    <2> QED BY <1>4, <2>1, <2>2
  <1>7. ASSUME NEW q \in EventPeriods(components, w, tz, knowsUser), Within(t, q)
        PROVE  \E c \in instances : /\ c.kind = "VEVENT" /\ ShowsAsBusy(c, knowsUser)
                                    /\ Within(t, P(c)) /\ q.type = c.busy
    <2>1. PICK c \in events : q = ClipToWindow(P(c), w)
      <3> HIDE DEF P, events
      <3> QED BY <1>4, <1>7
    <2>2. c \in instances /\ c.kind = "VEVENT" /\ ShowsAsBusy(c, knowsUser)
      BY <1>3, <2>1
    <2> HIDE DEF P, events, instances
    <2> QED BY <1>5, <1>7, <2>1, <2>2
  <1>8. EventTypesAt(instances, t, tz, knowsUser)
          = {c.busy : c \in {e \in instances : /\ e.kind = "VEVENT" /\ ShowsAsBusy(e, knowsUser)
                                               /\ Within(t, P(e))}}
    BY DEF EventTypesAt
  <1> HIDE DEF P, events, instances
  <1>9. {p.type : p \in {q \in EventPeriods(components, w, tz, knowsUser) : Within(t, q)}}
          = EventTypesAt(instances, t, tz, knowsUser)
    BY <1>5, <1>6, <1>7, <1>8
  <1> QED BY <1>9 DEF instances

-----------------------------------------------------------------------------
(* Edits.                                                                  *)

LEMMA CalendarInitInv == CalendarInit => CalendarInv
  <1> SUFFICES ASSUME CalendarInit PROVE CalendarInv
    OBVIOUS
  <1>1. object = <<>> /\ DOMAIN object = {} /\ object \in Seq(Components)
    BY DEF CalendarInit
  <1>2. availability \in Seq(Availabilities)
    BY DEF CalendarInit
  <1>3. CalendarTypeOK
    <2>1. timezone \in {0, Offset}
      BY DEF CalendarInit
    <2>2. transparent \in BOOLEAN
      BY DEF CalendarInit
    <2>3. edits \in 0 .. MaxEdits
      BY TimesAssumption DEF CalendarInit
    <2> QED BY <1>1, <1>2, <2>1, <2>2, <2>3 DEF CalendarTypeOK
  <1> QED BY <1>1, <1>3 DEF CalendarInv

\* The master gets other exceptions.
LEMMA MasterIsEdited ==
  ASSUME CalendarInv, object # <<>>, IsRecurring(object[1]), NEW m \in Components,
         object' = [object EXCEPT ![1] = m], IsMaster(m),
         m.kind = object[1].kind, m.zone = object[1].zone, m.dur = object[1].dur,
         m.start = object[1].start, m.end = object[1].end, m.step = object[1].step,
         UNCHANGED <<availability, timezone, transparent>>, Edit
  PROVE  CalendarInv'
  <1>1. object \in Seq(Components) /\ 1 \in DOMAIN object
    BY DEF CalendarInv, CalendarTypeOK
  <1>2. object' \in Seq(Components) /\ DOMAIN object' = DOMAIN object
    BY <1>1
  <1>3. object'[1] = m /\ \A i \in DOMAIN object \ {1} : object'[i] = object[i]
    BY <1>1
  <1>4. ASSUME NEW i \in DOMAIN object \ {1}
        PROVE  IsRecurring(m) /\ IsOverrideOf(object[i], m)
    BY DEF CalendarInv, IsOverrideOf, IsRecurring
  <1>5. CalendarTypeOK'
    BY <1>2, TimesAssumption DEF CalendarInv, CalendarTypeOK, Edit
  <1> QED BY <1>2, <1>3, <1>4, <1>5 DEF CalendarInv

\* The object gets another component.
LEMMA OverrideIsAdded ==
  ASSUME CalendarInv, object # <<>>, IsRecurring(object[1]), NEW e \in Components,
         object' = Append(object, e), IsOverrideOf(e, object[1]),
         UNCHANGED <<availability, timezone, transparent>>, Edit
  PROVE  CalendarInv'
  <1>1. object \in Seq(Components) /\ 1 \in DOMAIN object /\ Len(object) \in Nat
        /\ DOMAIN object = 1 .. Len(object)
    BY DEF CalendarInv, CalendarTypeOK
  <1>2. /\ object' \in Seq(Components) /\ DOMAIN object' = 1 .. Len(object) + 1
        /\ object'[Len(object) + 1] = e /\ \A i \in DOMAIN object : object'[i] = object[i]
    BY <1>1
  <1>3. object'[1] = object[1]
    BY <1>1, <1>2
  <1>4. ASSUME NEW i \in DOMAIN object' \ {1}
        PROVE  IsOverrideOf(object'[i], object[1])
    <2>1. CASE i \in DOMAIN object
      BY <1>2, <2>1 DEF CalendarInv
    <2>2. CASE i = Len(object) + 1
      BY <1>2, <2>2
    <2> QED BY <1>1, <1>2, <2>1, <2>2
  <1>5. CalendarTypeOK'
    BY <1>2, TimesAssumption DEF CalendarInv, CalendarTypeOK, Edit
  <1> QED BY <1>3, <1>4, <1>5 DEF CalendarInv

LEMMA CreateObjectKeepsInv ==
  ASSUME CalendarInv, CreateObject
  PROVE  CalendarInv'
  <1>1. PICK c \in Drafts : object' = <<c>>
    BY DEF CreateObject
  <1>2. IsWritten(c) /\ ~IsOverride(c) /\ c.exdates = {} /\ c.rdates = {} /\ c \in Components
    BY DraftsAssumption DEF IsWritten, IsOverride
  <1>3. IsMaster(c)
    BY <1>2 DEF IsMaster
  <1>4. object' \in Seq(Components) /\ object'[1] = c /\ DOMAIN object' = {1}
    BY <1>1, <1>2
  <1>5. CalendarTypeOK'
    BY <1>4, TimesAssumption DEF CreateObject, CalendarInv, CalendarTypeOK, Edit
  <1> QED BY <1>3, <1>4, <1>5 DEF CalendarInv

\* The time of an instance that the client sees.
LEMMA SeenInstance ==
  ASSUME CalendarInv, object # <<>>, IsRecurring(object[1]), NEW ts \in Unchanged
  PROVE  /\ ts \in Nat /\ IsOnDay(object[1], ts)
         /\ IsMaster(object[1]) /\ object[1] \in Components /\ MayRecur(object[1])
  <1>1. IsMaster(object[1]) /\ ts \in RruleSet(object[1])
    BY DEF CalendarInv, Unchanged
  <1> QED BY <1>1, RruleSetOfMaster, MasterMayRecur

LEMMA ExcludeInstanceKeepsInv ==
  ASSUME CalendarInv, ExcludeInstance
  PROVE  CalendarInv'
  <1>1. PICK ts \in Unchanged, isDate \in BOOLEAN :
          object' = [object EXCEPT ![1].exdates = @ \cup {[at |-> ts, isDate |-> isDate]}]
    BY DEF ExcludeInstance
  <1>2. /\ ts \in Nat /\ IsMaster(object[1]) /\ object[1] \in Components
        /\ object # <<>> /\ IsRecurring(object[1])
    BY SeenInstance DEF ExcludeInstance
  <1> DEFINE m == [object[1] EXCEPT !.exdates = @ \cup {[at |-> ts, isDate |-> isDate]}]
  <1>3. object' = [object EXCEPT ![1] = m]
    BY <1>1
  <1>4. /\ m \in Components
        /\ m.kind = object[1].kind /\ m.zone = object[1].zone /\ m.dur = object[1].dur
        /\ m.start = object[1].start /\ m.end = object[1].end /\ m.step = object[1].step
        /\ m.count = object[1].count /\ m.rdates = object[1].rdates /\ m.recid = object[1].recid
    <2>1. object[1].exdates \cup {[at |-> ts, isDate |-> isDate]} \in SUBSET Exceptions
      BY <1>2 DEF Components, Exceptions
    <2> QED BY <1>2, <2>1 DEF Components
  <1>5. IsMaster(m)
    <2> HIDE DEF m
    <2> QED BY <1>2, <1>4 DEF IsMaster, IsWritten, IsRecurring, IsOverride, IsOnDay
  <1>6. Edit /\ UNCHANGED <<availability, timezone, transparent>>
    BY DEF ExcludeInstance
  <1> HIDE DEF m
  <1> QED BY <1>2, <1>3, <1>4, <1>5, <1>6, MasterIsEdited

LEMMA AddInstanceKeepsInv ==
  ASSUME CalendarInv, AddInstance
  PROVE  CalendarInv'
  <1>1. PICK t \in Times :
          /\ IsOnDay(object[1], t)
          /\ object' = [object EXCEPT ![1].rdates = @ \cup {[at |-> t, isDate |-> FALSE]}]
    BY DEF AddInstance
  <1>2. /\ t \in Nat /\ IsMaster(object[1]) /\ object[1] \in Components
        /\ object # <<>> /\ IsRecurring(object[1])
    BY TimesAssumption, MasterMayRecur DEF AddInstance, CalendarInv
  <1> DEFINE x == [at |-> t, isDate |-> FALSE]
             m == [object[1] EXCEPT !.rdates = @ \cup {x}]
  <1>3. object' = [object EXCEPT ![1] = m]
    BY <1>1
  <1>4. /\ m \in Components /\ m.rdates = object[1].rdates \cup {x}
        /\ m.kind = object[1].kind /\ m.zone = object[1].zone /\ m.dur = object[1].dur
        /\ m.start = object[1].start /\ m.end = object[1].end /\ m.step = object[1].step
        /\ m.count = object[1].count /\ m.exdates = object[1].exdates /\ m.recid = object[1].recid
    <2>0. x \in Exceptions /\ object[1].rdates \in SUBSET Exceptions
      BY <1>2 DEF Components, Exceptions
    <2>1. object[1].rdates \cup {x} \in SUBSET Exceptions
      BY <2>0
    <2> HIDE DEF x
    <2> QED BY <1>2, <2>1 DEF Components
  <1>5. x.at = t /\ x.isDate = FALSE
    OBVIOUS
  <1>6. IsMaster(m)
    <2> HIDE DEF m, x
    <2>1. IsWritten(m) /\ ~IsOverride(m) /\ IsRecurring(m)
      BY <1>2, <1>4 DEF IsMaster, IsWritten, IsRecurring, IsOverride, IsOnDay
    <2>2. \A y \in m.rdates : y.at \in Times /\ ~y.isDate /\ IsOnDay(m, y.at)
      BY <1>1, <1>2, <1>4, <1>5 DEF IsMaster, IsOnDay
    <2> QED BY <2>1, <2>2 DEF IsMaster
  <1>7. Edit /\ UNCHANGED <<availability, timezone, transparent>>
    BY DEF AddInstance
  <1> HIDE DEF m, x
  <1> QED BY <1>2, <1>3, <1>4, <1>6, <1>7, MasterIsEdited

LEMMA MoveInstanceKeepsInv ==
  ASSUME CalendarInv, MoveInstance
  PROVE  CalendarInv'
  <1> DEFINE m == object[1]
  <1>1. PICK ts \in Unchanged, t \in Times :
          LET o == Occurrence(m, ts)
          IN  /\ IsOnDay(o, t)
              /\ object' = Append(object, [Occurrence(o, t) EXCEPT !.recid = ts, !.text = "changed"])
    BY DEF MoveInstance
  <1>2. /\ ts \in Nat /\ t \in Nat /\ IsOnDay(m, ts) /\ IsMaster(m) /\ m \in Components
        /\ MayRecur(m) /\ object # <<>> /\ IsRecurring(m)
    BY SeenInstance, TimesAssumption DEF MoveInstance
  <1> DEFINE o == Occurrence(m, ts)
             p == Occurrence(o, t)
             e == [p EXCEPT !.recid = ts, !.text = "changed"]
  <1>3. IsOccurrence(o, m, ts) /\ o \in Components /\ MayRecur(o)
    BY <1>2, OccurrenceFields
  <1>4. IsOccurrence(p, o, t) /\ p \in Components /\ p.step = 0
    <2> HIDE DEF o
    <2> QED BY <1>2, <1>3, OccurrenceFields
  <1>5. /\ e \in Components /\ e.recid = ts /\ e.step = 0
        /\ e.kind = p.kind /\ e.zone = p.zone /\ e.dur = p.dur /\ e.start = p.start /\ e.end = p.end
    <2> HIDE DEF p
    <2> DEFINE q == [p EXCEPT !.recid = ts]
               word == "changed"
    <2>1. /\ q \in Components /\ q.recid = ts /\ q.step = 0
          /\ q.kind = p.kind /\ q.zone = p.zone /\ q.dur = p.dur /\ q.start = p.start /\ q.end = p.end
      BY <1>2, <1>4 DEF Components
    <2>2. e = [q EXCEPT !.text = word]
      OBVIOUS
    <2>3. word \in Texts
      BY TextsAssumption
    <2> HIDE DEF q, word
    <2> QED BY <2>1, <2>2, <2>3 DEF Components
  <1>6. e.end = IF m.end = None THEN None ELSE t + (m.end - m.start)
    <2> HIDE DEF o, p, e
    <2>1. m.end # None => o.end = ts + (m.end - m.start) /\ o.end - ts = m.end - m.start
                          /\ o.end # None
      BY <1>2, <1>3 DEF IsOccurrence, MayRecur, MaybeTimes, None
    <2> QED BY <1>3, <1>4, <1>5, <2>1 DEF IsOccurrence
  <1>7. IsOnDay(m, t)
    BY <1>1, <1>3 DEF IsOnDay, IsOccurrence
  <1>8. IsOverrideOf(e, m)
    <2> HIDE DEF o, p, e
    <2> QED BY <1>2, <1>3, <1>4, <1>5, <1>6, <1>7
            DEF IsOverrideOf, IsOccurrence, IsRecurring, IsOverride, IsOnDay, None
  <1>9. object' = Append(object, e) /\ Edit /\ UNCHANGED <<availability, timezone, transparent>>
    BY <1>1 DEF MoveInstance
  <1> HIDE DEF e
  <1> QED BY <1>2, <1>5, <1>8, <1>9, OverrideIsAdded

LEMMA DeclineInstanceKeepsInv ==
  ASSUME CalendarInv, DeclineInstance
  PROVE  CalendarInv'
  <1> DEFINE m == object[1]
  <1>1. PICK ts \in Unchanged :
          object' = Append(object, [Occurrence(m, ts) EXCEPT !.declined = TRUE])
    BY DEF DeclineInstance
  <1>2. /\ ts \in Nat /\ IsOnDay(m, ts) /\ IsMaster(m) /\ m \in Components
        /\ MayRecur(m) /\ object # <<>> /\ IsRecurring(m)
    BY SeenInstance DEF DeclineInstance
  <1> DEFINE p == Occurrence(m, ts)
             e == [p EXCEPT !.declined = TRUE]
  <1>3. IsOccurrence(p, m, ts) /\ p \in Components /\ p.step = 0 /\ p.recid = ts
    BY <1>2, OccurrenceFields
  <1>4. /\ e \in Components /\ e.recid = ts /\ e.step = 0
        /\ e.kind = p.kind /\ e.zone = p.zone /\ e.dur = p.dur /\ e.start = p.start /\ e.end = p.end
    <2> HIDE DEF p
    <2> QED BY <1>3 DEF Components
  <1>5. IsOverrideOf(e, m)
    <2> HIDE DEF p, e
    <2> QED BY <1>2, <1>3, <1>4 DEF IsOverrideOf, IsOccurrence, IsRecurring, IsOverride, IsOnDay, None
  <1>6. object' = Append(object, e) /\ Edit /\ UNCHANGED <<availability, timezone, transparent>>
    BY <1>1 DEF DeclineInstance
  <1> HIDE DEF e
  <1> QED BY <1>2, <1>4, <1>5, <1>6, OverrideIsAdded

LEMMA CalendarNextInv ==
  ASSUME CalendarInv, [CalendarNext]_calendarVars
  PROVE  CalendarInv'
  <1>1. ASSUME PublishAvailability
        PROVE  CalendarInv'
    <2>1. availability' \in Seq(Availabilities) /\ object' = object
      BY <1>1 DEF PublishAvailability, CalendarInv, CalendarTypeOK
    <2> QED BY <1>1, <2>1, TimesAssumption DEF PublishAvailability, CalendarInv, CalendarTypeOK, Edit
  <1>2. ASSUME SetCalendarTimezone
        PROVE  CalendarInv'
    BY <1>2, TimesAssumption, ClockAssumption
       DEF SetCalendarTimezone, CalendarInv, CalendarTypeOK, Edit
  <1>3. ASSUME SetScheduleTransparency
        PROVE  CalendarInv'
    BY <1>3, TimesAssumption DEF SetScheduleTransparency, CalendarInv, CalendarTypeOK, Edit
  <1>4. ASSUME UNCHANGED calendarVars
        PROVE  CalendarInv'
    BY <1>4 DEF calendarVars, CalendarInv, CalendarTypeOK
  <1> QED BY <1>1, <1>2, <1>3, <1>4, CreateObjectKeepsInv, ExcludeInstanceKeepsInv,
             AddInstanceKeepsInv, MoveInstanceKeepsInv, DeclineInstanceKeepsInv DEF CalendarNext

\* Whatever clients do to a calendar object, its first component is a master as
\* RFC 5545 has it, and the others are instances of it: what the queries, the
\* expansion and the index take for granted of an object.
THEOREM CalendarInvariant == CalendarSpec => []CalendarInv
  BY CalendarInitInv, CalendarNextInv, PTL DEF CalendarSpec

\* A calendar-query that reads the file finds an object exactly when one of its
\* instances overlaps the window and has the properties asked for.
THEOREM QueriesFindWhatOverlaps == CalendarSpec => []QueriesFindOverlaps
  BY CalendarInvariant, QueriesFind, PTL

\* A calendar-query answered from the index never contradicts the file, for what
\* the index holds whole.
THEOREM IndexesStayInAgreement == CalendarSpec => []IndexesAgree
  BY CalendarInvariant, IndexesAlwaysAgree, PTL

\* What expand and limit-recurrence-set send shows a client its window.
THEOREM ExtractsStayTrue == CalendarSpec => []ExtractsShowTheWindow
  BY CalendarInvariant, ExtractsShow, PTL

\* The busy periods of events in a free/busy answer cover a tick of the window
\* exactly when an event of the calendar does, and with its type.
THEOREM EventsStayTrue == CalendarSpec => []EventsShowAsBusy
  BY CalendarInvariant, EventsAreBusy, PTL
=============================================================================

-------------------------- MODULE StoreIndexProofs --------------------------
(***************************************************************************)
(* Proofs about StoreIndex, for any number of reports, worker threads,     *)
(* members, contents and index keys.                                       *)
(***************************************************************************)
EXTENDS StoreIndex, TLAPS

-----------------------------------------------------------------------------
(* Type correctness; it needs Visits, since what is indexed is what was    *)
(* listed.                                                                 *)

Shape == TypeOK /\ Visits

\* The part of it that is about the reports, and the rest.
Reports == [phase : {"idle", "naive", "byindex"}, need : SUBSET Keys, defined : BOOLEAN,
            listing : Listing, left : SUBSET Names, found : SUBSET Names]

ReportsTyped ==
  /\ query \in [Queries -> Reports]
  /\ \A q \in Queries : query[q].left \subseteq Listed(query[q].listing)

RestTyped ==
  /\ members \in Listing
  /\ keys \subseteq Keys
  /\ values \subseteq keys \X Bodies
  /\ inIndex \subseteq Bodies
  /\ desired \in [Keys -> 0 .. MaxOps] /\ \A k \in Keys : desired[k] <= ops
  /\ reset \in [stage : {"none", "etags", "tables", "fill"}, todo : SUBSET Keys]
  /\ pc \in [Threads -> {"idle", "keys", "add", "readkeys", "open", "scan"}]
  /\ job \in [Threads -> [body : Bodies \cup {Absent}, todo : SUBSET Keys]]
  /\ \A t \in Threads : pc[t] \in {"keys", "add"} => job[t].body # Absent
  /\ pc[Scanner] # "keys"
  /\ scan \in [keys : SUBSET Keys, listing : Listing, left : SUBSET Names]
  /\ scan.left \subseteq Listed(scan.listing)
  /\ died \subseteq Threads
  /\ raced \in BOOLEAN
  /\ ops \in 0 .. MaxOps

LEMMA ShapeParts ==
  /\ Shape <=> ReportsTyped /\ RestTyped
  /\ Shape' <=> ReportsTyped' /\ RestTyped'
  BY DEF Shape, TypeOK, Visits, ReportsTyped, RestTyped, Reports

LEMMA NoQueryTyped == NoQuery \in Reports /\ NoQuery.left = {}
  BY DEF NoQuery, Reports, NoFiles, Listing

LEMMA InitShape == Init => Shape
  <1> SUFFICES ASSUME Init PROVE Shape
    OBVIOUS
  <1>1. ReportsTyped
    BY NoQueryTyped DEF Init, ReportsTyped
  <1>2. /\ reset \in [stage : {"none", "etags", "tables", "fill"}, todo : SUBSET Keys]
        /\ job \in [Threads -> [body : Bodies \cup {Absent}, todo : SUBSET Keys]]
        /\ scan \in [keys : SUBSET Keys, listing : Listing, left : SUBSET Names]
        /\ scan.left \subseteq Listed(scan.listing)
    BY DEF Init, NoJob, NoScan, NoFiles, Listing
  <1>3. /\ pc \in [Threads -> {"idle", "keys", "add", "readkeys", "open", "scan"}]
        /\ \A t \in Threads : pc[t] \notin {"add", "keys"}
    BY DEF Init
  <1>4. desired \in [Keys -> 0 .. MaxOps] /\ (\A k \in Keys : desired[k] <= ops)
        /\ ops \in 0 .. MaxOps
    BY BoundAssumption DEF Init
  <1>5. members \in Listing /\ keys \subseteq Keys /\ values = {} /\ inIndex = {}
        /\ died = {} /\ raced \in BOOLEAN
    BY KeysAssumption DEF Init
  <1>6. RestTyped
    BY <1>2, <1>3, <1>4, <1>5 DEF RestTyped, Threads
  <1> QED
    BY <1>1, <1>6, ShapeParts

LEMMA StartShape == Shape /\ Start => Shape'
  <1> SUFFICES ASSUME ReportsTyped, RestTyped, Start PROVE ReportsTyped' /\ RestTyped'
    BY ShapeParts
  <1> USE BoundAssumption DEF CountOp, index, loop, threads
  <1>1. ASSUME NEW n \in Names, NEW b \in Bodies, CreateOnLoop(n, b)
        PROVE  ReportsTyped' /\ RestTyped'
    <2>1. RestTyped'
      BY <1>1 DEF CreateOnLoop, Listing, RestTyped
    <2> QED
      BY <1>1, <2>1 DEF CreateOnLoop, ReportsTyped
  <1>2. ASSUME NEW n \in Names, Delete(n) PROVE ReportsTyped' /\ RestTyped'
    <2>1. RestTyped'
      BY <1>2 DEF Delete, Listing, RestTyped
    <2> QED
      BY <1>2, <2>1 DEF Delete, ReportsTyped
  <1>3. ASSUME NEW t \in Writers, NEW n \in Names, NEW b \in Bodies, WriteMember(t, n, b)
        PROVE  ReportsTyped' /\ RestTyped'
    <2>1. t # Scanner /\ Absent \notin Bodies
      BY MarkerAssumption
    <2>2. RestTyped'
      BY <1>3, <2>1 DEF WriteMember, Listing, Threads, RestTyped
    <2> QED
      BY <1>3, <2>2 DEF WriteMember, ReportsTyped
  <1>4. ASSUME NEW q \in Queries, NEW need \in SUBSET Keys, NEW defined \in BOOLEAN,
               StartQuery(q, need, defined)
        PROVE  ReportsTyped' /\ RestTyped'
    <2>1. desired' \in [Keys -> 0 .. MaxOps] /\ \A k \in Keys : desired'[k] <= ops'
      BY <1>4 DEF StartQuery, RestTyped
    <2>2. reset' \in [stage : {"none", "etags", "tables", "fill"}, todo : SUBSET Keys]
      BY <1>4 DEF StartQuery, AllKeys, RestTyped
    <2>3. PICK r \in Reports : query' = [query EXCEPT ![q] = r]
                               /\ r.left \subseteq Listed(r.listing)
      <3> DEFINE r == [phase |-> IF need \ keys = {} THEN "byindex" ELSE "naive",
                       need |-> need, defined |-> defined, listing |-> members,
                       left |-> Listed(members), found |-> {}]
      <3>1. r \in Reports /\ r.left \subseteq Listed(r.listing)
        BY DEF Reports, RestTyped, Listed
      <3>2. query' = [query EXCEPT ![q] = r]
        BY <1>4 DEF StartQuery
      <3> QED
        BY <3>1, <3>2
    <2>4. ReportsTyped'
      BY <2>3 DEF ReportsTyped
    <2>5. raced' \in BOOLEAN
      BY <1>4 DEF StartQuery
    <2>6. ops' \in 0 .. MaxOps /\ UNCHANGED <<members, index, threads>>
      BY <1>4 DEF StartQuery, RestTyped
    <2> QED
      BY <2>1, <2>2, <2>4, <2>5, <2>6 DEF RestTyped
  <1> QED
    BY <1>1, <1>2, <1>3, <1>4 DEF Start

LEMMA LoopShape == Shape /\ LoopStep => Shape'
  <1> SUFFICES ASSUME ReportsTyped, RestTyped, LoopStep PROVE ReportsTyped' /\ RestTyped'
    BY ShapeParts
  <1>1. ReportsTyped'
    BY DEF LoopStep, ResetEtags, ResetTables, ResetKey, ReportsTyped
  <1> USE <1>1 DEF RestTyped, threads
  <1>2. CASE ResetEtags   BY <1>2 DEF ResetEtags
  <1>3. CASE ResetTables  BY <1>3 DEF ResetTables
  <1>4. ASSUME NEW k \in Keys, ResetKey(k) PROVE RestTyped'
    BY <1>4 DEF ResetKey
  <1> QED
    BY <1>2, <1>3, <1>4 DEF LoopStep

\* What an item of the listing does to a report's own state.
LEMMA FoundIsLocal ==
  ASSUME ReportsTyped, NEW q \in Queries, NEW n \in Names, NEW hit \in BOOLEAN,
         Found(q, n, hit)
  PROVE  /\ ReportsTyped'
         /\ \A r \in Queries : /\ query'[r].listing = query[r].listing
                               /\ query'[r].phase = query[r].phase
                               /\ query'[r].need = query[r].need
                               /\ query'[r].defined = query[r].defined
         /\ query'[q].left = query[q].left \ {n}
         /\ query'[q].found = IF hit THEN query[q].found \cup {n} ELSE query[q].found
         /\ \A r \in Queries \ {q} : query'[r] = query[r]
  BY DEF Found, ReportsTyped, Reports, Listed

LEMMA ListedBody ==
  ASSUME ReportsTyped, NEW q \in Queries, NEW n \in query[q].left
  PROVE  query[q].listing[n] \in Bodies
  BY DEF ReportsTyped, Reports, Listing, Listed

LEMMA QueryShape ==
  ASSUME Shape, NEW q \in Queries, QueryStep(q)
  PROVE  Shape'
  <1> SUFFICES ASSUME ReportsTyped, RestTyped PROVE ReportsTyped' /\ RestTyped'
    BY ShapeParts
  <1> USE DEF threads, index
  <1>m. /\ \A b : Matches(q, b) \in BOOLEAN
        /\ \A b : MatchesIndex(q, b) \in BOOLEAN
    BY DEF Matches, MatchesIndex
  <1>1. ASSUME NEW n \in Names, CheckFile(q, n) PROVE ReportsTyped' /\ RestTyped'
    <2>1. ReportsTyped'
      BY <1>1, <1>m, FoundIsLocal DEF CheckFile
    <2> QED
      BY <1>1, <2>1 DEF CheckFile, RestTyped
  <1>2. ASSUME NEW n \in Names, IndexFile(q, n) PROVE ReportsTyped' /\ RestTyped'
    <2>1. ReportsTyped'
      BY <1>2, <1>m, FoundIsLocal DEF IndexFile
    <2>2. query[q].listing[n] \in Bodies
      BY <1>2, ListedBody DEF IndexFile, Next1
    <2> QED
      BY <1>2, <2>1, <2>2 DEF IndexFile, RestTyped
  <1>3. ASSUME NEW n \in Names, CheckIndex(q, n) PROVE ReportsTyped' /\ RestTyped'
    <2>1. ReportsTyped'
      BY <1>3, <1>m, FoundIsLocal DEF CheckIndex
    <2> QED
      BY <1>3, <2>1 DEF CheckIndex, RestTyped
  <1>4. CASE EndQuery(q)
    <2>1. ReportsTyped'
      BY <1>4, NoQueryTyped DEF EndQuery, ReportsTyped
    <2> QED
      BY <1>4, <2>1 DEF EndQuery, RestTyped
  <1> QED
    BY <1>1, <1>2, <1>3, <1>4 DEF QueryStep

LEMMA ThreadShape ==
  ASSUME Shape, NEW t \in Threads, ThreadStep(t)
  PROVE  Shape'
  <1> SUFFICES ASSUME ReportsTyped, RestTyped PROVE ReportsTyped' /\ RestTyped'
    BY ShapeParts
  <1>0. ReportsTyped'
    BY DEF ThreadStep, ReadKeys, MarkIndexed, AddValue, Assert, loop, ReportsTyped
  <1> USE <1>0 DEF RestTyped, loop, NoJob
  <1>1. CASE ReadKeys(t)     BY <1>1 DEF ReadKeys, index
  <1>2. CASE MarkIndexed(t)  BY <1>2 DEF MarkIndexed
  <1>3. ASSUME NEW k \in Keys, AddValue(t, k) PROVE RestTyped'
    BY <1>3 DEF AddValue
  <1>4. ASSUME NEW k \in Keys, Assert(t, k) PROVE RestTyped'
    BY <1>4 DEF Assert, NoScan, NoFiles, Listing, index
  <1> QED
    BY <1>1, <1>2, <1>3, <1>4 DEF ThreadStep

LEMMA ScanShape == Shape /\ ScanStep => Shape'
  <1> SUFFICES ASSUME ReportsTyped, RestTyped, ScanStep PROVE ReportsTyped' /\ RestTyped'
    BY ShapeParts
  <1>0. ReportsTyped'
    BY DEF ScanStep, ScanKeys, ScanOpen, ScanEnd, ScanNext, loop, ReportsTyped
  <1> USE <1>0 DEF RestTyped, loop, index, Threads
  <1>1. CASE ScanKeys  BY <1>1 DEF ScanKeys
  <1>2. CASE ScanOpen  BY <1>2 DEF ScanOpen, Listed
  <1>3. CASE ScanEnd   BY <1>3 DEF ScanEnd, NoScan, NoFiles, Listing
  <1>4. ASSUME NEW n \in Names, ScanNext(n) PROVE RestTyped'
    BY <1>4 DEF ScanNext, Listing, Listed
  <1> QED
    BY <1>1, <1>2, <1>3, <1>4 DEF ScanStep

LEMMA NextShape == Shape /\ [Next]_vars => Shape'
  <1>1. Shape /\ UNCHANGED vars => Shape'
    BY DEF vars, Shape, TypeOK, Visits
  <1> QED
    BY <1>1, StartShape, LoopShape, QueryShape, ThreadShape, ScanShape DEF Next

\* Every variable keeps its shape: in particular no report is handed a name
\* that the listing it works on does not have.
THEOREM TypeCorrect == Spec => []TypeOK
  <1>1. Shape => TypeOK
    BY DEF Shape
  <1> QED
    BY InitShape, NextShape, <1>1, PTL DEF Spec

-----------------------------------------------------------------------------
(* The keys that suspended reports count on. *)

LEMMA NextKeysReturn ==
  ASSUME Shape, QueryKeysReturn, [Next]_vars
  PROVE  QueryKeysReturn'
  <1> USE DEF LoopIsFree
  <1>1. ReportsTyped /\ RestTyped
    BY ShapeParts
  <1>k. ASSUME UNCHANGED <<keys, reset>>,
               \A q \in Queries : query'[q].phase = "byindex" =>
                 query[q].phase = "byindex" /\ query'[q].need = query[q].need
        PROVE  QueryKeysReturn'
    BY <1>k DEF QueryKeysReturn, KeysToCome
  <1>2. CASE Start
    <2>1. CASE UNCHANGED <<keys, reset, query>>
      BY <2>1, <1>k
    <2>2. ASSUME NEW q \in Queries, NEW need \in SUBSET Keys, NEW defined \in BOOLEAN,
                 StartQuery(q, need, defined)
          PROVE  QueryKeysReturn'
      <3>1. /\ reset.stage = "none" /\ reset.todo = {} /\ keys' = keys
            /\ reset' = reset \/ \E new : reset' = [stage |-> "etags", todo |-> keys \cup new]
        BY <2>2 DEF StartQuery, QueryKeysReturn, AllKeys, index
      <3>2. KeysToCome = keys /\ keys \subseteq KeysToCome' /\ (LoopIsFree => reset.todo = {})'
        BY <3>1 DEF KeysToCome
      <3>3. ASSUME NEW r \in Queries, query'[r].phase = "byindex"
            PROVE  query'[r].need \subseteq keys
        <4>1. CASE r = q
          BY <1>1, <2>2, <3>3, <4>1 DEF StartQuery, ReportsTyped
        <4>2. CASE r # q
          BY <1>1, <2>2, <3>2, <3>3, <4>2 DEF StartQuery, ReportsTyped, QueryKeysReturn
        <4> QED
          BY <4>1, <4>2
      <3> QED
        BY <3>2, <3>3 DEF QueryKeysReturn
    <2> QED
      BY <1>2, <2>1, <2>2 DEF Start, CreateOnLoop, Delete, WriteMember, index, loop
  <1>3. CASE LoopStep
    <2>1. KeysToCome \subseteq KeysToCome' /\ (LoopIsFree => reset.todo = {})' /\ query' = query
      <3>1. CASE ResetEtags
        BY <1>1, <3>1 DEF ResetEtags, KeysToCome, RestTyped
      <3>2. CASE ResetTables
        BY <1>1, <3>2 DEF ResetTables, KeysToCome, RestTyped
      <3>3. ASSUME NEW k \in Keys, ResetKey(k)
            PROVE  KeysToCome \subseteq KeysToCome' /\ (LoopIsFree => reset.todo = {})'
                   /\ query' = query
        BY <1>1, <3>3 DEF ResetKey, KeysToCome, RestTyped
      <3> QED
        BY <1>3, <3>1, <3>2, <3>3 DEF LoopStep
    <2> QED
      BY <2>1 DEF QueryKeysReturn
  <1>4. ASSUME NEW q \in Queries, QueryStep(q) PROVE QueryKeysReturn'
    <2>1. ASSUME NEW n \in Names, NEW hit \in BOOLEAN, Found(q, n, hit),
                 UNCHANGED <<keys, reset>>
          PROVE  QueryKeysReturn'
      BY <1>1, <1>k, <2>1, FoundIsLocal
    <2>2. CASE EndQuery(q)
      BY <1>1, <1>k, <2>2 DEF EndQuery, NoQuery, ReportsTyped, index
    <2>3. \A b : Matches(q, b) \in BOOLEAN /\ MatchesIndex(q, b) \in BOOLEAN
      BY DEF Matches, MatchesIndex
    <2> QED
      BY <1>4, <2>1, <2>2, <2>3 DEF QueryStep, CheckFile, IndexFile, CheckIndex, index
  <1>5. ASSUME NEW t \in Threads, ThreadStep(t) PROVE QueryKeysReturn'
    BY <1>5, <1>k DEF ThreadStep, ReadKeys, MarkIndexed, AddValue, Assert, index, loop
  <1>6. CASE ScanStep
    BY <1>6, <1>k DEF ScanStep, ScanKeys, ScanOpen, ScanEnd, ScanNext, index, loop
  <1>7. CASE UNCHANGED vars
    BY <1>7, <1>k DEF vars
  <1> QED
    BY <1>2, <1>3, <1>4, <1>5, <1>6, <1>7 DEF Next

-----------------------------------------------------------------------------
(* The index while no reset has met a thread with a list of keys. *)

Complete == LoopIsFree => keys \X inIndex \subseteq values

\* Who leaves the reports alone leaves their answers alone.
LEMMA SameQueries == QueriesAreRight /\ UNCHANGED query => QueriesAreRight'
  BY DEF QueriesAreRight, Matches

LEMMA StartKeepsUnraced ==
  ASSUME Shape, Unraced, Start, ~raced'
  PROVE  Unraced'
  <1> USE DEF LoopIsFree, HoldsKeys, index, threads, loop, CountOp
  <1>1. ReportsTyped /\ RestTyped
    BY ShapeParts
  <1>2. ASSUME NEW n \in Names, NEW b \in Bodies, CreateOnLoop(n, b) PROVE Unraced'
    BY <1>2, SameQueries DEF CreateOnLoop, Unraced, ListsAreCurrent, ResetStartsEmpty
  <1>3. ASSUME NEW n \in Names, Delete(n) PROVE Unraced'
    BY <1>3, SameQueries DEF Delete, Unraced, ListsAreCurrent, ResetStartsEmpty
  <1>4. ASSUME NEW t \in Writers, NEW n \in Names, NEW b \in Bodies, WriteMember(t, n, b)
        PROVE  Unraced'
    <2>1. /\ pc'[t] = "keys"
          /\ \A u \in Threads \ {t} : pc'[u] = pc[u] /\ job'[u] = job[u]
      BY <1>1, <1>4 DEF WriteMember, RestTyped, Threads
    <2>2. ListsAreCurrent'
      BY <1>4, <2>1 DEF WriteMember, Unraced, ListsAreCurrent
    <2> QED
      BY <1>4, <2>2, SameQueries DEF WriteMember, Unraced, ResetStartsEmpty
  <1>5. ASSUME NEW q \in Queries, NEW need \in SUBSET Keys, NEW defined \in BOOLEAN,
               StartQuery(q, need, defined)
        PROVE  Unraced'
    <2>1. /\ UNCHANGED <<keys, values, inIndex, pc, job, scan, died>> /\ reset.stage = "none"
          /\ \/ reset' = reset
             \/ reset'.stage = "etags" /\ \A t \in Threads : ~HoldsKeys(t)
      BY <1>5 DEF StartQuery
    <2>2. ListsAreCurrent'
      BY <2>1 DEF Unraced, ListsAreCurrent
    <2>3. QueriesAreRight'
      <3> SUFFICES ASSUME NEW r \in Queries
                   PROVE  query'[r].found = {n \in Listed(query'[r].listing) \ query'[r].left :
                                               Matches(r, query[r].listing[n])'}
        BY DEF QueriesAreRight
      <3>1. CASE r = q
        <4>1. query'[q].left = Listed(query'[q].listing) /\ query'[q].found = {}
          BY <1>1, <1>5 DEF StartQuery, ReportsTyped
        <4> QED
          BY <3>1, <4>1
      <3>2. CASE r # q
        <4>1. query'[r] = query[r]
          BY <1>1, <1>5, <3>2 DEF StartQuery, ReportsTyped
        <4> QED
          BY <4>1 DEF Unraced, QueriesAreRight, Matches
      <3> QED
        BY <3>1, <3>2
    <2> QED
      BY <2>1, <2>2, <2>3 DEF Unraced, ResetStartsEmpty
  <1> QED
    BY <1>2, <1>3, <1>4, <1>5 DEF Start

LEMMA LoopKeepsUnraced ==
  ASSUME Shape, Unraced, LoopStep
  PROVE  Unraced'
  <1>1. RestTyped /\ ~LoopIsFree
    BY ShapeParts DEF LoopStep, ResetEtags, ResetTables, ResetKey, LoopIsFree
  <1>2. \A t \in Threads : ~HoldsKeys(t)
    BY <1>1 DEF Unraced, ListsAreCurrent
  <1>3. UNCHANGED <<pc, query, died>>
    BY DEF LoopStep, ResetEtags, ResetTables, ResetKey, threads
  <1>4. ListsAreCurrent' /\ QueriesAreRight'
    BY <1>2, <1>3, SameQueries DEF Unraced, ListsAreCurrent, HoldsKeys
  <1>5. ResetStartsEmpty' /\ Complete'
    BY <1>1
    DEF LoopStep, ResetEtags, ResetTables, ResetKey, Unraced, ResetStartsEmpty, Complete,
        LoopIsFree, RestTyped
  <1> QED
    BY <1>3, <1>4, <1>5 DEF Unraced, Complete

\* One more member visited, and found if it matches.
LEMMA VisitIsRight ==
  ASSUME ReportsTyped, QueriesAreRight, NEW q \in Queries, NEW n \in query[q].left,
         NEW hit \in BOOLEAN, hit <=> Matches(q, query[q].listing[n]), Found(q, n, hit)
  PROVE  QueriesAreRight'
  <1>1. n \in Names
    BY DEF ReportsTyped, Reports
  <1>2. /\ \A r \in Queries : query'[r].listing = query[r].listing
        /\ query'[q].left = query[q].left \ {n}
        /\ query'[q].found = IF hit THEN query[q].found \cup {n} ELSE query[q].found
        /\ \A r \in Queries \ {q} : query'[r] = query[r]
        /\ \A r \in Queries : query'[r].need = query[r].need
                              /\ query'[r].defined = query[r].defined
    BY <1>1 DEF Found, ReportsTyped, Reports
  <1>3. \A r \in Queries : \A b : Matches(r, b)' <=> Matches(r, b)
    BY <1>2 DEF Matches
  <1>4. n \in Listed(query[q].listing)
    BY DEF ReportsTyped
  <1> SUFFICES ASSUME NEW r \in Queries
               PROVE  query'[r].found = {m \in Listed(query'[r].listing) \ query'[r].left :
                                           Matches(r, query[r].listing[m])'}
    BY DEF QueriesAreRight
  <1>5. query[r].found = {m \in Listed(query[r].listing) \ query[r].left :
                            Matches(r, query[r].listing[m])}
    BY DEF QueriesAreRight
  <1>6. \A m : Matches(r, query[r].listing[m])' <=> Matches(r, query[r].listing[m])
    BY <1>2, <1>3
  <1> QED
    BY <1>2, <1>4, <1>5, <1>6

LEMMA QueryKeepsUnraced ==
  ASSUME Shape, QueryKeysReturn, Unraced, NEW q \in Queries, QueryStep(q)
  PROVE  Unraced'
  <1>1. ReportsTyped /\ RestTyped /\ QueriesAreRight /\ Complete
    BY ShapeParts DEF Unraced, Complete
  <1>m. \A b : Matches(q, b) \in BOOLEAN
    BY DEF Matches
  <1>2. ASSUME NEW n \in Names, CheckFile(q, n) PROVE Unraced'
    <2>1. QueriesAreRight'
      BY <1>1, <1>2, <1>m, VisitIsRight DEF CheckFile, Next1
    <2> QED
      BY <1>2, <2>1
      DEF CheckFile, Unraced, ListsAreCurrent, ResetStartsEmpty, HoldsKeys, LoopIsFree,
          threads, index
  <1>3. ASSUME NEW n \in Names, IndexFile(q, n) PROVE Unraced'
    <2>1. QueriesAreRight'
      BY <1>1, <1>3, <1>m, VisitIsRight DEF IndexFile, Next1
    <2> QED
      BY <1>3, <2>1
      DEF IndexFile, Next1, Unraced, ListsAreCurrent, ResetStartsEmpty, HoldsKeys,
          LoopIsFree, threads
  <1>4. ASSUME NEW n \in Names, CheckIndex(q, n) PROVE Unraced'
    <2> DEFINE b == query[q].listing[n]
    <2>1. n \in query[q].left /\ b \in inIndex /\ LoopIsFree /\ query[q].phase = "byindex"
      BY <1>4 DEF CheckIndex, Next1
    <2>2. query[q].need \subseteq keys
      BY <2>1 DEF QueryKeysReturn, KeysToCome, LoopIsFree
    <2>3. \A k \in query[q].need : <<k, b>> \in values
      BY <1>1, <2>1, <2>2 DEF Complete
    <2>4. MatchesIndex(q, b) <=> Matches(q, b)
      <3>1. ASSUME NEW k \in query[q].need
            PROVE  ((<<k, b>> \in values /\ b \in Has[k]) = query[q].defined)
                     <=> ((b \in Has[k]) = query[q].defined)
        <4>1. <<k, b>> \in values
          BY <2>3
        <4>2. CASE b \in Has[k]
          BY <4>1, <4>2
        <4>3. CASE b \notin Has[k]
          BY <4>1, <4>3
        <4> QED
          BY <4>2, <4>3
      <3> QED
        BY <3>1 DEF MatchesIndex, Matches
    <2>5. MatchesIndex(q, b) \in BOOLEAN
      BY DEF MatchesIndex
    <2>6. QueriesAreRight'
      BY <1>1, <1>4, <2>1, <2>4, <2>5, VisitIsRight DEF CheckIndex
    <2> QED
      BY <1>4, <2>6
      DEF CheckIndex, Unraced, ListsAreCurrent, ResetStartsEmpty, HoldsKeys, LoopIsFree,
          threads, index
  <1>5. CASE EndQuery(q)
    <2>1. QueriesAreRight'
      <3> SUFFICES ASSUME NEW r \in Queries
                   PROVE  query'[r].found = {n \in Listed(query'[r].listing) \ query'[r].left :
                                               Matches(r, query[r].listing[n])'}
        BY DEF QueriesAreRight
      <3>1. CASE r = q
        <4>1. query'[q].found = {} /\ Listed(query'[q].listing) = {}
          BY <1>1, <1>5 DEF EndQuery, ReportsTyped, NoQuery, NoFiles, Listed
        <4> QED
          BY <3>1, <4>1
      <3>2. CASE r # q
        <4>1. query'[r] = query[r]
          BY <1>1, <1>5, <3>2 DEF EndQuery, ReportsTyped
        <4> QED
          BY <1>1, <4>1 DEF QueriesAreRight, Matches
      <3> QED
        BY <3>1, <3>2
    <2> QED
      BY <1>5, <2>1
      DEF EndQuery, Unraced, ListsAreCurrent, ResetStartsEmpty, HoldsKeys, LoopIsFree,
          threads, index
  <1> QED
    BY <1>2, <1>3, <1>4, <1>5 DEF QueryStep

LEMMA ThreadKeepsUnraced ==
  ASSUME Shape, Unraced, NEW t \in Threads, ThreadStep(t), ~raced'
  PROVE  Unraced'
  <1> USE DEF LoopIsFree, HoldsKeys, index, loop
  <1>1. RestTyped /\ QueriesAreRight' /\ ResetStartsEmpty
    BY ShapeParts, SameQueries
    DEF Unraced, ThreadStep, ReadKeys, MarkIndexed, AddValue, Assert
  <1>2. CASE ReadKeys(t)
    <2>1. /\ LoopIsFree /\ t # Scanner
          /\ pc'[t] = "add" => job'[t].todo = keys
          /\ pc'[t] \in {"idle", "add"}
          /\ \A u \in Threads \ {t} : pc'[u] = pc[u] /\ job'[u] = job[u]
      BY <1>1, <1>2 DEF ReadKeys, RestTyped
    <2>2. ListsAreCurrent'
      BY <1>2, <2>1 DEF ReadKeys, Unraced, ListsAreCurrent
    <2> QED
      BY <1>1, <1>2, <2>2 DEF ReadKeys, Unraced, ResetStartsEmpty
  <1>3. CASE MarkIndexed(t)
    <2>1. pc[t] = "add" /\ LoopIsFree /\ \A k \in keys : <<k, job[t].body>> \in values
      BY <1>3 DEF MarkIndexed, Unraced, ListsAreCurrent
    <2>2. /\ pc'[t] # "add" /\ (HoldsKeys(t)' => t = Scanner)
          /\ \A u \in Threads \ {t} : pc'[u] = pc[u] /\ job'[u] = job[u]
      BY <1>1, <1>3 DEF MarkIndexed, RestTyped
    <2>3. ListsAreCurrent'
      BY <1>3, <2>1, <2>2 DEF MarkIndexed, Unraced, ListsAreCurrent
    <2>4. ResetStartsEmpty' /\ Complete'
      BY <1>3, <2>1 DEF MarkIndexed, Unraced, ResetStartsEmpty, Complete
    <2> QED
      BY <1>1, <1>3, <2>3, <2>4 DEF MarkIndexed, Unraced, Complete
  <1>4. ASSUME NEW k \in Keys, AddValue(t, k) PROVE Unraced'
    <2>1. /\ job'[t].todo = job[t].todo \ {k} /\ job'[t].body = job[t].body
          /\ \A u \in Threads \ {t} : job'[u] = job[u]
      BY <1>1, <1>4 DEF AddValue, RestTyped
    <2>2. ListsAreCurrent'
      <3> SUFFICES ASSUME NEW u \in Threads, HoldsKeys(u)
                   PROVE  /\ LoopIsFree'
                          /\ u = Scanner => scan'.keys = keys'
                          /\ pc'[u] = "add" =>
                               /\ job'[u].todo \subseteq keys'
                               /\ \A j \in keys' \ job'[u].todo : <<j, job'[u].body>> \in values'
        BY <1>4 DEF AddValue, ListsAreCurrent
      <3>1. CASE u = t
        BY <1>4, <2>1, <3>1 DEF AddValue, Unraced, ListsAreCurrent
      <3>2. CASE u # t
        BY <1>4, <2>1, <3>2 DEF AddValue, Unraced, ListsAreCurrent
      <3> QED
        BY <3>1, <3>2
    <2>3. ResetStartsEmpty' /\ Complete'
      BY <1>4 DEF AddValue, Unraced, ResetStartsEmpty, Complete
    <2> QED
      BY <1>1, <1>4, <2>2, <2>3 DEF AddValue, Unraced, Complete
  <1>5. ASSUME NEW k \in Keys, Assert(t, k) PROVE FALSE
    BY <1>5 DEF Assert, Unraced, ListsAreCurrent
  <1> QED
    BY <1>2, <1>3, <1>4, <1>5 DEF ThreadStep

LEMMA ScanKeepsUnraced ==
  ASSUME Shape, Unraced, ScanStep, ~raced'
  PROVE  Unraced'
  <1> USE DEF LoopIsFree, HoldsKeys, index, loop
  <1>1. RestTyped /\ QueriesAreRight' /\ ResetStartsEmpty' /\ Complete' /\ died' = {}
    BY ShapeParts, SameQueries
    DEF Unraced, ScanStep, ScanKeys, ScanOpen, ScanEnd, ScanNext, ResetStartsEmpty, Complete
  <1>2. /\ UNCHANGED <<keys, values, reset>>
        /\ \A u \in Threads \ {Scanner} : pc'[u] = pc[u] /\ job'[u] = job[u]
    BY <1>1 DEF ScanStep, ScanKeys, ScanOpen, ScanEnd, ScanNext, RestTyped
  <1>3. Scanner \in Threads
    BY DEF Threads
  <1>4. HoldsKeys(Scanner)' => /\ LoopIsFree /\ scan'.keys = keys
                               /\ pc'[Scanner] = "add" => job'[Scanner].todo = keys
    <2>1. CASE ScanKeys
      BY <1>1, <1>3, <2>1 DEF ScanKeys, RestTyped
    <2>2. CASE ScanOpen
      BY <1>1, <1>3, <2>2 DEF ScanOpen, RestTyped, Unraced, ListsAreCurrent
    <2>3. CASE ScanEnd
      BY <1>1, <1>3, <2>3 DEF ScanEnd, RestTyped
    <2>4. ASSUME NEW n \in Names, ScanNext(n)
          PROVE  /\ LoopIsFree /\ scan'.keys = keys
                 /\ pc'[Scanner] = "add" => job'[Scanner].todo = keys
      BY <1>1, <1>3, <2>4 DEF ScanNext, RestTyped, Unraced, ListsAreCurrent
    <2> QED
      BY <2>1, <2>2, <2>3, <2>4 DEF ScanStep
  <1>5. ListsAreCurrent'
    BY <1>2, <1>4 DEF Unraced, ListsAreCurrent
  <1> QED
    BY <1>1, <1>5 DEF Unraced, Complete

-----------------------------------------------------------------------------
(* The invariant and what follows from it. *)

LEMMA InitIInv == Init => IInv
  <1> SUFFICES ASSUME Init PROVE IInv
    OBVIOUS
  <1>1. Shape /\ ReportsTyped
    BY InitShape, ShapeParts
  <1>2. QueryKeysReturn
    BY DEF Init, QueryKeysReturn, NoQuery
  <1>3. \A t \in Threads : ~HoldsKeys(t)
    BY DEF Init, HoldsKeys
  <1>4. ListsAreCurrent /\ ResetStartsEmpty /\ Complete /\ died = {}
    BY <1>3 DEF Init, ListsAreCurrent, ResetStartsEmpty, Complete
  <1>5. QueriesAreRight
    BY DEF Init, QueriesAreRight, NoQuery, NoFiles, Listed
  <1> QED
    BY <1>1, <1>2, <1>4, <1>5 DEF Shape, IInv, Unraced, Complete

\* Once raced, always raced.
LEMMA RaceIsRemembered ==
  ASSUME Shape, [Next]_vars, ~raced'
  PROVE  ~raced
  <1>1. raced \in BOOLEAN
    BY DEF Shape, TypeOK
  <1> QED
    BY <1>1
    DEF Next, Start, CreateOnLoop, Delete, WriteMember, StartQuery,
        LoopStep, ResetEtags, ResetTables, ResetKey,
        QueryStep, CheckFile, IndexFile, CheckIndex, EndQuery,
        ThreadStep, ReadKeys, MarkIndexed, AddValue, Assert,
        ScanStep, ScanKeys, ScanOpen, ScanEnd, ScanNext, vars

LEMMA NextKeepsIInv == IInv /\ [Next]_vars => IInv'
  <1> SUFFICES ASSUME IInv, [Next]_vars PROVE IInv'
    OBVIOUS
  <1>1. Shape /\ QueryKeysReturn /\ Shape' /\ QueryKeysReturn'
    BY NextShape, NextKeysReturn DEF IInv, Shape
  <1>2. ASSUME ~raced' PROVE Unraced'
    <2>1. Unraced
      BY <1>1, <1>2, RaceIsRemembered DEF IInv
    <2>2. CASE UNCHANGED vars
      BY <2>1, <2>2, SameQueries
      DEF vars, Unraced, ListsAreCurrent, ResetStartsEmpty, LoopIsFree, HoldsKeys
    <2> QED
      BY <1>1, <1>2, <2>1, <2>2, StartKeepsUnraced, LoopKeepsUnraced, QueryKeepsUnraced,
         ThreadKeepsUnraced, ScanKeepsUnraced
      DEF Next
  <1> QED
    BY <1>1, <1>2 DEF IInv, Shape

THEOREM Invariant == Spec => []IInv
  BY InitIInv, NextKeepsIInv, PTL DEF Spec

\* Whenever the event loop is not inside reset(), the index has every value of
\* every etag it claims to have, for any number of worker threads besides the
\* scan, unless a reset has met a thread that held a list of keys.
THEOREM IndexStaysComplete == Spec => []IndexIsComplete
  <1>1. IInv => IndexIsComplete
    BY DEF IInv, IndexIsComplete, Unraced
  <1> QED
    BY <1>1, Invariant, PTL

\* With the same exception, a report that is answered from the index finds the
\* members that a look at the files would find, although it is suspended after
\* every one of them.
THEOREM QueriesStayRight == Spec => []QueriesAreRightUnlessRaced
  <1>1. IInv => QueriesAreRightUnlessRaced
    BY DEF IInv, QueriesAreRightUnlessRaced, Unraced
  <1> QED
    BY <1>1, Invariant, PTL

\* A suspended report finds the keys it was promised in every index that other
\* reports put in place meanwhile: get_values raises no AssertionError.
THEOREM PromisedKeysStay == Spec => []QueryKeysStay
  <1>1. IInv => QueryKeysStay
    BY DEF IInv, QueryKeysStay, QueryKeysReturn, KeysToCome, LoopIsFree
  <1> QED
    BY <1>1, Invariant, PTL

\* add_values raises no AssertionError, with the exception above.
THEOREM NoThreadDies == Spec => []NobodyAsserts
  <1>1. IInv => NobodyAsserts
    BY DEF IInv, NobodyAsserts, Unraced
  <1> QED
    BY <1>1, Invariant, PTL
=============================================================================

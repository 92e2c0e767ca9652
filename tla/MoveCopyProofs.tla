--------------------------- MODULE MoveCopyProofs ---------------------------
(* Proofs about MoveCopy, for every set of requests, PUTs, places and      *)
(* bodies and any number of requests.                                      *)
EXTENDS MoveCopy, TLAPS

Inside == {"clear", "again", "remove", "removeold"}

Tasks == {"idle", "read", "create"} \cup Inside

Records ==
  [move : BOOLEAN, overwrite : BOOLEAN, from : Places \cup {Absent},
   to : Places \cup {Absent}, body : Content, before : Content]

\* A request's share of IInv.
Sound(r) ==
  /\ RequestIsSound(r)
  /\ HasRead(r) => IF req[r].move /\ answer[r] \in Successes
                     THEN Holds(r, To(r), Body(r))
                     ELSE Holds(r, From(r), Body(r))
  /\ answer[r] \in Successes => /\ Holds(r, To(r), Body(r))
                                /\ req[r].move => Holds(r, From(r), Absent)
  /\ ~req[r].overwrite =>
       /\ KeepsDestination(r)
       /\ answer[r] \in Successes => req[r].before = Absent \/ To(r) \in foreign[r]

LEMMA IInvIsSound == IInv <=> TypeOK /\ \A r \in Requests : Sound(r)
BY DEF IInv, Sound, ContentSurvives, SuccessIsTrue, OverwriteIsAsked

-----------------------------------------------------------------------------
(* The helpers.                                                            *)

LEMMA SetTypes ==
  ASSUME TypeOK, NEW a, NEW p \in Places, NEW b \in Content, Set(a, p, b)
  PROVE  store' \in [Places -> Content] /\ foreign' \in [Requests -> SUBSET Places]
BY DEF TypeOK, Set

LEMMA SetEffect ==
  ASSUME TypeOK, NEW a, NEW p \in Places, NEW b \in Content, Set(a, p, b),
         NEW r \in Requests
  PROVE  /\ store'[p] = b
         /\ \A q \in Places : q # p => store'[q] = store[q]
         /\ r = a => foreign'[r] = foreign[r]
         /\ foreign[r] \subseteq foreign'[r]
         /\ r # a /\ p \in {From(r), To(r)} => p \in foreign'[r]
         /\ \A q : q \in foreign'[r] => q \in foreign[r] \/ q = p
BY DEF TypeOK, Set

LEMMA OwnSetEffect ==
  ASSUME TypeOK, NEW r \in Requests, NEW p \in Places, NEW b \in Content, Set(r, p, b)
  PROVE  /\ store'[p] = b
         /\ \A q \in Places : q # p => store'[q] = store[q]
         /\ foreign'[r] = foreign[r]
BY DEF TypeOK, Set

LEMMA FinishTypes ==
  ASSUME TypeOK, NEW r \in Requests, turn \in {Nobody, r},
         NEW result \in Successes \cup Failures, Finish(r, result)
  PROVE  /\ turn' \in Requests \cup {Nobody}
         /\ pc' \in [Requests -> Tasks]
         /\ \A s \in Requests : pc'[s] \in Inside <=> turn' = s
         /\ answer' \in [Requests -> Successes \cup Failures \cup {"none"}]
<1>1. pc' \in [Requests -> Tasks]
  BY DEF TypeOK, Finish, Tasks, Inside
<1>2. answer' \in [Requests -> Successes \cup Failures \cup {"none"}]
  BY DEF TypeOK, Finish
<1>3. ASSUME NEW s \in Requests PROVE pc'[s] \in Inside <=> turn' = s
  BY <1>3, MarkerAssumption DEF TypeOK, Finish, Inside
<1> QED
  BY <1>1, <1>2, <1>3 DEF Finish

LEMMA ContinueTypes ==
  ASSUME TypeOK, NEW r \in Requests, turn \in {Nobody, r},
         NEW there \in Inside, Continue(r, there)
  PROVE  /\ turn' \in Requests \cup {Nobody}
         /\ pc' \in [Requests -> Tasks]
         /\ \A s \in Requests : pc'[s] \in Inside <=> turn' = s
         /\ answer' \in [Requests -> Successes \cup Failures \cup {"none"}]
<1>1. pc' \in [Requests -> Tasks]
  BY DEF TypeOK, Continue, Tasks, Inside
<1>2. ASSUME NEW s \in Requests PROVE pc'[s] \in Inside <=> turn' = s
  BY <1>2, MarkerAssumption DEF TypeOK, Continue, Inside
<1> QED
  BY <1>1, <1>2 DEF Continue, TypeOK

\* What the rest of the world does to a request: nothing, or it changes a
\* place, which the history remembers.
LEMMA OthersKeepSound ==
  ASSUME TypeOK, NEW r \in Requests, Sound(r),
         req'[r] = req[r], pc'[r] = pc[r], answer'[r] = answer[r],
         \/ Unchanged
         \/ \E a \in Requests \cup {Nobody}, p \in Places, b \in Content :
              a # r /\ Set(a, p, b)
  PROVE  Sound(r)'
<1>1. CASE Unchanged
  BY <1>1 DEF Unchanged, Sound, RequestIsSound, HasRead, KeepsDestination, Holds, Body, From, To
<1>2. CASE \E a \in Requests \cup {Nobody}, p \in Places, b \in Content :
             a # r /\ Set(a, p, b)
  <2>1. ASSUME From(r) \in Places, To(r) \in Places
        PROVE  /\ foreign[r] \subseteq foreign'[r]
               /\ \A q \in {From(r), To(r)} : q \in foreign'[r] \/ store'[q] = store[q]
    <3>1. PICK a \in Requests \cup {Nobody}, p \in Places, b \in Content :
                 a # r /\ Set(a, p, b)
      BY <1>2
    <3>2. \A q \in Places : q # p => store'[q] = store[q]
      BY <3>1, SetEffect
    <3>3. foreign[r] \subseteq foreign'[r] /\ (p \in {From(r), To(r)} => p \in foreign'[r])
      BY <3>1, SetEffect
    <3> QED
      BY <2>1, <3>2, <3>3
  <2>2. ASSUME From(r) \in Places, To(r) \in Places,
               NEW q \in {From(r), To(r)}, NEW c, Holds(r, q, c)
        PROVE  Holds(r, q, c)'
    BY <2>1, <2>2 DEF Holds
  <2>3. From(r)' = From(r) /\ To(r)' = To(r) /\ Body(r)' = Body(r)
    BY DEF From, To, Body
  <2>4. pc[r] # "idle" \/ answer[r] # "none" \/ HasRead(r) =>
          From(r) \in Places /\ To(r) \in Places
    BY DEF Sound, RequestIsSound
  <2>5. RequestIsSound(r)'
    BY <2>1, <2>2, <2>3, <2>4 DEF Sound, RequestIsSound, HasRead, Holds
  <2>6. HasRead(r)' => (IF req[r].move /\ answer[r] \in Successes
                          THEN Holds(r, To(r), Body(r))'
                          ELSE Holds(r, From(r), Body(r))')
    BY <2>1, <2>2, <2>3, <2>4 DEF Sound, HasRead, Holds
  <2>7. answer[r] \in Successes \cup Failures => answer[r] # "none"
    BY DEF Successes, Failures
  <2>8. answer[r] \in Successes => /\ Holds(r, To(r), Body(r))'
                                   /\ req[r].move => Holds(r, From(r), Absent)'
    BY <2>1, <2>2, <2>3, <2>4, <2>7 DEF Sound, Holds
  <2>9. ~req[r].overwrite =>
       /\ KeepsDestination(r)'
       /\ answer[r] \in Successes => req[r].before = Absent \/ To(r) \in foreign'[r]
    BY <2>1, <2>2, <2>3, <2>4, <2>7 DEF Sound, KeepsDestination, HasRead, Holds
  <2> QED
    BY <2>3, <2>5, <2>6, <2>8, <2>9 DEF Sound, Holds
<1> QED
  BY <1>1, <1>2

-----------------------------------------------------------------------------
(* A request's own steps.                                                  *)

\* What an answer says of the others' state: a step of r leaves the other
\* requests' records alone.
LEMMA FinishFrame ==
  ASSUME TypeOK, NEW r \in Requests, NEW result, Finish(r, result)
  PROVE  /\ pc'[r] = "idle" /\ answer'[r] = result
         /\ \A s \in Requests \ {r} : pc'[s] = pc[s] /\ answer'[s] = answer[s]
BY DEF TypeOK, Finish

LEMMA ContinueFrame ==
  ASSUME TypeOK, NEW r \in Requests, NEW there, Continue(r, there)
  PROVE  /\ pc'[r] = there /\ answer'[r] = answer[r]
         /\ \A s \in Requests \ {r} : pc'[s] = pc[s] /\ answer'[s] = answer[s]
BY DEF TypeOK, Continue

LEMMA BeginTypeOK ==
  ASSUME TypeOK, NEW r \in Requests, NEW move \in BOOLEAN, NEW overwrite \in BOOLEAN,
         NEW p \in Places, NEW q \in Places, Begin(r, move, overwrite, p, q)
  PROVE  TypeOK'
<1>1. req' \in [Requests -> Records]
  BY DEF TypeOK, Begin, Content, Records
<1>2. \A s \in Requests : pc'[s] \in Inside <=> turn' = s
  BY MarkerAssumption DEF TypeOK, Begin, LoopIsFree, Inside
<1>3. ops' \in 0 .. MaxOps
  BY BoundAssumption DEF TypeOK, Begin, CountOp
<1>4. /\ store' \in [Places -> Content]
      /\ pc' \in [Requests -> Tasks]
      /\ answer' \in [Requests -> Successes \cup Failures \cup {"none"}]
      /\ foreign' \in [Requests -> SUBSET Places]
  BY DEF TypeOK, Begin, Tasks, Inside
<1> QED
  BY <1>1, <1>2, <1>3, <1>4 DEF TypeOK, Begin, Tasks, Inside, Records

LEMMA BeginSound ==
  ASSUME TypeOK, NEW r \in Requests, NEW move \in BOOLEAN, NEW overwrite \in BOOLEAN,
         NEW p \in Places, NEW q \in Places, Begin(r, move, overwrite, p, q)
  PROVE  Sound(r)'
<1>1. /\ req'[r] = [move |-> move, overwrite |-> overwrite, from |-> p, to |-> q,
                    body |-> Absent, before |-> store[q]]
      /\ pc'[r] = "read" /\ answer'[r] = "none" /\ store' = store
  BY DEF TypeOK, Begin
<1>2. p # q
  BY DEF Begin
<1> QED
  BY <1>1, <1>2 DEF Sound, RequestIsSound, HasRead, KeepsDestination, Holds, From, To, Body,
     Successes, Failures

LEMMA ReadSourceTypeOK ==
  ASSUME TypeOK, NEW r \in Requests, Sound(r), ReadSource(r)
  PROVE  TypeOK'
<1>1. turn \in {Nobody, r} /\ From(r) \in Places
  BY DEF ReadSource, LoopIsFree, Sound, RequestIsSound
<1>2. CASE store[From(r)] = Absent
  <2>1. Finish(r, "notfound") /\ UNCHANGED <<store, foreign, req, put, ops>>
    BY <1>2 DEF ReadSource, Unchanged
  <2>2. "notfound" \in Successes \cup Failures
    BY DEF Failures
  <2> QED
    BY <1>1, <2>1, <2>2, FinishTypes DEF TypeOK, Tasks, Inside
<1>3. CASE store[From(r)] # Absent
  <2>1. /\ pc' = [pc EXCEPT ![r] = "create"]
        /\ req' = [req EXCEPT ![r].body = store[From(r)]]
        /\ UNCHANGED <<turn, answer, store, foreign, put, ops>>
    BY <1>3 DEF ReadSource, Unchanged
  <2>2. req' \in [Requests -> Records]
    <3>1. req \in [Requests -> Records] /\ store[From(r)] \in Content
      BY <1>1 DEF TypeOK, Records
    <3>2. [req[r] EXCEPT !.body = store[From(r)]] \in Records
      BY <3>1 DEF Records
    <3> QED
      BY <2>1, <3>1, <3>2
  <2>3. \A s \in Requests : pc'[s] \in Inside <=> turn' = s
    BY <2>1, MarkerAssumption DEF TypeOK, ReadSource, LoopIsFree, Inside
  <2>4. pc' \in [Requests -> Tasks]
    BY <2>1 DEF TypeOK, Tasks, Inside
  <2> QED
    BY <2>1, <2>2, <2>3, <2>4 DEF TypeOK, Tasks, Inside, Records
<1> QED
  BY <1>2, <1>3

LEMMA ReadSourceSound ==
  ASSUME TypeOK, NEW r \in Requests, Sound(r), ReadSource(r)
  PROVE  Sound(r)'
<1>1. pc[r] = "read" /\ answer[r] = "none" /\ ~HasRead(r)
  BY DEF ReadSource, Sound, RequestIsSound, HasRead
<1>2. store' = store /\ foreign' = foreign
  BY DEF ReadSource, Unchanged
<1>3. CASE store[From(r)] = Absent
  <2>1. pc'[r] = "idle" /\ answer'[r] = "notfound" /\ req'[r] = req[r]
    BY <1>3, FinishFrame DEF ReadSource
  <2> QED
    BY <1>1, <1>2, <2>1 DEF Sound, RequestIsSound, HasRead, KeepsDestination, Holds, From, To,
       Body, Successes, Failures
<1>4. CASE store[From(r)] # Absent
  <2>1. pc'[r] = "create" /\ answer'[r] = "none"
        /\ req'[r] = [req[r] EXCEPT !.body = store[From(r)]]
    BY <1>1, <1>4 DEF ReadSource, TypeOK
  <2>2. /\ From(r)' = From(r) /\ To(r)' = To(r) /\ Body(r)' = store[From(r)]
        /\ req'[r].overwrite = req[r].overwrite /\ req'[r].before = req[r].before
        /\ req'[r].move = req[r].move
    BY <2>1 DEF TypeOK, From, To, Body
  <2> QED
    BY <1>1, <1>2, <1>4, <2>1, <2>2 DEF Sound, RequestIsSound, HasRead, KeepsDestination, Holds,
       Successes, Failures
<1> QED
  BY <1>3, <1>4

\* create_member on a free name, for the first call and the second.
LEMMA ImportTypeOK ==
  ASSUME TypeOK, NEW r \in Requests, Sound(r), turn \in {Nobody, r},
         pc[r] # "idle", NEW existed \in BOOLEAN, Import(r, existed),
         UNCHANGED <<req, put, ops>>
  PROVE  TypeOK'
<1>1. To(r) \in Places /\ Body(r) \in Content
  BY DEF TypeOK, Sound, RequestIsSound, Body
<1>2. CASE \E result \in Failures : Finish(r, result) /\ Unchanged
  <2>1. PICK result \in Failures : Finish(r, result) /\ Unchanged
    BY <1>2
  <2> QED
    BY <2>1, FinishTypes DEF TypeOK, Unchanged, Tasks, Inside
<1>3. CASE Set(r, To(r), Body(r)) /\ \E result \in Successes : Finish(r, result)
  <2>1. PICK result \in Successes : Finish(r, result)
    BY <1>3
  <2> QED
    BY <1>1, <1>3, <2>1, SetTypes, FinishTypes DEF TypeOK, Tasks, Inside
<1>4. CASE Set(r, To(r), Body(r)) /\ \E there \in Inside : Continue(r, there)
  <2>1. PICK there \in Inside : Continue(r, there)
    BY <1>4
  <2> QED
    BY <1>1, <1>4, <2>1, SetTypes, ContinueTypes DEF TypeOK, Tasks, Inside
<1> QED
  BY <1>2, <1>3, <1>4 DEF Import, Failures, Successes, Success, Inside

LEMMA ImportSound ==
  ASSUME TypeOK, NEW r \in Requests, Sound(r), pc[r] \in {"create", "again"},
         store[To(r)] = Absent, Import(r, pc[r] = "again"), UNCHANGED req
  PROVE  Sound(r)'
<1>1. /\ answer[r] = "none" /\ HasRead(r)
      /\ From(r) \in Places /\ To(r) \in Places /\ From(r) # To(r)
      /\ Holds(r, From(r), Body(r))
      /\ ~req[r].overwrite => /\ pc[r] = "create"
                              /\ req[r].before = Absent \/ To(r) \in foreign[r]
  BY DEF Sound, RequestIsSound, Successes, Holds
<1>2. From(r)' = From(r) /\ To(r)' = To(r) /\ Body(r)' = Body(r) /\ HasRead(r)'
  BY <1>1 DEF From, To, Body, HasRead
<1>3. CASE \E result \in Failures : Finish(r, result) /\ Unchanged
  <2>1. PICK result \in Failures : Finish(r, result) /\ Unchanged
    BY <1>3
  <2>2. pc'[r] = "idle" /\ answer'[r] = result /\ store' = store /\ foreign' = foreign
    BY <2>1, FinishFrame DEF Unchanged
  <2>3. answer'[r] # "none" /\ answer'[r] \notin Successes
    BY <2>2 DEF Failures, Successes
  <2> QED
    BY <1>1, <1>2, <2>2, <2>3 DEF Sound, RequestIsSound, KeepsDestination, Holds
<1>4. ASSUME Set(r, To(r), Body(r))
      PROVE  /\ Holds(r, To(r), Body(r))' /\ Holds(r, From(r), Body(r))'
             /\ foreign'[r] = foreign[r]
  <2>1. Body(r) \in Content
    BY DEF TypeOK, Body
  <2>2. /\ store'[To(r)] = Body(r) /\ store'[From(r)] = store[From(r)]
        /\ foreign'[r] = foreign[r]
    BY <1>1, <1>4, <2>1, OwnSetEffect
  <2> QED
    BY <1>1, <1>2, <2>2 DEF Holds
<1>5. CASE /\ Set(r, To(r), Body(r)) /\ ~req[r].move
           /\ \E result \in Successes : Finish(r, result)
  <2>1. pc'[r] = "idle" /\ answer'[r] \in Successes
    BY <1>5, FinishFrame
  <2>2. answer'[r] # "none" /\ answer'[r] \notin Failures
    BY <2>1 DEF Failures, Successes
  <2> QED
    BY <1>1, <1>2, <1>4, <1>5, <2>1, <2>2 DEF Sound, RequestIsSound, KeepsDestination, Holds
<1>6. CASE /\ Set(r, To(r), Body(r)) /\ req[r].move
           /\ Continue(r, IF pc[r] = "again" THEN "removeold" ELSE "remove")
  <2>1. /\ pc'[r] = (IF pc[r] = "again" THEN "removeold" ELSE "remove")
        /\ answer'[r] = "none"
    BY <1>1, <1>6, ContinueFrame
  <2>2. answer'[r] \notin Failures /\ answer'[r] \notin Successes
    BY <2>1 DEF Failures, Successes
  <2> QED
    BY <1>1, <1>2, <1>4, <1>6, <2>1, <2>2 DEF Sound, RequestIsSound, KeepsDestination, Holds
<1> QED
  BY <1>3, <1>5, <1>6 DEF Import, Failures, Successes, Success

LEMMA CreateKeeps ==
  ASSUME TypeOK, NEW r \in Requests, Sound(r), Create(r)
  PROVE  TypeOK' /\ Sound(r)'
<1>1. turn = Nobody /\ pc[r] = "create" /\ UNCHANGED <<req, put, ops>>
  BY DEF Create, LoopIsFree
<1>2. CASE store[To(r)] # Absent /\ ~req[r].overwrite /\ Finish(r, "exists") /\ Unchanged
  <2>1. TypeOK'
    BY <1>1, <1>2, FinishTypes DEF TypeOK, Unchanged, Tasks, Inside, Failures
  <2>2. pc'[r] = "idle" /\ answer'[r] = "exists" /\ store' = store /\ foreign' = foreign
    BY <1>2, FinishFrame DEF Unchanged
  <2> QED
    BY <1>1, <2>1, <2>2 DEF Sound, RequestIsSound, KeepsDestination, HasRead, Holds, From, To,
       Body, Successes, Failures
<1>3. CASE store[To(r)] # Absent /\ req[r].overwrite /\ Continue(r, "clear") /\ Unchanged
  <2>1. TypeOK'
    BY <1>1, <1>3, ContinueTypes DEF TypeOK, Unchanged, Tasks, Inside
  <2>2. /\ pc'[r] = "clear" /\ answer'[r] = answer[r]
        /\ store' = store /\ foreign' = foreign
    BY <1>3, ContinueFrame DEF Unchanged
  <2> QED
    BY <1>1, <1>3, <2>1, <2>2 DEF Sound, RequestIsSound, HasRead, Holds, From, To, Body
<1>4. CASE store[To(r)] = Absent /\ Import(r, FALSE)
  <2>1. (pc[r] = "again") = FALSE
    BY <1>1
  <2>2. Import(r, pc[r] = "again")
    BY <1>4, <2>1
  <2> QED
    BY <1>1, <1>4, <2>2, ImportTypeOK, ImportSound
<1> QED
  BY <1>2, <1>3, <1>4 DEF Create

LEMMA ClearDestinationKeeps ==
  ASSUME TypeOK, NEW r \in Requests, Sound(r), ClearDestination(r)
  PROVE  TypeOK' /\ Sound(r)'
<1>1. /\ turn = r /\ pc[r] = "clear" /\ answer[r] = "none" /\ req[r].overwrite
      /\ UNCHANGED <<req, put, ops>>
  BY DEF ClearDestination, TypeOK, Sound, RequestIsSound
<1>2. /\ HasRead(r) /\ From(r) \in Places /\ To(r) \in Places /\ From(r) # To(r)
      /\ Holds(r, From(r), Body(r))
  BY <1>1 DEF Sound, RequestIsSound, Successes
<1>3. From(r)' = From(r) /\ To(r)' = To(r) /\ Body(r)' = Body(r) /\ HasRead(r)'
  BY <1>1, <1>2 DEF From, To, Body, HasRead
<1>4. CASE Set(r, To(r), Absent) /\ Continue(r, "again")
  <2>1. Absent \in Content
    BY DEF Content
  <2>2. TypeOK'
    BY <1>1, <1>2, <1>4, <2>1, SetTypes, ContinueTypes DEF TypeOK, Tasks, Inside
  <2>3. store'[From(r)] = store[From(r)] /\ foreign'[r] = foreign[r]
    BY <1>2, <1>4, <2>1, OwnSetEffect
  <2>4. pc'[r] = "again" /\ answer'[r] = "none"
    BY <1>1, <1>4, ContinueFrame
  <2> QED
    BY <1>1, <1>2, <1>3, <2>2, <2>3, <2>4 DEF Sound, RequestIsSound, Holds, Successes
<1>5. CASE Finish(r, "error") /\ Unchanged
  <2>1. TypeOK'
    BY <1>1, <1>5, FinishTypes DEF TypeOK, Unchanged, Tasks, Inside, Failures
  <2>2. pc'[r] = "idle" /\ answer'[r] = "error" /\ store' = store /\ foreign' = foreign
    BY <1>5, FinishFrame DEF Unchanged
  <2> QED
    BY <1>1, <1>2, <1>3, <2>1, <2>2 DEF Sound, RequestIsSound, Holds, Successes
<1> QED
  BY <1>4, <1>5 DEF ClearDestination

LEMMA CreateAgainKeeps ==
  ASSUME TypeOK, NEW r \in Requests, Sound(r), CreateAgain(r)
  PROVE  TypeOK' /\ Sound(r)'
<1>1. /\ turn = r /\ pc[r] = "again" /\ answer[r] = "none" /\ req[r].overwrite
      /\ UNCHANGED <<req, put, ops>>
  BY DEF CreateAgain, TypeOK, Sound, RequestIsSound
<1>2. CASE Finish(r, "exists") /\ Unchanged
  <2>1. TypeOK'
    BY <1>1, <1>2, FinishTypes DEF TypeOK, Unchanged, Tasks, Inside, Failures
  <2>2. pc'[r] = "idle" /\ answer'[r] = "exists" /\ store' = store /\ foreign' = foreign
    BY <1>2, FinishFrame DEF Unchanged
  <2> QED
    BY <1>1, <2>1, <2>2 DEF Sound, RequestIsSound, HasRead, Holds, From, To, Body, Successes
<1>3. CASE store[To(r)] = Absent /\ Import(r, TRUE)
  <2>1. (pc[r] = "again") = TRUE
    BY <1>1
  <2>2. Import(r, pc[r] = "again")
    BY <1>3, <2>1
  <2> QED
    BY <1>1, <1>3, <2>2, ImportTypeOK, ImportSound
<1> QED
  BY <1>2, <1>3 DEF CreateAgain

LEMMA RemoveSourceKeeps ==
  ASSUME TypeOK, NEW r \in Requests, Sound(r), RemoveSource(r)
  PROVE  TypeOK' /\ Sound(r)'
<1>1. /\ turn = r /\ pc[r] \in {"remove", "removeold"} /\ answer[r] = "none" /\ req[r].move
      /\ UNCHANGED <<req, put, ops>>
  BY DEF RemoveSource, TypeOK, Sound, RequestIsSound
<1>2. /\ HasRead(r) /\ From(r) \in Places /\ To(r) \in Places /\ From(r) # To(r)
      /\ Holds(r, From(r), Body(r)) /\ Holds(r, To(r), Body(r))
      /\ ~req[r].overwrite => req[r].before = Absent \/ To(r) \in foreign[r]
  BY <1>1 DEF Sound, RequestIsSound, Successes
<1>3. From(r)' = From(r) /\ To(r)' = To(r) /\ Body(r)' = Body(r) /\ HasRead(r)'
  BY <1>1, <1>2 DEF From, To, Body, HasRead
<1>4. CASE \E result \in Failures : Finish(r, result) /\ Unchanged
  <2>1. PICK result \in Failures : Finish(r, result) /\ Unchanged
    BY <1>4
  <2>2. TypeOK'
    BY <1>1, <2>1, FinishTypes DEF TypeOK, Unchanged, Tasks, Inside
  <2>3. pc'[r] = "idle" /\ answer'[r] = result /\ store' = store /\ foreign' = foreign
    BY <2>1, FinishFrame DEF Unchanged
  <2>4. answer'[r] # "none" /\ answer'[r] \notin Successes
    BY <2>3 DEF Failures, Successes
  <2>5. Holds(r, To(r), Body(r))' /\ Holds(r, From(r), Body(r))'
    BY <1>2, <1>3, <2>3 DEF Holds
  <2>6. ~req[r].overwrite => KeepsDestination(r)'
    BY <1>2, <1>3, <2>3, <2>5 DEF KeepsDestination, Holds
  <2> QED
    BY <1>1, <1>2, <1>3, <2>2, <2>3, <2>4, <2>5, <2>6 DEF Sound, RequestIsSound
<1>5. CASE /\ Set(r, From(r), Absent)
           /\ \E result \in Successes : Finish(r, result)
  <2>1. PICK result \in Successes : Finish(r, result)
    BY <1>5
  <2>2. Absent \in Content
    BY DEF Content
  <2>3. TypeOK'
    BY <1>1, <1>2, <1>5, <2>1, <2>2, SetTypes, FinishTypes DEF TypeOK, Tasks, Inside
  <2>4. /\ store'[From(r)] = Absent /\ store'[To(r)] = store[To(r)]
        /\ foreign'[r] = foreign[r]
    BY <1>2, <1>5, <2>2, OwnSetEffect
  <2>5. pc'[r] = "idle" /\ answer'[r] = result
    BY <2>1, FinishFrame
  <2>6. answer'[r] # "none" /\ answer'[r] \notin Failures
    BY <2>5 DEF Failures, Successes
  <2>7. Holds(r, To(r), Body(r))' /\ Holds(r, From(r), Absent)'
    BY <1>2, <1>3, <2>4 DEF Holds
  <2> QED
    BY <1>1, <1>2, <1>3, <2>3, <2>4, <2>5, <2>6, <2>7 DEF Sound, RequestIsSound,
       KeepsDestination
<1> QED
  BY <1>4, <1>5 DEF RemoveSource, Failures, Successes, Success

\* A step of r shows in the others' share only through the store.
LEMMA ImportFrame ==
  ASSUME TypeOK, NEW r \in Requests, Sound(r), pc[r] # "idle",
         NEW existed \in BOOLEAN, Import(r, existed), NEW s \in Requests \ {r}
  PROVE  /\ pc'[s] = pc[s] /\ answer'[s] = answer[s]
         /\ \/ Unchanged
            \/ \E a \in Requests \cup {Nobody}, p \in Places, b \in Content :
                 a # s /\ Set(a, p, b)
<1>1. To(r) \in Places /\ Body(r) \in Content
  BY DEF TypeOK, Sound, RequestIsSound, Body
<1>2. Unchanged \/ Set(r, To(r), Body(r))
  BY DEF Import
<1>3. (\E result : Finish(r, result)) \/ (\E there : Continue(r, there))
  BY DEF Import
<1> QED
  BY <1>1, <1>2, <1>3, FinishFrame, ContinueFrame

LEMMA StepFrame ==
  ASSUME TypeOK, NEW r \in Requests, Sound(r), Step(r), NEW s \in Requests \ {r}
  PROVE  /\ req'[s] = req[s] /\ pc'[s] = pc[s] /\ answer'[s] = answer[s]
         /\ \/ Unchanged
            \/ \E a \in Requests \cup {Nobody}, p \in Places, b \in Content :
                 a # s /\ Set(a, p, b)
<1>1. Absent \in Content
  BY DEF Content
<1>2. CASE ReadSource(r)
  BY <1>2, FinishFrame DEF ReadSource, TypeOK
<1>3. CASE Create(r)
  <2>1. pc[r] # "idle" /\ req' = req
    BY <1>3 DEF Create
  <2>2. CASE Finish(r, "exists") /\ Unchanged
    BY <2>1, <2>2, FinishFrame
  <2>3. CASE Continue(r, "clear") /\ Unchanged
    BY <2>1, <2>3, ContinueFrame
  <2>4. CASE Import(r, FALSE)
    BY <2>1, <2>4, ImportFrame
  <2> QED
    BY <1>3, <2>2, <2>3, <2>4 DEF Create
<1>4. CASE ClearDestination(r)
  <2>1. To(r) \in Places /\ req' = req
    BY <1>4 DEF ClearDestination, Sound, RequestIsSound
  <2>2. CASE Set(r, To(r), Absent) /\ Continue(r, "again")
    BY <1>1, <2>1, <2>2, ContinueFrame
  <2>3. CASE Finish(r, "error") /\ Unchanged
    BY <2>1, <2>3, FinishFrame
  <2> QED
    BY <1>4, <2>2, <2>3 DEF ClearDestination
<1>5. CASE CreateAgain(r)
  <2>1. pc[r] # "idle" /\ req' = req
    BY <1>5 DEF CreateAgain
  <2>2. CASE Finish(r, "exists") /\ Unchanged
    BY <2>1, <2>2, FinishFrame
  <2>3. CASE Import(r, TRUE)
    BY <2>1, <2>3, ImportFrame
  <2> QED
    BY <1>5, <2>2, <2>3 DEF CreateAgain
<1>6. CASE RemoveSource(r)
  <2>1. From(r) \in Places
    BY <1>6 DEF RemoveSource, Sound, RequestIsSound
  <2> QED
    BY <1>1, <1>6, <2>1, FinishFrame DEF RemoveSource
<1> QED
  BY <1>2, <1>3, <1>4, <1>5, <1>6 DEF Step

-----------------------------------------------------------------------------
(* The other requests.                                                     *)

LEMMA BeginPutTypeOK ==
  ASSUME TypeOK, NEW w \in Puts, NEW p \in Places, NEW b \in Bodies, BeginPut(w, p, b)
  PROVE  TypeOK'
<1>1. ops' \in 0 .. MaxOps
  BY BoundAssumption DEF TypeOK, BeginPut, CountOp
<1>2. put' \in [Puts -> [to : Places, body : Bodies] \cup {NoPut}]
  BY DEF TypeOK, BeginPut, Content
<1> QED
  BY <1>1, <1>2 DEF TypeOK, BeginPut

\* A change of one member by nobody's request.
LEMMA EndPutChange ==
  ASSUME TypeOK, NEW w \in Puts, EndPut(w)
  PROVE  /\ TypeOK'
         /\ UNCHANGED <<req, pc, answer>>
         /\ \/ Unchanged
            \/ \E p \in Places, b \in Content : Set(Nobody, p, b)
<1>1. put[w].to \in Places /\ put[w].body \in Content
  BY DEF TypeOK, EndPut, Content
<1>2. put' \in [Puts -> [to : Places, body : Bodies] \cup {NoPut}]
  BY DEF TypeOK, EndPut
<1>3. UNCHANGED <<turn, pc, req, answer, ops>>
  BY DEF EndPut
<1>4. Unchanged \/ \E p \in Places, b \in Content : Set(Nobody, p, b)
  BY <1>1 DEF EndPut
<1>5. store' \in [Places -> Content] /\ foreign' \in [Requests -> SUBSET Places]
  BY <1>4, SetTypes DEF TypeOK, Unchanged
<1> QED
  BY <1>2, <1>3, <1>4, <1>5 DEF TypeOK

LEMMA AtOnceChange ==
  ASSUME TypeOK, NEW p \in Places,
         Delete(p) \/ \E b \in Bodies : PutNew(p, b)
  PROVE  /\ TypeOK'
         /\ UNCHANGED <<req, pc, answer>>
         /\ \E b \in Content : Set(Nobody, p, b)
<1>1. PICK b \in Content : Set(Nobody, p, b)
  BY DEF Delete, PutNew, Content
<1>2. ops' \in 0 .. MaxOps
  BY BoundAssumption DEF TypeOK, Delete, PutNew, CountOp
<1>3. UNCHANGED <<req, pc, answer, turn, put>>
  BY DEF Delete, PutNew
<1> QED
  BY <1>1, <1>2, <1>3, SetTypes DEF TypeOK

-----------------------------------------------------------------------------
LEMMA InitIInv ==
  ASSUME Init
  PROVE  IInv
<1>1. TypeOK
  BY MarkerAssumption, BoundAssumption DEF Init, TypeOK, Content, NoPut
<1>2. ASSUME NEW r \in Requests PROVE Sound(r)
  BY <1>2 DEF Init, Sound, RequestIsSound, HasRead, KeepsDestination, Body, Successes, Failures
<1> QED
  BY <1>1, <1>2, IInvIsSound

LEMMA NextIInv ==
  ASSUME IInv, [Next]_vars
  PROVE  IInv'
<1>0. TypeOK /\ \A r \in Requests : Sound(r)
  BY IInvIsSound
<1>1. SUFFICES TypeOK' /\ \A s \in Requests : Sound(s)'
  BY DEF IInv, Sound, ContentSurvives, SuccessIsTrue, OverwriteIsAsked
<1>2. ASSUME NEW r \in Requests, NEW move \in BOOLEAN, NEW overwrite \in BOOLEAN,
             NEW p \in Places, NEW q \in Places, Begin(r, move, overwrite, p, q)
      PROVE  TypeOK' /\ \A s \in Requests : Sound(s)'
  <2>1. TypeOK' /\ Sound(r)'
    BY <1>0, <1>2, BeginTypeOK, BeginSound
  <2>2. ASSUME NEW s \in Requests \ {r} PROVE Sound(s)'
    <3>1. req'[s] = req[s] /\ pc'[s] = pc[s] /\ answer'[s] = answer[s]
      BY <1>0, <1>2, <2>2 DEF Begin, TypeOK
    <3>2. store' = store /\ foreign'[s] = foreign[s]
      BY <1>0, <1>2, <2>2 DEF Begin, TypeOK
    <3> QED
      BY <1>0, <2>2, <3>1, <3>2 DEF Sound, RequestIsSound, HasRead, KeepsDestination, Holds,
         Body, From, To
  <2> QED
    BY <2>1, <2>2
<1>3. ASSUME NEW r \in Requests, Step(r)
      PROVE  TypeOK' /\ \A s \in Requests : Sound(s)'
  <2>1. TypeOK' /\ Sound(r)'
    BY <1>0, <1>3, ReadSourceTypeOK, ReadSourceSound, CreateKeeps, ClearDestinationKeeps,
       CreateAgainKeeps, RemoveSourceKeeps DEF Step
  <2>2. ASSUME NEW s \in Requests \ {r} PROVE Sound(s)'
    BY <1>0, <1>3, <2>2, StepFrame, OthersKeepSound
  <2> QED
    BY <2>1, <2>2
<1>4. ASSUME NEW w \in Puts, NEW p \in Places, NEW b \in Bodies, BeginPut(w, p, b)
      PROVE  TypeOK' /\ \A s \in Requests : Sound(s)'
  <2>1. UNCHANGED <<req, pc, answer, store, foreign>>
    BY <1>4 DEF BeginPut
  <2> QED
    BY <1>0, <1>4, <2>1, BeginPutTypeOK, OthersKeepSound DEF Unchanged
<1>5. ASSUME UNCHANGED <<req, pc, answer>>, TypeOK',
             \/ Unchanged
             \/ \E p \in Places, b \in Content : Set(Nobody, p, b)
      PROVE  TypeOK' /\ \A s \in Requests : Sound(s)'
  BY <1>0, <1>5, OthersKeepSound, MarkerAssumption
<1>6. CASE UNCHANGED vars
  <2>1. TypeOK'
    BY <1>0, <1>6 DEF vars, TypeOK
  <2> QED
    BY <1>5, <1>6, <2>1 DEF vars, Unchanged
<1> QED
  <2>1. CASE \E w \in Puts : EndPut(w)
    BY <1>0, <1>5, <2>1, EndPutChange
  <2>2. CASE \E p \in Places : Delete(p) \/ \E b \in Bodies : PutNew(p, b)
    BY <1>0, <1>5, <2>2, AtOnceChange
  <2> QED
    BY <1>2, <1>3, <1>4, <1>6, <2>1, <2>2 DEF Next, BeginMove, BeginCopy

\* The inductive invariant holds in every reachable state: every request is
\* where its handler can be, with the copies that this place implies.
THEOREM Invariant == Spec => []IInv
<1>1. Init => IInv
  BY InitIInv
<1>2. IInv /\ [Next]_vars => IInv'
  BY NextIInv
<1> QED
  BY <1>1, <1>2, PTL DEF Spec

\* Every variable keeps its shape, and only the request whose turn it is stands
\* between two store calls (the handlers run on one event loop).
THEOREM TypeCorrect == Spec => []TypeOK
<1>1. IInv => TypeOK
  BY DEF IInv
<1> QED
  BY <1>1, Invariant, PTL

\* move_member and copy_member never lose what they have read, whichever of
\* their calls fails and whoever writes beside them.
THEOREM NothingIsLost == Spec => []ContentSurvives
<1>1. IInv => ContentSurvives
  BY DEF IInv
<1> QED
  BY <1>1, Invariant, PTL

\* 201 and 204 of MOVE and COPY tell the truth about both places.
THEOREM AnswersAreTrue == Spec => []SuccessIsTrue
<1>1. IInv => SuccessIsTrue
  BY DEF IInv
<1> QED
  BY <1>1, Invariant, PTL

\* "Overwrite: F" never costs the destination its content.
THEOREM NothingIsOverwritten == Spec => []OverwriteIsAsked
<1>1. IInv => OverwriteIsAsked
  BY DEF IInv
<1> QED
  BY <1>1, Invariant, PTL

\* A step that takes the source of a request away and gives the loop back is
\* that request's own.
LEMMA TakerIsOwner ==
  ASSUME IInv, [Next]_vars, NEW r \in Requests,
         pc[r] \in {"remove", "removeold"}, turn' # turn
  PROVE  RemoveSource(r)
<1>1. turn = r /\ turn # Nobody
  BY MarkerAssumption DEF IInv, TypeOK
<1>2. PICK s \in Requests : Step(s)
  BY <1>1 DEF Next, vars, BeginMove, BeginCopy, Begin, LoopIsFree, EndPut, BeginPut, Delete, PutNew
<1>3. pc[s] \in Inside /\ ~ReadSource(s) /\ ~Create(s)
  BY <1>1, <1>2 DEF Step, ReadSource, Create, LoopIsFree, ClearDestination, CreateAgain,
     RemoveSource, Inside
<1>4. s = r
  BY <1>1, <1>3 DEF IInv, TypeOK, Inside
<1> QED
  BY <1>2, <1>3, <1>4 DEF Step, ClearDestination, CreateAgain

\* A MOVE removes only the version of its source that it has copied
\* (delete_member is called with the etag of what was read).
THEOREM RemovesItsCopy == Spec => TakesWhatItCopied
<1>1. ASSUME IInv, [Next]_vars, NEW r \in Requests, pc[r] \in {"remove", "removeold"},
             store'[From(r)] # store[From(r)], turn' # turn
      PROVE  store[From(r)] = Body(r)
  BY <1>1, TakerIsOwner DEF RemoveSource, Unchanged
<1>2. IInv /\ [Next]_vars =>
        [\A r \in Requests :
           (pc[r] \in {"remove", "removeold"} /\ store'[From(r)] # store[From(r)]
              /\ turn' # turn)
             => store[From(r)] = Body(r)]_vars
  BY <1>1
<1> QED
  BY <1>2, Invariant, PTL DEF Spec, TakesWhatItCopied
=============================================================================

------------------------------ MODULE MoveCopy ------------------------------
(***************************************************************************)
(* MOVE and COPY of members (MoveMethod, CopyMethod, Collection.move_member *)
(* and copy_member in xandikos/webdav.py) over the collections of          *)
(* xandikos/web.py.                                                        *)
(*                                                                         *)
(* The handlers run on the event loop.  They give it away once, while a    *)
(* thread reads the source; from then on they are a chain of calls to the  *)
(* two stores in one turn of the loop.  Only the worker threads of PUT     *)
(* (ObjectResource.set_body) get in between.  Each call is atomic here:    *)
(* TreeGitStore has its inside.                                            *)
(***************************************************************************)
EXTENDS Naturals

CONSTANTS
  Requests,     \* MOVE and COPY requests that run at a time
  Puts,         \* PUTs on existing members that run at a time
  Collections,
  Names,
  Bodies,       \* contents, each its own etag
  UidOf,        \* UidOf[b]: the UID in b, or NoUid
  NoUid,
  Absent,
  Nobody,       \* no request is in a turn of the loop
  MaxOps        \* bound on the requests of all kinds

Places == Collections \X Names

ASSUME MarkerAssumption == Absent \notin Bodies /\ Nobody \notin Requests
ASSUME BoundAssumption == MaxOps \in Nat

VARIABLES
  store,   \* [Places -> body or Absent]
  turn,    \* the request that has the event loop between two store calls
  pc,      \* where each request is
  req,     \* [move, overwrite, from, to, body, before] of each request:
           \* body is what it has read, before what the destination had
  answer,  \* what each request was answered
  put,     \* [to, body] of each PUT, or NoPut
  foreign, \* history: of its two places, those that others have changed
  ops

vars == <<store, turn, pc, req, answer, put, foreign, ops>>

Content == Bodies \cup {Absent}

Successes == {"created", "replaced"}
\* 404, 412 (exists), 412 (no-uid-conflict), 423, 507 and 500
Failures == {"notfound", "exists", "conflict", "locked", "outofspace", "error"}

From(r) == req[r].from
To(r) == req[r].to
Body(r) == req[r].body

\* Another member of p's collection in s has b's UID (_check_duplicate).
Clash(s, p, b) ==
  /\ UidOf[b] # NoUid
  /\ \E q \in Places \ {p} : q[1] = p[1] /\ s[q] # Absent /\ UidOf[s[q]] = UidOf[b]

NoPut == [to |-> Absent, body |-> Absent]

Init ==
  /\ store \in {s \in [Places -> Content] :
                  \A p \in Places : s[p] # Absent => ~Clash(s, p, s[p])}
  /\ turn = Nobody
  /\ pc = [r \in Requests |-> "idle"]
  /\ req = [r \in Requests |-> [move |-> FALSE, overwrite |-> FALSE, from |-> Absent,
                                to |-> Absent, body |-> Absent, before |-> Absent]]
  /\ put = [w \in Puts |-> NoPut]
  /\ answer = [r \in Requests |-> "none"]
  /\ foreign = [r \in Requests |-> {}]
  /\ ops = 0

LoopIsFree == turn = Nobody

CountOp == ops < MaxOps /\ ops' = ops + 1

\* p gets content b by the hand of a request or (Nobody) of something else.
Set(a, p, b) ==
  /\ store' = [store EXCEPT ![p] = b]
  /\ foreign' = [r \in Requests |->
       IF r # a /\ p \in {From(r), To(r)} THEN foreign[r] \cup {p} ELSE foreign[r]]

Unchanged == UNCHANGED <<store, foreign>>

Finish(r, result) ==
  /\ pc' = [pc EXCEPT ![r] = "idle"]
  /\ turn' = Nobody
  /\ answer' = [answer EXCEPT ![r] = result]

Continue(r, there) ==
  /\ pc' = [pc EXCEPT ![r] = there]
  /\ turn' = r
  /\ UNCHANGED answer

-----------------------------------------------------------------------------
(* MOVE and COPY                                                           *)

\* The handler: the source exists and is not the destination.
Begin(r, move, overwrite, p, q) ==
  /\ LoopIsFree
  /\ CountOp
  /\ pc[r] = "idle"
  /\ p # q /\ store[p] # Absent
  /\ pc' = [pc EXCEPT ![r] = "read"]
  /\ req' = [req EXCEPT ![r] = [move |-> move, overwrite |-> overwrite, from |-> p, to |-> q,
                                body |-> Absent, before |-> store[q]]]
  /\ answer' = [answer EXCEPT ![r] = "none"]
  /\ foreign' = [foreign EXCEPT ![r] = {}]
  /\ UNCHANGED <<store, turn, put>>

BeginMove(r, overwrite, p, q) == Begin(r, TRUE, overwrite, p, q)
BeginCopy(r, overwrite, p, q) == Begin(r, FALSE, overwrite, p, q)

\* get_member, get_etag and get_body; then the loop runs others.
ReadSource(r) ==
  /\ LoopIsFree
  /\ pc[r] = "read"
  /\ \/ /\ store[From(r)] = Absent
        /\ Finish(r, "notfound")
        /\ UNCHANGED req
     \/ /\ store[From(r)] # Absent
        /\ pc' = [pc EXCEPT ![r] = "create"]
        /\ req' = [req EXCEPT ![r].body = store[From(r)]]
        /\ UNCHANGED <<turn, answer>>
  /\ UNCHANGED <<put, ops>> /\ Unchanged

Success(existed) == IF existed THEN "replaced" ELSE "created"

\* create_member on a name that is free.
Import(r, existed) ==
  \/ /\ Clash(store, To(r), Body(r))
     /\ Finish(r, "conflict")
     /\ Unchanged
  \/ /\ ~Clash(store, To(r), Body(r))
     /\ \E failure \in {"locked", "outofspace"} : Finish(r, failure)
     /\ Unchanged
  \/ /\ ~Clash(store, To(r), Body(r))
     /\ Set(r, To(r), Body(r))
     /\ IF req[r].move THEN Continue(r, IF existed THEN "removeold" ELSE "remove")
                       ELSE Finish(r, Success(existed))

\* Mutant of Create: the Overwrite header is not looked at.
CreateOverwriting(r) ==
  /\ LoopIsFree
  /\ pc[r] = "create"
  /\ \/ /\ store[To(r)] # Absent
        /\ Continue(r, "clear")
        /\ Unchanged
     \/ /\ store[To(r)] = Absent
        /\ Import(r, FALSE)
  /\ UNCHANGED <<req, put, ops>>

\* The first create_member.
Create(r) ==
  /\ LoopIsFree
  /\ pc[r] = "create"
  /\ \/ /\ store[To(r)] # Absent /\ ~req[r].overwrite
        /\ Finish(r, "exists")
        /\ Unchanged
     \/ /\ store[To(r)] # Absent /\ req[r].overwrite
        /\ Continue(r, "clear")
        /\ Unchanged
     \/ /\ store[To(r)] = Absent
        /\ Import(r, FALSE)
  /\ UNCHANGED <<req, put, ops>>

\* Mutant of ClearDestination: the source goes with the destination.
ClearBoth(r) ==
  /\ pc[r] = "clear"
  /\ store' = [store EXCEPT ![To(r)] = Absent,
                           ![From(r)] = IF req[r].move THEN Absent ELSE @]
  /\ Continue(r, "again")
  /\ UNCHANGED <<req, put, foreign, ops>>

\* Mutant of ClearDestination: the loop runs others before the next call.
ClearDestinationAwaiting(r) ==
  /\ pc[r] = "clear"
  /\ Set(r, To(r), Absent)
  /\ pc' = [pc EXCEPT ![r] = "again"]
  /\ turn' = Nobody
  /\ UNCHANGED <<req, answer, put, ops>>

\* FileExistsError: destination.delete_member, without an etag.  LockedError
\* and OSError are not caught on this way.
ClearDestination(r) ==
  /\ pc[r] = "clear"
  /\ \/ Set(r, To(r), Absent) /\ Continue(r, "again")
     \/ Finish(r, "error") /\ Unchanged
  /\ UNCHANGED <<req, put, ops>>

\* The second create_member; a PUT may have written the member again.
CreateAgain(r) ==
  /\ pc[r] = "again"
  /\ \/ /\ store[To(r)] # Absent
        /\ Finish(r, "exists")
        /\ Unchanged
     \/ /\ store[To(r)] = Absent
        /\ Import(r, TRUE)
  /\ UNCHANGED <<req, put, ops>>

\* Mutant of RemoveSource: delete_member without the etag that was read.
RemoveSourceBlindly(r) ==
  /\ pc[r] \in {"remove", "removeold"}
  /\ Set(r, From(r), Absent)
  /\ Finish(r, Success(pc[r] = "removeold"))
  /\ UNCHANGED <<req, put, ops>>

\* Mutant of RemoveSource: every exception of delete_member is swallowed.
RemoveSourceQuietly(r) ==
  /\ pc[r] \in {"remove", "removeold"}
  /\ Finish(r, Success(pc[r] = "removeold"))
  /\ IF store[From(r)] = Body(r) THEN Set(r, From(r), Absent) \/ Unchanged ELSE Unchanged
  /\ UNCHANGED <<req, put, ops>>

\* self.delete_member(name, etag), with the etag of the version that was read.
\* InvalidETag and LockedError end in a 500.
RemoveSource(r) ==
  /\ pc[r] \in {"remove", "removeold"}
  /\ \/ store[From(r)] = Absent /\ Finish(r, "notfound") /\ Unchanged
     \/ store[From(r)] # Absent /\ Finish(r, "error") /\ Unchanged
     \/ /\ store[From(r)] = Body(r)
        /\ Set(r, From(r), Absent)
        /\ Finish(r, Success(pc[r] = "removeold"))
  /\ UNCHANGED <<req, put, ops>>

-----------------------------------------------------------------------------
(* The other requests.                                                     *)

\* PUT on an existing member: the handler has looked at it, a worker thread
\* writes.  The etag is compared before the lock, so the member may be another
\* one, or none, by the time of the write; or else the store refuses.
BeginPut(w, p, b) ==
  /\ LoopIsFree
  /\ CountOp
  /\ put[w] = NoPut
  /\ store[p] # Absent /\ ~Clash(store, p, b)
  /\ put' = [put EXCEPT ![w] = [to |-> p, body |-> b]]
  /\ UNCHANGED <<store, turn, pc, req, answer, foreign>>

EndPut(w) ==
  /\ put[w] # NoPut
  /\ \/ Set(Nobody, put[w].to, put[w].body)
     \/ Unchanged
  /\ put' = [put EXCEPT ![w] = NoPut]
  /\ UNCHANGED <<turn, pc, req, answer, ops>>

PutNew(p, b) ==
  /\ LoopIsFree
  /\ CountOp
  /\ store[p] = Absent /\ ~Clash(store, p, b)
  /\ Set(Nobody, p, b)
  /\ UNCHANGED <<turn, pc, req, answer, put>>

Delete(p) ==
  /\ LoopIsFree
  /\ CountOp
  /\ store[p] # Absent
  /\ Set(Nobody, p, Absent)
  /\ UNCHANGED <<turn, pc, req, answer, put>>

-----------------------------------------------------------------------------
Step(r) ==
  \/ ReadSource(r) \/ Create(r) \/ ClearDestination(r) \/ CreateAgain(r) \/ RemoveSource(r)

Next ==
  \/ \E r \in Requests :
       \/ \E overwrite \in BOOLEAN, p, q \in Places :
            BeginMove(r, overwrite, p, q) \/ BeginCopy(r, overwrite, p, q)
       \/ Step(r)
  \/ \E w \in Puts : EndPut(w) \/ \E p \in Places, b \in Bodies : BeginPut(w, p, b)
  \/ \E p \in Places : Delete(p) \/ \E b \in Bodies : PutNew(p, b)

Spec == Init /\ [][Next]_vars

-----------------------------------------------------------------------------
(* Properties *)

\* The shape of every variable.  A request that is between two store calls
\* has the event loop, and no other one does.
TypeOK ==
  /\ store \in [Places -> Content]
  /\ turn \in Requests \cup {Nobody}
  /\ pc \in [Requests -> {"idle", "read", "create", "clear", "again", "remove", "removeold"}]
  /\ \A r \in Requests : pc[r] \in {"clear", "again", "remove", "removeold"} <=> turn = r
  /\ req \in [Requests -> [move : BOOLEAN, overwrite : BOOLEAN, from : Places \cup {Absent},
                           to : Places \cup {Absent}, body : Content, before : Content]]
  /\ answer \in [Requests -> Successes \cup Failures \cup {"none"}]
  /\ put \in [Puts -> [to : Places, body : Bodies] \cup {NoPut}]
  /\ foreign \in [Requests -> SUBSET Places]
  /\ ops \in 0 .. MaxOps

\* p holds b, unless another request has changed p since r began.
Holds(r, p, b) == p \in foreign[r] \/ store[p] = b

HasRead(r) == Body(r) # Absent

\* What a MOVE or COPY has read is never lost: it is at the source until the
\* request succeeds, and at the destination afterwards, at every moment and
\* whichever of its calls fails.
ContentSurvives ==
  \A r \in Requests : HasRead(r) =>
    IF req[r].move /\ answer[r] \in Successes
      THEN Holds(r, To(r), Body(r))
      ELSE Holds(r, From(r), Body(r))

\* A MOVE takes away only the version that it has copied: a PUT on the source
\* that came in between is not lost ("Delete source from this collection only
\* after successful creation").
TakesWhatItCopied ==
  [][\A r \in Requests :
       (pc[r] \in {"remove", "removeold"} /\ store'[From(r)] # store[From(r)] /\ turn' # turn)
         => store[From(r)] = Body(r)]_vars

\* 201 and 204 are true: the destination has the content, and after a MOVE the
\* source is gone.
SuccessIsTrue ==
  \A r \in Requests : answer[r] \in Successes =>
    /\ Holds(r, To(r), Body(r))
    /\ req[r].move => Holds(r, From(r), Absent)

\* The destination of a request that was refused or failed: what was there, or
\* (when a MOVE could not remove the source) what was to be there.
KeepsDestination(r) ==
  answer[r] \in Failures =>
    \/ Holds(r, To(r), req[r].before)
    \/ HasRead(r) /\ store[To(r)] = Body(r)

\* "Overwrite: F" never costs the destination anything, success or failure.
OverwriteIsAsked ==
  \A r \in Requests : ~req[r].overwrite =>
    /\ KeepsDestination(r)
    /\ answer[r] \in Successes => req[r].before = Absent \/ To(r) \in foreign[r]

\* The inductive invariant behind these.  A request that is under way has read
\* its source, has not been answered, and still finds the destination as its
\* Overwrite header demands; before a MOVE removes the source its copy exists.
RequestIsSound(r) ==
  /\ pc[r] # "idle" => answer[r] = "none"
  /\ pc[r] # "idle" \/ answer[r] # "none" \/ HasRead(r) =>
       From(r) \in Places /\ To(r) \in Places /\ From(r) # To(r)
  /\ pc[r] = "read" => Body(r) = Absent
  /\ pc[r] \notin {"idle", "read"} => HasRead(r)
  /\ pc[r] \in {"remove", "removeold"} => req[r].move /\ Holds(r, To(r), Body(r))
  /\ ~req[r].overwrite =>
       /\ pc[r] \notin {"clear", "again", "removeold"}
       /\ pc[r] \in {"read", "create"} => Holds(r, To(r), req[r].before)
       /\ pc[r] = "remove" => req[r].before = Absent \/ To(r) \in foreign[r]

IInv ==
  /\ TypeOK
  /\ \A r \in Requests : RequestIsSound(r)
  /\ ContentSurvives /\ SuccessIsTrue /\ OverwriteIsAsked

\* no-uid-conflict is answered only if a member has the UID that would still be
\* there: a MOVE inside a collection does not collide with its own source.
ConflictsAreReal ==
  [][\A r \in Requests :
       (answer[r] # "conflict" /\ answer'[r] = "conflict") =>
         Clash(IF req[r].move THEN [store EXCEPT ![From(r)] = Absent] ELSE store,
               To(r), Body(r))]_vars
=============================================================================

------------------------ MODULE VersionedCollection ------------------------
(***************************************************************************)
(* What a store promises to the WebDAV layer, whatever backs it: the       *)
(* contract of Store.import_one and Store.delete_one                       *)
(* (xandikos/store/__init__.py).  A caller starts a call and gets one      *)
(* answer.  A call that answers "ok" changed exactly the member it named,  *)
(* in one atomic step between its start and its answer; a call that        *)
(* raised, or that a crash cut short, changed nothing.                     *)
(*                                                                         *)
(* Spec is the promise without the preconditions the docstrings give.      *)
(* StrictSpec adds them: the member still has the version the caller saw   *)
(* when the change takes effect (InvalidETag otherwise), and no other      *)
(* member has the same UID (DuplicateUidError otherwise).                  *)
(***************************************************************************)
CONSTANTS Threads,   \* callers
          Names,     \* names of members
          Bodies,    \* contents; a content is its own etag (a Git blob id)
          Absent,    \* no member of that name; also "no etag given"
          Failures,  \* what a call that raised answers
          Clash(_, _, _) \* Clash(m, n, b): writing b at n collides in m

VARIABLES members,   \* [Names -> Bodies or Absent]
          call,      \* [Threads -> the running call, or the last one]
          running,   \* the threads inside a call
          answer     \* [Threads -> the answer of the last call]

vars == <<members, call, running, answer>>

Calls == [name : Names, body : Bodies \cup {Absent}, etag : Bodies \cup {Absent}]

Init ==
  /\ members = [n \in Names |-> Absent]
  /\ running = {}
  /\ call \in [Threads -> Calls]
  /\ answer = [t \in Threads |-> "none"]

Start(t) ==
  /\ t \notin running
  /\ running' = running \cup {t}
  /\ \E c \in Calls : call' = [call EXCEPT ![t] = c]
  /\ answer' = [answer EXCEPT ![t] = "none"]
  /\ UNCHANGED members

Succeed(t) ==
  /\ t \in running
  /\ running' = running \ {t}
  /\ members' = [members EXCEPT ![call[t].name] = call[t].body]
  /\ answer' = [answer EXCEPT ![t] = "ok"]
  /\ UNCHANGED call

Fail(t) ==
  /\ t \in running
  /\ running' = running \ {t}
  /\ \E f \in Failures : answer' = [answer EXCEPT ![t] = f]
  /\ UNCHANGED <<members, call>>

Crash ==
  /\ running' = {}
  /\ answer' = [t \in Threads |-> IF t \in running THEN "crashed" ELSE answer[t]]
  /\ UNCHANGED <<members, call>>

Next == Crash \/ \E t \in Threads : Start(t) \/ Succeed(t) \/ Fail(t)

Spec == Init /\ [][Next]_vars

-----------------------------------------------------------------------------
(* The preconditions of the docstrings, at the moment of the change.       *)

Allowed(c) ==
  /\ c.etag # Absent => members[c.name] = c.etag
  /\ c.body # Absent => ~Clash(members, c.name, c.body)

StrictNext ==
  \/ Crash
  \/ \E t \in Threads : Start(t) \/ (Allowed(call[t]) /\ Succeed(t)) \/ Fail(t)

StrictSpec == Init /\ [][StrictNext]_vars
=============================================================================

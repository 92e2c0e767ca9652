--------------------------- MODULE SyncCollection ---------------------------
(***************************************************************************)
(* The sync-collection REPORT (xandikos/sync.py) over a TreeGitStore, and  *)
(* the clients that keep a copy of the collection with it.                 *)
(*                                                                         *)
(* A sync token is the id of a Git tree, so a token is modelled by the     *)
(* listing it names.  The report reads the new token first and then walks  *)
(* the difference of two trees, awaiting the properties of each member;    *)
(* other requests change the collection meanwhile.  A response reaches the *)
(* client whole or not at all.                                             *)
(***************************************************************************)
EXTENDS Naturals

CONSTANTS
  Clients,
  Names,      \* file names, as positions in the order of a tree
  Metadata,   \* those of them that are metadata files, which are not members
  Bodies,
  Absent,     \* no such file
  NoToken,    \* an empty sync-token element: an initial synchronisation
  NoLimit,    \* no limit element in the request
  Limits,     \* what clients ask for: numbers and NoLimit
  MaxWrites   \* bound on the changes to the collection

ASSUME NamesAssumption == Names \subseteq Nat /\ Metadata \subseteq Names
ASSUME MarkerAssumption == Absent \notin Bodies
ASSUME LimitAssumption == NoLimit \notin Nat /\ Limits \subseteq Nat \cup {NoLimit}
ASSUME BoundAssumption == MaxWrites \in Nat

VARIABLES
  tree,     \* the collection: [Names -> body or Absent]
  objects,  \* the trees in the object store
  writes,   \* changes so far
  phase,    \* of each client's request
  request,  \* [old, new, left, sent, limit] of each client's last request
  token,    \* the token each client holds
  replica   \* the copy of the collection each client holds

server == <<tree, objects, writes>>
vars == <<tree, objects, writes, phase, request, token, replica>>

Trees == [Names -> Bodies \cup {Absent}]
NoFiles == [n \in Names |-> Absent]
ASSUME TokenAssumption == NoToken \notin Trees

Phases == {"idle", "report", "replied", "refused"}
Requests == [old : Trees \cup {NoToken}, new : Trees, left : SUBSET Names,
             sent : SUBSET Names, limit : Nat \cup {NoLimit}]

Init ==
  /\ tree = NoFiles
  /\ objects = {}
  /\ writes = 0
  /\ phase = [c \in Clients |-> "idle"]
  /\ request = [c \in Clients |-> [old |-> NoToken, new |-> NoFiles, left |-> {},
                                   sent |-> {}, limit |-> NoLimit]]
  /\ token = [c \in Clients |-> NoToken]
  /\ replica = [c \in Clients |-> NoFiles]

-----------------------------------------------------------------------------
(* The rest of the server. *)

\* import_one, delete_one and saves of the metadata: one file, one new tree.
Write(n, b) ==
  /\ writes < MaxWrites
  /\ writes' = writes + 1
  /\ tree[n] # b
  /\ tree' = [tree EXCEPT ![n] = b]
  /\ objects' = objects \cup {tree'}
  /\ UNCHANGED <<phase, request, token, replica>>

\* The collection is destroyed and another one created at the same path: the
\* object store goes.  The requests that were being answered fail.
Recreate ==
  /\ writes < MaxWrites
  /\ writes' = writes + 1
  /\ tree' = NoFiles
  /\ objects' = {}
  /\ phase' = [c \in Clients |-> IF phase[c] = "report" THEN "idle" ELSE phase[c]]
  /\ UNCHANGED <<request, token, replica>>

-----------------------------------------------------------------------------
(* The report: iter_changes, iter_differences_since, SyncCollectionReporter. *)

\* Without a token the difference is taken from the empty tree.
OldTree(old) == IF old = NoToken THEN NoFiles ELSE old

Changed(old, new) == {n \in Names \ Metadata : OldTree(old)[n] # new[n]}

\* Mutant of IsKnown: an empty token is looked up like any other.
IsKnownByName(old, limit) == old \in objects \cup {tree}

\* iter_changes looks the old tree up; with a limit of zero it never starts.
IsKnown(old, limit) == old = NoToken \/ old \in objects \cup {tree} \/ limit = 0

\* Mutant of BeginReport: the client gets its own token back.
BeginReportSameToken(c, k) ==
  /\ phase[c] = "idle"
  /\ objects' = objects \cup {tree}
  /\ request' = [request EXCEPT ![c] =
       [old |-> token[c], new |-> token[c], left |-> Changed(token[c], tree),
        sent |-> {}, limit |-> k]]
  /\ phase' = [phase EXCEPT ![c] =
       IF IsKnown(token[c], k) THEN "report" ELSE "refused"]
  /\ UNCHANGED <<tree, writes, token, replica>>

BeginReport(c, k) ==
  /\ phase[c] = "idle"
  /\ objects' = objects \cup {tree}   \* get_sync_token writes the tree
  /\ request' = [request EXCEPT ![c] =
       [old |-> token[c], new |-> tree, left |-> Changed(token[c], tree),
        sent |-> {}, limit |-> k]]
  /\ phase' = [phase EXCEPT ![c] =
       IF IsKnown(token[c], k) THEN "report" ELSE "refused"]
  /\ UNCHANGED <<tree, writes, token, replica>>

\* First what the new tree has, then what it has lost, both in tree order.
Precedes(new, n, m) ==
  \/ new[n] # Absent /\ new[m] = Absent
  \/ (new[n] = Absent <=> new[m] = Absent) /\ n <= m

\* Mutant of Emit: what the new tree has lost is not reported.
EmitPresent(c) ==
  LET r == request[c]
  IN /\ phase[c] = "report"
     /\ \E n \in r.left :
          request' = [request EXCEPT
            ![c].left = @ \ {n},
            ![c].sent = IF r.new[n] = Absent THEN @ ELSE @ \cup {n}]
     /\ UNCHANGED <<server, phase, token, replica>>

Emit(c) ==
  LET r == request[c]
  IN /\ phase[c] = "report"
     /\ r.limit # 0
     /\ \E n \in r.left :
          /\ \A m \in r.left : Precedes(r.new, n, m)
          /\ request' = [request EXCEPT ![c] =
               [old |-> r.old, new |-> r.new, left |-> r.left \ {n}, sent |-> r.sent \cup {n},
                limit |-> IF r.limit = NoLimit THEN NoLimit ELSE r.limit - 1]]
     /\ UNCHANGED <<server, phase, token, replica>>

\* Mutant of EndReport: the new token is read after the walk.
EndReportLate(c) ==
  /\ phase[c] = "report"
  /\ request[c].left = {}
  /\ phase' = [phase EXCEPT ![c] = "replied"]
  /\ request' = [request EXCEPT ![c].new = tree]
  /\ UNCHANGED <<server, token, replica>>

\* The generator is exhausted, or islice stops it; new_token is sent.
EndReport(c) ==
  /\ phase[c] = "report"
  /\ request[c].left = {} \/ request[c].limit = 0
  /\ phase' = [phase EXCEPT ![c] = "replied"]
  /\ UNCHANGED <<server, request, token, replica>>

-----------------------------------------------------------------------------
(* A client that follows RFC 6578. *)

\* Apply the response: a status of 404 removes the member.
Receive(c) ==
  LET r == request[c]
  IN /\ phase[c] = "replied"
     /\ phase' = [phase EXCEPT ![c] = "idle"]
     /\ replica' = [replica EXCEPT ![c] =
          [n \in Names |-> IF n \in r.sent THEN r.new[n] ELSE @[n]]]
     /\ token' = [token EXCEPT ![c] = r.new]
     /\ UNCHANGED <<server, request>>

\* valid-sync-token: start again from nothing.
StartOver(c) ==
  /\ phase[c] = "refused"
  /\ phase' = [phase EXCEPT ![c] = "idle"]
  /\ replica' = [replica EXCEPT ![c] = NoFiles]
  /\ token' = [token EXCEPT ![c] = NoToken]
  /\ UNCHANGED <<server, request>>

\* The response is lost on the way.
Lose(c) ==
  /\ phase[c] \in {"replied", "refused"}
  /\ phase' = [phase EXCEPT ![c] = "idle"]
  /\ UNCHANGED <<server, request, token, replica>>

-----------------------------------------------------------------------------
Ask(c) == \E k \in Limits : BeginReport(c, k)

Next ==
  \/ \E n \in Names, b \in Bodies \cup {Absent} : Write(n, b)
  \/ Recreate
  \/ \E c \in Clients :
       Ask(c) \/ Emit(c) \/ EndReport(c) \/ Receive(c) \/ StartOver(c) \/ Lose(c)

Spec == Init /\ [][Next]_vars

\* The server answers, a client asks again and again, and not every response
\* is lost.
FairSpec ==
  /\ Spec
  /\ \A c \in Clients :
       /\ WF_vars(Ask(c)) /\ WF_vars(Emit(c) \/ EndReport(c))
       /\ SF_vars(Receive(c)) /\ SF_vars(StartOver(c))

-----------------------------------------------------------------------------
(* Properties *)

\* The shape of every variable.
TypeOK ==
  /\ tree \in Trees
  /\ objects \subseteq Trees
  /\ writes \in 0 .. MaxWrites
  /\ phase \in [Clients -> Phases]
  /\ request \in [Clients -> Requests]
  /\ token \in [Clients -> Trees \cup {NoToken}]
  /\ replica \in [Clients -> Trees]

\* What a client holds is the collection its token names: no change is lost,
\* invented or applied twice, whatever happened while the report was written,
\* whichever responses were lost, and across a destroyed collection.
ReplicaIsSnapshot ==
  \A c \in Clients : \A n \in Names \ Metadata :
    replica[c][n] = OldTree(token[c])[n]

\* When the changes stop every client ends up with the members of the
\* collection, whatever token it holds.
ReplicasConverge ==
  \A c \in Clients : <>[](\A n \in Names \ Metadata : replica[c][n] = tree[n])

\* A member is reported only if it differs, and never twice in one report.
\* Until the report ends every difference has been sent or will be.
ReportIsExact ==
  \A c \in Clients : phase[c] = "report" =>
    /\ request[c].sent \cap request[c].left = {}
    /\ request[c].sent \cup request[c].left = Changed(request[c].old, request[c].new)

\* The inductive invariant behind ReplicaIsSnapshot, for clients that set no
\* limit: a request starts from the client's own token, and a reply holds
\* every difference.
IInv ==
  /\ TypeOK
  /\ ReplicaIsSnapshot
  /\ ReportIsExact
  /\ \A c \in Clients :
       /\ phase[c] # "idle" => request[c].old = token[c]
       /\ phase[c] \in {"report", "replied"} => request[c].limit = NoLimit
       /\ phase[c] = "replied" =>
            request[c].sent = Changed(request[c].old, request[c].new)
=============================================================================

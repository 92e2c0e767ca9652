------------------------------ MODULE Backends ------------------------------
(***************************************************************************)
(* The stores beside TreeGitStore: BareGitStore (xandikos/store/git.py),   *)
(* which keeps the tree of its ref in memory, VdirStore (store/vdir.py),   *)
(* whose files other programs edit too, and MemoryStore (store/memory.py). *)
(* None of them has a lock, so calls come one at a time here, and what     *)
(* runs beside them is another program: one that pushes to the bare        *)
(* repository, or one that keeps the directory in step with another.       *)
(*                                                                         *)
(* The promise they are held to is that of VersionedCollection.            *)
(*                                                                         *)
(* StoresSpec, at and storesVars are named apart from those of             *)
(* TreeIndexCache: the proofs about what a store remembers extend both.    *)
(***************************************************************************)
EXTENDS Naturals, FiniteSets

CONSTANTS
  Kinds,    \* the stores to look at: subset of {"bare", "vdir", "memory"}
  Names,
  Bodies,   \* contents; a content stands for its hash, too
  Uids,
  UidOf,    \* [Bodies -> Uids]
  SizeOf,   \* [Bodies -> Nat]: length of a content
  Caller,   \* the one thread that calls
  Absent,
  MaxOps,   \* bound on calls and on what other programs do
  MaxTime   \* bound on the clock that files are stamped with

ASSUME BackendsAssumption ==
  /\ Kinds \subseteq {"bare", "vdir", "memory"}
  /\ UidOf \in [Bodies -> Uids] /\ SizeOf \in [Bodies -> Nat]
  /\ Absent \notin Bodies \cup Names \cup Uids
  /\ MaxOps \in Nat /\ MaxTime \in Nat

VARIABLES
  kind,      \* the store under test
  files,     \* the members: the tree of the ref; the directory; _items
  version,   \* the commit of the ref; _etag_counter
  stamp,     \* [Names -> Nat]: vdir: st_mtime_ns of a file
  now,
  cache,     \* bare: _cached_tree and _cached_ref_target
  etagCache, \* [Names -> what get_etag of vdir remembers, or Absent]
  uidOf,     \* [Names -> content seen at the last scan, or Absent]: _fname_to_uid
  nameOf,    \* [Uids -> Names or Absent]: _uid_to_fname
  call,
  at,        \* where the call is: "idle", "check" or "write"
  answer, ops,
  excused    \* history: something happened that the store does not cope with

storage == <<files, version, stamp>>
caches == <<cache, etagCache, uidOf, nameOf>>
storesVars == <<kind, storage, now, caches, call, at, answer, ops, excused>>

NoFiles == [n \in Names |-> Absent]
NoCache == [tree |-> NoFiles, target |-> 0]
Failures == {"mismatch", "duplicate", "missing", "error"}

\* A deletion has no body.  An etag is the content that the caller saw.
Calls ==
  [name : Names, body : Bodies \cup {Absent}, etag : Bodies \cup {Absent}]

StoresInit ==
  /\ kind \in Kinds
  /\ files = NoFiles
  /\ version = 1
  /\ stamp = [n \in Names |-> 0]
  /\ now = 1
  /\ cache = NoCache
  /\ etagCache = [n \in Names |-> Absent]
  /\ uidOf = [n \in Names |-> Absent]
  /\ nameOf = [u \in Uids |-> Absent]
  /\ call \in {[name |-> n, body |-> Absent, etag |-> Absent] : n \in Names}
  /\ at = "idle"
  /\ answer = "none"
  /\ ops = 0
  /\ excused = FALSE

CountOp == ops < MaxOps /\ ops' = ops + 1

Finish(a) == at' = "idle" /\ answer' = a

\* Mutant of Verdict: the etag is only compared with that of a member that is
\* there.
VerdictIfThere(taken, seen) ==
  IF call.body # Absent /\ taken THEN "duplicate"
  ELSE IF call.body = Absent /\ seen = Absent THEN "missing"
  ELSE IF seen # Absent /\ call.etag \notin {Absent, seen} THEN "mismatch"
  ELSE "ok"

\* What the checks of import_one and delete_one answer, given whether another
\* member is known to have the UID, and the content that the name is known to
\* have.
Verdict(taken, seen) ==
  IF call.body # Absent /\ taken THEN "duplicate"
  ELSE IF call.body = Absent /\ seen = Absent THEN "missing"
  ELSE IF call.etag \notin {Absent, seen} THEN "mismatch"
  ELSE "ok"

\* A caller writes contents that parse, or deletes, and gives the etag it has
\* seen, or none.
Begin ==
  /\ CountOp
  /\ at = "idle" /\ at' = "check"
  /\ call' \in Calls
  /\ answer' = "none"
  /\ UNCHANGED <<kind, storage, now, caches, excused>>

-----------------------------------------------------------------------------
(* BareGitStore                                                            *)

\* Mutant of CurrentTree: a tree that is cached is current.
CurrentTreeCached == IF cache.target # 0 THEN cache ELSE [tree |-> files, target |-> version]

\* _get_current_tree: the cached tree as long as the ref points to its commit.
CurrentTree ==
  IF cache.target = version THEN cache ELSE [tree |-> files, target |-> version]

\* The UIDs of what _iterblobs lists; _scan_uids keeps no stale entry.
Owners(tree, u) == {n \in Names : tree[n] # Absent /\ UidOf[tree[n]] = u}

\* _check_duplicate, or what delete_one checks.  Then the cached tree is
\* edited in place.
BareEdit ==
  LET t == CurrentTree.tree
      n == call.name
      v == Verdict(call.body # Absent /\ Owners(t, UidOf[call.body]) \ {n} # {}, t[n])
  IN
  /\ kind = "bare" /\ at = "check"
  /\ \/ v # "ok" /\ Finish(v) /\ cache' = CurrentTree
     \/ /\ v = "ok" /\ at' = "write"
        /\ cache' = [CurrentTree EXCEPT !.tree[n] = call.body]
        /\ UNCHANGED answer
  /\ UNCHANGED <<kind, storage, now, etagCache, uidOf, nameOf, call, ops, excused>>

\* add_objects and _commit_tree: the ref moves and the cache does not follow.  A
\* failure (disk full, a body that cannot be described) leaves the edit behind.
BareCommit ==
  /\ kind = "bare" /\ at = "write"
  /\ \/ /\ files' = cache.tree
        /\ version' = IF cache.tree = files THEN version ELSE version + 1
        /\ Finish("ok")
        /\ UNCHANGED excused
     \/ /\ Finish("error") /\ excused' = TRUE
        /\ UNCHANGED <<files, version>>
  /\ UNCHANGED <<kind, stamp, now, caches, call, ops>>

\* Another program pushes (external).  A call that is between its two steps
\* commits its own tree on top.
Push ==
  /\ kind = "bare" /\ CountOp
  /\ \E n \in Names, b \in Bodies \cup {Absent} :
       /\ b # Absent => Owners(files, UidOf[b]) \subseteq {n}
       /\ files' = [files EXCEPT ![n] = b]
  /\ version' = version + 1
  /\ excused' = (excused \/ at = "write")
  /\ UNCHANGED <<kind, stamp, now, caches, call, at, answer>>

-----------------------------------------------------------------------------
(* VdirStore                                                               *)

\* get_etag: the remembered one if the time and the size of the file are the
\* remembered ones, and otherwise a hash of the file.
Hashed(n, b, t) ==
  LET c == etagCache[n] IN
  IF c # Absent /\ c.time = t /\ SizeOf[c.body] = SizeOf[b] THEN c.body ELSE b

EtagOf(n) == IF files[n] = Absent THEN Absent ELSE Hashed(n, files[n], stamp[n])
Remember(n, b, t) == [time |-> t, body |-> Hashed(n, b, t)]

\* Mutant of Changed: a file that is in the maps is not looked at again.
ChangedOnce == {n \in Names : files[n] # Absent /\ uidOf[n] = Absent}

\* Names of the last scan that are gone
Gone == {n \in Names : files[n] = Absent /\ uidOf[n] # Absent}
Changed == {n \in Names : files[n] # Absent /\ uidOf[n] # EtagOf(n)}

\* _scan_uids: files that are new or have another etag enter both maps.  Those
\* that are gone leave them, and take their UID with them even if it was found
\* in another file: then nobody is left to be removed next time, and that scan
\* ends with a KeyError.  dropped are the names that leave.
ScanUids(pick, dropped) ==
  LET having(S, u) == {n \in S : UidOf[uidOf[n]] = u}
      left(u) == IF pick[u] = Absent THEN 0 ELSE 1
  IN
  /\ \A u \in Uids :
       LET found == {n \in Changed : UidOf[files[n]] = u} IN
       pick[u] \in (IF found = {} THEN {nameOf[u]} ELSE found)
  /\ \A u \in Uids : Cardinality(having(dropped, u)) <= left(u)
  /\ \/ dropped = Gone
     \/ \E u \in Uids : having(dropped, u) # having(Gone, u) /\ Cardinality(having(dropped, u)) = left(u)
  /\ uidOf' = [n \in Names |->
       IF n \in Changed THEN EtagOf(n) ELSE IF n \in dropped THEN Absent ELSE uidOf[n]]
  /\ nameOf' = [u \in Uids |-> IF having(dropped, u) # {} THEN Absent ELSE pick[u]]
  /\ etagCache' = [n \in Names |-> IF files[n] # Absent THEN Remember(n, files[n], stamp[n]) ELSE etagCache[n]]

\* _check_duplicate
VdirCheck ==
  LET n == call.name IN
  /\ kind = "vdir" /\ at = "check" /\ call.body # Absent
  /\ \E pick \in [Uids -> Names \cup {Absent}] :
     \E dropped \in SUBSET Gone :
       LET v == Verdict(nameOf'[UidOf[call.body]] \notin {n, Absent}, EtagOf(n)) IN
       /\ ScanUids(pick, dropped)
       /\ IF dropped # Gone THEN Finish("error")
          ELSE IF v = "ok" THEN at' = "write" /\ UNCHANGED answer
          ELSE Finish(v)
  /\ UNCHANGED <<kind, storage, now, cache, call, ops, excused>>

\* What delete_one checks; get_etag is asked only if the caller gave an etag.
VdirCheckDelete ==
  LET n == call.name
      v == Verdict(FALSE, EtagOf(n))
  IN
  /\ kind = "vdir" /\ at = "check" /\ call.body = Absent
  /\ IF v = "ok" THEN at' = "write" /\ UNCHANGED answer ELSE Finish(v)
  /\ etagCache' = IF call.etag = Absent \/ files[n] = Absent THEN etagCache
                  ELSE [etagCache EXCEPT ![n] = Remember(n, files[n], stamp[n])]
  /\ UNCHANGED <<kind, storage, now, cache, uidOf, nameOf, call, ops, excused>>

\* A file gets the time stamp with which the store has seen another version.
TooFast(n, t) == etagCache[n] # Absent /\ etagCache[n].time = t

\* A UID appears in a file while the store believes it in another.
Moves(n, b) == b # Absent /\ \E m \in Names \ {n} : uidOf[m] # Absent /\ UidOf[uidOf[m]] = UidOf[b]

\* os.replace of the .tmp file, whose etag is asked for at once; or os.unlink.
VdirWrite ==
  LET n == call.name IN
  /\ kind = "vdir" /\ at = "write"
  /\ \/ /\ call.body # Absent \/ files[n] # Absent
        /\ files' = [files EXCEPT ![n] = call.body]
        /\ stamp' = [stamp EXCEPT ![n] = now]
        /\ etagCache' = IF call.body = Absent THEN etagCache
                        ELSE [etagCache EXCEPT ![n] = Remember(n, call.body, now)]
        /\ excused' = (excused \/ (call.body # Absent /\ TooFast(n, now)))
        /\ Finish("ok")
     \/ Finish("error") /\ UNCHANGED <<files, stamp, etagCache, excused>>
  /\ UNCHANGED <<kind, version, now, cache, uidOf, nameOf, call, ops>>

\* Another program writes, removes or renames a file (external).
Edit ==
  /\ kind = "vdir" /\ CountOp
  /\ \E n \in Names :
       \/ \E b \in Bodies \cup {Absent} :
            /\ b # Absent => Owners(files, UidOf[b]) \subseteq {n}
            /\ files' = [files EXCEPT ![n] = b]
            /\ stamp' = [stamp EXCEPT ![n] = now]
            /\ excused' = (excused \/ at = "write" \/ Moves(n, b)
                                   \/ (b # Absent /\ TooFast(n, now)))
       \/ \E m \in Names :
            /\ files[n] # Absent /\ files[m] = Absent
            /\ files' = [files EXCEPT ![m] = files[n], ![n] = Absent]
            /\ stamp' = [stamp EXCEPT ![m] = stamp[n]]
            /\ excused' = (excused \/ at = "write" \/ Moves(m, files[n]) \/ TooFast(m, stamp[n]))
  /\ UNCHANGED <<kind, version, now, caches, call, at, answer>>

Tick ==
  /\ kind = "vdir" /\ now < MaxTime /\ now' = now + 1
  /\ UNCHANGED <<kind, storage, caches, call, at, answer, ops, excused>>

-----------------------------------------------------------------------------
(* MemoryStore                                                             *)

\* Mutant of Forget: the UID that a name had keeps pointing to it.
ForgetNothing(n) == nameOf

\* The UID that a name had leaves the map.
Forget(n) ==
  [u \in Uids |-> IF uidOf[n] # Absent /\ UidOf[uidOf[n]] = u THEN Absent ELSE nameOf[u]]

\* import_one and delete_one: one call, one step.  Each write makes a new etag,
\* so the caller's may be an old one of the same content.
MemoryCall ==
  LET n == call.name
      v == Verdict(call.body # Absent /\ nameOf[UidOf[call.body]] \notin {n, Absent}, files[n])
  IN
  /\ kind = "memory" /\ at = "check"
  /\ \/ /\ v # "ok" \/ call.etag # Absent
        /\ Finish(IF v # "ok" THEN v ELSE "mismatch")
        /\ UNCHANGED <<files, version, uidOf, nameOf>>
     \/ /\ v = "ok" /\ Finish("ok")
        /\ files' = [files EXCEPT ![n] = call.body]
        /\ uidOf' = [uidOf EXCEPT ![n] = call.body]
        /\ version' = IF call.body = Absent THEN version ELSE version + 1
        /\ nameOf' = IF call.body = Absent THEN Forget(n)
                     ELSE [Forget(n) EXCEPT ![UidOf[call.body]] = n]
  /\ UNCHANGED <<kind, stamp, now, cache, etagCache, call, ops, excused>>

-----------------------------------------------------------------------------
\* A new process has forgotten what the old one remembered.
Restart ==
  /\ kind # "memory" /\ CountOp
  /\ cache' = NoCache
  /\ etagCache' = [n \in Names |-> Absent]
  /\ uidOf' = [n \in Names |-> Absent]
  /\ nameOf' = [u \in Uids |-> Absent]
  /\ at' = "idle" /\ answer' = IF at = "idle" THEN answer ELSE "crashed"
  /\ UNCHANGED <<kind, storage, now, call, excused>>

OtherPrograms == Push \/ Edit

StoresNext ==
  \/ Begin \/ BareEdit \/ BareCommit \/ VdirCheck \/ VdirCheckDelete \/ VdirWrite \/ MemoryCall
  \/ OtherPrograms \/ Tick \/ Restart

StoresSpec == StoresInit /\ [][StoresNext]_storesVars

-----------------------------------------------------------------------------
(* Properties *)

\* No two members share a UID, whoever wrote them, as long as nothing happened
\* that the store does not cope with: a write of BareGitStore that failed after
\* it edited the cached tree, a push or an edit in the middle of a call, a UID
\* that another program moved to another file, or two versions of a file with
\* the same time stamp.
UidsUnique ==
  ~excused => \A n, m \in Names :
    n # m /\ files[n] # Absent /\ files[m] # Absent => UidOf[files[n]] # UidOf[files[m]]

\* With the same exceptions, what a caller reads is what the store holds: the
\* cached tree is that of the ref, and a remembered etag is that of the file.
\* MemoryStore keeps no copy of what it holds.
ReadsAreTrue ==
  ~excused /\ at # "write" =>
    /\ kind = "bare" => CurrentTree.tree = files
    /\ kind = "vdir" => \A n \in Names : EtagOf(n) = files[n]

Clash(m, n, b) ==
  \E o \in Names \ {n} : m[o] # Absent /\ UidOf[m[o]] = UidOf[b]

Promise == INSTANCE VersionedCollection WITH
  Threads <- {Caller}, Absent <- Absent, Failures <- Failures, Clash <- Clash,
  members <- files, call <- [t \in {Caller} |-> call],
  running <- IF at = "idle" THEN {} ELSE {Caller}, answer <- [t \in {Caller} |-> answer]

\* The store keeps the strict promise of a collection: one member changes, under
\* the preconditions of the docstrings, when and only when the answer is "ok";
\* what else changes the members is another program, or follows one of the
\* exceptions.
KeepsContract ==
  [][Promise!StrictNext \/ OtherPrograms \/ excused]_<<files, call, answer, at = "idle">>

\* With the same exceptions, a call is refused for a reason that holds: what a
\* store remembers of members that went does not stand in the way.  VdirStore is
\* left out of the first line: the UID that a file had before it was replaced
\* stays in its map and is refused to every other name.
RefusalsAreJust ==
  [][at # "idle" /\ at' = "idle" /\ ~excused =>
       /\ answer' = "duplicate" /\ kind # "vdir" => Clash(files, call.name, call.body)
       /\ answer' = "missing" => files[call.name] = Absent
       /\ answer' = "mismatch" /\ kind # "memory" => files[call.name] # call.etag]_storesVars

-----------------------------------------------------------------------------
(* What the proofs of StoreCachesProofs need besides.                      *)

Contents == [Names -> Bodies \cup {Absent}]

\* The shape of every variable.  No cached tree is of a commit yet to come.
StoresTypeOK ==
  /\ kind \in Kinds
  /\ files \in Contents
  /\ version \in Nat \ {0}
  /\ stamp \in [Names -> Nat] /\ now \in Nat
  /\ cache \in [tree : Contents, target : Nat] /\ cache.target <= version
  /\ etagCache \in [Names -> [time : Nat, body : Bodies] \cup {Absent}]
  /\ uidOf \in Contents
  /\ nameOf \in [Uids -> Names \cup {Absent}]
  /\ call \in Calls
  /\ at \in {"idle", "check", "write"}
  /\ ops \in 0 .. MaxOps
  /\ excused \in BOOLEAN

\* What the checks have found is still so when the store writes.
WriteIsAllowed ==
  at = "write" =>
    /\ kind # "memory"
    /\ call.etag # Absent => files[call.name] = call.etag
    /\ call.body # Absent => ~Clash(files, call.name, call.body)

\* BareGitStore: the cached tree is that of its commit, but for the edit that is
\* about to be committed.
TreeIsCurrent ==
  kind = "bare" =>
    IF at = "write" THEN cache = [tree |-> [files EXCEPT ![call.name] = call.body], target |-> version]
    ELSE cache.target = version => cache.tree = files

\* VdirStore: a remembered etag is right if the time stamp still is.
EtagsAreCurrent ==
  kind = "vdir" =>
    \A n \in Names : files[n] # Absent /\ TooFast(n, stamp[n]) => etagCache[n].body = files[n]

\* VdirStore: whatever has entered the first map is in the second, no other file
\* has a UID that is in the first, and a PUT has just scanned all files.
MapsAreCurrent ==
  kind = "vdir" =>
    /\ \A n \in Names : uidOf[n] # Absent => nameOf[UidOf[uidOf[n]]] = n
    /\ \A n \in Names : files[n] # Absent => ~Moves(n, files[n])
    /\ at = "write" /\ call.body # Absent => uidOf = files

\* MemoryStore: the maps are inverse to each other.
MapsAreInverse ==
  kind = "memory" =>
    /\ uidOf = files
    /\ \A n \in Names : files[n] # Absent => nameOf[UidOf[files[n]]] = n
    /\ \A u \in Uids : nameOf[u] # Absent => files[nameOf[u]] # Absent /\ UidOf[files[nameOf[u]]] = u

StoreIsSound ==
  /\ WriteIsAllowed
  /\ TreeIsCurrent
  /\ EtagsAreCurrent
  /\ MapsAreCurrent
  /\ MapsAreInverse

StoresInv == StoresTypeOK /\ UidsUnique /\ (~excused => StoreIsSound)
=============================================================================

---------------------------- MODULE TreeGitStore ----------------------------
(***************************************************************************)
(* TreeGitStore (xandikos/store/git.py): a collection kept in a Git        *)
(* repository with a working tree.  A member lives in three places: the    *)
(* file in the working tree, its entry in .git/index, and the tree of the  *)
(* commit HEAD points at.  .git/index.lock is the only mutual exclusion.   *)
(*                                                                         *)
(* The event loop runs create_member and delete_member without yielding;   *)
(* ObjectResource.set_body hands import_one to a worker thread             *)
(* (asyncio.to_thread).  All of them share one store object, so the steps  *)
(* of import_one and delete_one interleave at the granularity below.  A    *)
(* second process on the same directory (the iMIP commands) is one more    *)
(* member of Loops.                                                        *)
(***************************************************************************)
EXTENDS Naturals, FiniteSets

CONSTANTS
  Loops,        \* threads that run create_member and delete_member
  Workers,      \* threads that run set_body's import_one
  Names,        \* file names, as positions in the order of the index
  Bodies,       \* well-formed contents; equal bodies have equal blob ids
  Uids, UidOf,  \* UidOf[b]: the UID in b, or NoUid
  NoUid,
  Absent,       \* no file, no entry, no etag
  Torn,         \* what a reader finds in a file that is being written
  Free, Stale,  \* no index.lock; an index.lock whose owner is dead
  RequireUniqueUids,  \* FALSE for a schedule inbox
  MaxOps        \* bound on the calls started

Threads == Loops \cup Workers

ASSUME NamesAssumption == Names \subseteq Nat /\ IsFiniteSet(Names) /\ Names # {}
ASSUME UidAssumption == UidOf \in [Bodies -> Uids \cup {NoUid}] /\ NoUid \notin Uids
ASSUME MarkerAssumption ==
  /\ Absent \notin Bodies /\ Torn \notin Bodies /\ Absent # Torn
  /\ Free \notin Threads /\ Stale \notin Threads /\ Free # Stale
ASSUME SwitchAssumption ==
  RequireUniqueUids \in BOOLEAN /\ MaxOps \in Nat

VARIABLES
  \* on disk
  worktree,   \* [Names -> body, Torn or Absent]
  index,      \* [Names -> body or Absent], the content of .git/index
  head,       \* [Names -> body or Absent], the tree of the HEAD commit
  lock,       \* Free, Stale or the thread that created .git/index.lock
  damaged,    \* history: members whose last call ENOSPC or a crash cut short
  \* in memory
  uidMap,     \* the listing _uid_to_fname was last built from
  pc,         \* where each thread is
  call,       \* the arguments of each thread's call
  snap,       \* the listing each thread holds
  answer,     \* what each thread's last call returned or raised
  ops         \* calls started so far

disk == <<worktree, index, head, lock, damaged>>
vars == <<worktree, index, head, lock, damaged, uidMap, pc, call, snap, answer, ops>>

Listing == [Names -> Bodies \cup {Absent}]
EmptyListing == [n \in Names |-> Absent]

Calls == [name : Names, body : Bodies \cup {Absent}, etag : Bodies \cup {Absent}]

\* The statements of import_one and delete_one that run outside the lock ...
Unlocked == {"idle", "scan", "publish", "lookup", "etag", "readfile", "acquire"}
\* ... and inside it.
Locked == {"truncate", "fill", "commit", "unlink", "remove", "release"}

Failures ==
  {"DuplicateUid", "InvalidETag", "Locked", "OutOfSpace", "NoSuchItem", "Error"}

Name(t) == call[t].name
Body(t) == call[t].body
Etag(t) == call[t].etag
Deletes(t) == Body(t) = Absent

-----------------------------------------------------------------------------
Init ==
  /\ worktree = EmptyListing
  /\ index = EmptyListing
  /\ head = EmptyListing
  /\ lock = Free
  /\ damaged = {}
  /\ uidMap = EmptyListing
  /\ pc = [t \in Threads |-> "idle"]
  /\ call = [t \in Threads |->
              [name |-> CHOOSE n \in Names : TRUE, body |-> Absent, etag |-> Absent]]
  /\ snap = [t \in Threads |-> EmptyListing]
  /\ answer = [t \in Threads |-> "none"]
  /\ ops = 0

Goto(t, here, there) ==
  /\ pc[t] = here
  /\ pc' = [pc EXCEPT ![t] = there]

\* The call returns or raises, outside the lock.
Finish(t, result) ==
  /\ pc' = [pc EXCEPT ![t] = "idle"]
  /\ answer' = [answer EXCEPT ![t] = result]

Begin(t, n, b, e, first) ==
  /\ ops < MaxOps
  /\ ops' = ops + 1
  /\ Goto(t, "idle", first)
  /\ call' = [call EXCEPT ![t] = [name |-> n, body |-> b, etag |-> e]]
  /\ answer' = [answer EXCEPT ![t] = "none"]
  /\ UNCHANGED <<disk, uidMap, snap>>

\* Mutant of FirstImportStep: the UID check is left out.
FirstImportStepUnchecked(b) == "etag"

\* A file type without UIDs and a schedule inbox skip the UID scan.
FirstImportStep(b) ==
  IF RequireUniqueUids /\ UidOf[b] # NoUid THEN "scan" ELSE "etag"

\* create_member: the name must be free; import_one gets no replace_etag.
StartCreate(t, n, b) ==
  /\ index[n] = Absent
  /\ Begin(t, n, b, Absent, FirstImportStep(b))

\* PUT on a member: the handler reads the etag, set_body passes it on as
\* replace_etag to an import_one in a worker thread.
StartReplace(t, n, b) ==
  /\ index[n] # Absent
  /\ Begin(t, n, b, index[n], FirstImportStep(b))

\* DELETE on a member, with the etag the handler read before its hooks.
StartDelete(t, n) ==
  /\ index[n] # Absent
  /\ Begin(t, n, Absent, index[n], "readfile")

-----------------------------------------------------------------------------
(* _check_duplicate: outside the index lock.                               *)

\* The member that _uid_to_fname gives for a UID: the last one listed wins.
Owners(listing, uid) ==
  {n \in Names : listing[n] # Absent /\ UidOf[listing[n]] = uid}
OwnerOf(listing, uid) ==
  CHOOSE n \in Owners(listing, uid) : \A m \in Owners(listing, uid) : m <= n

\* _scan_uids reads the whole listing ...
ScanUids(t) ==
  /\ Goto(t, "scan", "publish")
  /\ snap' = [snap EXCEPT ![t] = index]
  /\ UNCHANGED <<disk, uidMap, call, answer, ops>>

\* Mutant of PublishUids: the UIDs are scanned once and never again.
PublishUidsOnce(t) ==
  /\ Goto(t, "publish", "lookup")
  /\ uidMap' = IF uidMap = EmptyListing THEN snap[t] ELSE uidMap
  /\ UNCHANGED <<disk, call, snap, answer, ops>>

\* ... and swaps the maps in, under _uid_lock.
PublishUids(t) ==
  /\ Goto(t, "publish", "lookup")
  /\ uidMap' = snap[t]
  /\ UNCHANGED <<disk, call, snap, answer, ops>>

\* The look-up reads the attribute again: it may see another thread's scan.
UidTaken(t) ==
  LET uid == UidOf[Body(t)]
  IN Owners(uidMap, uid) # {} /\ OwnerOf(uidMap, uid) # Name(t)

LookUpUid(t) ==
  /\ pc[t] = "lookup"
  /\ \/ UidTaken(t) /\ Finish(t, "DuplicateUid")
     \/ ~UidTaken(t) /\ Goto(t, "lookup", "etag") /\ UNCHANGED answer
  /\ UNCHANGED <<disk, uidMap, call, snap, ops>>

EtagMatches(t) == Etag(t) = Absent \/ index[Name(t)] = Etag(t)

CheckEtag(t) ==
  /\ pc[t] = "etag"
  /\ \/ ~EtagMatches(t) /\ Finish(t, "InvalidETag")
     \/ EtagMatches(t) /\ Goto(t, "etag", "acquire") /\ UNCHANGED answer
  /\ UNCHANGED <<disk, uidMap, call, snap, ops>>

\* delete_one looks at the file in the working tree, not at the index.  It opens
\* the file twice; a file that vanishes in between fails like in Unlink.
ReadFile(t) ==
  LET found == worktree[Name(t)]
  IN /\ pc[t] = "readfile"
     /\ \/ found = Absent /\ Finish(t, "NoSuchItem")
        \/ found \notin {Absent, Etag(t)} /\ Finish(t, "InvalidETag")
        \/ found = Etag(t) /\ Goto(t, "readfile", "acquire") /\ UNCHANGED answer
     /\ UNCHANGED <<disk, uidMap, call, snap, ops>>

-----------------------------------------------------------------------------
(* with locked_index(...): create index.lock, read the index again.        *)

\* Mutant of AcquireLock: nothing creates index.lock exclusively.
AcquireLockUnchecked(t) ==
  /\ lock' = t
  /\ snap' = [snap EXCEPT ![t] = index]
  /\ Goto(t, "acquire", IF Deletes(t) THEN "unlink" ELSE "truncate")
  /\ UNCHANGED <<worktree, index, head, damaged, uidMap, call, answer, ops>>

\* Mutant of AcquireLock: the index read for the previous call is used again.
AcquireLockCached(t) ==
  /\ lock = Free
  /\ lock' = t
  /\ Goto(t, "acquire", IF Deletes(t) THEN "unlink" ELSE "truncate")
  /\ UNCHANGED <<worktree, index, head, damaged, uidMap, call, snap, answer, ops>>

\* Mutant of AcquireLock: whatever the working tree holds is staged.
AcquireLockStaging(t) ==
  /\ lock = Free
  /\ lock' = t
  /\ snap' = [snap EXCEPT ![t] = worktree]
  /\ Goto(t, "acquire", IF Deletes(t) THEN "unlink" ELSE "truncate")
  /\ UNCHANGED <<worktree, index, head, damaged, uidMap, call, answer, ops>>

AcquireLock(t) ==
  /\ pc[t] = "acquire"
  /\ lock = Free
  /\ lock' = t
  /\ snap' = [snap EXCEPT ![t] = index]
  /\ Goto(t, "acquire", IF Deletes(t) THEN "unlink" ELSE "truncate")
  /\ UNCHANGED <<worktree, index, head, damaged, uidMap, call, answer, ops>>

\* Mutant of LockIsTaken: FileLocked is swallowed.
LockIsTakenSwallowed(t) ==
  /\ pc[t] = "acquire"
  /\ lock # Free
  /\ Finish(t, "ok")
  /\ UNCHANGED <<disk, uidMap, call, snap, ops>>

\* Mutant of LockIsTaken: the caller waits until index.lock is gone.
LockIsTakenWaiting(t) ==
  /\ pc[t] = "acquire"
  /\ lock # Free
  /\ UNCHANGED vars

\* FileLocked: the caller gets LockedError at once, nobody waits.
LockIsTaken(t) ==
  /\ pc[t] = "acquire"
  /\ lock # Free
  /\ Finish(t, "Locked")
  /\ UNCHANGED <<disk, uidMap, call, snap, ops>>

\* Mutant of Abort: index.lock stays when the with block raises.
AbortWithoutUnlocking(t, result) ==
  /\ Finish(t, result)
  /\ UNCHANGED <<index, head, lock, uidMap, call, snap, ops>>

\* An exception inside the with block removes index.lock, nothing else.
Abort(t, result) ==
  /\ lock' = Free
  /\ Finish(t, result)
  /\ UNCHANGED <<index, head, uidMap, call, snap, ops>>

\* open(p, "wb") empties the file.
TruncateFile(t) ==
  /\ Goto(t, "truncate", "fill")
  /\ worktree' = [worktree EXCEPT ![Name(t)] = Torn]
  /\ UNCHANGED <<index, head, lock, damaged, uidMap, call, snap, answer, ops>>

\* Mutant of FillFile: the data is still in a buffer when the call goes on.
FillFileBuffered(t) ==
  /\ Goto(t, "fill", "commit")
  /\ UNCHANGED <<disk, uidMap, call, snap, answer, ops>>

\* The data is written and read back to make the blob; nobody else writes to
\* the file without the lock.
FillFile(t) ==
  /\ Goto(t, "fill", "commit")
  /\ worktree' = [worktree EXCEPT ![Name(t)] = Body(t)]
  /\ UNCHANGED <<index, head, lock, damaged, uidMap, call, snap, answer, ops>>

\* ENOSPC while the file, the objects or the commit are written.  Only
\* _import_one turns it into OutOfSpaceError.
DiskFull(t) ==
  /\ \/ pc[t] \in {"truncate", "fill"}
     \/ pc[t] = "commit" /\ snap[t][Name(t)] # Body(t)
     \/ pc[t] = "remove" /\ snap[t][Name(t)] # Absent
  /\ damaged' = damaged \cup {Name(t)}
  /\ Abort(t, IF Deletes(t) THEN "Error" ELSE "OutOfSpace")
  /\ UNCHANGED worktree

\* The new tree is the index as read under the lock with one entry changed.
\* An identical blob is not committed again.
Commit(t) ==
  /\ Goto(t, "commit", "release")
  /\ snap' = [snap EXCEPT ![t][Name(t)] = Body(t)]
  /\ head' = IF snap[t][Name(t)] = Body(t) THEN head ELSE snap'[t]
  /\ UNCHANGED <<worktree, index, lock, damaged, uidMap, call, answer, ops>>

\* Mutant of Unlink: the file stays in the working tree.
UnlinkForgotten(t) ==
  /\ Goto(t, "unlink", "remove")
  /\ UNCHANGED <<disk, uidMap, call, snap, answer, ops>>

\* os.unlink in delete_one; the file may be gone by now.
Unlink(t) ==
  /\ pc[t] = "unlink"
  /\ \/ /\ worktree[Name(t)] = Absent
        /\ Abort(t, "Error")
        /\ UNCHANGED <<worktree, damaged>>
     \/ /\ worktree[Name(t)] # Absent
        /\ worktree' = [worktree EXCEPT ![Name(t)] = Absent]
        /\ Goto(t, "unlink", "remove")
        /\ UNCHANGED <<index, head, lock, damaged, uidMap, call, snap, answer, ops>>

\* Mutant of RemoveEntry: the removal is not committed.
RemoveEntryUncommitted(t) ==
  /\ snap[t][Name(t)] # Absent
  /\ Goto(t, "remove", "release")
  /\ snap' = [snap EXCEPT ![t][Name(t)] = Absent]
  /\ UNCHANGED <<disk, uidMap, call, answer, ops>>

\* del index[name] and the commit; a missing entry is a KeyError.
RemoveEntry(t) ==
  /\ pc[t] = "remove"
  /\ \/ /\ snap[t][Name(t)] = Absent
        /\ Abort(t, "Error")
     \/ /\ snap[t][Name(t)] # Absent
        /\ Goto(t, "remove", "release")
        /\ snap' = [snap EXCEPT ![t][Name(t)] = Absent]
        /\ head' = snap'[t]
        /\ UNCHANGED <<index, lock, uidMap, call, answer, ops>>
  /\ UNCHANGED <<worktree, damaged>>

\* The end of the with block renames index.lock over the index.
ReleaseLock(t) ==
  /\ pc[t] = "release"
  /\ index' = snap[t]
  /\ lock' = Free
  /\ damaged' = damaged \ {Name(t)}
  /\ Finish(t, "ok")
  /\ UNCHANGED <<worktree, head, uidMap, call, snap, ops>>

-----------------------------------------------------------------------------
\* Mutant of Crash: a lock that vanishes with its owner.
CrashUnlocks ==
  /\ lock' = Free
  /\ damaged' = damaged \cup {Name(t) : t \in {u \in Threads : pc[u] \in Locked}}
  /\ uidMap' = EmptyListing
  /\ pc' = [t \in Threads |-> "idle"]
  /\ answer' = [t \in Threads |-> IF pc[t] = "idle" THEN answer[t] ELSE "crashed"]
  /\ UNCHANGED <<worktree, index, head, call, snap, ops>>

\* The process dies: index.lock stays behind, and nothing ever removes it.
Crash ==
  /\ lock' = IF lock = Free THEN Free ELSE Stale
  /\ damaged' = damaged \cup {Name(t) : t \in {u \in Threads : pc[u] \in Locked}}
  /\ uidMap' = EmptyListing
  /\ pc' = [t \in Threads |-> "idle"]
  /\ answer' = [t \in Threads |-> IF pc[t] = "idle" THEN answer[t] ELSE "crashed"]
  /\ UNCHANGED <<worktree, index, head, call, snap, ops>>

Start ==
  \/ \E t \in Loops, n \in Names, b \in Bodies : StartCreate(t, n, b)
  \/ \E t \in Workers, n \in Names, b \in Bodies : StartReplace(t, n, b)
  \/ \E t \in Loops, n \in Names : StartDelete(t, n)

Step(t) ==
  \/ ScanUids(t) \/ PublishUids(t) \/ LookUpUid(t) \/ CheckEtag(t) \/ ReadFile(t)
  \/ AcquireLock(t) \/ LockIsTaken(t)
  \/ TruncateFile(t) \/ FillFile(t) \/ DiskFull(t) \/ Commit(t)
  \/ Unlink(t) \/ RemoveEntry(t) \/ ReleaseLock(t)

Next == Start \/ Crash \/ \E t \in Threads : Step(t)

Spec == Init /\ [][Next]_vars

\* A thread that is inside a call is scheduled again and again until it ends.
FairSpec == Spec /\ \A t \in Threads : WF_vars(Step(t))

-----------------------------------------------------------------------------
(* Properties *)

\* Every variable keeps its shape; in particular neither the index nor HEAD
\* ever lists a half-written file.
TypeOK ==
  /\ worktree \in [Names -> Bodies \cup {Absent, Torn}]
  /\ index \in Listing /\ head \in Listing /\ uidMap \in Listing
  /\ lock \in Threads \cup {Free, Stale}
  /\ pc \in [Threads -> Unlocked \cup Locked]
  /\ call \in [Threads -> Calls]
  /\ snap \in [Threads -> Listing]
  /\ answer \in [Threads -> Failures \cup {"none", "ok", "crashed"}]
  /\ damaged \subseteq Names
  /\ ops \in 0 .. MaxOps

\* Whenever no index.lock exists, the index lists exactly the tree of HEAD:
\* what DAV clients see is what git clients see.  The commit moves HEAD before
\* the index is renamed, so this needs the lock, also across a crash.
HeadMatchesIndex == lock = Free => head = index

\* Whenever no index.lock exists, the files of the working tree are the members
\* (delete_one compares etags with the files, everyone else with the index).
\* ENOSPC breaks this for the member it hits, until that is written again.
WorktreeMatchesIndex ==
  lock = Free => \A n \in Names \ damaged : worktree[n] = index[n]

\* After a crash at any point (index.lock left behind) HEAD is at most one
\* member ahead of the index, and only that member's file can differ too.
CrashLosesOneMember ==
  \E n \in Names : \A m \in Names \ {n} :
    index[m] = head[m] /\ (m \notin damaged => worktree[m] = index[m])

\* Concurrent calls on different members never undo each other: a commit, and
\* an index that replaces another, differ from their predecessor in one member.
OneMemberPerCommit ==
  [][/\ \E n \in Names : \A m \in Names \ {n} : head'[m] = head[m]
     /\ \E n \in Names : \A m \in Names \ {n} : index'[m] = index[m]]_<<head, index>>

\* No two members share a UID (notes/store.rst: "UIDs are unique").
UidsUnique ==
  RequireUniqueUids =>
    \A n, m \in Names :
      (n # m /\ index[n] # Absent /\ index[m] # Absent /\ UidOf[index[n]] # NoUid)
        => UidOf[index[n]] # UidOf[index[m]]

\* A replacement or a deletion takes effect only on the version its etag names
\* (the "Raises: InvalidETag" of import_one and delete_one).
ConditionalWrites ==
  [][\A t \in Threads :
       (pc[t] = "release" /\ pc'[t] = "idle" /\ answer'[t] = "ok") => EtagMatches(t)]_vars

\* delete_one raises InvalidETag only "if the specified ETag doesn't match the
\* current" one.  It is not true of a member that ENOSPC or a crash has damaged:
\* its file differs from the version that GET and PROPFIND show.
InvalidETagIsTrue ==
  [][\A t \in Threads :
       (answer[t] # "InvalidETag" /\ answer'[t] = "InvalidETag" /\ Name(t) \notin damaged)
         => ~EtagMatches(t)]_vars

\* The inductive invariant behind the three disk invariants.  Exactly the
\* holder of index.lock is inside the with block; until it commits, HEAD and
\* its copy of the index are the index on disk; afterwards HEAD is its copy.
\* Everything it has changed so far concerns the one member it was called for.
HolderInside == \A t \in Threads : pc[t] \in Locked <=> lock = t

CallIsSound ==
  \A t \in Threads :
    /\ pc[t] \in {"truncate", "fill", "commit"} => ~Deletes(t)
    /\ pc[t] \in {"unlink", "remove"} => Deletes(t)

HolderCopy ==
  \A t \in Threads : lock = t =>
    /\ pc[t] # "release" => head = index /\ snap[t] = index
    /\ pc[t] = "release" => head = snap[t] /\ snap[t][Name(t)] = Body(t)
    /\ \A m \in Names \ {Name(t)} : snap[t][m] = index[m]

HolderFile ==
  \A t \in Threads : lock = t =>
    /\ \A m \in Names \ (damaged \cup {Name(t)}) : worktree[m] = index[m]
    /\ (pc[t] \in {"truncate", "unlink"} /\ Name(t) \notin damaged)
         => worktree[Name(t)] = index[Name(t)]
    /\ pc[t] = "commit" => worktree[Name(t)] = Body(t)
    /\ pc[t] = "remove" => worktree[Name(t)] = Absent
    /\ pc[t] = "release" => worktree[Name(t)] = snap[t][Name(t)]

IInv ==
  /\ TypeOK /\ HolderInside /\ CallIsSound /\ HolderCopy /\ HolderFile
  /\ WorktreeMatchesIndex /\ HeadMatchesIndex /\ CrashLosesOneMember

\* Whoever creates index.lock removes it, by renaming or by aborting, or dies.
LockIsReleased == \A t \in Threads : (lock = t) ~> (lock \in {Free, Stale})

\* Every call returns or raises.
CallsReturn == \A t \in Threads : (pc[t] # "idle") ~> (pc[t] = "idle")

-----------------------------------------------------------------------------
(* The abstract collection that this store implements.                     *)

\* Writing b at n gives b's UID to a second member.
Clashes(m, n, b) ==
  /\ RequireUniqueUids
  /\ UidOf[b] # NoUid
  /\ Owners(m, UidOf[b]) \ {n} # {}

Promise == INSTANCE VersionedCollection
  WITH members <- index,
       running <- {t \in Threads : pc[t] # "idle"},
       Clash <- Clashes

\* Answers are truthful and calls are atomic, under any interleaving.
KeepsPromise == Promise!Spec

\* With the docstrings' preconditions, when nothing else runs.
KeepsStrictPromise == Promise!StrictSpec

\* The inductive invariant of a store with one thread, on top of IInv: what a
\* call has checked before it takes the lock stays true until its answer.
Checked(t) ==
  /\ pc[t] # "idle" => EtagMatches(t)
  /\ pc[t] \in {"scan", "publish", "lookup", "etag"} => ~Deletes(t)
  /\ pc[t] = "readfile" => Deletes(t) /\ Etag(t) # Absent
  /\ pc[t] = "publish" => snap[t] = index
  /\ pc[t] = "lookup" => uidMap = index
  /\ pc[t] \in Locked \cup {"etag", "acquire"} /\ ~Deletes(t)
       => ~Clashes(index, Name(t), Body(t))
  /\ pc[t] \in Unlocked => \A n \in Names \ damaged : worktree[n] = index[n]

SequentialInv == UidsUnique /\ \A t \in Threads : Checked(t)
=============================================================================

------------------------- MODULE TreeGitStoreProofs -------------------------
(***************************************************************************)
(* Proofs about TreeGitStore, for any number of threads, members and       *)
(* bodies, ENOSPC and crashes at any point.                                *)
(***************************************************************************)
EXTENDS TreeGitStore, TLAPS

\* The steps that leave the disk alone: everything outside the lock.
Quiet(t) ==
  \/ ScanUids(t) \/ PublishUids(t) \/ LookUpUid(t) \/ CheckEtag(t) \/ ReadFile(t)
  \/ LockIsTaken(t)

\* The steps that begin, do or end work under the lock.
Busy(t) ==
  \/ AcquireLock(t) \/ TruncateFile(t) \/ FillFile(t) \/ DiskFull(t) \/ Commit(t)
  \/ Unlink(t) \/ RemoveEntry(t) \/ ReleaseLock(t)

-----------------------------------------------------------------------------
(* Type correctness. *)

LEMMA InitTypeOK == Init => TypeOK
  <1>1. (CHOOSE n \in Names : TRUE) \in Names
    BY NamesAssumption
  <1> QED
    BY <1>1, SwitchAssumption
    DEF Init, TypeOK, Listing, EmptyListing, Calls, Unlocked

LEMMA StartTypeOK == TypeOK /\ Start => TypeOK'
  <1> SUFFICES ASSUME TypeOK, NEW t \in Threads, NEW n \in Names,
                      NEW b \in Bodies \cup {Absent}, NEW e \in Bodies \cup {Absent},
                      NEW first \in {"scan", "etag", "readfile"},
                      Begin(t, n, b, e, first)
               PROVE  TypeOK'
    BY DEF Start, StartCreate, StartReplace, StartDelete, FirstImportStep, Threads,
           TypeOK, Listing
  <1>1. [name |-> n, body |-> b, etag |-> e] \in Calls
    BY DEF Calls
  <1> QED
    BY <1>1, SwitchAssumption DEF TypeOK, Begin, Goto, Unlocked, disk

LEMMA QuietTypeOK == ASSUME NEW t \in Threads PROVE TypeOK /\ Quiet(t) => TypeOK'
  <1> USE DEF TypeOK, Goto, Finish, Unlocked, disk, Failures
  <1> SUFFICES ASSUME TypeOK, Quiet(t) PROVE TypeOK'
    OBVIOUS
  <1>1. CASE ScanUids(t)      BY <1>1 DEF ScanUids
  <1>2. CASE PublishUids(t)   BY <1>2 DEF PublishUids
  <1>3. CASE LookUpUid(t)     BY <1>3 DEF LookUpUid
  <1>4. CASE CheckEtag(t)     BY <1>4 DEF CheckEtag
  <1>5. CASE ReadFile(t)      BY <1>5 DEF ReadFile
  <1>6. CASE LockIsTaken(t)   BY <1>6 DEF LockIsTaken
  <1> QED
    BY <1>1, <1>2, <1>3, <1>4, <1>5, <1>6 DEF Quiet

LEMMA BusyTypeOK == ASSUME NEW t \in Threads PROVE TypeOK /\ Busy(t) => TypeOK'
  <1> SUFFICES ASSUME TypeOK, Busy(t) PROVE TypeOK'
    OBVIOUS
  <1>c. /\ Name(t) \in Names
        /\ Body(t) \in Bodies \cup {Absent}
    BY DEF TypeOK, Calls, Name, Body
  <1>s. ASSUME NEW b \in Bodies \cup {Absent}
        PROVE  [snap EXCEPT ![t][Name(t)] = b] \in [Threads -> Listing]
    BY <1>c DEF TypeOK, Listing
  <1>h. ASSUME NEW b \in Bodies \cup {Absent}
        PROVE  [snap EXCEPT ![t][Name(t)] = b][t] \in Listing
    BY <1>s
  <1> USE DEF TypeOK, Goto, Finish, Abort, Unlocked, Locked, Failures
  <1>1. CASE AcquireLock(t)   BY <1>1 DEF AcquireLock
  <1>2. CASE TruncateFile(t)  BY <1>2, <1>c DEF TruncateFile
  <1>3. CASE FillFile(t)      BY <1>3, <1>c DEF FillFile
  <1>4. CASE DiskFull(t)      BY <1>4, <1>c DEF DiskFull
  <1>5. CASE Commit(t)        BY <1>5, <1>c, <1>s, <1>h DEF Commit
  <1>6. CASE Unlink(t)        BY <1>6, <1>c DEF Unlink
  <1>7. CASE RemoveEntry(t)
    <2>1. CASE snap[t][Name(t)] = Absent
      BY <1>7, <2>1 DEF RemoveEntry
    <2>2. CASE snap[t][Name(t)] # Absent
      BY <1>7, <2>2, <1>c, <1>s, <1>h DEF RemoveEntry
    <2> QED
      BY <2>1, <2>2
  <1>8. CASE ReleaseLock(t)   BY <1>8 DEF ReleaseLock
  <1> QED
    BY <1>1, <1>2, <1>3, <1>4, <1>5, <1>6, <1>7, <1>8 DEF Busy

LEMMA CrashTypeOK == TypeOK /\ Crash => TypeOK'
  <1> SUFFICES ASSUME TypeOK, Crash PROVE TypeOK'
    OBVIOUS
  <1>1. \A t \in Threads : Name(t) \in Names
    BY DEF TypeOK, Calls, Name
  <1>2. damaged' \subseteq Names
    BY <1>1 DEF TypeOK, Crash
  <1> QED
    BY <1>2 DEF TypeOK, Crash, Listing, EmptyListing, Unlocked

\* TypeOK holds in every reachable state: in particular a half-written file
\* never reaches the index or a commit.
THEOREM TypeCorrect == Spec => []TypeOK
  <1>1. TypeOK /\ [Next]_vars => TypeOK'
    <2> SUFFICES ASSUME TypeOK, [Next]_vars PROVE TypeOK'
      OBVIOUS
    <2>1. CASE Start
      BY <2>1, StartTypeOK
    <2>2. CASE Crash
      BY <2>2, CrashTypeOK
    <2>3. ASSUME NEW t \in Threads, Step(t) PROVE TypeOK'
      BY <2>3, QuietTypeOK, BusyTypeOK DEF Step, Quiet, Busy
    <2>4. CASE UNCHANGED vars
      BY <2>4 DEF vars, TypeOK
    <2> QED
      BY <2>1, <2>2, <2>3, <2>4 DEF Next
  <1> QED
    BY InitTypeOK, <1>1, PTL DEF Spec

-----------------------------------------------------------------------------
(* The inductive invariant. *)

LEMMA InitIInv == Init => IInv
  <1> SUFFICES ASSUME Init PROVE IInv
    OBVIOUS
  <1>1. TypeOK
    BY InitTypeOK
  <1>2. /\ HolderInside /\ CallIsSound /\ HolderCopy /\ HolderFile
        /\ WorktreeMatchesIndex /\ HeadMatchesIndex
    BY MarkerAssumption
    DEF Init, HolderInside, CallIsSound, HolderCopy, HolderFile,
        WorktreeMatchesIndex, HeadMatchesIndex, Locked
  <1>3. CrashLosesOneMember
    BY NamesAssumption DEF Init, CrashLosesOneMember
  <1> QED
    BY <1>1, <1>2, <1>3 DEF IInv

\* A thread that stays outside the lock and leaves the disk alone.
LEMMA OutsideKeepsIInv ==
  ASSUME IInv, TypeOK', UNCHANGED disk,
         NEW t \in Threads, pc[t] \in Unlocked, pc'[t] \in Unlocked,
         \A u \in Threads \ {t} :
           pc'[u] = pc[u] /\ snap'[u] = snap[u] /\ call'[u] = call[u]
  PROVE  IInv'
  <1> USE DEF IInv, disk
  <1>1. lock # t
    BY DEF HolderInside, Locked, Unlocked
  <1>2. HolderInside'
    BY DEF HolderInside, Locked, Unlocked
  <1>3. CallIsSound'
    BY DEF CallIsSound, Deletes, Body, Unlocked
  <1>4. HolderCopy'
    BY <1>1 DEF HolderCopy, Name, Body
  <1>5. HolderFile'
    BY <1>1 DEF HolderFile, Name, Body
  <1>6. HeadMatchesIndex' /\ CrashLosesOneMember' /\ WorktreeMatchesIndex'
    BY DEF HeadMatchesIndex, CrashLosesOneMember, WorktreeMatchesIndex
  <1> QED
    BY <1>2, <1>3, <1>4, <1>5, <1>6

LEMMA StartKeepsIInv == IInv /\ Start => IInv'
  <1> SUFFICES ASSUME IInv, Start PROVE IInv'
    OBVIOUS
  <1>1. TypeOK /\ TypeOK'
    BY StartTypeOK DEF IInv
  <1>2. PICK t \in Threads, n \in Names, b \in Bodies \cup {Absent},
             e \in Bodies \cup {Absent}, first \in {"scan", "etag", "readfile"} :
          Begin(t, n, b, e, first)
    BY <1>1 DEF Start, StartCreate, StartReplace, StartDelete, FirstImportStep, Threads,
                TypeOK, Listing
  <1>3. pc[t] \in Unlocked /\ pc'[t] \in Unlocked /\ UNCHANGED disk
    BY <1>1, <1>2 DEF Begin, Goto, TypeOK, Unlocked
  <1>4. \A u \in Threads \ {t} :
          pc'[u] = pc[u] /\ snap'[u] = snap[u] /\ call'[u] = call[u]
    BY <1>1, <1>2 DEF Begin, Goto, TypeOK
  <1> QED
    BY <1>1, <1>3, <1>4, OutsideKeepsIInv

LEMMA QuietKeepsIInv ==
  ASSUME NEW t \in Threads PROVE IInv /\ Quiet(t) => IInv'
  <1> SUFFICES ASSUME IInv, Quiet(t) PROVE IInv'
    OBVIOUS
  <1>1. TypeOK /\ TypeOK'
    BY QuietTypeOK DEF IInv
  <1>2. /\ pc[t] \in Unlocked /\ pc'[t] \in Unlocked /\ UNCHANGED disk
        /\ \A u \in Threads \ {t} :
             pc'[u] = pc[u] /\ snap'[u] = snap[u] /\ call'[u] = call[u]
    <2> USE <1>1 DEF TypeOK, Goto, Finish, Unlocked
    <2>1. CASE ScanUids(t)      BY <2>1 DEF ScanUids
    <2>2. CASE PublishUids(t)   BY <2>2 DEF PublishUids
    <2>3. CASE LookUpUid(t)     BY <2>3 DEF LookUpUid
    <2>4. CASE CheckEtag(t)     BY <2>4 DEF CheckEtag
    <2>5. CASE ReadFile(t)      BY <2>5 DEF ReadFile
    <2>6. CASE LockIsTaken(t)   BY <2>6 DEF LockIsTaken
    <2> QED
      BY <2>1, <2>2, <2>3, <2>4, <2>5, <2>6 DEF Quiet
  <1> QED
    BY <1>1, <1>2, OutsideKeepsIInv

LEMMA CrashKeepsIInv == IInv /\ Crash => IInv'
  <1> SUFFICES ASSUME IInv, Crash PROVE IInv'
    OBVIOUS
  <1>1. TypeOK'
    BY CrashTypeOK DEF IInv
  <1>2. /\ lock' \in {Free, Stale}
        /\ lock' = Free => lock = Free
    BY MarkerAssumption DEF Crash
  <1>3. HolderInside' /\ CallIsSound' /\ HolderCopy' /\ HolderFile'
    BY <1>2, MarkerAssumption
    DEF Crash, HolderInside, CallIsSound, HolderCopy, HolderFile, Locked
  <1>4. HeadMatchesIndex' /\ WorktreeMatchesIndex' /\ CrashLosesOneMember'
    BY <1>2 DEF IInv, Crash, HeadMatchesIndex, WorktreeMatchesIndex, CrashLosesOneMember
  <1> QED
    BY <1>1, <1>3, <1>4 DEF IInv

-----------------------------------------------------------------------------
(* The steps under the lock. *)

\* The thread inside the with block owns the lock, and nobody else is inside.
LEMMA OnlyHolder ==
  ASSUME IInv, NEW t \in Threads, pc[t] \in Locked
  PROVE  /\ lock = t /\ lock # Free /\ lock # Stale
         /\ \A u \in Threads \ {t} : pc[u] \notin Locked /\ lock # u
  BY MarkerAssumption DEF IInv, HolderInside

LEMMA AcquireKeepsIInv ==
  ASSUME NEW t \in Threads PROVE IInv /\ AcquireLock(t) => IInv'
  <1> SUFFICES ASSUME IInv, AcquireLock(t) PROVE IInv'
    OBVIOUS
  <1> USE DEF IInv, AcquireLock, Goto
  <1>1. TypeOK /\ TypeOK'
    BY BusyTypeOK DEF Busy
  <1>2. \A u \in Threads : pc[u] \notin Locked
    BY MarkerAssumption DEF HolderInside
  <1>3. /\ pc'[t] \in {"unlink", "truncate"} /\ snap'[t] = index
        /\ \A u \in Threads \ {t} : pc'[u] = pc[u]
    BY <1>1 DEF TypeOK
  <1>4. HolderInside'
    BY <1>2, <1>3 DEF HolderInside, Locked
  <1>5. CallIsSound'
    BY <1>1, <1>3 DEF CallIsSound, Deletes, Body, TypeOK
  <1>6. HolderCopy'
    BY <1>3 DEF HolderCopy, HeadMatchesIndex
  <1>7. HolderFile' /\ WorktreeMatchesIndex'
    BY <1>1, <1>3, MarkerAssumption
    DEF HolderFile, WorktreeMatchesIndex, TypeOK, Calls, Name
  <1>8. HeadMatchesIndex' /\ CrashLosesOneMember'
    BY MarkerAssumption DEF HeadMatchesIndex, CrashLosesOneMember
  <1> QED
    BY <1>1, <1>4, <1>5, <1>6, <1>7, <1>8

\* The two writes to the file change only the working tree.
LEMMA WriteKeepsIInv ==
  ASSUME NEW t \in Threads
  PROVE  IInv /\ (TruncateFile(t) \/ FillFile(t)) => IInv'
  <1> SUFFICES ASSUME IInv, TruncateFile(t) \/ FillFile(t) PROVE IInv'
    OBVIOUS
  <1> USE DEF IInv, TruncateFile, FillFile, Goto
  <1>1. TypeOK /\ TypeOK'
    BY BusyTypeOK DEF Busy
  <1>2. /\ pc[t] \in {"truncate", "fill"} /\ pc'[t] \in {"fill", "commit"}
        /\ \A u \in Threads \ {t} : pc'[u] = pc[u]
    BY <1>1 DEF TypeOK
  <1>3. pc[t] \in Locked /\ pc'[t] \in Locked
    BY <1>2 DEF Locked
  <1>4. lock = t /\ lock # Free /\ \A u \in Threads \ {t} : lock # u
    BY <1>3, OnlyHolder
  <1>5. HolderInside'
    BY <1>2, <1>3, <1>4 DEF HolderInside
  <1>6. CallIsSound'
    BY <1>1, <1>2 DEF CallIsSound, Deletes, Body, TypeOK
  <1>7. HolderCopy'
    BY <1>2, <1>4 DEF HolderCopy, Name, Body
  <1>8. \A m \in Names \ {Name(t)} : worktree'[m] = worktree[m]
    BY <1>1 DEF TypeOK
  <1>9. HolderFile'
    <2>1. Name(t) \in Names
      BY <1>1 DEF TypeOK, Calls, Name
    <2>2. pc'[t] = "commit" => worktree'[Name(t)] = Body(t)
      BY <1>1, <1>2, <2>1 DEF TypeOK
    <2> QED
      BY <1>2, <1>4, <1>8, <2>2 DEF HolderFile, Name, Body
  <1>10. WorktreeMatchesIndex'
    BY <1>4 DEF WorktreeMatchesIndex
  <1>11. CrashLosesOneMember'
    <2>1. Name(t) \in Names
      BY <1>1 DEF TypeOK, Calls, Name
    <2>2. \A m \in Names \ {Name(t)} :
            /\ index'[m] = head'[m]
            /\ m \notin damaged' => worktree'[m] = index'[m]
      BY <1>2, <1>4, <1>8 DEF HolderCopy, HolderFile
    <2> QED
      BY <2>1, <2>2 DEF CrashLosesOneMember
  <1> QED
    BY <1>1, <1>4, <1>5, <1>6, <1>7, <1>9, <1>10, <1>11 DEF HeadMatchesIndex

\* An exception before the commit gives the lock back with HEAD at the index.
LEMMA AbortKeepsIInv ==
  ASSUME IInv, TypeOK', NEW t \in Threads, NEW r, Abort(t, r), UNCHANGED worktree,
         pc[t] \in Locked \ {"release"},
         \/ damaged' = damaged \cup {Name(t)}
         \/ damaged' = damaged /\ (Name(t) \notin damaged => worktree[Name(t)] = index[Name(t)])
  PROVE  IInv'
  <1> USE DEF IInv, Abort, Finish
  <1>1. lock = t /\ \A u \in Threads \ {t} : pc[u] \notin Locked /\ lock # u
    BY OnlyHolder
  <1>2. pc'[t] = "idle" /\ \A u \in Threads \ {t} : pc'[u] = pc[u]
    BY DEF TypeOK
  <1>3. head' = index'
    BY <1>1 DEF HolderCopy, Locked
  <1>4. \A u \in Threads : pc'[u] \notin Locked /\ lock' # u
    BY <1>1, <1>2, MarkerAssumption DEF Locked
  <1>5. HolderInside' /\ HolderCopy' /\ HolderFile'
    BY <1>4 DEF HolderInside, HolderCopy, HolderFile
  <1>6. CallIsSound'
    BY <1>4 DEF CallIsSound, Locked
  <1>7. \A n \in Names \ damaged' : worktree'[n] = index'[n]
    BY <1>1 DEF HolderFile
  <1>8. HeadMatchesIndex' /\ WorktreeMatchesIndex' /\ CrashLosesOneMember'
    BY <1>3, <1>7, NamesAssumption
    DEF HeadMatchesIndex, WorktreeMatchesIndex, CrashLosesOneMember
  <1> QED
    BY <1>5, <1>6, <1>8

\* The commit moves HEAD to the holder's copy, which differs from the index in
\* the called member only.
LEMMA CommitKeepsIInv ==
  ASSUME NEW t \in Threads, NEW b \in Bodies \cup {Absent},
         IInv, TypeOK',
         pc[t] \in {"commit", "remove"}, pc'[t] = "release",
         \A u \in Threads \ {t} : pc'[u] = pc[u],
         snap' = [snap EXCEPT ![t][Name(t)] = b],
         b = Body(t),
         head' = snap'[t] \/ (snap[t][Name(t)] = b /\ head' = head),
         worktree[Name(t)] = b,
         UNCHANGED <<worktree, index, lock, damaged, call>>
  PROVE  IInv'
  <1> USE DEF IInv
  <1>1. Name(t) \in Names /\ TypeOK
    BY DEF TypeOK, Calls, Name
  <1>2. /\ lock = t /\ lock # Free
        /\ \A u \in Threads \ {t} : pc[u] \notin Locked /\ lock # u
    BY OnlyHolder DEF Locked
  <1>3. head = index /\ snap[t] = index
    BY <1>2 DEF HolderCopy
  <1>4. snap'[t] = [index EXCEPT ![Name(t)] = b]
    BY <1>1, <1>3 DEF TypeOK
  <1>5. head' = snap'[t]
    BY <1>1, <1>3, <1>4 DEF TypeOK, Listing
  <1>6. \A m \in Names \ {Name(t)} : snap'[t][m] = index[m]
    BY <1>1, <1>4 DEF TypeOK, Listing
  <1>7. HolderInside'
    BY <1>2 DEF HolderInside, Locked
  <1>8. CallIsSound'
    BY DEF CallIsSound, Deletes, Body
  <1>9. HolderCopy'
    <2>1. snap'[t][Name(t)] = Body(t)
      BY <1>1, <1>4 DEF TypeOK, Listing
    <2> QED
      BY <1>2, <1>5, <1>6, <2>1 DEF HolderCopy, Name, Body
  <1>10. HolderFile'
    <2>1. snap'[t][Name(t)] = worktree'[Name(t)]
      BY <1>1, <1>4 DEF TypeOK, Listing
    <2> QED
      BY <1>2, <2>1 DEF HolderFile, Name
  <1>11. WorktreeMatchesIndex' /\ HeadMatchesIndex'
    BY <1>2 DEF HeadMatchesIndex, WorktreeMatchesIndex
  <1>12. CrashLosesOneMember'
    BY <1>1, <1>2, <1>5, <1>6 DEF CrashLosesOneMember, HolderFile
  <1> QED
    BY <1>7, <1>8, <1>9, <1>10, <1>11, <1>12

LEMMA UnlinkKeepsIInv ==
  ASSUME NEW t \in Threads PROVE IInv /\ Unlink(t) => IInv'
  <1> SUFFICES ASSUME IInv, Unlink(t) PROVE IInv'
    OBVIOUS
  <1> USE DEF IInv, Unlink
  <1>1. TypeOK /\ TypeOK' /\ Name(t) \in Names
    BY BusyTypeOK DEF Busy, TypeOK, Calls, Name
  <1>2. /\ lock = t /\ lock # Free
        /\ \A u \in Threads \ {t} : pc[u] \notin Locked /\ lock # u
    BY OnlyHolder DEF Locked
  <1>3. /\ Name(t) \notin damaged => worktree[Name(t)] = index[Name(t)]
        /\ head = index /\ snap[t] = index
    BY <1>2 DEF HolderFile, HolderCopy
  <1>4. CASE worktree[Name(t)] = Absent
    BY <1>1, <1>3, <1>4, AbortKeepsIInv DEF Locked
  <1>5. CASE worktree[Name(t)] # Absent
    <2>1. /\ worktree' = [worktree EXCEPT ![Name(t)] = Absent]
          /\ pc'[t] = "remove" /\ \A u \in Threads \ {t} : pc'[u] = pc[u]
          /\ UNCHANGED <<index, head, lock, damaged, call, snap>>
      BY <1>1, <1>5 DEF Goto, TypeOK, Abort
    <2>2. HolderInside' /\ HolderCopy'
      BY <1>2, <1>3, <2>1 DEF HolderInside, HolderCopy, Locked, Name, Body
    <2>3. CallIsSound'
      BY <2>1 DEF CallIsSound, Deletes, Body
    <2>4. \A m \in Names \ {Name(t)} : worktree'[m] = worktree[m]
      BY <1>1, <2>1 DEF TypeOK
    <2>5. HolderFile'
      <3>1. worktree'[Name(t)] = Absent
        BY <1>1, <2>1 DEF TypeOK
      <3> QED
        BY <1>2, <2>1, <2>4, <3>1 DEF HolderFile, Name
    <2>6. WorktreeMatchesIndex' /\ HeadMatchesIndex'
      BY <1>2, <2>1 DEF HeadMatchesIndex, WorktreeMatchesIndex
    <2>7. CrashLosesOneMember'
      BY <1>1, <1>2, <1>3, <2>1, <2>4 DEF CrashLosesOneMember, HolderFile
    <2> QED
      BY <1>1, <2>2, <2>3, <2>5, <2>6, <2>7
  <1> QED
    BY <1>4, <1>5

LEMMA ReleaseKeepsIInv ==
  ASSUME NEW t \in Threads PROVE IInv /\ ReleaseLock(t) => IInv'
  <1> SUFFICES ASSUME IInv, ReleaseLock(t) PROVE IInv'
    OBVIOUS
  <1> USE DEF IInv, ReleaseLock, Finish
  <1>1. TypeOK /\ TypeOK'
    BY BusyTypeOK DEF Busy
  <1>2. /\ lock = t
        /\ \A u \in Threads \ {t} : pc[u] \notin Locked /\ lock # u
    BY OnlyHolder DEF Locked
  <1>3. /\ head' = index'
        /\ \A n \in Names \ damaged' : worktree'[n] = index'[n]
    BY <1>2 DEF HolderCopy, HolderFile
  <1>4. pc'[t] = "idle" /\ \A u \in Threads \ {t} : pc'[u] = pc[u]
    BY <1>1 DEF TypeOK
  <1>5. \A u \in Threads : pc'[u] \notin Locked /\ lock' # u
    BY <1>2, <1>4, MarkerAssumption DEF Locked
  <1>6. HolderInside' /\ HolderCopy' /\ HolderFile' /\ CallIsSound'
    BY <1>5 DEF HolderInside, HolderCopy, HolderFile, CallIsSound, Locked
  <1>7. HeadMatchesIndex' /\ WorktreeMatchesIndex' /\ CrashLosesOneMember'
    BY <1>3, NamesAssumption
    DEF HeadMatchesIndex, WorktreeMatchesIndex, CrashLosesOneMember
  <1> QED
    BY <1>1, <1>6, <1>7

LEMMA BusyKeepsIInv ==
  ASSUME NEW t \in Threads PROVE IInv /\ Busy(t) => IInv'
  <1> SUFFICES ASSUME IInv, Busy(t) PROVE IInv'
    OBVIOUS
  <1>1. TypeOK /\ TypeOK' /\ Name(t) \in Names /\ Body(t) \in Bodies \cup {Absent}
    BY BusyTypeOK DEF IInv, TypeOK, Calls, Name, Body
  <1>2. CASE AcquireLock(t)
    BY <1>2, AcquireKeepsIInv
  <1>3. CASE TruncateFile(t) \/ FillFile(t)
    BY <1>3, WriteKeepsIInv
  <1>4. CASE DiskFull(t)
    BY <1>1, <1>4, AbortKeepsIInv DEF DiskFull, Locked
  <1>5. CASE Commit(t)
    <2>1. pc[t] \in Locked
      BY <1>5 DEF Commit, Goto, Locked
    <2>2. worktree[Name(t)] = Body(t)
      BY <1>5, <2>1, OnlyHolder DEF IInv, HolderFile, Commit, Goto
    <2>3. pc'[t] = "release" /\ \A u \in Threads \ {t} : pc'[u] = pc[u]
      BY <1>1, <1>5 DEF Commit, Goto, TypeOK
    <2> QED
      BY <1>1, <1>5, <2>2, <2>3, CommitKeepsIInv DEF Commit, Goto
  <1>6. CASE Unlink(t)
    BY <1>6, UnlinkKeepsIInv
  <1>7. CASE RemoveEntry(t)
    <2> USE <1>7 DEF RemoveEntry
    <2>1. lock = t
      BY OnlyHolder DEF Locked
    <2>2. worktree[Name(t)] = Absent /\ snap[t] = index
      BY <2>1 DEF IInv, HolderFile, HolderCopy
    <2>3. CASE snap[t][Name(t)] = Absent
      BY <1>1, <2>2, <2>3, AbortKeepsIInv DEF Locked
    <2>4. CASE snap[t][Name(t)] # Absent
      <3>1. pc'[t] = "release" /\ \A u \in Threads \ {t} : pc'[u] = pc[u]
        BY <1>1, <2>4 DEF Goto, TypeOK
      <3> QED
        BY <1>1, <2>2, <2>4, <3>1, CommitKeepsIInv DEF Goto, IInv, CallIsSound, Deletes
    <2> QED
      BY <2>3, <2>4
  <1>8. CASE ReleaseLock(t)
    BY <1>8, ReleaseKeepsIInv
  <1> QED
    BY <1>2, <1>3, <1>4, <1>5, <1>6, <1>7, <1>8 DEF Busy

\* Every step keeps the inductive invariant.
LEMMA NextKeepsIInv == IInv /\ [Next]_vars => IInv'
  <1> SUFFICES ASSUME IInv, [Next]_vars PROVE IInv'
    OBVIOUS
  <1>1. CASE Start
    BY <1>1, StartKeepsIInv
  <1>2. CASE Crash
    BY <1>2, CrashKeepsIInv
  <1>3. ASSUME NEW t \in Threads, Step(t) PROVE IInv'
    BY <1>3, QuietKeepsIInv, BusyKeepsIInv DEF Step, Quiet, Busy
  <1>4. CASE UNCHANGED vars
    BY <1>4
    DEF vars, IInv, TypeOK, HolderInside, CallIsSound, HolderCopy, HolderFile,
        WorktreeMatchesIndex, HeadMatchesIndex, CrashLosesOneMember,
        Deletes, Body, Name
  <1> QED
    BY <1>1, <1>2, <1>3, <1>4 DEF Next

THEOREM Invariant == Spec => []IInv
  BY InitIInv, NextKeepsIInv, PTL DEF Spec

\* Without an index.lock, DAV clients (the index) and git clients (HEAD) see
\* the same collection, whatever crashed or ran out of space before.
THEOREM HeadFollowsIndex == Spec => []HeadMatchesIndex
  <1>1. IInv => HeadMatchesIndex
    BY DEF IInv
  <1> QED
    BY <1>1, Invariant, PTL

\* The files agree with the index as well, but for members whose last call
\* was cut short: an etag read from the one is valid for the other.
THEOREM FilesFollowIndex == Spec => []WorktreeMatchesIndex
  <1>1. IInv => WorktreeMatchesIndex
    BY DEF IInv
  <1> QED
    BY <1>1, Invariant, PTL

\* Wherever the process dies, the three copies differ in one member at most.
THEOREM CrashIsBounded == Spec => []CrashLosesOneMember
  <1>1. IInv => CrashLosesOneMember
    BY DEF IInv
  <1> QED
    BY <1>1, Invariant, PTL

-----------------------------------------------------------------------------
(* What a step may do to HEAD and to the index. *)

OnlyOne(new, old) == \E n \in Names : \A m \in Names \ {n} : new[m] = old[m]

LEMMA SameListing == ASSUME NEW f PROVE OnlyOne(f, f)
  BY NamesAssumption DEF OnlyOne

\* No commit and no new index touches more than one member: two calls that
\* interleave cannot take back each other's change to another member.
THEOREM CommitsAreLocal == Spec => OneMemberPerCommit
  <1>1. ASSUME IInv, [Next]_vars PROVE OnlyOne(head', head) /\ OnlyOne(index', index)
    <2> USE <1>1, SameListing DEF IInv
    <2>1. CASE Start
      BY <2>1 DEF Start, StartCreate, StartReplace, StartDelete, Begin, disk
    <2>2. CASE Crash
      BY <2>2 DEF Crash
    <2>3. ASSUME NEW t \in Threads, Step(t)
          PROVE  OnlyOne(head', head) /\ OnlyOne(index', index)
      <3>1. TypeOK /\ Name(t) \in Names
        BY DEF TypeOK, Calls, Name
      <3>2. CASE Commit(t) \/ RemoveEntry(t)
        <4> USE <3>2 DEF Commit, RemoveEntry
        <4>1. pc[t] \in {"commit", "remove"}
          BY DEF Goto
        <4>2. head = index /\ snap[t] = index
          BY <4>1, OnlyHolder DEF HolderCopy, Locked
        <4>3. head' = head \/ \E b : head' = [head EXCEPT ![Name(t)] = b]
          BY <3>1, <4>2 DEF TypeOK, Abort
        <4>4. OnlyOne(head', head)
          BY <3>1, <4>3 DEF OnlyOne, TypeOK, Listing
        <4> QED
          BY <4>4 DEF Abort
      <3>3. CASE ReleaseLock(t)
        <4>1. \A m \in Names \ {Name(t)} : snap[t][m] = index[m]
          BY <3>3, OnlyHolder DEF ReleaseLock, Locked, HolderCopy
        <4> QED
          BY <3>1, <3>3, <4>1 DEF ReleaseLock, OnlyOne
      <3>4. CASE ~(Commit(t) \/ RemoveEntry(t) \/ ReleaseLock(t))
        <4>1. UNCHANGED <<head, index>>
          BY <2>3, <3>4
          DEF Step, ScanUids, PublishUids, LookUpUid, CheckEtag, ReadFile, AcquireLock,
              LockIsTaken, TruncateFile, FillFile, DiskFull, Unlink, Abort, disk
        <4> QED
          BY <4>1
      <3> QED
        BY <3>2, <3>3, <3>4
    <2>4. CASE UNCHANGED vars
      BY <2>4 DEF vars
    <2> QED
      BY <2>1, <2>2, <2>3, <2>4 DEF Next
  <1>2. IInv /\ [Next]_vars =>
          [/\ \E n \in Names : \A m \in Names \ {n} : head'[m] = head[m]
           /\ \E n \in Names : \A m \in Names \ {n} : index'[m] = index[m]]_<<head, index>>
    BY <1>1 DEF OnlyOne
  <1> QED
    BY <1>2, Invariant, PTL DEF Spec, OneMemberPerCommit

-----------------------------------------------------------------------------
(* The store implements the abstract collection. *)

Running == {t \in Threads : pc[t] # "idle"}

\* A thread that goes on with its call is not seen by its caller.
LEMMA GoOnIsStutter ==
  ASSUME TypeOK, NEW t \in Threads, pc[t] # "idle", pc'[t] # "idle",
         \A u \in Threads \ {t} : pc'[u] = pc[u],
         UNCHANGED <<index, call, answer>>
  PROVE  UNCHANGED Promise!vars
  <1>1. Running' = Running
    BY DEF Running
  <1> QED
    BY <1>1 DEF Running, Promise!vars

\* A call that raises changes nothing.
LEMMA RaiseIsFail ==
  ASSUME TypeOK, NEW t \in Threads, pc[t] # "idle", NEW r \in Failures,
         Finish(t, r), UNCHANGED <<index, call>>
  PROVE  Promise!Fail(t)
  <1>1. Running' = Running \ {t}
    BY DEF Running, Finish, TypeOK
  <1> QED
    BY <1>1 DEF Running, Promise!Fail, Finish

LEMMA StepRefines ==
  ASSUME IInv, NEW t \in Threads, Step(t)
  PROVE  \/ ReleaseLock(t) /\ Promise!Succeed(t)
         \/ Promise!Fail(t)
         \/ UNCHANGED Promise!vars
  <1> USE DEF IInv
  <1>1. TypeOK /\ Name(t) \in Names
    BY DEF TypeOK, Calls, Name
  <1>2. pc[t] # "idle"
    BY DEF Step, ScanUids, PublishUids, LookUpUid, CheckEtag, ReadFile, AcquireLock,
           LockIsTaken, TruncateFile, FillFile, DiskFull, Commit, Unlink, RemoveEntry,
           ReleaseLock, Goto
  <1>3. ASSUME NEW r \in Failures, Finish(t, r), UNCHANGED <<index, call>>
        PROVE  Promise!Fail(t)
    BY <1>1, <1>2, <1>3, RaiseIsFail
  <1>4. ASSUME NEW here, NEW there \in Unlocked \cup Locked, there # "idle",
               Goto(t, here, there), UNCHANGED <<index, call, answer>>
        PROVE  UNCHANGED Promise!vars
    BY <1>1, <1>2, <1>4, GoOnIsStutter DEF Goto, TypeOK
  <1>5. CASE Quiet(t)
    <2> USE <1>3, <1>4 DEF disk, Failures, Unlocked
    <2>1. CASE ScanUids(t)      BY <2>1 DEF ScanUids
    <2>2. CASE PublishUids(t)   BY <2>2 DEF PublishUids
    <2>3. CASE LookUpUid(t)     BY <2>3 DEF LookUpUid
    <2>4. CASE CheckEtag(t)     BY <2>4 DEF CheckEtag
    <2>5. CASE ReadFile(t)      BY <2>5 DEF ReadFile
    <2>6. CASE LockIsTaken(t)   BY <2>6 DEF LockIsTaken
    <2> QED
      BY <1>5, <2>1, <2>2, <2>3, <2>4, <2>5, <2>6 DEF Quiet
  <1>6. CASE Busy(t) /\ ~ReleaseLock(t)
    <2> USE <1>3, <1>4 DEF Abort, Failures, Locked
    <2>1. CASE AcquireLock(t)   BY <2>1 DEF AcquireLock
    <2>2. CASE TruncateFile(t)  BY <2>2 DEF TruncateFile
    <2>3. CASE FillFile(t)      BY <2>3 DEF FillFile
    <2>4. CASE DiskFull(t)      BY <2>4 DEF DiskFull
    <2>5. CASE Commit(t)        BY <2>5 DEF Commit
    <2>6. CASE Unlink(t)        BY <2>6 DEF Unlink
    <2>7. CASE RemoveEntry(t)   BY <2>7 DEF RemoveEntry
    <2> QED
      BY <1>6, <2>1, <2>2, <2>3, <2>4, <2>5, <2>6, <2>7 DEF Busy
  <1>7. CASE ReleaseLock(t)
    <2>1. /\ snap[t][Name(t)] = Body(t)
          /\ \A m \in Names \ {Name(t)} : snap[t][m] = index[m]
      BY <1>7, OnlyHolder DEF ReleaseLock, Locked, HolderCopy
    <2>2. index' = [index EXCEPT ![Name(t)] = Body(t)]
      BY <1>1, <1>7, <2>1 DEF ReleaseLock, TypeOK, Listing
    <2>3. Running' = Running \ {t}
      BY <1>1, <1>7 DEF Running, ReleaseLock, Finish, TypeOK
    <2>4. Promise!Succeed(t)
      BY <1>2, <1>7, <2>2, <2>3
      DEF Promise!Succeed, Running, ReleaseLock, Finish, Name, Body
    <2> QED
      BY <1>7, <2>4
  <1> QED
    BY <1>5, <1>6, <1>7 DEF Step, Quiet, Busy

\* A step of the store is one of a caller's: it calls, gets its answer, or sees
\* nothing.
LEMMA NextRefines ==
  ASSUME IInv, [Next]_vars
  PROVE  \/ Promise!Crash
         \/ \E t \in Threads :
              \/ Promise!Start(t) \/ Promise!Fail(t)
              \/ ReleaseLock(t) /\ Promise!Succeed(t)
         \/ UNCHANGED Promise!vars
  <1>1. CASE Start
    <2>1. TypeOK
      BY DEF IInv
    <2>2. PICK t \in Threads, n \in Names, b \in Bodies \cup {Absent},
               e \in Bodies \cup {Absent}, first \in {"scan", "etag", "readfile"} :
            Begin(t, n, b, e, first)
      BY <1>1, <2>1
      DEF Start, StartCreate, StartReplace, StartDelete, FirstImportStep, Threads,
          TypeOK, Listing
    <2>3. Running' = Running \cup {t} /\ t \notin Running
      BY <2>1, <2>2 DEF Running, Begin, Goto, TypeOK
    <2>4. [name |-> n, body |-> b, etag |-> e] \in Promise!Calls
      BY DEF Promise!Calls
    <2>5. Promise!Start(t)
      BY <2>2, <2>3, <2>4 DEF Promise!Start, Running, Begin, disk
    <2> QED
      BY <2>5
  <1>2. CASE Crash
    <2>1. Running' = {}
      BY <1>2 DEF Running, Crash
    <2>2. answer' = [t \in Threads |-> IF t \in Running THEN "crashed" ELSE answer[t]]
      BY <1>2 DEF Running, Crash
    <2> QED
      BY <1>2, <2>1, <2>2 DEF Promise!Crash, Running, Crash
  <1>3. CASE \E t \in Threads : Step(t)
    BY <1>3, StepRefines
  <1>4. CASE UNCHANGED vars
    BY <1>4 DEF vars, Promise!vars
  <1> QED
    BY <1>1, <1>2, <1>3, <1>4 DEF Next

LEMMA InitRefines == Init => Promise!Init
  BY InitTypeOK DEF Init, Promise!Init, TypeOK, Calls, Promise!Calls, EmptyListing

\* Every behaviour of the store is one of the abstract collection: calls are
\* atomic, "ok" means done, a failure or a crash means not done, and nothing
\* else ever changes the collection.
THEOREM ImplementsPromise == Spec => KeepsPromise
  <1>1. IInv /\ [Next]_vars => [Promise!Next]_Promise!vars
    BY NextRefines DEF Promise!Next
  <1> QED
    BY InitRefines, <1>1, Invariant, PTL DEF Spec, KeepsPromise, Promise!Spec

-----------------------------------------------------------------------------
(* A store with one thread keeps the preconditions of the docstrings, too. *)

OneThread == \E t : Threads = {t}

\* A member whose UID no other member has can be written.
LEMMA WriteKeepsUidsUnique ==
  ASSUME TypeOK, UidsUnique, NEW n \in Names, NEW b \in Bodies \cup {Absent},
         b # Absent => ~Clashes(index, n, b),
         index' = [index EXCEPT ![n] = b]
  PROVE  UidsUnique'
  BY DEF UidsUnique, TypeOK, Listing, Clashes, Owners

\* What the look-up in a map that lists the index finds out: as UIDs are unique,
\* the last owner is the only one.
LEMMA LookUpExcludesClash ==
  ASSUME UidsUnique, NEW t \in Threads, uidMap = index, ~UidTaken(t)
  PROVE  ~Clashes(index, Name(t), Body(t))
  <1> DEFINE uid == UidOf[Body(t)]
  <1> SUFFICES ASSUME RequireUniqueUids, uid # NoUid,
                      NEW o \in Owners(index, uid) \ {Name(t)}
               PROVE  FALSE
    BY DEF Clashes
  <1>1. \A m \in Owners(index, uid) : m = o
    BY DEF UidsUnique, Owners
  <1>2. o <= o
    BY NamesAssumption DEF Owners
  <1>3. OwnerOf(index, uid) \in Owners(index, uid)
    BY <1>1, <1>2 DEF OwnerOf
  <1> QED
    BY <1>1, <1>3 DEF UidTaken

LEMMA InitSequential == Init => SequentialInv
  <1> SUFFICES ASSUME Init PROVE SequentialInv
    OBVIOUS
  <1>1. UidsUnique
    BY DEF Init, UidsUnique, EmptyListing
  <1>2. ASSUME NEW t \in Threads PROVE Checked(t)
    BY DEF Init, Checked, Locked, Unlocked
  <1> QED
    BY <1>1, <1>2 DEF SequentialInv

LEMMA StartKeepsSequential ==
  ASSUME OneThread, IInv, SequentialInv, Start
  PROVE  SequentialInv'
  <1>1. TypeOK
    BY DEF IInv
  <1> DEFINE Begins(t, n, b, e, first) ==
        /\ Begin(t, n, b, e, first)
        /\ e \in {Absent, index[n]}
        /\ first = "readfile" <=> b = Absent
        /\ first = "readfile" => e # Absent
        /\ first = "etag" => ~RequireUniqueUids \/ UidOf[b] = NoUid
  <1>a. ASSUME NEW t \in Threads, NEW n \in Names, NEW b \in Bodies, NEW e,
               Begin(t, n, b, e, FirstImportStep(b)), e \in {Absent, index[n]}
        PROVE  Begins(t, n, b, e, FirstImportStep(b))
    BY <1>a, MarkerAssumption DEF FirstImportStep
  <1>2. PICK t \in Threads, n \in Names, b \in Bodies \cup {Absent},
             e \in Bodies \cup {Absent}, first \in {"scan", "etag", "readfile"} :
          Begins(t, n, b, e, first)
    <2>1. ASSUME NEW t \in Threads, NEW n \in Names, NEW b \in Bodies, StartCreate(t, n, b)
          PROVE  Begins(t, n, b, Absent, FirstImportStep(b))
      BY <2>1, <1>a DEF StartCreate
    <2>2. ASSUME NEW t \in Threads, NEW n \in Names, NEW b \in Bodies, StartReplace(t, n, b)
          PROVE  index[n] \in Bodies /\ Begins(t, n, b, index[n], FirstImportStep(b))
      BY <1>1, <2>2, <1>a DEF StartReplace, TypeOK, Listing
    <2>3. ASSUME NEW t \in Threads, NEW n \in Names, StartDelete(t, n)
          PROVE  index[n] \in Bodies /\ Begins(t, n, Absent, index[n], "readfile")
      BY <1>1, <2>3 DEF StartDelete, TypeOK, Listing
    <2>4. \A b : FirstImportStep(b) \in {"scan", "etag", "readfile"}
      BY DEF FirstImportStep
    <2> HIDE DEF Begins
    <2> QED
      BY <2>1, <2>2, <2>3, <2>4 DEF Start, Threads
  <1>3. /\ pc[t] = "idle" /\ pc'[t] = first /\ UNCHANGED <<disk, uidMap>>
        /\ Name(t)' = n /\ Body(t)' = b /\ Etag(t)' = e
    BY <1>1, <1>2 DEF Begin, Goto, TypeOK, Name, Body, Etag
  <1>4. Checked(t)'
    BY <1>2, <1>3
    DEF SequentialInv, Checked, EtagMatches, Deletes, Clashes, Locked, Unlocked, disk
  <1>5. UidsUnique'
    BY <1>3 DEF SequentialInv, UidsUnique, disk
  <1>6. \A u \in Threads : u = t
    BY DEF OneThread
  <1> QED
    BY <1>4, <1>5, <1>6
    DEF SequentialInv, Checked, EtagMatches, Deletes, Clashes, Name, Body, Etag

\* The thread goes on inside the with block, or enters it.
LEMMA InsideKeepsSequential ==
  ASSUME OneThread, SequentialInv, NEW t \in Threads,
         pc[t] \in Locked \cup {"acquire"}, pc'[t] \in Locked, UNCHANGED <<index, call>>
  PROVE  SequentialInv'
  <1>1. \A u \in Threads : u = t
    BY DEF OneThread
  <1>2. UidsUnique'
    BY DEF SequentialInv, UidsUnique
  <1>3. Checked(t)'
    BY DEF SequentialInv, Checked, EtagMatches, Deletes, Name, Body, Etag, Clashes, Owners,
           Locked, Unlocked
  <1> QED
    BY <1>1, <1>2, <1>3 DEF SequentialInv, Checked, EtagMatches, Deletes, Name, Body, Etag

\* The call ends with the lock given back or not taken.
LEMMA EndKeepsSequential ==
  ASSUME OneThread, NEW t \in Threads, UidsUnique', pc'[t] = "idle",
         \A n \in Names \ damaged' : worktree'[n] = index'[n]
  PROVE  SequentialInv'
  <1>1. \A u \in Threads : u = t
    BY DEF OneThread
  <1>2. Checked(t)'
    BY DEF Checked, Locked
  <1> QED
    BY <1>1, <1>2 DEF SequentialInv, Checked

LEMMA QuietKeepsSequential ==
  ASSUME OneThread, IInv, SequentialInv, NEW t \in Threads, Quiet(t)
  PROVE  SequentialInv'
  <1>1. TypeOK /\ UidsUnique /\ Checked(t)
    BY DEF IInv, SequentialInv
  <1>2. \A u \in Threads : u = t
    BY DEF OneThread
  <1>3. UNCHANGED <<index, worktree, damaged, call>>
    BY DEF Quiet, ScanUids, PublishUids, LookUpUid, CheckEtag, ReadFile, LockIsTaken, disk
  <1>4. UidsUnique'
    BY <1>1, <1>3 DEF UidsUnique
  <1>5. pc[t] \in Unlocked \ {"idle"}
    BY DEF Quiet, ScanUids, PublishUids, LookUpUid, CheckEtag, ReadFile, LockIsTaken, Goto,
           Unlocked
  <1>6. \A n \in Names \ damaged' : worktree'[n] = index'[n]
    BY <1>1, <1>3, <1>5 DEF Checked
  <1>7. ASSUME NEW r, Finish(t, r) PROVE SequentialInv'
    <2>1. pc'[t] = "idle"
      BY <1>1, <1>7 DEF Finish, TypeOK
    <2> QED
      BY <1>4, <1>6, <2>1, EndKeepsSequential
  <1>8. ASSUME Checked(t)' PROVE SequentialInv'
    BY <1>2, <1>4, <1>8 DEF SequentialInv, Checked
  <1>9. /\ EtagMatches(t)' /\ (Deletes(t)' <=> Deletes(t))
        /\ Name(t)' = Name(t) /\ Body(t)' = Body(t)
        /\ Clashes(index, Name(t), Body(t))' <=> Clashes(index, Name(t), Body(t))
    <2>1. EtagMatches(t)
      BY <1>1, <1>5 DEF Checked
    <2>2. Name(t)' = Name(t) /\ Body(t)' = Body(t) /\ Etag(t)' = Etag(t)
      BY <1>3 DEF Name, Body, Etag
    <2>3. Owners(index, UidOf[Body(t)])' = Owners(index, UidOf[Body(t)])
      BY <1>3, <2>2 DEF Owners
    <2>4. EtagMatches(t)' /\ (Deletes(t)' <=> Deletes(t))
      BY <1>3, <2>1, <2>2 DEF EtagMatches, Deletes
    <2>5. Clashes(index, Name(t), Body(t))' <=> Clashes(index, Name(t), Body(t))
      BY <2>2, <2>3 DEF Clashes
    <2> QED
      BY <2>2, <2>4, <2>5
  <1> USE <1>1, <1>3, <1>6, <1>9 DEF Goto, TypeOK, Locked, Unlocked
  <1>10. CASE ScanUids(t)
    BY <1>8, <1>10 DEF ScanUids, Checked
  <1>11. CASE PublishUids(t)
    BY <1>8, <1>11 DEF PublishUids, Checked
  <1>12. CASE LookUpUid(t)
    <2>1. CASE UidTaken(t)
      BY <1>7, <1>12, <2>1 DEF LookUpUid
    <2>2. CASE ~UidTaken(t)
      <3>1. pc[t] = "lookup" /\ pc'[t] = "etag"
        BY <1>12, <2>2 DEF LookUpUid
      <3>2. ~Clashes(index, Name(t), Body(t))
        BY <2>2, <3>1, LookUpExcludesClash DEF Checked
      <3>3. Checked(t)'
        BY <3>1, <3>2 DEF Checked
      <3> QED
        BY <1>8, <3>3
    <2> QED
      BY <2>1, <2>2
  <1>13. CASE CheckEtag(t)
    BY <1>7, <1>8, <1>13 DEF CheckEtag, Checked
  <1>14. CASE ReadFile(t)
    BY <1>7, <1>8, <1>14 DEF ReadFile, Checked
  <1>15. CASE LockIsTaken(t)
    BY <1>7, <1>15 DEF LockIsTaken
  <1> QED
    BY <1>10, <1>11, <1>12, <1>13, <1>14, <1>15 DEF Quiet

\* What ReleaseLock publishes.
LEMMA ReleaseWrites ==
  ASSUME IInv, NEW t \in Threads, ReleaseLock(t)
  PROVE  index' = [index EXCEPT ![Name(t)] = Body(t)]
  <1>1. /\ snap[t][Name(t)] = Body(t)
        /\ \A m \in Names \ {Name(t)} : snap[t][m] = index[m]
    BY OnlyHolder DEF IInv, ReleaseLock, Locked, HolderCopy
  <1> QED
    BY <1>1 DEF IInv, ReleaseLock, TypeOK, Listing, Calls, Name

LEMMA BusyKeepsSequential ==
  ASSUME OneThread, IInv, SequentialInv, NEW t \in Threads, Busy(t)
  PROVE  SequentialInv'
  <1>1. TypeOK /\ UidsUnique /\ Checked(t)
    BY DEF IInv, SequentialInv
  <1>2. ASSUME NEW r, lock' = Free, Finish(t, r), UidsUnique' PROVE SequentialInv'
    <2>1. pc'[t] = "idle"
      BY <1>1, <1>2 DEF Finish, TypeOK
    <2>2. \A n \in Names \ damaged' : worktree'[n] = index'[n]
      BY <1>2, BusyKeepsIInv DEF IInv, WorktreeMatchesIndex
    <2> QED
      BY <1>2, <2>1, <2>2, EndKeepsSequential
  <1>3. ASSUME NEW r, Abort(t, r) PROVE SequentialInv'
    <2>1. UidsUnique'
      BY <1>1, <1>3 DEF Abort, UidsUnique
    <2> QED
      BY <1>2, <1>3, <2>1 DEF Abort
  <1>4. ASSUME NEW here \in Locked \cup {"acquire"}, NEW there \in Locked,
               Goto(t, here, there), UNCHANGED <<index, call>>
        PROVE  SequentialInv'
    BY <1>1, <1>4, InsideKeepsSequential DEF Goto, TypeOK
  <1>5. CASE ReleaseLock(t)
    <2>1. index' = [index EXCEPT ![Name(t)] = Body(t)]
      BY <1>5, ReleaseWrites
    <2>2. Name(t) \in Names /\ Body(t) \in Bodies \cup {Absent}
      BY <1>1 DEF TypeOK, Calls, Name, Body
    <2>3. Body(t) # Absent => ~Clashes(index, Name(t), Body(t))
      BY <1>1, <1>5 DEF Checked, ReleaseLock, Deletes, Locked
    <2>4. UidsUnique'
      BY <1>1, <2>1, <2>2, <2>3, WriteKeepsUidsUnique
    <2> QED
      BY <1>2, <1>5, <2>4 DEF ReleaseLock
  <1> USE <1>3, <1>4 DEF Locked
  <1>6. CASE AcquireLock(t)   BY <1>6 DEF AcquireLock
  <1>7. CASE TruncateFile(t)  BY <1>7 DEF TruncateFile
  <1>8. CASE FillFile(t)      BY <1>8 DEF FillFile
  <1>9. CASE DiskFull(t)      BY <1>9 DEF DiskFull
  <1>10. CASE Commit(t)       BY <1>10 DEF Commit
  <1>11. CASE Unlink(t)       BY <1>11 DEF Unlink
  <1>12. CASE RemoveEntry(t)  BY <1>12 DEF RemoveEntry
  <1> QED
    BY <1>5, <1>6, <1>7, <1>8, <1>9, <1>10, <1>11, <1>12 DEF Busy

\* A crash inside the with block damages the one member the call is about.
LEMMA CrashKeepsSequential ==
  ASSUME OneThread, IInv, SequentialInv, Crash
  PROVE  SequentialInv'
  <1>1. PICK t \in Threads : \A u \in Threads : u = t
    BY DEF OneThread
  <1>2. UidsUnique'
    BY DEF Crash, SequentialInv, UidsUnique
  <1>3. pc'[t] = "idle"
    BY DEF Crash
  <1>4. \A n \in Names \ damaged' : worktree'[n] = index'[n]
    <2>1. CASE pc[t] \in Locked
      <3>1. lock = t
        BY <2>1, OnlyHolder
      <3>2. damaged' = damaged \cup {Name(t)}
        BY <1>1, <2>1 DEF Crash
      <3> QED
        BY <3>1, <3>2 DEF IInv, HolderFile, Crash
    <2>2. CASE pc[t] \notin Locked
      <3>1. pc[t] \in Unlocked
        BY <2>2 DEF IInv, TypeOK
      <3>2. \A n \in Names \ damaged : worktree[n] = index[n]
        BY <3>1 DEF SequentialInv, Checked
      <3> QED
        BY <3>2 DEF Crash
    <2> QED
      BY <2>1, <2>2
  <1> QED
    BY <1>2, <1>3, <1>4, EndKeepsSequential

LEMMA NextKeepsSequential ==
  ASSUME OneThread, IInv, SequentialInv, [Next]_vars
  PROVE  SequentialInv'
  <1>1. CASE Start
    BY <1>1, StartKeepsSequential
  <1>2. CASE Crash
    BY <1>2, CrashKeepsSequential
  <1>3. ASSUME NEW t \in Threads, Step(t) PROVE SequentialInv'
    BY <1>3, QuietKeepsSequential, BusyKeepsSequential DEF Step, Quiet, Busy
  <1>4. CASE UNCHANGED vars
    BY <1>4
    DEF vars, SequentialInv, Checked, UidsUnique, EtagMatches, Deletes, Clashes, Owners,
        Name, Body, Etag
  <1> QED
    BY <1>1, <1>2, <1>3, <1>4 DEF Next

THEOREM SequentialInvariant == ASSUME OneThread PROVE Spec => []SequentialInv
  <1>1. IInv /\ SequentialInv /\ [Next]_vars => SequentialInv'
    BY NextKeepsSequential
  <1> QED
    BY InitSequential, <1>1, Invariant, PTL DEF Spec

\* No two members ever share a UID, whatever ENOSPC and crashes do to the one
\* thread's calls (two threads break this: each looks up before it locks).
THEOREM UidsStayUnique == ASSUME OneThread PROVE Spec => []UidsUnique
  <1>1. SequentialInv => UidsUnique
    BY DEF SequentialInv
  <1> QED
    BY <1>1, SequentialInvariant, PTL

\* A write takes effect on the version that its caller named.
THEOREM WritesAreConditional == ASSUME OneThread PROVE Spec => ConditionalWrites
  <1>1. ASSUME SequentialInv
        PROVE  \A t \in Threads :
                 (pc[t] = "release" /\ pc'[t] = "idle" /\ answer'[t] = "ok") => EtagMatches(t)
    BY <1>1 DEF SequentialInv, Checked
  <1> QED
    BY <1>1, SequentialInvariant, PTL DEF ConditionalWrites

\* InvalidETag is only ever answered to an etag that is not the current one,
\* unless ENOSPC or a crash has damaged the file of that member.
THEOREM InvalidETagIsDeserved == ASSUME OneThread PROVE Spec => InvalidETagIsTrue
  <1>1. ASSUME IInv, SequentialInv, [Next]_vars
        PROVE  \A t \in Threads :
                 (answer[t] # "InvalidETag" /\ answer'[t] = "InvalidETag" /\ Name(t) \notin damaged)
                   => ~EtagMatches(t)
    <2> SUFFICES ASSUME NEW t \in Threads, answer[t] # "InvalidETag",
                        answer'[t] = "InvalidETag", Name(t) \notin damaged
                 PROVE  ~EtagMatches(t)
      OBVIOUS
    <2>1. TypeOK /\ Name(t) \in Names
      BY <1>1 DEF IInv, TypeOK, Calls, Name
    <2>2. CheckEtag(t) \/ ReadFile(t)
      <3>1. ~Start /\ ~Crash /\ ~UNCHANGED vars
        BY <2>1
        DEF Start, StartCreate, StartReplace, StartDelete, Begin, Crash, vars, TypeOK
      <3>2. PICK u \in Threads : Step(u)
        BY <1>1, <3>1 DEF Next
      <3>3. u = t
        BY <3>2 DEF OneThread
      <3> QED
        BY <2>1, <3>2, <3>3
        DEF Step, ScanUids, PublishUids, LookUpUid, AcquireLock, LockIsTaken,
            TruncateFile, FillFile, DiskFull, Commit, Unlink, RemoveEntry, ReleaseLock,
            Abort, Finish, TypeOK
    <2>3. CASE CheckEtag(t)
      BY <2>3 DEF CheckEtag
    <2>4. CASE ReadFile(t)
      <3>1. pc[t] = "readfile" /\ worktree[Name(t)] \notin {Absent, Etag(t)}
        BY <2>1, <2>4 DEF ReadFile, Finish, TypeOK
      <3>2. index[Name(t)] = worktree[Name(t)]
        BY <1>1, <2>1, <3>1 DEF SequentialInv, Checked, Unlocked
      <3>3. Etag(t) # Absent
        BY <1>1, <3>1 DEF SequentialInv, Checked
      <3> QED
        BY <3>1, <3>2, <3>3 DEF EtagMatches
    <2> QED
      BY <2>2, <2>3, <2>4
  <1> QED
    BY <1>1, Invariant, SequentialInvariant, PTL DEF Spec, InvalidETagIsTrue

\* With one thread the store keeps the whole contract of the docstrings: a
\* write that answers "ok" took effect on the named version, and no other
\* member had its UID.
THEOREM ImplementsStrictPromise == ASSUME OneThread PROVE Spec => KeepsStrictPromise
  <1>1. ASSUME IInv, SequentialInv, [Next]_vars
        PROVE  [Promise!StrictNext]_Promise!vars
    <2>1. ASSUME NEW t \in Threads, ReleaseLock(t) PROVE Promise!Allowed(call[t])
      <3>1. pc[t] = "release" /\ Checked(t)
        BY <1>1, <2>1 DEF ReleaseLock, SequentialInv
      <3> QED
        BY <3>1
        DEF Checked, EtagMatches, Deletes, Locked, Name, Body, Etag, Promise!Allowed
    <2> QED
      BY <1>1, <2>1, NextRefines DEF Promise!StrictNext
  <1> QED
    BY InitRefines, <1>1, Invariant, SequentialInvariant, PTL
    DEF Spec, KeepsStrictPromise, Promise!StrictSpec
=============================================================================

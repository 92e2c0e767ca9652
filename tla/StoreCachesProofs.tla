-------------------------- MODULE StoreCachesProofs --------------------------
(***************************************************************************)
(* Proofs about what the stores remember of what they hold.                *)
(*                                                                         *)
(* The first part is about TreeIndexCache, the index that TreeGitStore     *)
(* keeps: the shape of its variables for any number of threads, and that   *)
(* the cache is right for one thread and any number of writes by other     *)
(* processes.  The second part is about Backends, the tree, the etags and  *)
(* the UIDs that the other stores keep: that they keep the strict promise  *)
(* of VersionedCollection unless something happens that they do not cope   *)
(* with.  The two share nothing but the library.                           *)
(***************************************************************************)
EXTENDS TreeIndexCache, Backends, FiniteSetTheorems, TLAPS

\* The steps of _open_index.
Opening(t) ==
  \/ StatFile(t) \/ TestIndex(t) \/ TestStat(t) \/ LoadIndex(t) \/ LoadCtag(t)
  \/ OpenIndex(t) \/ SetIndex(t) \/ SetStat(t) \/ ClearCtag(t)

\* The steps of get_etag and get_ctag once they have the index.
Answering(t) == AnswerEtag(t) \/ AnswerCtag(t) \/ ComputeCtag(t) \/ SetCtag(t)

\* The end of a write, and _invalidate_index_cache.
Dropping(t) == RenameIndex(t) \/ DropIndex(t) \/ DropStat(t) \/ DropCtag(t)

-----------------------------------------------------------------------------
(* The index of TreeGitStore: type correctness. *)

LEMMA InitTypeOK == Init => TypeOK
  BY BoundAssumption DEF Init, TypeOK, Versions, Fields, Empty, Steps

LEMMA OpeningTypeOK == ASSUME NEW t \in Threads PROVE TypeOK /\ Opening(t) => TypeOK'
  <1> SUFFICES ASSUME TypeOK, Opening(t) PROVE TypeOK'
    OBVIOUS
  <1> USE DEF TypeOK, Goto, Steps, Fields
  <1>1. CASE StatFile(t)   BY <1>1 DEF StatFile
  <1>2. CASE TestIndex(t)  BY <1>2 DEF TestIndex
  <1>3. CASE TestStat(t)   BY <1>3 DEF TestStat
  <1>4. CASE LoadIndex(t)  BY <1>4 DEF LoadIndex
  <1>5. CASE LoadCtag(t)   BY <1>5 DEF LoadCtag
  <1>6. CASE OpenIndex(t)  BY <1>6 DEF OpenIndex
  <1>7. CASE SetIndex(t)   BY <1>7 DEF SetIndex
  <1>8. CASE SetStat(t)    BY <1>8 DEF SetStat
  <1>9. CASE ClearCtag(t)  BY <1>9 DEF ClearCtag
  <1> QED
    BY <1>1, <1>2, <1>3, <1>4, <1>5, <1>6, <1>7, <1>8, <1>9 DEF Opening

LEMMA AnsweringTypeOK == ASSUME NEW t \in Threads PROVE TypeOK /\ Answering(t) => TypeOK'
  <1> SUFFICES ASSUME TypeOK, Answering(t) PROVE TypeOK'
    OBVIOUS
  <1> USE DEF TypeOK, Goto, Return, Steps, Fields
  <1>1. CASE AnswerEtag(t)   BY <1>1 DEF AnswerEtag
  <1>2. CASE AnswerCtag(t)   BY <1>2 DEF AnswerCtag
  <1>3. CASE ComputeCtag(t)  BY <1>3 DEF ComputeCtag
  <1>4. CASE SetCtag(t)      BY <1>4 DEF SetCtag
  <1> QED
    BY <1>1, <1>2, <1>3, <1>4 DEF Answering

LEMMA DroppingTypeOK == ASSUME NEW t \in Threads PROVE TypeOK /\ Dropping(t) => TypeOK'
  <1> SUFFICES ASSUME TypeOK, Dropping(t) PROVE TypeOK'
    OBVIOUS
  <1> USE BoundAssumption DEF TypeOK, Goto, Steps, Fields
  <1>1. CASE RenameIndex(t)  BY <1>1 DEF RenameIndex, Versions
  <1>2. CASE DropIndex(t)    BY <1>2 DEF DropIndex
  <1>3. CASE DropStat(t)     BY <1>3 DEF DropStat
  <1>4. CASE DropCtag(t)     BY <1>4 DEF DropCtag
  <1> QED
    BY <1>1, <1>2, <1>3, <1>4 DEF Dropping

LEMMA OtherTypeOK ==
  TypeOK /\ (ForeignWrite \/ \E t \in Threads, what \in {"get_ctag", "get_etag", "write"} : Start(t, what))
    => TypeOK'
  <1> USE BoundAssumption DEF TypeOK, Goto, Steps, Fields, Empty
  <1>1. TypeOK /\ ForeignWrite => TypeOK'
    BY DEF ForeignWrite, Versions
  <1>2. ASSUME NEW t \in Threads, NEW what \in {"get_ctag", "get_etag", "write"}
        PROVE  TypeOK /\ Start(t, what) => TypeOK'
    BY DEF Start
  <1> QED
    BY <1>1, <1>2

LEMMA NextTypeOK == TypeOK /\ [Next]_vars => TypeOK'
  <1> SUFFICES ASSUME TypeOK, [Next]_vars PROVE TypeOK'
    OBVIOUS
  <1>1. ASSUME NEW t \in Threads, Step(t) PROVE TypeOK'
    BY <1>1, OpeningTypeOK, AnsweringTypeOK, DroppingTypeOK
    DEF Step, Opening, Answering, Dropping
  <1>2. CASE UNCHANGED vars
    BY <1>2 DEF vars, TypeOK
  <1> QED
    BY <1>1, <1>2, OtherTypeOK DEF Next

\* Every variable keeps its shape, for any number of threads.
THEOREM TypeCorrect == Spec => []TypeOK
  BY InitTypeOK, NextTypeOK, PTL DEF Spec

-----------------------------------------------------------------------------
(* The index of TreeGitStore, for one thread: the inductive invariant. *)

OneThread == \E t : Threads = {t}

LEMMA InitIInv == Init => IInv
  <1> SUFFICES ASSUME Init PROVE IInv
    OBVIOUS
  <1> QED
    BY InitTypeOK, NoneAssumption
    DEF Init, IInv, LocalsAreSound, CacheIsSound, Stated, HasIndex, Empty

\* The versions that variables hold are numbers, and None is not.
LEMMA Numbers ==
  ASSUME TypeOK, NEW t \in Threads
  PROVE  /\ file \in Nat /\ since[t] \in Nat /\ None \notin Nat
         /\ \A v \in {cached.index, cached.stat, cached.ctag,
                      local[t].index, local[t].stat, local[t].ctag} : v = None \/ v \in Nat
  BY NoneAssumption, BoundAssumption DEF TypeOK, Fields, Versions

\* What the invariant says of the only thread.
Sound(t) == LocalsAreSound(t) /\ CacheIsSound(t)

LEMMA OpeningKeepsSound ==
  ASSUME NEW t \in Threads, TypeOK, Sound(t), Opening(t)
  PROVE  Sound(t)'
  <1> USE NoneAssumption, BoundAssumption DEF Versions, Sound, LocalsAreSound, CacheIsSound, Stated, HasIndex, TypeOK, Goto, Fields
  <1>1. CASE StatFile(t)   BY <1>1 DEF StatFile
  <1>2. CASE TestIndex(t)  BY <1>2 DEF TestIndex
  <1>3. CASE TestStat(t)   BY <1>3 DEF TestStat
  <1>4. CASE LoadIndex(t)  BY <1>4 DEF LoadIndex
  <1>5. CASE LoadCtag(t)   BY <1>5 DEF LoadCtag
  <1>6. CASE OpenIndex(t)  BY <1>6, Numbers DEF OpenIndex
  <1>7. CASE SetIndex(t)   BY <1>7 DEF SetIndex
  <1>8. CASE SetStat(t)    BY <1>8 DEF SetStat
  <1>9. CASE ClearCtag(t)  BY <1>9, Numbers DEF ClearCtag
  <1> QED
    BY <1>1, <1>2, <1>3, <1>4, <1>5, <1>6, <1>7, <1>8, <1>9 DEF Opening

LEMMA AnsweringKeepsSound ==
  ASSUME NEW t \in Threads, TypeOK, Sound(t), Answering(t)
  PROVE  Sound(t)'
  <1> USE NoneAssumption, BoundAssumption DEF Versions, Sound, LocalsAreSound, CacheIsSound, Stated, HasIndex, TypeOK, Goto,
                      Return, Fields
  <1>1. CASE AnswerEtag(t)   BY <1>1 DEF AnswerEtag
  <1>2. CASE AnswerCtag(t)   BY <1>2 DEF AnswerCtag
  <1>3. CASE ComputeCtag(t)  BY <1>3 DEF ComputeCtag
  <1>4. CASE SetCtag(t)      BY <1>4 DEF SetCtag
  <1> QED
    BY <1>1, <1>2, <1>3, <1>4 DEF Answering

LEMMA DroppingKeepsSound ==
  ASSUME NEW t \in Threads, TypeOK, Sound(t), Dropping(t)
  PROVE  Sound(t)'
  <1> USE NoneAssumption, BoundAssumption DEF Versions, Sound, LocalsAreSound, CacheIsSound, Stated, HasIndex, TypeOK, Goto, Fields
  <1>1. CASE RenameIndex(t)  BY <1>1, Numbers DEF RenameIndex
  <1>2. CASE DropIndex(t)    BY <1>2 DEF DropIndex
  <1>3. CASE DropStat(t)     BY <1>3 DEF DropStat
  <1>4. CASE DropCtag(t)     BY <1>4 DEF DropCtag
  <1> QED
    BY <1>1, <1>2, <1>3, <1>4 DEF Dropping

\* Another process can only make the file newer.
LEMMA ForeignKeepsSound ==
  ASSUME NEW t \in Threads, TypeOK, Sound(t), ForeignWrite
  PROVE  Sound(t)'
  <1>1. file' = file + 1 /\ UNCHANGED <<cached, pc, op, local, since>>
    BY DEF ForeignWrite
  <1>2. LocalsAreSound(t)'
    BY <1>1, Numbers DEF Sound, LocalsAreSound, Stated, HasIndex
  <1>3. CacheIsSound(t)'
    BY <1>1, Numbers DEF Sound, CacheIsSound
  <1> QED
    BY <1>2, <1>3 DEF Sound

LEMMA StartKeepsSound ==
  ASSUME NEW t \in Threads, NEW what \in {"get_ctag", "get_etag", "write"},
         TypeOK, Sound(t), Start(t, what)
  PROVE  Sound(t)'
  <1>1. /\ pc[t] = "idle" /\ pc'[t] \in {"rename", "stat"}
        /\ pc'[t] = "rename" => op'[t] = "write"
        /\ local'[t] = Empty /\ since'[t] = file
        /\ UNCHANGED <<file, cached>>
    BY DEF Start, Goto, TypeOK
  <1>2. LocalsAreSound(t)'
    BY <1>1, Numbers DEF Sound, LocalsAreSound, Stated, HasIndex, Empty
  <1>3. CacheIsSound(t)'
    BY <1>1 DEF Sound, CacheIsSound
  <1> QED
    BY <1>2, <1>3 DEF Sound

LEMMA SoundIsIInv ==
  ASSUME OneThread, NEW t \in Threads
  PROVE  /\ IInv <=> TypeOK /\ Sound(t)
         /\ IInv' <=> TypeOK' /\ Sound(t)'
  <1> SUFFICES ASSUME NEW u \in Threads
               PROVE  u = t
    BY DEF IInv, Sound, LocalsAreSound, CacheIsSound, Stated, HasIndex
  <1> QED
    BY DEF OneThread

LEMMA NextKeepsIInv ==
  ASSUME OneThread
  PROVE  IInv /\ [Next]_vars => IInv'
  <1> SUFFICES ASSUME IInv, [Next]_vars PROVE IInv'
    OBVIOUS
  <1>1. PICK t \in Threads : TRUE
    BY DEF OneThread
  <1>2. TypeOK /\ TypeOK'
    BY NextTypeOK DEF IInv
  <1>3. CASE ForeignWrite
    BY <1>1, <1>2, <1>3, ForeignKeepsSound, SoundIsIInv
  <1>4. ASSUME NEW u \in Threads, NEW what \in {"get_ctag", "get_etag", "write"},
               Start(u, what)
        PROVE  IInv'
    BY <1>2, <1>4, StartKeepsSound, SoundIsIInv
  <1>5. ASSUME NEW u \in Threads, Step(u) PROVE IInv'
    BY <1>2, <1>5, OpeningKeepsSound, AnsweringKeepsSound, DroppingKeepsSound, SoundIsIInv
    DEF Step, Opening, Answering, Dropping
  <1>6. CASE UNCHANGED vars
    BY <1>2, <1>6 DEF vars, IInv, LocalsAreSound, CacheIsSound, Stated, HasIndex
  <1> QED
    BY <1>3, <1>4, <1>5, <1>6 DEF Next

\* The cached attributes are sound after every step of the only thread, whatever
\* other processes write meanwhile.
THEOREM Invariant ==
  ASSUME OneThread
  PROVE  Spec => []IInv
  <1>1. IInv /\ [Next]_vars => IInv'
    BY NextKeepsIInv
  <1> QED
    BY InitIInv, <1>1, PTL DEF Spec

\* A cached index whose stat is still that of the file is the file: _open_index
\* need not read it again.
THEOREM CacheIsCorrect ==
  ASSUME OneThread
  PROVE  Spec => []CacheIsTrue
  <1>1. IInv => CacheIsTrue
    <2> SUFFICES ASSUME IInv, \A t \in Threads : pc[t] = "idle",
                        cached.index # None, cached.stat = file
                 PROVE  cached.index = file
      BY DEF CacheIsTrue
    <2>1. PICK t \in Threads : TRUE
      BY DEF OneThread
    <2>2. cached.stat \in 0 .. cached.index /\ cached.index <= file
      BY <2>1 DEF IInv, CacheIsSound
    <2>3. cached.index \in Nat /\ file \in Nat
      BY NoneAssumption, BoundAssumption DEF Versions, IInv, TypeOK, Fields
    <2> QED
      BY <2>2, <2>3
  <1> QED
    BY Invariant, <1>1, PTL

\* The same for the ctag beside it, which only ever names the cached index.
THEOREM CtagIsCorrect ==
  ASSUME OneThread
  PROVE  Spec => []CtagBelongsToIndex
  <1>1. IInv => CtagBelongsToIndex
    <2> SUFFICES ASSUME IInv, \A t \in Threads : pc[t] = "idle",
                        cached.index # None, cached.ctag # None
                 PROVE  cached.ctag = cached.index
      BY DEF CtagBelongsToIndex
    <2>1. PICK t \in Threads : TRUE
      BY DEF OneThread
    <2> QED
      BY <2>1 DEF IInv, CacheIsSound
  <1> QED
    BY Invariant, <1>1, PTL

\* No answer is older than the call: get_etag and get_ctag answer from an index
\* that was current at some time since they were called.
THEOREM AnswersAreFresh ==
  ASSUME OneThread
  PROVE  Spec => AnswersAreCurrent
  <1>1. ASSUME IInv, [Next]_vars, NEW t \in Threads, Answers(t)
        PROVE  result'[t] \in since[t] .. file
    <2>1. TypeOK /\ LocalsAreSound(t)
      BY <1>1 DEF IInv
    <2>2. Threads = {t}
      BY DEF OneThread
    <2>3. Answering(t) /\ ~ComputeCtag(t)
      BY <1>1, <2>1, <2>2
      DEF Answers, Next, vars, TypeOK, ForeignWrite, Start, Step, Goto, Return, Answering,
          StatFile, TestIndex, TestStat, LoadIndex, LoadCtag, OpenIndex, SetIndex, SetStat,
          ClearCtag, ComputeCtag, RenameIndex, DropIndex, DropStat, DropCtag
    <2> QED
      BY <2>1, <2>3
      DEF Answering, AnswerEtag, AnswerCtag, SetCtag, Return, LocalsAreSound, HasIndex, Goto,
          TypeOK
  <1>2. IInv /\ [Next]_vars
          => [\A t \in Threads : Answers(t) => result'[t] \in since[t] .. file]_vars
    BY <1>1
  <1> QED
    BY Invariant, <1>2, PTL DEF Spec, AnswersAreCurrent

\* No caller is handed None for an index: the attributes that another call has
\* dropped are never taken for an index.
THEOREM CallersGetAnIndex ==
  ASSUME OneThread
  PROVE  Spec => []IndexIsNeverNone
  <1>1. IInv => IndexIsNeverNone
    BY Numbers DEF IInv, IndexIsNeverNone, LocalsAreSound, HasIndex
  <1> QED
    BY Invariant, <1>1, PTL

-----------------------------------------------------------------------------
(* The other stores: what their helpers return. *)

LEMMA CurrentTreeIsCurrent ==
  ASSUME StoresTypeOK
  PROVE  /\ CurrentTree \in [tree : Contents, target : Nat]
         /\ CurrentTree.tree \in Contents
         /\ CurrentTree.target = version
  BY DEF StoresTypeOK, CurrentTree

\* A remembered etag is that of some content.
LEMMA EtagIsContent ==
  ASSUME StoresTypeOK, NEW n \in Names, NEW b \in Bodies, NEW t \in Nat
  PROVE  /\ Hashed(n, b, t) \in Bodies
         /\ Remember(n, b, t) \in [time : Nat, body : Bodies]
         /\ Remember(n, b, t).time = t
         /\ Remember(n, b, t).body = Hashed(n, b, t)
  BY DEF StoresTypeOK, Hashed, Remember

LEMMA EtagOfMember ==
  ASSUME StoresTypeOK, NEW n \in Names
  PROVE  /\ EtagOf(n) \in Bodies \cup {Absent}
         /\ EtagOf(n) = Absent <=> files[n] = Absent
  <1>1. CASE files[n] = Absent
    BY <1>1 DEF EtagOf
  <1>2. CASE files[n] # Absent
    <2>1. files[n] \in Bodies /\ stamp[n] \in Nat
      BY <1>2 DEF StoresTypeOK, Contents
    <2>2. EtagOf(n) \in Bodies
      BY <1>2, <2>1, EtagIsContent DEF EtagOf
    <2> QED
      BY <1>2, <2>2, BackendsAssumption
  <1> QED
    BY <1>1, <1>2

-----------------------------------------------------------------------------
(* The other stores: type correctness. *)

LEMMA StoresInitTypeOK == StoresInit => StoresTypeOK
  <1> SUFFICES ASSUME StoresInit PROVE StoresTypeOK
    OBVIOUS
  <1>1. NoFiles \in Contents /\ NoCache \in [tree : Contents, target : Nat] /\ NoCache.target = 0
    BY DEF NoFiles, NoCache, Contents
  <1>2. PICK n \in Names : call = [name |-> n, body |-> Absent, etag |-> Absent]
    BY DEF StoresInit
  <1>3. call \in Calls
    BY <1>2 DEF Calls
  <1>4. uidOf \in Contents
    BY DEF StoresInit, Contents
  <1>5. ops \in 0 .. MaxOps
    BY BackendsAssumption DEF StoresInit
  <1>6. /\ stamp \in [Names -> Nat]
        /\ etagCache \in [Names -> [time : Nat, body : Bodies] \cup {Absent}]
        /\ nameOf \in [Uids -> Names \cup {Absent}]
    BY DEF StoresInit
  <1>7. cache \in [tree : Contents, target : Nat] /\ cache.target <= version /\ version \in Nat \ {0}
    BY <1>1 DEF StoresInit
  <1> QED
    BY <1>1, <1>3, <1>4, <1>5, <1>6, <1>7 DEF StoresInit, StoresTypeOK

LEMMA CountIsBounded == ops \in 0 .. MaxOps /\ CountOp => ops' \in 0 .. MaxOps
  BY BackendsAssumption DEF CountOp

LEMMA BareTypeOK ==
  ASSUME StoresTypeOK, BareEdit \/ BareCommit \/ Push
  PROVE  StoresTypeOK'
  <1>1. CASE BareEdit
    <2>1. \/ cache' = CurrentTree /\ at' = "idle"
          \/ cache' = [CurrentTree EXCEPT !.tree[call.name] = call.body] /\ at' = "write"
      BY <1>1 DEF BareEdit, Finish
    <2>2. cache' \in [tree : Contents, target : Nat] /\ cache'.target <= version
      BY <2>1, CurrentTreeIsCurrent DEF StoresTypeOK, Contents, Calls
    <2>3. at' \in {"idle", "check", "write"}
      BY <2>1
    <2> QED
      BY <1>1, <2>2, <2>3 DEF BareEdit, StoresTypeOK, storage
  <1>2. CASE BareCommit
    <2>1. files' \in Contents
      BY <1>2 DEF BareCommit, StoresTypeOK
    <2>2. version' \in Nat \ {0} /\ version <= version'
      BY <1>2 DEF BareCommit, StoresTypeOK
    <2>3. cache'.target <= version'
      BY <1>2, <2>2 DEF BareCommit, StoresTypeOK, caches
    <2>4. excused' \in BOOLEAN /\ at' = "idle"
      BY <1>2 DEF BareCommit, StoresTypeOK, Finish
    <2> QED
      BY <1>2, <2>1, <2>2, <2>3, <2>4 DEF BareCommit, StoresTypeOK, caches
  <1>3. CASE Push
    <2>1. files' \in Contents
      BY <1>3 DEF Push, StoresTypeOK, Contents
    <2>2. excused' \in BOOLEAN
      BY <1>3 DEF Push
    <2>3. version' \in Nat \ {0} /\ cache'.target <= version'
      BY <1>3 DEF Push, StoresTypeOK, caches
    <2>4. ops' \in 0 .. MaxOps
      BY <1>3, CountIsBounded DEF Push, StoresTypeOK
    <2> QED
      BY <1>3, <2>1, <2>2, <2>3, <2>4 DEF Push, StoresTypeOK, caches
  <1> QED
    BY <1>1, <1>2, <1>3

LEMMA ScanTypeOK ==
  ASSUME StoresTypeOK, NEW pick \in [Uids -> Names \cup {Absent}], NEW dropped, ScanUids(pick, dropped)
  PROVE  /\ uidOf' \in Contents
         /\ nameOf' \in [Uids -> Names \cup {Absent}]
         /\ etagCache' \in [Names -> [time : Nat, body : Bodies] \cup {Absent}]
  <1>1. \A n \in Names : EtagOf(n) \in Bodies \cup {Absent}
    BY EtagOfMember
  <1>2. \A n \in Names : files[n] # Absent => Remember(n, files[n], stamp[n]) \in [time : Nat, body : Bodies]
    BY EtagIsContent DEF StoresTypeOK, Contents
  <1>3. uidOf' \in Contents
    BY <1>1 DEF ScanUids, StoresTypeOK, Contents
  <1>4. nameOf' \in [Uids -> Names \cup {Absent}]
    BY DEF ScanUids, StoresTypeOK
  <1>5. etagCache' \in [Names -> [time : Nat, body : Bodies] \cup {Absent}]
    BY <1>2 DEF ScanUids, StoresTypeOK
  <1> QED
    BY <1>3, <1>4, <1>5

LEMMA VdirTypeOK ==
  ASSUME StoresTypeOK, VdirCheck \/ VdirCheckDelete \/ VdirWrite \/ Edit \/ Tick
  PROVE  StoresTypeOK'
  <1>1. CASE VdirCheck
    <2>1. PICK pick \in [Uids -> Names \cup {Absent}], dropped \in SUBSET Gone :
            ScanUids(pick, dropped) /\ at' \in {"idle", "write"}
      BY <1>1 DEF VdirCheck, Finish
    <2>2. /\ uidOf' \in Contents
          /\ nameOf' \in [Uids -> Names \cup {Absent}]
          /\ etagCache' \in [Names -> [time : Nat, body : Bodies] \cup {Absent}]
      BY <2>1, ScanTypeOK
    <2> QED
      BY <1>1, <2>1, <2>2 DEF VdirCheck, StoresTypeOK, storage
  <1>2. CASE VdirCheckDelete
    <2>1. call.name \in Names /\ stamp[call.name] \in Nat
          /\ (files[call.name] # Absent => files[call.name] \in Bodies)
      BY DEF StoresTypeOK, Calls, Contents
    <2>2. files[call.name] # Absent =>
            Remember(call.name, files[call.name], stamp[call.name]) \in [time : Nat, body : Bodies]
      BY <2>1, EtagIsContent
    <2>3. etagCache' \in [Names -> [time : Nat, body : Bodies] \cup {Absent}]
      BY <1>2, <2>1, <2>2 DEF VdirCheckDelete, StoresTypeOK
    <2>4. at' \in {"idle", "write"}
      BY <1>2 DEF VdirCheckDelete, Finish
    <2> QED
      BY <1>2, <2>3, <2>4 DEF VdirCheckDelete, StoresTypeOK, storage
  <1>3. CASE VdirWrite
    <2>1. call.name \in Names /\ call.body \in Bodies \cup {Absent} /\ now \in Nat
      BY DEF StoresTypeOK, Calls
    <2>2. call.body # Absent =>
            Remember(call.name, call.body, now) \in [time : Nat, body : Bodies]
      BY <2>1, EtagIsContent
    <2>3. etagCache' \in [Names -> [time : Nat, body : Bodies] \cup {Absent}]
      BY <1>3, <2>1, <2>2 DEF VdirWrite, StoresTypeOK
    <2>4. files' \in Contents /\ stamp' \in [Names -> Nat]
      BY <1>3, <2>1 DEF VdirWrite, StoresTypeOK, Contents
    <2>5. excused' \in BOOLEAN /\ at' = "idle"
      BY <1>3 DEF VdirWrite, StoresTypeOK, Finish
    <2> QED
      BY <1>3, <2>3, <2>4, <2>5 DEF VdirWrite, StoresTypeOK
  <1>4. CASE Edit
    <2>1. files' \in Contents /\ stamp' \in [Names -> Nat]
      BY <1>4 DEF Edit, StoresTypeOK, Contents
    <2>2. excused' \in BOOLEAN
      BY <1>4 DEF Edit
    <2>3. ops' \in 0 .. MaxOps
      BY <1>4, CountIsBounded DEF Edit, StoresTypeOK
    <2> QED
      BY <1>4, <2>1, <2>2, <2>3 DEF Edit, StoresTypeOK, caches
  <1>5. CASE Tick
    BY <1>5 DEF Tick, StoresTypeOK, storage, caches
  <1> QED
    BY <1>1, <1>2, <1>3, <1>4, <1>5

LEMMA MemoryTypeOK ==
  ASSUME StoresTypeOK, MemoryCall
  PROVE  StoresTypeOK'
  <1>1. call.name \in Names /\ call.body \in Bodies \cup {Absent}
    BY DEF StoresTypeOK, Calls
  <1>2. Forget(call.name) \in [Uids -> Names \cup {Absent}]
    BY DEF Forget, StoresTypeOK
  <1>3. call.body # Absent => UidOf[call.body] \in Uids
    BY <1>1, BackendsAssumption
  <1>4. nameOf' \in [Uids -> Names \cup {Absent}]
    BY <1>1, <1>2, <1>3 DEF MemoryCall, StoresTypeOK
  <1>5. files' \in Contents /\ uidOf' \in Contents
    BY <1>1 DEF MemoryCall, StoresTypeOK, Contents
  <1>6. version' \in Nat \ {0} /\ version <= version' /\ at' = "idle"
    BY DEF MemoryCall, StoresTypeOK, Finish
  <1>7. cache'.target <= version'
    BY <1>6 DEF MemoryCall, StoresTypeOK
  <1> QED
    BY <1>4, <1>5, <1>6, <1>7 DEF MemoryCall, StoresTypeOK

LEMMA StoresNextTypeOK == StoresTypeOK /\ [StoresNext]_storesVars => StoresTypeOK'
  <1> SUFFICES ASSUME StoresTypeOK, [StoresNext]_storesVars PROVE StoresTypeOK'
    OBVIOUS
  <1>1. CASE Begin
    <2>1. ops' \in 0 .. MaxOps
      BY <1>1, CountIsBounded DEF Begin, StoresTypeOK
    <2> QED
      BY <1>1, <2>1 DEF Begin, StoresTypeOK, storage, caches
  <1>2. CASE Restart
    <2>1. ops' \in 0 .. MaxOps
      BY <1>2, CountIsBounded DEF Restart, StoresTypeOK
    <2>2. /\ cache' \in [tree : Contents, target : Nat] /\ cache'.target = 0
          /\ uidOf' \in Contents
      BY <1>2 DEF Restart, NoCache, NoFiles, Contents
    <2>3. /\ etagCache' \in [Names -> [time : Nat, body : Bodies] \cup {Absent}]
          /\ nameOf' \in [Uids -> Names \cup {Absent}]
      BY <1>2 DEF Restart
    <2> QED
      BY <1>2, <2>1, <2>2, <2>3 DEF Restart, StoresTypeOK, storage
  <1>3. CASE UNCHANGED storesVars
    BY <1>3 DEF storesVars, StoresTypeOK, storage, caches
  <1> QED
    BY <1>1, <1>2, <1>3, BareTypeOK, VdirTypeOK, MemoryTypeOK DEF StoresNext, OtherPrograms

\* The three stores keep the shape of every variable.
THEOREM StoresTypeCorrect == StoresSpec => []StoresTypeOK
  BY StoresInitTypeOK, StoresNextTypeOK, PTL DEF StoresSpec

-----------------------------------------------------------------------------
(* The other stores: the invariant. *)

\* No two members of a collection have the same UID.
Unique(m) ==
  \A n, o \in Names : n # o /\ m[n] # Absent /\ m[o] # Absent => UidOf[m[n]] # UidOf[m[o]]

LEMMA UidsUniqueIsUnique == UidsUnique <=> (excused \/ Unique(files))
  BY DEF UidsUnique, Unique

\* A write that clashes with nobody keeps them apart.
LEMMA WriteKeepsUnique ==
  ASSUME NEW m \in Contents, Unique(m), NEW n \in Names, NEW b \in Bodies \cup {Absent},
         b # Absent => ~Clash(m, n, b)
  PROVE  Unique([m EXCEPT ![n] = b])
  BY DEF Unique, Clash, Contents

\* A call that passes the checks writes to a free UID over what its caller saw.
LEMMA VerdictIsOk ==
  ASSUME NEW taken \in BOOLEAN, NEW seen, Verdict(taken, seen) = "ok"
  PROVE  /\ call.body # Absent => ~taken
         /\ call.body = Absent => seen # Absent
         /\ call.etag # Absent => seen = call.etag
  BY DEF Verdict

LEMMA OwnersClash ==
  ASSUME NEW m, NEW n, NEW b, Owners(m, UidOf[b]) \subseteq {n}
  PROVE  ~Clash(m, n, b)
  BY DEF Owners, Clash

LEMMA StoresInitInv == StoresInit => StoresInv
  <1> SUFFICES ASSUME StoresInit PROVE StoresInv
    OBVIOUS
  <1>1. UidsUnique
    BY DEF StoresInit, NoFiles, UidsUnique
  <1>2. WriteIsAllowed /\ TreeIsCurrent
    BY DEF StoresInit, NoFiles, NoCache, WriteIsAllowed, TreeIsCurrent
  <1>3. EtagsAreCurrent
    BY DEF StoresInit, NoFiles, EtagsAreCurrent
  <1>4. MapsAreCurrent
    BY DEF StoresInit, NoFiles, MapsAreCurrent
  <1>5. MapsAreInverse
    BY DEF StoresInit, NoFiles, MapsAreInverse
  <1> QED
    BY StoresInitTypeOK, <1>1, <1>2, <1>3, <1>4, <1>5 DEF StoresInv, StoreIsSound

\* An exception stays one.
LEMMA ExcusedForGood == StoresTypeOK /\ [StoresNext]_storesVars /\ ~excused' => ~excused
  <1> SUFFICES ASSUME StoresTypeOK, [StoresNext]_storesVars, excused PROVE excused'
    OBVIOUS
  <1>1. CASE UNCHANGED storesVars
    BY <1>1 DEF storesVars
  <1>2. CASE Begin \/ BareEdit \/ VdirCheck \/ VdirCheckDelete \/ MemoryCall \/ Tick \/ Restart
    BY <1>2 DEF Begin, BareEdit, VdirCheck, VdirCheckDelete, MemoryCall, Tick, Restart
  <1>3. CASE BareCommit \/ Push \/ VdirWrite \/ Edit
    BY <1>3 DEF BareCommit, Push, VdirWrite, Edit
  <1> QED
    BY <1>1, <1>2, <1>3 DEF StoresNext, OtherPrograms

\* What the invariant says while there is no exception.
Sane == Unique(files) /\ StoreIsSound

LEMMA SaneIsInv == StoresInv <=> (StoresTypeOK /\ (~excused => Sane))
  BY UidsUniqueIsUnique DEF StoresInv, Sane

LEMMA BareTreeIsTrue ==
  ASSUME StoresTypeOK, Sane, kind = "bare", at # "write"
  PROVE  CurrentTree = [tree |-> files, target |-> version]
  BY DEF Sane, StoreIsSound, TreeIsCurrent, CurrentTree, StoresTypeOK

LEMMA BareKeepsSane ==
  ASSUME StoresTypeOK, Sane, ~excused', BareEdit \/ BareCommit \/ Push
  PROVE  Sane'
  <1> DEFINE n == call.name
             b == call.body
  <1>1. n \in Names /\ b \in Bodies \cup {Absent} /\ files \in Contents
    BY DEF StoresTypeOK, Calls
  <1>2. kind = "bare" /\ kind' = "bare"
    BY DEF BareEdit, BareCommit, Push
  <1>3. EtagsAreCurrent' /\ MapsAreCurrent' /\ MapsAreInverse'
    BY <1>2 DEF EtagsAreCurrent, MapsAreCurrent, MapsAreInverse
  <1>4. CASE BareEdit
    <2>1. CurrentTree = [tree |-> files, target |-> version] /\ CurrentTree.tree = files
      BY <1>2, <1>4, BareTreeIsTrue DEF BareEdit
    <2>2. files' = files /\ version' = version /\ call' = call
      BY <1>4 DEF BareEdit, storage
    <2>3. CASE at' = "idle"
      <3>1. cache' = CurrentTree
        BY <1>4, <2>3 DEF BareEdit
      <3> QED
        BY <1>3, <2>1, <2>2, <2>3, <3>1 DEF Sane, Unique, StoreIsSound, WriteIsAllowed, TreeIsCurrent
    <2>4. CASE at' # "idle"
      <3> DEFINE taken == b # Absent /\ Owners(files, UidOf[b]) \ {n} # {}
      <3>1. /\ at' = "write"
            /\ Verdict(taken, files[n]) = "ok"
            /\ cache' = [CurrentTree EXCEPT !.tree[n] = b]
        BY <1>4, <2>1, <2>4 DEF BareEdit, Finish
      <3>2. cache' = [tree |-> [files EXCEPT ![n] = b], target |-> version]
        BY <2>1, <3>1
      <3>3. /\ b # Absent => ~taken
            /\ call.etag # Absent => files[n] = call.etag
        BY <3>1, VerdictIsOk
      <3>4. b # Absent => ~Clash(files, n, b)
        BY <3>3, OwnersClash
      <3>5. WriteIsAllowed'
        BY <1>2, <2>2, <3>3, <3>4 DEF WriteIsAllowed, Clash
      <3> QED
        BY <1>3, <2>2, <3>1, <3>2, <3>5 DEF Sane, Unique, StoreIsSound, TreeIsCurrent
    <2> QED
      BY <2>3, <2>4
  <1>5. CASE BareCommit
    <2>1. files' = cache.tree /\ at' = "idle" /\ cache' = cache
      BY <1>5 DEF BareCommit, Finish, caches
    <2>2. cache.tree = [files EXCEPT ![n] = b] /\ (b # Absent => ~Clash(files, n, b))
      BY <1>2, <1>5 DEF BareCommit, Sane, StoreIsSound, TreeIsCurrent, WriteIsAllowed
    <2>3. Unique(files)
      BY DEF Sane
    <2>4. Unique([files EXCEPT ![n] = b])
      BY <1>1, <2>2, <2>3, WriteKeepsUnique
    <2>5. files' = [files EXCEPT ![n] = b]
      BY <2>1, <2>2
    <2> QED
      BY <1>3, <2>1, <2>4, <2>5 DEF Sane, Unique, StoreIsSound, WriteIsAllowed, TreeIsCurrent
  <1>6. CASE Push
    <2>1. PICK m \in Names, c \in Bodies \cup {Absent} :
            /\ c # Absent => Owners(files, UidOf[c]) \subseteq {m}
            /\ files' = [files EXCEPT ![m] = c]
      BY <1>6 DEF Push
    <2>2. Unique(files')
      BY <1>1, <2>1, OwnersClash, WriteKeepsUnique DEF Sane
    <2>3. at' # "write" /\ cache' = cache /\ version' = version + 1
      BY <1>6 DEF Push, caches
    <2>4. cache'.target # version'
      BY <2>3 DEF StoresTypeOK
    <2> QED
      BY <1>3, <2>2, <2>3, <2>4 DEF Sane, Unique, StoreIsSound, WriteIsAllowed, TreeIsCurrent
  <1> QED
    BY <1>4, <1>5, <1>6

LEMMA VdirEtagIsTrue ==
  ASSUME StoresTypeOK, EtagsAreCurrent, kind = "vdir", NEW n \in Names
  PROVE  /\ EtagOf(n) = files[n]
         /\ files[n] # Absent => Remember(n, files[n], stamp[n]).body = files[n]
  <1>1. CASE files[n] = Absent
    BY <1>1 DEF EtagOf
  <1>2. CASE files[n] # Absent
    <2>1. Hashed(n, files[n], stamp[n]) = files[n]
      BY <1>2 DEF Hashed, EtagsAreCurrent, TooFast
    <2>2. Remember(n, files[n], stamp[n]).body = files[n]
      BY <2>1 DEF Remember
    <2> QED
      BY <1>2, <2>1, <2>2 DEF EtagOf
  <1> QED
    BY <1>1, <1>2

\* A scan ends, and leaves both maps as the files are.
LEMMA ScanIsComplete ==
  ASSUME StoresTypeOK, Sane, kind = "vdir",
         NEW pick \in [Uids -> Names \cup {Absent}], NEW dropped, dropped \subseteq Gone,
         ScanUids(pick, dropped)
  PROVE  /\ dropped = Gone
         /\ uidOf' = files
         /\ \A n \in Names : files[n] # Absent => nameOf'[UidOf[files[n]]] = n
         /\ \A n \in Names : files[n] # Absent => etagCache'[n].body = files[n]
  <1> DEFINE having(S, u) == {n \in S : UidOf[uidOf[n]] = u}
             found(u) == {n \in Changed : UidOf[files[n]] = u}
  <1>1. /\ files \in Contents /\ uidOf \in Contents
        /\ Unique(files)
        /\ \A n \in Names : uidOf[n] # Absent => nameOf[UidOf[uidOf[n]]] = n
        /\ \A n \in Names : files[n] # Absent => ~Moves(n, files[n])
    BY DEF StoresTypeOK, Sane, StoreIsSound, MapsAreCurrent
  <1>2. EtagsAreCurrent
    BY DEF Sane, StoreIsSound
  <1>3. \A n \in Names : EtagOf(n) = files[n] /\ (files[n] # Absent => Remember(n, files[n], stamp[n]).body = files[n])
    BY <1>2, VdirEtagIsTrue
  <1>4. \A u \in Uids : pick[u] \in (IF found(u) = {} THEN {nameOf[u]} ELSE found(u))
    BY DEF ScanUids
  <1>5. \/ dropped = Gone
        \/ \E u \in Uids : /\ having(dropped, u) # having(Gone, u)
                           /\ Cardinality(having(dropped, u)) = IF pick[u] = Absent THEN 0 ELSE 1
    BY DEF ScanUids
  <1>6. /\ uidOf' = [n \in Names |->
             IF n \in Changed THEN EtagOf(n) ELSE IF n \in dropped THEN Absent ELSE uidOf[n]]
        /\ nameOf' = [u \in Uids |-> IF having(dropped, u) # {} THEN Absent ELSE pick[u]]
        /\ etagCache' = [n \in Names |->
             IF files[n] # Absent THEN Remember(n, files[n], stamp[n]) ELSE etagCache[n]]
    BY DEF ScanUids
  <1>7. \A n \in Gone : n \in Names /\ files[n] = Absent /\ uidOf[n] # Absent
    BY DEF Gone
  <1>8. \A n \in Changed : n \in Names /\ files[n] # Absent /\ uidOf[n] # files[n]
    BY <1>3 DEF Changed
  <1>9. dropped = Gone
    <2> SUFFICES ASSUME NEW u \in Uids, having(dropped, u) # having(Gone, u),
                        Cardinality(having(dropped, u)) = IF pick[u] = Absent THEN 0 ELSE 1
                 PROVE  FALSE
      BY <1>5
    <2>1. PICK o \in Gone : o \notin dropped /\ UidOf[uidOf[o]] = u
      OBVIOUS
    <2>2. nameOf[u] = o /\ o \in Names
      BY <1>1, <1>7, <2>1
    <2>3. \A n \in Gone : UidOf[uidOf[n]] = u => n = o
      BY <1>1, <1>7, <2>2
    <2>4. having(dropped, u) = {}
      BY <2>1, <2>3
    <2>5. Cardinality(having(dropped, u)) = 0
      BY <2>4, FS_EmptySet
    <2>6. pick[u] = Absent
      BY <2>5
    <2>7. pick[u] \in Names
      BY <1>4, <1>8, <2>2
    <2> QED
      BY <2>6, <2>7, BackendsAssumption
  <1>10. uidOf' = files
    <2>1. \A n \in Names : n \notin Changed /\ files[n] # Absent => uidOf[n] = files[n]
      BY <1>3 DEF Changed
    <2>2. \A n \in Names : files[n] = Absent /\ n \notin Gone => uidOf[n] = Absent
      BY DEF Gone
    <2>3. \A n \in Names : uidOf'[n] = files[n]
      BY <1>3, <1>6, <1>7, <1>8, <1>9, <2>1, <2>2
    <2> QED
      BY <1>1, <1>6, <2>3 DEF Contents
  <1>11. ASSUME NEW n \in Names, files[n] # Absent
         PROVE  nameOf'[UidOf[files[n]]] = n
    <2> DEFINE u == UidOf[files[n]]
    <2>1. u \in Uids
      BY <1>1, <1>11, BackendsAssumption DEF Contents
    <2>2. \A o \in Gone : UidOf[uidOf[o]] # u
      BY <1>1, <1>7, <1>11 DEF Moves
    <2>3. \A o \in found(u) : o = n
      BY <1>1, <1>8, <1>11 DEF Unique
    <2>4. CASE n \in Changed
      <3>1. found(u) # {} /\ pick[u] \in found(u)
        BY <1>4, <2>1, <2>4
      <3>2. pick[u] = n
        BY <2>3, <3>1
      <3>3. having(dropped, u) = {}
        BY <1>9, <2>2
      <3> QED
        BY <1>6, <2>1, <3>2, <3>3
    <2>5. CASE n \notin Changed
      <3>1. found(u) = {}
        BY <2>3, <2>5
      <3>2. uidOf[n] = files[n]
        BY <1>3, <1>11, <2>5 DEF Changed
      <3>3. pick[u] = nameOf[u] /\ nameOf[u] = n
        BY <1>1, <1>4, <1>11, <2>1, <3>1, <3>2
      <3>4. having(dropped, u) = {}
        BY <1>9, <2>2
      <3> QED
        BY <1>6, <2>1, <3>3, <3>4
    <2> QED
      BY <2>4, <2>5
  <1>12. \A n \in Names : files[n] # Absent => etagCache'[n].body = files[n]
    BY <1>3, <1>6
  <1> QED
    BY <1>9, <1>10, <1>11, <1>12

LEMMA VdirCheckKeepsSane ==
  ASSUME StoresTypeOK, Sane, VdirCheck
  PROVE  Sane'
  <1> DEFINE n == call.name
             b == call.body
  <1>1. /\ n \in Names /\ b \in Bodies /\ files \in Contents
        /\ kind = "vdir" /\ kind' = kind /\ files' = files /\ stamp' = stamp /\ call' = call
    BY DEF StoresTypeOK, Calls, VdirCheck, storage
  <1>2. PICK pick \in [Uids -> Names \cup {Absent}], dropped \in SUBSET Gone :
          /\ ScanUids(pick, dropped)
          /\ dropped = Gone =>
               IF Verdict(nameOf'[UidOf[b]] \notin {n, Absent}, EtagOf(n)) = "ok"
                 THEN at' = "write" ELSE at' = "idle"
    BY DEF VdirCheck, Finish
  <1>3. /\ dropped = Gone
        /\ uidOf' = files
        /\ \A o \in Names : files[o] # Absent => nameOf'[UidOf[files[o]]] = o
        /\ \A o \in Names : files[o] # Absent => etagCache'[o].body = files[o]
    BY <1>1, <1>2, ScanIsComplete
  <1>4. EtagsAreCurrent'
    BY <1>1, <1>3 DEF EtagsAreCurrent
  <1>5. MapsAreCurrent'
    <2>1. Unique(files)
      BY DEF Sane
    <2>2. \A o \in Names : files[o] # Absent => \A m \in Names \ {o} : files[m] # Absent => UidOf[files[m]] # UidOf[files[o]]
      BY <2>1 DEF Unique
    <2>3. \A o \in Names : files'[o] # Absent => ~Moves(o, files[o])'
      BY <1>1, <1>3, <2>2 DEF Moves
    <2> QED
      BY <1>1, <1>3, <2>3 DEF MapsAreCurrent, Moves
  <1>6. WriteIsAllowed'
    <2> SUFFICES ASSUME at' = "write"
                 PROVE  /\ call.etag # Absent => files[n] = call.etag
                        /\ ~Clash(files, n, b)
      BY <1>1 DEF WriteIsAllowed, Clash
    <2> DEFINE taken == nameOf'[UidOf[b]] \notin {n, Absent}
    <2>1. Verdict(taken, EtagOf(n)) = "ok"
      BY <1>2, <1>3
    <2>2. EtagOf(n) = files[n]
      BY <1>1, VdirEtagIsTrue DEF Sane, StoreIsSound
    <2>3. ~taken /\ (call.etag # Absent => files[n] = call.etag)
      BY <1>1, <2>1, <2>2, VerdictIsOk, BackendsAssumption
    <2>4. ASSUME NEW o \in Names \ {n}, files[o] # Absent, UidOf[files[o]] = UidOf[b]
          PROVE  FALSE
      BY <1>3, <2>3, <2>4, BackendsAssumption
    <2> QED
      BY <2>3, <2>4 DEF Clash
  <1> QED
    BY <1>1, <1>4, <1>5, <1>6 DEF Sane, Unique, StoreIsSound, TreeIsCurrent, MapsAreInverse

LEMMA VdirCheckDeleteKeepsSane ==
  ASSUME StoresTypeOK, Sane, VdirCheckDelete
  PROVE  Sane'
  <1> DEFINE n == call.name
  <1>1. /\ n \in Names /\ call.body = Absent
        /\ kind = "vdir" /\ kind' = kind /\ files' = files /\ stamp' = stamp /\ call' = call
        /\ uidOf' = uidOf /\ nameOf' = nameOf
    BY DEF StoresTypeOK, Calls, VdirCheckDelete, storage
  <1>2. EtagsAreCurrent /\ MapsAreCurrent /\ Unique(files)
    BY DEF Sane, StoreIsSound
  <1>3. EtagOf(n) = files[n] /\ (files[n] # Absent => Remember(n, files[n], stamp[n]).body = files[n])
    BY <1>1, <1>2, VdirEtagIsTrue
  <1>4. /\ \A o \in Names \ {n} : etagCache'[o] = etagCache[o]
        /\ \/ etagCache'[n] = etagCache[n]
           \/ files[n] # Absent /\ etagCache'[n] = Remember(n, files[n], stamp[n])
    BY <1>1 DEF VdirCheckDelete, StoresTypeOK
  <1>5. EtagsAreCurrent'
    BY <1>1, <1>2, <1>3, <1>4 DEF EtagsAreCurrent, TooFast
  <1>6. MapsAreCurrent'
    BY <1>1, <1>2 DEF MapsAreCurrent, Moves
  <1>7. WriteIsAllowed'
    <2>1. at' = "write" => Verdict(FALSE, EtagOf(n)) = "ok"
      BY DEF VdirCheckDelete, Finish
    <2>2. at' = "write" /\ call.etag # Absent => files[n] = call.etag
      BY <1>3, <2>1, VerdictIsOk
    <2> QED
      BY <1>1, <2>2 DEF WriteIsAllowed
  <1> QED
    BY <1>1, <1>2, <1>5, <1>6, <1>7 DEF Sane, Unique, StoreIsSound, TreeIsCurrent, MapsAreInverse

LEMMA VdirWriteKeepsSane ==
  ASSUME StoresTypeOK, Sane, ~excused', VdirWrite
  PROVE  Sane'
  <1> DEFINE n == call.name
             b == call.body
  <1>1. /\ n \in Names /\ b \in Bodies \cup {Absent} /\ files \in Contents /\ now \in Nat
        /\ kind = "vdir" /\ kind' = kind /\ call' = call
        /\ uidOf' = uidOf /\ nameOf' = nameOf /\ at = "write" /\ at' = "idle"
    BY DEF StoresTypeOK, Calls, VdirWrite, Finish
  <1>2. EtagsAreCurrent /\ MapsAreCurrent /\ Unique(files)
    BY DEF Sane, StoreIsSound
  <1>3. CASE answer' = "error" /\ UNCHANGED <<files, stamp, etagCache, excused>>
    <2>1. EtagsAreCurrent' /\ MapsAreCurrent'
      BY <1>1, <1>2, <1>3 DEF EtagsAreCurrent, MapsAreCurrent, TooFast, Moves
    <2> QED
      BY <1>1, <1>2, <1>3, <2>1 DEF Sane, Unique, StoreIsSound, WriteIsAllowed, TreeIsCurrent, MapsAreInverse
  <1>4. CASE ~(answer' = "error" /\ UNCHANGED <<files, stamp, etagCache, excused>>)
    <2>1. /\ files' = [files EXCEPT ![n] = b]
          /\ stamp' = [stamp EXCEPT ![n] = now]
          /\ etagCache' = IF b = Absent THEN etagCache ELSE [etagCache EXCEPT ![n] = Remember(n, b, now)]
          /\ excused' = (excused \/ (b # Absent /\ TooFast(n, now)))
      BY <1>4 DEF VdirWrite, Finish
    <2>2. b # Absent => ~TooFast(n, now)
      BY <2>1
    <2>3. b # Absent => ~Clash(files, n, b)
      BY <1>1 DEF Sane, StoreIsSound, WriteIsAllowed
    <2>4. Unique(files')
      <3>1. Unique([files EXCEPT ![n] = b])
        BY <1>1, <1>2, <2>3, WriteKeepsUnique
      <3> QED
        BY <2>1, <3>1
    <2>5. b # Absent => Remember(n, b, now).body = b
      BY <2>2 DEF Remember, Hashed, TooFast
    <2>6. EtagsAreCurrent'
      <3>1. \A o \in Names \ {n} :
              files'[o] = files[o] /\ stamp'[o] = stamp[o] /\ etagCache'[o] = etagCache[o]
        BY <1>1, <2>1 DEF StoresTypeOK, Contents
      <3>2. files'[n] # Absent => etagCache'[n].body = files'[n]
        BY <1>1, <2>1, <2>5 DEF StoresTypeOK, Contents
      <3> QED
        BY <1>1, <1>2, <3>1, <3>2 DEF EtagsAreCurrent, TooFast
    <2>7. MapsAreCurrent'
      <3>1. \A o \in Names \ {n} : files'[o] = files[o]
        BY <1>1, <2>1 DEF Contents
      <3>2. files'[n] = b
        BY <1>1, <2>1 DEF Contents
      <3>3. b # Absent => uidOf = files
        BY <1>1, <1>2 DEF MapsAreCurrent
      <3>4. b # Absent => ~Moves(n, b)
        BY <2>3, <3>3 DEF Moves, Clash
      <3>5. \A o \in Names : files'[o] # Absent => ~Moves(o, files'[o])
        BY <1>1, <1>2, <3>1, <3>2, <3>4 DEF MapsAreCurrent
      <3>6. \A o \in Names : files'[o] # Absent => ~Moves(o, files[o])'
        BY <1>1, <3>5 DEF Moves
      <3> QED
        BY <1>1, <1>2, <3>6 DEF MapsAreCurrent
    <2> QED
      BY <1>1, <2>4, <2>6, <2>7 DEF Sane, Unique, StoreIsSound, WriteIsAllowed, TreeIsCurrent, MapsAreInverse
  <1> QED
    BY <1>3, <1>4

\* Another program gives a file a content that no other file has, and no map knows
\* of elsewhere, with a time stamp that is news.
LEMMA EditKeepsSane ==
  ASSUME StoresTypeOK, Sane, ~excused', Edit
  PROVE  Sane'
  <1>1. /\ files \in Contents /\ now \in Nat
        /\ kind = "vdir" /\ kind' = kind /\ call' = call /\ etagCache' = etagCache
        /\ uidOf' = uidOf /\ nameOf' = nameOf /\ at' = at
    BY DEF StoresTypeOK, Edit, caches
  <1>2. EtagsAreCurrent /\ MapsAreCurrent /\ Unique(files)
    BY DEF Sane, StoreIsSound
  <1>3. at # "write"
    BY DEF Edit
  <1>4. /\ Unique(files')
        /\ \A o \in Names : files'[o] # Absent =>
             \/ files'[o] = files[o] /\ stamp'[o] = stamp[o]
             \/ ~TooFast(o, stamp'[o]) /\ ~Moves(o, files'[o])
    <2>1. CASE \E n \in Names, b \in Bodies \cup {Absent} :
                 /\ b # Absent => Owners(files, UidOf[b]) \subseteq {n}
                 /\ files' = [files EXCEPT ![n] = b]
                 /\ stamp' = [stamp EXCEPT ![n] = now]
                 /\ excused' = (excused \/ at = "write" \/ Moves(n, b) \/ (b # Absent /\ TooFast(n, now)))
      <3>1. PICK n \in Names, b \in Bodies \cup {Absent} :
              /\ b # Absent => Owners(files, UidOf[b]) \subseteq {n}
              /\ files' = [files EXCEPT ![n] = b]
              /\ stamp' = [stamp EXCEPT ![n] = now]
              /\ ~Moves(n, b) /\ (b # Absent => ~TooFast(n, now))
        BY <2>1
      <3>2. b # Absent => ~Clash(files, n, b)
        BY <3>1, OwnersClash
      <3>3. Unique([files EXCEPT ![n] = b])
        BY <1>1, <1>2, <3>2, WriteKeepsUnique
      <3>4. /\ \A o \in Names \ {n} : files'[o] = files[o] /\ stamp'[o] = stamp[o]
            /\ files'[n] = b /\ stamp'[n] = now
        BY <1>1, <3>1 DEF StoresTypeOK, Contents
      <3>5. Unique(files')
        BY <3>1, <3>3
      <3>6. \A o \in Names : files'[o] # Absent =>
              \/ files'[o] = files[o] /\ stamp'[o] = stamp[o]
              \/ ~TooFast(o, stamp'[o]) /\ ~Moves(o, files'[o])
        <4>1. files'[n] # Absent => ~TooFast(n, stamp'[n]) /\ ~Moves(n, files'[n])
          BY <3>1, <3>4
        <4> QED
          BY <3>4, <4>1
      <3> QED
        BY <3>5, <3>6
    <2>2. CASE \E n, m \in Names :
                 /\ files[n] # Absent /\ files[m] = Absent
                 /\ files' = [files EXCEPT ![m] = files[n], ![n] = Absent]
                 /\ stamp' = [stamp EXCEPT ![m] = stamp[n]]
                 /\ excused' = (excused \/ at = "write" \/ Moves(m, files[n]) \/ TooFast(m, stamp[n]))
      <3>1. PICK n \in Names, m \in Names :
              /\ files[n] # Absent /\ files[m] = Absent
              /\ files' = [files EXCEPT ![m] = files[n], ![n] = Absent]
              /\ stamp' = [stamp EXCEPT ![m] = stamp[n]]
              /\ ~Moves(m, files[n]) /\ ~TooFast(m, stamp[n])
        BY <2>2
      <3>2. /\ \A o \in Names \ {m, n} : files'[o] = files[o] /\ stamp'[o] = stamp[o]
            /\ files'[n] = Absent /\ files'[m] = files[n] /\ stamp'[m] = stamp[n]
        BY <1>1, <3>1 DEF StoresTypeOK, Contents
      <3>3. Unique(files')
        <4>1. m # n
          BY <3>1
        <4> SUFFICES ASSUME NEW o \in Names, NEW p \in Names, o # p,
                            files'[o] # Absent, files'[p] # Absent
                     PROVE  UidOf[files'[o]] # UidOf[files'[p]]
          BY DEF Unique
        <4>2. o # n /\ p # n
          BY <3>2
        <4>3. CASE o # m /\ p # m
          BY <1>2, <3>2, <4>2, <4>3 DEF Unique
        <4>4. CASE o = m
          <5>1. files'[o] = files[n] /\ files'[p] = files[p] /\ files[p] # Absent /\ p # n
            BY <3>2, <4>2, <4>4
          <5>2. UidOf[files[n]] # UidOf[files[p]]
            BY <1>2, <3>1, <5>1 DEF Unique
          <5> QED
            BY <5>1, <5>2
        <4>5. CASE p = m
          <5>1. files'[p] = files[n] /\ files'[o] = files[o] /\ files[o] # Absent /\ o # n
            BY <3>2, <4>2, <4>5
          <5>2. UidOf[files[n]] # UidOf[files[o]]
            BY <1>2, <3>1, <5>1 DEF Unique
          <5> QED
            BY <5>1, <5>2
        <4> QED
          BY <4>3, <4>4, <4>5
      <3>4. \A o \in Names : files'[o] # Absent =>
              \/ files'[o] = files[o] /\ stamp'[o] = stamp[o]
              \/ ~TooFast(o, stamp'[o]) /\ ~Moves(o, files'[o])
        <4>1. ~TooFast(m, stamp'[m]) /\ ~Moves(m, files'[m])
          BY <3>1, <3>2
        <4> QED
          BY <3>2, <4>1
      <3> QED
        BY <3>3, <3>4
    <2> QED
      BY <2>1, <2>2 DEF Edit
  <1>5. EtagsAreCurrent'
    BY <1>1, <1>2, <1>4 DEF EtagsAreCurrent, TooFast
  <1>6. MapsAreCurrent'
    <2>1. \A o \in Names : files'[o] # Absent => ~Moves(o, files'[o])
      BY <1>1, <1>2, <1>4 DEF MapsAreCurrent
    <2>2. \A o \in Names : files'[o] # Absent => ~Moves(o, files[o])'
      BY <1>1, <2>1 DEF Moves
    <2> QED
      BY <1>1, <1>2, <1>3, <2>2 DEF MapsAreCurrent
  <1> QED
    BY <1>1, <1>3, <1>4, <1>5, <1>6 DEF Sane, Unique, StoreIsSound, WriteIsAllowed, TreeIsCurrent, MapsAreInverse

LEMMA MemoryKeepsSane ==
  ASSUME StoresTypeOK, Sane, MemoryCall
  PROVE  Sane'
  <1> DEFINE n == call.name
             b == call.body
             taken == b # Absent /\ nameOf[UidOf[b]] \notin {n, Absent}
  <1>1. /\ n \in Names /\ b \in Bodies \cup {Absent}
        /\ files \in Contents /\ uidOf \in Contents /\ nameOf \in [Uids -> Names \cup {Absent}]
        /\ kind = "memory" /\ kind' = kind /\ at' = "idle"
    BY DEF StoresTypeOK, Calls, MemoryCall, Finish
  <1>2. /\ Unique(files) /\ uidOf = files
        /\ \A m \in Names : files[m] # Absent => nameOf[UidOf[files[m]]] = m
        /\ \A u \in Uids : nameOf[u] # Absent => files[nameOf[u]] # Absent /\ UidOf[files[nameOf[u]]] = u
    BY <1>1 DEF Sane, StoreIsSound, MapsAreInverse
  <1>3. CASE UNCHANGED <<files, version, uidOf, nameOf>>
    BY <1>1, <1>2, <1>3 DEF Sane, Unique, StoreIsSound, WriteIsAllowed, TreeIsCurrent, EtagsAreCurrent, MapsAreCurrent, MapsAreInverse
  <1>4. CASE ~UNCHANGED <<files, version, uidOf, nameOf>>
    <2>1. /\ Verdict(taken, files[n]) = "ok"
          /\ files' = [files EXCEPT ![n] = b]
          /\ uidOf' = [uidOf EXCEPT ![n] = b]
          /\ nameOf' = IF b = Absent THEN Forget(n) ELSE [Forget(n) EXCEPT ![UidOf[b]] = n]
      BY <1>4 DEF MemoryCall
    <2>2. b # Absent => nameOf[UidOf[b]] \in {n, Absent} /\ UidOf[b] \in Uids /\ b \in Bodies
      <3>1. b # Absent => ~taken
        BY <2>1, VerdictIsOk
      <3> QED
        BY <1>1, <3>1, BackendsAssumption
    <2>3. b # Absent => ~Clash(files, n, b)
      BY <1>2, <2>2, BackendsAssumption DEF Clash
    <2>4. Unique(files')
      <3>1. Unique([files EXCEPT ![n] = b])
        BY <1>1, <1>2, <2>3, WriteKeepsUnique
      <3> QED
        BY <2>1, <3>1
    <2>5. uidOf' = files'
      BY <1>2, <2>1
    <2>6. /\ \A m \in Names \ {n} : files'[m] = files[m]
          /\ files'[n] = b
      BY <1>1, <2>1 DEF Contents
    <2>7. \A u \in Uids :
            nameOf'[u] = IF b # Absent /\ UidOf[b] = u THEN n
                         ELSE IF files[n] # Absent /\ UidOf[files[n]] = u THEN Absent ELSE nameOf[u]
      BY <1>2, <2>1, <2>2 DEF Forget
    <2>8. ASSUME NEW m \in Names, files'[m] # Absent
          PROVE  nameOf'[UidOf[files'[m]]] = m
      <3>1. CASE m = n
        BY <2>2, <2>6, <2>7, <2>8, <3>1
      <3>2. CASE m # n
        <4>1. files'[m] = files[m] /\ files[m] # Absent /\ UidOf[files[m]] \in Uids
          BY <1>1, <2>6, <2>8, <3>2, BackendsAssumption DEF Contents
        <4>2. b # Absent => UidOf[b] # UidOf[files[m]]
          BY <2>3, <3>2, <4>1 DEF Clash
        <4>3. files[n] # Absent => UidOf[files[n]] # UidOf[files[m]]
          BY <1>1, <1>2, <3>2, <4>1 DEF Unique
        <4> QED
          BY <1>2, <2>7, <4>1, <4>2, <4>3
      <3> QED
        BY <3>1, <3>2
    <2>9. ASSUME NEW u \in Uids, nameOf'[u] # Absent
          PROVE  files'[nameOf'[u]] # Absent /\ UidOf[files'[nameOf'[u]]] = u
      <3>1. CASE b # Absent /\ UidOf[b] = u
        BY <2>6, <2>7, <3>1
      <3>2. CASE ~(b # Absent /\ UidOf[b] = u)
        <4>1. /\ nameOf'[u] = nameOf[u] /\ nameOf[u] # Absent
              /\ ~(files[n] # Absent /\ UidOf[files[n]] = u)
          BY <2>7, <2>9, <3>2
        <4>2. nameOf[u] # n /\ nameOf[u] \in Names
          BY <1>1, <1>2, <4>1
        <4> QED
          BY <1>2, <2>6, <4>1, <4>2
      <3> QED
        BY <3>1, <3>2
    <2>10. MapsAreInverse'
      BY <2>5, <2>8, <2>9 DEF MapsAreInverse
    <2> QED
      BY <1>1, <2>4, <2>10 DEF Sane, Unique, StoreIsSound, WriteIsAllowed, TreeIsCurrent, EtagsAreCurrent, MapsAreCurrent
  <1> QED
    BY <1>3, <1>4

LEMMA OthersKeepSane ==
  ASSUME StoresTypeOK, Sane, Begin \/ Tick \/ Restart \/ UNCHANGED storesVars
  PROVE  Sane'
  <1> USE DEF Sane, StoreIsSound
  <1>1. CASE Begin
    <2>1. UNCHANGED <<kind, storage, caches>> /\ at' = "check"
      BY <1>1 DEF Begin
    <2>2. Unique(files)' /\ WriteIsAllowed'
      BY <2>1 DEF Unique, WriteIsAllowed, storage
    <2>3. TreeIsCurrent'
      BY <1>1, <2>1 DEF Begin, TreeIsCurrent, storage, caches
    <2>4. EtagsAreCurrent'
      BY <2>1 DEF EtagsAreCurrent, TooFast, storage, caches
    <2>5. MapsAreCurrent'
      BY <2>1 DEF MapsAreCurrent, Moves, storage, caches
    <2>6. MapsAreInverse'
      BY <2>1 DEF MapsAreInverse, storage, caches
    <2> QED
      BY <2>2, <2>3, <2>4, <2>5, <2>6
  <1>2. CASE Restart
    <2>1. /\ UNCHANGED <<kind, storage>> /\ at' = "idle" /\ kind # "memory"
          /\ \A n \in Names : etagCache'[n] = Absent /\ uidOf'[n] = Absent
          /\ cache'.target = 0
      BY <1>2 DEF Restart, NoCache
    <2>2. Unique(files)' /\ WriteIsAllowed'
      BY <2>1 DEF Unique, WriteIsAllowed, storage
    <2>3. TreeIsCurrent'
      BY <2>1 DEF TreeIsCurrent, storage, StoresTypeOK
    <2>4. EtagsAreCurrent'
      BY <2>1 DEF EtagsAreCurrent, TooFast, storage
    <2>5. MapsAreCurrent' /\ MapsAreInverse'
      BY <2>1 DEF MapsAreCurrent, Moves, MapsAreInverse
    <2> QED
      BY <2>2, <2>3, <2>4, <2>5
  <1>3. CASE Tick \/ UNCHANGED storesVars
    <2>1. UNCHANGED <<kind, storage, caches, call, at>>
      BY <1>3 DEF Tick, storesVars
    <2>2. Unique(files)' /\ WriteIsAllowed'
      BY <2>1 DEF Unique, WriteIsAllowed, Clash, storage
    <2>3. TreeIsCurrent'
      BY <2>1 DEF TreeIsCurrent, storage, caches
    <2>4. EtagsAreCurrent'
      BY <2>1 DEF EtagsAreCurrent, TooFast, storage, caches
    <2>5. MapsAreCurrent'
      BY <2>1 DEF MapsAreCurrent, Moves, storage, caches
    <2>6. MapsAreInverse'
      BY <2>1 DEF MapsAreInverse, storage, caches
    <2> QED
      BY <2>2, <2>3, <2>4, <2>5, <2>6
  <1> QED
    BY <1>1, <1>2, <1>3

LEMMA StoresNextInv == StoresInv /\ [StoresNext]_storesVars => StoresInv'
  <1> SUFFICES ASSUME StoresInv, [StoresNext]_storesVars PROVE StoresInv'
    OBVIOUS
  <1>1. StoresTypeOK /\ StoresTypeOK'
    BY StoresNextTypeOK DEF StoresInv
  <1>2. ASSUME ~excused' PROVE Sane'
    <2>1. Sane
      BY <1>1, <1>2, ExcusedForGood, SaneIsInv
    <2> QED
      BY <1>1, <1>2, <2>1, BareKeepsSane, VdirCheckKeepsSane, VdirCheckDeleteKeepsSane,
         VdirWriteKeepsSane, EditKeepsSane, MemoryKeepsSane, OthersKeepSane
      DEF StoresNext, OtherPrograms
  <1> QED
    BY <1>1, <1>2 DEF StoresInv, Sane, UidsUnique, Unique

\* What a store remembers is in step with what it holds until something happens
\* that it does not cope with.
THEOREM StoresInvariant == StoresSpec => []StoresInv
  BY StoresInitInv, StoresNextInv, PTL DEF StoresSpec

\* BareGitStore, VdirStore and MemoryStore: no two members get one UID.
THEOREM UidsStayUnique == StoresSpec => []UidsUnique
  <1>1. StoresInv => UidsUnique
    BY DEF StoresInv
  <1> QED
    BY StoresInvariant, <1>1, PTL

\* A caller reads what the store holds, cache or no cache.
THEOREM ReadsStayTrue == StoresSpec => []ReadsAreTrue
  <1>1. StoresInv => ReadsAreTrue
    <2> SUFFICES ASSUME StoresInv, ~excused, at # "write"
                 PROVE  /\ kind = "bare" => CurrentTree.tree = files
                        /\ kind = "vdir" => \A n \in Names : EtagOf(n) = files[n]
      BY DEF ReadsAreTrue
    <2>1. StoresTypeOK /\ Sane
      BY SaneIsInv
    <2>2. CASE kind = "bare"
      BY <2>1, <2>2, BareTreeIsTrue
    <2>3. CASE kind = "vdir"
      BY <2>1, <2>3, VdirEtagIsTrue DEF Sane, StoreIsSound
    <2> QED
      BY <2>2, <2>3
  <1> QED
    BY StoresInvariant, <1>1, PTL

-----------------------------------------------------------------------------
(* The other stores: the promise and the refusals. *)

\* A call that ends as "ok" meets the preconditions when its change is made.
LEMMA SucceedsStrictly ==
  ASSUME StoresTypeOK, at # "idle", at' = "idle", answer' = "ok", call' = call,
         files' = [files EXCEPT ![call.name] = call.body],
         call.etag # Absent => files[call.name] = call.etag,
         call.body # Absent => ~Clash(files, call.name, call.body)
  PROVE  Promise!Allowed(call) /\ Promise!Succeed(Caller)
  BY DEF Promise!Allowed, Promise!Succeed

LEMMA FailsWithoutChange ==
  ASSUME at # "idle", at' = "idle", answer' \in Failures, call' = call, files' = files
  PROVE  Promise!Fail(Caller)
  BY DEF Promise!Fail

LEMMA BareKeepsContract ==
  ASSUME StoresTypeOK, Sane, BareEdit \/ BareCommit
  PROVE  \/ Promise!StrictNext
         \/ UNCHANGED <<files, call, answer, at = "idle">>
  <1>1. CASE BareEdit
    <2>1. CASE at' = "idle"
      <3>1. answer' \in Failures
        BY <1>1, <2>1 DEF BareEdit, Finish, Verdict, Failures
      <3>2. at # "idle" /\ call' = call /\ files' = files
        BY <1>1 DEF BareEdit, storage
      <3> QED
        BY <2>1, <3>1, <3>2, FailsWithoutChange DEF Promise!StrictNext
    <2>2. CASE at' # "idle"
      <3>1. answer' = answer /\ at # "idle" /\ call' = call /\ files' = files
        BY <1>1, <2>2 DEF BareEdit, Finish, storage
      <3> QED
        BY <2>2, <3>1
    <2> QED
      BY <2>1, <2>2
  <1>2. CASE BareCommit
    <2>1. at = "write" /\ kind = "bare" /\ at' = "idle" /\ call' = call
      BY <1>2 DEF BareCommit, Finish
    <2>2. CASE answer' = "ok"
      <3>1. files' = [files EXCEPT ![call.name] = call.body]
        BY <1>2, <2>1, <2>2 DEF BareCommit, Finish, Sane, StoreIsSound, TreeIsCurrent
      <3>2. /\ call.etag # Absent => files[call.name] = call.etag
            /\ call.body # Absent => ~Clash(files, call.name, call.body)
        BY <2>1 DEF Sane, StoreIsSound, WriteIsAllowed
      <3>3. Promise!Allowed(call) /\ Promise!Succeed(Caller)
        BY <2>1, <2>2, <3>1, <3>2, SucceedsStrictly
      <3> QED
        BY <3>3 DEF Promise!StrictNext
    <2>3. CASE answer' # "ok"
      <3>1. files' = files /\ answer' \in Failures
        BY <1>2, <2>3 DEF BareCommit, Finish, Failures
      <3> QED
        BY <2>1, <3>1, FailsWithoutChange DEF Promise!StrictNext
    <2> QED
      BY <2>2, <2>3
  <1> QED
    BY <1>1, <1>2

LEMMA VdirKeepsContract ==
  ASSUME StoresTypeOK, Sane, VdirCheck \/ VdirCheckDelete \/ VdirWrite
  PROVE  \/ Promise!StrictNext
         \/ UNCHANGED <<files, call, answer, at = "idle">>
  <1>1. CASE VdirCheck \/ VdirCheckDelete
    <2>1. at # "idle" /\ call' = call /\ files' = files
      BY <1>1 DEF VdirCheck, VdirCheckDelete, storage
    <2>2. \/ at' = "idle" /\ answer' \in Failures
          \/ at' = "write" /\ answer' = answer
      <3>1. CASE VdirCheck
        <4>1. \E taken \in BOOLEAN : \E seen, dropped :
                IF dropped # Gone THEN Finish("error")
                ELSE IF Verdict(taken, seen) = "ok" THEN at' = "write" /\ UNCHANGED answer
                ELSE Finish(Verdict(taken, seen))
          BY <3>1 DEF VdirCheck
        <4> QED
          BY <4>1 DEF Finish, Verdict, Failures
      <3>2. CASE VdirCheckDelete
        BY <3>2 DEF VdirCheckDelete, Finish, Verdict, Failures
      <3> QED
        BY <1>1, <3>1, <3>2
    <2>3. CASE at' = "idle"
      BY <2>1, <2>2, <2>3, FailsWithoutChange DEF Promise!StrictNext
    <2>4. CASE at' # "idle"
      BY <2>1, <2>2, <2>4
    <2> QED
      BY <2>3, <2>4
  <1>2. CASE VdirWrite
    <2>1. at = "write" /\ kind = "vdir" /\ at' = "idle" /\ call' = call
      BY <1>2 DEF VdirWrite, Finish
    <2>2. CASE answer' = "ok"
      <3>1. files' = [files EXCEPT ![call.name] = call.body]
        BY <1>2, <2>2 DEF VdirWrite, Finish
      <3>2. /\ call.etag # Absent => files[call.name] = call.etag
            /\ call.body # Absent => ~Clash(files, call.name, call.body)
        BY <2>1 DEF Sane, StoreIsSound, WriteIsAllowed
      <3>3. Promise!Allowed(call) /\ Promise!Succeed(Caller)
        BY <2>1, <2>2, <3>1, <3>2, SucceedsStrictly
      <3> QED
        BY <3>3 DEF Promise!StrictNext
    <2>3. CASE answer' # "ok"
      <3>1. files' = files /\ answer' \in Failures
        BY <1>2, <2>3 DEF VdirWrite, Finish, Failures
      <3> QED
        BY <2>1, <3>1, FailsWithoutChange DEF Promise!StrictNext
    <2> QED
      BY <2>2, <2>3
  <1> QED
    BY <1>1, <1>2

\* What the map of UIDs says is taken, a member has.
LEMMA MemoryKnowsUids ==
  ASSUME StoresTypeOK, Sane, kind = "memory", call.body # Absent
  PROVE  nameOf[UidOf[call.body]] \notin {call.name, Absent} <=> Clash(files, call.name, call.body)
  <1> DEFINE u == UidOf[call.body]
  <1>1. call.body \in Bodies /\ u \in Uids /\ nameOf[u] \in Names \cup {Absent}
    BY BackendsAssumption DEF StoresTypeOK, Calls
  <1>2. /\ \A m \in Names : files[m] # Absent => nameOf[UidOf[files[m]]] = m
        /\ nameOf[u] # Absent => files[nameOf[u]] # Absent /\ UidOf[files[nameOf[u]]] = u
    BY <1>1 DEF Sane, StoreIsSound, MapsAreInverse
  <1>3. ASSUME nameOf[u] \notin {call.name, Absent}
        PROVE  Clash(files, call.name, call.body)
    BY <1>1, <1>2, <1>3 DEF Clash
  <1>4. ASSUME Clash(files, call.name, call.body)
        PROVE  nameOf[u] \notin {call.name, Absent}
    <2>1. PICK o \in Names \ {call.name} : files[o] # Absent /\ UidOf[files[o]] = u
      BY <1>4 DEF Clash
    <2>2. nameOf[u] = o
      BY <1>2, <2>1
    <2> QED
      BY <2>1, <2>2, BackendsAssumption
  <1> QED
    BY <1>3, <1>4

LEMMA MemoryKeepsContract ==
  ASSUME StoresTypeOK, Sane, MemoryCall
  PROVE  Promise!StrictNext
  <1> DEFINE taken == call.body # Absent /\ nameOf[UidOf[call.body]] \notin {call.name, Absent}
             v == Verdict(taken, files[call.name])
  <1>1. kind = "memory" /\ at # "idle" /\ at' = "idle" /\ call' = call
    BY DEF MemoryCall, Finish
  <1>2. CASE answer' = "ok"
    <2>1. /\ v = "ok"
          /\ files' = [files EXCEPT ![call.name] = call.body]
      BY <1>2 DEF MemoryCall, Finish
    <2>2. /\ call.body # Absent => ~taken
          /\ call.etag # Absent => files[call.name] = call.etag
      BY <2>1, VerdictIsOk
    <2>3. call.body # Absent => ~Clash(files, call.name, call.body)
      BY <1>1, <2>2, MemoryKnowsUids
    <2>4. Promise!Allowed(call) /\ Promise!Succeed(Caller)
      BY <1>1, <1>2, <2>1, <2>2, <2>3, SucceedsStrictly
    <2> QED
      BY <2>4 DEF Promise!StrictNext
  <1>3. CASE answer' # "ok"
    <2>1. files' = files /\ answer' \in Failures
      BY <1>3 DEF MemoryCall, Finish, Verdict, Failures
    <2> QED
      BY <1>1, <2>1, FailsWithoutChange DEF Promise!StrictNext
  <1> QED
    BY <1>2, <1>3

LEMMA OthersKeepContract ==
  ASSUME StoresTypeOK, Begin \/ Tick \/ Restart
  PROVE  \/ Promise!StrictNext
         \/ UNCHANGED <<files, call, answer, at = "idle">>
  <1>1. CASE Begin
    <2>1. /\ at = "idle" /\ at' = "check" /\ call' \in Calls
          /\ answer' = "none" /\ files' = files
      BY <1>1 DEF Begin, storage
    <2>2. call' \in Promise!Calls
      BY <2>1 DEF Calls, Promise!Calls
    <2>3. Promise!Start(Caller)
      BY <2>1, <2>2 DEF Promise!Start
    <2> QED
      BY <2>3 DEF Promise!StrictNext
  <1>2. CASE Restart
    <2>1. /\ at' = "idle" /\ call' = call /\ files' = files
          /\ answer' = IF at = "idle" THEN answer ELSE "crashed"
      BY <1>2 DEF Restart, storage
    <2>2. Promise!Crash
      BY <2>1 DEF Promise!Crash
    <2> QED
      BY <2>2 DEF Promise!StrictNext
  <1>3. CASE Tick
    BY <1>3 DEF Tick, storage
  <1> QED
    BY <1>1, <1>2, <1>3

\* Each store keeps the strict promise of a collection: every step of it is a step
\* of the promise, another program's, or follows an exception.
THEOREM ImplementsContract == StoresSpec => KeepsContract
  <1>1. StoresInv /\ [StoresNext]_storesVars =>
          [Promise!StrictNext \/ OtherPrograms \/ excused]_<<files, call, answer, at = "idle">>
    <2> SUFFICES ASSUME StoresInv, [StoresNext]_storesVars, ~excused, ~OtherPrograms
                 PROVE  \/ Promise!StrictNext
                        \/ UNCHANGED <<files, call, answer, at = "idle">>
      OBVIOUS
    <2>1. StoresTypeOK /\ Sane
      BY SaneIsInv
    <2>2. CASE UNCHANGED storesVars
      BY <2>2 DEF storesVars, storage
    <2> QED
      BY <2>1, <2>2, BareKeepsContract, VdirKeepsContract, MemoryKeepsContract, OthersKeepContract
      DEF StoresNext
  <1> QED
    BY StoresInvariant, <1>1, PTL DEF StoresSpec, KeepsContract

\* What Verdict says against a call.
LEMMA VerdictIsJust ==
  ASSUME NEW taken \in BOOLEAN, NEW seen
  PROVE  /\ Verdict(taken, seen) = "duplicate" => taken
         /\ Verdict(taken, seen) = "missing" => seen = Absent
         /\ Verdict(taken, seen) = "mismatch" => seen # call.etag
  BY DEF Verdict

Just ==
  /\ answer' = "duplicate" /\ kind # "vdir" => Clash(files, call.name, call.body)
  /\ answer' = "missing" => files[call.name] = Absent
  /\ answer' = "mismatch" /\ kind # "memory" => files[call.name] # call.etag

LEMMA BareIsJust ==
  ASSUME StoresTypeOK, Sane, BareEdit, at' = "idle"
  PROVE  Just
  <1> DEFINE taken == call.body # Absent /\ Owners(files, UidOf[call.body]) \ {call.name} # {}
             seen == files[call.name]
  <1>1. CurrentTree.tree = files
    BY BareTreeIsTrue DEF BareEdit
  <1>2. answer' = Verdict(taken, seen)
    BY <1>1 DEF BareEdit, Finish
  <1>3. taken => Clash(files, call.name, call.body)
    BY DEF Owners, Clash
  <1> QED
    BY <1>2, <1>3, VerdictIsJust DEF Just

LEMMA VdirIsJust ==
  ASSUME StoresTypeOK, Sane, VdirCheck \/ VdirCheckDelete, at' = "idle"
  PROVE  Just
  <1>1. /\ kind = "vdir" /\ call.name \in Names
        /\ EtagOf(call.name) = files[call.name]
    BY VdirEtagIsTrue DEF VdirCheck, VdirCheckDelete, Sane, StoreIsSound, StoresTypeOK, Calls
  <1>2. PICK taken \in BOOLEAN : answer' \in {"error", Verdict(taken, files[call.name])}
    BY <1>1 DEF VdirCheck, VdirCheckDelete, Finish
  <1>3. CASE answer' = "error"
    BY <1>3 DEF Just
  <1>4. CASE answer' = Verdict(taken, files[call.name])
    BY <1>1, <1>4, VerdictIsJust DEF Just
  <1> QED
    BY <1>2, <1>3, <1>4

LEMMA MemoryIsJust ==
  ASSUME StoresTypeOK, Sane, MemoryCall
  PROVE  Just
  <1> DEFINE taken == call.body # Absent /\ nameOf[UidOf[call.body]] \notin {call.name, Absent}
             v == Verdict(taken, files[call.name])
  <1>1. kind = "memory"
    BY DEF MemoryCall
  <1>2. answer' = v \/ answer' = "mismatch"
    BY DEF MemoryCall, Finish
  <1>3. taken => Clash(files, call.name, call.body)
    BY <1>1, MemoryKnowsUids
  <1>4. CASE answer' = v
    BY <1>1, <1>3, <1>4, VerdictIsJust DEF Just
  <1>5. CASE answer' = "mismatch"
    BY <1>1, <1>5 DEF Just
  <1> QED
    BY <1>2, <1>4, <1>5

\* A call is refused because of what the store holds, not of what it remembers.
THEOREM RefusalsStayJust == StoresSpec => RefusalsAreJust
  <1>1. StoresInv /\ [StoresNext]_storesVars =>
          [at # "idle" /\ at' = "idle" /\ ~excused => Just]_storesVars
    <2> SUFFICES ASSUME StoresInv, StoresNext, at # "idle", at' = "idle", ~excused
                 PROVE  Just
      OBVIOUS
    <2>1. StoresTypeOK /\ Sane
      BY SaneIsInv
    <2>2. CASE BareCommit \/ VdirWrite
      BY <2>2 DEF BareCommit, VdirWrite, Finish, Just
    <2>3. CASE Begin \/ Push \/ Edit \/ Tick
      BY <2>3 DEF Begin, Push, Edit, Tick
    <2>4. CASE Restart
      BY <2>4 DEF Restart, Just
    <2> QED
      BY <2>1, <2>2, <2>3, <2>4, BareIsJust, VdirIsJust, MemoryIsJust
      DEF StoresNext, OtherPrograms
  <1> QED
    BY StoresInvariant, <1>1, PTL DEF StoresSpec, RefusalsAreJust, Just
==============================================================================

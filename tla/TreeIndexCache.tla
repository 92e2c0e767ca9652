--------------------------- MODULE TreeIndexCache ---------------------------
(***************************************************************************)
(* The in-memory copy of .git/index in TreeGitStore (_open_index,          *)
(* _invalidate_index_cache, get_ctag, get_etag in xandikos/store/git.py).  *)
(* Three attributes, no lock: the index, the stat result it belongs to and *)
(* the ctag computed from it.  The event loop, the worker threads of       *)
(* set_body and the eager indexer all go through them; the interpreter may *)
(* switch threads between any two accesses.                                *)
(*                                                                         *)
(* A version of the index stands for its content, for its stat result      *)
(* (distinct versions differ in mtime or size) and for its ctag (the id of *)
(* its tree).                                                              *)
(***************************************************************************)
EXTENDS Naturals

CONSTANTS Threads,     \* threads of this process
          Foreign,     \* whether another process writes the index too
          None,        \* Python's None
          MaxVersion,  \* bound on the index files written
          MaxCalls     \* bound on the calls started

ASSUME NoneAssumption == None \notin Nat
ASSUME BoundAssumption == MaxVersion \in Nat /\ MaxCalls \in Nat /\ Foreign \in BOOLEAN

VARIABLES
  file,     \* the version of .git/index; 0 when the file does not exist
  cached,   \* [index, stat, ctag]: the three attributes
  pc,
  op,       \* what each thread runs: "get_ctag", "get_etag" or "write"
  local,    \* [stat, index, ctag]: the locals of each thread
  since,    \* history: the version of the file when each call began
  result,   \* what each thread's last call answered with
  calls     \* calls started

vars == <<file, cached, pc, op, local, since, result, calls>>

Versions == 0 .. MaxVersion
Fields == [index : Versions \cup {None}, stat : Versions \cup {None},
           ctag : Versions \cup {None}]
Empty == [index |-> None, stat |-> None, ctag |-> None]

Steps == {"idle", "stat", "isset", "samestat", "loadindex", "loadctag", "open",
          "setindex", "setstat", "clearctag", "answer", "compute", "setctag",
          "rename", "dropindex", "dropstat", "dropctag"}

Init ==
  /\ file = 0
  /\ cached = Empty
  /\ pc = [t \in Threads |-> "idle"]
  /\ op = [t \in Threads |-> "get_ctag"]
  /\ local = [t \in Threads |-> Empty]
  /\ since = [t \in Threads |-> 0]
  /\ result = [t \in Threads |-> None]
  /\ calls = 0

Goto(t, here, there) ==
  /\ pc[t] = here
  /\ pc' = [pc EXCEPT ![t] = there]

Start(t, what) ==
  /\ calls < MaxCalls
  /\ calls' = calls + 1
  /\ Goto(t, "idle", IF what = "write" THEN "rename" ELSE "stat")
  /\ op' = [op EXCEPT ![t] = what]
  /\ local' = [local EXCEPT ![t] = Empty]
  /\ since' = [since EXCEPT ![t] = file]
  /\ result' = [result EXCEPT ![t] = None]
  /\ UNCHANGED <<file, cached>>

-----------------------------------------------------------------------------
(* _open_index *)

\* Mutant of StatFile: a missing file has a stat result of its own.
StatFileMissing(t) ==
  /\ Goto(t, "stat", "isset")
  /\ local' = [local EXCEPT ![t].stat = IF file = 0 THEN MaxVersion + 1 ELSE file]
  /\ UNCHANGED <<file, cached, op, since, result, calls>>

\* os.stat; without an index file the attributes are cleared.
StatFile(t) ==
  /\ Goto(t, "stat", IF file = 0 THEN "dropindex" ELSE "isset")
  /\ local' = [local EXCEPT ![t].stat = file]
  /\ UNCHANGED <<file, cached, op, since, result, calls>>

\* "self._cached_index is not None and ..."
TestIndex(t) ==
  /\ Goto(t, "isset", IF cached.index # None THEN "samestat" ELSE "open")
  /\ UNCHANGED <<file, cached, op, local, since, result, calls>>

\* Mutant of TestStat: a cached index is used without looking at the file.
TestStatSkipped(t) ==
  /\ Goto(t, "samestat", "loadindex")
  /\ UNCHANGED <<file, cached, op, local, since, result, calls>>

\* "... self._cached_index_stat == current_stat"
TestStat(t) ==
  /\ Goto(t, "samestat", IF cached.stat = local[t].stat THEN "loadindex" ELSE "open")
  /\ UNCHANGED <<file, cached, op, local, since, result, calls>>

\* "return self._cached_index, self._cached_ctag": two reads.
LoadIndex(t) ==
  /\ Goto(t, "loadindex", "loadctag")
  /\ local' = [local EXCEPT ![t].index = cached.index]
  /\ UNCHANGED <<file, cached, op, since, result, calls>>

LoadCtag(t) ==
  /\ Goto(t, "loadctag", "answer")
  /\ local' = [local EXCEPT ![t].ctag = cached.ctag]
  /\ UNCHANGED <<file, cached, op, since, result, calls>>

\* repo.open_index() reads the file again: it may be newer than the stat.
OpenIndex(t) ==
  /\ Goto(t, "open", IF local[t].stat = 0 THEN "answer" ELSE "setindex")
  /\ local' = [local EXCEPT ![t].index = file]
  /\ UNCHANGED <<file, cached, op, since, result, calls>>

SetIndex(t) ==
  /\ Goto(t, "setindex", "setstat")
  /\ cached' = [cached EXCEPT !.index = local[t].index]
  /\ UNCHANGED <<file, op, local, since, result, calls>>

\* Mutant of SetStat: the file is stat'ed after it was read.
SetStatAfterwards(t) ==
  /\ Goto(t, "setstat", "clearctag")
  /\ cached' = [cached EXCEPT !.stat = file]
  /\ UNCHANGED <<file, op, local, since, result, calls>>

SetStat(t) ==
  /\ Goto(t, "setstat", "clearctag")
  /\ cached' = [cached EXCEPT !.stat = local[t].stat]
  /\ UNCHANGED <<file, op, local, since, result, calls>>

\* Mutant of ClearCtag: the old ctag stays.
ClearCtagForgotten(t) ==
  /\ Goto(t, "clearctag", "answer")
  /\ UNCHANGED <<file, cached, op, local, since, result, calls>>

ClearCtag(t) ==
  /\ Goto(t, "clearctag", "answer")
  /\ cached' = [cached EXCEPT !.ctag = None]
  /\ UNCHANGED <<file, op, local, since, result, calls>>

-----------------------------------------------------------------------------
(* get_etag and get_ctag *)

Return(t, value) ==
  /\ pc' = [pc EXCEPT ![t] = "idle"]
  /\ result' = [result EXCEPT ![t] = value]

\* get_etag looks the member up in the index it got.
AnswerEtag(t) ==
  /\ pc[t] = "answer" /\ op[t] = "get_etag"
  /\ Return(t, local[t].index)
  /\ UNCHANGED <<file, cached, op, local, since, calls>>

\* get_ctag uses the cached ctag ...
AnswerCtag(t) ==
  /\ pc[t] = "answer" /\ op[t] = "get_ctag" /\ local[t].ctag # None
  /\ Return(t, local[t].ctag)
  /\ UNCHANGED <<file, cached, op, local, since, calls>>

\* ... or writes the tree of the index to the object store,
ComputeCtag(t) ==
  /\ op[t] = "get_ctag" /\ local[t].ctag = None
  /\ Goto(t, "answer", "setctag")
  /\ local' = [local EXCEPT ![t].ctag = local[t].index]
  /\ UNCHANGED <<file, cached, op, since, result, calls>>

\* and remembers its id.
SetCtag(t) ==
  /\ pc[t] = "setctag"
  /\ cached' = [cached EXCEPT !.ctag = local[t].ctag]
  /\ Return(t, local[t].ctag)
  /\ UNCHANGED <<file, op, local, since, calls>>

-----------------------------------------------------------------------------
(* The end of _import_one and delete_one. *)

\* locked_index renames index.lock over the index ...
RenameIndex(t) ==
  /\ file < MaxVersion
  /\ Goto(t, "rename", "dropindex")
  /\ file' = file + 1
  /\ UNCHANGED <<cached, op, local, since, result, calls>>

\* ... and "finally" runs _invalidate_index_cache, which is also what
\* _open_index does when there is no file.
DropIndex(t) ==
  /\ Goto(t, "dropindex", "dropstat")
  /\ cached' = [cached EXCEPT !.index = None]
  /\ UNCHANGED <<file, op, local, since, result, calls>>

DropStat(t) ==
  /\ Goto(t, "dropstat", "dropctag")
  /\ cached' = [cached EXCEPT !.stat = None]
  /\ UNCHANGED <<file, op, local, since, result, calls>>

DropCtag(t) ==
  /\ Goto(t, "dropctag", IF op[t] = "write" THEN "idle" ELSE "open")
  /\ cached' = [cached EXCEPT !.ctag = None]
  /\ UNCHANGED <<file, op, local, since, result, calls>>

\* Another process replaces the index; it cannot reach these attributes.
ForeignWrite ==
  /\ Foreign
  /\ file < MaxVersion
  /\ file' = file + 1
  /\ UNCHANGED <<cached, pc, op, local, since, result, calls>>

Step(t) ==
  \/ StatFile(t) \/ TestIndex(t) \/ TestStat(t) \/ LoadIndex(t) \/ LoadCtag(t)
  \/ OpenIndex(t) \/ SetIndex(t) \/ SetStat(t) \/ ClearCtag(t)
  \/ AnswerEtag(t) \/ AnswerCtag(t) \/ ComputeCtag(t) \/ SetCtag(t)
  \/ RenameIndex(t) \/ DropIndex(t) \/ DropStat(t) \/ DropCtag(t)

Next ==
  \/ ForeignWrite
  \/ \E t \in Threads :
       \/ \E what \in {"get_ctag", "get_etag", "write"} : Start(t, what)
       \/ Step(t)

Spec == Init /\ [][Next]_vars

-----------------------------------------------------------------------------
(* Properties *)

\* The shape of every variable.
TypeOK ==
  /\ file \in Versions
  /\ cached \in Fields
  /\ pc \in [Threads -> Steps]
  /\ op \in [Threads -> {"get_ctag", "get_etag", "write"}]
  /\ local \in [Threads -> Fields]
  /\ since \in [Threads -> Versions]
  /\ result \in [Threads -> Versions \cup {None}]
  /\ calls \in 0 .. MaxCalls

Answers(t) == pc[t] # "idle" /\ pc'[t] = "idle" /\ op[t] # "write"

\* A call answers from an index that was current at some time during the call:
\* a client that has seen its write acknowledged sees its effect.
AnswersAreCurrent ==
  [][\A t \in Threads : Answers(t) => result'[t] \in since[t] .. file]_vars

\* The cached index is the file, as long as its stat says so ("re-reading only
\* if the file changed").
CacheIsTrue ==
  (\A t \in Threads : pc[t] = "idle") /\ cached.index # None /\ cached.stat = file
    => cached.index = file

\* A cached ctag belongs to the cached index.
CtagBelongsToIndex ==
  (\A t \in Threads : pc[t] = "idle") /\ cached.index # None /\ cached.ctag # None
    => cached.ctag = cached.index

\* Threads may take each other's work away, but never make one another fail:
\* no caller is handed None for an index.
IndexIsNeverNone ==
  \A t \in Threads : pc[t] \in {"answer", "setctag"} => local[t].index # None

\* The inductive invariant of a process with one thread.  The index was read
\* after the stat that is remembered with it, and the file only ever gets newer:
\* so a remembered stat that is still that of the file proves the index current.
\* Between two assignments of _open_index the attributes do not belong together;
\* pc says which of them lag behind.
Stated(t) ==
  \/ pc[t] \in {"isset", "samestat", "loadindex", "loadctag", "open"}
  \/ pc[t] \in {"dropindex", "dropstat", "dropctag"} /\ op[t] # "write"

HasIndex(t) == pc[t] \in {"loadctag", "setindex", "setstat", "clearctag", "answer", "setctag"}

LocalsAreSound(t) ==
  /\ since[t] <= file
  /\ pc[t] = "rename" => op[t] = "write"
  /\ Stated(t) => local[t].stat \in since[t] .. file
  /\ pc[t] \in {"isset", "samestat"} => local[t].stat # 0
  /\ Stated(t) \/ pc[t] \in {"stat", "setindex", "setstat", "clearctag"} => local[t].ctag = None
  /\ pc[t] \in {"setindex", "setstat"} => local[t].stat \in since[t] .. local[t].index
  /\ HasIndex(t) => local[t].index \in since[t] .. file
  /\ pc[t] = "answer" => local[t].ctag \in {None, local[t].index}
  /\ pc[t] = "setctag" => local[t].ctag = local[t].index

CacheIsSound(t) ==
  /\ cached.index # None =>
       /\ cached.index <= file
       /\ pc[t] # "setstat" => cached.stat \in 0 .. cached.index
       /\ pc[t] \notin {"setstat", "clearctag"} => cached.ctag \in {None, cached.index}
  /\ pc[t] \in {"samestat", "loadindex", "loadctag"} => cached.index # None
  /\ pc[t] = "loadindex" => cached.stat = local[t].stat
  /\ pc[t] \in {"loadctag", "setstat", "clearctag"} => cached.index = local[t].index
  /\ pc[t] \in {"answer", "setctag"} => cached.index \in {None, local[t].index}
  /\ pc[t] = "setstat" => local[t].stat \in 0 .. cached.index
  /\ pc[t] = "open" /\ local[t].stat = 0 => cached.index = None
  /\ pc[t] \in {"dropstat", "dropctag"} => cached.index = None

IInv == TypeOK /\ \A t \in Threads : LocalsAreSound(t) /\ CacheIsSound(t)
=============================================================================

----------------------------- MODULE StoreIndex -----------------------------
(***************************************************************************)
(* The filter index of a store: MemoryIndex and AutoIndexManager           *)
(* (xandikos/store/index.py) and the code in xandikos/store/__init__.py    *)
(* that fills and reads them.                                              *)
(*                                                                         *)
(* Queries run on the event loop; a report awaits between two results, so  *)
(* several are open at a time.  The index is also filled by the worker     *)
(* threads that run import_one and by the daemon thread of                 *)
(* start_eager_indexing.  No lock guards it, and the interpreter may       *)
(* switch threads between any two statements.                              *)
(*                                                                         *)
(* Index values are abstracted to what can go wrong with them: get_values  *)
(* takes a missing value for an empty one.                                 *)
(***************************************************************************)
EXTENDS Naturals

CONSTANTS
  Queries,      \* reports that may be open at a time
  Writers,      \* worker threads that run import_one
  Scanner,      \* the eager-index-scan thread
  Names,        \* file names, as positions in the order of the index
  Bodies,       \* contents, each its own etag
  Absent,
  Keys,         \* index keys
  Has,          \* Has[k]: the bodies for which key k has a value
  EagerKeys,    \* default_index_keys(); {} when there is no eager indexing
  Threshold,    \* indexing_threshold
  MaxOps        \* bound on the writes, deletions and queries

Threads == Writers \cup {Scanner}

ASSUME NamesAssumption == Names \subseteq Nat
ASSUME KeysAssumption == EagerKeys \subseteq Keys /\ Has \in [Keys -> SUBSET Bodies]
ASSUME MarkerAssumption == Absent \notin Bodies /\ Scanner \notin Writers
ASSUME BoundAssumption == Threshold \in Nat /\ MaxOps \in Nat

VARIABLES
  members,  \* [Names -> body or Absent], what iter_with_etag lists
  keys,     \* the keys of _indexes
  values,   \* the <<key, etag>> pairs that _indexes holds
  inIndex,  \* _in_index
  desired,  \* AutoIndexManager.desired
  reset,    \* [stage, todo]: the reset the event loop is in
  query,    \* each report: [phase, need, defined, listing, left, found]
  pc,       \* where each other thread is
  job,      \* [body, todo]: the add_values each of them runs
  scan,     \* [keys, listing, left]: the locals of _populate_indexes
  died,     \* the threads in which an AssertionError was raised
  raced,    \* history: a reset met a thread that held a list of keys
  ops

index == <<keys, values, inIndex>>
loop == <<desired, reset, query>>
threads == <<pc, job, scan, died>>
vars == <<members, keys, values, inIndex, desired, reset, query, pc, job, scan, died, raced, ops>>

Listing == [Names -> Bodies \cup {Absent}]
Listed(listing) == {n \in Names : listing[n] # Absent}
NoFiles == [n \in Names |-> Absent]

\* What a report, an add_values and a scan that are not running look like.
NoQuery == [phase |-> "idle", need |-> {}, defined |-> TRUE,
            listing |-> NoFiles, left |-> {}, found |-> {}]
NoJob == [body |-> Absent, todo |-> {}]
NoScan == [keys |-> {}, listing |-> NoFiles, left |-> {}]

\* store.index.reset(all_keys) is done before the scan thread starts.
Init ==
  /\ members \in Listing
  /\ keys = EagerKeys
  /\ values = {}
  /\ inIndex = {}
  /\ desired = [k \in Keys |-> 0]
  /\ reset = [stage |-> "none", todo |-> {}]
  /\ query = [q \in Queries |-> NoQuery]
  /\ pc = [t \in Threads |-> IF t = Scanner /\ EagerKeys # {} THEN "readkeys" ELSE "idle"]
  /\ job = [t \in Threads |-> NoJob]
  /\ scan = NoScan
  /\ died = {}
  /\ raced = FALSE
  /\ ops = 0

CountOp == ops < MaxOps /\ ops' = ops + 1

\* The event loop is not inside reset().
LoopIsFree == reset.stage = "none"

-----------------------------------------------------------------------------
(* import_one and delete_one on the event loop, and _index_file there:     *)
(* nothing else on the loop runs in between.                               *)

CreateOnLoop(n, b) ==
  /\ LoopIsFree
  /\ CountOp
  /\ members[n] = Absent
  /\ members' = [members EXCEPT ![n] = b]
  /\ values' = values \cup (keys \X {b})
  /\ inIndex' = IF keys = {} THEN inIndex ELSE inIndex \cup {b}
  /\ UNCHANGED <<keys, loop, threads, raced>>

Delete(n) ==
  /\ LoopIsFree
  /\ CountOp
  /\ members[n] # Absent
  /\ members' = [members EXCEPT ![n] = Absent]
  /\ UNCHANGED <<index, loop, threads, raced>>

-----------------------------------------------------------------------------
(* A query: iter_with_filter on the event loop.                            *)

Matches(q, b) == \A k \in query[q].need : (b \in Has[k]) = query[q].defined

\* match_indexes on what get_values returned.
MatchesIndex(q, b) ==
  \A k \in query[q].need :
    (<<k, b>> \in values /\ b \in Has[k]) = query[q].defined

\* Between reading available_keys() and the end of add_values.
HoldsKeys(t) == pc[t] \in {"add", "open", "scan"}

\* Mutant of AllKeys: the new index has only the keys that were missed.
AllKeysNew(new) == new

\* all_keys: the keys to build the new index from.
AllKeys(new) == keys \cup new

\* find_present_keys: count what is missing, and extend the index by the keys
\* that were missed too often.  The listing is opened in the same turn of the loop.
StartQuery(q, need, defined) ==
  LET missing == need \ keys
      counts == [k \in Keys |-> IF k \in missing THEN desired[k] + 1 ELSE desired[k]]
      new == {k \in missing : counts[k] > Threshold}
  IN /\ LoopIsFree
     /\ CountOp
     /\ query[q].phase = "idle"
     /\ query' = [query EXCEPT ![q] =
          [phase |-> IF missing = {} THEN "byindex" ELSE "naive", need |-> need,
           defined |-> defined, listing |-> members, left |-> Listed(members),
           found |-> {}]]
     /\ desired' = counts
     /\ reset' = IF new = {} THEN reset ELSE [stage |-> "etags", todo |-> AllKeys(new)]
     /\ raced' = (raced \/ (new # {} /\ \E t \in Threads : HoldsKeys(t)))
     /\ UNCHANGED <<members, index, threads>>

\* Mutant of ResetEtags: the etags stay marked as indexed.
ResetEtagsForgotten ==
  /\ reset.stage = "etags"
  /\ reset' = [reset EXCEPT !.stage = "tables"]
  /\ UNCHANGED <<members, index, desired, query, threads, ops, raced>>

\* MemoryIndex.reset, statement by statement.
ResetEtags ==
  /\ reset.stage = "etags"
  /\ reset' = [reset EXCEPT !.stage = "tables"]
  /\ inIndex' = {}
  /\ UNCHANGED <<members, keys, values, desired, query, threads, ops, raced>>

ResetTables ==
  /\ reset.stage = "tables"
  /\ reset' = [reset EXCEPT !.stage = "fill"]
  /\ keys' = {}
  /\ values' = {}
  /\ UNCHANGED <<members, inIndex, desired, query, threads, ops, raced>>

ResetKey(k) ==
  /\ reset.stage = "fill"
  /\ k \in reset.todo
  /\ keys' = keys \cup {k}
  /\ reset' = [stage |-> IF reset.todo = {k} THEN "none" ELSE "fill", todo |-> reset.todo \ {k}]
  /\ UNCHANGED <<members, values, inIndex, desired, query, threads, ops, raced>>

\* The next item of the generator; the loop runs other tasks between items.
Next1(q, n) ==
  /\ LoopIsFree
  /\ n \in query[q].left /\ \A m \in query[q].left : n <= m

Found(q, n, hit) ==
  query' = [query EXCEPT ![q].left = @ \ {n},
                         ![q].found = IF hit THEN @ \cup {n} ELSE @]

\* _iter_with_filter_naive
CheckFile(q, n) ==
  /\ query[q].phase = "naive"
  /\ Next1(q, n)
  /\ Found(q, n, Matches(q, query[q].listing[n]))
  /\ UNCHANGED <<members, index, desired, reset, threads, ops, raced>>

\* Mutant of IndexFile: the filter runs before the values are added.
IndexFileLate(q, n) ==
  LET b == query[q].listing[n]
  IN /\ query[q].phase = "byindex"
     /\ Next1(q, n)
     /\ b \notin inIndex
     /\ values' = values \cup (keys \X {b})
     /\ inIndex' = inIndex \cup {b}
     /\ Found(q, n, MatchesIndex(q, b))
     /\ UNCHANGED <<members, keys, desired, reset, threads, ops, raced>>

\* _iter_with_filter_indexes, etag not in the index: parse and add_values.
IndexFile(q, n) ==
  LET b == query[q].listing[n]
  IN /\ query[q].phase = "byindex"
     /\ Next1(q, n)
     /\ b \notin inIndex
     /\ values' = values \cup (keys \X {b})
     /\ inIndex' = inIndex \cup {b}
     /\ Found(q, n, Matches(q, b))
     /\ UNCHANGED <<members, keys, desired, reset, threads, ops, raced>>

\* _iter_with_filter_indexes, etag in the index: the file is not looked at.
CheckIndex(q, n) ==
  LET b == query[q].listing[n]
  IN /\ query[q].phase = "byindex"
     /\ Next1(q, n)
     /\ b \in inIndex
     /\ Found(q, n, MatchesIndex(q, b))
     /\ UNCHANGED <<members, index, desired, reset, threads, ops, raced>>

EndQuery(q) ==
  /\ LoopIsFree
  /\ query[q].phase # "idle"
  /\ query[q].left = {}
  /\ query' = [query EXCEPT ![q] = NoQuery]
  /\ UNCHANGED <<members, index, desired, reset, threads, ops, raced>>

QueryStep(q) ==
  \/ \E n \in Names : CheckFile(q, n) \/ IndexFile(q, n) \/ CheckIndex(q, n)
  \/ EndQuery(q)

LoopStep ==
  \/ ResetEtags \/ ResetTables \/ \E k \in Keys : ResetKey(k)

-----------------------------------------------------------------------------
(* _index_file in a worker thread, and add_values.                         *)

WriteMember(t, n, b) ==
  /\ CountOp
  /\ pc[t] = "idle"
  /\ members' = [members EXCEPT ![n] = b]
  /\ pc' = [pc EXCEPT ![t] = "keys"]
  /\ job' = [job EXCEPT ![t] = [body |-> b, todo |-> {}]]
  /\ UNCHANGED <<index, loop, scan, died, raced>>

\* Mutant of ReadKeys: every key there is, instead of those in the index.
ReadKeysAll(t) ==
  /\ pc[t] = "keys"
  /\ pc' = [pc EXCEPT ![t] = "add"]
  /\ job' = [job EXCEPT ![t].todo = Keys]
  /\ raced' = (raced \/ ~LoopIsFree)
  /\ UNCHANGED <<members, index, loop, scan, died, ops>>

\* keys = list(self.index.available_keys()), then the file is parsed.
ReadKeys(t) ==
  /\ pc[t] = "keys"
  /\ pc' = [pc EXCEPT ![t] = IF keys = {} THEN "idle" ELSE "add"]
  /\ job' = [job EXCEPT ![t] = IF keys = {} THEN NoJob ELSE [@ EXCEPT !.todo = keys]]
  /\ raced' = (raced \/ ~LoopIsFree)
  /\ UNCHANGED <<members, index, loop, scan, died, ops>>

\* Mutant of AddValue: a key without a table gets one.
AddValueUnchecked(t, k) ==
  /\ pc[t] = "add"
  /\ k \in job[t].todo
  /\ values' = values \cup {<<k, job[t].body>>}
  /\ job' = [job EXCEPT ![t].todo = @ \ {k}]
  /\ UNCHANGED <<members, keys, inIndex, loop, pc, scan, died, ops, raced>>

AddValue(t, k) ==
  /\ pc[t] = "add"
  /\ k \in job[t].todo
  /\ k \in keys
  /\ values' = values \cup {<<k, job[t].body>>}
  /\ job' = [job EXCEPT ![t].todo = @ \ {k}]
  /\ UNCHANGED <<members, keys, inIndex, loop, pc, scan, died, ops, raced>>

\* "if k not in self._indexes: raise AssertionError"
Assert(t, k) ==
  /\ pc[t] = "add"
  /\ k \in job[t].todo
  /\ k \notin keys
  /\ died' = died \cup {t}
  /\ pc' = [pc EXCEPT ![t] = "idle"]
  /\ job' = [job EXCEPT ![t] = NoJob]
  /\ scan' = IF t = Scanner THEN NoScan ELSE scan
  /\ UNCHANGED <<members, index, loop, ops, raced>>

\* Mutant of MarkIndexed: the scan ends with the first file it has to parse.
MarkIndexedOnce(t) ==
  /\ pc[t] = "add"
  /\ job[t].todo = {}
  /\ inIndex' = inIndex \cup {job[t].body}
  /\ pc' = [pc EXCEPT ![t] = "idle"]
  /\ job' = [job EXCEPT ![t] = NoJob]
  /\ UNCHANGED <<members, keys, values, loop, scan, died, ops, raced>>

MarkIndexed(t) ==
  /\ pc[t] = "add"
  /\ job[t].todo = {}
  /\ inIndex' = inIndex \cup {job[t].body}
  /\ pc' = [pc EXCEPT ![t] = IF t = Scanner THEN "scan" ELSE "idle"]
  /\ job' = [job EXCEPT ![t] = NoJob]
  /\ UNCHANGED <<members, keys, values, loop, scan, died, ops, raced>>

-----------------------------------------------------------------------------
(* _populate_indexes in the scan thread.                                   *)

\* The keys are read once, for the whole scan.
ScanKeys ==
  /\ pc[Scanner] = "readkeys"
  /\ pc' = [pc EXCEPT ![Scanner] = "open"]
  /\ scan' = [scan EXCEPT !.keys = keys]
  /\ raced' = (raced \/ ~LoopIsFree)
  /\ UNCHANGED <<members, index, loop, job, died, ops>>

ScanOpen ==
  /\ pc[Scanner] = "open"
  /\ pc' = [pc EXCEPT ![Scanner] = "scan"]
  /\ scan' = [scan EXCEPT !.listing = members, !.left = Listed(members)]
  /\ UNCHANGED <<members, index, loop, job, died, ops, raced>>

ScanNext(n) ==
  LET b == scan.listing[n]
  IN /\ pc[Scanner] = "scan"
     /\ n \in scan.left /\ \A m \in scan.left : n <= m
     /\ scan' = [scan EXCEPT !.left = @ \ {n}]
     /\ \/ b \in inIndex /\ UNCHANGED <<pc, job>>
        \/ /\ b \notin inIndex
           /\ pc' = [pc EXCEPT ![Scanner] = "add"]
           /\ job' = [job EXCEPT ![Scanner] = [body |-> b, todo |-> scan.keys]]
     /\ UNCHANGED <<members, index, loop, died, ops, raced>>

ScanEnd ==
  /\ pc[Scanner] = "scan"
  /\ scan.left = {}
  /\ pc' = [pc EXCEPT ![Scanner] = "idle"]
  /\ scan' = NoScan
  /\ UNCHANGED <<members, index, loop, job, died, ops, raced>>

ThreadStep(t) ==
  \/ ReadKeys(t) \/ MarkIndexed(t)
  \/ \E k \in Keys : AddValue(t, k) \/ Assert(t, k)

ScanStep == ScanKeys \/ ScanOpen \/ ScanEnd \/ \E n \in Names : ScanNext(n)

-----------------------------------------------------------------------------
Start ==
  \/ \E n \in Names, b \in Bodies : CreateOnLoop(n, b)
  \/ \E n \in Names : Delete(n)
  \/ \E t \in Writers, n \in Names, b \in Bodies : WriteMember(t, n, b)
  \/ \E q \in Queries, need \in SUBSET Keys \ {{}}, defined \in BOOLEAN :
       StartQuery(q, need, defined)

Next ==
  \/ Start
  \/ LoopStep
  \/ \E q \in Queries : QueryStep(q)
  \/ \E t \in Threads : ThreadStep(t)
  \/ ScanStep

Spec == Init /\ [][Next]_vars

\* A running thread is scheduled again and again.
FairSpec == Spec /\ WF_vars(ScanStep) /\ \A t \in Threads : WF_vars(ThreadStep(t))

-----------------------------------------------------------------------------
(* Properties *)

\* The shape of every variable.
TypeOK ==
  /\ members \in Listing
  /\ keys \subseteq Keys
  /\ values \subseteq keys \X Bodies
  /\ inIndex \subseteq Bodies
  /\ desired \in [Keys -> 0 .. MaxOps]
  /\ reset \in [stage : {"none", "etags", "tables", "fill"}, todo : SUBSET Keys]
  /\ query \in [Queries -> [phase : {"idle", "naive", "byindex"}, need : SUBSET Keys,
                            defined : BOOLEAN, listing : Listing,
                            left : SUBSET Names, found : SUBSET Names]]
  /\ pc \in [Threads -> {"idle", "keys", "add", "readkeys", "open", "scan"}]
  /\ job \in [Threads -> [body : Bodies \cup {Absent}, todo : SUBSET Keys]]
  /\ scan \in [keys : SUBSET Keys, listing : Listing, left : SUBSET Names]
  /\ died \subseteq Threads
  /\ raced \in BOOLEAN
  /\ ops \in 0 .. MaxOps

\* The index has every value of an etag it says it has: get_values would take a
\* missing one for an empty one.  Only a reset that meets a thread which already
\* holds a list of keys, or which reads them meanwhile, can break this.
IndexIsComplete == LoopIsFree /\ ~raced => keys \X inIndex \subseteq values

\* A report finds exactly the members that a check of the files would find
\* (what double_check_indexes asserts): with every interleaving of reports,
\* writes, the scan and resets but that one, and ...
QueriesAreRight ==
  \A q \in Queries :
    LET visited == Listed(query[q].listing) \ query[q].left
    IN query[q].found = {n \in visited : Matches(q, query[q].listing[n])}

QueriesAreRightUnlessRaced == ~raced => QueriesAreRight

\* The keys a report was promised stay available while it is suspended, even if
\* other reports extend the index: get_values never raises AssertionError.
QueryKeysStay ==
  LoopIsFree =>
    \A q \in Queries : query[q].phase = "byindex" => query[q].need \subseteq keys

\* Likewise, add_values never meets a key that the index does not have.
NobodyAsserts == ~raced => died = {}

\* Eager indexing: unless the index is reset, every member is in it in the end,
\* those too that were written while the scan was going on.
EveryMemberIsIndexed ==
  [](reset.stage = "none") => <>[](\A n \in Listed(members) : members[n] \in inIndex)

-----------------------------------------------------------------------------
(* The inductive invariant behind them.                                    *)

\* What is left to visit was listed, and a key is missed once per query at most.
Visits ==
  /\ \A q \in Queries : query[q].left \subseteq Listed(query[q].listing)
  /\ scan.left \subseteq Listed(scan.listing)
  /\ \A t \in Threads : pc[t] \in {"keys", "add"} => job[t].body # Absent
  /\ pc[Scanner] # "keys"
  /\ \A k \in Keys : desired[k] <= ops

\* A reset puts back every key that a suspended report counts on.
KeysToCome == reset.todo \cup (IF reset.stage \in {"none", "fill"} THEN keys ELSE {})

QueryKeysReturn ==
  /\ LoopIsFree => reset.todo = {}
  /\ \A q \in Queries : query[q].phase = "byindex" => query[q].need \subseteq KeysToCome

\* As long as no reset meets a thread with a list of keys, such a list is the
\* current one, and what an add_values has not got to do any more it has done.
ListsAreCurrent ==
  \A t \in Threads : HoldsKeys(t) =>
    /\ LoopIsFree
    /\ t = Scanner => scan.keys = keys
    /\ pc[t] = "add" => /\ job[t].todo \subseteq keys
                        /\ \A k \in keys \ job[t].todo : <<k, job[t].body>> \in values

ResetStartsEmpty == reset.stage \in {"tables", "fill"} => inIndex = {}

Unraced ==
  /\ died = {}
  /\ ListsAreCurrent
  /\ ResetStartsEmpty
  /\ LoopIsFree => keys \X inIndex \subseteq values
  /\ QueriesAreRight

IInv == TypeOK /\ Visits /\ QueryKeysReturn /\ (~raced => Unraced)
=============================================================================

# A TLA+ model of Xandikos

Xandikos is a CalDAV/CardDAV server that keeps every collection in a Git
repository.  This directory holds TLA+ modules of its stores, requests,
scheduling, mail, notifications and calendar reports, TLC runs of small
instances, and TLAPS proofs for all instances.  What is proved, and what only
model-checked, is in section 4.  Paths below are relative to `src/xandikos/`.

## 1. The system

| Part | State | Operations | What makes it correct | Module |
|---|---|---|---|---|
| `store/git.py` TreeGitStore | a file, an entry of `.git/index` and an entry of HEAD's tree for each member; `.git/index.lock`; a UID map | `import_one`, `delete_one` | the three places agree whenever nobody writes, crashes cost one member, writers never undo each other, answers are true, UIDs are unique, etags are honoured | `TreeGitStore` |
| index cache of TreeGitStore | three attributes: index, stat result, ctag | `_open_index`, `get_ctag`, `get_etag`, `_invalidate_index_cache` | what is cached is what is on disk, answers are current | `TreeIndexCache` |
| `store/index.py`, query code of `store/__init__.py` | values per key and etag, the set of indexed etags, miss counters | `find_present_keys`, `reset`, `add_values`, `get_values`, `iter_with_filter`, eager scan | a report finds exactly the members its filter matches | `StoreIndex` |
| `sync.py`, `iter_changes` | Git trees as sync tokens; what clients remember | the sync-collection REPORT | a client's copy is the tree its token names, and it converges | `SyncCollection` |
| BareGitStore | a cached tree, the ref | as TreeGitStore | a failed call leaves nothing behind | `Backends` |
| `store/vdir.py`, `store/memory.py` | files or a dictionary, UID maps, an etag cache by time stamp and size | as TreeGitStore | the UID maps and the cache follow the files | `Backends` |
| `store/config.py` | `.xandikos` or the Git configuration | get and set of metadata | what is set is read back | not modelled |
| `webdav.py` methods, `fs.py` | none of their own | PUT, DELETE, MOVE, COPY, MKCOL, MKCALENDAR, PROPPATCH, POST | preconditions hold when the change is made; a failed MOVE loses nothing | `MoveCopy` (members), `Dav` (the rest); PUT and DELETE also as callers of `TreeGitStore` |
| `web.py` collections | LRU caches of stores | `create_member`, `delete_member`, hooks | hooks and writes agree | in the modules of the callers |
| `scheduling.py`, `itip.py`, hooks in `web.py` | inboxes, calendars of organiser and attendees | invitation, reply, cancellation, automatic processing of inboxes | all copies of an event agree in the end; a status of delivered is true | `Scheduling` |
| `import_imip.py`, `imip*.py`, `milter.py` | per-message state | mail in, mail out | nothing of one mail leaks into the next; mail goes on; the mail server is told the truth | `Mail`; as a second process on the same store it is a member of `Loops` in `TreeGitStore` |
| `webdav_push.py` | subscription files and an index over them | register, renew, delete, notify, expire | a live subscription is not lost, everyone who asked is told | `Dav` |
| `caldav.py`, `icalendar.py` | none | calendar-query, expansion, free/busy | a report says what the object means; index and file agree | `Calendar`, `FreeBusy`, `CalendarReports` |
| `multi_user.py`, `access.py`, `htpasswd.py` | principals | authentication, path rules | a user reaches what the rules name | not modelled |
| `carddav.py`, `vcard.py`, `collation.py` | none | addressbook-query | a query finds what matches | not modelled |
| start-up, TLS, WSGI, quota, XMPP | none worth a model | | | not modelled |

How the parts interact.  One thread runs the aiohttp event loop and every
request handler; a handler gives the loop away only at an `await`.
`create_member` and `delete_member` run on the loop; `ObjectResource.set_body`
(a PUT on an existing member) runs `import_one` in a worker thread
(`asyncio.to_thread`), and so do reads of files; `start_eager_indexing` starts a
daemon thread.  All share one store object (`open_store_from_path` is an LRU
cache).  The iMIP commands are other processes on the same directories.
`index.lock`, created exclusively by dulwich's `locked_index`, is the only
mutual exclusion between writers; `_uid_lock` guards only the swap of the UID
maps; the index cache and the filter index have no lock.  Push listeners are
called back after a change; hooks run before PUT and DELETE, and send the
scheduling messages before the event itself is written.

What is hard here: checks made before the lock and used inside it, three copies of
a member written one after the other, attributes set one at a time by several
threads, reports suspended between two results, clients whose requests are lost,
messages that overtake each other, caches that outlive what they were read from,
awaits between a look and a write, recurrence rules with exceptions.  `hazards` in
PROJECT.json lists each place.

## 2. Modules

`VersionedCollection` is the promise of a store: a call that answers `ok`
changed exactly the member it named, atomically between its start and its
answer; a call that raised or was cut short changed nothing.  `StrictSpec` adds
the preconditions in the docstrings (the etag still matches, the UID is free).

`TreeGitStore` is the store on disk.  `pc` is where a thread is in `import_one`
(scan, publish, lookup, etag, acquire, truncate, fill, commit, release) or
`delete_one` (readfile, acquire, unlink, remove, release).  A step is one file
system operation or one access to shared memory; what a step does not share
with others is folded into it.  `Crash` can happen anywhere and leaves
`index.lock`; `DiskFull` can happen at every write of the file, the objects or
the commit.  A body stands for its blob id.  `Loops` are threads that run
`create_member` and `delete_member` (the event loop, another process), `Workers`
run `set_body`.  The history variable `damaged` holds the members whose last
call was cut short inside the lock.  The refinement mapping to
`VersionedCollection` takes `index` for the members: the call takes effect when
`index.lock` is renamed.

`TreeIndexCache` goes down to the single attribute access, since that is where
threads meet.  A version of the index file stands for its content, its stat
result and its ctag.

`StoreIndex` has the event loop (`CreateOnLoop`, `Delete`, the queries and the
reset, which runs in one turn of the loop but not atomically for other threads),
worker threads (`WriteMember`, `ReadKeys`, `AddValue`, `Assert`, `MarkIndexed`)
and the scan thread (`ScanKeys`, `ScanOpen`, `ScanNext`, `ScanEnd`).  A value is
abstracted to whether a body has one for a key (`Has`); a filter asks that all
its keys are defined or that none is.  The history variable `raced` records that
a reset met a thread that held, or was reading, a list of keys.

`SyncCollection` models a sync token by the tree it names.  The report reads the
token, then sends one difference at a time while others write.  A client applies
a response whole, loses it, or starts over when its token is refused; it is
modelled from RFC 6578, outside `src/`.

`MoveCopy` stands one level higher: a store call is one step, because
`TreeGitStore` has its inside.  A MOVE or COPY gives the event loop away once,
while a thread reads the source; `turn` names the request that has the loop
between two store calls, and only the write of a PUT (`EndPut`), which is done
in a worker thread, gets in between.  Every store call may fail.  The history
variable `foreign` remembers which of a request's two places somebody else has
changed, so that the properties speak of what this request does.

`Backends` holds the other three stores against the strict promise of
`VersionedCollection`, one call at a time, since none of them has a lock.  For
BareGitStore it has the cached tree and the ref, which a push may set
(`Push`), and the two halves of a write (`BareEdit`, `BareCommit`).  For
VdirStore it has the files with their time stamps, the UID maps of
`_scan_uids` and the etag cache, and a program that edits the directory
(`Edit`).  MemoryStore is one step per call.  The history variable `excused` is
set by exactly the events the stores do not cope with; they are listed in
section 3.

`Dav` has a server with two collections of one member each.  Requests of one
coroutine are one step, except where the code awaits: a PUT or DELETE
(`BeginWrite`, `EndWrite`), an extended MKCOL or PROPPATCH that waits for its
body (`BeginMkcol`, `BeginProppatch`, `EndProps`), and a notification round,
which lists the subscriptions (`RoundStarts`) and then calls one push service
after the other (`Delivered`).  A request remembers what it knew of its
collection when it began, because the code holds a resource object.
Subscriptions live in a file of the collection, which MOVE and COPY carry
along, and in an index, which does not follow.  `ack` and `quit` hold what the
clients were told, `owed`, `spread` and `raced` the history that the properties
except (`Released`, `Outrun`).

`Scheduling` has one meeting with its organiser, attendees with an inbox and
attendees that are reached by mail.  A call sends one message per step and then
stores its event, and may be interleaved with others in between; any store call
may fail.  A client may send an event back unchanged with a
SCHEDULE-FORCE-SEND, which makes the hook look at it again.  `name` tells a member
from a later one with the same content: a message creates a deleted copy again
under a fresh name (`create_member(None, ...)`, `web.py:793`), where no request
that began before can find it.  A client may PUT an event where its user has no
copy, and deletes and PUTs again as it likes; what the attendees of such an
event are is taken from `Imports`.  The history
variables name what the code does not repair: `torn`, that a request failed
half-way or a user had two of his own at once; `apart`, the attendees whose answer the organiser
may not know, because it found no entry of theirs, met an older invitation or
crossed one, or answers an invitation that another attendee sent.  An attendee
is no longer apart when the organiser has taken his answer in, or when he has
taken in the organiser's version with the answer it knows while he is not
answering himself (`Answering`).  `imported` holds the attendees who have stored
an event where they had none, until they take in what the organiser sends.

`Mail` has the three ways in.  `state` is the milter's `_Message`, one per
connection; `mta` is the other end, which follows the milter protocol, breaks
off, or hands a mail over again.  `queue` is what the mail server believes,
`answer` what it was going to be told.

`Calendar` has the pure part of `icalendar.py`: recurrence sets, time-range
filters on files and on indexes, expansion and limitation.  Times are ticks, a
day has `Day` of them, and a zone is a number of ticks behind UTC.  `FreeBusy`
adds the timeline of `caldav.py` and the outbox.  `CalendarReports` is the state
machine that makes the inputs: a client creates an object from `Drafts`,
excludes, adds, moves and declines instances, publishes availability, sets the
zone.  Its properties define by instances (`Instances`) and ticks (`TypesAt`)
what the answers should be, and compare.  A calendar object is the sequence
`object`; only the index minds the order, so the other operators take the set
`components`.  Drafts are what RFC 5545 allows (`IsWritten`): what recurs has a
DTSTART, nothing has an end before its start or an end and a duration, and what
recurs by dates recurs by whole days.  `Horizon` bounds where instances can be.

The `...Proofs` modules hold the proofs, the `MC*` modules the small instances.
Operators commented `Mutant` are plausible bugs: each property of a passing run is
refuted when one of them takes the place of the definition it names, so the
property does depend on the code.

## 3. Runs

| Run | Shows | Bounds |
|---|---|---|
| `Store` | Safety, atomicity and progress under two threads with every fault. `HeadMatchesIndex`, `WorktreeMatchesIndex`, `CrashLosesOneMember`, `OneMemberPerCommit`, `KeepsPromise` (refinement), `LockIsReleased`, `CallsReturn`. | 2 threads, one of which plays all roles, 2 members, 2 bodies, 4 calls. Two calls suffice to interleave; four allow a set-up, two racing calls and one after a fault. UIDs are off: their scan writes nothing on disk. |
| `StoreSequential` | With one thread `UidsUnique` and the strict promise hold, and `InvalidETag` is only raised when it is true, except for a damaged member. | 1 thread, 2 members, 3 bodies of 2 UIDs, 5 calls |
| `CacheOneThread` | With one thread and a foreign writer the cache is true and answers are current. | 4 versions of the file, 8 calls |
| `Sync` | `ReplicaIsSnapshot` and `ReplicasConverge` for clients that set no limit. | 2 clients, 2 members and a metadata file, 3 changes |
| `SyncLimit` | violation of `ReplicaIsSnapshot` | limit 1 |
| `Index` | `QueriesAreRightUnlessRaced`, `IndexIsComplete`, `EveryMemberIsIndexed`. | 2 reports, 1 worker, the scan, 2 members, 2 bodies of which one lacks a key, 2 keys, any initial collection; 2 calls beside the scan; threshold 0, so that one miss adds a key |
| `MoveCopy` | `ContentSurvives`, `SuccessIsTrue`, `OverwriteIsAsked`, `TakesWhatItCopied`. | 2 requests, 1 PUT, 2 collections of 2 names, 3 bodies (two versions of one event, one without a UID), any initial content without duplicate UIDs, 2 calls: each a MOVE, COPY, PUT or DELETE. Two suffice: the places of a request are disturbed by one other call. Symmetry is sound, all properties are safety. |
| `Backends` | `UidsUnique`, `ReadsAreTrue`, `KeepsContract` (refinement), `RefusalsAreJust`. | each of the 3 stores, 2 names, 3 contents of 2 UIDs and 2 sizes, 5 calls or foreign edits, 3 instants, so that two files may share a time stamp |
| `Dav` | `ConditionalWritesHold`, `PromisesAreKept`, `GoneIsGone`, `EveryoneIsTold`. | 2 collections, 2 contents, 2 devices with different triggers, 2 connections, 4 requests, 2 instants, of which the second ends a lifetime. Four requests allow two subscriptions, a change and a renewal or a MOVE beside its round. |
| `Scheduling` | `CopiesAgree`, `MeetingIsTheOrganisers`, `StatusIsTrue`. | 1 organiser, 2 local attendees, 1 remote one, 2 calls at a time, 3 in all: an invitation and two changes or answers that race, or a deletion and a PUT of a changed event. An event that an attendee makes up invites both. By hand also one that invites either of them; 4 calls without the remote one and without such events; and 5 with one attendee. |
| `Mail` | `ForwardsWholeMails`, `InboxIsHonest`, `MailGoesOn`. | 5 mails (an invitation, one above the size limit, one of this server's own, one by LMTP without an invitation, one by the pipe), 2 connections to the milter, 3 attempts, so that a mail can be repeated beside another |
| `Calendar` | `QueriesFindOverlaps`, `IndexesAgree`, `ExtractsShowTheWindow`, `FreeBusyIsTrue`. | 58 drafts over 3 days of 2 ticks, every edit at 3 times, 10 windows, 5 filters, availability of up to 3 components; 3 edits, which is an object with an override and an exclusion, or two of a kind. By hand also `CalendarInv` of section 4. |

`CHECK_DEADLOCK FALSE` where a bound on the calls ends every behaviour
(`MaxOps`, `MaxCalls`, `MaxEdits`, `MaxAttempts`); `Sync` and `SyncLimit` never
stop, since clients keep asking.  `MaxOps`, `MaxCalls`, `MaxVersion`,
`MaxWrites`, `MaxTime`, `MaxEdits` and `MaxAttempts` are the only bounds that
are not in the code.  `MaxChunks` is its `_MAX_MESSAGE_SIZE`.

More can be run by hand.  Each module has a type invariant `TypeOK`, and those
with proofs an inductive invariant (`IInv`, in `Backends` `StoresInv`, in
`Scheduling` `Inv` and `AgreeInv`), which can be added to its configuration.
`TreeIndexCache.CtagBelongsToIndex`, `StoreIndex.QueryKeysStay` and
`StoreIndex.NobodyAsserts` hold in `CacheOneThread` and `Index` as they stand.
Five configurations end in a counterexample each, and show what the code does not
promise under threads:

| Configuration | Property that fails |
|---|---|
| `StoreLostUpdate.cfg` (MCTreeGitStore) | `ConditionalWrites` |
| `StoreDuplicateUids.cfg` (MCTreeGitStore) | `UidsUnique` |
| `CacheThreads.cfg` (MCTreeIndexCache) | `CacheIsTrue` |
| `IndexMissesMember.cfg` (MCStoreIndex) | `QueriesAreRight` |
| `MoveConflict.cfg` (MCMoveCopy) | `ConflictsAreReal` |

What these and `SyncLimit` say:

* **Lost update** (`store/git.py:380`).  The etag is compared before the lock and
  not again inside it.  Two PUTs with the same `If-Match` can both succeed, and a
  DELETE can remove a version the client has never seen.
* **Duplicate UIDs** (`store/git.py:373`), for the same reason.
* **Torn cache** (`store/git.py:898`).  An index can end up beside the stat
  result of a newer file; it is then served until the file changes again.  With
  threads a cached ctag of another index (`CtagBelongsToIndex`) and an answer of
  None (`IndexIsNeverNone`, defined beside it) are possible too.
* **Limited reports** (`sync.py:144`).  A response cut off by `limit` carries the
  token of the whole difference.
* **Missed members** (`store/index.py:82`).  A new index key is added while a
  thread still holds the old list of keys; its etags are marked as indexed
  without a value for the new key, and reports on that key miss those members
  until the next reset or restart.  `raced` is that race, and `Index` shows that
  it is the only way.
* **MOVE inside a collection** (`webdav.py:1304`).  The copy is created before the
  source is removed, so an object with a UID always collides with its own source
  and the MOVE is refused with no-uid-conflict.  With `Overwrite: T` the
  destination is deleted by then (`webdav.py:1316`), and stays so.

What the exceptions in the properties stand for, each of them behaviour of the code:

* **Scheduling.**  A PUT where its user has no copy is compared with nothing
  (`web.py:1282`, `web.py:1324`, `web.py:1470`), although an attendee may change
  nothing but his own entry (`web.py:1330`): who deletes his copy and PUTs a
  changed one, or PUTs before the invitation arrives, stores a version that nobody
  sent him (`imported`).  The organiser hears of no answer in it.  An answer that
  arrives before the organiser's event is stored is lost, for the messages go
  first (`web.py:1261`).  An answer and an invitation that cross each other leave
  the two with different answers, and two requests of one user at once with the
  messages of one and the event of the other.  A late REQUEST with an older
  version overwrites a newer copy (`web.py:784`): no SEQUENCE or DTSTAMP is
  compared.  An attendee who deletes his copy tells nobody.  The organiser never
  hears of a delegate.  Somebody who was dropped can still delegate his cancelled
  copy, and overwrite with it that of an attendee who is invited.
* **Mail.**  `docs/source/imip.rst:188` says "The milter never modifies, defers or
  rejects messages"; `MailGoesOn` is that.  A message whose processing fails
  after it was stored (`import_imip.py:174`) is reported as failed, delivered
  again and stored twice; `InboxIsHonest` therefore counts attempts.  A POST to a
  server may have been stored although its answer was not heard.
* **BareGitStore.**  A write that fails after the cached tree was edited
  (`store/git.py:805`) leaves the edit there: it is read, and committed by the next
  write.
* **VdirStore.**  A UID that another program moves to another file loses its
  entry in the map, and every later scan raises KeyError (`store/vdir.py:180`).  A
  file that was replaced keeps its old UID in the map, and that UID is then
  refused to other names as a duplicate (`store/vdir.py:177`).  Two versions of
  one size within one time stamp share an etag (`store/vdir.py:104`).  The server
  itself only opens Git stores.
* **Push.**  A renewal that meets a round holding the old record is undone when
  that record has expired or its push service answers 404 or 410
  (`webdav_push.py:856`, `raced`), and so is a renewal whose collection is moved
  to a path for which such a round is under way.  A collection that takes the
  place of another inherits its rounds, which have listed the subscribers of the
  other.  The index does not follow MOVE and COPY of collections, and COPY
  duplicates the subscriptions (`spread`).  A subscription on a plain collection
  is accepted and never told of anything, although the docstring at
  `webdav_push.py:550` says that others than calendars and address books are
  refused.  Of all properties only displayname has a round of its own kind.
* **MKCOL.**  The collection is there before the body is read
  (`webdav.py:3209`), and stays, untyped, when the body is bad.
* **Calendar filters.**  The index knows neither EXDATE, RDATE nor overrides
  (`icalendar.py:813`), writes a time without its TZID, and looks only at the
  first day of recurring all-day events of several days.  An end that is the
  start is dropped from what recurs (`icalendar.py:1098`), and where the window
  begins at an instance the index then finds it and the file does not, against
  the assertion at `store/__init__.py:424`.  All of these: `IsWholeInIndex`.
  The expansion compares floating times and dates with the window in UTC
  (`icalendar.py:2071`): `IsMisread`.  limit-recurrence-set drops an override
  whose replaced instance began before the window, all-day overrides, and
  overrides without an end (`icalendar.py:2299`).  Of a task it reads DTEND and
  DURATION but never DUE (`icalendar.py:2403`), so an override that is due inside the
  window is dropped.  All of these: `HasLostOverride`.
* **Free/busy.**  An all-day event without DTEND takes no time (`caldav.py:1040`);
  availability components of equal priority depend on their order (a FREE
  overrides at `caldav.py:1284`, which the docstring at `caldav.py:1259` puts
  last), and `TypesAt` takes the order of the listing as the code does; declined
  events are in the calendar's own report but not in the outbox's.

Fairness.  `TreeGitStore`: a thread inside a call is scheduled again and again; no
fairness for starting calls, for ENOSPC or for crashes.  `SyncCollection`: the
server answers, a client asks again (weak), and of infinitely many responses not
all are lost (strong).  `StoreIndex`: running threads are scheduled.  `Mail`: a
mail server that has begun a mail goes on with it, the milter's coroutine runs
when there is a frame, and a transport returns or raises (`smtplib.LMTP` is opened
without a timeout at `milter.py:288`, so a target that says nothing would hold the
mail); no fairness for new mails, failures or answers.

## 4. Proofs

For all sets of threads, names, bodies and UIDs and all bounds, from the named
assumptions in the modules:

* `TreeGitStoreProofs`: `TypeCorrect`; `Invariant` (`IInv`); from it
  `HeadFollowsIndex`, `FilesFollowIndex`, `CrashIsBounded`, `CommitsAreLocal`
  and `ImplementsPromise`, the refinement of `VersionedCollection`.
  `HeadMatchesIndex` speaks of moments without a lock and is not inductive.
  `IInv` says what holds inside the lock: exactly the owner of `index.lock` is
  between acquire and release (`HolderInside`), it runs the right kind of call
  (`CallIsSound`), HEAD and its copy of the index are the index on disk until it
  commits and its copy is HEAD afterwards (`HolderCopy`), and all it has touched
  so far is the one file it was called for (`HolderFile`).
* `ReportProofs`, first part, on `SyncCollection`: `TypeCorrect`; `Invariant` and
  `CopiesAreTrue` under `Limits = {NoLimit}`.  Inductive because a request
  remembers the token it was sent with, and what was sent and what is left are
  always the whole difference (`ReportIsExact`).
* `ReportProofs`, second part, on `CalendarReports`: `CalendarInvariant`, and from
  it `QueriesFindWhatOverlaps`, `IndexesStayInAgreement`, `ExtractsStayTrue` and
  `EventsStayTrue`, for every length of a day, offset of the zone, draft, window,
  filter and number of edits.  No edit disturbs the shape of an object (a master
  and instances of it, `CalendarInv`); the rest is about operators.  An exception
  denotes the time it is read as (`DenotesWhatIsRead`), so the recurrence set is
  what the object takes (`RruleSetTakes`); whatever overlaps a window
  lies between the bounds that the rule is asked for, days included
  (`OverlapIsBetween`), so an expansion is exactly the instances that overlap
  (`ExpansionIsExact`), and queries, extracts and the events of a free/busy answer
  follow.  What limit-recurrence-set leaves out overlaps nothing, itself or in the
  place of the instance it replaces (`LostDoesNotOverlap`, `ReplacedInstance`).
  For the index: the values of an object of one component make that
  component again but for its zone (`JoinedOfOne`), an end that takes no time is
  excepted where something recurs (`IsWholeInIndex`), and a lost zone
  matters only where the answer is "insufficient" or the calendar's own is
  the right one (`KnownOverlaps`, `RruleFromIndex`).

* `MoveCopyProofs`: `TypeCorrect`, `Invariant`, and from it `NothingIsLost`,
  `AnswersAreTrue`, `NothingIsOverwritten` and `RemovesItsCopy`.  The properties
  speak of ends; `IInv` adds what is true on the way (`RequestIsSound`): a
  request that has read is not answered yet, without Overwrite it still finds the
  destination as it was, and before a MOVE removes the source its copy exists.
  What others do is one lemma (`OthersKeepSound`): whatever they change at a
  request's places is remembered in `foreign`.

* `TreeGitStoreProofs`, for one thread (`OneThread`): `SequentialInvariant`, and
  from it `UidsStayUnique`, `WritesAreConditional`, `InvalidETagIsDeserved` and
  `ImplementsStrictPromise`.  `StoreLostUpdate` and `StoreDuplicateUids` show
  that the assumption is needed.  What a call checks is checked outside the
  lock, so the invariant says that with nobody else it is still true inside:
  the etag and the UIDs that the call has seen are those of the index
  when it writes, and the UID maps know every member.
* `StoreCachesProofs`, first part, on `TreeIndexCache`: `TypeCorrect`; for one
  thread `Invariant`, and from it `CacheIsCorrect`, `CtagIsCorrect`,
  `AnswersAreFresh` and `CallersGetAnIndex`. `CacheThreads` shows that more
  threads tear the cache.  The properties speak of the cache between calls; the
  invariant says for each statement of `_open_index` what the locals are worth
  there (`LocalsAreSound`) and which attribute of the cache lags behind
  (`CacheIsSound`).  The index was read after its stat result, and the file only
  gets newer, which is why an equal stat result proves it current.
* `StoreCachesProofs`, second part, on `Backends`: `StoresTypeCorrect`,
  `StoresInvariant`, and from it `UidsStayUnique`, `ReadsStayTrue`,
  `RefusalsStayJust` and `ImplementsContract`, the refinement of the strict
  promise of `VersionedCollection`, for BareGitStore, VdirStore and MemoryStore
  alike and for any sets of names, contents and UIDs.  A store decides from what
  it remembers, so the invariant says what that is worth (`StoreIsSound`): the
  cached tree is that of its commit except between edit and commit
  (`TreeIsCurrent`), an etag is right while its time stamp is (`EtagsAreCurrent`),
  whatever is in the first UID map is in the second and no other file has it
  (`MapsAreCurrent`), the two maps of MemoryStore are inverse to each other
  (`MapsAreInverse`), and what was checked still holds at the write
  (`WriteIsAllowed`).  All of it is claimed unless `excused`.
* `StoreIndexProofs`: `TypeCorrect`, `Invariant`, and for any number of worker
  threads `IndexStaysComplete`, `QueriesStayRight`, `PromisedKeysStay` and
  `NoThreadDies`, with `raced` as the exception.  The invariant adds that,
  unless `raced`, a list of keys that a thread holds is the current one and what
  its add_values has done is in the index (`ListsAreCurrent`), and that a reset
  puts back every key a suspended report counts on (`QueryKeysReturn`).
* `MailProofs`: `Invariant`, and from it `MailsStayWhole` and `InboxStaysHonest`.
  What a connection has gathered is the beginning of the mail its mail server is
  sending, in order; entries of an inbox are counted against the
  attempts.  Of `TypeOK` the bound on an inbox is not proved (it is a sum over a
  fold); the shapes are, with Nat in its place.
* `DavProofs`: `TypeCorrect`, `Invariant`, and from it `SubscriptionsLast`,
  `EndedIsEnded`, `WritesAreConditional` and `RoundsTellEveryone`.  `IInv` says
  whose an id is, wherever it is (`IdsHaveOneOwner`), where the index is right
  (`IndexIsRight`), that a file, a round and a device agree until when a
  subscription lasts (`PromisesAreTrue`), that a round still lists whom it owes
  a message (`NobodyIsForgotten`), and that there is always an id for a new round
  (`RoundsAreCounted`).  The proof found two sequences that need more requests than the
  run has, and the properties now name them: a collection that is moved over its
  own older copy while a round has listed that copy (`Outrun`), and a collection that is
  replaced by MOVE or COPY under a round, whose subscribers are not told any
  more (`Released`).
* `SchedulingProofs`: `TypeCorrect`, `Invariant`, and from it
  `MeetingStaysTheOrganisers` and `StatusStaysTrue`, for any number of attendees,
  of requests at a time and in all.  The hook reads the old event and the store
  writes the new one, with any number of messages in between.  `Inv` says that
  what a PUT of an attendee over a copy will store is a version he was sent, or
  that its member is gone for good, unless he has made his copy up
  (`PutIsEntitled`, `imported`); that an invitation on its way is to somebody it
  invites and is in his inbox before it is in his calendar
  (`MessagesAreForTheInvited`); and that whoever the organiser's PUT invites still
  has a message coming, or is annotated with the truth (`AnnotationsAreTrue`). The
  attempt showed a sequence of five requests in which an attendee's PUT is let
  through because he deletes his copy meanwhile, and is stored because an
  identical invitation creates it again.  The code cannot do that, for the copy
  has another name then; the model could, until it had `name`.
* `SchedulingProofs`, second part: `AgreeInvariant` (`AgreeInv`) and from it
  `CopiesStayInAgreement`.  `CopiesAgree` speaks of moments when nothing is under
  way; the invariant says for every mixture of half-sent messages how far it has
  come.  Whatever fails, a request only sends what belongs to it, a new version of
  the meeting is in no calendar before it is sent, and who is invited to the
  stored version has its invitation in his inbox (`RequestsAreOrderly`).  Unless
  `torn` (`RequestsFitTogether`): an attendee has the version of the organiser's
  calendar, or that of the organiser's request if it has told him (`Told`,
  `VersionsAgree`); the request of an attendee stores the version he has, although
  invitations may replace his copy meanwhile (`AttendeesTurn`); and the organiser
  knows, or will when his request stores, the answer of each attendee who is not
  `apart` (`Knows`, `AnswersAreKnown`).  Of who is `imported` nothing of this is
  claimed, but a PUT where there was no copy sends no answer (`FindsNothing`), so
  it harms nobody else.  The attempt failed first for a good reason: a run of six
  requests, beyond the bound of the run, in which an attendee's answer crosses an
  invitation ends with a difference that the older, narrower definition of `apart`
  did not name.  The code allows that sequence, so `apart` now names it.

Every safety property that a run checks is proved, but for one.  Only model-checked:

* liveness (`LockIsReleased`, `CallsReturn`, `ReplicasConverge`,
  `EveryMemberIsIndexed`, `MailGoesOn`), which needs fairness and ENABLED, out of
  the prover's reach;
* `FreeBusyIsTrue`.  Its half about events is `EventsStayTrue`; the other half, that
  the timeline of availability is right at every tick, is a fold over
  a sequence of periods that cuts, keeps and sorts, and what a fold computes needs
  induction over the sequence, which the provers cannot do.

## 5. Left out

* ENOSPC while dulwich writes the new index into `index.lock`: that code is not
  in this repository.  Two writes of the index within one tick of the clock and
  of the same size (the cache then cannot tell them apart).
* `delete_one` opens the file twice; that it vanishes between the two is not told
  apart from an unlink that fails.
* Saves of metadata, which go through `_import_one` without the checks; `name`
  None (a fresh UUID never clashes); conflicted index entries; directories.
* `double_check_indexes` (a debugging aid); a second `load_extra_file_handler`
  (stores are set up before they are shared); files that cannot be parsed.
* Negative and malformed limits; `sync-level` infinite, which is refused.
* In `MoveCopy`, a schedule inbox as the destination; whole collections are in `Dav`.
* Index values themselves in `StoreIndex`, and filters that are not decided by
  them; `Calendar` has both for time ranges.
* Requests that only read (GET, PROPFIND, OPTIONS), XML and its errors.
* `RANGE=THISANDFUTURE` of an override (`icalendar.py:2376`), which widens what
  limit-recurrence-set keeps.
* Recurrence overrides in scheduling; COUNTER, REFRESH and ADD, which the code
  does not act on either (`web.py:744`).
* MIME, encryption and VAPID keys, the sockets and options of the mail commands.
* limit-freebusy-set, VJOURNAL and VALARM, text collations, zones whose offset
  changes.
* Multi-user access: a decision about one path and one name without state of its
  own.  Creation of a principal (`multi_user.py:127`) and then of its defaults is
  not repeated after a crash in between.
* CardDAV filters.  `carddav.py:341` calls `add_prop_filter`, which
  `CardDAVFilter` does not have, so that an addressbook-query with a prop-filter
  always fails, although `notes/dav-compliance.rst:203` lists the report as
  supported; what would run after it is never reached.
* The parsing of CalDAV filters: is-not-defined in a comp-filter ends in an
  AssertionError (`caldav.py:512`), text-match in a param-filter in an
  AttributeError (`caldav.py:472`).
* Metadata and configuration, server start-up, TLS, WSGI, quota, XMPP.

A consequence of `damaged` worth knowing: after ENOSPC or a crash inside
`_import_one` the file differs from the index, and DELETE with the current etag
fails with InvalidETag until the member is written again.

## 6. Plan

1. The saves of metadata in `TreeGitStore` (`_import_one` without the checks).
2. Overrides of a recurring meeting in `Scheduling`.
3. The timeline of `FreeBusy` for every availability, once a prover for induction
   over sequences is at hand.

# A verification of davkit

davkit is a Go library for WebDAV, CalDAV and CardDAV servers. This directory
holds TLA+ modules of its core, the TLC configurations that check them, and
proofs that TLAPS checks. Modules are translated from the source; what the
properties state is taken from the code, its comments and its tests.

    tlc -workers 2 -config MCCalendarStore.cfg MCCalendarStore
    tlapm CalendarStoreProofs.tla

`PROJECT.json` lists every component, run, property, theorem and hazard, and
says for each definition which lines it stands for.

## 1. The system

| part | state | operations | what makes it correct |
|---|---|---|---|
| `caldavmem.Store` (`src/caldavmem`) | calendars by ref: settings, items, `byID` index of UIDs, viewers, revision, change log, pruned position; the number of CalendarIDs issued | compare-and-store/-delete item, copy, move, create/update/delete calendar, share, prune history, list changes | the index is the inverse of the items; the log explains the items; revisions and CalendarIDs are never reused; a batch of changes is complete up to what it claims |
| preconditions, validators (`src/caldav/preconditions.go`, `validator.go`) | none | turn ETags and sync tokens into revisions and back | an ETag names bytes; a token names a position of one incarnation |
| sync-collection (`report.go`) | one REPORT: scope, changes still to fetch, members fetched | read the calendar, list changes, fetch each item, answer | the client's copy converges; a token never hides a difference |
| item handlers (`adapter.go`, `write.go`, `transfer.go`, `report.go`) | one request: permissions, scope, parsed headers, the item read | GET, REPORT, PUT, DELETE, COPY, MOVE | no lost update; honest ETags; what is stored is what was checked |
| calendar handlers (`manage.go`, `write.go`) | none | MKCALENDAR, PROPPATCH, DELETE | a re-created calendar is another calendar; a property update is all or nothing, in document order |
| permissions, privileges | none | map permissions to operations, to Allow and to DAV:privilege rows | what is advertised is what the handlers allow; who may do nothing learns nothing |
| query evaluation (`match.go`, `filter.go`, `project.go`) | scan budget | does an item match a filter | windows add up; one occurrence justifies a match |
| free-busy, expansion (`freebusy.go`, `expand.go`, ...) | expansion budget | clip and merge periods, expand recurrences, limit overrides | filter, expansion and free-busy agree on when an event is |
| CardDAV (`src/carddav`, `src/carddavmem`) | as CalDAV, without free-busy | as CalDAV, `addressbook-query` with a limit, extended MKCOL | as CalDAV; a truncated answer says so; only an owner changes a book |
| multi-status writer (`src/internal/multistatus.go`) | staged bytes, started or closed, budgets | write a row, fail, truncate, add a token, close | a started document is always well-formed and within its budgets |
| local file system backend (`src/fs_local.go`) | the tree on disk, temporary files | create, remove, copy, move | a replaced resource is whole before or after; nothing is lost; If-Match holds when applied |
| WebDAV handler (`src/server.go`, `src/internal/server.go`) | none | dispatch, Depth, Overwrite, Destination | no write without its precondition |
| client (`src/client.go`) | none | requests, decoding | - |

How they interact: `http.Server` starts a goroutine per request; the handler
resolves the URL and the actor's permissions, then calls the backend several
times. Each backend call is one transaction (caldavmem: a method under the
store's RWMutex); **nothing holds across two of them**. That is where the
difficulty is: what one transaction saw (an item, a CalendarID, a revision
number parsed under that ID, a change list, permissions) is used after others
ran. Handlers never talk to one another; clients do, through the store, by the
ETags and tokens they were given. An application may prune history and share
collections behind the handlers' backs. Nothing in caldavmem is persisted, so
there is no crash to recover from; answers can be lost on the way to a client.
The local file system backend holds no lock at all: the system calls of
concurrent requests interleave, and what they did survives a crash.

The other difficulty is agreement: the same question is answered by different
code in different places (permissions, Allow and privileges; filter, expansion
and free-busy; the decoder and the bytes that are served), and an answer is
streamed under several budgets at once, any of which may end it.

## 2. The modules

    CalendarStore -- CalendarStoreProofs
     |-- CalendarSync                        -- MCCalendarSync      CalendarSyncProofs
     |-- CalendarRequests                    -- MCCalendarRequests  CalendarRequestsProofs
     |-- MCCalendarStore
     '-- CardStore (an instance) -- CardRequests -- MCCardRequests  CardRequestsProofs

    MultiStatus -- Reports -- MCReports  ReportsProofs

    Trees -- AtomicTree
        '--- LocalFS (implements AtomicTree) -- MCLocalFS  LocalFSProofs -- AtomicityProofs

    Answering -- Access, Settings, Filters, Bodies, TimeRange -- Recurrence -- MCTables
                   '------- AnswersProofs -------------'

### Stores and handlers

**CalendarStore** is `caldavmem.Store`. One RWMutex covers the store, so every
method is one action. `cals` is the map of calendars, `issued` the counter of
CalendarIDs. What a method does to one calendar is an operator on a record
(`Stored`, `Removed`, `Updated`, `Pruned`), so that a move is `Removed`
followed by `Stored`, with two bumps when both are the same calendar, as in
`transfer`. `StoreItemError`, `DeleteItemError` and `TransferError` are the
early returns in the order of the code; a method that fails changes nothing,
so only successes are actions. `ListChanges` is the operator the sync module
and the property `BatchesHonest` use.

**CalendarSync** is a REPORT sync-collection as the handler runs it:
`ReportSync` (the calendar, for its ID), `InitialListing` or `ListDelta`,
`GetItem` once per changed item, then `Reply`, `OverLimit` or `Fail`. Any store
method may run between two of these. The client is external: it keeps `view`
and `token`, sends the token it was last given, forgets it on
DAV:valid-sync-token and retries on every other error. `LoseReply` is an answer
that does not arrive.

**CalendarRequests** is the item handlers, each `Open...` being the reads and
the second action the transaction (or, for GET and REPORT, the second read).
Clients are external; `known` is the ETag and the bytes a client was last given,
and a client puts that ETag, or `*`, or nothing into its conditional headers.
`DeletesCalendars` says whether the backend implements the optional
`CalendarDeleter`.

**CardStore** is `carddavmem.Store`, which calls itself "a faithful
transcription of caldavmem" and is one: its methods are CalendarStore's on a map
of address books (`Store == INSTANCE CalendarStore WITH ...`), with permissions
of its own. **CardRequests** is carddav's handlers over it, for clients that act
for *different* accounts: permissions are read in the first step, of the source
and of the destination of a transfer, and are used in the second, while the
application shares books (`Sharing`) and owners delete and create them again. The
change log of a book is CalendarStore's, of which `BatchesHonest` speaks.

### Answers

**MultiStatus** is `internal.MultiStatusWriter`. A writer is a record and every
method an operator on it, so that a handler composes them as the code does:
`Close(Truncate(w))`. The document is the sequence of pieces (`open`, `row`,
`marker`, `failure`, `token`, `close`) that reached the client, each with the
number of bytes on the wire after it. A row that does not encode or exceeds the
budget leaves nothing of itself on the wire; the connection may break at any
write. `start` leaves the writer without an encoder when the header cannot be
written, and the deferred `Abort` then uses it: `panicked`.

**Reports** is the handlers that write such documents: `calendar-query`,
`addressbook-query`, the multigets, `sync-collection`, and PROPFIND with
Depth: 1 of a collection and of an account. `YieldItem` is one member of the
backend's listing, under the scan and byte budgets; then matching, one member at
a time, under the match cap and the client's limit; `OpenDocument` when that is
settled, and `WriteRow` and its failures row by row until `Finish`.
`ConnectionBreaks` may come at any moment.

### Functions without state

Each of these modules is a function of the code and what it must agree with; a
behaviour is one question (`asked`) and its answer (**Answering**), and
**MCTables** enumerates the questions.

- **Access**: `Resolve` and the checks of every method of both packages give the
  status of a request; `PrivilegesFor`, `AllowedMethods` and `SupportedReports`
  are what the server says of them.
- **Settings**: the body of a PROPPATCH, MKCALENDAR or extended MKCOL from its
  instructions to the order they are applied in (`Updates`), the patch
  (`Accumulate`) and the rows of the answer (`NewPropPatchResponse`).
- **TimeRange**: RFC 4791's overlap tables for events, tasks, notes and busy
  time; **Recurrence**: filter, expansion with its budgets, the two limits and
  free-busy over recurring events with overrides.
- **Filters**: component, property, parameter and text filters of both packages
  with their collations. **Bodies**: what a PUT admits.

### The file system

**Trees** is what the file system backend needs of the operating system: trees
of files and directories, `rename(2)` with the refusals of `os.Rename`
(`CanRename`), and `checkConditionalMatches` with the headers it judges. `ino`
tells one file from every other, as an ETag made of the modification time and
size is meant to.

**AtomicTree** is what a WebDAV file system promises: a request takes effect
whole, at one moment between its acceptance and its answer, under its conditions
at that moment, or not at all. Only DELETE of a collection may be seen half done.

**LocalFS** is `LocalFileSystem`. `fs` is the tree on disk, temporary names
included, and `req` holds for each request being served its next call (`phase`)
and its local variables: the temporary name, the name set aside, what is still to
be copied or removed, what a stat said of the destination. Each action is one
system call that changes the tree with the reads beside it: `Create`,
`createSibling`, `WriteBody`, `RenameTemp` are a PUT; `RemoveAll`, `Remove`,
`RemoveMember`, `RemoveEmptied` a DELETE; `Copy`, `copyTree` (one entry of the
walk) and `copyRegularFile` (the bytes of a file, once it is created) stage a COPY;
`SetAside`, `SwapIn`, `Restore`, `Discard` and `RenameNew` are `swapTree`, for COPY
and MOVE; `Cleanup` is the deferred removal. A call fails when the tree does not
permit it, when the disk is full (`Room`), or when its name is in `Faults`; `Crash` ends every request where it is. The refinement
mapping to AtomicTree hides temporary names and counts a tree that was moved
aside as in place until its replacement is.

Definitions whose comment begins with "Mutant" are not part of the model: each
is the definition under it with a plausible bug, and `PROJECT.json` says which
property tells them apart.

### What the models leave out

- A CalendarID stands for its 64-bit scope hash: equal scopes mean equal IDs.
- In the stores the settings of a collection are one value and bodies are opaque
  with a UID each (`UIDOf`); Settings and Bodies are about their insides. In the
  handlers a request that fails on its own (bad body, bad header) is `PutFails`
  or `Refused`, or is not sent.
- The log is a set. Every entry is appended right after the bump that gave it
  its revision, so revisions give the order.
- Clients of CalendarRequests act as the owner. Permissions are inputs of the
  store model (`mayCreate`, `mayReplace`), and CardRequests has both.
- A transfer of an item onto itself changes nothing and is left out.
- `GetItem` of a sync may fetch in any order; the code uses the batch's.
- `reportSync` could also fail while rendering; for the client that is `Fail`.
- Reports: a row is a size and what became of it. Live properties' values,
  projections and XML are left out. The handlers' reads are one step, since
  their interleaving with writers is CalendarSync's and CalendarRequests'.
- Recurrence: a rule is a start, a step and a count, in UTC; the iterator is the
  library's. An event has the duration its DTEND or DURATION gives, or neither, and
  its start is a date or an instant. An object has no more than one override for a
  RECURRENCE-ID, as RFC 5545 asks; the code does not check it. An object is one event with its overrides, or one VFREEBUSY. The
  expansion's budget of instances is modelled, that of their bytes is not.
- File system: symbolic links, modes and the mapping of names to paths are left
  out. Random names never collide (`rand.Text` has 26 characters). The bytes of a
  file arrive in one step after it was created or truncated; what a reader of an
  unfinished file got is `Torn`. A directory's ETag also changes with its entries; here it does not, so a
  conditional DELETE of a collection is modelled for its identity only. Removing
  a tree that was set aside or staged is one step: only leftovers are lost in it.

## 3. The runs

| run | instance | what it shows |
|---|---|---|
| `store` | 2 calendars, 2 names, 2 UIDs, revisions to 3, 2 incarnations, sharing, pruning, unconditional requests | `TypeOK`, `ContentIDIndexExact`, `HistoryExplainsItems`, `IncarnationsDistinct`; the action properties `RevisionsNameBytes`, `IncarnationsNeverReturn` |
| `sync_limit` | 1 calendar, 2 names, limit 1, revisions to 4, 2 incarnations | `TokenHidesNothing`, `TokenNotAhead` while everything interleaves; `BatchesHonest` for every page of every log |
| `sync_converge` | the same without a limit, revisions to 3, fair | `CopyConverges`, `PollsGetThrough` |
| `sync_stranded` | limit 1, 1 incarnation, fair | `PollsGetThrough` fails: finding 1 |
| `requests_edit` | 2 clients that REPORT, PUT, DELETE and MOVE, 2 names, revisions to 5, no deletion of calendars | `NoLostUpdate` for conditional writes, deletions and renames |
| `requests_recreate` | 2 clients with every method, 1 name, 2 bodies, 2 incarnations, revisions to 3 | `RequestsTypeOK`, `ReportedETagsNameBytes` |
| `requests_stale` | the same | `StaleIfMatchMatchesNothing` fails: finding 2 |
| `cards` | 2 accounts with a book each, a client for each, 1 name, revisions to 3, 2 incarnations, sharing, deletion of books; one client sends every kind of conditional header, the other nothing or If-Match | `OnlyEditorsChangeItems`, `CardNoLostUpdate` (COPY and MOVE between books of overlapping revisions included) |
| `reports` | each kind of report or listing over up to 3 members of 2 sizes and every fate, or 4 (one beyond the scan budget of 3); budgets of 7 bytes of collection, 2 results, 6 bytes of document, 5 of echo, 3 hrefs; client limits none, 0, 1, 2; the connection breaks at any write | `DocumentWellFormed`, `RowsKeepToBudget`, `AnsweredOnce`, `NoSilentOmission`, `MarkerIsHonest`, `RefusedOnlyTooMuch`, `TokenDescribesRows`, `LimitRespected` |
| `tables` | every question within the bounds of MCTables; times 0..7, 4 iterations of a rule, 3 instances | `PrivilegesAreEnforced`, `AllowIsExact`, `DeniedLearnsNothing`, `SettingsAllOrNothing`, `TimeRangesAdditive`, `MatchIffExpands`, `FreeBusyIsExact`, `LimitsLoseNothing`, `OneOccurrenceJustifies`, `StoredIsSeen` |
| `fs_atomic` | 1 request at a time, a file or collection `a`, `b`, and `a/b`, 2 bodies, 4 kinds of header, 4 files ever made; any call may fail but three that nothing undoes: the deferred removals (`Cleanup`), `Restore` and `Discard` | `Implements` (AtomicTree), `NoStrays` |
| `fs_interleaved` | 2 requests, the same paths, 1 body, no headers, 3 files ever made, every call may fail, crashes | `NoPartialResource`, `NothingLost` |

The properties of `tables` are agreements between two pieces of code, or between
the code and a definition that does not look like it: a privilege is told exactly
when the *handlers* admit the request it stands for; Allow is what the handlers do
not answer 405; a property update ends where the last instruction of the document
about each property says, or nowhere; a window holds a component exactly when one
of any two halves of it does; the filter's walk of a recurrence rule and the
expansion's agree, the free-busy answer covers exactly the time some event
keeps, and limited objects expand to the same; a query matches for the sake of one
occurrence of one property; and what a PUT stores has nothing in it that the parser
did not see. Where the code falls short of such an agreement the property names the
case, and the list below says what happens in it.

**Bounds.** `MaxRev` bounds the revisions of one incarnation and `MaxIssued` the
calendars ever created; `PruneHistory` takes every position up to one beyond
`MaxRev`. Three revisions of each of two calendars see an item stored, replaced
with the other UID, renamed (two revisions) or deleted, and pruned; the proofs
say the same for every bound. With the four revisions of `sync_limit` a batch
can end before, at and after each of these; with five, in `requests_edit`, a
rename meets an ETag that two other writes made stale. Two incarnations are
enough for a token or an ETag of the first to meet the second. Two names and two
UIDs are needed for a rename and a collision; a third would only repeat them,
since the code never compares more than two. Two clients are one that reads and
one that writes. Names, UIDs, calendars and clients are symmetric where the run
has no liveness property. Only what a run is about is in it: `requests_edit`
leaves out GET and COPY, and in `cards` one client uses every method while the
other writes in between.

Three members and budgets of two or three let every budget of a report be met
exactly, exceeded by the last member, or exceeded with members left, before and
after another budget; the sizes are such that a row may fit, or not, after any
other two. Eight times hold a rule of up to five occurrences with an override
moved before, into and behind the window, and the iteration and expansion budgets
are below the longest of them. Filters are over texts of up to two letters, so
that the foldings and a substring differ. A card body is up to three raw lines, blank,
folded or not, after the beginning of a card and before its END or none: an END cut in
two, a second card and something folded after it.

Of files, three or four ever made are a source, a destination and a staged copy,
or a collection, its member and what replaces them; moving collections makes
paths longer than the ones requests name. `MaxInos` is a full disk, which is a
failure of the call that meets it, and a request that finds no temporary name
among `Temps` gives up as `tempSibling` does.

The stores, the requests and the reports stop when the bounds are reached or the
answer is complete, so those runs do not check for deadlock. The sync runs do: a
client can always poll. So do those of the file system: a handler always has a
next call.

**Fairness** (`CalendarSync!FairSpec`). The handler and the client together are
weakly fair: a client polls for ever, and a request's goroutine is not blocked
by anybody but the holder of the RWMutex, which every method releases. `Reply`
is strongly fair: the connection does not break on every single answer. Nobody
is obliged to write, to stop writing, to prune or to delete; the bounds make
writers rest eventually, which is what `CopyConverges` is about.

### Findings

1. **A truncated batch can strand a client** (`sync_stranded`). `syncDelta`
   fetches every item the batch reports as changed and answers 404 for the
   whole REPORT if one is gone (`src/caldav/report.go:504`). A batch that
   DAV:limit cut off reports an item as changed although a revision beyond
   `CoveredThrough` deleted it. The client repeats token and limit and gets 404
   for ever. Without a limit the same 404 is a race that the next poll repairs
   (`sync_converge`).
2. **A stale If-Match can match** (`requests_stale`). PUT, DELETE and transfers
   parse If-Match under the CalendarID they read first and hand the store bare
   revision numbers. If the calendar is deleted and created again in between,
   a number of the old calendar is compared with one of the new.
   `src/caldav/validator.go:21-24` says such an If-Match "matches nothing".

### Other things a reader of the code should know

Met while modelling, and not the subject of a run:

- `HeadGet` reads the item before the calendar whose ID scopes the ETag
  (`src/caldav/adapter.go:179-183`). If the calendar is deleted and created again
  between the two, the old bytes get an ETag of the new calendar, which can later
  match other bytes. The REPORTs and PUT read in the other order, and the
  property is stated, and proved, for them.
- If a MKCOL takes the destination's name between the two renames of a MOVE or
  COPY, the swap fails and so does the rename that should put the old tree back,
  which stays under a hidden name (`src/fs_local.go:394-399`; line 379 says it is
  put back). Its bytes are not lost (`NothingLost`).
- A COPY of a collection in which a PUT's body is still arriving, or another COPY is
  writing a file, copies the staged file as far as it is there, under the same hidden
  name (`Torn`). If the PUT's path then leads to the copy (PUT `a/b`; MOVE `a` to
  `b`; COPY `b` to `a`), `os.Rename(tmp, p)` (`src/fs_local.go:213`) gives the
  torn file the client's name and the PUT succeeds, although
  `src/fs_local_test.go:94-95` wants the success path to replace the contents; a COPY
  staged in the moved collection meets the same. TLC finds it in `fs_interleaved` with
  `MaxInos = 4` and no failures or crashes, when `NoPartialResource` is asked of
  `Torn` files too. As it stands the property is about the files that a PUT or a COPY
  itself began.
- The removals that Create and Copy defer (`src/fs_local.go:194`, `:330`) are best
  effort. If one fails, a hidden file or tree stays, and no later request removes it.
- After a crash between the two renames of `swapTree` nothing is at the destination.
  Its old tree and the new one are both on disk under other names (`NothingLost`).
- An all-day event that carries neither DTEND nor DURATION lasts its day for the filter
  (`src/caldav/match.go:160-176`), but the expansion rewrites its DTSTART as a
  DATE-TIME and gives it no end (`src/caldav/expand.go:262-301`). It is found by a
  query, and expanded to no length; the free-busy answer leaves its day out, contrary
  to `src/caldav/freebusy.go:78-81`, and `limit-recurrence-set` drops an override
  moved away from such a day in the window, contrary to
  `src/caldav/limitrecurrence.go:11-13`.
- An override with RANGE=THISANDFUTURE is one instance to expansion and free-busy, and
  redefines all later ones for `limit-recurrence-set` only
  (`src/caldav/limitrecurrence.go:72-76`).
- `isSingleCard` (`src/carddav/write.go:62-82`) reads raw lines and the decoder
  unfolded ones. `EN`, a line break, ` D:VCARD` is an END to the decoder only, as are
  `x.END:VCARD` and `END;X=1:VCARD`: a second card after it is stored, served and never
  looked at. A folded line without a colon before BEGIN is accepted, though line 60
  wants nothing but white space around the card.
- With two requests at once LocalFS does not implement AtomicTree: If-Match,
  If-None-Match and Overwrite are judged by a stat and the rename comes later
  (`src/fs_local.go:174`), so two requests can pass the same check. Nothing in
  the repository promises more.
- If the document's header cannot be written, `MultiStatusWriter.start` leaves no
  encoder and the deferred `Abort` uses it (`panicked`); `net/http` recovers, and
  the connection is gone anyway.
- The echo limit of PROPFIND puts its marker after the row that exceeded it, also
  when that was the last one: the listing is then complete and marked. An initial
  sync with a limit below the collection's size is always refused.
- `expandMaster` emits an override that was moved out of the window when the
  instance it replaces was in it (`src/caldav/expand.go`), which free-busy then
  clips away.

## 4. The proofs

Every theorem holds for every value of the constants it does not name: names, UIDs,
contents, collections, accounts, clients, paths, members, limits, budgets and
bounds. Each states a property that a run checks on a small instance.

| module | theorem | states |
|---|---|---|
| `CalendarStoreProofs` | `StoreTypeCorrect` | `Spec => []TypeOK` |
| | `StoreIndexExact` | `Spec => []ContentIDIndexExact` |
| | `StoreHistoryExplains` | `Spec => []HistoryExplainsItems` |
| | `StoreIncarnationsDistinct` | `Spec => []IncarnationsDistinct` |
| | `StoreRevisionsNameBytes` | `Spec => RevisionsNameBytes` |
| | `StoreIncarnationsNeverReturn` | `Spec => IncarnationsNeverReturn` |
| | `StoreBatchesHonest` | `Spec => []BatchesHonest` |
| `CalendarSyncProofs` | `SyncTokenNotAhead` | `SyncSpec => []TokenNotAhead` |
| | `SyncTokenHidesNothing` | `SyncSpec => []TokenHidesNothing` |
| `CalendarRequestsProofs` | `RequestsTypeCorrect` | `RequestsSpec => []RequestsTypeOK` |
| | `ReportedETagsHonest` | `RequestsSpec => []ReportedETagsNameBytes` |
| | `NoUpdateIsLost` | `~DeletesCalendars` implies `RequestsSpec => NoLostUpdate` |
| `CardRequestsProofs` | `OnlyOwnersChangeCards` | `CardSpec => OnlyEditorsChangeItems` |
| | `NoCardUpdateIsLost` | `CardSpec => CardNoLostUpdate` |
| `ReportsProofs` | `DocumentIsWellFormed` | `ReportsSpec => []DocumentWellFormed` |
| | `RowsStayWithinBudget` | `ReportsSpec => []RowsKeepToBudget` |
| | `EveryRequestAnsweredOnce` | `ReportsSpec => []AnsweredOnce` |
| | `NothingOmittedInSilence` | `ReportsSpec => []NoSilentOmission` |
| | `MarkersAreHonest` | `ReportsSpec => []MarkerIsHonest` |
| | `TokensDescribeRows` | `ReportsSpec => []TokenDescribesRows` |
| | `LimitsAreRespected` | `ReportsSpec => []LimitRespected` |
| | `OnlyTooMuchIsRefused` | `ReportsSpec => []RefusedOnlyTooMuch` |
| `AnswersProofs` | `PrivilegesEnforced` | `AccessSpec => []PrivilegesAreEnforced` |
| | `DeniedLearnNothing` | `AccessSpec => []DeniedLearnsNothing` |
| | `AllowExact` | `AccessSpec => []AllowIsExact` |
| | `TimeRangesSplit` | `TimeRangeSpec => []TimeRangesAdditive` |
| | `WalkedAlike` | `RecurrenceSpec => []MatchIffExpands` |
| | `LimitedLikeWhole` | `RecurrenceSpec => []LimitsLoseNothing` |
| | `FreeBusyExact` | `RecurrenceSpec => []FreeBusyIsExact` |
| | `ChangesAllOrNothing` | `SettingsSpec => []SettingsAllOrNothing` |
| | `OneOccurrence` | `FiltersSpec => []OneOccurrenceJustifies` |
| | `StoredSeen` | `BodiesSpec => []StoredIsSeen` |
| `LocalFSProofs` | `NoFileIsLost` | `Spec => NothingLost` |
| | `NoHalfWrittenResource` | `Spec => []NoPartialResource` |
| `AtomicityProofs` | `NoStraysLeft` | `Undisturbed(r)` implies `Spec => []NoStrays` |
| | `ServedAtomically` | `Undisturbed(r)` implies `Spec => Implements` |

**Assumed** are the modules' ASSUMEs, which TLC evaluates in every run: Nil is
no name, item, calendar or number; the bounds are numbers, and what is added up is
finite; `Owner`, `UIDOf` and `AccountOf` are functions on what they are about.
`CardStore!BooksAssumption` says of the books what `CalendarStore` assumes of
calendars, and `LocalFSAssumption` of the names that random ones are not among
those clients choose. `RequestAssumption` is that Nil is no request under way, and
`BodiesAssumption` that it is neither a reason to reject a body nor an item.

Three theorems have a hypothesis of their own, and each is needed.
`~DeletesCalendars` (of `NoUpdateIsLost`) is for backends that do not implement
`CalendarDeleter`; with it `requests_stale` loses an update. `Undisturbed(r)` (of
`NoStraysLeft` and `ServedAtomically`) is one slot, no crash, and no failure of the
deferred removals nor of the two calls that restore or discard the tree set aside:
after a crash or such a failure hidden trees remain, and two requests at once can pass
the same check. The failures it allows are those of `fs_atomic`, after which the code
means to leave things as they were.

**The store.** The inductive invariant `IInv` is `TypeOK`, `IncarnationsDistinct`
and, for each live calendar, `CalendarInv`: a well-formed record, `IndexExact`,
`HistoryExplains` and `RevsBounded`. The last is the strengthening: no item and
no log record has a revision above the calendar's. Without it a newly logged
record need not be the last of its name, and a newly given revision need not be
new. One lemma per operator on calendar records (`Stored`, `Removed`, `Updated`,
`Pruned`, `NewCalendar`, a new viewer) shows that it keeps `CalendarInv` and that
it *advances* the calendar (`Advances`): same ID, revisions only grow, whatever it
writes has a revision above all earlier ones, and the log says so or is pruned
past it (`LogAdvances`). `StoreStep` says that a step advances, creates or
deletes calendars and nothing else; it is proved once per method, and everything
above the store is proved from `StoreStep` alone.

**Pages of the log.** `ListChanges` chooses the first full revision and the last
record of a name. That these exist are `NatMin`, from the library's theorem that
`<` is well-founded, and `BoundedMax`. `ListChangesFacts` then says what a page
covers and tells, for any limit.

**Sync.** A name of the client's copy is *repaired* by the log at a position if a
later record of it is there, or the log was pruned past the position. `SyncInv`
says that every name of the copy is as in the calendar or repaired at the token's
position, and the same of every member already fetched at the position the batch
claims: the answer under way needs it because store methods run between the
fetches. `AdvanceRepairs` carries both through any step of the store.

**ETags.** An ETag is `Faithful` to a resource if, when the calendar there is its
incarnation, its revision is not ahead and an item of that revision has its bytes.
`StepFaithful` shows that the store keeps this, and the read order of REPORT and
PUT establishes it. `EditInv` adds, for backends that delete no calendars, that
the scope a handler read is the calendar its transaction meets
(`RequestFaithful`). That is the only place the assumption is used, and
`requests_stale` is the behaviour that makes it necessary.

**Cards.** `CardInv` is the store's `IInv`, through an instance of the proof
module on the map of books, and `RequestsAuthorised`: a request that may change
a book was opened by its owner. No step adds to what a request may do, and the
owner of a book never changes, so that a share given or revoked, or a book deleted
and created again meanwhile, cannot make a viewer's request change a card.

**Answers.** A document under way is `Open`: nothing, or the opening tag, rows, and
a marker if a budget ran out. A closed or abandoned one is `Ended`. One lemma per
method of the writer says what it makes of an open document, wherever the
connection breaks in it. They do not mention a handler, so every handler that
calls the methods in some order is covered. `ReportsInv` then relates the document
to the members: those read, matched and written so far are disjoint parts of the
collection, every matched member that is behind has its row unless the budget ran
out, and the job's counters are the sizes of those parts. `RefusedOnlyTooMuch`
compares sums of bytes over sets; that the fold of a set exists, and grows by one
member's bytes, is proved from its smallest counterexample (`NatMin`, `SumExists`).

**Access and time ranges.** An answer is `Describe` of what was asked
(`Describing`, `Locating`). Below it is a case analysis: for each privilege and
each method, when the handler admits it (`AdmittedWhen`) against when it is told.
The time tables are split at an instant table by table (`SpanSplits`,
`TodoSplits`, `FreeBusySplits`).

**Recurrence.** The theorems are about any sequence of objects, each a rule of any
number of occurrences at any distance, with any lists of dates and any finite set of
overrides, over all integers, and for any value of the two budgets.
`EventEmission` says what expansion emits of an object of events: the occurrences
that overlap and every override that does, each once; `WalksAgree` compares that
with what the filter finds on its own walk, and `EventsKept` and `PeriodsKept` with
what is left of a limited object. A walk that did not use up its iterations has met
every occurrence before the end of the window (`WalkFacts`), so that what is emitted
is every instance that keeps time of it (`EmittedInstances`). The proofs name an
instance by its recurrence identifier (`Instances`); `EventsKeep` says that they keep
the time of the events the property speaks of, which have none. That the
periods can be sorted (`SortedExists`), that merging them is a walk (`Merging`), and
that the first `k` have been merged into separate periods that cover the same time
(`IsMerged`, `MergeStep`, `Coalesced`) are proved from the least counterexample. The
step needs that the last merged period starts no later than the last one met, and that
no type reported later has been met: neither is in the property.

**Settings.** A body is any sequence of instructions with any number of properties
each. `Offsets` says where each instruction's updates end once all are joined;
that such a function exists, that it grows, and that every update has one place
under it (`OffsetsExist`, `OffsetsGrow`, `OffsetsCover`) are proved from the least
counterexample (`NatMin`), and so is the fold that gathers the patch
(`Accumulating`). `Accumulated` says that after `k` updates the patch holds for each
property what the last of them said, and `InOrder` that the updates are in document
order; together they give `AsForetold`. The rows are then compared with the updates
one by one (`RowsFacts`, `RowForEach`).

**Filters and bodies.** `FirstSettles` is the loop over tests with its early
return; `Tests` says what it comes to under anyof and allof for lists of any length.
A property with all its occurrences is then related to the object with one of them
alone (`CalendarProperty`, `CardProperty`), and the rest of the query to both
(`OneQuery`, `AloneQuery`). For bodies, `ReadFacts` says that no component is found
wrong beside the first exactly when all are one item. `CardEnds` compares the END at
which the decoder stops, among the lines it reads after unfolding, with the END that
`isSingleCard` found last among the raw ones; `CardBodies` finds the UID, the name and
the version among the lines between.

**The file system.** `ShapeInv` says that the tree has every parent of every path,
that no file has two names, that a request holds what its phase needs, and that
what a PUT or a COPY writes to is a file. Every action has a lemma for it, over lemmas
about the three things that happen to a tree (`WithTree`, `WithoutTree`,
`MovedTree`). `NoFileIsLost` needs only that a step keeps, moves or replaces files
(`Safe`). For `NoPartialResource` a half-written file is tagged by the random name
in its path; the invariant says that the tag belongs to the PUT or COPY that is writing it, or
to nobody any more, and to no path that a request is going to rename, and that it
travels with the file when a collection above it is renamed.

**Atomicity.** `AloneInv` says for the phase of the one request what is hidden and
where (`Staging`), that what its early checks found is still so (`PutOK`,
`DeleteOK`, `TransferOK`), and how much of a COPY is staged: every original is copied
or lies under an entry still to do, and there is nothing else in the copy
(`CopyOK`). The mapping hides temporary names (`Visible`) and puts a tree that was
set aside back in its place. A call that works under a temporary name is a stutter;
the rename that gives the new tree its name is AtomicTree's step, since
the staged copy is equal to the copy AtomicTree makes (`CopyPlaced`, `VisibleMoved`,
`VisibleSwap`, `VisiblePut`). `SwapIn` is it for a destination that existed,
`RenameNew` for one that did not. There is one lemma per action of LocalFS, saying
which action of AtomicTree it is.

**Only model-checked**: liveness (`CopyConverges`, `PollsGetThrough`), which is out
of the prover's reach, and what the theorems with hypotheses leave out. Every
invariant and action property that a passing run checks is a theorem, some of them
under such a hypothesis.

## 5. What is not modelled, and why

- **Time zones** (`timezone.go`, `vtimezone.go`): evaluation of VTIMEZONE rules
  over real calendars is date arithmetic without state; tables of dates test it
  better than a bounded model, which would have to have another calendar.
- **The client** (`client.go`): requests and decoding without state of its own.
- **XML, paths, headers** (`internal/elements.go` but for property updates,
  `xml.go`, `xmlscan.go`, `segment.go`, ...): encoding, decoding and syntax.
- **Authorization and privilege sets** (`authorize.go`, `privilege.go`): for
  applications that authorise for themselves; no handler here calls them.
- **Projection** of calendar-data and address-data onto what a client asks for.
- **GET's ranges and the values of live properties.**
- **Examples and conformance suites.** `caldavtest`'s obligations are the source
  of several properties.

## 6. What is left, in order

1. An abstract specification of an atomic conditional store, implemented by
   CalendarRequests when calendars are not deleted.
2. AtomicTree with crashes: what a restart finds is the tree before or after, and
   hidden leftovers that are in nobody's way.

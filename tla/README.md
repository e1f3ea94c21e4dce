# Verification of gdt_cache

TLA+ models, TLC configurations and TLAPS proofs for the GDT cache server, an
HTTP server that answers "which GDT entries has the customer with this e-mail"
from memory and keeps that memory up to date from a MySQL database. Paths below
are relative to the repository; the program is in `src/`.

Contents: 1 the system, 2 the modules and the code, 3 the runs, 4 bounds,
5 fairness, 6 proofs, 7 where code and comments disagree, 8 what is not
modelled, 9 plan.

## 1. The system

### Components

| component | files | state | operations |
|---|---|---|---|
| worker thread | `background_tasks/WorkerThread.h` | task queue `mTasks`, two mutexes, a condition variable, `mExitSignal`, the thread and its exception counter | `startThread`, `pushTask`, `threadFunction`, destructor |
| cache worker, task | `background_tasks/UpdateCacheWorker.*`, `UpdateGdtEntryList.*` | none of its own; a task is an e-mail | `run` (hourly address update, reload after `maxCacheTimeout`), `runTask` |
| cache | `CacheServer.*` | `mEmailCustomerIds` (e-mail to customer id), `mGdtEntriesByEmails` (customer id to list, in spite of its name), `mLastUpdateGdtEntries`, `mGdtEntriesAccessMutex`, `mGdtEntriesUpdateMutex` | `listPerEmailApi`, `sumPerEmailApi`, `reloadGdtEntry`, `reloadCacheAfterTimeout`, `loadFromDb` |
| IP white list | `CacheServer.*` (`updateAllowedIps`), `main.cpp` (`checkIpAuthorized`) | one IPv4 and one IPv6 slot per allowed host, time of the last update, shared address buffers | check of a client, update by a client or by the worker |
| queries | `mysql/*` | the database | `getAll`, `getByEmail`, `getByCustomer` |
| entry list | `model/GdtEntryList.*`, `model/GdtEntry.*` | ordered entries, sum, count, `mLastUpdate` | insert, `canUpdate` |
| HTTP, start-up, shutdown | `main.cpp` | `g_Config`, the static objects | handlers, `main`, destruction of static objects |
| views | `view/*` | a static number stream | JSON, paging, number format |
| log container | `logging/ContainerSingleton.*`, `Entry.*` | at most 100 entries and a counter of those dropped | `addLog`, `hasErrors`, `getErrorsHtml` |
| the rest | `utils/*`, `logging/Logging.*`, `model/Config.*`, `lithium_symbols.h` | | trim, profiler, log output, configuration |

### How they interact

- Each HTTP thread first checks its client against the white list and may run
  `updateAllowedIps` itself. It then reads the two cache maps under
  `mGdtEntriesAccessMutex`, which it gives up on after 100 ms, and while it
  holds the mutex pushes a task if the list is older than `minCacheTimeout` or
  the e-mail is unknown but looks like one.
- One worker thread wakes on a notification or after 60 s, calls `run()`, and
  then works through the queue. It holds `mMainThreadMutex` except while it
  sleeps. A task holds the access mutex during two queries; a full reload
  queries without it and swaps the lists under it, but replaces
  `mEmailCustomerIds` without it.
- `mGdtEntriesUpdateMutex` is tried, never waited for. It is shared by the full
  reload and by every address update.
- All threads log errors into the one log container, which `/status` shows, and
  format numbers in one static stream.
- `main` constructs everything, serves until a signal, deletes `g_Config` and
  returns; the worker thread, which uses the configuration, the connection, the
  maps and the log, is joined only while static objects are being destroyed.

### What is hard

Lost notifications; a queue length read without its mutex; a destructor that
signals a thread that may not be asleep; requests that queue the same e-mail
again and again; queries that throw between two assignments of one reload; a
full reload that installs lists read some time ago; two maps replaced at
different moments under different locks; addresses rewritten one by one while
others compare; counted retries that race with a late success; a status page
put together in two visits to a mutex; objects destroyed while a thread still
uses them. `PROJECT.json` lists each of these, and the sequential ones (paging
arithmetic, string edges, the order of lists, the log's limit), at the line
where it bites.

### What makes each component correct

- Worker thread: tasks are not lost, doubled or overtaken; every task has its
  turn; nothing is started after the exit signal; destruction terminates.
- Cache: what is shown is a state the database had, never older than what was
  shown before; after changes and failures the cache agrees with the database
  again; scheduled updates happen, superfluous ones do not; no mutex is left
  behind.
- White list: updates exclude one another; a client of an allowed host is let
  in; every client is answered; changed addresses are noticed.
- Entry list: a customer's list has exactly the rows of that customer, in the
  order of dates, with the right count and sum.
- Paging: a page is the right piece of the list in the order asked for; no
  number a client sends moves the iterator out of the list.
- Log container: the newest errors are kept, the others counted, and a page
  accounts for all of them.
- Number format: a thread gets the text of its own number.
- Strings: an e-mail is found exactly if it is the stored one up to case and
  blanks around it; the mask of a task's name hides what it should.
- Process: it ends; whoever uses a destroyed object is the worker, and only up
  to the exit signal.

## 2. The modules and the code

| module | what it is |
|---|---|
| `TaskQueue` | abstract: a first-in first-out queue with one task being worked on |
| `WorkerThread` | `WorkerThread.h`, one action per access to shared state |
| `MCWorkerThread` | its model for TLC |
| `WorkerThreadProofs` | its theorems |
| `LaggingReplica` | abstract: a copy that may lag behind its source and never goes back |
| `CacheServer` | requests, full reloads, single reloads, database, time |
| `MCCacheServer`, `CacheServerProofs` | its model and its theorems |
| `AllowedIps`, `MCAllowedIps`, `AllowedIpsProofs` | the white list, its model and its theorems |
| `GdtEntryList` | operators: the class `model::GdtEntryList` |
| `GdtEntryLoading` | `mysql/GdtEntry.cpp`: both queries fill lists row by row |
| `Paging`, `PagingProofs` | the paging loop of `view/GdtEntryList.cpp` over `int` and `size_t`; its theorems |
| `ListPages`, `MCListPages`, `ListPagesProofs` | the composition: lists are loaded, then pages of them shown; its model; order, totals and completeness of lists, and what carries over to pages |
| `LogContainer` | `ContainerSingleton` and the status page |
| `Process`, `MCProcess`, `ProcessProofs` | `main` from start-up to destruction, composed with `WorkerThread` and `LogContainer`; its model and theorems |
| `NumberFormat` | `stringWithoutTrailingZeros` and its shared stream |
| `EmailText` | `trim`, `toLowercase`, the keys of the contacts, the mask |
| `TextFormatting`, `MCText`, `TextProofs` | `NumberFormat` and `EmailText` side by side; their model; their theorems |
| `Induction` | lemmas of the proofs: least elements and induction over sets of numbers |

A definition whose name ends in `Mutant` stands in front of the definition it
spoils. It is not part of the specification: each property is checked to fail
when one such variant takes the place of the original.

### WorkerThread

`pc` walks through `threadFunction`: `lockMain` (line 88), `loop` (90),
`waiting` inside `wait`/`wait_for` (92-97), `woken` (signalled, mutex not yet
reacquired), `awake` (98), `run` (99-111), `size` (113), `inner` (115),
`lockTasks` (117), `runTask` (125), `putBack` (127-130), `done`. The condition
variable is the test `pc = "waiting"` in `WakeIfWaiting`: it remembers nothing,
and the wait has no predicate. `SizeReads` is nondeterministic while a push is
under way, because the read of `mTasks.size()` is a data race then. The inner
exit check can never succeed, since the flag is set under a mutex the worker
holds during all its work; it is modelled all the same. `callPc` walks through
`pushTask` (44-48) and `dtorPc` through the destructor (75-80).

A task carries the name of its `pushTask` call, so that two tasks in the queue
differ; the code allows a task to be pushed twice, but no caller does it.

### CacheServer

- The entries of a customer are a version number, 0 for none, because no
  property looks into a list. A list is its version and its age. Age and
  version of a list are read in the step of the query.
- A request is `BeginRequest` (the handler starts, the mutex is still to be
  had), `Answer` (the whole section under the mutex, which nobody else can see
  a part of), `EndRequest` (release), or `TimeOut`. List and sum requests
  differ in their output only.
- `SeenCustomers` says what a search of `mEmailCustomerIds` can find while the
  worker move-assigns it: the old customer, the new one or none. `CrashInFind`
  is the remaining outcome of that race.
- A full reload is `StartReload`, `LoadCustomers`, `AssignCustomers`,
  `LoadLists`, `SwapLists`; `ReloadFails` is an exception in one of the two
  queries, after which the new contacts may stay with the old lists.
- A single reload is `TakeTask`, then `SkipTask` or `StartTask`, `UnknownEmail`
  or `QueryCustomer`, `QueryList`; `TaskFails` is an exception in a query.
  `StartTask` takes the access mutex, which is held to the end.
- `Like` is the LIKE comparison of `Customer::getByEmail`: the set of stored
  e-mails an e-mail matches. The full reload indexes by the stored e-mail.
- The worker's waking is any time (`Wake`); why a task's notification is not
  needed for safety and costs only delay is the subject of `WorkerThread`.
- `IpStep` is `updateAllowedIps` seen from here: somebody has the update mutex.

### AllowedIps

`i` is the loop index of a comparison or an update, so that both are
interleaved slot by slot. `Lock` is the successful `try_lock`, `Running` a
failed one with tries left, `StillRunning` the last failed one. `Throw` is an
exception in an update (status `SKIPPED`). `Reload` lets the cache reload have
the mutex for as long as it likes. `ipWhiteListing` is on; the shortcut for
local clients is left out. The IPv4 and the IPv6 slot of a host are one.

### GdtEntryList, GdtEntryLoading, Paging, ListPages

An entry is its row, its date and its amount; an amount is an integer where the
code adds doubles. `Query` starts `getAll` (query `"all"`) or `getByCustomer`;
`NextRows` is "order by date ASC", where equal dates come in any order and a
missing date (0) first. `ReadRow` is the callback for one row with the
`addGdtEntry` it ends in. `RowThrows` is a row without a date whose type has no
name: `getGdtEntryTypeString` throws in the middle of the message about it.
`Insert` is `insertGdtEntry`, which the class offers and nothing calls yet.

`Sums` adds up a list from its beginning, entry by entry; `SumOf` is its last value.

`Paging` has one action per loop step. `it` is a position, one past the length
is `end()`. `(page-1)*count` overflows as signed arithmetic may, by wrapping or
by having been computed in 64 bits (`Products`); the comparison with the size
of the list converts a negative result to `size_t` (`AsSize`). `Return` hands
the page out. In `ListPages` a page is written while the list rests, because
`listPerEmailApi` holds the access mutex meanwhile.

### LogContainer and Process

An entry is its number and the size of its line, and a page is the lines it
shows, whether it has "...", and the count of removed errors. `ShownLines` is the
set of the numbers of lines that may be shown: as many as fit, given the sizes
of lines. `hasErrors` and
`getErrorsHtml` are two visits to the mutex. `mDBUpdateLastTimes` is left out.

`Process` extends `WorkerThread`: `mainPc` walks through `main` (start-up, lines
69-100; `serve` is `http_serve`, `join` its wait for its threads after a
signal; `delete`; `exit` with the destruction of static objects; `destroy` the
destructor of the worker). `statics` is the order in which function-local
statics were constructed, and they go in the reverse one. The worker is the
last member of `CacheServer` and so goes first; of the worker the connection, a
member of the derived class, goes before the base class signals and joins the
thread. `gone` is what has been destroyed, and a step that uses what belongs
there (`run`, `runTask`, a request) sets `misused` and may crash the process.
`ConstructServer` may end in `terminated`: nothing catches an exception of the
connection that the constructor of `UpdateCacheWorker` opens.

### NumberFormat and EmailText

A number is its sign and its hundredths, so that a negative one can round to
zero; the stream is a sequence of characters with a put position, overwritten
from its beginning and read up to the NUL. Texts are put together character by
character here because what is left of an earlier, longer number is the point.

`Lookup` is the way of an e-mail: stored in the database, keyed by the
database's `LOWER(TRIM())` in a full reload, asked for and normalised by
`trim(toLowercase())`, searched for among these keys, and masked for the name of
a task. A string is a sequence of bytes. `tolower` converts single bytes and, in
the locale of this program, the letters of ASCII only; `Lower` is the database's
LOWER, which works on characters and knows others. Of it the module assumes that
it knows the capitals `tolower` knows, leaves no capital it knows and makes
blanks of nothing (`LowerAssumption`; a Turkish collation, with its small I
without a dot, is not meant). `Masked` is the set of places
the mask loop writes, with its unsigned `size() - 2`.

`TextFormatting` takes the steps of both, one at a time. E-mails are looked up
before the first number only, which costs nothing: the invariants are proved of
`NumberSpec` and `EmailSpec` on their own and carried over.

## 3. The runs

| run | question | answer |
|---|---|---|
| `worker` | does the thread with its mutexes and races implement `TaskQueue`, fairness included? does the destructor return? | yes; yes, unless tasks are rescheduled for ever |
| `worker_untimed` | is an announced task taken if the wait has no timeout? | no, the notification may be lost |
| `cache` | are shown entries old states that never go back? does any failure leave a mutex behind? do duplicates reach the database? | yes, no, no |
| `cache_liveness` | does the cache agree with the database again after a change and a failure? is what a request schedules done? | yes, yes |
| `cache_reload_timer` | is a freshly reloaded cache up to date for the timer? | no |
| `cache_lookup` | does a full reload leave answers from the cache alone? | no |
| `cache_wildcard` | is the customer looked up the one of the contact? | no, not with `_` or `%` in the e-mail |
| `ips` | do updates exclude one another? is a client of an allowed host let in? is every client answered, and in how many steps? are new addresses noticed? | yes; yes, if it does not run out of tries; yes, at most three per host, the tries and five; yes |
| `ips_late_update` | is the client compared with the result of its own update? | not if that was its last try |
| `list` | are loaded lists complete, ordered, summed up? is every page the right piece, in the order of dates, and does the iterator stay inside, whatever ints are asked for? | yes, yes |
| `text` | does each thread get its own number? is an e-mail found exactly if it is the stored one? does the mask hide the middle? | yes; yes, but for the premises below; yes |
| `process` | does the process keep to what `WorkerThread` expects? can destroyed objects be used? does the process end? | yes; by the worker, up to the exit signal; yes |

What the properties rest on:

- `FrontIsDefined`: between a premature size and the lock of the queue lies the
  whole push, so `front()` finds a task.
- `NoWorkAfterExitSignal`: the flag is set under `mMainThreadMutex`, which the
  worker holds through its whole work. The destructor pays for it by waiting
  for the queue to drain.
- `ImplementsTaskQueue`: `queue` is `mTasks`, `current` the local `task`;
  `closed` is the exit signal or the end of the thread (over 100 exceptions in
  a row also end it, silently). A lost notification costs one timeout.
- `ImplementsLaggingReplica`: a list is replaced only by one read later. The
  full reload installs old lists, but it runs in the same thread as the single
  reloads. A contact that moves to another customer is not a step back of
  either customer's entries; the replica is per customer.
- `DuplicateTasksAreSkipped`: freshness is asked again under the lock. The
  proviso that the e-mail keeps its customer is needed: an e-mail whose
  customer has changed, or a second e-mail of the customer that is not known
  yet, is read again within `minCacheTimeout`.
- `CacheConverges`: a reload that failed half-way is repaired by the next one,
  a whole `maxCacheTimeout` later. A contact removed from the database stays in
  the cache until then.
- `ScheduledUpdateHappens`: past skips, other e-mails of the same customer and
  reloads, the list gets fresh, unless a query fails or the e-mail is unknown.
- `HostIsAuthorized`: with two hosts that may share addresses, slots rewritten
  between two comparisons do not lock out a client, because the rewriting
  thread writes addresses that are right.
- `ChecksComeToAnEnd`: whatever others do to the mutex, the slots or the DNS, a
  check is set back by none of them, since there is one second comparison and
  the tries are counted. It is why `EveryClientIsAnswered` needs no more than that
  the thread runs.
- `NewAddressIsNoticed`: needs the mutex to be free again and again, since the
  worker only tries it.
- `LoadedListsAreComplete`: rows of different customers come mixed. It is about
  queries that return: a row that aborts the load of everything does not disturb
  the query of one customer, and no property says that there is no such row.
- `ListsAreOrdered`: rests on the order of the query and, for insertions, on
  the first entry that is not earlier being there when the last one is later.
- `IteratorStaysInside`: a short last page ends the loop at either end; on an
  empty list no int gets past the comparison, since every negative product
  becomes a large `size_t` and zero is not smaller than zero.
- `PageIsRight`: is about products that do not overflow. Beyond that a page may
  show the beginning of the list.
- `PageIsInOrder`: needs the order of the query, the places of insertions and
  that the iterator moves one way; no premise about products, since a page that
  begins at the wrong place is still a piece of the list.
- `NewestErrorsAreKept`, `PageAccountsForAll`: an entry is dropped only after
  one was added, so that a page of errors is never empty although `hasErrors`
  was asked earlier.
- `EachGetsItsOwnNumber`: the NUL after each number cuts off the rest of a
  longer one. `BufferStaysSmall`: the position is reset each time.
- `SameEmailIsFound`: SQL's TRIM removes spaces, `trim` tabs and line ends as
  well; LOWER knows letters `toLowercase` does not. The premise leaves out contacts
  stored with a tab or a line end around the e-mail (inside it does not
  matter), which have keys nobody asks for, and contacts that consist of blanks.
  The conclusion has the other exception: an e-mail asked for with a capital
  outside ASCII has no key, even if it is stored exactly like that.
- `MaskHidesTheMiddle`: needs two characters; `size() - 2` of a shorter e-mail is
  a huge number, and the loop writes past the end of the name. A request can
  cause this only with a cached contact of
  fewer than two characters, since others have to look like an e-mail.
- `ImplementsWorkerThread`: `http_serve` joins its threads, so that no push is
  under way when the destructor begins: every safety property of `WorkerThread`
  alone holds in the process.
- `MapsOutliveWorker`: the order of the members of `CacheServer`.
- `MisuseOnlyBeforeExitSignal`: between `delete g_Config` and the exit signal
  the worker may use the deleted configuration, the destroyed connection and,
  if the log was first used after the cache server was constructed, the
  destroyed log. Neither requests nor a failed start-up do, and nothing happens
  after the signal.
- `ProcessEnds`: an end may also be a crash or `terminate`. `main` joins a thread that may be asleep, at work, not started
  at all, or past its last exception.

## 4. Bounds

- `WorkerThread`: two calls, so that a push can race with the worker and with
  another push; `MaxErrors` 1 stands for 100 exceptions in a row.
- `CacheServer`: one or two customers, e-mails and requests. Ages stop one
  above the timeout, the only comparison made with them. `MaxDbChanges` of 1 or
  2 let a change fall between any two steps of a reload and another follow it.
  `MaxFailures` 1 lets any one query fail. `MaxTasks` bounds queued and coming
  tasks together (the code has no limit), 2 are a task and its duplicate.
  Customers are symmetric in the safety run; no liveness run uses symmetry.
- `AllowedIps`: two hosts and two addresses, so that hosts can swap or share
  them; one client beside the worker, which updates as well (any number of
  clients is the subject of the proofs); `MaxTries` of 1 or 2 for 10;
  `MaxDnsChanges` and `MaxThrows` of 1. `HostIsAuthorized` says in its premise
  that the DNS has not changed and nothing was thrown.
- `ListPages`: three rows of two customers, one of unknown type, each with any
  of three dates (one missing), and one insertion: lists of up to four entries.
  `IntMax` 3 makes ints of three bits, -4 to 3, whose products overflow in both
  directions; `SizeMax` 24 is large enough that a negative product becomes
  larger than any list, as 2^64 is (`PagingAssumption`).
- `NumberFormat`: two threads; numbers of four to eight characters with and
  without zeros at the end. `EmailText`: all strings of up to three of six
  characters, among them a letter with an umlaut in both cases, of two bytes
  each, and two longer strings whose middle is to be masked. E-mails are
  looked up before the first number, since the two share nothing.
- `Process`: two pushing requests, one viewer, `MaxEntries` 2 for 100 and four
  errors, so that entries are dropped between the two visits; lines of two
  sizes, of which one or both fit the page.

Deadlock is checked for `WorkerThread`, `AllowedIps`, `ListPages`, `MCText` and
`Process` (the end of an object, of a failed load and of the process are
explicit stutters). `CacheServer` stops after `CrashInFind`, where the
process is gone, and its runs say `CHECK_DEADLOCK FALSE`.

## 5. Fairness

- `WorkerThread`: weak fairness of the thread, of calls once begun and of the
  destructor; a timed wait ends. Strong fairness of `DtorSignal`: the mutex is
  free whenever the worker sleeps, up to 60 s at a time. Nobody has to push,
  and no spurious wakeup is relied on.
- `CacheServer`: time passes, requests are answered, `updateAllowedIps` returns
  the mutex. Strong fairness of the worker, which contends for the access mutex
  with requests that hold it for moments. Strong fairness of `StartReload`: a
  `try_lock` that could succeed again and again does so once. `CacheConverges`
  says in its premise that this is so.
- `AllowedIps`: hours pass, checks and updates once begun go on; strong fairness
  of the worker's `try_lock` as above. A reload of the cache need not end.
- `Process`: `main`, the worker and requests once begun go on; strong fairness
  of `DestroyWorker` for the same reason as of `DtorSignal`. A signal need not
  come, and no request needs to.
- `ListPages` and `MCText` have safety properties only and no fairness.

## 6. Proofs

TLAPS checks the seven `*Proofs` modules and `Induction` in full, for any finite
or infinite sets of calls, customers, e-mails, requests, hosts, clients, viewers,
numbers and threads and any bounds, from the named assumptions of the modules
they extend (distinct values are distinct, numbers are numbers, `size_t` is wide
enough for a list and a product of ints, `tolower` leaves blanks alone, `Lower` is as
`LowerAssumption` says). Only
what `ListPagesProofs` says of the lengths of lists needs a finite table that,
with what may be inserted, is within `MaxSize` (`ListPagesAssumption`).

`WorkerThreadProofs`:

- `IInv` adds to `TypeOK` that `mMainThreadMutex` is held exactly at the places
  in `HoldingMain` (`MainMutexInv`), that the queue's mutex belongs to the call
  that is between lock and unlock (`TasksMutexInv`), that `task` is set exactly
  from `runTask` to `putBack` (`CurrentTaskInv`), that after a positive answer
  of `size()` the queue has a task or a push that holds the mutex will add one
  (`FrontInv`), that the call past its push has the queue non-empty while it
  holds the mutex (`PushedTaskInv`), and that a task about to be pushed is
  neither queued nor current (`FreshTaskInv`). `FrontIsDefined` is not
  inductive without the first two: it needs that only the worker removes tasks.
- Theorems: `TypeCorrect`, `FrontSafe`, `ExitSafe` and, for the safety part of
  `ImplementsTaskQueue`, `ImplementsTaskQueueSafely` (initial states map to
  initial states, every step to a step or a stutter of `TaskQueue`).

`CacheServerProofs`:

- `IInv` adds to `TypeOK` who holds which mutex at which place of the worker
  (`WorkerInv`), who holds the access mutex for a request (`RequestInv`), that
  the list of a task that has been started stays stale until it is replaced
  (`StaleInv`), that no list in the cache is ahead of the database, and that
  lists waiting to be swapped in are not behind those shown (`VersionInv`; with
  it goes `DbInv`, the bound on versions). `ReplicaNeverGoesBack` is not
  inductive without the last: a swap alone does not tell how old its lists are.
- Theorems: `TypeCorrect` (with it: the customer a list is read for is a real
  one), `IdleWorkerIsHarmless`, `DuplicatesSkipped`, `ReplicaNeverGoesBack`.

`AllowedIpsProofs`: `Types`, `UpdatesExclude` (the update mutex belongs to
whoever updates) and `AuthorizedHosts`. For the last, `SlotInv` says of a client
and its host that the slot the client's own update has passed holds its
address, that in its second comparison the slot holds it and has not been passed
without a match, and that it is turned away only without tries left;
`AuthorizedInv` is that for all of them as long as the DNS rests. `ChecksEnd` is
the half of `EveryClientIsAnswered` a proof can reach: `StepsLeft` gets smaller with
every step of the client's thread (`OwnUpdateCounts`, `OwnCheckCounts`) and is
left alone by every other step (`OthersChangeNothing`).

`PagingProofs`: `PageTypes`, `IteratorInside`, `PagesAreRight`. `InsideInv` ties
the place of the iterator to the loop index and the product, and knows that
a product that passes the comparison is smaller than the size of the list;
`PieceInv` says which piece has been written so far. The arithmetic of ints is
in `ProductBounds`, `WrapInRange`, `WrapKeepsInts` and `ProductFacts`.

`ListPagesProofs`:

- `OrderedLists`. `OrderInv` adds to the order that no entry read is later than
  a row still unread. `PlaceExists` finds the first entry that is not earlier;
  `PutInto` says what the list is after an insertion, and `InsertPuts` that
  `insertGdtEntry` does that; `AddKeepsOrder` and `InsertKeepsOrder` follow.
- `CompleteLists`. `CompleteInv` says of each list being filled (`Filled`) that
  it has exactly the rows of its customer that have been read, with their
  number, and that rows still unread belong to the query. The cardinalities need
  no finite table: a list is finite because it was filled one row after another.
- `ListTotals`. `Sums` is defined by recursion over a list; `SumsExist` and
  `SumsFacts` show that it has the values its equation says, `SumOfLonger` what an
  entry put anywhere into a list adds to them. `TotalsInv` adds that a list has
  no more entries than rows read and insertions made, which with the finite
  table bounds its length.
- `ListPagesImplementsPaging`: with that bound the lists shown are lists `Paging`
  is about, so that every step is a step or a stutter of `PagingSpec`, and
  `LoadedPages` and `ListTypes` follow from `PagingProofs`.
- `PagesInOrder`, the end-to-end statement. `SequenceInv` says that what has been
  written comes, in the direction asked for, before what the iterator stands at.
  It uses `InsideInv`, without which the next entry might be none, and the order
  in `OrderInv`, but nothing about the product.

`ProcessProofs`, over `WorkerThreadProofs`:

- `ProcessImplementsWorkerThread`, `MapsSafe`, `MisuseIsBounded`. `PhaseInv` says
  in which part of `main` requests can be under way, what can be gone and that
  the worker has ended where the destructor has; since the process implements
  `WorkerThread`'s specification, `WorkerThread`'s own invariant holds in it
  (`AlwaysIInv`).
- `NewestErrors`, `PagesAccountForAll`. `LogInv` ties the numbers of the entries
  to the counter of the dropped ones; `ViewInv` adds that a viewer who has been
  told of errors finds a log that is not empty, which no `addLog` in between
  changes.
- `ProcessTypes`. `StaticsInv` lists the orders in which the static objects can
  have been constructed at each place of `main`; that the type invariant allows
  no other rests on it and on `WorkerThread`'s.

`TextProofs`:

- `SameEmailsFound`, `MasksHide`. `TrimFacts` and `LowerFacts` say what the
  operators return for strings of any length, `KeyIsLowered` and `DbKeyIsLowered`
  that either key is a conversion of what is between the blanks. `KeysAgree` needs
  of the two conversions no more than `LowerAssumption`: if `toLowercase(x)` is
  `Lower(y)`, lowering both once more shows that `x` and `y` are the same to the
  database and that the server has left nothing of `x` to lower.
- `OwnNumbers`, `SmallBuffer`, `TextTypes`. `DecimalDef` and `DecimalIsDigits` are
  about the digits of any number, `FixedShape` about the text of one and
  `StrippedFacts` about that text without its trailing zeros; `WriteFacts` and
  `CStringIs` say that what is written from the beginning of the stream is what
  is read up to the NUL, whatever stands behind it. `NumInv` adds to the
  properties that a thread about to write finds the position at the beginning
  and one about to read its own text in the stream (`Holds`). It is not inductive
  without the mutex, which `NumberTypeOK` says is held exactly from `seek` to
  `read`, nor without the unused stream of the first one.

`Induction` brings the library's induction theorem, which is about predicates,
into a form about sets of numbers. A recursive function has the values of its
equation only if there is such a function at all: that is what `SumsExist` and
`DecimalsExist` show by it.

Model-checked only: liveness, which is out of the prover's reach. These are
`DestructorReturns`, the fairness part of `ImplementsTaskQueue`,
`CacheConverges`, `ScheduledUpdateHappens`, `EveryClientIsAnswered`,
`NewAddressIsNoticed` and `ProcessEnds`. Every invariant and every action
property of a passing run is a theorem.

## 7. Where code and comments disagree

Each of these is a run that ends in a counterexample (`findings` in
`PROJECT.json` quotes the lines):

- `worker_untimed`: with `mCallFrequencySeconds` 0 a lost notification is never
  made good. `UpdateCacheWorker` uses 60 s and is delayed by up to that.
- `cache_reload_timer`: after a successful full reload `mLastUpdateGdtEntries`
  keeps its old value, so that once `maxCacheTimeout` has passed every wake-up
  reloads everything; only a failed reload restarts the timer.
- `cache_lookup`: `loadFromDb` replaces `mEmailCustomerIds` outside the mutex.
- `cache_wildcard`: LIKE treats `_` and `%` of the requested e-mail as
  wildcards, so that a contact whose list is reloaded can be given the customer
  of another contact.
- `ips_late_update`: an update that succeeds on the last try is not used.

Seen on the way and not given a run: an e-mail with a capital outside ASCII is
lower-cased by the database and not by the server, so that `MÜLLER@x.de`, asked
for as `mÜller@x.de`, misses the key `müller@x.de` of a full reload, and what a
single reload may cache for it is dropped by the next full one; the comment on `run()` says "called after
cleaning up tasks list", but it is called before; `Customer::getAll` trims
stored e-mails and `getByEmail` does not, so that an e-mail stored with blanks
is cached by a full reload and found by no single one; the comment on
`shouldUpdate` says 4h where the default is 60 s; list requests report 500
where sum requests report 504 for a lock timeout; `updateAllowedIps` unlocks
`mUpdateAllowedIpsMutex`, which nobody locks; its exceptions give `SKIPPED`,
never `ERROR`.

Further: `trim` returns a string of blanks as it is, while the comment
in `stringUtils.h` says "just like php trim function"; the 100 bytes
`getErrorsHtml` keeps back for the page around it are fewer than the page can
need, and `listPerEmailApi` allows an answer of the whole buffer without the
head of the response; the mutex of the number format protects nothing at
present, as both interfaces format while they hold the access mutex; `page`
65537 with `count` 65536 shows the first page; `toJsonString` in `View.cpp` 99-120, not called,
writes a comma before the closing brace; one row without a date and with an
unknown type keeps the program from starting.

## 8. What is not modelled

- Console and file output, the profiler, generated symbols, the configuration
  file (its values are constants, its failure is `ReadConfig`) and the vendored
  HTTP library: pure output or code that is not the program's own.
- Texts: JSON around the entries, comments and dates of entries, parsing of
  parameters, status codes. No state depends on them. With them go the sizes of
  answers and of the page around the log's lines.
- Of the queries only which rows they give, in which order, and that they can
  fail. The time a query takes is not modelled; that a request may give up
  waiting is.
- `setDbUpdateTime`: one text under its own mutex. `shouldUpdate`, `reset` and
  `calculateEuroSum` of the list, which nothing calls.
- The length of `mTasks`, which has no limit that could be checked. Tasks that
  are rescheduled are in `WorkerThread`, since its interface offers it; none of
  this program is, and `DestructorReturns` leaves out those that are for ever.
- That `run()` comes before the tasks that woke the thread only delays them, by a
  time no module measures.

## 9. Plan

Done: the worker thread, the cache, the white list, lists and pages, the log
container, the process, numbers and e-mails, and proofs of all their safety
properties. Left, in this order:

1. The steps of `CacheServer` that `WorkerThread` shows from inside (`Wake`,
   `TakeTask`, the pushes of requests) as an instance of `TaskQueue`, for which
   tasks would need names.
2. A second client in the liveness properties of `AllowedIps`, which takes
   longer than a run should at present.

# Verification of queral, the EasyForetell cache daemon

`queral` (src/src/*.c) warms up a memcached cache. Clients write lines such as
`CACHE http://...` to a named pipe; the daemon queues them, and a pool of worker
threads downloads the pages and stores them. This directory holds TLA+ models
of the daemon, the TLC configurations that check them on small instances and
TLAPS proofs for all instances.

## 1. Inventory

| Part | Code | State | Operations |
|---|---|---|---|
| Job queue | queue.c | `buffer`, `occupied`, `begin`, `end`, own mutex | `fifo_init`, `fifo_enqueue`, `fifo_dequeue`, `fifo_destroy` |
| Main thread and event loop | queral.c `main`, `socket_cb`, `should_socket_worker_run` | `should_run`, `url_count`, `mutex`, `cond`, the libev loop and watcher | start workers, read and parse the pipe, queue lines, stop, join |
| Signal handler | queral.c `signal_handler`, `write_fifo` | the same globals | clear `should_run`, write `QUIT` to the pipe |
| Workers | queral.c `worker_thread` | `job`, position in the refresh list | wait for a token, take a line, run it, sleep |
| Line reader | queral.c `socket_cb` | `read_buffer`, `cache_buffer` | cut the byte stream into lines |
| Page cache | queral.c FETCH/CACHE, curl_client.c, memcached_client.c | one download buffer per worker; the memcached records | delete, download, store |
| Process life cycle | daemon_utils.c, queral.c `create_fifo`, etc/queral | pid file and its lock, the pipe's name | fork, lock, create the pipe, stop, be killed |
| Command parser | queral.c `get_command`, string_utils.c `strim` | the worker's `job` | split command and argument in place |
| Action table | action.c, file_utils.c `list_files` | `actions`, refresh lists | load at start, look up on UPDATE |
| Variable substitution | config_utils.c `substitute_variables`, string_utils.c `replace_string` | the string worked on | replace `$name` by its value |
| Settings | config_utils.c, queral.c `main` | number of workers, contention, memcached servers, key prefix, expiration; each worker's clients | read, clamp, connect, destroy, free |
| Delay | sleep_utils.c | none | sleep a random part of the contention |
| Logger | logger.c | a buffer on the stack of each call | format, then syslog or stdio |

How they interact: clients, the signal handler and workers treating an UPDATE
line write to the pipe; the event loop reads it (`LineReader`), puts each line
into the queue and counts a token in `url_count` under `mutex`; workers wait on
`cond` for a token and take a line. Workers share the memcached servers without
a lock. Signals are delivered to the main thread only, since `create_thread`
blocks them in the workers.

What is hard, and what makes each part correct:

* **Queue**: three fields kept in step by hand; wrap-around; full and empty.
  Correct when it is a bounded FIFO list.
* **Threads**: two counters under two mutexes (`url_count`, `occupied`); one
  condition variable for lines and stop orders; a handler that locks a mutex
  and blocks in `write`; a worker that writes to the pipe its own event loop
  must drain; startup before the queue exists and clean-up after the joins.
  Correct when counters agree, nobody sleeps on a token, every worker gets its
  stop order and the shared objects live as long as they are used.
* **Line reader**: `read` cuts anywhere; state left over between callbacks.
  Correct when the lines that come out are the lines written.
* **Page cache**: failures half way, a buffer used again, two workers on one
  page. Correct when a record is a whole page and not older than it must be.
* **Life cycle**: several processes, kill at any point, files made or removed
  by others. Correct when the serving process keeps the name of its pipe.
* **Action table**: an array whose walks look for a NULL it has no room for;
  files refused in between. Correct when an UPDATE writes the pages of the
  cache it names and no memory is touched that is not the program's.
* **Substitution**: one variable after the other in the whole string, each
  until it is found no more, in buffers of one line. Correct when it ends, fits
  and gives what the template says.
* **Command parser**: two arrays that are never initialised, changed in place,
  with lengths taken before the string is cut. Correct when the operation and
  the argument are those of the line and every NUL has its byte.
* **Settings**: values that may be missing, wrong or out of range, and clamps
  that look at the pointer. Correct when the limits hold, every worker knows
  the servers and what was allocated is freed once.

## 2. Modules

| Module | What | Relation |
|---|---|---|
| `BoundedFifo` | what the queue promises | abstract specification |
| `FifoQueue` | queue.c | implements `BoundedFifo` (`ImplementsFifo`) |
| `Dispatcher` | threads, event loop, handler | extends `FifoQueue`, whose operations are parts of its actions; implements `BoundedFifo` too |
| `MCDispatcher` | lines for TLC | instance of `Dispatcher` |
| `LineReader` | the buffers of `socket_cb` | refines the one step `Dispatcher` takes for a line |
| `PageCache`, `MCPageCache` | FETCH and CACHE | what `RunJob` of `Dispatcher` leaves out |
| `Lifecycle` | processes, pid file, pipe's name | around `Dispatcher`, whose run is the place "serve" |
| `ActionTable`, `MCActionTable` | action.c, `list_files`, UPDATE's look-up | before and beside `Dispatcher`, which takes the table's content as `RefreshList` |
| `Substitution`, `MCSubstitution` | page templates to URLs | produces the pages `ActionTable` starts from |
| `Commands`, `MCCommands` | `get_command`, the switch of `worker_thread`, lengths of keys, lines and messages | what `RunJob` of `Dispatcher` does to the line |
| `Settings`, `MCSettings` | settings from the file to their use | before and beside `Dispatcher`, which takes the number of workers as a constant |
| `ConfigLists` | the loop that keeps the complete entries of a list in the file | used by `ActionTable` and `Settings` |
| `DispatcherProofs`, `LineReaderProofs`, `PageCacheProofs`, `LifecycleProofs`, `ActionTableProofs`, `CommandsProofs`, `SettingsProofs`, `SubstitutionProofs` | theorems | each extends the module it is named after; the first has those of `FifoQueue` too |

### Correspondence

`Dispatcher`. `mpc` is where the main thread is between two points where
something else can interfere: `fifo`, `spawn`, `watch` are the start-up (lines
251-293 of queral.c), `poll` is `ev_loop` waiting, `checking` the critical
section of `should_socket_worker_run`, `return` the unprotected `return
should_run`, `read`/`parse`/`enqueue` the three parts of `socket_cb`,
`unlooped` the return into a destroyed loop, `join`/`cleanup`/`library` the end
of `main`, the last of them inside `free` or `syslog`, which hold locks of the C
library. `hpc` is the handler, which stops the main thread while it runs
(`MainAt` requires it idle) but nobody else: it locks, then writes `QUIT`, or
reports that the pipe's name is gone (`report`), where its own `syslog` waits if
the thread it interrupted is in `library`. `wpc[w]` is a worker. The main thread's
critical sections are two steps each, because a signal may arrive between lock
and unlock; a worker's are one, because signals are blocked in workers and
nothing in the section blocks. A lock is a guard `mutex = Free`. The broadcast
is the function `Woken`, which sends every waiter back to the lock, and
`SpuriousWake` adds what POSIX allows. `url_count` and `occupied` are separate
variables, changed where the code changes them. Undefined behaviour is a
choice: `LeaveLoop` goes on or crashes after the freed loop, `JoinWorkers` may
crash on the id of a thread that was never created.

A line is a member of `Jobs`; `RefreshList` tells which lines are UPDATEs and
what they stand for. The handler's `QUIT`, which has no newline, is a piece of
its own, so that "read as data" and "prefix of the next line" (`Parsed`) can be
told apart from commands.

`LineReader`. Bytes carry the line they come from, so a property can say where
each byte of a queued line was written. One step per read, per join, per queue
operation, per kept rest.

`PageCache`. A page is a sequence of chunks that name their URL and version. A
worker's place says how its last line ended. `TextOf` is how much of a page
comes before its first NUL: the store takes the length with `strlen`, so a
record is cut there (`Value`). Both may be zero in any version of a page: a page
without text is stored as an empty value, which is a record and not the absence
of one (`Absent`). A record also names the version it was made from, so that an
empty one can be told to be old. `base`, `cleared` and `rival` are history for
the properties only. What the server answers is what counts as a
page, an error page included: cURL reports success for it.

`Lifecycle`. Pid files and pipes are numbered as they are made, so that a name,
a descriptor and a lock can stand for different ones. Locks are those of
`fcntl`, on the file and released when the process ends.

`ActionTable`. `table` is the array with the slot past its end, which is the
array's own when malloc has rounded the size up (`Slack`) and otherwise changes
under the program (`ReusePast`). A slot holds an action, `Null`, or `Junk` for
what was there before. Using memory that is foreign or was never initialised
leads to the phase "undefined", a text that does not fit its buffer to "overrun",
where the model stops. Such texts are values of their own: a file refused with a
message that is too long (`Misquoted`), variables that do not fit when they are
joined or reported ("overlong"), a URL that does not fit as it is or when it is
substituted (`Overlong`). `ListFiles`,
`CreateTable`, `LoadAction` are the calls of `main`, `Update` is `find_action`
with the loop of the worker's UPDATE branch. `LongNames` are the names that
`read_string` accepts and the message of `load_action` cannot hold
(action.c:87). Left out is one read past an array: the `memmove` of
`substitute_variables` (config_utils.c:253) moves `str_length` bytes from the
middle of an array of that size. What it brings along stays behind the NUL of
the value, so nothing depends on it.

`Substitution`. Strings are sequences over a small alphabet, because overlaps
of names, values and what stands around them are the question. Templates and
variables have any length: `Copy` is the `sprintf` of each variable and the
`strcpy` of the template, neither of which tests it, and leads to "overcopied"
if one does not fit. Of a value's further words only the length counts
(`others`). `Replace` is one
call of `replace_string` that finds the name, `NextVariable` one that does not;
`AfterReplacement` and `AfterRefusal` are what the do-while of
`substitute_variables` goes on with. `Expansion` is the reference the loops are
compared with: the template read once, with a text put in place of each name.

`ConfigLists`. `Kept` is the loop of `read_memcached_servers` and of
`read_url_list`: an entry goes where the number of complete entries so far says.

`Commands`. `job` and `command` are functions on `0 .. BufferSize - 1` and
start with any member of `Junk`, as they do on the worker's stack: `Trim`,
`Word` and `Argument` move and cut bytes the way `strim`, `memmove` and
`strncpy` do, past the string where the code goes past it. `ParseLine` is the
whole of `get_command`; `Fetch`, `Cache`, `StartUpdate` to `EndUpdate` and
`Undefined` are the cases of the switch. The lines an UPDATE writes come back
through `pipe`, in order and mixed with clients' lines, and `write_fifo` may
fail. What a message quotes counts with its length only. A write past the end
of a buffer leads to "undefined".

`Settings`. A configuration is a record of the values as they stand in the
file. `ReadSettings` is the first part of `main` with the readers it calls,
`Clamped` the comparison with the pointer. A
server that is longer than a line when name and port are printed (`Overlong`),
or too long for the message that its connection has failed (`LongServers`),
leads to "undefined" where it is printed (`ReadSettings`, `FailConnect`). Each
worker walks the server list on its own; `field` is `memcached.servers`, which is junk until the first
connection, and `Destroy` is what `memcached_free` makes of it.
`delay` is what `rand () % (base + 1)` gives in C.

## 3. Runs

| Run | Checks | Result |
|---|---|---|
| `dispatcher_safety` | `TypeOK`, `TokenBalance`, `NoStaleJob`, `NoLostWakeup`, `StopTokens`, `RingConsistent`, `SharedStateLive`, `ImplementsFifo` | pass |
| `dispatcher_live` | `TerminationOrStuck`, `JobsDrain` | pass |
| `dispatcher_self_deadlock` | `NoSelfDeadlock` | violated |
| `line_reader` | `TypeOK`, `Lossless`, `NoMixedLines`, `DamageBounded`, `InOrder`, `OverrunByNulOnly` | pass |
| `page_cache` | `TypeOK`, `WholePages`, `NothingOldSurvives`, `StoresWhatWasAskedFor` | pass |
| `lifecycle` | `TypeOK`, `NameIsServed`, `NoStalePipe`, `StopsOwnPipe` | pass |
| `lifecycle_one_copy` | `OnlyOneCopy` | violated |
| `action_table` | `TypeOK`, `OnlyKnownMisuse`, `UpdatesAsConfigured` | pass |
| `substitution` | `TypeOK`, `ExpandsTemplate`, `Terminates` | pass |
| `substitution_overflow` | `AvoidsOverflow` | violated |
| `commands` | `TypeOK`, `Understood`, `RefreshReachesCache`, `NamesLastWord`, `OverrunsAtKnownLengths` | pass |
| `settings` | `TypeOK`, `UsesConfiguredServers`, `FreedOnce`, `DelayBounded`, `OnlyBadSettings` | pass |

What they show:

* Inside the daemon the queue is a FIFO list (on its own too: that is proved,
  see section 4).
* As long as no stop is asked for there is exactly one token per queued line;
  no worker interprets a buffer it was not just given, sleeps on a token or is
  left without a stop order; the queue and the mutex outlive their users.
* A signal ends the daemon, **except** in five ways that `TerminationOrStuck`
  names and TLC reaches: the handler locks the mutex its own thread holds
  (`SelfDeadlock`), the handler's write blocks on a full pipe (`QuitBlocked`),
  a second signal during the clean-up makes the handler log that the pipe's name
  is gone while the thread it interrupted is inside the C library
  (`ReportBlocked`: queral.c:621 against 302-309),
  a worker writes an UPDATE's pages to a full pipe nobody reads any more while
  `main` joins it (`WriterStranded`), and the loop is not told (`StopUnheard`:
  a signal before `ev_io_start`, or a `QUIT` read as data because the stop came
  between `return should_run` and `read`). There is no sixth in this model, which
  leaves the messages of the SIGHUP branch out.
* Lines that fit come out as written. After a full queue or a refused line at
  most one damaged line per occasion is queued, the end of one line, never
  parts of two. What is queued keeps the order of the lines, and no line comes
  twice. The test before `strncat` counts the newline and not the NUL, so a
  line or a piece that fills `cache_buffer` to the last byte overruns it by that
  NUL; nothing else overruns it. A longer line loses its beginning without a
  message.
* A record is a page as the server had it, whole up to its first NUL. An empty
  value is there only where the server had a page without text: the code stores
  it like any other, over a good record too. A CACHE line treated alone leaves
  nothing older than itself if memcached confirmed the deletion or the store.
  With two workers on one page the older download may win, and with memcached
  unreachable the old record stays: the code ignores both results.
* The serving process owns its name, if starts and stop scripts do not overlap,
  and no pipe of a killed daemon is in the way of the next one's `mkfifo`.
  If starts and stop scripts overlap, `rm -f $PIDFILE` lets a second daemon in. The parent of a start
  exits with success at the `fork`, before the child has its lock or its pipe,
  so the status the script reports says nothing of either.
* An UPDATE writes the complete pages of the first file of its name, in the
  order `readdir` gave, and nothing if any file listed before it was refused.
  An array is left, or a pointer followed that nobody stored, in three situations
  only, the `memmove` above apart: as many files as the list holds, a last file
  that is loaded into an array without a spare slot, and a cache with more pages
  than `URL_MAX_COUNT`. A buffer is overrun only by a path that is too long or by
  a text of a file: its version, an accepted name in the message that announces
  the cache, a variable that is listed, a URL of a list that is read. None of
  these lengths is tested.
* If no name begins with another or holds a `$`, no value holds a `$` or is
  empty, the URL has room on the way and each variable has room for name and
  value together, substitution gives what the template says, and nothing is
  refused or written past a buffer, neither while template and variables are
  copied nor after. It ends unless a value brings its own name back, as the empty
  value does. Without that room the template itself may overrun its copy (no
  length is tested at config_utils.c:288, nor at 228), and the length test of
  `replace_string` leaves the text before the name out, so a URL that is too long
  may be written past the buffer. The last is a finding, as a comment promises
  the contrary.
* The parser finds what the line says, whatever earlier lines left in the
  arrays, and a page of a refresh list comes back as the CACHE line of that
  page. The message about an undefined operation may name the word of an
  earlier line, because a line without a blank leaves `command` alone.
* Buffers of a worker are overrun at known lengths and at no others. With the
  sizes of the code: a page of 248 characters passes the test of UPDATE and its
  NUL goes past `new_command`; a key of 250 passes both tests of `create_key`
  and its NUL goes past `key`; and log messages have 256 bytes for whatever
  they quote. A key that is refused is always too long for the message about
  the refusal, and the one about a failed deletion leaves room for 205
  characters of key, a URL of 198 with the default prefix.
* A worker that serves is connected to the complete servers of the file in
  their order; its clients are destroyed once, whether it fails or stops, and
  every string of the list is freed. The delay stays within what was
  configured and within the maximum if it is not negative. The settings of this
  module lead to undefined behaviour in five ways only: no worker (a count of
  zero or less passes the clamp), a contention of -1 (a division by zero), a
  server whose name and port are longer than a line (config_utils.c:122), one too
  long for the message about a failed connection (queral.c:421), and a list of
  servers none of which is complete (a worker frees a pointer nobody has set).

### Bounds

* `Dispatcher_safety`: 2 workers, queue of 2, pipe of 2, reads of up to 2, 2
  client lines (one may be an UPDATE that writes two more), 2 signals. The
  queue and the pipe fill, a worker is woken for another's token, a signal
  comes in every place and a second one after the first.
* `Dispatcher_live`: the same with a queue of 1, which keeps the liveness check
  small and makes the full queue common. The second signal is what reaches
  `ReportBlocked`.
* `LineReader`: buffers of 5 bytes, lines of 0 to 5 characters, 4 lines, a pipe
  of 9 bytes: every cut of two lines into reads occurs, with lines that fit
  exactly, by one and not at all. The proportions of the sizes, not the sizes,
  matter: line shorter than, equal to and longer than one read.
* `PageCache`: 2 workers, 4 URLs (a page that is empty after its change, one with
  a NUL in it that starts with one after its change, one that is too large at
  first, one whose key is refused), 2 versions, 3 lines: two workers on one page
  and one line after. The workers are symmetric: nothing tells them apart.
* `Lifecycle`: 2 processes, 4 starts: a process starts, ends and starts again
  while the other does so too.
* `ActionTable`: lists of 0 to 4 files of 9 kinds (refused with and without a
  message that fits; two of one name, one with an incomplete entry; too many
  pages; variables that are no list or do not fit; a URL that does not fit; a long
  name), 4 files being as many as the list holds, 2 pages as many as a cache may
  have. `Slack` is {1, 2, 4}, the sizes up to 4 for which glibc on 64 bits has a
  slot over.
* `Substitution`: all templates of up to 4 characters over `$`, `a`, `b` and six
  of 5 to 7, up to 2 variables of 4 names (one the beginning of another, one with
  a `$` in it) and 7 values, two more values of several words, buffers of 7
  bytes: a template, a variable and a result may fit, fit exactly and not fit.
* `Commands`: buffers of 7 bytes and operations of one character, 2 clients'
  lines: the second meets what the first has left. All strings of up to 3
  characters over two operations, another character, blank and tab, and longer
  ones that fill each buffer; three refresh lists with pages that fit, fill and
  exceed a line, are blank, or are stored under a name that is an operation's.
  The lengths of the messages keep the proportions of the code. A page of a
  refresh list has no newline.
* `Settings`: up to 3 workers and 3 servers with incomplete ones in every
  place, seven lists with names too long for a line or a message; every number
  below, at and above each limit, `rand ()` up to 12, more
  than twice any divisor.

`CHECK_DEADLOCK FALSE` stands where the system really stops: the daemon ends,
hangs in one of the states above, has used up its bound of lines or starts, or
went on to undefined behaviour, where the model stops.

### Fairness

`FairSpec` assumes weak fairness of the main thread, of the handler and of each
worker: the kernel runs every runnable thread, and a thread that waits for a
mutex which stays free gets it. pthread mutexes are not fair, and none of it is
assumed: a worker may lose the mutex to others any number of times. Clients,
signals, spurious wake-ups and room in the pipe are owed by nobody. `RunJob`
and `InitWorker` are finite because cURL has timeouts (curl_client.c:69-72).
`FairSpec` of `Substitution` assumes that its only thread goes on: nothing in
it waits.

### Mutants

Each module has a section of mutants: the operator of the model with a
plausible slip of the code (a broadcast forgotten, `<=` for `<`, an index not
wrapping, a buffer not cleared). For each property of a passing run
PROJECT.json names one under which it is violated.

## 4. Proofs

The first part of `DispatcherProofs` is about `FifoQueue`, for every capacity,
set of lines and set of callers:

* `FifoInvariant`: type correctness and `RingConsistent` together are
  inductive. Each needs the other: the index arithmetic needs the ranges, and
  a dequeue keeps the callers' buffers in range only because the slots between
  the indices hold lines.
* `FifoImplementsList`: `Contents`, the slots from `end` on, is the refinement
  mapping. `EnqueueAppends` and `DequeueTakesHead` are the two lemmas; below
  them is `RingMod`, which turns `%` into a subtraction.

The second part is about the threads, for every finite set of workers, capacity,
set of lines, batch, and any number of commands and signals:

* `ControlInv` gives the ranges of the control variables.
* `StepUsesQueue`: every step of the daemon is a step of the queue or leaves it
  alone; hence `DispatcherUsesQueue` and, with the queue's theorems,
  `DispatcherImplementsList`.
* `TokenInv` is the strengthening behind `CountersAgree`, `JobsAreFresh`,
  `NoWakeupIsLost`, `EveryoneIsStopped` and the bound on `url_count` in
  `TypeCorrect`. The properties are not inductive alone: that a token of a
  running daemon means a queued line needs that stop orders exist only once
  `should_run` is cleared, that stop orders suffice needs the number of living
  workers, and both need where the main thread is.
* `LifeInv` is behind `SharedStateOutlivesWorkers`: before `fifo_init` there
  are no tokens, so no worker passes its wait; after the joins all have ended.

`LineReaderProofs`, for every buffer size, length of lines and pipe:

* `ReaderInvariant`: what is not queued yet, `cache_buffer \o read_buffer \o
  pipe`, is one stretch of the bytes written (`StreamInv`): its bytes follow
  each other, and behind a newline comes a later line. Giving up or replacing
  the cache cuts the stretch at its front, a writer adds to its end.
  `BuffersInv` bounds the lengths, and `QueuedInv` says that each queued piece
  is the end of a line that comes before the whole stretch. Neither property is
  inductive without the stretch: what the next piece will be is in three places.
* From it follow `ReaderTypes`, `LinesStayApart`, `LinesStayInOrder` and
  `OnlyNulOverruns`.
* `FitInvariant` is for lines that fit. There a line begins behind every newline
  (`NewlinesEnd`), and a piece kept in the cache finds its newline in the next
  full read (`PieceGetsItsEnd`). `DamagePaid` counts: the damaged lines in the
  queue, and one more when the stretch does not begin at the start of a line,
  are at most the drops. `NothingLost` says that without a
  drop the stretch is exactly what follows the queued lines. From it follow
  `OneDamagedPerDrop` and `NothingIsLost`.

`PageCacheProofs`, for every set of workers and pages and any sizes:

* `CacheInvariant` has `BufferInv` (a worker's buffer holds the beginning of one
  version of its page, no older than its line) for `RecordsAreWhole`, and
  `FreshInv` for `OldPagesGo`: a worker that was alone with its page since it
  took the line finds nothing older than its line under the key once it has
  cleared or stored it. `CacheTypes` is its first part. Nothing is assumed of the
  pages but that the text is no longer than the page.
* `StoresNothingOlder` is the action property, from the same invariant.

`LifecycleProofs`, for every set of processes and number of starts, assuming
that starts and stop scripts do not overlap (`ScriptsOverlap = FALSE`; the run
`lifecycle_one_copy` shows that without it the statements fail):

* `LifeInvariant` has `LockInv` (the pid file a process has locked is the one
  the name stands for, hence one process at most holds a lock) and `PathInv`
  (what the pipe's name stands for at each place of that process).
* `NameStaysServed`, `OnlyOwnPipeIsRemoved`, `NoPipeIsLeft`, `OneCopyServes`.
* `LifeTypesHold` needs no such assumption. That the numbers of pid files and
  pipes stay within the number of starts is a count: a process that may still
  make one has not made it in this start, so what was made and the processes
  that may make one are together no more than the starts (`CountInv`).

`ActionTableProofs`, for every list of files and every rounding of `malloc`:

* `TableInvariant` has `Phases` (what each call of `main` finds) and `Filled`,
  which describes the table while it is loaded and after: the files before the
  first refused one have their caches in place (`CachesInPlace`), the slot of the
  first refused one is NULL (`EndsAtRefused`), while none was refused the slot
  behind the last cache is NULL (`NextIsClear`), and what stands past the end is
  no cache (`NothingPastEnd`). That is why a walk meets a NULL before anything
  uninitialised, although `malloc` clears nothing.
* From it follow `TableTypes`, `OnlyKnownMisuseHappens` (overruns included, whose
  cause is in the list of files) and, with the lemmas
  about the least file of a name, `UpdatesFollowTheFiles`. `CompletePages` is
  about the loop of the reader: it keeps complete entries only and no more of
  them than there are, because the positions it counts are an injection.

`CommandsProofs`, for every content of the arrays, every set of lines and lists
and all sizes:

* The first half is about strings in memory. `Holds(m, s)` says that the array
  `m` holds the string `s` and the NUL behind it; lemmas say what `Start`, `Cut`
  and `Trim` make of it for a string of blanks and for one with an inked
  stretch, and `PrefixedMeans` that a page after `CACHE` and a blank is read back
  as the CACHE line of that page. What `memmove` reads behind the string stays
  behind its NUL.
* `CommandsInvariant` says that `job` holds the line, then its argument, that
  `command` holds the first word of the last line with a blank (`BuffersInv`),
  that a line that comes back is the one its page stands for (`LinesInv`), and
  that an UPDATE under way has met no page of the one length that overruns
  (`RefreshInv`), without which `OverrunsAtKnownLengths` is not inductive.
* From it follow `CommandsTypes`, `LinesAreUnderstood`, `RefreshesArrive`,
  `LastWordIsNamed` and `OverrunsAreKnown`.

`SettingsProofs`, for every set of configurations and every value of `rand ()`:

* `DelayStaysBounded`, from `DelayInvariant`, which ties the contention in use
  to the file.
* `SettingsInvariant` has `MainInv` (once read, the settings are a function of
  the file) and `WorkersInv`: a worker that has looked at n elements of the list
  is connected to the first n complete servers, its field is set if there was
  one, and its clients are destroyed when it has ended and not before. From it
  follow `SettingsTypes`, `ConnectsToConfiguredServers`, `EverythingFreedOnce` and
  `OnlyBadSettingsUndefined`.
* `CompleteList` is what `CompletePages` is in `ActionTableProofs`, for the list
  of servers.

`SubstitutionProofs`, for every alphabet, every set of templates and of variables
whatever their length, any number of variables and every size of the buffers:

* `Expansion` is a recursive function over the positions of a string.
  `ExpansionReads` unfolds it: that the equation of its LET has a solution is
  shown for the last positions first, and the induction takes the form of a
  least counterexample (`LeastNatural`), since the induction rules of the library
  have an operator as a parameter.
* `PlainStretch` and `ExpansionOfSpliced` say what the expansion of a string is
  when a stretch without a `$` stands in it: the value that has been put in place
  of a name is read character by character, and what stands before and behind it
  is read as it was (`AlikeBefore`, `SameBehind`). So a replacement changes the
  string and not its expansion (`SameExpansion`).
* `NoMoreRoom` is about the length: put the longer of name and value in place of
  every name (`Longer`); a replacement never makes that longer, and the string
  itself is never longer than that (`RoomForString`). So every result fits and
  none is refused.
* `SubstitutionInvariant` puts these together under `WellFormed` and
  `RoomToGrow`: nothing has been overrun and, once the template is copied, every `$` left begins a name that is
  still to come (`NamesLeft`), the expansion of the string is that of the
  template, and its longest expansion is no longer than the template's. At the
  end no name is to come, hence no `$` is left, and a string without one is its
  own expansion: `ExpandsAsRead`. None of the parts is inductive alone. That the
  copies fit follows from the same room (`CopyInv`): a template is no longer than
  its longest expansion. `SubstitutionTypes` needs no such assumption, and says
  that the string fits its buffer until something has been overrun.
* That no name may hold a `$` was found by the proof and confirmed by TLC: with
  names `b` and `a$b`, in this order, the template `$a$b` has its `$b` replaced
  first, and the longer name is found no more. `WellFormed` says so since, and the run has such
  a name.

Assumptions are the ASSUMEs of the modules: positive sizes and capacities, a
value that is no line, one that is no record, finitely many workers, at least one
page, and types;
`ScriptsOverlap = FALSE` in the theorems of `LifecycleProofs` named above. Three
say more. `PointerAssumption` of `ActionTable`: a pointer to a cache is neither
NULL nor what an uninitialised slot holds. `WordsAssumption` of `Commands`: the
three operations are different words, not empty and without a blank, and shorter
than a line (queral.h:45-60). `RefusalAssumption`: the message about a refused
key is too long for the log buffer of 256 bytes. It has 51 characters of its own
and quotes a URL that has 251 or more together with the prefix; to fit, the
prefix would have to be longer than 46, and it has 13 at most. All are evaluated
by the runs.

Only model-checked: the liveness properties, which need fairness and ENABLED, and
the counterexamples of the three runs that end in a violation. Every safety
property of a passing run is a theorem.

## 5. Not modelled

* What logger.c does with a message once it is formatted: output only. Messages
  with file names or the text of a library's error are left out; of the others
  it is modelled whether they fit.
* libconfig, libev, libcurl, libmemcached: external; each is the set of results
  the code distinguishes.
* Memory exhaustion (`malloc` results are mostly unchecked in the code).
* The SIGHUP branch of the handler: it logs and changes no state. That its
  message may meet one of the main thread inside `syslog`, and wait for ever, is
  left out.
* The `memmove` that reads past its array (config_utils.c:253).
* Functions nobody calls: `memcached_connect`, `memcached_count_servers`,
  `memcached_display_servers`, `read_int`.
* The order of the memory past an array is not modelled beyond one slot of the
  action table: a write or a walk past its end is "undefined" from there on.

## 6. Plan

The order is that of importance; what stands above came first.

1. Done: the queue and the threads (`BoundedFifo`, `FifoQueue`, `Dispatcher`),
   then the parts around them (`LineReader`, `PageCache`, `Lifecycle`,
   `ActionTable`, `Substitution`, `Commands`, `Settings`), and the proofs of
   section 4.
2. Done: every safety property of a passing run is a theorem.
3. Composition: `LineReader` in place of the line step of `Dispatcher`, with
   the handler's `QUIT` as bytes in front of a line; the table of
   `ActionTable` in place of `RefreshList`, shown to implement `Dispatcher`.

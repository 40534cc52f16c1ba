# A TLA+ verification of libae

libae is a C library of small building blocks for Linux programs: an event
multiplexer on epoll, a stream server on top of it, a thread pool on a POSIX
message queue, a memory pool that grows in place, a pointer array in it, and
helpers (results, logging, options, I/O, event and timer descriptors). This
directory models every part that has state, concurrency or arithmetic worth
checking, model-checks it with TLC and proves the most important results with
TLAPS. Everything is translated from the sources in `src/libae`, read together
with `src/include/ae` and `src/test`.

## Inventory

| Component | State | Operations | What is hard | What makes it correct |
|---|---|---|---|---|
| Event multiplexer, `mux.c` | a counter and an epoll instance | init, uninit, add, mod, rm, wait | callbacks change registrations while a batch is dispatched; the counter is kept beside the kernel's list | the counter covers the list; no callback for what was removed; every event is handled |
| Timing of a wait, `mux.c` | the timeout, the clock | the loop of `ae_mux_wait` | signals, re-entering with the rest of the timeout, the path with nothing registered | timeouts neither early nor late; events end the wait |
| Stream server, `server.c` | the listening socket; per client a descriptor, an event object and a context | init, cfg, bind, listen, uninit; the callbacks | peers act at any moment; descriptors are reused within a batch; hangup and error together; failing and repeated starts | each client owns one descriptor and one context, is removed exactly once, and is removed in the end; a server that listens is heard |
| Thread pool, `threadpool.c` | the message queue, the thread ids | init, enque, start, join, uninit; the worker loop | a full queue, interrupted calls, stops that overtake jobs, jobs that enqueue jobs; the name of the queue | jobs begin in order and once; join ends every thread; the queue is the pool's own |
| Memory pool, `pool.c` | start, next, end, length | init, alloc, calloc, strdup, realloc, reset, uninit | alignment against page rounding, growth in place, wrap-around | blocks aligned, mapped and disjoint |
| Pointer array, `ptrarray.c` | a block of a pool, length, capacity | init, append, grow, remove, shrink, dup | growing depends on the pool's last block | an array is a list of items that no other user of the pool disturbs |
| Result, `res.c`, `str.c` | three message buffers and 8-bit counters | add, clear, init | buffer exactly full, 256 messages | messages are kept in order; a result with an error reads as one |
| Logger, `log.c`, `ae.c` | lock, buffer, handler, mask | log, log_res, global init | one buffer for all threads; the handler runs under the lock | reports arrive whole and once; the lock is released |
| I/O helpers, `io.c` | none | read, write, read_all, write_all | partial transfers, end of file, signals | whole messages or an error; termination |
| Event, timer, `event.c`, `timer.c` | a kernel counter | init, read, write, set, stop, uninit | blocking reads on stale readiness | the loop never blocks; wake-ups are not lost |
| Option parser, `opt.c` | position in argv | init, process, help | which entries an option consumes | what is stored is what the line says; no entry is lost |
| Helpers, `misc.c`, `time.c`, `types.h` | none | hex dump, time conversions | nothing | |

How they interact: the server registers objects with the multiplexer and is
called back from `ae_mux_wait`; the multiplexer is meant to hand events to the
thread pool (that call is commented out); the thread pool takes its id array, and
the pointer array its storage, from a memory pool; all report through results,
which the logger prints. Event and timer descriptors are registered with the
multiplexer by applications. `PROJECT.json` lists under "hazards" every place
where this is hard to test, with the property that covers it.

## Modules

| Module | Models |
|---|---|
| `Mux` | the multiplexer as a component: registration, the batch, dispatch, the barrier |
| `MuxApp` | `Mux` in an arbitrary application; with `Disciplined` the application registers a descriptor once and removes it before closing it |
| `MuxWait` | one call of `ae_mux_wait` in time |
| `Server` | `server.c` after listen, on top of `Mux`, with the peers and the kernel's sockets |
| `ServerSetup` | `Server` with the calls that set it up and tear it down |
| `JobQueue` | what a thread pool promises, abstractly |
| `Threadpool` | `threadpool.c` with the message queue; implements `JobQueue` |
| `QueueName` | how several pools get their queues through one name |
| `Pool` | `pool.c`, addresses as numbers |
| `ItemList` | what a pointer array promises, abstractly |
| `PtrArray` | `ptrarray.c` on the memory of `Pool`; implements `ItemList`, and its use of the pool implements `Pool` |
| `LogRes` | `res.c`, `str.c`, `log.c` and `ae_global_init`: results and the logger that reports them |
| `Io` | `io.c` on a pipe |
| `EventLoop` | `event.c`, `timer.c` and `Io` in a loop on `Mux`, with a second thread |
| `Opt` | `opt.c`: the walk over a command line, and the columns of the help |
| `MuxProofs`, `MuxWaitProofs`, `ServerProofs`, `LogResProofs`, `OptProofs` | the theorems about these modules (`ServerProofs` is about `ServerSetup`) |
| `ThreadpoolProofs` | the theorems about `Threadpool` and `QueueName` |
| `MemoryProofs` | the theorems about `Pool` and `PtrArray` |
| `EventLoopProofs` | the theorems about `EventLoop` and `Io` |
| `MC...` | values of constants for TLC |

An operator whose comment calls it a mutant is a version of the code with a
plausible bug. No specification uses it; substituted for the operator it names, it
must break the property listed beside it in `PROJECT.json`.

### State and code

*Mux.* `reg` is the kernel's interest list (descriptor to the `ae_mux_event_t`
in `event.data.ptr`), `count` is `self->count`, `batch` the part of `events[]`
that has not been dispatched, `cur` the event `ae_mux_singlethread_handler` has,
`todo` its tests that are still to be made. epoll reports events in no promised
order, so `DispatchEvent` picks any. A callback is a state (`pc = "callback"`) in
which the application may do what it likes. `close(2)` of a registered descriptor
takes it out of `reg` without the multiplexer knowing. With a thread pool the
loop body is empty, so the model goes from the wait to the barrier.

*MuxWait.* Time is measured in clock ticks since the call, `arg` is the changed
parameter `timeout_ms`. `usleep` takes the product modulo `Width`.

*Server.* One action per callback, as nothing else runs on the loop's thread; the
peers act between any two of them. A socket is a set of flags (bytes to read, peer
gone, bytes unread by the peer, reset); readiness follows from them. `pair` is the
context that `ae_server_client_rm` frees; reading it after that is undefined
behaviour, in which the model stops the thread. `ClientRm` stands for the hangup
and the error callback, which do the same. `len` of `accept4` is uninitialised:
one possible outcome, a failing call that drops the connection, is part of
`AcceptDrops`.

*ServerSetup.* `serverFd` is `self->server_event.fd`, which `ae_server_uninit`
does not reset, `socket` what the kernel has behind it. A failing `bind` leaves
the socket open; a failing `ae_mux_add` leaves it listening. `ae_server_uninit`
does not call `ae_mux_rm`, so `count` keeps the place. The application calls
`ae_server_init` only after `ae_server_uninit`.

*Threadpool.* The two priorities make the queue a sequence of jobs and a number
of stops. The loops of start and join are one action per iteration with the loop
counter `i`. Failing `mq_send`, `mq_receive` and `pthread_create` are actions.
`Child` lets a job enqueue another one from the worker that runs it. The owner may
enqueue before, after and during a start that fails in the middle, and call
`ae_threadpool_uninit` while threads are still there (`abandoned`): what they then send or
receive fails (`CallFails`), as long as no other file gets the number of the closed
queue, which the model leaves out. When only `mq_unlink` fails, `ae_threadpool_init`
reports an error although the queue is open; a caller who goes on has the same pool, so
this needs no action of its own. `threadpool.c` defines `ae_threadpool_enque` where
`threadpool.h` declares `ae_threadpool_enqueue`; the model is of the definition.
*JobQueue* knows of the owner only whether the pool is off, on or abandoned.

*QueueName.* `mq_open` and `mq_unlink` of `ae_threadpool_init` are two actions,
between which other pools take theirs or the process dies. A queue lives as long
as a descriptor or the name refers to it.

*Pool.* `At` is the aligned next address, `Fits` the test with pointer
arithmetic modulo `Top`, `NewLen` the length asked of `mremap`, which either
grows the mapping in place or fails. Blocks are remembered, their bytes are not.

*PtrArray.* `mem` holds what each address of the pool contains, `array` the
fields of each object. Every allocation is an action of `Pool`; what a
reallocation copies is written by `Fill`, and memory nobody has written since it
was cut is `Junk`. `made` are the arrays the application may use. `ptrarray.c`
defines `ps_ptrarray_grow` where `ptrarray.h` declares `ae_ptrarray_grow`; the
model is of the definition.

*LogRes.* A message is its number and length; a buffer is a head, a counter and
the messages that are complete in front of the head; `Cut` is what a log message
keeps of it. A message that has no room
is cut by `ae_str_printv` and not counted in the head, so the next is written
over it. With one byte left the newline takes it and the terminator is written
one byte behind the buffer, into the counter of the next type (`RunsOver`). In
`ae_logv` each access to what threads share is a step: the lock, the formatting,
the test of the handler, the call with the context, the unlock. `ae_global_init`
writes handler and context in two steps without the lock (`InstallHandler`, `InstallCtx`);
without a handler it takes away the one there is (`RemoveHandler`).

*Io.* One action per `read(2)` or `write(2)`, of any number of bytes the kernel
likes; `eof` is the flag of the caller. *EventLoop.* `value` is the counter of
an eventfd, `timer` what a timerfd is set to and whether it has expired; a callback
goes from `which = {kind}` to `{"done"}` when its read has returned. A second
thread writes events and messages. `ae_timer_every` and `ae_timer_single_shot`
are `TimerSet` with the arguments the code computes.

*Opt.* An entry of argv is an option with a name and the part after `=`, a word,
or `--`. One action per round of the loop over argv and per matching entry of
the table; `Consumes` is the increment in `ae_opt_option_process`, which the
code makes also for a parameter after `=`. `ae_opt_init` does not set `optind`,
so its first value is arbitrary. A name that occurs twice in the table matches
twice. A number out of range is stored before it is refused; a counter with a
parameter that is no number reports an error and returns true. A string without an
out pointer is written through NULL: the program has crashed (`pc = "crashed"`), where the
other types report a programmer error. What a line means (`ParamAt`, `IsParam`, `Refused`, `Meant`)
is taken from `ae/opt.h` and not from the code's look-up: an option with
`AE_OPT_PARAM_NONE` has no parameter, and one with `AE_OPT_PARAM_REQUIRED` that has none is refused.
`Deviates` names the entries at which the code does otherwise.

## Runs

| Run | Shows | Bounds |
|---|---|---|
| `MuxArbitrary` | types; the counter is never below the number of registrations | 2 descriptors, 3 objects (two share a descriptor, one has no callbacks), counter up to 4, with and without thread pool |
| `MuxWaitTiming` | no early timeout, timed waits return, events end waits, also after signals; the sleep with nothing registered lasts | timeouts -1 to 3 ticks, 2 signals, timers one tick late, 16 ticks |
| `ServerSetup` | descriptors, contexts and pending events belong together through reuse and restarts; `accept4` never blocks; a server whose listen returned true is heard | 2 client descriptors, 3 connections (symmetric), 4 calls of init and listen, registration may fail, the server answers |
| `ServerLiveness` | each client removed in the end; the backlog drains | the same without setup, symmetry and failing registration; up to the first use of a freed context |
| `Threadpool` | refinement of `JobQueue`; join has a stop for each live thread; until something is interrupted, only a jam keeps join from returning and queued jobs from beginning | 2 threads, 7 jobs, two of which are enqueued by two of the others, a queue of 3, 1 failing call, 2 starts |
| `QueueName` | pools that share a queue leave a third one behind; a name has a reason | 4 pools, one name, any pool may die |
| `PtrArray` | blocks of the pool aligned, mapped and disjoint; arrays own their slots; refinement of `ItemList` and of `Pool` | 2 arrays, 2 items, capacities to 3, pages of 4 pointers, 3 blocks between two resets; the mapping grows to 8; sizes up to 5 |
| `Opt` | the first call stores, stops and returns as `ae/opt.h` says of the line; entries are skipped only behind a parameter after `=`; help columns; a call ends | 4 tables with every type of option, every line of up to 3 of 15 entries, 2 calls |
| `LogRes` | messages kept in order; no type with messages reads as empty; reports whole, once and in order; the lock is released | a reporter and another logging thread, a buffer of 6 and a log buffer of 4, messages of 2 and 6, a counter of 3, 3 messages between clears |
| `EventLoop` | the loop never blocks; the counter is exact; whole messages; events, timers and callbacks served | 1 event, 1 timer, 1 pipe of 3 bytes, messages of 2 bytes, an event counter of 2 |

Two descriptors are enough for a callback to disturb another event of its batch,
and two objects on one for EEXIST. Three connections on two descriptors give
reuse and exhaustion; four setups are two complete starts, or a start with two
failures. The page is twice the alignment so that padding, an exact end and a
growth by a page all occur; growth by several pages at once is left to the theorems.
There are as many jobs that enqueue as threads, and more others than places in the
queue: each full queue, of jobs, of stops or of both, is met by workers that receive, by
some that send and by all of them sending. One failing call is enough for a join that
fails and is repeated, for a worker that ends early, and for stops that are left over; the
theorems are about any number of them. Four
pools are one more than sharing needs. The buffer of six makes two messages fit,
three fill it to the last byte, and one exactly too long. Three entries are an
option, its parameter and what follows. `LogRes` and `EventLoop` check for
deadlock; `CHECK_DEADLOCK FALSE` stands where the program may really stop: the
barrier of the thread-pool path, a thread that has crashed, peers that are all
gone, pools that are all dead, a parser that has returned or exited.

Restrictions under which a property is stated, because beyond them the code does
otherwise: `ParsesAsMeant` is for tables without a repeated name in which every
variable has one type, an `optind` that the caller has set to 1, and lines on which the
walk reaches none of the entries of `Deviates`: an option with a parameter after `=` that
takes none or is not the last entry, one that requires a parameter and has none, one that takes
none and reads the word behind it, a string without an out pointer (`EntriesAccounted` is
for all lines and tables); `HelpColumns` excludes rows whose width the code does not count;
`CountedIfAdded` and `ReportArrives` except a counter that has wrapped and a
buffer that has run over, and `ReportArrives` is about texts that fit the log
buffer; `JoinReturns` and `QueuedJobBegins` end with the first
interrupted call or when the pool is `Jammed`: its queue full, and every thread there is
in `mq_send`, called by its job; `ServerSetup` and `ServerLiveness` are for callbacks that send
and do not call the server; `HangUpIsReaped` and `BacklogDrains` with the first client that
is removed twice, `EventsServed`, `TimersServed` and `CallbacksReturn` with a
read that failed in the middle of a message; `LoopNeverBlocks` is for callbacks
that touch only their own descriptor. Beyond the limits that the code sets, not the
application, there is a counterexample below.

Runs that end in a counterexample, one for a sentence of the documentation each:

| Run | Contradicts | Because |
|---|---|---|
| `MuxStaleBatch` | `mux.h`, "This removes a file descriptor" | two descriptors are ready, the callback of the first removes the second, whose event, copied out before, is still dispatched |
| `ServerReset` | `mux.h`, "the context pointer that was registered" | hangup and error in one event free the context twice |

Further counterexamples. These need only another INVARIANT or PROPERTY in the
configuration named:

| Property | In | Shows |
|---|---|---|
| `CountIsRegistered` | `MuxArbitrary` | modifying or closing a registered descriptor leaves the counter too large |
| `BatchFitsArray` | `MuxArbitrary`, `NEvents = 1` | `n_events` is ignored: with two ready descriptors the array of one event in `test/server.c` is overrun |
| `RewaitKeepsDeadline` | `MuxWaitTiming` | a signal at the deadline starts the wait again with the old timeout, against "Adjust the timeout accordingly" |
| `ForeverIsForever`, `NullFlagIsLegal` | `MuxWaitTiming` | the sleep with nothing registered treats -1 and a NULL flag wrongly |
| `CountIsRegistered` | `ServerSetup` | `ae_server_uninit` leaves the multiplexer counting a closed socket |
| `BindMayBeRetried` | `ServerSetup` | after a failed bind the next one is refused |
| `BacklogIsHeard` | `ServerSetup` | when `ae_mux_add` fails the socket listens and nobody accepts |
| `QueueIsPrivate` | `QueueName` | three pools of one name: two share a queue |
| `NameIsTemporary` | `QueueName` | a process that dies leaves the name, against "avoid having the queue around after the process exits" |
| `ReallocIsTotal` | `PtrArray` | an array at the end of its pool cannot grow |
| `NothingSkipped` | `Opt` | the entry after an option with `=` is skipped |
| `RequiredIsRequired` | `Opt` | an option with `AE_OPT_PARAM_REQUIRED` is accepted without a parameter |
| `NoneTakesNone` | `Opt` | a counter, a number or a string with `AE_OPT_PARAM_NONE` reads the word behind it, which is then also a trailing parameter |
| `NeverCrashes` | `Opt` | a string without an out pointer is written through NULL |
| `NeverJammed` | `Threadpool` | other jobs fill the queue while the jobs of all workers enqueue |
| `HandlerIsThere` | `LogInstall` | a handler taken away between the test and the call is called through NULL |
| `MaskMeansMessages`, `CountIsNumber` | `LogRes` | a cleared result keeps its mask; the counter wraps, and messages that were cut are in it or not |
| `SeverityOrdered` | `LogRes` | TRACE is LOG_WARNING to syslog |
| `SingleShotShoots` | `EventLoop` | a single shot with no time stops the timer |

These need other values, and have configurations of their own, for the module
named after `MC` and the prefix: `MuxPoolDrops` (`MCMuxApp`: no handler is called for an
event when there is a thread pool), `MuxWaitLong` (a long timeout with nothing
registered is cut), `ServerNoRm` (without `on_client_rm` a client that hung up is
reported for ever), `ThreadpoolJoinHangs` (`JoinAlwaysReturns`: jobs and stops fill the queue
while the jobs of all workers, or of the one that is left, enqueue: join never returns. How long
the queue is, `mq_maxmsg` being 10, does not matter, only that there are enough other jobs),
`PoolHuge` (wrap-around of a huge size), `PoolShrink` (the copy is longer than a smaller
new block), `LogInstall` (`MCLogRes`: a handler is called with the context of the one before),
`LogNested` (a handler that logs never gets the lock), `EventLoopMeddles` (a callback
that drains another's event or timer stops the loop), `IoFlagSet` and `IoNoFlag`
(`MCEventLoop`: a flag left set cuts messages short; without a flag the end of
the stream is read for ever).

## Fairness

`MuxWait`: time passes, and a thread whose wait is over runs; signals and events
need not come. `Server`: weak fairness of the loop, since `test/server.c` calls
`ae_mux_wait` forever and callbacks return; the peers have none. epoll reports
all ready descriptors in one batch because the counter covers them, so no
client is overlooked forever. `Threadpool`: weak fairness of the owner inside a
call and of each worker, which the scheduler gives; nobody has to enqueue, start
or join. Blocking calls are disabled actions. `LogRes`: weak fairness of each
thread inside a call; a mutex that is handed round for ever between other threads
is not excluded, and `LockIsReleased` does not need it to be. `EventLoop`: weak
fairness of the loop, of the second thread inside a call, and of each armed timer's
expiration; signals, new writes and what callbacks do beside reading have none.
`Opt`: the code inside a call goes on.

## Proofs

* `MuxProofs`: `MuxTypeCorrect`, `CountNeverTooSmall` and, for `Disciplined`,
  `DisciplinedCountIsExact`. The counter bounds alone are not inductive: removing
  needs a registered descriptor to be counted, so `CountInv` carries the types
  and the finiteness of the interest list, and `ExactInv` the equality. The facts about
  cardinality come from `FiniteSetTheorems`.
* `ThreadpoolProofs`: `PoolTypeCorrect`, `StopsSuffice` and
  `PoolImplementsJobQueue`, for any number of threads, jobs and places in the
  queue. `PoolInv` says which worker states each phase of the owner admits, that
  an idle worker has no job, that a closed queue is empty, that a job is in at most one place (queue, a worker,
  finished), and that a child appears only after its parent has enqueued it; the
  last two make `Submit` possible only for jobs that are new.
* `MemoryProofs`, the pool: `PoolTypesHold`, `BlocksArePlaced` and `BlocksAreDisjoint`, for any
  page size that is a multiple of the alignment, under `NoWrap` (no size is so large that
  addresses wrap). `PoolInv` adds that the mapping is a whole number of pages:
  rounding the old length plus the block up to pages makes room for the padding,
  because the old end is itself aligned.
* `MemoryProofs`, the arrays, under `NoWrap` too: `ArraysOwnTheirSlots`,
  `ArraysUseThePool` and `ArraysAreLists`. `ArrayInv` is `PoolInv`, the types and `SlotsOwned`
  together, for each needs the others: that a new block is where nobody's slots are
  follows from the pool's invariant, and that the pool is asked to reallocate a block
  it has given away, no longer than it is, from the arrays'. With that every step of
  `ArraysSpec` is a step of the pool or leaves it alone (`UsesPool`), and the theorems
  about the pool hold below arrays. For `KeepsLists` the contents of an array are
  followed through `mem`: an action writes only the slots it owns, and `Fill` copies
  the items that are in use. `AskedAssumption` only says that `Sizes` has every size
  that can be asked for, so that the pool's actions are defined for it.
* `ServerProofs`: `FdsAreOwned`, `BatchIsNeverStale`, `AcceptFindsAConnection` and
  `ReadyIsRegistered`, for any number of descriptors, connections and starts.
  `SetupInv` is the argument why closing and reusing descriptors in the middle of a
  batch does no harm: the interest list holds only descriptors that their object
  still owns, the events of a batch are for different objects, and what has been
  dispatched is not among them, so a callback that removes its own client disturbs
  no other event. That the listening socket always gets the lowest descriptor needs
  the least element of a set of naturals (`WellFoundedInduction`).
* `MuxWaitProofs`: `TimeoutsAreNotEarly`, `WaitTypeCorrect` and, when no timeout
  wraps in `usleep`, `SleepsAreNotShort`. `WaitInv` says that what has passed before
  this `epoll_wait` and the timeout it was given are together at least the caller's.
* `ThreadpoolProofs`, the name of the queue: `NameKeepsReason` and
  `SharingLeavesOneBehind`. `Owed` counts:
  each name that is made lets one `mq_unlink` succeed, so descriptors that are one
  too many for their queue, and the name itself, are owed to pools that are pending.
* `EventLoopProofs`: `MessagesArriveWhole`, for messages and pipes of any length, as
  long as no caller passes a flag that is set. `IoInv` describes the pipe without
  a modulus: a byte is followed by the rest of its message and by the first byte of
  the next, the last byte is the last one written, and the first is the one
  the reader is waiting for. `LoopReadsNeverBlock`, for any number of events, timers and
  handlers, under `~Meddles` (callbacks touch only their own descriptor).
  `LoopInv` says why: what was ready when the batch was copied out
  is drained only by its own callback, and that comes once (`FreshInv`), because the
  events of a batch are for different descriptors and the current one's is no longer
  in it (`BatchInv`). `LoopCountsRegistered` needs no such condition.
* `LogResProofs`: `MessagesStayInOrder`, `EmptyMeansNothingAdded`, `ReportsArriveWhole` and
  `LogTypesHold`, for buffers, messages and counters of any size and any number of threads and
  handlers. `BufferInv` relates the head, the counter and the text of a buffer to what
  has been added: neither head nor counter is beyond it, the text has all of it while it
  fits and some of it in order otherwise, and each message ends before the head. `LogInv` adds that
  whoever is between lock and unlock owns the lock, that the shared buffer then holds
  this thread's message (`LockInv`), and, for a reporter, that the types it has dealt with have
  been put out and the others not (`ReportInv`). `added`, which the code does not
  have, records with each message the length of all up to it, so that no sum
  over a sequence has to be reasoned about.
* `OptProofs`: `LineIsParsedAsMeant`, `NoEntryIsLost`, `HelpIsAligned`, `ParserTypeCorrect` and
  `WalkComesNearer`, for tables and command lines of every length.
  The first is for lines that reach no entry of `Deviates`, which is where what the code looks up
  as the parameter makes no difference (`SameParam`). Its `WalkInv` says of the position between two
  options, which is `optind` up to the end of the line (`Here`), that no entry before it
  halts, that it is not the parameter of the option before it, and that each variable has
  the value that the writers up to there give it (`Walked`, `Between`); when the call is over,
  that the entry it stopped at is the first that halts (`StoppedAt`), which is then `StopsAt`. That one
  more option changes a variable from what was meant to what is meant now is
  `OneMoreWriter`, type by type; for counters it needs that a sum over a set with one
  more element is larger by that element, whatever order `CHOOSE` takes. The sum is defined
  by recursion over finite sets, and the lemmas about it (`SumOfOneMore`) use induction
  with the set of what has the property in place of an operator (`AllNumbers`, `AllSubsets`,
  from `WFMin`). `NoEntryIsLost` needs that the current entry is used
  and, if its parameter is after `=`, that nothing behind it was, and that `optind` is ahead of it by no more
  than the number of rows tried that take the parameter (`CurrentInv`). `ParserTypeCorrect` bounds `optind`, which the code
  moves beyond argc without looking: while an entry is matched it is at most argc plus the
  place of the last match in the table. `WalkComesNearer` is what is left of `ProcessReturns` without
  fairness: each step of a call lowers a pair of numbers, the entries to take and the
  table to try.

Assumptions on constants are the named `ASSUME`s of the modules, which TLC evaluates
in the runs, and in the theorems named above `NoWrap` and `~Meddles`, whose negations are
the configurations `PoolHuge` and `EventLoopMeddles`. `OptAssumption` says of `Entries` and
`Tables` only what C gives: lengths are natural, an entry is one of three kinds, and a word is
not NULL. `optind` begins as a natural number: a negative one would index before argv.

Every invariant and every refinement that a passing run checks is stated by a
theorem. Only model-checked is liveness, which the prover cannot do:
`TimedWaitReturns`, `EventEndsWait`, `HangUpIsReaped`, `BacklogDrains`, `JoinReturns`,
`QueuedJobBegins`, `ProcessReturns`, `LockIsReleased`, `EventsServed`, `CallbacksReturn` and
`TimersServed`. The types of `ServerSetup`, `EventLoop`,
`Io`, `LogRes` and `Opt` (`SetupTypeOK`, `LoopTypeOK`, `IoTypeOK`, `TypeOK`) are in
none of the runs; they hold when they are put into the configuration of the same
name, and those of `LogRes` and `Opt` are proved.

## Not modelled

The text of messages, logs and the help, `ae_mux_multithread_handler` and
`ae_mux_threadpool_add` (never called), `ae_str_printf` and the helpers of `misc.c`
and `time.c` (no state), duplicated descriptors, several threads using one
multiplexer, result or memory pool (they have no lock and promise nothing),
`fork`, and the loss of a process between two calls other than in `QueueName`
(nothing else is kept outside the process).

## Plan

Every component with state is modelled, and every safety property of the runs is
proved. What is left:

1. The safety halves of the liveness properties, as `WalkComesNearer` is of
   `ProcessReturns`: a measure that the owner's and the workers' steps lower during a join, one for
   `ae_mux_wait`, one for a report.
2. The types of `ServerSetup`, `EventLoop` and `Io` as theorems of their own; most of them are
   conjuncts of `SetupInv`, `LoopInv` and `IoInv`.
3. What holds of the disciplined application of `MuxApp` beside its counter.

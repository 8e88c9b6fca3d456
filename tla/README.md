# A TLA+ model of xubinh_webserver

xubinh_webserver is a C++11 network library in the reactor style (one event
loop per thread, edge-triggered epoll, a main loop that accepts and worker loops
that serve) with an asynchronous logger and an HTTP server built on it. This
directory holds TLA+ modules translated from its source, TLC configurations
that check them on small instances, and TLAPS proofs of the main invariants.

    tlc -workers 2 -config EventLoop_loop.cfg MCEventLoop     # one run
    tlapm EventLoopProofs.tla                                  # the proofs

`PROJECT.json` lists the components, the runs, the lines of source behind every
definition, the hazards, the findings and the theorems.

## Inventory of the system

| Component (source) | State | Operations | Hard parts | What makes it correct |
|---|---|---|---|---|
| EventLoop (`src/event_loop.cc`) | functor queues, pilot lamps, eventfds, poller, `_need_stop` | `loop`, `run`, `ask_to_stop` | wake-up protocol between any number of threads, relaxed atomics, bounded queues, stop | no lost wake-up, each functor once and in order, stop ends the loop after what was posted before |
| Timers (`src/timer*.cc`, `src/timerfd.cc`, `src/event_loop.cc`) | ordered container, `_next_earliest_expiration_time`, one one-shot timerfd | add, cancel, expire | callbacks that change the container, alarm threshold, raw pointers as identifiers, catching up | the alarm covers the earliest timer, repetitions are exact, nothing deleted is used |
| EventPoller, PollableFileDescriptor | registered events, raw pointers in epoll, lifetime guard | register, detach, poll, dispatch | edge triggering, destruction by another thread | no edge missed, no dangling pointer |
| TcpConnectSocketfd (`src/tcp_connect_socketfd.cc`) | buffers, read/write/shutdown/reset/abort flags | start, send, shutdown_write, abort, event callbacks | half close, EPIPE/ENOTCONN, callbacks that re-enter, several ways to close | nothing stuck, nothing cut off, closed once, never leaked |
| TcpServer, EventLoopThreadPool, EventLoopThread | map of connections, worker loops | start, stop, new and closed connection | stop and join against full queues, destructor | a closed connection is erased once; stop ends |
| ListenSocketfd, Signalfd, Eventfd, Timerfd | a descriptor each | read callbacks | limits of accept | - |
| TcpClient, PreconnectSocketfd | attempt, socket, retry timer, connection | connect, retry, cancel, stop | a socket that changes hands between attempt, retry and connection; stop at any moment | one continuation and one outcome per attempt, every socket closed once |
| LogCollector, LogFile, LogBuilder | current, spare and full chunk buffers, file | take_this_log, flush, abort, background thread | buffer exchange, stop and flush without notification, drop at a limit | no null buffer, order, everything on disk at the end |
| Slab allocators (`include/util/slab_allocator.h`) | free lists: shared with a tagged head, per thread with a central pool, per size class | allocate, deallocate | lock-free pop against reuse (ABA), slabs freed by other threads, size classes | a slab is in one place and is never handed out twice |
| Thread, Mutex, ConditionVariable, BlockingQueue, SpscLockFreeQueue | - | - | start handshake, capacity | - |
| TcpBuffer | a string with two offsets | append, forward, search | extension, compaction and growth | the readable part is what was received and not consumed |
| HTTP example (`example/http/server`) | parser per connection, inactivity timer | message callback, check | a stream cut anywhere, pipelined requests, checks of closed connections | the requests are those of the stream |

The components meet in three ways. Threads hand functors to a loop with `run()`
(called in the owner thread it is a plain call). Descriptors call back into
their owners from the loop's dispatch. Connections are created and erased in the
main loop and live in a worker loop, kept alive by `shared_ptr`s in the map, in
the dispatch and in queued functors.

## Modules

| Module | Models |
|---|---|
| `EventLoop` | one loop: `loop()`, `run()` and `ask_to_stop()` from other threads and from its own callbacks, eventfds, epoll's ready list, queues, lamps |
| `FunctorMailbox` | abstract: what a loop promises to those who hand it functors |
| `TimerQueue` | Timer, TimerContainer, Timerfd and the timer functions of the loop |
| `LogCollector` | the logging threads, the background thread and the end of the process |
| `TcpConnectSocketfd` | one connection of an HTTP server: connection, worker dispatch, main loop's map, the inactivity check, socket, epoll and peer |
| `TcpServer` | a server with a thread pool: start, accept, close, stop by signal, join, destructor; main loop and workers joined by bounded queues |
| `TcpClient` | the echo client: TcpClient, PreconnectSocketfd, the connection, standard input and the signal in one loop |
| `SlabPool` | abstract: what a slab allocator promises |
| `SemiLockFreeSlabAllocator`, `ThreadLocalSlabAllocator`, `StringSlabAllocator` | the allocators |
| `SlabAllocators` | one of them, chosen at the start, under the promise of `SlabPool` |
| `TcpBuffer` | the buffer's memory and offsets |
| `HttpParser` | receive loop, buffer, parser and message callback, and the reference decoder of a stream |
| `EventLoopProofs`, `TimerQueueProofs`, `LogCollectorProofs`, `TcpConnectSocketfdProofs`, `TcpServerProofs`, `TcpClientProofs`, `SlabAllocatorsProofs`, `HttpParserProofs` | the theorems about the module they extend |
| `MC...` | instances for TLC |

Definitions named `...` under a comment "Mutant" are wrong variants of the
definition that follows. Nothing uses them; putting one in place of its original
must make TLC report the property it is listed with in `PROJECT.json`.

### EventLoop

A foreign `run()` is `Push` (blocks while the queue is full), `CompareExchange`
(the pilot lamp) and, if the lamp was off, `IncrementEventfd`. The owner goes
through `CheckStop`, `Poll`, the dispatch (`ReadEventfd` and `PutLampOut` are
two steps, as other threads act in between; `DispatchFd` is any other
descriptor, whose callback may register and detach descriptors or stop the
loop), the drain (`PopAll` per queue, or `PopOne` until empty in the lock-free
build, one `InvokeFunctor` per functor) and `Timers`. The relaxed store of the
lamp goes to a store buffer (`lamp_stores`), which is emptied when the owner
takes a lock, executes a locked instruction or enters the kernel, and by itself
at any time. `LockFree` selects the build. `invoked` and `due` are history.
A callback that drains the queues itself with the public `invoke_all_functors()`
is left out here: only `TcpServer::stop()` does so, and `StopDrain` in
`TcpServer` is that call.

`FunctorMailbox` has only the posted and invoked functors per queue and the
state of the loop; `Mailbox` in `EventLoop` is the refinement mapping.

### TimerQueue

A Timer is an address that is live from `new` to `delete` and may be used again;
any identifier that was handed out may be cancelled, also after its Timer is
gone. Functors and callbacks add and cancel timers (`AddTimer`, `CancelTimer`)
in the phases in which the loop runs user code. An expiration is
`BeginExpiration` (due timers are moved out and the alarm put off),
`StartCallback` and `EndCallback` per call, and `EndExpiration` (repeating
timers go back). `ExitLoop` is the exit path of `loop()`, `Destroy` the
destructor, which deletes what is in the container: `FOREVER` is one below the
largest `int64_t`, so that its successor, the end of the range of all timers,
does not wrap. `first`, `fires` and `cancelled` are history: what a Timer was
made with, how often it ran, and which Timers a cancellation removed.

### LogCollector

Each critical section of the mutex is one action. The background thread's steps
carry the names `Bg...`. A buffer is the sequence of its entries and
`ChunkSize` its room, with the code's `<` that keeps one unit free. A null
dereference or one of the code's throws is `bg_pc = "crashed"`. The end of the
process is modelled for `abort()` and for the static destructor, which by the
code's contract runs when main has joined its other threads.

### TcpConnectSocketfd

The worker dispatches close, error, read and write in that order, one action
per system call or callback; the peer may send whole requests, close, reset or
read between any two of them. `edge` is the ready list of epoll: set by a
change and by `EPOLL_CTL_ADD`/`MOD` of a ready descriptor, cleared by
`epoll_wait`. A process-ending error is a value of `process`. `output` is the
readable size of the output buffer, which `release()` leaves alone.

Assumed: the server has a thread pool (worker and main loop are different
threads), a reply is one `send()`, a request arrives whole, `shutdown()` fails
only with ENOTCONN, and of the HTTP parser only its state between requests
matters.

### TcpServer

It composes the loops of EventLoop with the connections of TcpConnectSocketfd,
each reduced to what the other side sees of it: a push makes the loop's eventfd
readable in the same step, and a connection is registered, ends and is closed.
`StartListening`, `CreateThread`, `AwaitTid`, `AwaitLoop` (main thread) with
`ThreadRuns` and `MakeLoop` (worker) are `start()`. The main loop is `MainCheck`,
`MainPoll`, `DispatchListen` followed by the accept loop (`AcceptConnection`,
`PushRegistration`, `AcceptAborted`, `AcceptEnds`), `DispatchSignal` followed by
`StopWait` and `StopJoin`, and `MainDrain`. `DestroyEmpty` and `DestroyReset`
are the destructor. A worker is `WorkerCheck` to `WorkerExit`. `PushRegistration`
and `PushClose` block while the queue is full.

A dispatch that closes a connection posts one functor (`PushClose`), or two when
the peer has reset it (`PushCloseOfReset`, `PushCloseAgain`): the close event
posts the first, and the read callback of the same dispatch gets to
`reset_connection()` by way of `shutdown_write()`, ENOTCONN and the abort
(finding 1, which TcpConnectSocketfd has in detail). A functor that does not
find its entry is `main_pc = "fatal"`, where the process ends; `reset` is
history. `ConnectionsAccountedFor` says that nothing but a reset gets there.

Assumed: `main()` of the HTTP example (signalfd started first, one dispatcher
that stops server and loop), a pool of at least one thread, the build without
destruction transfer. A connection's descriptor counts against `FdLimit` until
its entry is erased. The inactivity check, which `OrderlyCloseOnce` shows to be
the only other way to a second close, is not in this module.

### TcpClient

One thread: the loop polls (`Poll`), dispatches what it polled in any order
(`DispatchPreconnect`, `DispatchConnection`, `DispatchStdin`, `DispatchSignal`)
and expires the retry timer (`ExpireTimers`), after which `TryOnce` is the next
attempt, with every class of answer of `connect()`. `ScheduleRetry` is `GiveUp`
or `RetryLater`. Sockets are numbered by the retry that made them: only the
first is non-blocking, because `reset_to()` does not set the flag that the
constructor of PollableFileDescriptor sets, so a later `connect()` never stays
in progress and `recv()` on such a connection waits (`pc = "recv"`) until the
server closes. The process may be cut short (`process`): the errors the code
calls fatal, and the two uses of something that an earlier handler of the same
batch has destroyed or closed.

Assumed: the terminal and the server do anything at any time, one terminating
signal, sends that fit the send buffer; the intervals between retries are left
out, a due timer is a choice of the poll.

### Slab allocators

`SemiLockFreeSlabAllocator` has one action per access to shared memory: the load
of the head, the read of the link, the exchange (which may fail spuriously), and
for a push the write of the link and the exchange. The static and the non-static
class have the same text; `PROJECT.json` maps the steps to the static one and
the groups `Allocate`, `Deallocate` and `AllocateOneChunk` to the other. A user
overwrites its slab, so that a thread with an old head may read garbage as a
link. In `ThreadLocalSlabAllocator` a call is one step: the list is private and
the pool locked, and every step touches the pool at most once. A thread that
ends takes its free slabs along (`lost`). The simple allocators are its list
alone. `StringSlabAllocator` computes the size class as the code does, with
the width of `int` and the 64-bit count, and lets an access outside the array
either find a list there or end in "corrupted". A request of no bytes throws
(`AllocateNothing`), so that the abort of `deallocate()` over one cannot be met.
`SlabPool` says nothing of strings, for which `ImplementsPool` holds trivially;
`SlabsAccountedFor` is the property that covers them.

### TcpBuffer and HttpParser

`memory` is the string's capacity with two offsets into it; `append()` is
`Extend`, `Compact`, `CompactDescending` or `Reallocate`. Compaction is a
`::memcpy()` to the front of the same string, and when more is readable than has
been read its ranges overlap, which is undefined. The model has both outcomes a
build can produce: copying in ascending order moves the data (`Compact`),
copying in descending order overwrites a part before it is copied
(`CompactDescending`, which sets the history variable `garbled`). The `memcpy()`
of glibc for x86-64 is its `memmove()` and always moves the data; nothing in the
repository ensures it. The offsets are right in any case (`BufferHoldsStream`);
what the properties say of contents and requests, they say of streams that no
such copy has destroyed (`~ garbled`). A stream is a sequence of units that each
stand for a piece of text (a request line, a header, CR, LF, other text) and
count as one byte, so that a line end, a header or a body can be cut in any
place. `Receive` is one `recv()` of any size; `MessageCallback` enters
`parse()`, whose steps are `RequestLine`, `HeaderLine`, `EndOfHeaders`, `Body`
and `Incomplete`; `Answer` is the rest of the message callback. `Decode` is the
reference: a recursive function over the stream, unit by unit, without buffer
and pieces.

Assumed: the text of a request line is well formed or not as a whole (its
fields are not parsed here), a header has a key, and `Content-Length` is small.

## Runs

| Run | Bounds | Shows |
|---|---|---|
| `eventloop` | 2 threads x 1 call, 2 queues of capacity 1, 1 descriptor, 1 stopper | types; `NoLostWakeup`; `WakeupsCoalesce`; `ImplementsMailbox` (with fairness); `StopExits` |
| `eventloop_lockfree` | one producer per queue, 2 calls | `ImplementsMailboxSafety` |
| `logging` | 2 threads x 2 entries, chunks of one entry, threshold 2, 2 flushes | types; `NeverCrashes`; `EntriesInOrder`; `StopWritesEverything`; `FlushReachesDisk`; `StopEnds` |
| `timers` | 2 addresses, 2 timers created at the same or at different ones, 4 ticks, delays 0 and 2, one-off and repeating, threshold 1 | types; `AlarmCoversTimers`; `TimersAreLive`; `RepetitionsExact`; `CancelledNeverFires`; `TimersExpire` |
| `connection` | 4 requests of all kinds, 2 checks, replies of 2 units, send buffer of 3, resets | types; `NothingStuck`; `NothingCutOff`; `NoDanglingEvent`; `OrderlyCloseOnce`; `ConnectionsEnd` |
| `connection_reset`, `connection_shutdown` | 2 requests | violated: `CloseFindsConnection`, `ShutdownWriteReturns` |
| `server` | 2 workers, 3 clients, queues of 1, 1 accept per callback, descriptors for 2 connections | types; `OnlyLiveLoopsAreUsed`; `ConnectionsAccountedFor`; `StopIsGraceful`; `StopReturns`; `WaitingClientsAreAccepted` |
| `client` | no retry or 2 retries | types; `SocketsAccountedFor`; `OneContinuation`; `AttemptsEnd` |
| `slabs` | 2 threads, 2 chunks of 3 slabs, 5 to 7 calls; strings of 0, 32, 33, 2048 and 2049 bytes | types; `SlabsAccountedFor`; `ImplementsPool` |
| `strings` | the same | violated: `StringClassIsExponent` |
| `http` | 180 streams of up to 22 units, pieces of every size, initial capacity 3 | `BufferHoldsStream`; `DecodesStream`; `NothingOverlooked` |

Why the bounds are enough for the interesting cases: two threads and two queues
give a thread that finds the lamp lit by another, a queue drained before and one
drained after a push, and a full queue; chunks of one entry make every second
entry exchange buffers and four entries exceed the drop threshold; four ticks
let a repeating timer miss intervals and be caught up while the other is added
or cancelled; a send buffer of three and replies of two make the second reply
partial; with three clients one worker has two connections, so its second close
meets a full queue, during a stop as well, and both limits of accept are
reached. Two retries give a first attempt on a non-blocking socket, a retry that
can be followed by another and a last one. Three slabs per chunk and six
lock-free calls are what it takes for a thread to read a link, and others to pop
two slabs and push back the first (without the tag TLC finds the slab handed out
twice); seven calls fill a thread's list to its threshold with slabs of another
thread and take the chunk back from the pool. A capacity of three makes such
streams pass through extension, compaction and several reallocations. Deadlock
is not checked because the systems stop: the loop exits, the process ends, the
peer goes away. The safety properties do not rest on the bounds at all: they are
proved for every value of the constants (see Proofs).

### Fairness

`EventLoop`: the owner and a thread in the middle of a wake-up are scheduled and
a store buffer drains (weak fairness); nothing makes a thread call `run()` or a
descriptor become ready. `LogCollector`: the background thread is scheduled,
which includes the timeout of `wait_for()`, and a thread in the middle of a call
goes on. `TimerQueue`: time passes, the loop is scheduled and `epoll_wait()`
returns when the timerfd is readable. `TcpConnectSocketfd`: worker and main loop
are scheduled; nothing is assumed of the peer, and `ConnectionsEnd` says itself
that the peer goes on reading. `TcpServer`: main thread and workers are
scheduled (including the return of `sleep_for()`); nothing makes a connection
end, so both liveness properties say that the connections have ended.
`TcpClient`: the thread runs and the kernel ends every `connect()` that is in
progress; nothing makes the server, the terminal or the user do anything.
`SlabAllocators` and `HttpParser` state safety only.

## Findings

Three runs are expected to fail; each is a disagreement between the code and
what a comment says. Details and quotes are in `PROJECT.json`.

1. `connection_reset`: a reset by the peer closes the connection twice; the
   second functor reaches `LOG_FATAL << "never reaches here"`. The run `server`
   contains this end of the process (`main_pc = "fatal"`) and shows that there
   is no other way to it.
2. `connection_shutdown`: `shutdown_write()` and the write-complete callback of
   HttpServer call each other without end.
3. `strings`: `get_next_power_of_2()` does not return the exponent, and the
   string allocator indexes its array of lists outside its bounds.

Other behaviours of the models that a maintainer should know of; the properties
hold beside them, or name them as exceptions:

- Lock-free build: the relaxed store that puts the lamp out may become visible
  after the queue was found empty, and a wake-up is lost (`NoLostWakeup` is
  checked and proved for the default build only).
- Cancelling an identifier whose timer is gone reads a deleted `Timer`, or
  removes another one at the same address.
- A request pipelined behind `Connection: close` re-enters the message callback
  after its context was released (`process = "reentered"`), or finds the parser
  in SUCCESS (`status = "fatal"`); one behind an ordinary request waits until
  more data arrives (`just_answered` in `NothingOverlooked`).
- A connection accepted just before the signal may be left behind by its worker;
  `~TcpServer` then erases the entry its loop over the map stands on
  (`main_pc = "advance"`).
- An accepting main thread and a closing worker that both meet a full queue
  (1000 entries) wait for each other (`CircularWait`).
- `cancel()` of a client does nothing during the first attempt: a client that was
  stopped may still connect, and its loop then waits for the server to close.
- A connection that came from a retry is blocking: between two messages of the
  server the client's loop sits in `recv()` and sees neither terminal nor signal.
- Signal and terminal in one batch: `Stdinfd` is used after its destruction
  (`process = "dangling"`); likewise a connection that was aborted earlier in the
  batch is asked for its error (`"bad_descriptor"`).
- Free slabs of a thread that ends are lost to the others.
- Compaction of the input buffer is correct only with a `memcpy()` that copies
  overlapping ranges in ascending order (`garbled`); `memmove()` would ensure it.
- Cancelling the last timer of a container removes it without deleting it.

After findings 1 and 2 and a re-entered callback (`process # "running"`) the
connection model stops, so the other properties of the run `connection` speak
of the behaviour up to there.

## Proofs

Every theorem holds for all values of the constants that satisfy the module's
assumption, which TLC evaluates in each run of the module. The safety invariants
are not inductive by themselves; the strengthening is named below, and the proof
that a step keeps it has one step per action.

**EventLoop** (`LoopAssumption`: at least one queue, of capacity at least 1).
`TypeCorrect`. `Coalescing` (`WakeupsCoalesce`): `LampInv` says that a lit lamp
has exactly one reason - one thread about to write, or an unread eventfd, or the
owner between its read and the visible "off" - and an unlit one none.
`NoWakeupIsLost` (`NoLostWakeup`), for blocking queues: `StoresInv` adds that a
store still buffered implies a drain, which takes a lock, is still to come; in
the lock-free build that is what fails, so the theorem assumes `~ LockFree`.
`LoopImplementsMailbox` (`ImplementsMailboxSafety`), for both builds: every step
maps to a step of `FunctorMailbox` or to a stutter. `MailboxInv` says that the
loop leaves by way of one more drain (`ExitInv`) and that this drain has invoked
what was due in the queues it has gone past (`PaidInv`).

**TimerQueue** (`TimerAssumption`: no time that can be scheduled comes within
`Threshold` of `Forever`; the clock of the code is nanoseconds in 63 bits).
`TypeCorrect`, `TimersStayAlive` (`TimersAreLive`), `AlarmIsEarlyEnough`
(`AlarmCoversTimers`), `CancellationIsFinal` (`CancelledNeverFires`),
`RepetitionsAreExact` (`RepetitionsExact`). `PlaceInv` says where a Timer may be
in each phase of `loop()`; `ScheduleInv` that what is being expired is due;
`AlarmInv` relates `_next_earliest_expiration_time` to the timerfd: it is what
the timerfd is armed for, has fired for or was read for in this round;
`CancelInv` follows an identifier through the uses of an address.
`NothingForgotten` is the other half of `TimersAreLive`: a Timer that no place
holds has been deleted or was removed by a cancellation, and `AllDueAtForever`
says that the destructor asks for all that are left. `RepetitionInv` relates the
counter and the time of a Timer to its runs: the counter is what it was made
with less the runs, not counting a callback under way (`Settled`). It still
speaks of a Timer that has been deleted: that one has run as often as it had to,
whence `RepetitionsExact` can say that none was deleted early or late.

**LogCollector** (`CollectorAssumption`: room for more than one unit, a drop
threshold of at least 2). `BackgroundNeverCrashes` (`NeverCrashes`):
`ExchangeInv` says, per program point of the background thread, which of the
four buffer pointers are null, and that the spare is null exactly when there is
a full buffer. `LogIsInOrder` (`EntriesInOrder`): the pipeline - the file, the
buffers being written, the full ones and the current one, joined - changes in
three ways only: an entry is appended, a drop mark is put in, a part is dropped;
lemmas on `FlattenSeq` and `LogOK` say what each does to the order, and
`HistoryInv` that only counted entries are taken and only taken ones lost.
`StopWrites` (`StopWritesEverything`): `StopInv` says that what was taken before
the stop is on the disk or dropped once the background thread has stopped, and
that nobody joins it earlier. `TypeCorrect`.

**TcpConnectSocketfd** (`ConnectionAssumption`: replies and send buffer are not
empty). `TypeCorrect`, `EventsAreNotLost` (`NothingStuck`), `RepliesAreNotCutOff`
(`NothingCutOff`), `EventsFindTheirConnection` (`NoDanglingEvent`),
`OrderlyConnectionsCloseOnce` (`OrderlyCloseOnce`). `EdgeInv` is the core: what
is ready and not on epoll's ready list is handled later in the dispatch under
way. `LifeInv` ties detachment, closing and the map together, `OutputInv` the
unsent output and the write event, `CountInv` bounds the output by the requests
taken, `OnceInv` says who has closed an orderly connection.

**TcpServer** (`ServerAssumption`: at least one worker, queues, limits of
accept and of descriptors of at least 1). `TypeCorrect`,
`LoopsOutliveTheirQueues` (`OnlyLiveLoopsAreUsed`), `StopFinishesServed`
(`StopIsGraceful`), `NoConnectionIsLost` (`ConnectionsAccountedFor`). `ThreadInv`
(how far `start()` and `stop()` have got relative to each worker) gives the
first two; `LocationInv` says that a connection is with the worker its
identifier selects, in one place at a time, that the map holds what is in some
place unless it was reset, and that what the map holds is in some place
(`MapInv`); only a reset connection is in a queue twice (`RepeatsOnly`), so that
a functor that finds nothing is of a reset one (`FatalInv`).

**TcpClient** (`RetryLimitsAssumption`: the limits are numbers). `TypeCorrect`,
`NoSocketIsLost` (`SocketsAccountedFor`), `AttemptsAreCarriedOn`
(`OneContinuation`). `PhaseInv` says per phase of an attempt what is under way
(`AttemptInv`), who owns the descriptor (`OwnerInv`), and that a handshake is
reported once and only to a PreconnectSocketfd that watches it (`EventInv`).

**SlabAllocators** (`SlabAssumption`: at least two slabs per chunk, a main
thread, chunks of at least 2048 bytes, sizes that are natural numbers; the code's
string chunks have 4096 bytes and its sizes are `size_t`).
`EveryAllocatorIsAPool` (`ImplementsPool`), a refinement of `SlabPool`:
no allocator hands out a slab that is in use, whatever the interleaving.
`SlabInv` has a part per allocator. For the semi-lock-free list the free slabs
are those neither in use nor on a thread's hands; from the head only free slabs
can be reached, each from one place (`ListInv`), what a thread is about to push
is a chain of its own slabs (`ChainInv`), and an old head that still has the
current tag is the current head, with the link that was read from it (`TagInv`):
that is why an outdated exchange fails. For the private lists `PlacesInv` says
that no slab is in two places. `CountsMatchLists` adds that the counts of the
thread-local allocator are right and the pool holds whole chunks.

`EverySlabAccountedFor` (`SlabsAccountedFor`) rests on `AccountInv`, which adds
the other half. `OrderInv`: some sequence of all free slabs, without repetition,
follows the links from the head to null; so the list ends and leads everywhere
(`SlabInv` alone allows a cycle of free slabs beside the list). `CoverInv`: a slab
of a chunk is in use, in a list, in the pool or lost with a thread. `StringInv`:
there is an assignment of the chunks to size classes such that the free slabs of
a class and the places of its strings are different slots of chunks of that
class; the size of a class's slots, computed with the code's off-by-32 exponent
and the shift that undoes it, is at least the string's. `SlabTypes` (`TypeOK`)
adds that the tag and the calls under way together do not exceed the calls made,
and that a threshold grows only with a chunk (`TypeInv`).

**HttpParser** (`StreamAssumption`: streams are sequences of units).
`BufferIsFaithful` (`BufferHoldsStream`): `HoldInv` states the property element
by element at positions that do not move when something is consumed; `ParserInv`
makes the length of a body a number. The lemmas on `Overwrite` cover extension,
compaction and reallocation of the buffer. `SoundInv` is what is inductive: the
offsets and the parser's numbers are right whatever `memcpy()` does, and the
contents are unless it has destroyed them, which is for good (`GarbledForGood`).
`RequestsAreTheStreams` (`DecodesStream`): `TrackInv` says that the parser,
which takes whole lines and bodies, is where `Decode`, which reads one unit at a
time, is after what was consumed (`TrackSound`: unless `garbled`); lemmas say
what the reference makes of a part of a line, a line, a part of a body and a
body. `NothingIsOverlooked` (`NothingOverlooked`): `WaitInv` says that between
callbacks the parser waits for something that has not arrived.

The few inductions over data that these need (what `FlattenSeq` does to a joined
sequence, what `Decode` does over a line, where the links of a list lead after k
steps) go by the least counterexample: a set of numbers that has no least element
is empty (`WFMin` for the numbers).

Only model-checked: liveness and what needs fairness, that is `ImplementsMailbox`
(its safety part is proved), `StopExits`, `FlushReachesDisk`, `StopEnds`,
`TimersExpire`, `ConnectionsEnd`, `StopReturns`, `WaitingClientsAreAccepted` and
`AttemptsEnd`. Every invariant that a passing run checks is the statement of a
theorem, `NoLostWakeup` for the default build only.

## Not modelled

Address formatting, log formatting, dates, responses, `any`, socket options, the
echo server, tests, benchmark and scripts have no protocol of their own. The
fields of a request line are not taken apart: the search for the space behind
the path (`http_request.cc:57`) is bounded by the length of the line counted
from the path, which a model of characters would need. The clock is never set
back. Process-ending failures of system calls (`LOG_SYS_FATAL`) are left out
except where a handler causes them (a second `close()`, `getsockopt()` on a
closed socket). `~ChunkManager` of a thread that still has slabs in use elsewhere
is left out: in TcpServer only the main thread allocates. Strings are freed by
the thread that allocated them. `close_preconnect_socketfd()` and
`close_tcp_connect_socketfd_ptr()` of TcpClient are called by nobody.

## Plan

1. `TcpServer`: the inactivity check against a stop, the build that hands the
   destruction of connections to a thread of its own, a server without a pool.
2. `SpscLockFreeQueue` node by node under the same mailbox; `LogFile`'s switch
   of files.

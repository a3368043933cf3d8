# A verification project for gg_lib

gg_lib is a C++ network library in the style of muduo: one event loop per
thread, timers, non-blocking TCP connections, an acceptor, a small HTTP server,
a thread pool and an asynchronous logger.  This directory holds TLA+ modules of
its core, TLC configurations that check them on small instances and proofs that
TLAPS checks for every instance.  Paths such as `EventLoop.cc:127` are relative
to `src/gg_lib/net` (or `src/gg_lib`), headers to `src/include/gg_lib`.

`PROJECT.json` lists the components, the runs, the source lines each definition
stands for, the hazards and the theorems.

## The system

| component | state | operations | talks to | what is hard |
|---|---|---|---|---|
| EventLoop | `looping_`, `quit_`, `pendingFunctors_`, `callingPendingFunctors_`, an eventfd | `loop`, `quit`, `runInLoop`, `queueInLoop`, `wakeup`, `doPendingFunctors` | Poller, TimerQueue, every thread | wakeups against sleeping in poll; functors queued by functors; `quit` before `loop` |
| EventLoopThread, EventLoopThreadPool | `loop_` under a mutex, a condition variable; `loops_`, `next_` | `startLoop`, `threadFunc`, destructor; `start`, `getNextLoop` | EventLoop, Thread, CountDownLatch | publication and end of the loop against its owner |
| Poller (epoll, poll), Channel | `channels_`, `index_`, `events_`, `revents_`, `tie_` | `updateChannel`, `removeChannel`, `handleEvent` | EventLoop, every owner of a descriptor | raw pointers in the active list; re-registration |
| TimerQueue, Timer | heap `timers_`, map `activeTimers_`, a timerfd | `addTimer`, `cancel`, `handleRead`, `reset` | EventLoop | stale heap entries; cancelling in a callback; arming |
| TcpConnection | `state_`, `reading_`, `outputBuffer_`, its Channel | `send`, `shutdown`, `forceClose` and their delayed forms, `startRead`, `stopRead`, the four handlers, `connectEstablished`, `connectDestroyed` | its loop, its server, timers, user threads | life time; partial writes; calls from other threads |
| TcpServer, Acceptor | `connections_`; `idleFd_` | `newConnection`, `removeConnection`, destructor; `handleRead` | TcpConnection, the thread pool | the relay between two loops; running out of descriptors |
| Buffer | a vector and two indices | `append`, `retrieve`, `prepend`, `readFd`, `shrink`, integers | TcpConnection, user code | index arithmetic |
| ThreadPool | `queue_`, `running_`, two condition variables | `start`, `run`, `stop`, `take` | user threads | notifications, a full queue, stopping |
| Logger, LogStream, TimeZone, Date | the level and the zone, common to all threads; per thread the second last formatted, its text and the name of the zone | log statements, `setTimeZone`, `setLogLevel`; conversions between seconds, dates and local times | every thread, AsyncLogging | the cached second; clocks that are set; the hour that is there twice; full lines |
| AsyncLogging, LogFile | four buffers and more, `running_`; the file and when to roll it | `append`, `start`, `stop`, `threadFunc`; `append`, `rollFile` | every thread that logs | the exchange of buffers, dropping, stopping |
| HttpServer, HttpContext | the state of the parser | `onMessage`, `parseRequest` | TcpConnection, Buffer | requests in pieces |
| Timestamp, SocketsHelper, any, Utils | none shared | conversions, formatting, system calls | everything | boundary cases of arithmetic |

The library's own discipline is that an object belongs to one loop thread and
other threads reach it through `runInLoop`/`queueInLoop`.  So the functor queue
is the base of everything else: it is modelled first, its promise is stated as
an abstract specification, and the modules above it use that promise.

What makes each part correct, in short: the loop runs every functor once, in
order, and never sleeps over one; a timer that exists is never forgotten, and one that
was cancelled starts only if the cancel overtook the add; a connection's bytes are neither lost nor reordered,
it is closed once, removed once and freed when nothing refers to it; a buffer is
a queue of bytes; a pool's threads do not sleep while there is work, and each task is
called once; a poller
watches what its channels ask for and reports nothing else; a server frees what
its peers have closed and serves those that wait; log lines say when they were
written and reach the file in order or are reported as dropped.

## Modules

    FunctorQueue  <--refines--  EventLoop  <--EXTENDS--  EventLoopThread
         |
         | (promise used by)
         v
    TimerQueue                                ThreadPool
    TcpConnection  <-- MCTcpConnection        AsyncLogging  --INSTANCE-->  LogFile
    Server                                    Logging  <-- MCLogging
    HttpServer  <-- MCHttpServer                 |--EXTENDS-->  TimeZone  --EXTENDS-->  Date
    ByteQueue  <--refines--  Buffer              '--INSTANCE-->  LogStream

    Poller  <--refines--  Dispatch  --INSTANCE-->  PollPoller, EPollPoller  --EXTENDS-->  Tables

The proofs about a module are in the module of its name with `Proofs` appended
(EventLoop, TimerQueue, ThreadPool, TcpConnection, Server and Dispatch have one;
EventLoopProofs has those about EventLoopThread too).  InputProofs is about what becomes
of input, Buffer and HttpServer; LoggingProofs is about both halves of logging, Logging
with its calendar, zones and lines, and AsyncLogging.  A module that shares a module of
proofs with another has names of its own for its specification: `ThreadSpec`, `HttpSpec`,
`LoggerSpec`.

Definitions carry the names of the code where TLA+ allows it.  An operator whose
name ends in `_Something` (`quit_NoWakeup`, say) is a faulty version of the
definition that follows it; it is not part of the specification, and
`PROJECT.json` names the property it breaks when it is put in its place.

**FunctorQueue** is what clients of a loop rely on: functors are handed over and
started in that order, each once.

**EventLoop** (`EventLoop.cc`).  `pc` is the place of the loop thread in
`loop()`; a critical section of `mutex_` is one step, and `queueInLoop` is two:
the push and, after the unlock, the wakeup.  A running callback (`callback`) is
opaque: until it returns the loop thread may queue, run and quit like any other
thread.  `wakeupFd_` is the eventfd's counter up to `MaxCounter`; a write that
would pass it fails, as for a non-blocking eventfd.  `early` holds functors the
loop thread queued outside `loop()`: for these `queueInLoop` does not wake, they
wait for whatever wakes the loop first.  A functor object is handed over once.

**EventLoopThread** (`EventLoopThread.cc`, `ThreadHelper.cc`, `CountDownLatch.cc`)
extends EventLoop, in which the owner is the one other thread that makes calls, and adds
the life of the thread, of the loop on its stack and of the pointer `loop_`.  The
destructor's unlocked read of `loop_` and its `quit()` are separate steps.
`faults` records a use of a loop that has gone; the owner may call the destructor
at any time, and `lostQuit` records that its `quit()` came before `loop()`.  Before that
it may use the pointer that `startLoop` returned, to queue functors or to quit the loop;
`earlyQuit` records that somebody, the owner or a callback, called `quit()` ahead of the
destructor.

**TimerQueue** (`TimerQueue.cc`, `Timer.h`).  Time is in units of 100 us, the
shortest delay `howMuchTimeFromNow` returns.  The heap is the set of its entries;
stale entries (cancelled, or of a timer that was re-added) stay until they are at
the top, as in the code.  `cancelled` has every timer whose cancel was executed, and
`overtaken` those whose last cancel came while the functor of the add was still queued,
so that it found nothing.  `fired` and `firedAt` record which timers ran, and by which reading
of the clock.  `pc = "undefined"` is a state in which a pointer to a
deleted Timer was followed; nothing is said of what comes after.

**Poller** is what a loop and the owners of channels rely on: the channels with an
interest are watched, for just that and for hang-ups, and nothing else is reported.
**PollPoller** and **EPollPoller** (`poller/*.cc`) are the two implementations, as
operators on a record of their members, of the `index_` of every channel and, for
epoll, of the kernel's interest list; their assertions are operators of their own
(`updateFails`, `removeFails`).  **Tables** has the two operations on a `std::map` and on
the kernel's table that they share.

**Dispatch** (`Channel.cc`, `EventLoop.cc:80-109, 159-176`) has the channels, one of
the two pollers and the part of `loop()` that hands out events.  Handlers and functors
are user code that constructs, updates, removes and destroys channels; a descriptor is
free once its channel is gone, and the next channel gets the lowest free one.
`activeChannels_` keeps raw pointers, as in the code.  `careful` records whether user
code has kept two rules that the code relies on and checks only by assertions: in a
handler no other channel of the batch is removed, and no interest is given up that
was not there.  At the first failure the model stops.

**Server** (`TcpServer.cc`, `Acceptor.cc`, `EventLoopThreadPool.cc`, `accept` of
`SocketsHelper.cc`).  Several connections, reduced to the stages of their life, over
the server's loop and those of its pool.  A step of a loop is the end of its events
with the swap of the functors, one functor, or the end of the batch, when the
pointers that the functors hold go too; `Settle` frees the connections nobody holds
any more.  The destructor hands over one connection after the other, then quits and
joins the threads one by one, then ends the acceptor.  `handleRead` is one step for
every system call, because other threads open and close descriptors in between
(`others`).  The destructor runs in a functor of the server's loop: in an event
callback of a channel of that loop it would free what `Channel::handleEvent` is working
on (`Channel.cc:49-57` holds no pointer), and that is left out.  `hasty` says that the
server was destroyed before its connections had ended, `stolen` that another thread took the descriptor that `handleRead` had given
up for a moment.  The loops of the pool are running from `start` on: their first
steps are EventLoopThread's.

**TcpConnection** (`TcpConnection.cc`, parts of `Channel.cc`, `EPollPoller.cc`,
`TcpServer.cc`).  One connection, the iteration of its io loop (events, then the
batch of functors), its timers, the loop of its server (another one, or the same),
user threads and the peer.  In a user thread the test of `state_`, its assignment
and the queueing are three steps, because any thread may be between them; in the
loop thread a call is one step.  `alive` says that something holds a
TcpConnectionPtr; functors bound to a raw `this` (all that are not in `Strong`)
do not count, and running one after the end is recorded in `failed`, as are
assertions that fail, with the line of the assertion.  `app` says what the
program around the connection does, so that a property can say of which programs
it holds: `Careful` and `OnlySends` are the conditions the code needs and does
not check.

**ThreadPool** (`ThreadPool.cc`, `ThreadPool.h`).  A worker is outside the mutex,
in `take` or waiting in it, has a task it took and not yet called, or is in a task; a task
may call `run()` itself.  Taking a task (`take`, with the mutex) and calling it (`CallTask`,
without) are two steps, so that two workers may call their tasks in the other order.
Spurious wakeups are steps.

**AsyncLogging** (`AsyncLogging.cc`, `AsyncLogging.h`).  A line is its number; a
buffer holds `Capacity` lines.  More than `MaxToWrite` buffers (16 in the code)
make the logger drop all but two, with a notice in the file.  The buffers are
written one by one (`Write`), so that producers run in between; the clock may
move, forwards or backwards, at any time, so that every reading may give any of `Times`.

**LogFile** (`FileUtil.cc:71-206`) has no thread of its own: its calls are
operators on a record of its members, which AsyncLogging keeps in `output`.  A line
has length one, a file is the sequence of lines that `fwrite` took, and `fwrite`
may fail after any number of lines, up to `MaxFailures` times.  An append that rolls reads
the clock twice, for the period and for the name of the file (`FileUtil.cc:162, 195`), and
the readings may differ.

**Date, TimeZone** (`Date.cc`, `TimeZone.cc`) are pure operators: the Julian day
arithmetic with its divisions, the transition table searched by UTC or by local time,
the conversions both ways.  `gmtime` and `timegm` stand for the C library and are
written from the calendar's definition, so that they serve as the reference.  `IsZone`
is what the constructors make of a sound zone file: at least one rule, and transitions
that refer to rules.  Of `readTimeZoneFile` only the making of the transitions is
translated (`TimeZone.cc:101-105`).

**LogStream** (`LogStream.cc`, `FixedBuffer.h`) keeps of a line which parts it took, how
much of each, and where `cur_` was after it: text is cut at the end of the buffer, a number is left out if there
is not room for the longest one.

**Logging** (`Logging.cc`, `Logging.h`) has the clock, which may be set to any of its
instants at any time, the zone and the level that threads share, and what each thread
keeps: `t_lastSecond`, `t_time`, `t_zoneAbbr`.  A log statement is one step, since all
it works on until `g_output` is the thread's own, but for the zone: `formatTime` tests and
then uses `g_logTimeZone` without a lock (`Logging.cc:142-143`), and a `setTimeZone` of
another thread in between would free what it uses.  Programs that race there are left out.  `stampZone` and `nameZone` record
the zones that the kept text and the kept name belong to.

**HttpServer** (`http/HttpServer.cc`, `http/HttpContext.cc`, `http/HttpResponse.cc`).  One
connection.  Input is a sequence of symbols: the text of a line, its `\r` and its
`\n`, so that a read may end between any two of them.  A step is one round of the
`while` loop of `parseRequest` or of `onMessage`.  `Responses` is the reference: it
answers a sequence of complete lines that come in one piece.  A header line always
has a value, since the code calls `substr` with `npos` on one that has none; query,
receive time and bodies are left out.

**ByteQueue, Buffer** (`Buffer.h`).  Buffer has the vector with its contents and
the two indices, with every public call that moves bytes; ByteQueue is the same
calls on a sequence of bytes.  The integers are read and written in network order
in base `Base`, with two's complement, and ByteQueue says which bytes an integer is.  After `reset()` the vector is empty and
both indices are at `kCheapPrepend`, so that `writableBytes()` wraps around: the
calls that would then work with it are not made (`Usable`).  `swap` and the
searches are left out.

## Runs

Twelve runs, and all pass.

| run | what it shows | bounds |
|---|---|---|
| `event_loop` | no lost wakeup, refinement of FunctorQueue, quit and queued functors are obeyed | two foreign threads, three functors, one channel, eventfd up to 2 |
| `loop_thread` | the owner never uses a loop that is gone; startLoop returns, and so does the destructor unless its quit is lost | the owner destroys at any time, two functors, callbacks and an owner that quit |
| `timer_queue` | the timerfd covers every entry, map and heap agree, only due timers start, and no cancelled one unless the cancel overtook the add, no dangling pointer unless a callback cancels in its batch | two timers, five clock values, two queued functors |
| `connection` | bytes in order in every program; flushing before shutdown and interest in writing when user threads only send; no failed assertion and a clean end in careful programs | six programs, one user thread, two messages of two bytes, high water mark 2 |
| `connection_live` | a shutdown waits for the output and is then done, a connection whose peer has gone is freed | loop-only programs, one message of two bytes |
| `thread_pool` | nobody oversleeps, tasks are taken in order and called once each, stop returns, queued tasks start | two workers, two producers, three tasks, queue unbounded or of one place |
| `async_logging` | buffers go round, lines in order or dropped with notice, files roll when they are long or a period begins and never twice in a second, stop returns, lines are written | buffers of two lines, at most two buffers written, five lines, roll size 2, period 2, three clock values, one failed write |
| `buffer` | refinement of ByteQueue with its integers; room to prepend is kept and space is used again | bytes of two values, calls of two bytes, three readable, integers of one and two bytes |
| `http` | the responses do not depend on how the input is cut, nothing of a request is left for the next, onMessage returns | six kinds of line, five lines, reads that end anywhere |
| `pollers` | both pollers refine Poller; no assertion fails and no dead channel is called for careful users; a channel that stays ready is handled again and again | three channels, three descriptors, two events, epoll's array of one at first |
| `server` | connections end cleanly unless the server goes first; what a peer closed is freed; waiting peers are served | two peers, no or two io threads, three descriptors, of which others use up to two |
| `logging` | dates and zones convert back; a stamp tells when its line was written; a full line is cut at its end only | two threads (symmetric), two zones, four instants, lines of 14 with numbers of up to 3 |

**Why the bounds are enough.**  Three functors let one be in a batch, one be
queued by it and one come from outside; two threads let one be between push and
wakeup while the other quits.  With two timers one can be stale at the top of the
heap while the other is live, and five clock values let a repeating timer come
back twice.  Two messages of two bytes give partial writes, a buffer that is not
empty when the next message comes and a high water mark crossed from below; the
six programs make every call of the interface, from the loop thread and from a
user thread.  Two workers and two producers make the notification of the wrong
sleeper possible; five lines fill three
buffers, one more than may be written, and the last is half full when it is.  Five
lines hold two requests with headers in one message, or one with a header
repeated.
Three channels are enough for PollPoller to move an entry that is neither the first
nor the last, and with an array of one event at first they double it twice.  Two
connections, the spare descriptor and two more in use elsewhere meet the limit of
three with a peer accepted, a peer waiting, and the spare one taken away.  The four
instants are the epoch, a leap day, the start of New York's summer time in 2006 and
the last second of it, and `TimesReadBack` looks at ten offsets around each, some in
the hour that is there twice.  The three messages leave 4, 6 and 2 characters for their
number, which is left out in the last case though the text after it fits.
The buffer's sizes are such that calls fit, just fit, need a move, and need to
grow.  The bounds `MaxQueue` and `MaxCloses` of TcpConnection limit how far user
code goes on calling, never what the loop does.  `CHECK_DEADLOCK FALSE` is set
where the system may come to rest (a stopped pool, a loop that was quit, a clock
at its bound).

The `buffer` run uses `View == <<b, prepended>>`: the variable left out, `call`,
is written and never read by Next, and only the refinement mentions it, which TLC evaluates on every step it generates, also one into a known state.  The `logging` run
leaves out `lastLine` in the same way.

**Fairness.**  Threads that are in the middle of a call of the library are
scheduled, loop threads, workers and the logger keep going, callbacks and tasks
return (weak fairness).  poll has to return only when the eventfd is readable:
its time-out of one second (`EventLoop.cc:23`) is never used to show progress in EventLoop
and EventLoopThread, so that the liveness
properties of the loop show that the wakeups are enough.  Nobody has to call
anything, no I/O has to arrive.  AsyncLogging's wait does end by its time limit:
the code's `stop()` notifies without the mutex and needs it.  In TcpConnection
strong fairness says of the environment that a closed or reset peer is seen by
some read, that a socket that is written to again and again takes bytes at some
time, and that a due timer fires although the loop is busy with other events.  In Server
it says that a level-triggered poll reports again what is still ready, so that a
connection's close and a waiting peer are not passed over for ever.  `ClosedIsFreed` has a
premise of its own: descriptors do not run out for ever.

## Met while modelling

What follows is behaviour of the code that a property has to exempt; the condition is
part of the property's statement.

- A `quit()` between the publication of `loop_` and `quit_ = false` in `loop()`
  (`EventLoop.cc:84`) is lost, and the destructor of EventLoopThread joins for ever
  (`lostQuit` in `DestructorReturns`).  `EventLoopThreadPoolTest.cc:50-61` destroys a
  pool right after `start`.
- A `quit()` ahead of the destructor, by a callback or by the owner, lets the loop return
  while the destructor tests `loop_` and uses it without the lock (`earlyQuit` in
  `NothingDangles`).
- A cancel made in the loop thread runs at once and may overtake an add that another
  thread queued (`TimerQueue.cc:89-97`): it finds nothing, and the timer starts
  (`overtaken` in `StartsOnlyDueTimers`).
- `TimerQueue::reset()` says that a timer may have been deleted in its callback
  (`TimerQueue.cc:146`) but asks the deleted object for its id one line before
  (`batchCancelled` in `KeptBatchIsSafe`).
- The timer of `shutdownAndForceCloseAfter` closes at once (`TcpConnection.cc:159-162`)
  while an event of the connection may wait in the same iteration; `handleClose` then
  runs twice.  `forceClose` in a user thread tests and sets `state_` in two steps
  (`TcpConnection.cc:165-170`), so that the loop's close in between is undone.
  `~TcpServer` on a connection that is `kDisconnecting` skips `disableAll`
  (`Channel.cc:44`); `startRead` after a close registers a dead connection.  All of
  these are in the programs of the `connection` run, which is why `NothingFails` is
  stated for careful ones.
- `Acceptor::handleRead` leaves its loop only at EAGAIN.  At the limit of descriptors
  Linux's accept4 fails with EMFILE although nobody waits, so the server's loop spins
  as long as the limit is reached, and closed connections are removed by functors of
  that same loop (the premise of `ClosedIsFreed`).  In the moments in which `idleFd_`
  is closed another thread may take its descriptor, and then no peer is refused any
  more (`stolen` in `PeersServed`).
- `~TcpServer` queues `connectDestroyed` to io loops that are told to quit next: a loop
  that has passed its swap drops it, and the connection goes without having been taken
  out of its poller; a connection that closes after the server has gone calls it all
  the same, as the FIXME of `TcpServer.cc:72` says (`hasty` in `EndIsClean`).
- `PollPoller::removeChannel` asserts that the entry is ignored, which fails for a
  channel that never had an interest, such as that of an Acceptor that never listened
  and gives up everything in its destructor; EPollPoller has no such condition, and adds
  the channel to epoll with an empty interest instead (`EPollPoller.cc:81-91`).
  PollPoller leaves `index_` as it was, so that a channel cannot be used again.
- The name of the zone on a log line is the calling thread's (`Logging.cc:117`): other
  threads go on with theirs, a cached second keeps the zone before, and a name is fixed
  at the first call although daylight saving time changes it (`TimeZone.cc:226-240`); the
  conditions of `StampsTellTime` say just this.  A thread whose first second is 0 has an
  empty time.  A full line has no newline.
- HttpServer calls `forceClose` right after `send`, which drops what the socket did not
  take.  `TcpServer.h:55` calls `start()` thread safe, but the thread pool asserts that it
  runs in the loop thread (`EventLoopThreadPool.cc:26`).

## Proofs

Eight modules, each from the named assumption of the module it is about and nothing
else; TLC evaluates the assumptions in the runs.  They say that sizes are natural
numbers, positive where the code divides or stores at least one, and that sets of
threads or names do not overlap.  Five need a word: `ThreadPool` has finitely many
threads, since a notification is counted against those that are awake; a byte of
`Buffer` has an even number of values and integers have at least one byte, so that half
of the values are negative; the thread numbers of `Server` have a greatest one, and so
there are only so many loops; the zones of `Logging` are sound (`IsZone`) and a number in a
line has at most `kMaxNumericSize` characters, which is what the code relies on when it asks
for that much room; and no application of `TcpConnection` that shares the
server's loop destroys the server, which is what a callback in that loop must not do.
The bounds (`MaxTasks`, `MaxQueue`, `MaxTime` and so on) are constants of the theorems:
they hold for every value, and so for any length of run.

Every safety property of the runs is a theorem: the invariants, the action properties
and the three refinements.

**EventLoopProofs**: for any sets of threads, functors and channels and any eventfd
maximum.

- `TypeCorrect`.
- `NoWakeupIsLost`.  NoLostWakeup speaks of the loop at poll only, which is not
  inductive.  `WakeupInv` adds that everywhere but among the events, after which
  the swap comes anyway, a functor in the shared queue has the eventfd readable or
  a thread about to write it (`FunctorSignalled`); that a `quit_` set after the
  loop's test has the eventfd readable (`QuitSignalled`); and that
  `callingPendingFunctors_`, which decides whether the loop thread wakes itself,
  says where the loop is (`ControlInv`).
- `NoFunctorRunsTwice`, from `OncePlaced`: pending, batch and history are each free
  of repetitions and disjoint from each other.
- `LoopImplementsQueue`: every step maps to a step of FunctorQueue or to a stutter
  under `queue <- functors \o pendingFunctors_`.  The swap is a stutter because
  `ControlInv` says that the batch is empty then.
- `ThreadRunsALoop`, of EventLoopThread: it implements EventLoop, and so no wakeup is lost
  and functors run in order in a loop that one thread runs and another publishes and stops.
- `NothingEverDangles`, of EventLoopThread.  `Paired` says
  which places of the owner go with which of the thread: the destructor's unlocked test
  of `loop_` is right because the loop returns only after `quit_`, and until somebody
  calls quit() early only the destructor sets that, one step later.

**TimerQueueProofs**: for any number of timers, clock range and intervals.

- `TypeCorrect`.
- `NoTimerIsForgotten`, from `ArmedInv`.  While handleRead runs the timerfd has been
  read and the heap is not covered until `reset()` sets it again.  But `reset()` does
  not set it if the earliest expiration is zero, which `Timestamp::valid()` takes for
  none.  So the invariant adds that an entry at time zero, which only a callback can
  have added, is covered all the time (`ZeroArmed`).
- `NoDanglingTimer`: the batch being run consists of timers that exist, unless a
  callback has cancelled one of them.
- `OneEntryForEach` and `OnlyDueTimersStart`, from `EntryInv`: ids are given out in order,
  and a timer whose add is still queued has left no trace; no entry is at once in the heap
  and among the expired; a timer that exists has its one entry; one that runs once and has run exists only until `reset()`.
  `Lost` says that a timer that was cancelled and not overtaken neither exists nor is
  queued, and `Paced` that one which ran and is in the heap again is there for its
  interval later.

**ThreadPoolProofs**: for any finite sets of workers and producers, any bound of the queue
and spurious wakeups at any time.  `PoolNeverOversleeps` and `PoolKeepsTasks` are nearly
inductive together; `OwnerInv` adds that nothing is queued before `start` or in a pool
without threads, so that `stop`'s two notifications meet everyone who sleeps.  The
argument counts: a step takes at most one thread from those awake and one task or place
with it.  That a task is called once follows from the order: the tasks taken are the first
of those accepted, no two of which are the same, so that no two workers hold one.

**InputProofs**, of Buffer: `BufferRoomKept` and `BufferIsByteQueue`, for all sizes of the vector, of
`extrabuf` and of calls.  `BufInv` says that the indices are in order and within the vector
as long as calls may be made (`Good`).  Each operation has a lemma that gives the readable
bytes afterwards as a sequence, `makeSpace` one for moving and one for growing.  That an
integer is written as the bytes it is read from is shown for every width and base.

Of HttpServer: `RequestsAnsweredAsAWhole` and `NoParsingAfterGotAll` (parseRequest is never
entered with a finished request, on which it would loop for ever), for any lines, pages and
ways to cut the input.  AnswersAsAWhole speaks of the times between messages and of the
lines that are there then; neither helps in the middle of a request.  `HttpInv` speaks of
every sequence of lines that the peer may still send (`Possible`): the responses to the
whole of it are those given so far followed by those from line s on, where s is the line at
which the open request began (`AnsweredBefore`, `RequestFrom`), or, once a response has
announced the close, just those given so far.  `Connection` is the last header of that
name among the lines of a request, which is what `request_` holds of it.

**TcpConnectionProofs**: five theorems, for any number of users and messages and for every
application.  `ConnInv` has a layer for each: the iteration (what `batch` and `revents_`
hold where), the order of bytes, birth (connectEstablished is the first functor and runs
once), what user threads that only send can have left pending (`SendsInv`), and the life
of a connection in a careful program (`CarefulInv`): open, closing, being removed, ended,
and for each of these which functor, reference and registration is still there.

**LoggingProofs**, of AsyncLogging: `BuffersNeverRunOut`, `FilesAlwaysRoll` and `LinesKeepOrder`.
`BufferInv` says who holds which of the buffers at each place of the logger, `LogInv` that
the log file was rolled and flushed as it should at its last append.  For the order, what
is kept is one sequence, files first, then the rest of the batch, the full buffers and the
current one: a step moves the borders between these parts, appends at the end, or takes
out lines that become `dropped` or `lost`.

Of Logging:

- `TimesAlwaysReadBack`, for every value of the clock and every zone that satisfies
  `OneHourDst`.  Its lemmas are about all numbers: a day has one year and one month by the
  calendar's definition (`YearFound`, `MonthFound`); `getJulianDay` and `getYearMonthDay`
  agree with it (`JulianDayIs`, `YearMonthDayIs`); `timegm` undoes `gmtime`
  (`TimegmOfGmtime`); toUtcTime is gmtime from the day before the epoch on
  (`ToUtcTimeIsGmtime`).  In a zone (`LocalTimeReadsBack`) the moments grow by either clock,
  so that lower_bound finds the last rule that has begun; by local time that is the rule of
  the time, or the next one if the clock was set back in between, and then the hour, the
  minute and `tm_isdst` tell the two apart.  `OneHourDst` is what fromLocalTime needs: it
  takes off 3600 seconds and looks at one transition.
- `StampsAlwaysTellTime`, for every zone, `OneHourDst` or not, and however the clock is set.
  `StampInv` says that the text a thread keeps is that of the second and the zone kept with
  it, unless the second is 0; the property speaks of one step and says nothing of what is
  kept for later ones.
- `LinesAlwaysWhole`, for every message, size of the buffer and size of numbers.  What is
  true of the buffer after n parts (`WholeUpTo`) stays true with one part more, added as a
  whole, cut at the end, or left out.

**ServerProofs**: `ServerEndsClean`, for any number of peers, io threads and descriptors.
`ServerInv` holds `Tidy` for each connection: its stage, whether it is in `connections_` and
which of connectEstablished, removeConnectionInLoop and connectDestroyed is still in which
loop's batch or queue belong together.  Nothing is said once the server was `hasty`.

**DispatchProofs**: `DispatchIsSafe` and `PollersArePollers`, for any number of channels,
descriptors and kinds of events and both pollers.  `DispatchInv` has four parts.  Channels
that exist have descriptors of their own, and one with an interest is registered
(`ChannelInv`).  The poller's tables have just the registered channels (`TablesInv`): for
PollPoller each has its own entry at its `index_`, and there are no others, which is what
moving the last entry into the gap has to keep; for EPollPoller `epoll` has those that
are `kAdded`, and the others have no interest.  The loop's list has no channel twice and
the one being handled is the one before `next` (`LoopInv`).  And, for careful user code,
the channels still to be handled exist (`CarefulInv`).  The first three do not depend on
`careful`, so the refinement of Poller does not either.

**Only model-checked.**  Liveness: `QuitEndsLoop`, `QueuedFunctorRuns`, `StartLoopReturns`,
`DestructorReturns`, `PeerCloseDestroys`, `DisconnectingEnds`, `StopReturns`,
`QueuedTaskStarts`, `LineIsWritten`, `MessageHandled`, `ReadyIsHandled`, `ClosedIsFreed` and
`PeersServed`.  Fairness and ENABLED are out of the prover's reach.

Where a proof needs what a recursive function gives at every index (the value of bytes,
`FlattenSeq`, `ResponsesFrom`, `Stream`), it takes the least index at which it would fail,
which the prover can do in place of an induction; that such a function exists is shown in
the same way.

## Not modelled

The text of numbers and messages, addresses and system call wrappers, `any` and the
other type-level helpers, the reading of a zone file, with its header check, its counts
and its failure path (the tables are the constants of MCLogging), BlockingQueue (it has no operation), third-party code,
examples and benchmarks.  The wall clock is one with the monotonic clock of the
timerfd, so in
TimerQueue a clock that is set is not considered (in AsyncLogging it is).  `assert` is taken as a record
of a wrong state: the release build goes on.

## Plan

Done, in this order: FunctorQueue and EventLoop with their proofs; EventLoopThread;
TimerQueue with its proofs; TcpConnection; ThreadPool; AsyncLogging; Buffer; LogFile;
HttpServer; the pollers with Dispatch; Server; Date, TimeZone, LogStream and Logging; the
proofs about ThreadPool, Buffer, TcpConnection, AsyncLogging, Server and Dispatch, and the
rest of those about timers and loop threads; the proofs about HttpServer and Logging.

Left: HttpServer's `send` followed by `forceClose` on top of TcpConnection, so that an answer
that is cut off can be told from one that is not; bodies and queries of requests; the bytes
of a zone file and a search in transitions that are not sorted.

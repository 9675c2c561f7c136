# stnl: TLA+ specifications

stnl is a C++ network library of the "one loop per thread" kind: a reactor per
thread, timers, TCP servers and clients on top of it, and an asynchronous
logger. This directory models its core in TLA+, checks the models with TLC and
proves their safety properties with TLAPS. Each definition is taken from the
code; `PROJECT.json` gives the lines.

The models keep the control of the code (each state change, test, early return
and their order) and reduce the data: a function, a message or a timer is a
name. The library is built with its asserts on (`CMakeLists.txt:17` has NDEBUG
commented out), so an assert that fails is an abort.

## 1. The parts of the system

| Part | State | Operations | Hard about it | Correct when |
|---|---|---|---|---|
| EventLoop | `running_`, `looping_`, `callingPendingFunctions_`, `pendingFunctions_` under a mutex, an eventfd | `loop`, `quit`, `runInLoop`, `queueInLoop`, `doPendingFunctions` | other threads queue and quit at every point of the loop | functions run once and in order, no wakeup is lost, a quit ends the loop |
| Thread, EventLoopThread | `thread_`, `loop_`, two condition variables | `start`, `startLoop`, `threadFunc`, destructor | handshake between two threads, a pointer to another thread's local | start returns, the loop exists while it is used, the join returns |
| TimerQueue | `timers_`, `activeTimers_`, `cancelingTimers_`, a timerfd | `insert`, `cancel`, expiry, restart | cancels from callbacks and from other threads, times that have passed, reused addresses | each timer has one owner, the timerfd covers the earliest timer, due timers run |
| Channel, Epoll | interest, returned events, position in epoll | enable/disable, update, remove, `handleEvents` | a channel freed while epoll still knows it | removed before it is freed |
| TcpConnection | `socketState_`, `outputBuffer_`, its channel | `send`, `shutdown`, `forceClose`, read/write/close handlers, establish, destroy | socketState_ is tested in one thread and changed in another; lifetime spread over queues | down once, output in order, SHUT_WR after the output |
| TcpServer, Acceptor, EventLoopThreadPool | map of connections, idle descriptor, loops | accept, new connection, remove, destructor | removal crosses from the connection's loop to the server's and back; descriptors run out and come back | every connection is owned while it is up and destroyed once, no peer waits for ever |
| TcpClient, Connector | two flags `connect_`, `state_`, `channel_`, `connection_`, retry delay | `connect`, `disconnect`, `stop`, attempts, `retry`, `restart` | retry timers, queued resets and restarts interleave; functions outlive the Connector | one attempt at a time while one is wanted, no descriptor lost |
| NetBuffer | vector, `readIndex_`, `writeIndex_` | append, prepend, retrieve, `readFD` | unsigned arithmetic at the edges | what is read is what was put in |
| AsyncLogging, CountDownLatch | current, next and full buffers, two spare ones, a counter | `start`, `append`, back thread, `stop` | front and back exchange buffers; drop under load | every message written once and in order, unless dropped under load |
| Logger, handlers, LogFile | `handlers_`, a file with its buffer, counters and times of the last flush and roll | `write`, flush, roll | file names that repeat, a clock that goes back, an abort in the middle | no line is lost by rolling or by a FATAL line |
| Socket, SockAddr | descriptors, addresses | system calls | what accept() makes of an address | see section 7 |

How they interact: every component runs in some EventLoop and hands work to
it with `runInLoop` and `queueInLoop`; TimerQueue, TcpConnection, Connector and
Acceptor are called from it through their channels. A TcpServer's connections
live in the loops of the EventLoopThreadPool while their map lives in the
server's loop. TcpClient calls Connector, which retries through the TimerQueue
and hands a socket back to TcpClient through a callback. The logger is called
from everywhere and has its own back thread.

## 2. The modules

| Module | Models | Lines of code |
|---|---|---|
| `EventLoop` | EventLoop with any number of other threads | EventLoop.cpp |
| `SerialExecutor` | what an EventLoop promises | abstract specification |
| `EventLoopThread` | Thread and EventLoopThread around an EventLoop (extends `EventLoop`) | Thread.h/.cpp, EventLoopThread.cpp |
| `TimerQueue` | Timer, TimerQueue, timerfd and clock | Timer.cpp, Timer.h, TimeUtil.cpp |
| `TcpConnection` | one connection with its channel, its place in epoll, its loop's queue and the server that owns it | TcpConnection.cpp, Channel.cpp, Epoll.cpp, parts of TcpServer.cpp |
| `TcpServer` | TcpServer, Acceptor and EventLoopThreadPool over several loops, connections and descriptors | TcpServer.cpp, EventLoopThreadPool.cpp, Epoll.cpp, EventLoop.cpp, parts of Socket.cpp |
| `TcpClient` | TcpClient with its Connector, the loop's queue and the retry timer | TcpClient.cpp, Connector.cpp |
| `NetBuffer` | the buffer of a connection | Buffer.cpp, Buffer.h |
| `AsyncLogging` | front and back of the asynchronous logger, its start and its end | logger.cpp, CountDownLatch.h, FixedBuffer in Buffer.h |
| `Logger` | Logger with a console and a file handler | logger.cpp |
| `EventLoopProofs` | theorems about EventLoop and EventLoopThread | |
| `NetBufferProofs`, `TimerQueueProofs`, `TcpConnectionProofs`, `TcpServerProofs`, `TcpClientProofs`, `AsyncLoggingProofs`, `LoggerProofs` | theorems about the module each extends | |

TLC runs the specifications themselves; the `.cfg` files give the constants. No
run uses symmetry, because each of the larger ones also checks liveness. A
definition whose comment begins with "Mutant" is a faulty variant of the one
after it, kept to show that a property notices the fault.

### EventLoop

`pc` is where the loop thread is in `loop()`: at the test of `running_`, in
epoll_wait, in the loop over the active channels, in the loop of
doPendingFunctions, or outside `loop()`. A call of another thread has two
steps, its store (`QueueInLoop`, `Quit`) and its write to the eventfd
(`Wakeup`), and can be overtaken in between; `wakers` holds the threads there.
The loop thread itself calls from user code (`InUserCode`): before and after
`loop()`, in a channel's callback, in a function of the queue. `queued` and
`executed` are histories; `early` marks functions the loop thread queued outside
`loop()`, for which the code writes no wakeup (`EventLoop.cpp:172`): they wait
for the epoll timeout or any other event.

### EventLoopThread

Adds the owner's side (`Thread::start`, `startLoop`, destructor) and the new
thread's side (notify, construct the loop, publish, `loop()`, clear). Condition
variables can wake up for no reason. `Patient` states that the owner destroys the
object only after the thread has entered `loop()`; `UserQuits` lets another
thread quit the loop the owner is going to quit.

### TimerQueue

Time is counted in ticks. `timerfd` is the monotonic time left, and the wall
clock can be set back. The timers are addresses (`Addresses`); `Reuse` says
whether the heap may give out an address again. Inserts and cancels come from the
loop thread at once and from another thread through the queue, whose
functions about timers are `pending`; callbacks may do both.

### TcpConnection

A call of another thread has the test of `socketState_`, then its store or
its queueing, as separate steps (`pc`). `queue` holds the functions queued for
this connection, those bound to a TcpConnectionPtr and those bound to a bare
`this` apart, since only the former keep it alive. `channel` is
the channel's state in Epoll, `revents` what handleEvents still has to
dispatch, in its order. A message is written as a unit: write takes any
number of the buffered messages. SIGPIPE is taken to be ignored by the program.
The I/O loop goes through its iterations (`phase`): epoll_wait (`Select`), the
dispatch of the events, the swap of the queue (`Swap`; `batch` counts what was
swapped out) and the functions of the batch. ~TcpServer hands the connection to the
loop (`DestroyServer`), then quits the loop and joins it (`QuitLoop`): at its next
test of `running_` the loop ends (`EndLoop`), whatever is left in its queue is
never run, and what a thread hands to it later is lost.
The history `overtaken` is set in the two cases in which the code loses track
of a close (`Overtakes`): a thread's shutdown() or forceClose() stores
DISCONNECTING over DISCONNECTED, or ~TcpServer destroys a connection that is
DISCONNECTING. The properties of a connection's end except what follows then.

### TcpServer

Up to three loops, each with its phase in `EventLoop::loop` (`select`,
`events`, `functions`), the channels still to be handled (`active`), its queue
and the part of it that was swapped out (`batch`), and the `channelMap_` of its
Epoll. Descriptors are numbers the kernel gives out lowest first, as soon as a
connection is freed; a connection is alive while the map or a queued function
has it. `handleRead` at EMFILE has three steps, one for each system call
(`CloseIdle`, `AcceptAndDrop`, `ReopenIdle`). The destructor queues
connectionDestory, then ends the threads of the pool one after the other. A
connection's own calls and output are left to `TcpConnection`. `RacyOpen` lets
other code open a descriptor between two of the three steps. A peer may come
back with the same port as soon as it has closed or reset its connection,
whether or not the server has removed the old one; the history `collided` is
set when a connection replaces another one of its name in `connections_`. The
model goes on: the removal of the old connection erases the new one's entry. It
stops (`Goes`) where a replaced connection is freed with its channel in
`channelMap_`, as the behaviour of the code is undefined from there.

### TcpClient

`queue` holds Connector's queued functions, the two flags named `connect_` are
separate variables. The loop thread and one other thread call; a stop() of the
other thread is cut between its two stores, a connect() between its two stores and
before it queues startInLoop (`other` says where it is). `Reconnects` allows
a connect() after a connection, `Prompt` states that the loop gets from the
end of an attempt to its queue before the retry timer is due. `Destroy` is
~TcpClient in the loop thread: retry timers own the Connector, queued functions
and the channel's callbacks do not, and `UseAfterFree` is the step in which one
of these reaches a Connector that is gone.

### NetBuffer

The two indices and the vector with its bytes, next to the abstract content.
Arithmetic on sizes is modulo `SizeMax`, the model's 2^64. After an assert
has failed nothing happens any more.

### AsyncLogging

A buffer takes `Capacity` messages, and more than `DropLimit` buffers (25 in the
code) at once are dropped but for two. The back thread's iteration is cut where
the mutex is taken and given back. `owner` is the thread that calls start(),
waits on the latch and calls stop().

### Logger

A thread takes a line through the handlers in the order of their names (`pc`).
The file handler's line goes into the stdio buffer of the file (`buffer`), which
is written out when it is full, flushed or closed. A file's name is its minute,
since `getFilename` prints the hour where the second belongs. The clock can be set
back. After a FATAL line `FileHandler::write` gives the mutex back before it takes
it again to flush, so other threads come in between. The file handler is a thread
safe one. `handlers_` is a map by name, so a console handler may come before the
file handler, as "Console Logger" does before "File Logger" in
`tests/logger_test.cpp:40-44`, or after it; `Order` has both.

## 3. The runs

`P` passes, `V` is a run whose property, taken from a document or a comment of
the repository, does not hold of the code.

| Run | | Properties | What it shows |
|---|---|---|---|
| event_loop | P | QueueOrder, ImplementsExecutor | functions run once and in order, in spite of the swap and of functions that queue functions |
| | | NoLostWakeup, QuitNotMissed | a loop in epoll_wait has been, or is being, woken for what is queued and for a quit |
| | | QueuedRunsOrLoopEnds | without the epoll timeout what is queued runs or the loop ends |
| event_loop_thread | P | LoopOutlivesUse | the loop from startLoop() exists until somebody calls quit() |
| | | JoinReturns | the destructor's join returns if the thread had reached `loop()`, also when another thread quits the loop too |
| event_loop_thread_lost_notify | V | StartReturns | the notification may precede the wait, and `start()` hangs |
| timer_queue | P | TimersConsistent | the two indices agree (`TimersMatchActive`), each Timer has exactly one owner (`OneOwner`) |
| | | TimerfdCoversEarliest, DueTimersRun | the timerfd is armed early enough whatever was inserted, cancelled or restarted, so due timers leave the queue |
| | | CancelledStaysOut | a timer cancelled during its own expiry is not put back |
| timer_queue_wrong_stop | V | StoppedOnlyByOwnId | a stale TimerId stops another timer at the same address |
| tcp_connection | P | DownAtMostOnce | one DOWN report however the connection ends, with close calls in all threads and ~TcpServer, unless a close was overtaken |
| | | WriteInterestExact, ShutdownCompletes | POLLOUT is requested exactly while there is output, and a shutdown waits for it and then happens, if the peer reads and ~TcpServer does not end the loop |
| | | SentInOrder, FinAfterDrain | each thread's messages keep their order and SHUT_WR cuts nothing off |
| | | ChannelRemovedBeforeFree, PeerCloseCleansUp | as long as the loop runs and no close was overtaken, the channel is out of epoll before it is freed, and a close of the peer gets it there |
| tcp_server | P | NoAssertFails, ActiveAlive | until two connections have one name, here and below: no loop meets the channel of a descriptor's last owner, nor a freed connection among its active channels |
| | | OwnedWhileUp, ClosedIsFreed | a connection is in the map while it is up, so a collision of names is the only way to lose it, and is freed when the peer has closed it |
| | | DestroyedOnce | a removal and ~TcpServer do not both destroy a connection; one the destructor does not report down is one whose loop never ran its queue again |
| | | BacklogServed | a peer is accepted or dropped also when descriptors have run out |
| tcp_server_keys | V | KeysUnique | two IPv4 hosts with the same port have the same key |
| tcp_client | P | OneAttempt | retries, restarts and queued starts never make two attempts at once, nor none while one is wanted, and fail no assert |
| | | NoSocketLeak | every descriptor has an owner, whichever of stop, error or success comes first |
| | | StopHolds, KeepsTrying | a stop() of the loop thread ends the attempts; a reachable server is reached |
| | | CleanDestroy | a client with a connection is destroyed without leaving a descriptor or a use of its Connector |
| net_buffer | P | HoldsContent | the content survives moves, growth and spills; append's size computation does not wrap unless prepend has used the reserved space |
| | | GrowsOnlyWhenFull | freed space is used first |
| async_logging | P | BuffersGoRound, NothingLost, DropsOnlyUnderLoad | the spare buffers always come back; a message is in one place and in order unless dropped under load |
| | | WrittenUnlessStopped | messages reach the file unless stop() comes first |
| | | StartAndStopReturn | start() gets past the latch and stop() returns, whichever thread is first at the latch or at the wait (the wait inside Thread::start() is event_loop_thread_lost_notify) |
| logger | P | LinesKept | rolling loses, repeats and reorders no line, also into a file that exists |
| | | RollsAndFlushes | a file outgrows its size only within a second of its opening; old lines do not stay in the buffer |
| | | FatalOnDisk | when a FATAL line ends the process, the lines handed to the file handler before it are on disk, unless a console handler sorts before the file handler and aborts first |

The type invariant of each module is a conjunct of one of its invariants
(LoopOutlivesUse, TimersConsistent, WriteInterestExact, NoAssertFails, OneAttempt,
HoldsContent, BuffersGoRound, LinesKept); that of EventLoop is checked by itself.

Deadlock checking is off in all of them: the calls are bounded, so the
models stop when their functions, messages or calls are used up, and a loop
that has been left or an object that has been destroyed does nothing more.

## 4. Bounds

* EventLoop: two other threads, so that one can be between store and write
  while another completes a call; three functions, so that one is running, one is
  in the batch and one in the queue; two quits. (The proofs need none of these.)
* TimerQueue: two timers at two addresses, delays of 0 and 1 and an interval of
  1, a clock up to 2, one step back, two queued functions: a timer can expire,
  be restarted and expire again while the other is inserted, cancelled and its
  address reused.
* TcpConnection: a thread and the loop thread, two messages between them, so
  that the second queues behind what is buffered, of the same sender or the
  other. `MaxDowns` = 2 leaves room for the second report that must not happen.
  One forceClose is queued at a time, and none is asked for once a close was
  overtaken.
* TcpServer: up to two loops besides the main one and three connections, so that
  the round robin wraps and a descriptor is used again while another connection
  is being removed; three descriptors, one of them the idle one, so that they run
  out. A peer can come back with its port, so names collide. The run on keys has
  two hosts with one port.
* TcpClient: six calls, enough for connect, stop and four more in between; the
  delays 1 and 3 stand for 500 ms and 30 s, so the doubling meets its limit after
  two retries.
* NetBuffer: reserved 2, initial 3, extra buffer 3 instead of 8, 1024 and
  65536; lengths up to 3 pass each of the thresholds by one.
  `SizeMax` is far above every sum that does not wrap.
* AsyncLogging: buffers of 2 messages and a drop limit of 3 instead of 25; nine
  messages fill more buffers than the limit in one exchange.
* Logger: two threads, three handlers, four lines, files of 3 lines, a flush
  every 2 lines, a minute of 2 and a day of 4 seconds: the size, the period,
  the buffer and the count of lines each reach their limit, and names repeat.

## 5. Fairness

* EventLoop: each step of the loop thread once it is possible, and each
  started wakeup. epoll_wait is only assumed to return when the eventfd is
  readable, so the 5 s timeout of the code is not what makes the properties hold.
* EventLoopThread: the owner's and the thread's own steps, the loop's steps with
  its epoll timeout, and the callers' wakeups.
  A condition variable's spurious wakeups are not assumed to happen.
* TimerQueue: time passes, the timerfd's expiry is handled, the queue is run.
* TcpConnection: the loop's thread goes on as long as the loop does (weak fairness
  of its next step; a wait in epoll_wait ends by a wakeup, an event or the
  timeout), a thread finishes the call it is in, and the main loop runs a queued
  removal while the server is there. Nothing is assumed of a loop that has ended,
  nor of the users or the peer, except in ShutdownCompletes: its premise
  `PeerReads` says that the socket is found writable again and again.
* TcpClient: the loop runs its queue and timers, an attempt has an outcome, a thread
  finishes the call it is in.
  `KeepsTrying` has as its premise that the server is reachable: of infinitely
  many attempts that could succeed one does (`Reachable`).
* AsyncLogging: the back thread goes on (its wait has a timeout), join
  returns once it has ended, and a wait on the latch once it is zero.
* TcpServer: each loop's thread goes on, epoll_wait returning only for an event
  or a wakeup, and a destructor that has begun goes on. No peer has to close.

## 6. Proofs

Every invariant and every action property of the passing runs is also a theorem,
for all values of the constants that the assumptions named below allow: any
number of threads, functions, timers, connections, descriptors, loops, messages
and calls. Each proof module defines the inductive invariant of its component
(`IInv`), proves that the initial states satisfy it and that each action keeps it
(one lemma or one step per action), and derives the properties. TLC has checked
each of these invariants on the instance of the component's run.

**EventLoopProofs** (from MaxQuits \in Nat).

* `Invariance`: the inductive invariant `TypeOK /\ LocalsExact /\
  WakeupReadable /\ QueueOrder /\ PendingSignalled /\ QuitNotMissed`;
  `TypeCorrect`, `OrderKept`, `WakeupNotLost`, `QuitSeen` are the four
  invariants of the run.
* `Refinement`: EventLoop implements `SerialExecutor`, with the batch followed
  by the queue as the functions still to do.
* `ThreadRunsEventLoop`: the two threads of EventLoopThread implement EventLoop,
  so all of this holds of a loop in a thread of its own;
  `ThreadLoopOutlivesUse`: LoopOutlivesUse.

`NoLostWakeup` speaks of a loop thread in epoll_wait and is not inductive: the
function may have been queued while the loop thread was at the test of `running_`
or executing a batch. `PendingSignalled` says it of every place from which
epoll_wait is reached without a swap in between, that is of all but the loop over
the active channels. While a batch is executed, what the loop thread itself
queues has its wakeup too, because `callingPendingFunctions_` is set.
`LocalsExact` ties the local state (`active`, `functions`, `calling`, `looping`)
to `pc`, and `WakeupReadable` says that the wakeup channel is active only while
the eventfd is readable, so reading it never takes it below zero. `QueueOrder`
(`queued = executed \o functions \o pending`) is inductive and carries the
refinement. LoopOutlivesUse needs that `loop()` does not return by itself
(`LoopsUntilQuit`) and that the owner past startLoop() has seen the loop
published (`OwnerBehindChild`).

**NetBufferProofs** (from NetBufferAssumption: the sizes put in stay below the
range of size_t). HoldsContent and GrowsOnlyWhenFull. Besides the order of the
indices the invariant bounds the vector and the write index by the bytes put in
(`Bounded`): without this the sums in append() could wrap. The lemmas say byte by
byte what each operation leaves between the indices.

**TimerQueueProofs** (from TimerQueueAssumption). TimersConsistent,
TimerfdCoversEarliest, CancelledStaysOut. A timer that is cancelled must also be
kept from coming back out of the queue of functions or out of the batch that is
being called (`CancelledNotBack`); a timer is inserted by at most one queued
function (`PendingExact`), and `timerCount_` is the number of Timers alive
(`CountsLive`), so it does not wrap. Addresses may be used again (`Reuse`).

**TcpConnectionProofs** (from TcpConnectionAssumption, with and without racing
closes and ~TcpServer, which may end the loop). DownAtMostOnce, WriteInterestExact,
ChannelRemovedBeforeFree, SentInOrder, FinAfterDrain. Only establish, and
perhaps a destroy, can be queued before the connection is up
(`BeforeEstablish`); while no close was overtaken the state, the reports and
the channel agree (`Lifecycle`), and the server or a queued destroy holds the
connection until its channel is removed or the loop has ended
(`OwnedUntilRemoved`); events are left to dispatch only in the phase that dispatches
them (`Dispatching`). The order of a
thread's messages is carried through the call in progress, the queue, the buffer and
the socket (`PcOrder`, `QueueOrder`, `StreamOrder`).

**TcpServerProofs** (from TcpServerAssumption). NoAssertFails, OwnedWhileUp,
DestroyedOnce, ActiveAlive. What is inductive is `collided \/ IInv`: nothing is
assumed about names, and a connection that replaces another one ends the claims
(`CollidedStays`). `IInv` lists the stages of a connection's life (`StageExact`),
each with the functions that are still queued for it, its entry in `connections_`
and its entry in a loop's `channelMap_`; says of each queued function what it will
find (`FunctionFits`), which excludes a second destroy and an establish after a
destroy; and that connections that exist have different descriptors (`FdsDiffer`),
so a descriptor used again never meets its last owner's channel. `ActiveUp` is why
no loop handles a channel that has been freed.

**TcpClientProofs** (from TcpClientAssumption, and `Assumed` as a hypothesis of
each theorem: connect() is called once, as Connector's assert demands, and the
loop is faster than the retry delay; section 8 says what happens otherwise).
OneAttempt, NoSocketLeak, and `TcpClientCleanNeverWild`, the safety half of
CleanDestroy: after a clean end nothing reaches the freed Connector. The
invariant counts queued functions: resetChannel is queued exactly while the
channel is removed and not yet reset (`ChannelExact`), a start that is pending
finds the state it asserts (`StartsClean`), before connect() has queued the
start there is nothing (`NotBeforeConnect`) and the start will find both flags
as they were stored, or a later stop() (`ConnectGoesOn`), and a wanted
connection has both flags set (`AttemptExact`), so that no test of a flag ends
the retries. For a client that was destroyed `NothingBound` says that no timer,
function or channel is left.

**AsyncLoggingProofs** (from AsyncLoggingAssumption). BuffersGoRound,
NothingLost, DropsOnlyUnderLoad. The invariant places the spare buffers
(`Spares`) and follows start(), the latch and stop() (`Handshake`). NothingLost
concatenates buffers with FlattenSeq of the community modules, a recursive
function: the lemmas about it are proved by induction over a set of natural
numbers (`NatSetInduction`), which needs no operator as parameter.

**LoggerProofs** (from LoggerAssumption). LinesKept,
FatalOnDisk, RollsAndFlushes. `FilesExact` says of all files together, with the
stdio buffer at the end of the open one, that they hold every line once and each
in order; `Budget` counts the lines on their way, `HandlersThere` keeps a
thread from a handler that is not there, `FatalRoute` keeps a FATAL line from
a console's abort while there is a FileHandler and no console before it, and
`Clocks` orders the times.

Only model-checked: the liveness properties (QueuedRunsOrLoopEnds, JoinReturns,
DueTimersRun, ShutdownCompletes, PeerCloseCleansUp, StopHolds, KeepsTrying,
CleanDestroy but for its safety half, WrittenUnlessStopped, StartAndStopReturn,
ClosedIsFreed, BacklogServed), as fairness and ENABLED are beyond the prover, and
the violations.

## 7. What is not modelled

* The text of a log line and of times; threads that race on `handlers_`, which
  has no lock (the data race has no outcome the model could enumerate), and a
  FileHandler that is not thread safe. With an asynchronous logger
  Logger::write only calls AsyncLogging::append, also for a FATAL line.
* ~TimerQueue, which deletes what is left, and ~Thread, which detaches. The new
  thread may set `tid_` while start() still assigns `thread_`; nothing reads it.
* Socket and SockAddr besides accept(), ip_str() and port(): wrappers. errno is
  taken to be what the failed call left (Acceptor::handleRead tests it after a
  line was logged).
* The growth of Epoll's array of events.
* Content of the input of a connection: handleRead calls the user, who may do
  anything the model's user does. A read that fails is only logged (handleError) and
  is left out, and so is a write that fails in sendInLoop's direct write, which
  WriteInterestExact shows is never tried.
* What a thread does to an EventLoop that ~TcpServer has destroyed, besides losing
  the function it hands over: the code then uses a freed object.
* A wall clock set forward. The timerfd is armed with an interval, so it fires
  by the old clock and the timers run late; only a clock set back is in
  `TimerQueue`.
* A log message larger than an empty buffer of AsyncLogging:
  FixedBuffer::append drops it without a word (Buffer.h:68-76). Each message of
  the model fits.
* The wait inside Thread::start(), which AsyncLogging::start() passes before its
  latch: `EventLoopThread` has it, and what can go wrong there.
* A failed write of the stdio buffer, when it is full or at fflush or fclose
  (logger.cpp:184-192, 280): in `Logger` only fwrite itself fails, for its own line.
* User code that keeps the connections of a TcpServer: `TcpConnection` has it.
* Exceptions, failure of eventfd/timerfd/epoll calls (the code logs and goes on).

## 8. Where code and documents disagree

Shown by the runs marked V, with the lines in `PROJECT.json` under "findings":
Thread::start() can miss its notification; a TimerId is not unique (with
`Reuse = FALSE`, where no address comes back, StoppedOnlyByOwnId holds); the key
of a connection is not unique.

Three more follow from the models without a run of their own. Functions that
send() and shutdown() of another thread queue are bound to a bare `this`
(TcpConnection.cpp:72, 95, 253) and outlive a connection whose users let go of
it: in `TcpConnection` such a function stays in `queue` when `Alive` is false.
The direct write of sendInLoop, with the call of writeCompletionCallback_ behind
it, is tried when the write interest is on and the buffer empty
(TcpConnection.cpp:114), which WriteInterestExact rules out. Also, a shutdown() of
the loop thread overtakes a sendInLoop that another thread has queued; its data
comes after SHUT_WR and stays in the buffer, with the write interest on.

Properties of the passing runs state where the code stops keeping a promise, in
their premises or in a constant:

* Functions queued when the loop leaves are dropped (EventLoop.cpp:117), hence
  "or the loop ends" in QueuedRunsOrLoopEnds. The documentation says calls of
  other threads are all carried out.
* A quit() before `running_ = true` is overwritten (EventLoop.cpp:114):
  JoinReturns fails with `Patient = FALSE`.
* ~EventLoopThread can call quit() on a loop that is gone when somebody else has
  quit it (EventLoopThread.cpp:13), hence `quits = 0` in LoopOutlivesUse.
* A cancel in the loop thread misses a timer whose insert is still queued
  (Timer.cpp:83), hence `missed` in CancelledStaysOut.
* shutdown() or forceClose() of another thread can overwrite DISCONNECTED
  (TcpConnection.cpp:252, 261), which brings a second DOWN; ~TcpServer can destroy
  a connection whose forceClose is queued (TcpServer.cpp:106), which then puts the
  removed channel back into epoll. Hence `overtaken`.
* The idle descriptor can be taken by other code between two system calls
  (TcpServer.cpp:74 says so): BacklogServed fails with `RacyOpen = TRUE`.
* ~TcpServer cannot report a connection whose loop has taken its last batch,
  hence `Alive` in DestroyedOnce; the loop that ends drops what is queued
  (EventLoop.cpp:117), hence `phase = "ended"` in ChannelRemovedBeforeFree,
  ShutdownCompletes and PeerCloseCleansUp. The connection is then freed with its
  channel still in the channelMap_ of an Epoll that goes with the loop.
* A peer that resets its connection and comes back with the same port has the
  name of the old connection, which may still be in the map: TcpServer.cpp:137
  replaces it and the removal erases the new one by name (158). Hence
  `collided`.
* ~TcpClient without a connection leaves stopInLoop, and a watched channel,
  bound to a Connector it frees (TcpClient.cpp:71), hence `clean`.
* If a console handler sorts before the file handler, as in the repository's own
  test, it aborts before a FATAL line reaches the file, and what is in the file's
  buffer is lost (logger.cpp:80, 170), hence `"before" \notin handlers` in
  FatalOnDisk.
* A stop() or disconnect() of the loop thread that falls into another thread's
  connect() may be undone by it (TcpClient.cpp:81-82): in StopHolds the stop counts
  only if no connect() starts the Connector after it.
* rollFile does nothing in the second of the last roll or after the clock was set
  back (logger.cpp:268, 360), hence the premises of RollsAndFlushes.
* TcpClient aborts on a second connect() (Connector.cpp:54) and when its loop is
  slower than its retry delay (Connector.cpp:120): OneAttempt fails with
  `Reconnects = TRUE` and with `Prompt = FALSE`.
* NetBuffer's room wraps below zero after a prepend into a full buffer
  (Buffer.cpp:69), hence the case `aborted` of HoldsContent.
* AsyncLogging does not write what is left at stop() (logger.cpp:429), hence
  WrittenUnlessStopped.

## 9. Plan

Done: EventLoop, EventLoopThread, TimerQueue, TcpConnection, TcpServer,
TcpClient, NetBuffer, AsyncLogging and Logger, with proofs of their invariants
and action properties.

Left: a specification of a connection's life (up, data, down) that
`TcpConnection` implements while no close is overtaken, and the proof of it; the
safety part of what is now stated only as liveness.

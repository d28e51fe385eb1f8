# MyMuduoNet in TLA+

A model of the network library of this repository (`src/mymuduo_net`, with its headers in
`src/include/muduo/net`): one event loop per thread, timers, pollers, TCP connections, the
server and buffers; and of the mutex and the blocking queues among its base headers. The modules
are translated from the C++ code and checked by TLC on small instances; the safety properties of
all of them, and the three refinements, are proved for every size with TLAPS.

Paths below are relative to the repository; asserts are taken to be active, because the build
(`CMakeLists.txt`) sets no build type and therefore no `NDEBUG`.

## 1. The system

| component | state | operations | interacts with |
|---|---|---|---|
| `EventLoop` | `quit_`, `pendingFunctors_` (under `mutex_`), `callingPendingFunctors_`, eventfd `wakeupFd_`, `activeChannels_` | `loop`, `quit`, `runInLoop`, `queueInLoop`, `wakeup`, `handleRead`, `doPendingFunctors`; forwards to poller and timers | every thread hands it functors; it calls channels' handlers |
| `EventLoopThread` | `loop_`, `exiting_`, mutex and condition, the thread | `startLoop`, `threadFunc`, destructor | owns the loop of its thread |
| `EventLoopThreadPool` | the loops, `next_` | `start`, `getNextLoop`, `getLoopForHash` | `TcpServer` |
| `TimerQueue`, `Timer` | `timers_`, `activeTimers_`, `cancelingTimers_`, `callingExpiredTimers_`, timerfd | `addTimer`, `cancel`, `handleRead`, `getExpired`, `reset` | through `runInLoop` from any thread; user callbacks call it back |
| `Channel` | interest `events_`, `revents_`, `index_` | `enableReading` ... `disableAll`, `remove`, `handleEvent` | poller below, `TcpConnection`, `Acceptor` and `TimerQueue` above |
| `EPollPoller`, `PollPoller` | `channels_`, the epoll instance or `pollfds_` | `poll`, `updateChannel`, `removeChannel` | `Channel::index_` is theirs |
| `TcpConnection` | `state_`, `reading_`, `outputBuffer_`, `inputBuffer_`, channel, socket | `send`, `shutdown`, `forceClose`, `forceCloseWithDelay`, `startRead`, `stopRead`, handlers, `connectEstablished`, `connectDestroyed` | its I/O loop's queue; the server's loop through the close callback |
| `TcpServer` | `connections_`, `nextConnId_`, `started_` | `start`, `newConnection`, `removeConnection(InLoop)`, destructor | acceptor, pool, connections in other loops |
| `Acceptor` | listening socket, `idleFd_` | `listen`, `handleRead`, destructor | `TcpServer::newConnection` |
| `Buffer` | a vector with `readerIndex_` and `writerIndex_` | append, prepend, retrieve, integers, lines, `readFd`, `shrink` | `TcpConnection` |
| `Socket`, `SocketsOps`, `InetAddress` | none of their own | system calls | `Acceptor`, `TcpConnection` |
| `MutexLock`, `Condition` | the pthread mutex, `holder_`, who sleeps | `lock`, `unlock`, `wait`, `notify` | every class that locks |
| `BlockingQueue`, `BoundedBlockingQueue` | a deque, or a ring with a capacity | `put`, `take`, `size`, ... | any threads; not used by the net library |

What is hard here, and what makes each part correct:

* **EventLoop.** Threads race the loop thread on the queue, the flag `quit_` and the eventfd. A
  functor queued at the wrong moment must not be slept over, run twice or overtaken, and `quit()`
  must not be slept through.
* **EventLoopThread.** Publication of `loop_` races `startLoop()`; destruction races a loop that
  has not started or is ending by itself.
* **TimerQueue.** Two sets must stay in step while callbacks add and cancel timers of the batch
  being run; the one-shot timerfd must always be set for the earliest timer; `cancel()` can race
  `addTimer()`.
* **Pollers.** The index of a channel, the map and the kernel's list must agree through every
  order of updates and removals and through reuse of descriptors. What a poll reported are raw
  pointers; handlers run before their turn may remove what they point to. The list given to
  `epoll_wait()` may be too short.
* **TcpConnection.** `state_` is a plain variable that other threads test and set; closing can
  start from the peer, from callbacks, from functors, a timer and the server, and must happen
  once; sent bytes must go out once, in order, and before the half-close.
* **TcpServer, Acceptor, EventLoopThreadPool.** A connection's end goes from its loop to the base
  loop and back, with pointers that keep it alive and some that do not; the server may be destroyed
  meanwhile, which ends the loops; descriptors run out; names come round.
* **Blocking queues.** Each operation wakes up one thread; woken threads meet newcomers and
  spurious wakeups on their way back in.
* **Buffer.** Index arithmetic when the readable bytes move or the vector grows, after prepends
  and retrievals.

`PROJECT.json` lists these hazards line by line with the properties that cover them.

## 2. Modules

| module | models | composed of |
|---|---|---|
| `TaskExecutor` | abstract: a queue of tasks run once and in order by one thread | |
| `EventLoop` | `EventLoop.c++` | implements `TaskExecutor` |
| `EventLoopProofs` | proofs about `EventLoop` | extends it |
| `EventLoopThread` | `EventLoopThread.c++` | extends `EventLoop` (one loop, owner as the only other caller) |
| `TimerQueue` | `TimerQueue.c++`, `Timer.c++` | uses the loop's FIFO as `TaskExecutor` describes it |
| `Channel` | `Channel.h`, `Channel.c++` | |
| `Poller` | abstract: the kernel watches each channel for exactly its interest, and what is reported stays registered until its turn | extends `Channel` |
| `EPollPoller`, `PollPoller` | the two pollers | |
| `LoopChannels` | the channels of `EventLoop::loop()`, `updateChannel`, `removeChannel` | extends `Channel`, instantiates both pollers, implements `Poller` |
| `TcpConnection` | `TcpConnection.c++` and what `TcpServer.c++` does with a connection | extends `Channel`; poller and loop as above |
| `Acceptor` | `Acceptor.c++`, `sockets::accept()` | |
| `TcpServer` | `TcpServer.c++`, `EventLoopThreadPool.c++`, with as much of connections and loops as their lives need | extends `Acceptor` |
| `ByteQueue` | abstract: a sequence of bytes with integers in network order, and lines | |
| `Buffer` | `Buffer.h`, `Buffer.c++`, `Endian.h` | implements `ByteQueue` |
| `MutexLock` | `Mutex.h`, `Condition.h` | |
| `BlockingQueue` | `BlockingQueue.h`, `BoundedBlockingQueue.h` | extends `MutexLock` |
| `EventLoopThreadProofs` | proofs about `EventLoopThread` | extends it and `EventLoopProofs` |
| `TimerQueueProofs`, `LoopChannelsProofs`, `TcpConnectionProofs`, `TcpServerProofs`, `BufferProofs`, `BlockingQueueProofs` | proofs about the module of that name | extends it |

`MCTimerQueue` and `MCLoopChannels` give TLC a symmetry set and a table of descriptors.
Operators named `Mutant_...` stand next to the definition they spoil; each is a plausible bug that
a property has to notice, and no specification uses them.

### How state and steps correspond to the code

**EventLoop.** Variables have the code's names; `functors` is the local batch of
`doPendingFunctors()`, `pc` the place in `loop()`, `op[t]` the `wakeup()` a thread still owes.
A step is one access to shared data, so `queueInLoop()` and `quit()` of another thread are two
steps: the store (`queueInLoop`, `quit`) and the eventfd write (`finishCall`). The eventfd counter
saturates at `EventfdMax`: the code logs a failed write and goes on. User code runs inside
handlers and functors (`pc` = `callback`, `functor`) and may call everything. Each functor is
queued at most once, so that running it twice would show. Two history variables: `ran`, and
`early`, the functors that the loop thread queues outside `loop()` and which get no wakeup.

**EventLoopThread.** `thread_` and `owner` are the two program counters. A loop whose thread has
left `threadFunc()` is destroyed; touching it is undefined and modelled as either no effect or an
error state of the owner. The destructor takes four steps: the test of `loop_` (`destruct`), its
second read for the call (`destructRead`), the store of `quit()` and its `wakeup()`. `badCall` is a
call through NULL or on a destroyed loop, `badWakeup` a loop destroyed between the store and the
wakeup, which the comment at `EventLoop.c++:177` admits. `selfQuit`, chosen in the initial state,
says whether code in the loop thread may call `quit()`; `badCall` happens only if it may.

**TimerQueue.** `pending` is the loop's queue of `addTimerInLoop`/`cancelInLoop` calls. Time is a
counter that advances between any two steps; time 0 is an invalid `Timestamp`. `getExpired()` ends
by destroying the sentry's `shared_ptr`, which owns the address `UINTPTR_MAX` (`TimerQueue.c++:182`):
undefined behaviour, modelled as a choice between going on and the state `crashed`.

**LoopChannels and the pollers.** `EPollPoller` and `PollPoller` define what their methods do to the
shared variables; `usePoll`, chosen in the initial state, says which one `newDefaultPoller()` made.
`poll`, `handled` and `functorsDone` are the steps of `loop()`; in handlers and functors channels are
opened, updated by their five interest calls, removed by owners that have given up their interest,
and closed; a later channel may reuse the descriptor. Any subset of the watched channels may be
ready; `missed` are those `epoll_wait()` had no room for; `epoll_wait()` reports them in any order,
while `PollPoller` goes through its array from the front (`inOrder`). Failing asserts and a failing
`epoll_ctl()` of the poller set `aborted` to `"poller"`, the assert of `EventLoop::removeChannel`
sets it to `"loop"`.

**Acceptor and TcpServer.** Loop 0 is the base loop. A loop is in its poll phase or in its functors
(`pc`), with the queue `pending` and the batch taken from it; that this is a FIFO without lost
wakeups is what `EventLoop` shows. `accept` is `Acceptor::handleRead()` with
`TcpServer::newConnection()`, its callback; the `EMFILE` branch is one system call per step, because
other threads open and close descriptors (`otherOpens`, `otherCloses`) between them. Errors of
`accept4()` are sorted as the switch in `SocketsOps.c++` sorts them. `referenced(c)` is the
reference count of a connection: `connections_`, functors bound to a `TcpConnectionPtr` and the
user's pointer count, the raw pointer of `send()` does not; a connection without a reference is
destroyed, and its socket closed. `nextConnId_` is an `int` used as a 32-bit counter; here it wraps
after `IdRange` connections. `~TcpServer()` goes through `connections_`, which is ordered by the names
as strings: it tells the connections of a loop in any order. Reductions, each without effect on what the properties see: the
acceptor goes at once in the destructor (in the code after the pool, but nothing can look at it);
`handleClose()` starts in the poll phase (the other ways are `TcpConnection`'s); descriptors of
other threads change only while a client waits; idle iterations of the base loop are left out.

**MutexLock and BlockingQueue.** `at[t]` is the place of each thread; `holder_` is written in a step
of its own next to the pthread calls, since `HolderIsOwner` is about just that. A body between
`lock()` and `unlock()` is one step, as the mutex makes it. A signal wakes any one thread asleep; a
thread may wake up without one; a woken thread competes with all others for the mutex. The queue is
its length: elements are only moved through it.

**TcpConnection.** A call from another thread is two steps, the test of `state_` and the rest
(`callBegins`, `callEnds`). `runFunctor` runs the queue's oldest functor, `poll` and `dispatch`
the callbacks of `handleEvent()` one at a time, `userReturns` what follows a user callback. A write
takes any part of the data, or fails after a half-close or reset. Data is a sequence of numbered
units of messages, so that loss, repetition and reordering all show. A failing assert ends the
process and leaves its name in `failed`. `misuse` records three things the code does not provide
for: `stopRead()`, `startRead()` on a closed connection (`lateRead`), and `shutdown()`,
`forceClose()` or `forceCloseWithDelay()` of another thread that overwrites `kDisconnected`
(`lateClose`). `Channel::tie()` is declared (`Channel.h:78`) and called
(`TcpConnection.c++:294`) but defined nowhere in the repository, so `handleEvent()` has no guard;
users are assumed to keep a `TcpConnectionPtr` while they use it. `~TcpConnection()` does not look
at its channel, so one that a `lateRead` put back after `connectDestroyed()` dangles in the poller's
`channels_`; the model ends there. `stopServer` always queues `connectDestroyed()`; the call that
`runInLoop()` makes at once when the two share a loop is in `TcpServer`.

**Buffer.** Operations are functions from buffer to buffer because `readFd()` and `shrink()` are
built from others. Bytes, integer widths, `kCheapPrepend` and the sizes are constants. `ReadLine`
is the way the searches are used: `findEOL()` or `findCRLF()` and then `retrieveUntil()` past what it
found, if it found one. `Values[w]` is the number of
values of `w` bytes.
`Buffer.c++` is not listed in `mymuduo_net/CMakeLists.txt`; it is modelled
as `TcpConnection` uses it.

## 3. Runs

Run from this directory: `tlc -config <cfg> <module>`.

| run | module, cfg | shows | distinct states |
|---|---|---|---|
| `loop` | `EventLoop` | no lost wakeup, no quit slept through, FIFO exactly once (refinement), queued functors run and `quit()` ends the loop by wakeups alone; with the poll's timeout also the early functors run | 123 000 |
| `thread` | `EventLoopThread` | no lost notification; unless the loop quits by itself, `startLoop()` returns a loop, the owner finds it alive in every call it starts and destruction ends a running loop | 11 000 |
| `timer_safety` | `MCTimerQueue`, `TimerQueue_safety` | the sets agree; no timer is lost, early or revived by `reset()` | 2.0 M |
| `channels` | `MCLoopChannels`, `LoopChannels` | over either poller: no assert of the poller and no `epoll_ctl()` fails, no dangling pointer in `activeChannels_` or epoll, indices and array agree through the swaps, no ready channel starves, implements `Poller` | 302 000 |
| `conn_allCalls` | `TcpConnection`, `TcpConnection_allCalls` | bytes go out intact whatever is called; each assert fails only after the misuse, or the server's end, that explains it | 1.8 M |
| `conn` | `TcpConnection` | disciplined use (other threads only `send()`): half-close after the data, buffered data watched, no assert fails, closing ends and the object is destroyed | 65 000 |
| `server` | `TcpServer` | what can go wrong between the loops, and only when (`FailsOnlyAfter`); connections are spread evenly; closed ones are released; the backlog is served even without descriptors | 683 000 |
| `buffer` | `Buffer` | `makeSpace()`'s asserts; implements `ByteQueue` | 17 000 |
| `queue` | `BlockingQueue` | `holder_` tells the truth, no signal is lost, no deadlock | 221 000 |

### Disagreements with a comment, doc or assert

These runs end in a counterexample; what the code does is the model, and the property states what
the repository says.

* `thread_join` (`DestructorJoins`): "通过析构对象的方式退出IO线程，实现了RAII"
  (`EventLoopThread.c++:26`). `loop()` clears `quit_`, so a destructor that runs between the
  publication of `loop_` and `loop()` waits in `join()` for ever.
* `timer_cancel` (`CancelCancels`): "Cancels the timer." (`EventLoop.h:104`). In the loop thread
  `cancel()` acts at once, ahead of the queued `addTimer()` of another thread; the timer runs.
* `conn_stopRead` (`HandleCloseAssert`): `assert(state_ == kConnected || state_ == kDisconnecting)`
  (`TcpConnection.c++:378`). After `stopRead()` the channel has no interest and is out of epoll;
  `disableAll()` in `handleClose()` adds it again (`EPollPoller.c++:90`), HUP arrives, and the
  connection is closed twice.

Met while modelling, without a run of their own: functors queued during the loop's last batch
never run, though `EventLoop.h:76` says "It wakes up the loop, and run the cb." (`QueuedRuns`
states the exception); `disableAll()` on a channel without interest puts it back into epoll, though
`Channel.h:65` says the opposite; `forceClose()` from another thread during a close trips
`assert(n == 1)` (`TcpServer.c++:105`), and `~TcpServer()` during a `shutdown()` trips
`assert(channel->isNoneEvent())` (`EPollPoller.c++:134`): both are cases of
`AssertsFailOnlyAfter`. `start()` is documented as thread safe (`TcpServer.h:66-67`), but from
another thread it aborts in the pool's `start()` (`startElsewhere`). `Buffer.h:242` requires
`sizeof(int32_t)` readable bytes where the assert at line 281 needs 8.

The exceptions in `FailsOnlyAfter` and `BacklogServed` are all reached. `~TcpServer()` with a pool:
a loop that is told to quit may end with `connectDestroyed` still queued, so that
`~TcpConnection()` finds the connection open, and a `removeConnectionInLoop` still queued in the
base loop runs with the server gone. The raw pointer of `send()` dangles when the connection is
closed during the call, or when the server is destroyed (without a pool too: `runInLoop()` of
`connectDestroyed` overtakes the queued `sendInLoop`); `send()` may also meet a loop that has ended.
A connection whose number comes round takes the map entry of a live one. If another thread takes
the descriptor that `idleFd_` gives up, `idleFd_` may be lost for good. `ENFILE` and `ENOMEM` end
the process.

A `BoundedBlockingQueue` of capacity 0 would block every `put()`; `MaxSizes` leaves it out.

### Bounds, and why they are enough

* `loop`: three functors (one running, one in the batch, one queued behind), two callers (both
  between store and eventfd write), one other channel, an eventfd that is full at 2. Deadlock is
  checked.
* `thread`: two functors, owner and loop thread. The system may stop after the destructor, hence no
  deadlock check.
* timers: two timers with intervals 0 (below a microsecond) and 1 and times 0 to 2 on a clock of 5:
  equal times, past times, cancellation of oneself and of the other, restarts. Bounded clock, so
  no deadlock check.
* `channels`: four channels on three descriptors, one reused, so that the removed place is first,
  middle or last and the moved one ignored or not, and three channels are active in one iteration.
  `kInitEventListSize` is 1, so that the list is too short and doubles twice. Channels live once. A
  failing assert of `removeChannel` ends the process, hence no deadlock check.
* `conn`: two messages of two units, a high-water mark of three, up to three queued functors at
  the time of a call. `conn_allCalls`: all six calls from both sides and a server that may go; no call
  begins when a functor is queued (`MaxQueue`) or after a `handleClose()` (`MaxCloses`), but calls
  already begun end after it, and the server, the peer, the loop and the timer queue more. A
  connection ends, hence no deadlock check.
* `server`: three clients, so that with two loops the round robin comes round and one name is reused
  (`IdRange` 2); no pool, or two threads, joined one after the other; descriptors for three, one of
  them spare, and other threads that take up to two; one `send()`. The process may end, hence no
  deadlock check.
* `queue`: four threads, so that two sleep, one is on its way back and one barges in; capacities 1
  and 2; no `put()` begins on an unbounded queue of length 2 (`MaxLength`). Deadlock is checked.
* `buffer`: every operation with up to 3 bytes of 2 values on a vector of up to 7 bytes with
  `kCheapPrepend` 2, so that moving, growing and prepending all meet; `extrabuf` of 2 bytes.

### Fairness

* `EventLoop`: the loop thread is scheduled, user code returns, a poll whose eventfd is readable
  returns, and a thread that owes a `wakeup()` makes it. Neither the timeout nor other events are
  assumed (`pollTimeout` is not fair), and nobody has to call `loop()` again. `TimeoutKeepsRunning`
  adds weak fairness of the timeout (`kPollTimeMs`) as its own premise.
* `EventLoopThread`: both threads run on; there `loopRuns` includes the timeout. A wait ends when
  notified; the spurious wakeups of the model are not fair. The owner need not destroy anything.
* `TcpConnection`: every iteration polls and then drains the queue, so polling and running functors
  are strongly fair; a peer that neither closes nor resets keeps reading, so that a write makes
  progress again and again; the server's loop runs.
* `LoopChannels`: handlers and functors return and `loop()` goes on. Which channels are ready and
  which of them the kernel reports is not fair.
* `TcpServer`: every loop thread runs. An iteration of the base loop gives the listening channel,
  level-triggered, its turn and then runs its functors; `destructor` and `start` interrupt neither for
  good, so `accept` and the steps of loop 0 are strongly fair. The system calls of the `EMFILE`
  branch and of the joins go on. The user thread returns from `send()` and drops its pointer.
  Clients, peers, other threads and the destructor are free to do nothing.

## 4. Proofs

`EventLoopProofs`, checked by `tlapm`, for any sets of functors, callers and channels and any
positive eventfd capacity (assumptions: `LoopThread` is not a caller, `WakeupChannel` not another
channel, `EventfdMax` a positive number):

* `TypeCorrect`: `Spec => []TypeOK`;
* `WakeupNeverLost`: `Spec => []NoLostWakeup`;
* `QuitNeverSleptThrough`: `Spec => []NoSleepThroughQuit`;
* `LoopImplementsTaskExecutor`: `Spec => TE!Spec`.

The inductive invariant is `Inv == TypeOK /\ LoopThreadInv /\ WakeupInv /\ NoSleepThroughQuit /\
BatchInv`. `NoLostWakeup` speaks of the loop thread inside `poll` only, and what is true there was
established elsewhere: `WakeupInv` carries it to every place of `loop()` from which a poll is
reached without `doPendingFunctors()` in between. Only `events` and `callback` are exempt, because
the swap follows; this is also where the eventfd is reset. It counts the loop thread's own pending
`wakeup()`, which `LoopThreadInv` shows to be over before the loop thread leaves a functor.
`LoopThreadInv` also ties `callingPendingFunctors_` to the place in `loop()`: this is why the
condition in `queueInLoop()` is enough. `BatchInv` (no batch outside `doPendingFunctors()`) makes
the swap a stuttering step of `TaskExecutor`.

`BlockingQueueProofs`, for any finite set of threads and any sets of capacities (assumptions:
`NoThread` is no thread, the capacities are natural numbers):

* `QueueTypeCorrect`: `Spec => []TypeOK`;
* `HolderTellsTruth`: `Spec => []HolderIsOwner`;
* `SignalNeverLost`: `Spec => []NoLostSignal`.

`Inv == TypeOK /\ OwnerInv /\ HolderInv /\ SleepInv` ties the owner of the mutex, `holder_` and the
sleepers to the threads' places. `HolderIsOwner` alone is not inductive: that no second thread gets
inside follows from `OwnerInv`. For the signals, `WaitInv` adds that takers sleep on `notEmpty_` and
putters on `notFull_`, and that a thread between its test and its sleep still must wait, since it
holds the mutex. Then `NoLostSignal` is kept by counting: a `take()` uses one element and is one
awake taker less (`queue_` and the count fall together), a `put()` adds an element and wakes up one
taker if any sleeps (`OneForOne`); a thread goes to sleep only when there is nothing to use; all
other steps only add threads that are awake (`MoreAwake`).

`EventLoopThreadProofs`, for any sets of functors and channels (assumption: the owner is the only
other caller):

* `ThreadTypeCorrect`: `ThreadSpec => []TypeOKThread`;
* `NotifyNeverLost`: `ThreadSpec => []NoLostNotify`;
* `OwnerNeverMissesLoop`: `ThreadSpec => []OwnerFindsLoop`;
* `ThreadKeepsWakeups`: until its thread destroys it, the loop keeps `NoLostWakeup` and
  `NoSleepThroughQuit`.

`ThreadInv` adds to the three properties `PublishedInv` (`loop_` is set exactly from its publication
to the end of `threadFunc()`), `StartInv` (until the destructor's `quit()` has stored `quit_`, only
the loop's own code can have called `quit()`, so `loop_` is not taken back; without this the
unlocked reads of `loop_` could be NULL) and `LoopInv`, the invariant of `EventLoop` as long as the loop exists. The
steps of the loop are those of `EventLoop`, so `LoopInv` is kept by the lemma `InvStep` of
`EventLoopProofs`.

`TimerQueueProofs`, for any set of timers (assumptions: intervals and the bounds of the clock are
natural numbers, `MinDelay`, the least delay of the timerfd, is positive):

* `TimerTypeCorrect`: `Spec => []TypeOK`;
* `SetsStayInStep`: `Spec => []SetsAgree`;
* `TimerNeverLost`: `Spec => []NoLostTimer`;
* `CancelledNeverRevived`: `Spec => []CancelledStaysCancelled`;
* `NeverEarly`: `Spec => []NeverAheadOfSchedule`.

All come from one invariant. `SetsInv` is more than `SetsAgree`: `timers_` is the set of the active
timers with their present expiration, which holds because `reset()` restarts a timer only while it
is in no set (`LifeInv`, `BatchInv`). `CancelInv` says of a timer cancelled during the batch that
`reset()` will find it in `cancelingTimers_`. `TimerfdInv` extends `NoLostTimer` into the batch:
nothing need be true of the timerfd there, since `reset()` sets it, except for the time 0, for which
`reset()` takes the earliest expiration as invalid. `ScheduleInv` keeps, for each timer, how often it
ran apart from when it expires next, with the batch split into the timers that ran and those that
did not yet.

`LoopChannelsProofs`, for any finite set of channels on any descriptors and either poller
(assumptions: `"NULL"` is no channel, descriptors are natural numbers, `kInitEventListSize` is
positive):

* `ChannelsTypeCorrect`: `Spec => []TypeOK`, with the bounds on `index_` and on the size of the
  event list;
* `PollersNeverAbort`: `Spec => []PollerNeverAborts`;
* `PointersStayGood`: `Spec => []NoDanglingPointer`;
* `IndexStaysRight`: `Spec => []IndexFindsOwnPlace`;
* `PollersImplementPoller`: `Spec => ImplementsPoller`.

`OwnerInv` says whose a descriptor's entry in `channels_` is: the one open channel on it, and a
channel without an entry has no interest. `EpollInv` ties epoll's list to the channels that are
`kAdded`, and `PollInv` the array of `PollPoller` to the registered channels, one place each, where
`index_` says, with its interest, and ignored only without interest. The array is
as long as there are registered channels because `index_` is a bijection between the two
(`CountedPlaces`), and `activeChannels_` no longer than `Channels` because no channel is active
twice (`ActiveInv`). The refinement maps Poller's watched interest to what the kernel's list says
and its reported channels to those whose turn is to come; the invariant gives `Watched = events_`
(`WatchesInterest`), and each interest call is then one step of `Poller`, or none.

`TcpConnectionProofs`, for any set of other threads, any calls from them and from callbacks, any
sizes of messages and marks (assumptions: `MessageSize` and `HighWaterMark` positive):

* `ConnectionTypeCorrect`: `Spec => []TypeOK`;
* `StreamStaysIntact`: `Spec => []StreamIntact`;
* `AssertsExplained`: `Spec => []AssertsFailOnlyAfter`;
* `BufferStaysWatched`, `HalfCloseWaits`: `Spec => []BufferedIsWatched`, `Spec => []FinAfterDrain`,
  if only the loop thread closes the connection (`OwnCloses`);
* `AssertsNeverFail`: `Spec => []NoAssertFails`, if moreover nobody calls `startRead()` or
  `stopRead()` and the server outlives the connection (`NoMisuse`).

The two hypotheses are about the constants `OtherCalls`, `LoopCalls` and `ServerStops`; run `conn`
is an instance of both, `conn_allCalls` of neither.
`StreamInv` adds to `StreamIntact` that after a failed write the socket takes nothing more, so that
no later data can follow the gap. `WatchInv` (data is buffered iff OUT is watched) survives every
call but a `lateClose`. `LifeInv` follows the connection through its life while the process runs:
`established` is the first functor (`EstablishedInv`), `destroyed` is queued once
(`DestroyedInv`), one `handleEvent()` closes or enters user code at most once (`TodoInv`), the
server lets go once (`CloseInv`), and the channel is in the poller while it should be
(`ChannelInv`, `RemovalInv`). Each of the latter holds under the absence of just the misuse that
breaks it, which is what `AssertsFailOnlyAfter` has to be inductive from.

`BufferProofs`, for any sizes, any bytes and any widths of integers (assumptions: sizes are natural
numbers, `ByteBase` is positive and even, so that integers have a sign, and widths are positive):

* `BufferTypeCorrect`: `Spec => []TypeOK`;
* `AssertsHold`: `Spec => []MakeSpaceAsserts`;
* `BufferImplementsByteQueue`: `Spec => ImplementsByteQueue`.

The invariant `WellFormed(buf)` has, besides the order of the indices, that the vector is never
shorter than `kCheapPrepend`: `makeSpace()` and `retrieveAll()` depend on it. For each operation a
lemma says what it leaves well-formed and what it does to the readable bytes; moving them to the
front and growing the vector change nothing (`makeSpace`), `readFd()` appends what fits and then
`extrabuf`. That an integer comes back as it was written (`IntegerOfBytes`) is an induction over its
bytes: the first `i` bytes of a number are its value divided by `ByteBase` to the power of the bytes
left (`FirstBytes`), and two's complement undoes the division with remainder (`TwosComplement`).
The provers cannot apply an induction theorem with an operator as parameter, so induction and the
existence of the recursive functions are lemmas about sets (`SetInduction`, `RecursionExists`).

`TcpServerProofs`, for any numbers of clients, threads, descriptors, names and sends (assumptions:
all are natural numbers, there is at least one name, and a largest number of threads):

* `ServerTypeCorrect`: `Spec => []TypeOK`;
* `ServerFailsOnlyAfter`: `Spec => []FailsOnlyAfter`;
* `LoadsStayEven`: `Spec => []RoundRobin`.

`PoolInv` ties the loads to `next_`: the loops before it have one connection more than the others,
and a connection is in the base loop only if there is no pool. For `FailsOnlyAfter`, `LifeInv`
follows a connection through the queues of the loops, as long as no name is used twice. A loop's
queue is the batch it has taken and what is pending, so that taking the batch changes nothing.
`EstablishedInv`: `connectEstablished()` is there once, in the connection's own loop, and before its
`connectDestroyed()`. `RemoveInv`: the removal is queued once, in the base loop, and its entry is
still in the map until the server goes. `OpenInv`: what keeps an open connection alive is the map,
until the server of a pool goes. `SendInv`: what keeps the connection of a `sendInLoop()` alive is
the map or the `connectDestroyed()` behind it, unless the connection was closed during the call.
Without the last part the raw pointer of `send()` could not be followed: closing takes the map's
pointer away while the functor is still queued. `PointerInv` (every pointer is to a connection that
was accepted, the map has it under its name) holds even when names are used twice. The actions are
sorted into eleven kinds of steps, as the connections see them, and each kind keeps `LifeInv`; the
queues are compared before and after by what is taken at the front and added at the end (`Follows`).

Only model-checked:

* all liveness, which needs fairness and `ENABLED`: `TimeoutKeepsRunning`, `QueuedRuns`,
  `QuitEndsLoop`, `StartLoopReturns`, `DestructorJoinsRunningLoop`, `NoChannelStarves`,
  `PeerGoneReleases`, `DisconnectingEnds`, `ClosedIsReleased`, `BacklogServed`.

## 5. Not modelled

* `Channel::tie()`: declared and called, defined nowhere.
* `EventLoopThreadPool::getLoopForHash`, `Condition::notifyAll`: nothing calls them;
  `Condition::waitForSeconds` is only declared.
* `inputBuffer_`: `Buffer` covers it; `TcpConnection` only counts unread data. Reference counts are
  in `TcpServer`; in `TcpConnection` users are assumed to keep their pointer.
* The elements in the blocking queues: the containers move them unchanged.
* `InetAddress`, and `Socket` and `SocketsOps` beyond `accept`, `close`, `shutdownWrite` and
  `getSocketError`: options, and conversions of addresses.
* The other headers in `src/include/muduo/base` (logging, threads, dates, `StringPiece`, ...):
  declarations of a library that is in the repository only as a binary.
* `src/testcase`: programs that use the library.

## 6. Plan

Done: the model of every component with state of its own, and the proofs of section 4, which state
every safety property that the passing runs check. What is left to the runs is liveness, and the
disagreements between documents and code, which are counterexamples.

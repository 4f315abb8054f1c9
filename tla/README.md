# Verification of muduo's core

The repository collects annotated copies of C and C++ projects (`readme.md`). Most
are unrelated third-party trees (FFmpeg, bitcoin, oceanbase, srs, libevent, libco,
Memcached, SGI-STL, boost). This project verifies the one network library among
them whose own concurrency is small enough to be modelled faithfully and rich
enough to be worth it: **muduo** (`muduo/muduo/base`, `muduo/muduo/net`), a reactor
library with one event loop per thread. Paths below are relative to `muduo/muduo/`.

## Inventory

| Part | State | Operations | What is hard | What makes it correct |
|---|---|---|---|---|
| `net/EventLoop` | `quit_`, `looping_`, `callingPendingFunctors_`, `pendingFunctors_` (mutex), `wakeupFd_` | `loop`, `quit`, `runInLoop`, `queueInLoop`, `wakeup`, `handleRead`, `doPendingFunctors` | any thread queues at any point of the iteration; wakeups are elided; the batch runs outside the mutex | no functor is slept over, lost, repeated or reordered; `quit` ends the loop |
| `net/EventLoopThread`, `base/Thread`, `base/CountDownLatch` | `loop_` (mutex, condition), start latch | `startLoop`, `threadFunc`, destructor | the loop lives on the thread's stack; the destructor reads `loop_` without the mutex | the destructor touches nothing dead; `startLoop` and the destructor return |
| `net/TimerQueue`, `Timer`, `TimerId` | `timers_`, `activeTimers_`, `cancelingTimers_`, `callingExpiredTimers_`, timerfd | `addTimer`, `cancel`, `handleRead`, `reset` | raw pointers and address reuse; cancelling inside a batch; late timers; foreign callers | both indexes agree with the heap; no lost alarm; a cancelled timer is not restarted |
| `net/TcpConnection`, `Channel` | `state_`, channel events, `outputBuffer_` | `send`, `shutdown`, `forceClose[WithDelay]`, `start/stopRead`, `connectEstablished/Destroyed`, the four handlers | direct and buffered writes, foreign sends, several reasons to close at once, unsynchronised `state_` | output order; graceful shutdown; taken apart exactly once |
| `net/TcpServer`, `Acceptor`, `EventLoopThreadPool` | `connections_`, the io loops, `next_`, the listen queue | `start`, `newConnection`, `removeConnection[InLoop]`, destructor | hops between loops, raw `this`, `shared_ptr` lifetimes, the descriptor limit | a connection is established, erased and taken apart once, in its own loop, and released; waiting clients are dealt with |
| `net/Connector`, `TcpClient` | connector state, retry delay, retry timer, `connection_` (mutex) | `connect`, `retry`, `stop`, `disconnect`, `restart`, destructor | a retry timer racing `stop`, a channel deleted later, destruction during a connect | one chain of retries; no socket leaks; no connection after `stop` |
| `base/ThreadPool`, `BlockingQueue`, `BoundedBlockingQueue` | deque, `running_`, two conditions | `start`, `run`, `take`, `stop` | one `notify` per waiter, competition for the mutex, tasks that queue tasks, stopping | no notification is one too few; queued tasks start; `stop` returns |
| `base/AsyncLogging` | current and next buffer, full buffers, two spares | `start`, `append`, `threadFunc`, `stop` | buffers that travel between threads, bursts, a `notify` without the mutex | every line is written in order or reported as dropped; spares are ready; `stop` returns |
| `net/Buffer`, `net/poller` | two indexes; channel registration | `append`, `prepend`, `makeSpace`, `readFd`; `updateChannel`, `removeChannel` | boundaries | not modelled |
| logging, dates, sockets wrappers, `http`, `inspect`, `protobuf`, `protorpc` | | | formatting, parsing, system calls | not modelled |

**Interaction.** The loop thread polls channels (sockets, the eventfd, the timerfd),
calls their handlers, then runs the queued functors. Any other thread reaches the
objects of a loop through `runInLoop`/`queueInLoop` only, except for the
unsynchronised flags it reads or writes itself: `quit_`, `state_` of a connection,
the two `connect_` flags of a client and `loop_` in `~EventLoopThread`. These, the order of functors against direct calls, and
the lifetime of objects bound as raw pointers are where the hazards listed in
`PROJECT.json` come from.

## Modules

`FunctorQueue` is the abstract promise of a loop: a functor is accepted once and
executed at most once, the queued ones first in, first out, and a `runInLoop` by the
loop thread overtakes the queue.

`EventLoop` is the loop in detail. The loop thread's `pc` names its position in
`loop()` and `doPendingFunctors()`; `pendingFunctors`, `functors`, `quit`, `looping`
and `callingPendingFunctors` are the members and the local vector of the same name;
`wakeupReadable` is "the eventfd counter is not zero". A foreign `queueInLoop` is two
steps, the push under the mutex and the `wakeup()`, since anything may happen in
between. Channels other than the wakeup channel are one channel `io`, whose handler
may do anything the loop thread's user code may do. `early` records the one case in
which the code itself relies on the poll timeout: the loop thread queues a functor
outside `loop()`, where `callingPendingFunctors_` is false and nobody writes the
eventfd, so the first poll may wait. It maps to `FunctorQueue` with
`queue = functors \o pendingFunctors`.

`EventLoopThread` composes an `INSTANCE` of `EventLoop` (its only caller is the owner)
with `threadFunc()`, `Thread::start/join` and the destructor. The mutex is held over
one step except at the end of `threadFunc`, where it is held until `UnlockMutex`. A
use of a NULL or destructed object goes to `misuse`. `Patient` tells an owner that
waits until the loop is known to run (the sleeps of `EventLoopThread_unittest.cc`) from
one that does not. The init callback may queue any functor or call `quit()`; the latter
is always undone by `quit_ = false`, while a functor that quits can end the loop before
`startLoop()` looks. The `wakeup()` that may follow the end of a loop (documented in
`EventLoop.cc` for `quit()`) is not counted as misuse.

`TimerQueue` keeps the two sets, the heap of `Timer` objects by address (addresses
are reused), and the timerfd as an alarm time and a readable flag. One foreign
thread adds and cancels through the functor queue; the loop thread and the timer
callbacks do so directly. `ForeignAddTimerReturns` models line 126, which reads the
timer again after handing it over: if it is gone, the number read is another timer's, its own
stale one or garbage (0). The clock ticks at any moment, so callbacks may outlast intervals and
a timer may be overdue when it is inserted. Time is in ticks; the 100 microseconds of
`howMuchTimeFromNow` are less than one tick, so a deadline in the past becomes "now".

`TcpConnection` models one connection of a server that shares its loop. Data is
reduced to units, a message being a run of its own number, so that order, loss and
partial writes are visible. The loop thread alternates poll, the callbacks of the
channel in the order of `handleEventWithGuard`, and the functors; user code acts in
the phases in which callbacks run. A foreign `send`, `shutdown` or `forceClose` is
split where `state_` is read, where it is written and where the functor is queued.
Asserts that would fail are collected in `failed` and execution goes on as with
`NDEBUG`. `resurrected` records the race both functions mark with "FIXME: use compare
and swap": a foreign thread writes kDisconnecting over kDisconnected. `reading_` is
not a variable: while connected it equals "the channel wants to read". User code is
assumed to call `startRead`/`stopRead` on connected connections only; a foreign
thread's `startRead`, `stopRead` and `forceCloseWithDelay` are left out.

`TcpServer` is the composition: the base loop 0 and the io loops 1..N, each with its
queue and the part of it that the current iteration has swapped out (`batch`). It keeps
the control of `TcpServer`, `Acceptor` and `EventLoopThreadPool` and, of a connection,
what decides its life: `state_`, with a `shutdown()` by callbacks in the io loop, the
channel's registration, and who owns it (`Held`: `connections_`, a functor in a queue, a
thread inside `send`). Identities are reused once nobody owns or mentions them. The
server is destructed by the thread of the base loop after `loop()` has returned; the
destructor is one step per connection, then `quit` and join per io loop, so io loops
close connections in between. An io loop is a local variable of its thread: when it
ends, the functors that came after its last swap are dropped with it (`IoLoopEnds`), and
the connections they belong to are `stranded`. The base loop's object outlives the server
and is destructed last (`BaseLoopDestructed`). A second thread calls `send` and holds the
connection during the call only; a functor it queues after `connectDestroyed` was queued
is `sendTooLate`, and the model leaves what it does undefined. With `N = 0` every hop is
a direct call; that case is `TcpConnection`. `broken` collects, by line and connection,
asserts that fail and uses of dead objects, and execution goes on as with `NDEBUG`.

`TcpClient` models `Connector` and `TcpClient` on one loop. `connect()` and `stop()` of
another thread are split where they set one flag, the other flag and queue the functor.
`restarting` is the window between the test at `TcpClient.cc:176` and
`Connector.cc:126`. The retry timers are counted, since nothing cancels them, and so are
the open sockets. A `connect(2)` may go on, fail for now or fail for good. Assumed: a
loop is never as late as a timer's delay (half a second at least), so a timer does
not overtake functors queued before it was set; the client is destroyed in the loop
thread, not inside one of its callbacks, and, if it is connected, not while functors
of its Connector are queued (nothing would keep the Connector alive for them); retrying
is enabled. An assert that fails ends the process.

`ThreadPool` has critical sections as steps: a thread is on its way to the mutex
(`take`, `run`), asleep on a condition (`asleep`, `blocked`), in a task, or outside.
`notify` moves one sleeper, whichever, to the way to the mutex, where it competes with
threads that just arrive; waits may wake spuriously. Tasks may call `run()`. Nobody
calls `run()` while `start()` fills `threads_`, which is not guarded. An exception in a
task ends the process and is left out. `BoundedBlockingQueue` and `BlockingQueue` are
the same code without `stop()`, the latter with `MaxQueueSize = 0`.

`AsyncLogging` follows the four buffers. A line is the number of its `append`, a
buffer the sequence of its lines, a pointer a sequence of length 0 or 1. `stop()` is
three steps, none of which holds the mutex. Lines appended after the logging thread's
last swap stay in the buffers; no document promises more.

Operators introduced by "A fault:" are not part of the models. Each is a plausible
error in the definition that follows it and shows, substituted for it, that a
property notices.

## Runs

| Run | Shows | Bounds |
|---|---|---|
| `eventloop` | no lost wakeup, refinement of `FunctorQueue`, queued functors run and `quit()` ends the loop without I/O and without the poll timeout | 2 foreign threads, 3 functors: one before, one during, one after a batch, from different threads; 13,243 states |
| `eventloopthread` | with a patient owner: the destructor touches nothing dead, `startLoop` and the destructor return | the unit test's two functors, one quits the loop, also from the init callback; spurious wakeups; 674 states |
| `eventloopthread_dtor` (violation) | an impatient owner: the destructor's `quit()` falls between the publication and `quit_ = false` and `join()` never returns | one functor |
| `timerqueue` | indexes agree, the batch stays alive, no lost alarm, cancelled batch timers stay cancelled, one-shots run once, due timers run | 2 addresses, 3 timers (so one address is reused), intervals 0 and 1, 2 ticks, one functor queued; 0.9 million states |
| `timerqueue_cancel` (violation) | the loop thread's `cancel` overtakes another thread's queued `addTimerInLoop` | the same |
| `tcpconnection` | output order, writing enabled iff output is buffered, graceful shutdown, a single taking apart, closing completes | 1 foreign sender and closer, 2 messages of 2 units (partial writes), mark 3 (reached by the second message only), an orderly server stop |
| `tcpserver` | life cycle of connections across loops, closed ones are released, waiting clients are dealt with | 2 io loops, 2 connections, as many as the descriptors allow (so accepting, turning away and reuse happen), 1 foreign sender, 1 client waiting; 446,557 states |
| `tcpserver_end` (violation) | `~TcpServer` destructs a connection that is not disconnected: the io loop drops the `connectDestroyed` that came after its last swap, or runs it over a connection in kDisconnecting | 1 io loop, 1 connection |
| `tcpclient` | asserts hold, sockets owned, one chain of retries, `stop` sticks | 3 connections (open, closing, and forgotten by a destroyed client), delays 2, 4, 5 (the cap is reached and kept), one `connect`, three `stop`s; 30,068 states |
| `tcpclient_reconnect` (violation) | `stop` and `connect` again break the asserts of `Connector` | two `connect`s, one `stop` |
| `threadpool` | no lost notification on either condition, queued tasks start, `stop` returns | 2 workers, 2 producers, 2 slots, 6 calls: woken and arriving threads compete on both sides, both workers can block in `run`; 99,634 states |
| `asynclogging` | lines accounted for, spare buffers ready, `stop` returns | 2 lines to a buffer, 3 buffers kept, 15 lines: the drop happens up to twice; 28,174 states |

The bounds are small, but each hazard needs few actors: a wakeup is lost between one
queueing and one swap, an address is reused by the second timer, a send overtakes one
buffered message. The runs of
`EventLoop`, `TimerQueue` and `TcpConnection` check for deadlock; in the others the
system may stop for good: an object is destructed, a pool stopped, or the bound on the
calls is reached. What must not stop is a liveness property there.

**Fairness.** The loop thread is weakly fair: callbacks return. It is *not* assumed
that I/O happens or that `poll` times out; what must hold without the 10 second
timeout is shown without it. A foreign thread finishes a call it has begun. The kernel
delivers a due alarm and `poll` returns while the timerfd is readable. For
`TcpConnection`, a peer that stays connected keeps reading, so a socket waited for is
found writable again and again (strong fairness of a poll that reports it), and a timer
that is set fires in some later iteration. In `eventloopthread` both threads run, but
nothing makes the owner act. In `tcpserver` every loop's thread runs, `poll` returning
after `kPollTimeMs` at the latest, and the thread of the base loop goes on with the
destructor; clients need not come nor peers close. In `threadpool` every thread that can run
does and tasks return, but nobody has to call `run` or `stop` and no spurious wakeup
has to happen. In `asynclogging` the timed wait ends. `tcpclient` checks safety only.

**Findings.** (1) `quit()` before `quit_ = false` is lost and the destructor hangs.
(2) `cancel()` by the loop thread overtakes an `addTimer` still in the functor queue and has no effect.
(3) `TcpClient::stop()` followed by `connect()` fails the asserts of `Connector`: the
channel of the first attempt, or its retry timer, is still there.
(4) `~TcpServer()` can destruct a connection that is not disconnected, against the assert
of `~TcpConnection()`, in two ways. The `connectDestroyed()` it queues is dropped if the io
loop has made its last swap: `quit()` ends the loop, whose destructor frees the functor
and with it the connection, connecting or connected. Or the functor runs and finds
kDisconnecting, in which it does nothing but remove a channel that still wants to read,
against the assert of `Channel::remove()`. The two traces of `tcpserver_end` have the same
length, so TLC may show either; with `Conns \ stranded` for `Conns` in the property it
shows the second.

Two more behaviours met while modelling have no document against them and no run. A
foreign thread that calls `send()` and then `shutdown()` can lose the message when older
output drains in between (`TcpConnection.cc`, lines 203 and 390); `GracefulShutdown` is
therefore stated for the loop thread. And `startLoop()` waits forever if the init
callback queued a functor that quits and the loop ends before `startLoop()` tests
`loop_`, which is NULL again then (`EventLoopThread.cc`, lines 50 and 78).

Limits that the properties make explicit: `StartLoopReturns` excepts exactly that last
case; `NoLostQuit` speaks of `quit_` as it is, so of no `quit()` that line 109 has
overwritten (finding 1); `IndexesAgree` does not notice that a stale `TimerId` cancels
another timer than its holder meant; `ClosesOnce` excepts a resurrected connection;
`QueuedTaskStarts` and `StopReturns` of `ThreadPool` except tasks that wait in `run()` on
a full queue; `StopSticks` excepts a `stop()` inside the window of `restart()`.
`LifecycleSafe` says nothing about a `send` queued after `connectDestroyed`, and excepts
two kinds of connections, both only when the server ends: those given up in
kDisconnecting and those stranded by an io loop (both finding 4). It also does not
follow the memory of a loop: `~Channel()` reads `loop_` (`Channel.cc:41`), and a
connection whose last owner is in the base loop's queue may outlive its io loop.

## Proofs

A module `XProofs` holds the proofs about module `X`. They hold for every value of the
constants that the named assumptions in `X` admit: any number of threads, loops,
connections, timers, messages or buffers. Where an invariant is not inductive, the
strengthening was first checked by TLC on the instance of the run. Every theorem about
a property of a run names that definition, so the run and the theorem speak of the same
formula.

**EventLoopProofs.** `TypeCorrect`, `WakeupInvariant`, `NoWakeupLost`,
`NoQuitLost`, `Refinement`.
`NoLostWakeup` speaks of `poll` only and is not inductive: a functor pending at `check`
must already be signalled. `WakeupInv` extends it to every position but those between
the poll and the swap, where the swap is still to come, and adds that
`callingPendingFunctors` and the local vector agree with the position, which is what
makes the condition in `queueInLoop` sufficient. The critical steps are draining the
eventfd (the loop is then bound to swap), the swap (it empties the queue) and a queueing
by the loop thread during a batch (the flag is set, so it signals itself). In
`Refinement` the swap is a stuttering step because the local vector is empty before it
(`WakeupInv`); a push appends to the whole queue (`AppendConcat`), a call takes its head
(`HeadTailConcat`), and a functor fresh in the detailed model is fresh in the abstract
one (`ElementsConcat`).

**EventLoopThreadProofs.** `RunsAnEventLoop`: the composition implements `EventLoop`
with the owner as the only caller, every step of owner or thread being a step of the
loop or a stutter. So the theorems of `EventLoopProofs`, instantiated, hold of it:
`OwnerIsHeard` is `NoLostWakeup` and `NoLostQuit` of the composition without a proof of
its own; a `quit()` that `quit_ = false` overwrites is not covered, and is finding 1.
`TypeCorrect` needs the phases of both threads (`PhaseInv`). `PatientOwnerIsSafe` is
`DestructorIsSafe` for `Patient = TRUE`. It does not hold of an impatient owner: the
loop may end by itself and be destructed between the test of `loop_` and its use, the
race that the comment at `EventLoopThread.cc:33` admits. The invariant `SafeInv` says why
waiting helps: `loop_` is only tested when the thread has ended, or the loop is inside
its `while` and nothing that could end it is queued or has run.

**TimerQueueProofs.** `TypeCorrect`, `IndexesAlwaysAgree`, `BatchStaysAlive`,
`AlarmIsNeverLost`, `CancelInBatchSticks`, `OneShotsRunOnce`. `OwnInv` assigns every
`Timer` object to exactly one owner (the two sets, the expired batch, or one queued
`addTimerInLoop`), which is what makes the reuse of an address harmless: an object is
freed only by its owner. `HistoryInv` adds that what was cancelled inside a batch is in
`cancelingTimers_` until `reset()` looks.

**TcpConnectionProofs.** `TypeCorrect`, `WritesWhenBuffered`, `OutputStaysInOrder`,
`ShutdownIsGraceful`, and `ClosedOnce` under the assumption `ServerStops # "any"`: the
server lets go of the connection in an orderly way or not at all. The excluded case, a
connection in kDisconnecting, fails as finding 4 says; the other theorems include it.
`OrderInv` relates the three places of a message
(accepted, queued, held by its sender) per thread; `TornDownOnce` says that the map
entry, the one queued `connectDestroyed` and the finished teardown exclude each other;
`GraceInv` that everything the loop thread sent was taken whole, and that nothing is
buffered once the write side is shut down.

**TcpServerProofs.** `TypeCorrect` and `LifecycleIsSafe`, from an invariant over all
loops' queues (`Inv`, checked by TLC on the 446,557 states of `tcpserver`). Besides the
types it has five parts. A functor is in the loop it is meant for, once if it owns its
connection, and `connectDestroyed` is behind `connectEstablished` and behind every send
queued in time (`QueueInv`). For each connection that is not stranded (`Stage`): it is
kConnecting exactly while `connectEstablished` is queued; it still has to be taken apart
exactly while it is in `connections_` or `connectDestroyed` is queued, never both; while
the base loop runs, only `removeConnectionInLoop` erases the entry, and a connection that
is not disconnected is in `connections_`, so one is destroyed half closed only after the
base loop's end. A stranded connection has seen both its loops end and is not in
`connections_` (`StrandedInv`), so no step that matters to others touches it. The
destructor begins after the base loop, tells the io loops to quit after the last
connection was given up, and ends after them (`DtorInv`). What failed is line 61, for a
connection that is half closed (`BrokenInv`). The queues enter the proof only through the
set of functors they hold (`Push`, `Pop`, `Dropped`).

**TcpClientProofs.** `TypeCorrect` and `StopIsFinal` hold for any number of calls of
`connect()` and `stop()`. `TypeOK` says that `fds` stays a natural number, which needs
`Owned <= fds`: whoever closes a socket owns one. `StopInv` says what a `stop()` in force
has cleared: both flags, and no `restart()` is under way. `OneConnectIsSafe`,
`NoSocketLost` and `OneRetryChain` assume `MaxConnects <= 1`, with any number of
`stop()`s; a second `connect()` is the violation run `tcpclient_reconnect`. Their invariant (`Inv`, checked by TLC on the 30,068 states of
`tcpclient`) has four parts besides the types: a queued start, a timer and an attempt or
connection exclude each other, and a start is queued only when no channel is left
(`ChainInv`); the functor that deletes the channel is queued exactly while the channel is
removed, in front of every `forceClose` of an open connection, and has run before poll
reports that connection (`ChannelInv`), so `restart()` finds no channel; at most one
connection is open, and it is the client's (`ConnInv`); a client that is gone does not
connect, and a `stopInLoop` is queued if it was in an attempt (`GoneInv`). The queue
enters the proofs only by how often a functor occurs and by that order (`Adds`, `Takes`,
`TakesAndAdds`).

**ThreadPoolProofs.** `TypeCorrect` and `NotifyIsEnough`. `NoLostNotify` is inductive
given the types; the proof counts the threads at each position before and after a step
(`Count`, from `FiniteSetTheorems`).

**AsyncLoggingProofs.** `TypeCorrect`, `AssertionsOfThreadFunc`, `NoLineLost`.
`PointersInv` follows the circulating buffers: `nextBuffer_` is missing only while a
full buffer waits, so the swap that gives `newBuffer2` away takes at least two. For the
lines, what `FlattenSeq` does to an appended or concatenated sequence of buffers is
proved by induction over sets of naturals (`LeastNatural`, from the library's
well-foundedness of `<`, and `SetInduction`): stated for a set instead of a predicate,
induction needs no operator parameter and is within the provers' reach.

Only model-checked: the liveness properties (`QueuedRuns`, `QuitEndsLoop`,
`StartLoopReturns`, `DestructorReturns`, `DueTimerRuns`, `ShutdownCompletes`,
`CloseCompletes`, `ClosedIsReleased`, `BacklogDrains`, `QueuedTaskStarts`, both
`StopReturns`), which need fairness and ENABLED. Every invariant, the refinement and the
action property of the passing runs are theorems, under the assumptions named above.

## Plan

The modules of the plan are written: `EventLoop` with its abstract `FunctorQueue`,
`EventLoopThread`, `TimerQueue`, `TcpConnection`, `TcpServer`, `TcpClient`,
`ThreadPool`, `AsyncLogging`, and the proofs of all their safety properties.

No module uses a RECURSIVE operator, so that each can be proved about.

## Not modelled, and why

Formatting, parsing and file output (`Logging`, `LogStream`, `LogFile`, `Date`,
`TimeZone`, `http`, `protobuf`) have no protocol to check. System calls appear as the
environment: what `write`, `poll`, `connect`, a timerfd or a peer may do. The pollers keep
an index per channel, a cache of the kernel's registration that only the loop thread
touches; the loops are modelled over what `poll` reports. `Buffer` is sequential data
layout with a unit test. Exceptions thrown by callbacks, `fork`, and the teardown of
`TimerQueue` are left out, and so is the memory of loop objects other than in
`EventLoopThread`.
`TcpServer.h` calls `start()` thread safe, while `EventLoopThreadPool::start()` asserts
the base loop's thread; the model starts the server there.

The other trees (oceanbase, bitcoin, FFmpeg, srs, libevent, Memcached, boost and more,
over four million lines) are complete third-party projects that share nothing with
muduo but the repository. Each would be a verification project of its own, so the share
of the repository's lines that these modules stand for is, and stays, very small; of
muduo's concurrent core they cover every class that owns a thread, a loop, a queue or a
timer.

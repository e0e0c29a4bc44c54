# Verification of SZMuduo

SZMuduo is a small C++11 network library after muduo: one event loop per
thread, level-triggered epoll, and TCP connections whose callbacks run on the
loop that owns them. This directory holds TLA+ models of its parts, the TLC runs
that check them, and TLAPS proofs about six of the parts. Line numbers refer to
the repository; `TcpConnection.cc:120` is `src/TcpConnection.cc`, line 120.

    tlc -config EventLoop.cfg MCEventLoop.tla
    tlapm EventLoopProofs.tla
    tlapm TcpServerProofs.tla

and likewise for every `.cfg` (its module is in `PROJECT.json`) and every `*Proofs.tla`.

`PROJECT.json` lists every run, the definition-to-source map, a fault for each
property that it must detect, the findings, the hazards and the theorems.

## 1. The system

| Part | State | Operations | Talks to |
|---|---|---|---|
| EventLoop | `quit_`, `looping_`, `wakeupFd_`, `pendingFunctors_` under `mutex_`, `callingPendingFunctors_`, `activeChannels_` | `loop`, `quit`, `runInLoop`, `queueInLoop`, `wakeup` | its Poller (calls), its Channels (callbacks), any thread (functors, eventfd) |
| Poller / EPollPoller | `channels_`, `events_`, the kernel's epoll table | `poll`, `updateChannel`, `removeChannel` | kernel, Channels (raw pointers) |
| Channel | `events_`, `revents_`, `index_`, `tie_` | `enable*`/`disable*`, `remove`, `handleEvent` | its loop, its owner's handlers |
| Buffer | `buffer_`, `readerIndex_`, `writerIndex_` | `append`, `retrieve*`, `readFd`, `writeFd` | socket |
| TcpConnection | `state_`, two Buffers, Channel, Socket | handlers of the channel, `send`, `shutdown`, `connectEstablished`, `connectDistroyed` | its loop, TcpServer, user callbacks, other threads |
| TcpServer | `connections_`, `nextConnId_`, `started_` | `start`, `newConnection`, `removeConnection[InLoop]`, destructor | Acceptor, pool, connections on other loops (functors) |
| Acceptor | `listening_`, listening socket and channel | `listen`, `handleRead` | base loop, TcpServer |
| EventLoopThreadPool, EventLoopThread, Thread | `loops_`, `next_`; `loop_` under `mutex_`/`cond_`; `started_`, `joined_`, a semaphore | `start`, `getNextLoop`; `startLoop`, `threadFunc`, destructor; `start`, `join` | base thread, loops |
| Logger | one shared level | the `LOG_*` macros | everyone |
| Socket, InetAddress, Timestamp, CurrentThread, Callbacks, DefaultPoller | none that matters | wrappers | |

A connection is accepted on the base loop, handed to a sub-loop by a functor
(`newConnection` -> `connectEstablished`), lives there, and is removed by a round
trip: sub-loop `handleClose` -> base loop `removeConnectionInLoop` -> sub-loop
`connectDistroyed`. Any thread that a callback gave the connection to may call
`send` and `shutdown`, which become functors of the sub-loop.

What is hard: wakeups (a flag, a queue, an eventfd and a sleeping thread that
must never miss each other); the order of functors, handlers and system calls in
one turn of the loop; bytes that go partly to the kernel and partly to a buffer;
life times, which shared_ptr, weak_ptr and raw pointers govern side by side; a
poller that mirrors the kernel's table while descriptor numbers are used again;
starting and stopping threads that own the objects others point to.

## 2. The modules

| Module | Models | Against |
|---|---|---|
| `TaskQueue` | what `queueInLoop`/`runInLoop` promise: one FIFO queue, each functor run once | |
| `EventLoop` | EventLoop.cc: the loop's thread and the others | refines `TaskQueue` |
| `EventLoopProofs` | theorems about `EventLoop` | |
| `ByteQueue` | what a buffer promises: bytes come out as they went in | |
| `Buffer` | Buffer.h, Buffer.cc | refines `ByteQueue` |
| `BufferProofs` | theorems about `Buffer` | |
| `ConnectionLifecycle` | up, down once, removed | |
| `TcpConnection` | TcpConnection.cc, Channel::handleEvent, the removal handshake of TcpServer.cc, socket and peer | refines `ConnectionLifecycle` (one loop) |
| `TcpConnectionProofs` | theorems about `TcpConnection`: its bytes | |
| `TcpConnectionLifeProofs` | theorems about `TcpConnection`: its life and its end | |
| `Poller` | what `poll` and `updateChannel` promise | |
| `EPollPoller` | EPollPoller.cc, index_ and interest set of Channel, the kernel's table | refines `Poller` |
| `EPollPollerProofs` | theorems about `EPollPoller`, whatever `UnionData` is | |
| `EventLoopThreadPool` | EventLoopThreadPool.cc, EventLoopThread.cc, Thread.cc | |
| `EventLoopThreadPoolProofs` | theorems about `EventLoopThreadPool` | |
| `TcpServer` | TcpServer.cc, Acceptor.cc and `main()` of the example: several connections, a base loop and the sub-loops of a pool | |
| `TcpServerProofs` | theorems about `TcpServer` | |
| `Logger` | Logger.h, Logger.cc | |

An `MC` module extends each detailed one for TLC. Operators marked `Mutant` in a
comment are faulty variants of the definition that follows; no specification
uses them.

**EventLoop.** `pc` is where the loop's thread is (before `loop()`, at the test
of `quit_`, in `epoll_wait`, between handlers, in a handler, before the swap,
between functors, in a functor, after `loop()`), `thr[t]` whether thread `t` still
has to call `wakeup()` in `queueInLoop` or `quit`. Each step is a critical section of
`mutex_`, an access to an atomic, or a system call. User code (`callback`,
`functor`, before and after `loop()`) may queue, run or quit. In `queueInLoop`
on the loop's own thread the push and the `wakeup` are one step: nothing of the loop
happens between, and other threads only add to the queue or make the eventfd
readable. `wakeupFd_` is 0 or 1: only "not zero" is ever seen, and 2^64 - 2
unread wakeups do not happen.

**TcpConnection.** `phase` and `todo` are the loop's thread: `todo` is the stack of
calls it is in, innermost first, so that `write(2)` can be interrupted by the peer
and user code in a callback can call `send` or `shutdown` in the middle of a
handler. `thr` holds what each other thread is in the middle of: `send` and
`shutdown` test `state_` in one step and act in the next. `pending`/`functors` are
the loop's queue as in `EventLoop`; `mainPending` is the base loop's share of the
removal. `DestroyServer` is the body of `~TcpServer`; what follows it makes the sub-loop quit, so
that from then on `LeaveLoop` may be its next step wherever it would poll again, and what is queued dies
(`phase = "left"`). `EndBase` is the end of the base loop, which comes after that. A thread that then queues a functor uses a
loop that is gone (`phase = "misused"`). `connectDistroyed` tests `state_` in one step and sets
it in another, `Disconnect`. `sock` is the kernel and the peer: bytes to be read, bytes sent, room in
the send buffer, FIN and reset. `Referenced` says whether any shared_ptr is left,
which is what decides if a functor with the raw `this` is undefined behaviour
(`phase = "undefined"`). `accepted`, `sentBy`, `promised`, `downs`, `upcall` only
record history. Descriptors are blocking, as `accept` leaves them; a write
returns short when a signal interrupts it. A message is `Size` copies of its name, so a partial write, an
overtaking or a repetition shows in `sock.sent`.

**Buffer.** Indices count from 0 as in the code. `AppendTo` is `append` with
`makeSpace`; `ReadFd` is a `readv` into the room and an array on the stack;
`HandOut` is `retrieveAsString`, and `writeFd` with the `retrieve` that follows it.

**EPollPoller.** `UnionData = TRUE` is the code as it stands: `update` stores the
channel in `event.data.ptr` and then the descriptor in `event.data.fd`, which is the
lower half of the same memory, so that the stored data, `Data(c)`, is the wild pointer
`<<fd_[c], c>>` (run `EPollPoller_union`). `fillActiveChannels` writes through each
pointer it gets; what follows a write through a wild one is not modelled (`Running`).
Up to there the theorems, which hold for both values of `UnionData`, show that the tables
agree and that what `epoll_wait` returns is the data of the right channels. The run
`EPollPoller`, with `UnionData = FALSE`, shows the same where the program goes on after
`poll`, and so that this line is all that keeps the poller from its contract; the modules
above it assume the contract.

**EventLoopThreadPool.** `pc`/`cur` are the base thread at an EventLoopThread,
`thr[i]` thread `i` in `threadFunc`, the EventLoop on its stack included. `misused`
records which kinds of objects were used after their end.

**TcpServer.** This module composes what the others have one by one, each at the grain
the server can see. `loop[0]` is the base loop, on which `main()` runs the server, and
`loop[1..threads]` the pool as far as it has been started, with `numThreads_` chosen
in `Init` (0 is the one-loop server). A loop is the one of `EventLoop` without its wakeups, with the test of
`quit_` and `epoll_wait` in one step, since nobody sees the loop between; `active`
is `activeChannels_`, fixed when `epoll_wait` returns and acted on later. `Start` is
`TcpServer::start` called by `main()` before `loop()`, which puts the threads of the pool inside
`loop()` and listens: nothing the model has can happen meanwhile, so it is one step.
Another thread (`other`) may call it too, and then it takes its steps, `StartElsewhere`, `StartThread` for each
thread and `StartListen`, while `main()` goes on, leaves its loop and destroys the server;
what it does after that is recorded (`StartTooLate`). The same thread may call `quit()` on the base loop, and
what it writes the eventfd for, `WakeupBase`, may come when the loop is gone. `Accept` is
`Acceptor::handleRead` and `newConnection`: the lowest free descriptor, the next loop in
turn, `connectEstablished` at once or as a functor; or, because the length passed to
accept is not initialised (Acceptor.cc:52, Socket.cc:36), a client taken from
the backlog and lost. `AcceptFails` is `EMFILE`. `HandleClose`,
`RemoveConnectionInLoop` and `ConnectDistroyed` are the removal; `Open` says whether
`connections_` or a functor of any loop, those already run in the vector included, refers to the connection,
and a connection that is not open has closed its descriptor, whose
number is then used again. `channels_[l][fd]` is the poller of loop `l`, keyed by
descriptor as in the code. `Destroying` and what follows is `~TcpServer` after `main()` has
left the base loop: `DestroyConnection` for each connection of the map, then
the members in reverse order, `QuitThread`, `QuitWakeup` and `JoinThread` for each
thread of the pool, `DestroyAcceptor` last. `Done` is the ended process.

**Logger.** A statement sets the shared level, formats, and prints the label and the rest
of the line in two pieces; `at[t]` says how far thread `t` is.

## 3. Runs

Bounds are the constants of each `.cfg`.

| Run | Question | Bounds |
|---|---|---|
| `EventLoop` | Does the loop ever sleep on work or on a quit? Is it one FIFO queue, each functor run once? Do functors run and quit stop the loop, without the timeout? | 2 threads, 3 functors |
| `Buffer` | Are layout and size kept, and is it a FIFO queue of bytes? | reserve 1, vector 2, array 2, at most 4 bytes held, 2 byte values |
| `TcpConnection_multi` | Sub-loop and one careless thread: is the stream intact, EPOLLOUT asked for exactly when needed, nothing delivered after down, no dead channel in the poller and no removed one back? | 2 messages of 2 bytes, send buffer of 1, 1 byte from the peer, no callbacks set |
| `TcpConnection_own` | Own loop only, the server may die: FIN after the data, no dead channel in the poller; do bytes drain, shutdowns complete, closed connections go? | 2 messages of 2 bytes, send buffer of 3 |
| `TcpConnection_careful` | Is a careful caller on another thread safe? On one loop: up, down once, removed? | 1 thread, 2 messages, send buffer of 1, both callbacks set |
| `EPollPoller` | With `data.ptr` repaired: do channels, map and kernel agree, without a fatal epoll_ctl? Is the contract of Poller.h kept, and every ready channel reported? | 2 channels, 2 descriptors, array of 1 |
| `EventLoopThreadPool` | Does start return, do the loops handed out exist, is the round robin even, does join return, before the objects die? | 3 threads, 2 calls per loop |
| `TcpServer` | Do pollers know exactly the living connections of their loop, does no removal stop half-way, does no functor, handler or close callback use what is gone? Are closed connections released and waiting clients taken? | no or one sub-loop, one other thread, 2 descriptors, 3 clients, 1 removal of a connection queued at a time |

Why the bounds are enough for what they are meant to show: two other threads
interleave with each other and with the loop, and a third functor is queued while two
are in different vectors; a send buffer smaller than a message makes every write
partial, and one that fits one message and a half makes the first write complete
and the second partial; the array of one event makes epoll_wait leave ready
descriptors out; two channels exchange two descriptor numbers. The sizes of `Buffer`
(8, 1024 and 65536 in the code) are scaled so that every branch of `makeSpace` and
of `readFd` is taken. `MaxDowns` bounds how often the closed socket is reported
before the base loop answers; `MaxIn` the bytes the peer sends. In `TcpServer` there are more clients
than there are descriptors, so that they run out and a number comes back for another
connection while removals of its former owner may be under way; `MaxRemovals` bounds, per
connection, how many repeated closes wait in the base loop's queue (a second is queued
once the first has left for `functors`).

`CHECK_DEADLOCK FALSE` appears in `TcpConnection_multi`, where undefined behaviour
or an exception ends the process, in `TcpConnection_own`, where the server and its sub-loop may end for
good, and in `EventLoopThreadPool`, where a loop that quits
itself before `startLoop` has seen it makes the base thread wait for ever.

### What the code does not keep

Four runs end in a counterexample, against the words quoted under `findings` in
`PROJECT.json`.

| Run | What happens |
|---|---|
| `EPollPoller_union` | `data.fd` overwrites `data.ptr` (EPollPoller.cc:144-145) |
| `EventLoopThreadPool_dtor` | `loop()` overwrites the `quit()` of `~EventLoopThread`, and join waits for ever (EventLoop.cc:80, EventLoopThread.cc:20-21) |
| `TcpConnection_blocking` | accepted descriptors are blocking, and a peer that does not read stops the loop in write (Socket.cc:39, TcpConnection.cc:183) |
| `Logger` | two threads log at once: a line is printed under the label of the other's level (Logger.h:11, Logger.cc:19) |

The models have the behaviours below too. The properties are stated so as to leave
them out, by the exception or the assumption on the caller that their comments name:

- functors queued by the loop's own thread before `loop()` wake nobody (the exception
  `early`), and those still queued when the loop is left are never run (`QueuedRuns`);
- `quit()` sets the flag before it wakes the loop, which may be gone by then
  (EventLoop.cc:115-119): so `~EventLoopThread` may write to the eventfd of a dead sub-loop, and
  another thread that quits the base loop to that of a dead base loop (`misused` gets `"EventLoop"` in
  `EventLoopThreadPool`, `"wakeup"` in `TcpServer`). `NoUseAfterEnd` and `NothingDeadUsed`
  speak of everything else;
- `start()` on another thread than `main()` is kept from nothing: the destructor may overtake it
  (TcpServer.cc:62-65; `misused` gets `"start"`), and so may the end of the base loop its `wakeup()`;
- a loop that quits itself is still handed out (EventLoopThreadPool.cc:49; `selfQuit`);
- on a sub-loop `handleClose` is repeated on each turn until the base loop has answered,
  and the user is told "down" each time (TcpConnection.cc:120-128; `downs` up to
  `MaxDowns`). On one loop it is not repeated, which is why `LifecycleSpec` is checked there;
- `connectDistroyed` says nothing to the user for a connection that is shutting down
  when the server is destroyed (TcpConnection.cc:247);
- `send` and `shutdown` from another thread leave functors with the raw `this` and with a
  pointer into the caller's string (TcpConnection.cc:157-160): with `Careful = FALSE`
  `NoUseOfDead` fails, and the model sends `Garbage`;
- `shutdown`'s test and set of `state_` may straddle a close (TcpConnection.cc:260-262): with
  two other threads a send queued before by one of them then registers the removed
  channel again, and `LifecycleSpec`, `RemovedForGood` and `RegisteredAlive` fail;
- `connectDistroyed` takes `kConnected` only to `kDisconnected` (TcpConnection.cc:247), and
  `sendInLoop` gives up in `kDisconnected` only (TcpConnection.cc:174). When the server is
  destroyed on another loop while a connection is open, one other thread is enough: its `send` is queued behind
  `connectDistroyed`, its `shutdown` sets `kDisconnecting` before that runs, and the send
  then registers the removed channel. `RemovedForGood` and `RegisteredAlive` are
  checked with a thread as long as the server lives, and with a dying server without threads;
- send, send, shutdown from one other thread: the flush of the first message sees
  `kDisconnecting` and shuts the write side down before the second is written
  (TcpConnection.cc:103): with a thread `SentBeforeFin` fails. The second is written
  after that, or raises SIGPIPE (TcpConnection.cc:174 tests `kDisconnected` only);
- the high water callback is queued whether or not it is set (TcpConnection.cc:221), and
  TcpServer never sets it: `phase = "terminated"`;
- `~TcpServer` queues `connectDistroyed` on a sub-loop and then makes it quit: when the loop
  tests `quit_` first the functor dies unrun, the connection is freed with its loop, and
  the user is never told "down" (TcpServer.cc:49, EventLoop.cc:84; `LeaveLoop`). `PollersAgree`,
  `RemovalUnderWay` and `RegisteredAlive` therefore speak of loops that exist, `ClosedIsReleased` of the
  release only, and `CloseReleases` of the release, with "down" and the removal from the poller only
  where the server and the loop are there for it;
- a thread that keeps a connection longer than the server queues its `send` or `shutdown` on a
  sub-loop that is gone (TcpConnection.cc:155-163; `phase = "misused"`): `NoUseOfDead` is checked on one loop,
  and proved for servers that stay, or without threads;
- a client whose accept fails by the uninitialised length is closed without an answer: it counts as taken in
  `WaitingIsTaken`;
- with no descriptor left, accept fails on every turn and the base loop spins until one is closed
  (Acceptor.cc:64-71); the other connections are served meanwhile, and
  `WaitingIsTaken` shows that the client is taken afterwards.

### Fairness

- `EventLoop!Fairness`: the loop's thread is scheduled and callbacks return; a thread
  inside `queueInLoop` or `quit` goes on to `wakeup`; `epoll_wait` returns when the eventfd
  is readable. Nothing about other channels, nor about the ten-second timeout.
- `TcpConnection!Fairness`: the same of the loop and of the base loop, as long as they are there; once the
  server is destroyed the sub-loop comes to be left and the base loop to its end, since `~TcpServer` goes on to
  quit and join the one and `main()` to destroy the other (strong for `LeaveLoop`: the loop passes the test of
  `quit_` only once in every turn); a write returns when
  all is copied or the connection is broken, and need not otherwise; a descriptor that
  stays ready is reported, which is strong fairness since the poll may return for others
  (epoll rotates its ready list, and `ReadyIsReported` of `EPollPoller` shows that the array
  grows). The peer owes nothing, except in `ReadingPeerSpec`, of which the liveness
  properties of `TcpConnection_own` are: it reads until it breaks the connection. Without
  it the loop may sit in write for ever (`TcpConnection_blocking`).
- `EPollPoller!FairSpec`: reported channels are handled, the loop polls, and a poll with
  something ready comes to report: strong, because channels may be disabled meanwhile.
- `EventLoopThreadPool!FairSpec`: threads are scheduled. No events but the eventfd.
- `TcpServer!Fairness`: each loop's thread is scheduled and its callbacks return, weakly, as
  `main()` and the destructor. Nothing of the clients, nor of the other thread, which may stop in the middle of
  `start`: a server need not be started or ended. `WaitingIsTaken` assumes that descriptors become free
  again and again, which is the peers' doing.

## 4. Proofs

`EventLoopProofs` proves, for every set of threads and of functors:

- `TypeCorrect`: `Spec => []TypeOK`;
- `NoLostWakeup`: `Spec => []NoSleepOnWork`;
- `NoLostQuit`: `Spec => []NoSleepOnQuit`;
- `ImplementsTaskQueue`: `Spec => Abstract!Spec`, the refinement of `TaskQueue`.

`EventLoop` has no assumption on its constants, and the proofs use none.

`NoSleepOnWork` speaks of the loop inside `epoll_wait` only and is not inductive:
nothing in it forbids a queued functor with no wakeup at the moment the loop goes
to sleep. `WakeupInv` carries the debt to every control point where the loop is not
certain to reach a swap first: before `loop()`, at the test of `quit_`, in `epoll_wait`
and, this is the point of `callingPendingFunctors_`, while functors run, because a
functor queued then is behind the swap and the loop will sleep next. In handlers
and before the swap no wakeup is owed: the swap is still to come. `wakeupFd_` is
cleared by `HandleRead` only, which leads to the swap, so the debt is paid. The
exception, `early`, is the set of functors queued by the loop's own thread
before `loop()`, for which the claim is false.

The refinement maps `queue` to `functors \o pendingFunctors_`. It needs `TypeOK` for
one fact: `functors` is empty whenever the swap happens, so the swap does not
change the concatenation; every other step appends to its end, takes its head, or
stutters.

`EPollPollerProofs` proves, for any channels, descriptors and events, of the union as it
stands in the code and of the repaired line alike:

- `KernelTableAgrees`: `Spec => []KernelAgrees`;
- `ChannelMapAgrees`: `Spec => []MapAgrees`;
- `NeverFatal`: `Spec => []NoFatal`.

The three are not inductive one by one: whether `EPOLL_CTL_ADD` fails depends on the
kernel's entry, which depends on `index_`. They are parts of one invariant, `TablesAgree`,
with what is needed beside them: two channels never have one descriptor, and a channel
without a descriptor is `kNew` (its owner removed it before closing). The lemma `EntryOf`
says what an operation finds in the kernel at its channel's descriptor: nothing, or
the channel's own entry, so neither call fails. The data of an entry is `Data(c)`, what
`update` left of the channel's address: the lemma `DataOf` says that it is never null
and tells one channel from another, which is all the argument needs of it.
`PollerAssumption` is used for `None` being no channel, descriptor or pointer, and a wild
pointer no channel.

`EPollPollerProofs` also proves `TypeCorrect`, `Spec => []TypeOK`, for finitely many
descriptors (with it the bound on `events_`: it doubles only when a poll filled it, and no
more descriptors than there are can fill it), and `ImplementsPoller`, the refinement of
`Poller`. The refinement maps `active` to the channels whose data is in `activeChannels`.
A report maps to a report because, by `TablesAgree`, the kernel's entry has the data and
the present interest of a channel with that descriptor, and everything else happens between
two polls; `HandledFirst`, that nothing is left to handle when the loop polls, is what
`Report` needs of the loop. That the data is a pointer to the channel is `ReportsChannels`,
which the code breaks: it is not part of the refinement and no theorem.

`BufferProofs` proves, for any sizes, any set of bytes and any bound on what is held:

- `TypeCorrect`: `Spec => []TypeOK`;
- `SizeBounded`: `Spec => []CapacityBounded`;
- `ImplementsByteQueue`: `Spec => Abstract!Spec`.

The argument is by branches of `makeSpace`. `Layout` is what holds between two statements;
`Extended(b, r, w, data)` says that the readable part is the old one followed by `data`.
`PlaceExtends` gives it for a copy behind `writerIndex_`, `GrowKeeps` and `MoveKeeps` say
that making room, in either way, leaves the readable part as it was, so `append` and each of the cases of
`readFd` have it. The bound on the size needs `Bounded`: the vector grows only when
the bytes do not fit even after a move, and then to no more than twice what is held.

`EventLoopThreadPoolProofs` proves, for any number of threads:

- `TypeCorrect`: `Spec => []TypeOK`;
- `LoopsServe`: `Spec => []LoopsAlive`;
- `HandedOutEvenly`: `Spec => []Even`;
- `ThreadsEndFirst`: `Spec => []NoUseAfterEnd`.

`ServingInv` carries `LoopsAlive` through `start`: a loop that is published is at a point
where it exists, threads behind the base thread have not begun, and nobody but a loop itself has made one
quit. `RoundRobin` says how often each loop was handed out in terms of `next_`. `EndingInv`
follows `~EventLoopThread` through quit, wakeup, join and free: a thread that may still touch its
EventLoopThread has not been joined. The proofs use `PoolAssumption`.

`TcpConnectionProofs` proves, for any threads, messages, message size, socket buffer, water mark and set-up (one
loop or two, careful callers or not, any callbacks):

- `TypeCorrect`: `Spec => []TypeOK`;
- `StreamKept`: `Spec => []StreamIntact`;
- `WritesWhenBuffered`: `Spec => []WritingIffBuffered`;
- `DownIsLast`: `Spec => []NoMessageAfterDown`.

They are consequences of one inductive invariant, `ConnectionInv`, whose parts the runs do
not check one by one. `StackInv` is the shape of the calls the loop is in: a functor
begins alone, and the rest of `sendInLoop` or `handleWrite` stands right behind its
`write`. `FreshInv` is that `connectEstablished` happens first and once: before it nothing is
registered, buffered or handed to a thread. `UpInv` is that while the connection is
`kConnected`, and until `connectDistroyed` that has found it so goes on, the channel is registered and reads. `WriteInv` ties EPOLLOUT
to `outputBuffer_` at every point and not only in `epoll_wait`, and says what a write under
way means: a direct write has an empty buffer behind it, a write of `handleWrite` has
its bytes still in front of the buffer. With it the stream is easy:
`nwrote` bytes leave the front of what is left, in either place. `DownInv` says that once down
was reported the channel reads no more (`Deaf`), or there is nothing to be read (`Drawn`),
which a repeated close and a `handleRead` under way keep. Most steps touch
none of this: `QuietStep`, `KeptFacts` and `NewCalls` deal with them together. Careful
callers are not needed: what a dead string or a dead connection does is in `accepted` too.

`TcpServerProofs` proves, for any number of sub-loops, clients, descriptors and repeated removals,
from `ServerAssumption`:

- `TypeCorrect`: `Spec => []TypeOK`;
- `PollersKnow`: `Spec => []PollersAgree`;
- `RemovalContinues`: `Spec => []RemovalUnderWay`;
- `NothingDead`: `Spec => []NothingDeadUsed`, which leaves out the late `wakeup()` and the `start()` overtaken
  by the destructor (section 3).

`ServerInv` is the inductive invariant: `TypeOK`, `NothingDeadUsed` and seven parts. `PhaseInv`
says that the base loop outlives the others and that these run until the destructor is at them, with
the pool started as far as it may be.
`QueueInv` says which loop a functor is in, and that a connection that has `connectDistroyed`
queued has left the map. `ConnInv` gives every open connection a descriptor of its own, and is where the
descriptors' numbers come in: the functors that name a connection keep it open, so
its number is not free before the last of them is dead (`OpenStep`: no step opens a
connection again). By that, no step but its own touches what a poller has for a connection
(`ChannelStep`, `MapStep`). `KnownInv` is `PollersAgree` with the debt written down: what a poller knows is in
the map or has `connectDistroyed` due. `connectEstablished` would break it for a
connection that the destructor has taken from the map before, and does not, by `OrderInv`: its
`connectDistroyed` stands behind it, in the same vector or in the next.
`ActiveInv` says that what `epoll_wait` reported stays registered until it is handled:
functors do not run meanwhile. `DownInv` is the first half of `RemovalUnderWay`. The proof
that the queues and tables keep their parts does not go through the actions one by one: the
lemma `Kinds` shows that each step is one of nine kinds (`CalmStep` to `EndStep`), and the rest argues about these.

`TcpConnectionLifeProofs` proves, for any messages, sizes, socket buffer, water mark and callbacks,
what depends on who uses the connection. Each theorem names the set-ups it holds for, and section 3 has
what happens in the others:

- `NothingDead`: `Spec => []NoUseOfDead`, without other threads, or with any number of careful ones while
  `ServerStays` (one loop, or a server that is not destroyed);
- `KeptWhileRegistered`: `Spec => []RegisteredAlive`, without other threads, or with one while
  `ServerStays`;
- `NeverRegisteredAgain`: `Spec => RemovedForGood`, for the same;
- `ImplementsLifecycle`: `Spec => Lifecycle!Spec`, the refinement of `ConnectionLifecycle`, on one loop with
  at most one other thread;
- `AllSentBeforeFin`: `Spec => []SentBeforeFin`, without other threads.

`NothingDead` needs `HeldInv`: while a functor with the raw `this` is queued or
runs, some thread still holds the connection; and, with threads, `StayInv`: the loop is not gone. The others rest on `ConnectionInv` and on
two parts that hold in any set-up: `PlaceInv`, at which points of the turn a handler or `connectDistroyed` can
be under way, and `AgeInv`, how `state_` follows what the user has heard. `LeaveInv` is the heart of
`KeptWhileRegistered`: a connection that has left the map and is still known to the poller has its
`connectDistroyed` queued or under way as long as its loop is there, and the functor is what keeps it alive. It would be undone by a
registration after the removal, so it needs `SendInv`, that no `sendInLoop` which has not
given up runs with the channel removed. Without other threads nothing is ever queued (`NothingComes`) and that
is all. With a thread `shutdown` may revive a closed connection to
`kDisconnecting`; then `LateInv` says that all the thread had queued stands before
`connectDistroyed` in the line of functors (`Line`: what is left of the vector being run, then
`pendingFunctors_`), since a thread that is in `shutdown` is not in `send` (a second thread might be) and its later sends
find the connection closed. It also needs that nothing removes a connection before it was
closed (`ToldInv`), which is where a server that is destroyed is excluded. The lemmas on `Line` say that a step
appends to it, takes its head, drops it with the loop or leaves it (`LineAppend`, `LineRun`, `LineStep`);
the swap is the last.

`ImplementsLifecycle` adds `ClosingInv`: on one loop a close leads through `closeCallback` and
`connectDistroyed` to the removal in the same turn, so the closed descriptor is not
reported a second time, and "down" is said once. `AllSentBeforeFin` adds `OwnInv`: `accepted` has `Size`
copies of each message sent and none of the others, and once the write side is shut down nothing is
buffered and no write is under way; with `StreamIntact` all of `accepted` has then been sent.

Only model-checked: liveness (`QueuedRuns`, `QuitStops`, `CloseReleases`, `BufferedIsFlushed`,
`ShutdownCompletes`, `ReadyIsReported`, `StartReturns`, `JoinReturns`, `ClosedIsReleased`, `WaitingIsTaken`),
which with its fairness is out of the prover's reach. Every invariant, the action property and every
refinement that a run checks is proved.

## 5. Not modelled

- The setters of TcpServer, TcpConnection and Socket, called before `start`; bind, listen
  and the calls of constructors that end the process when they fail; DefaultPoller, which
  returns no poller when `MUDUO_USE_POLL` is set.
- A server destroyed inside a callback of its own loop, which no code in the repository
  does: `main()` leaves the loop first.
- In `TcpServer`: sub-loops that user code makes quit, and a pool destroyed before its threads
  are in `loop()`; `EventLoopThreadPool` has both. Of the user's protocol only `shutdown` in
  `onMessage` (`HandleRead`), as in the example.
- Content of `inputBuffer_` and the user's protocol; SIGPIPE is taken to be ignored;
  HUP and ERR in `EPollPoller`.
- InetAddress, Timestamp, CurrentThread, socket options: no state that the properties see.
- `EventLoop` never re-enters `loop()`, as no code in the repository does.

## 6. Plan

1. (done) `TaskQueue`, `EventLoop`, `EventLoopProofs`; `ByteQueue`, `Buffer`;
   `ConnectionLifecycle`, `TcpConnection`; `Poller`, `EPollPoller`, `EPollPollerProofs`;
   `EventLoopThreadPool`.
2. (done) `TcpServer` with `Acceptor`; `Logger`.
3. (done) Proofs: the refinement of `Poller`, `Buffer`, `EventLoopThreadPool`, the stream
   and the interest set of `TcpConnection`.
4. (done) Proofs about `TcpServer`.
5. (done) Proofs about the life and the end of `TcpConnection`.
6. An abstract specification of the server, a set of connections that come, close and are
   released, with the refinement of it by `TcpServer`.

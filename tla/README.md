# xfast in TLA+

xfast is a C++11 TCP library around one epoll reactor: a loop thread that owns
all sockets, threads that hand it work, timers, a channel that feeds handler
threads, servers and clients. This directory models its concurrent core,
checks it with TLC and proves the central results with TLAPS.

## The system

| part | state | operations |
| --- | --- | --- |
| `xLoop` (`base/xloop.cpp`) | `stop_`, `wakeupFd_`, `register_`, `fired_`, `extraEvents_` under `extraMutex_` (in part) | `start`/`process`, `stop`, `scheduleToLoopThread`, `reg`/`remove`/`addEvent`/`removeEvent`, timer calls |
| `xEpoller` | the epoll set | `Wait`, `Add`, `Modify`, `Delete` |
| `xTimerQueue`, `xTimer` | `timers_` (a `std::set`), per timer expiration, interval, repeats | `AddTimer`, `RemoveTime`, `triggerTimer` |
| `xChan` | `queue_`, `size_`, a mutex, a condition | `push_back`, `push_front`, `pop_front`, `clear`, `signal` |
| `xHandlerGroup`, `xHandler` | `msgQueue_` (an `xChan`), the workers, `isTerminate_` | `addMsg`, `readMsg`, `sendResponse`, `handleConnected`, `stop` |
| `xServer`, `xListener` | `connections_` by descriptor, the listening socket | `doListen`, accept, messages, answers, close |
| `xConnection` | status, read and write buffer, socket, callbacks | `makeConnected`, `sendMsg`, `readMsg`, `closeConnection`, `HandleEvent` |
| `xClient`, `xConnector` | one status and one retry time for all attempts, `connectionPtr_` under `lock_` | `start`, `stop`, attempts and retries, the close |
| `xSocket`, `xSockApi` | a descriptor | create, bind, listen, accept, connect: sequences of system calls, each of which may fail |
| `xBuffer` | bytes, `readerIndex_`, `writerIndex_` | append, prepend, consume, fill from a descriptor |
| `xTimeHelper` | one instance; two time stamps with cycle counts and an index | `getInstance`, a refreshing thread, unlocked readers, the destructor |
| `xThread`, `xMutex`, `xCondition`, `xAtomic` | wrappers of std::thread, pthread and the `__sync` builtins | modelled where they are used |
| utilities | none that matters here | options, formatting, addresses |

How they interact. Only the loop thread touches sockets, `register_`,
`connections_` and `timers_`. Every other thread goes through
`scheduleToLoopThread`, which appends a functor to `extraEvents_` and writes
an eventfd the loop polls; on the loop thread itself it runs the functor at
once. `process()` polls (500 ms at most), dispatches the events of the batch,
runs the functors, clears the list, and triggers the timers. A server's
messages go from `xConnection::parseProtocol` through `msgQueue_` to a handler
thread, carrying the descriptor of their connection; the answer comes back as
a functor and is routed by that descriptor. Connections are shared pointers
held by the server's table, by the callback in `register_`, by functors and by
user code; the last one closes the descriptor. Whoever asks for the time, in
any thread, reads `xTimeHelper`.

What makes each part correct, and what is hard:

* hand-over: nothing lost, nothing run twice, each caller in order, no sleep on
  work; the list is walked and cleared without the mutex that guards appends;
* channel: no lost wake-up, each element once; the count runs ahead of the queue;
* timers: due timers fire, none early, none more often than asked; repeats
  change the sort key inside the set;
* server: tables, descriptors and references agree; answers and events reach who
  they were meant for; the kernel reuses descriptors; a handler's thread runs
  before the handler is complete;
* connection: the stream is sent and received once and in order under partial
  reads and writes; close is idempotent;
* client: one outcome per `start()`, bounded retries, no descriptor leaked on any
  failure, `stop()` reaches the connection there is;
* clock: one instance, a time that is right though nothing is locked, a thread
  that ends;
* buffer: `readerIndex_ <= writerIndex_ <= size`, content kept when it grows.

`PROJECT.json` lists the hazards line by line.

## Modules

```
Dispatcher <--refines-- XLoop       --- XLoopProps  --- MCXLoop
                                               \------- XLoop_proofs
Channel    <--refines-- XChan       --- XChanProps  --- MCXChan
                                               \------- XChan_proofs
                        XTimerQueue --- XTimerQueueProps --- MCXTimerQueue
                                               \------- XTimerQueue_proofs
                        XServer     --- XServerProps --- MCXServer
                                               \------- XServer_proofs
                        XClient     --- XClientProps --- MCXClient
                                               \------- XClient_proofs
                        XTimeHelper --- XTimeHelperProps --- MCXTimeHelper
                                               \------- XTimeHelper_proofs
                        XConnection --- XConnectionProps --- MCXConnection
                                               \------- XConnection_proofs
ByteQueue  <--refines-- XBuffer     --- XBufferProps --- MCXBuffer
                                               \------- XBuffer_proofs
```

XServer and XClient extend XSocket, and take what Dispatcher and Channel promise
as their queues.

**XLoop** has one action per step that other threads can observe. A caller
enters, locks, pushes, notifies and unlocks; the loop checks `stop_`, polls,
reads the eventfd, walks, clears and turns to the timers. `std::list` is a
ring: `schedulePush` and `clearList` overlap, and `shape` says how the ring was
left (`ok`, `detached`, `stale`). A race on two links of one node has
more outcomes in the C++ memory model than these; the model keeps those that
follow from the order of the stores in libstdc++, and leaves out damage to
the heap from a store into a freed node. `by` and `ran` are history, and are
the state of the abstract **Dispatcher**: a call hands over one functor, a
functor runs at most once, and never before an earlier one of its caller that
runs. The Dispatcher does not promise that a functor runs: the code does not.

**XChan** takes what runs under the mutex as a step. A push is two steps
(`pushIncr` before the mutex, `pushLink` under it), a pop is one step or, if it
waits, two. `clear()` may run at any moment, also between the two halves of a
push; `cleared` remembers that it did. `signal()`, spurious wake-ups and
`push_front` are switched by constants. **Channel** is a queue with two ends
whose pop may say "nothing" only of an empty queue; that promise ends with the
first `clear()`.

**XTimerQueue** models the set as its in-order sequence. Insertion and erasure
search a tree; when the keys are out of order the outcome depends on the shape
of the tree, which the model leaves open: an insertion may end at any gap that
agrees with both neighbours, an erasure by key may miss. When it finds its timer
it erases the whole `equal_range` (`equalRange`): in a set out of order that can
hold other timers, which are freed though nobody removed them (`destroyed`). This
allows more than any one tree does. `triggerTimer` is a pass of several steps, since callbacks add
and remove timers in the middle of it and time goes on. Timers that fire once,
several times and for ever live in one set; `sorted` remembers whether the pass
began with the set in order. A call with the handle of a freed timer
(`removeFreed`) leads to `undefined`, and so does a removal whose range has the
timer whose callback is running, its own or another's. The functor that adds a
timer may be destroyed unrun, as the run `loop_lost` shows of any functor
(`loseTimer`; the timer is `lost`, and never freed); a removal whose timer is still on its way
to the loop finds nothing and changes nothing.

**XSocket** has the operations of `xSockApi` and `xSocket` that create, connect,
bind, listen and accept, as operators from the set of open descriptors to a
result: the descriptor, and the set afterwards. A run of an operation is named
by the call that fails. Its users are XClient and XServer.

**XServer** joins `xServer`, the handler threads, and what they use of
listener, connection, loop and epoll. It begins with `doListen` and the
construction of the handlers: `new T` starts the handler's thread before
`setHandlerGroup` has run, and a thread that is faster finds no group
(`findNoGroup`), stops itself (`stopGroupless`) and calls a method of a null
pointer (`readNoGroup`): three steps, between which the handler may be registered
and the loop start, so that the program may crash at any later time. Then a turn of the loop fetches a batch of events
and handles them one by one, each for whoever `register_` has for its
descriptor by then: what a fetched event says (readable, error, hang-up) is
chosen when it is handled, and `for` remembers whom it was fetched for. A
callback of the loop is one step. `register_`, `connections_`, the open
descriptors and the epoll set are separate variables, so that they can disagree.
References are computed from the places that hold a shared pointer
(`Referenced`). `threw` records the connections whose `Connected` callback
threw: `handleAccept` then closes the descriptor under them (`listener.cpp:43`).
(When the exception comes from the connection's constructor the same line closes
a descriptor that is closed already; no other thread opens descriptors, so
nothing else is hit.) An error on the listening socket removes the listener.
`ended` says how the program ended: by an assertion, by `selfKill` after a
failed listen, or in undefined behaviour.

**XClient** joins `xClient` and `xConnector`. The attempts to connect are
numbered and each stands for its descriptor. `status_` and `reConnMs_` are one
each, as in the code: all chains of attempts share them, so an attempt's success
counts as an error when another has just failed (`connector.cpp:36`), and all
chains draw on one retry time. The loop thread gives way to other threads where
it waits for `lock_` and between the assignment of `connectionPtr_` and
`makeConnected`; `stop()` of another thread takes `lock_`, looks, and pushes its
functor while it holds it. `stop()` on the loop thread runs into `lock_` a second
time: `xMutex` throws, `closeConn` catches, and `connectionPtr_` keeps the
closed connection (`stuck`). Handles of connections that user code keeps
(`held`) are references like the others.

**XTimeHelper** is the clock all timers read: double-checked creation, the
thread that fills the half not in use and flips the index, readers that copy and
add the cycles since, with each access to shared data a step of its own, and the
destructor. `now` stands for both clocks, which run in step; it may tick between
any two steps, so also while the thread is between `gettimeofday` and `rdtsc`.
`delay` is the longest time it ever was. `_cpu_cycle` is the time between two
rounds through the cycles between them: right (`"true"`) when both rounds were held
up alike, and otherwise `"wrong"`, and then any offset may come of it. Rounding to
microseconds is left out.

**XConnection** is one connection in full. The loop thread is its call stack,
because user code runs inside the methods: `sentBytesCb_` inside `sendMsg`,
`msgCommitCb_` inside `parseProtocol`, and each may send, close, throw or keep
the pointer it is given. Bytes are numbered, so that the wire and the committed
messages show repetition, gaps and order. `writeFd` is `sentAll`, `sentPart`
(with what was written before `EAGAIN`) or `sendError`. `alive` computes
whether a shared pointer is left; a method that goes on without one leads to
`undefined`, where the model stops. `closeConn` includes what the owner does:
on the loop thread `scheduleToLoopThread` runs `doCloseConnection` at once.
`setClosed` afterwards changes nothing that is read, so DISCONNECTED is not told
from DISCONNECTING. The executing callback object is destroyed by `remove`
while it runs (`xloop.cpp:92`); nothing reads it afterwards, and the model
leaves that out.

**XBuffer** has the methods of `xBuffer` as operators on a record of its three
members, and one action per kind of method. `resize` grows by zeros, copies
overwrite cells, a read is split between the vector and the second buffer.
Integers are sequences of digits of base `Base`, most significant first.
**ByteQueue** is what the rest of the library may rely on.

Operators that a comment calls *Mutant* are no part of the model: each is a
variant of the definition after it with a plausible bug in it, and one of the
properties fails when it takes that definition's place.

## Runs

| run | bounds | shows (besides the module's `TypeOK`, which each passing run but `time` checks) |
| --- | --- | --- |
| `loop` | 2 threads, 3 calls | `NoSleepWithPendingTask`, `DispatcherSpec`, `ReachableCallRuns`, `StopEndsLoop`, `CallsReturn` |
| `loop_lost` | 1 thread, 1 call | `EveryCallRuns` is violated |
| `chan` | 2 producers, 2 consumers, 3 pushes, all ways to wait, `clear()` at any time | `SizeAccounting`, `NoWaitOnData`, `ChannelSpec`, `EveryItemPopped` |
| `timer` | 3 timers, one of which may repeat twice or for ever; time 0..3 | `DueTimersFireInOrder`, `RemovedStaysOut`, `FiresAsPlanned`, `EveryTimerFires` |
| `timer_late` | 2 timers, time 0..4 | `DueTimersFire` is violated |
| `server` | 2 descriptors, 3 connections, 1 handler, 1 message, 1 close on its way; `Connected` may throw | `AssertionsHold`, `TablesAgree`, `StrayOnlyAfterClose`, `QueueDrains` |
| `server_stray` | 1 descriptor, 2 connections | `AnswerReachesAsker` is violated |
| `client` | 2 starts, 2 retries of 500 ms, 2 threads that call `stop()`, 2 functors on their way | `OneOutcomePerStart`, `RetriesBounded`, `ConnectionsOwned`, `EveryStartAnswered`, `StopCloses` |
| `time` | 2 readers, 3 instants, an offset of at most 1 | `OneInstance`, `ReadIsCurrent`, `ThreadEnds` |
| `conn` | 3 bytes out, 2 in, 1 short write, 1 functor waiting | `NothingSkipped`, `CommittedInOrder`, `FreedOnlyByCallBack`, `ArmedDrains` |
| `conn_stuck` | 1 byte, 1 short write | `WillNotifyAgain` is violated |
| `buffer` | 1-bit bytes, room for 2 after 2, second part 2, content up to 4 | `AssertionsHold`, `PrependedIntIsRead`, `GrowthBounded`, `QueueSpec` |

Why the bounds are enough. Two threads and three calls reach every value of
`shape` and every way to leave it: a push that meets `clear()`, one that is cut
off behind it, one that replaces what was stale. Two producers inside a push
and two consumers woken together are what the counter and the condition can
disagree over; a third push leaves one element in the queue while another is
counted. Three timers let one stand between two others, one of them repeating
and out of its place. With two descriptors and three connections one descriptor
is used twice while the other is busy, and a batch can hold events of the
listener and of a connection that the same batch closes: what an event that
misses its connection needs. One handler is enough there: handlers share nothing but
`msgQueue_`, which the run `chan` checks with two consumers. Two
starts make two chains of attempts and two connections at once, and two retries
leave one chain to use up the time of the other. Three instants let two
refreshes overtake a read. Three bytes let a callback send while an earlier message is half out,
and leave one to be sent when the event is armed; two incoming bytes are parsed
in one message, in two, or in part. A buffer with room for two makes appends of
three fit after a move, only after growing, or at once. `Max...` constants bound
calls, pushes, timers, time, connections, messages, functors and pending closes;
they are the only bounds.

Deadlock is checked for the loop, the timers and the buffer. The others really
stop: consumers that wait for ever on an empty channel, a server whose program
has ended, a closed connection, a client that was answered, a clock whose
instance is deleted (and whose time is bounded).

Fairness. The loop thread and the handler threads are threads of the kernel,
and weak fairness of their steps is what its scheduler gives; `Wait` returns
after 500 ms at the latest; a mutex is held for a few instructions only, so a
waiting thread that stays enabled gets it. A consumer pops in a loop as
`xHandler::run` does. In XTimerQueue the functor that adds a timer can run
between two passes, not during one: `process()` walks and clears the list before
each pass, so that every functor in it is run or lost. The choice of the two
(`AddTimer(t) \/ loseTimer(t)`) is strongly fair; that it is run is not assumed.
A callback of user code returns. In XClient
the loop needs `lock_` to go on while two threads may call `stop()` again and
again; it is free between their calls, and strong fairness of `connecting` and
`doCloseConnection` says that the loop gets it in the end. The kernel reports the
outcome of each attempt. In XTimeHelper the thread runs and its wait ends after
800 ms; so does the thread that deletes the instance. A writable socket is
reported again and again as long as the event is registered (epoll is level-triggered) and the peer reads, so `writableEvent` is
strongly fair. Nothing else is assumed of peers, of callers or of user code.

## What the runs say about the code

* `loop_lost`: a functor appended between the last step of the walk
  (`xloop.cpp:45-47`) and `clear()` (48) is destroyed unrun, with its timer,
  its answer or its close. What survives the race is the content of the run
  `loop` and of the proofs: functors that a walk can reach do run, none runs
  twice, and the loop does not sleep on them.
* `timer_late`: with a repeating timer the set gets out of order, and a due
  timer stays behind one that is not due. With single timers everything holds.
* In a set out of order `removeTimer` can destroy timers nobody removed
  (`xtimer_queue.cpp:18`): A was moved from 10 to 20 and is the root, B at 15 its
  right child; removing A erases both, and from B's callback that frees the timer
  `triggerTimer` goes on to use. `DueTimersFireInOrder` shows that a pass which
  begins in order loses no due timer that way, unless it also takes the running
  one; `FiresAsPlanned` and `EveryTimerFires` except what was destroyed or whose
  `AddTimer` was lost.
* `server_stray`: an answer can reach a later connection on the asker's
  descriptor. `StrayOnlyAfterClose` shows it is the only way to go astray, and
  that the same holds of an event: an error or a hang-up that was fetched for a
  connection which an earlier event of the batch closed can close the one that
  the listener, in between, accepted on its descriptor (`xloop.cpp:35`).
* When `Connected` throws, the descriptor is closed under a connection that
  both tables still list; the next accept on it, or a close, ends in
  `assert(rc == 0)` (`epoller.cpp:51`). `AssertionsHold` therefore allows an abort
  when a `Connected` threw.
* A handler's thread can run before the handler is complete, though
  "started the handler thread after created the handler objects"
  (`xserver.h:84`): the base class starts it in its constructor
  (`handler.h:21`). Which thread is first is decided while the handler is
  constructed, but the call through the null pointer may come when the loop runs.
  The model ends there (`undefined`); no property is stated about it.
* `clear()` forgets pushes that are counted and not linked; afterwards a
  queue with an element can have a count of zero, the assertion of
  `channel.h:91` fails, and a pop can miss it. Nothing in the repository calls
  `clear()`. The properties say what holds until its first call, and after it.
* `stop()` on the loop thread ends in an exception inside `closeConn`: the
  connection is closed, but `connectionPtr_` keeps it and its descriptor until
  another connection is made.
* With two `start()` in a row there can be two connections at once, and
  `connectionPtr_` points to the later: the earlier one is no longer reached by
  `stop()`, and its close resets the pointer to the later (`xclient.cpp:115`).
  `ConnectionsOwned` shows that this takes an overlap.
* `reConnMs_` is never reset on the way to `start()`: a client that used up its
  3000 ms once has a single attempt per later `start()`. `RetriesBounded` is what
  that means in total.
* The user's close callback of a client is only installed, in a connection that
  has closed (`xclient.cpp:120`): it is not called.
* A reader of the clock that is overtaken by two refreshes may be given a time
  that is behind or ahead. Others (`ReadIsCurrent`) are given one that is never
  ahead, and right unless the thread was once held up between `gettimeofday` and
  `rdtsc`, which nothing prevents; then it is behind by that much, until the half is
  written again. And when two rounds were held up differently the length of a cycle
  is wrong, with which a reader may be given a wrong time until the next round.
* A pop that waits "for ever" waits at most once (`channel.h:77-89`): with
  another consumer or a spurious wake-up it returns without data. `Channel`
  allows that.
* `conn_stuck`: after `EAGAIN` nothing is registered that would go on sending
  (`connection.cpp:23`). Line 41 is reached only when `sentBytesCb_` sends and
  that write is short; from then on `ArmedDrains` holds, and `removeEvent`
  (`xloop.cpp:124`) never takes the event away again.
* `writeFd` forgets what it wrote before `EAGAIN` (`file_api.cpp:42`), so the
  peer can get bytes twice. `NothingSkipped` is what remains.
* Bytes that arrive together with the end of file are not parsed, though the
  log says "will commit last msg" (`connection.cpp:68`).
* A callback that closes its own connection, and keeps no pointer, leaves
  `parseProtocol` or `sendMsg` in a destroyed object: the close is meant to
  "wait all of the events finished in the loop" (`xserver.cpp:89`,
  `xclient.cpp:109`), but on the loop thread it waits for nothing.
  `FreedOnlyByCallBack` shows that no other way of closing does this.
* A decode callback that returns `XF_MSG_DECODE_OK` (0) without end keeps the
  loop thread in `parseProtocol`; `MaxEmpty` bounds it.
* `prependInt64` asserts eight bytes in front, and a fresh buffer has four.

## Proofs

TLAPS proves, for every value of the constants that satisfies the assumptions
below (any threads, calls, messages and bounds):

* `XLoop_proofs`: `TypeInvariant`, `NoSleep` and `ImplementsDispatcher`.
  They rest on `InductiveInvariant`, the invariant
  `IInv == TypeOK /\ OrderInv /\ AwakeInv` of `XLoopProps`.
  `NoSleepWithPendingTask` is not inductive: that the list is
  non-empty in `Wait` says nothing about how it became so. `AwakeInv` follows
  it back to the end of the walk: whatever is in the list after `clear()` was
  pushed while it ran or later, after the eventfd was read, so its notify is
  still visible or still to come. `OrderInv` is what the refinement needs:
  every element of `Pending` (what a walk may still run) is after all the
  calls of its caller that ran, and a call not pushed yet is after both. The
  step lemmas prove it for each shape of the list.
* `XChan_proofs`, with `clear()` among the steps: `TypeInvariant`,
  `CountIsExact`, `NoLostWakeup` and `ImplementsChannel`, from `Accounting`,
  which is inductive as it stands. The
  cardinality of the producers inside a push is handled by the facts of
  FiniteSetTheorems, for which the producers must be finitely many.
* `XBuffer_proofs`, for all sizes, bytes and contents: `TypeInvariant`,
  `NoAssertionFails`, `ImplementsByteQueue` and `GrowthIsBounded`. `TypeOK`
  (the indices in order, inside the vector, and room in front) is inductive as
  it stands; the lemmas say of each method what it does to `toString` and to
  the size, and the refinement puts them together. `RoundTrip` says that a number
  that n bytes can hold comes back from them, and `PrependedIsRead` that it does so
  through a buffer. `power` and `values` are recursive functions: that each is the
  function its equations describe is proved by exhibiting one, and what holds of all
  its values by looking at the least number that would be an exception (`Least`,
  from the well-foundedness of the natural numbers), which needs no induction over
  formulas.
* `XConnection_proofs`, for any messages and bounds: `TypeInvariant`,
  `FreedByCallBack`, `NothingIsSkipped` and `CommitsInOrder`. `FreedOnlyByCallBack` is not
  inductive: that a method is on the stack says nothing of who may close below
  it. `ClosingInv` adds that the owner's pointer goes only with a close, that
  the writable part of `HandleEvent` is the last frame and a message callback
  never is, and that a close for an event or a functor leaves no method behind.
  `NothingIsSkipped` needs `SendingInv`: `writeBuff_` holds the last bytes handed
  over without a gap and the wire has all those before them. A write that stops
  part-way puts a prefix of the buffer on the wire and keeps all of it, which is
  why bytes repeat and yet none is missing. `CommitsInOrder` needs `ReadingInv`, that no
  byte is numbered above the last one the peer sent: committing regroups what was
  committed, read and is on the way, an error takes the middle part out, and the next
  byte goes to the end.
* `XTimerQueue_proofs`, for any timers, intervals, repeats and times:
  `TypeInvariant`, `DueTimersDoFire`, `RemovalsFindTheirTimer` and
  `TimersFireAsPlanned`, from `InductiveInvariant`, the invariant `IInv` of
  `XTimerQueueProps`. `PlacesInv` says where a timer can be (waiting for its
  `AddTimer`, in the set, gone) and what the iterator stands on. `CountInv` balances
  what a timer has fired and has left against what was planned; while its callback
  runs the count is one ahead of `repeat_`, which `nextRepeat` has yet to decrease.
  `TimeInv` bounds the next expiration from below by the firings so far, which the
  jump of `nextRepeat` over missed ones preserves. `OnceInv` is the order of the set
  when nothing repeats. `PassInv` is the loop invariant of `triggerTimer`: if the pass
  began in order, the part of the set from the iterator on is in order still, and all
  timers it still owes stand there. A callback may insert in front of the iterator,
  in disorder, without harm to that part. A removal in a callback takes a range: when
  that reaches a timer still owed, behind the iterator, it has the iterator's own, and
  the behaviour is undefined (`OwedStays`). When nothing is out of order with it the
  range is the timer alone.
* `XServer_proofs`, for any descriptors, handlers, messages and connections, and
  whether or not a `Connected` may throw: `TypeInvariant`, `OnlyThrowsAbort` (of
  the assertions; a handler that found no group may crash at any time),
  `ConnectionsHaveDescriptors` and `OnlyLaterConnectionsAreMisled`. `TablesAgree`
  says nothing of epoll, of the order of connections or of what is under way, so
  it does not survive a step. `TablesInv` adds that of two connections with one
  descriptor the earlier is closed, `KernelInv` which descriptors epoll knows and
  what a throwing `Connected` leaves behind, `OwnInv` that two referenced
  connections never share a descriptor. `RoutesInv` says that every message,
  answer and event names its connection by the descriptor it has or had, from
  which `StrayOnlyAfterClose` follows.
* `XClient_proofs`, for any threads, starts and retry times:
  `TypeInvariant`, `EachStartHasOneOutcome`, `DescriptorsHaveOwners` and
  `RetriesEnd`. `ConnectLeaksNothing` proves of `connectNonblock` that whichever
  call fails, what was opened is closed again. `LoopInv` and `StatusInv` tie the
  status of a connection to the callback in `register_`, to the place of the loop
  thread and to every kind of reference; with a thread about to push its functor
  `lock_` is taken, so that `connectionPtr_` cannot change under it. `RetryInv`
  counts the retries that ran: `RetriesBounded` needs that one is scheduled only
  while time is left, and that no more than `starts` can be on their way then.
* `XTimeHelper_proofs`, for any readers and any clock: `OneIsMade` and
  `ReadsAreCurrent`. `InstanceInv` follows who creates the instance and who
  starts its thread, `HalvesInv` says how far the time and the cycles of a half are
  apart and that only a hold-up makes the length of a cycle wrong, `ReadersInv` that a reader not overtaken still reads the
  half that is not being written.

Each of these proofs has one lemma per action, and a lemma for what several
actions do alike (`ClosedFrame`, `UnreferencedClosed`, `ChainsFrame`).

Assumptions: those of the modules (the loop thread is not one of the others;
"free" is not a thread; bounds are natural numbers; the retry interval divides
the retry time; switches are Booleans). Only model-checked, at the bounds above:
all liveness properties (`ReachableCallRuns`, `StopEndsLoop`, `CallsReturn`,
`EveryItemPopped`, `EveryTimerFires`, `QueueDrains`, `ArmedDrains`,
`EveryStartAnswered`, `StopCloses`, `ThreadEnds`), since the fairness they rest on is
stated with ENABLED, which the prover does not handle. The four violations are
counterexamples, and nothing is to be proved of them.

## Not modelled

* Loss of heap integrity after a race or a use after free; the memory order of
  the plain `stop_`, `isTerminate_` and `connStatus_` (each is read in a loop
  around calls the compiler cannot see through).
* Masks other than those of one connection; what a batch says of an event beyond
  its descriptor.
* `doReConnect`, `onCheckConnectionStatus`, connecting by name or blocking,
  keep-alive, TCP_NODELAY, socket timeouts, `getTcpInfo`: nothing calls them.
* The destructors of `xServer` and `xHandlerGroup`, which do not run because
  server and listener keep each other alive, that of `xClient` (the client
  outlives its connections in XClient), of `xLoop` and `xEpoller`.
* An exception from the constructor of a client's connection, which ends the
  program (nothing on the loop thread catches it); in the server `handleAccept`
  does, and the model has it.
* `runAt`; a clock that steps back, `gettimeofday` and `rdtsc` running at different
  speeds, the rounding of a cycle's length.
* `xBuffer::swap`, which two buffers would be needed for.
* The loss of functors in XServer and XClient: they use the promises of
  `Dispatcher`, and that their functors do arrive.
* Options, addresses, formatting, logging, the Loki templates.

## Plan

1. The destructor of `xClient` while its connection lives: the callbacks of the
   connection hold a raw pointer to the client.

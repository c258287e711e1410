# Verification of the CVIP programs

CVIP is a collection of study notes and of small, independent programs under `src/code` and `src/leetcode`. Much of the tree
is text, configuration, samples of a library or code of other projects. The rest are programs with logic of their own: a
thread pool, a lock service, a lock-free queue, event loops, timers, trees, a reliable transport, a JSON library. This
directory holds TLA+ models of them, the TLC runs that check the models, and TLAPS proofs: of every safety property of the
six larger programs (the thread pool, the ZooKeeper lock, the CAS queue, the timing wheel, the reactor and KCP) and of the
properties of ten of the smaller ones.

Contents: [inventory](#inventory), [plan](#plan), one section per larger model ([thread pool](#thread-pool),
[ZooKeeper lock](#zookeeper-lock), [CAS queue](#cas-queue), [timing wheel](#timing-wheel), [reactor](#reactor), [KCP](#kcp)),
the smaller programs in one run ([samples](#samples)), [proofs](#proofs), [not modelled](#not-modelled).

To check: `tlc -workers 2 -config <cfg> <module>` for a run of the table below, `tlapm <module>` for the proofs in
`ThreadPoolProofs`, `ZkLockProofs`, `CasQueueProofs`, `TimeWheelProofs`, `ReactorProofs`, `KcpProofs` and `SampleProofs`, and
for `NaturalRecursion`, the lemmas on numbers that five of them use (`KcpProofs` and `SampleProofs` take some minutes each).

| run | module, cfg | checks | states |
|---|---|---|---|
| `thread_pool` | `ThreadPool`, `ThreadPool.cfg` | `JobOwnedOnce`, `WorkConserving`, `IInv`, `WorkersExit`, `JobsTaken`, `ImplementsJobPool` | 211243 |
| `thread_pool_shutdown` | `ThreadPool`, `ThreadPoolShutdown.cfg` | **violation** of `ShutdownSurvives`: shutting down may crash | |
| `zk_lock_safety` | `MCZkLock`, `ZkLockSafety.cfg` | `WatchInv`, `FirstExecutionOwnsLock` (3 processes) | 2786305 |
| `zk_lock_live` | `MCZkLock`, `ZkLockLive.cfg` | `LockServed`, `LockReleased`, `FirstExecutionOwnsLock` (2 processes, every kind of fault) | 301271 |
| `zk_lock_holder` | `MCZkLock`, `ZkLockHolder.cfg` | **violation** of `ExecutesOnlyAsHolder`: a process executes without the lock | |
| `zk_lock_watch` | `MCZkLock`, `ZkLockWatch.cfg` | **violation** of `FoundCanBeWatched`: a process waits for a znode that is gone | |
| `cas_queue` | `CasQueue`, `CasQueue.cfg` | `ListInv`, `AllFreed`, `ImplementsFifo` | 132025 |
| `time_wheel` | `TimeWheel`, `TimeWheel.cfg` | `WheelInv`, `NodesDie`, `ImplementsIdleTimer` | 145352 |
| `reactor` | `Reactor`, `Reactor.cfg` | `ReactorInv`, `EventsAreFresh`, `EchoedBeforeReceiving`, `ConnectionsEnd` | 641609 |
| `kcp_safety` | `KcpEcho`, `KcpEcho.cfg` | `DeliveredInOrder`, `AckedIsHeld`, `WindowsKept` | 234025 |
| `kcp_liveness` | `KcpLive`, `KcpLive.cfg` | `MessagesArrive` | 48646 |
| `samples` | `MCSamples`, `Samples.cfg` | one property per program, see [samples](#samples) | 325071 |

## Inventory

The programs do not call one another. What interacts is inside each of them: threads through shared memory, callbacks
through an event loop, processes through a server or a network, a caller and a data structure through pointers.

| component | state | operations | hard behaviour | correct when |
|---|---|---|---|---|
| thread pool `code/threadpool` | worker and job lists, mutex, condition variable, `terminate` flags | create, queue, worker loop, shutdown | interleaving, spurious wakeups, unlocked flag and list walk, failing allocation | a job runs once, no wakeup is lost, all workers exit |
| ZooKeeper lock `code/zookeeper` | own number, watched name, `quit`; znodes and watches at the server | create, list children, watch, delete; callbacks | answers that are stale when used, late events, crashes, lost connections, expired sessions | one process at a time executes, everybody's turn comes |
| CAS queue `code/cas` | head, tail, nodes | push, pop, destructor | interleaving between two swaps, reuse of freed nodes | first in first out, no use after free, no leak |
| timing wheel `code/timer/test.cc` | wheel of lists, reference counts | add, add with delay, tick, offline | a node in several lists, wrapping slots | a node dies with its latest timeout and is used no more |
| reactor `code/io/reactor.c` | slots, epoll set, descriptors | accept, receive, send, scan for silent connections | descriptors reused within a batch, failing calls, limits | events reach their connection, none escapes the scan |
| KCP `code/kcp` | send and receive queues and buffers, windows, timers | send, recv, input, flush, update; two threads per program | loss, duplication, reordering, timeouts, full windows | a reliable ordered stream |
| search trees `code/tree` | nodes, colours, key arrays | insert, delete | rotations; split, borrow, merge, freed nodes | a bag of keys; balanced |
| timer queues `code/timer/skiplist.c`, `sl-timer.c`, `rbt-timer.c` | leveled list or tree of deadlines | add, delete, expire | equal deadlines, 32-bit time | timers fire once, not early, not after deletion |
| memory pool `code/mmpool` | blocks, large allocations, cleanups | create, palloc, pnalloc, pfree, cleanup, reset, destroy | alignment, blocks given up, what a reset forgets | pieces are disjoint, everything is freed once |
| Bloom filter `code/bloomfilter` | parameters, bits, file | init, add, check, reset, save, load, free | lazy reset, failing allocation and files | what was added is found, nothing is freed twice |
| JSON library `code/json/cjson` | items linked into trees; text | create, add, insert, detach, replace, duplicate, reference, delete; print, parse, minify | shared strings and items, sizes computed beforehand | every item has one owner; text and items say the same |
| exceptions `code/exception` | stack of frames per thread | Try, Catch, Finally, Throw | nesting, rethrow, leaving a block early | the innermost handler runs, the stack is balanced |
| singletons, observers `code/designpattern` | pointer and lock; list of watchers | getInstance; attach, detach, set level | double-checked locking, reordering; deleted watchers | one instance, seen constructed; no dangling watcher |
| XDP redirection `code/ebpf/libbpf/xdp` | one client per protocol, LRU map of ICMP | rewrite per packet | packets on several processors, incremental checksums | answers go back to who asked, checksums are right |
| event loops `code/io/select.c`, `poll.c`, `epoll.c` | descriptor sets | wait, accept, read | edges that are missed, limits of descriptors | whatever is readable is seen |
| MQTT devices `code/mqtt/client/go` | sessions and subscriptions at the broker | connect, subscribe, publish, answer | lost connections and sessions, wills | every command reaches its device |
| zlib pipe `code/zlib/zlib.c` | stream, input and output pieces | def, inf | boundaries of pieces, missing end of stream | all of the stream is read and written |
| user-space network stack `code/netmap` | one packet in the ring | answer to ARP, UDP, ICMP | checksums, lengths that disagree | the answer is the packet turned round |
| data structures `leetcode` | ten classes | their methods | maps and lists that must agree | every call returns what its user expects |
| sorting, searching, exercises `code/sort`, `code/search`, `leetcode` | none | one function each | boundaries | the answer to the question |

`PROJECT.json` lists all components, those left out too, and the hazards, each at its line with the properties that would
catch it.

## Plan

Done: a model and a run for each component of the table, the larger ones in runs of their own; proofs of every safety
property and every refinement of the thread pool, the ZooKeeper lock, the CAS queue, the timing wheel, the reactor and KCP;
proofs of the properties of the samples that compute with functions, sets and sequences: singletons, observers, MQTT devices,
event loops, zlib pipe, XDP redirection, Bloom filter, exceptions, memory pool and data structures of the exercises.

Left: nothing within the prover's reach. The samples that walk trees, texts or heaps
(`TreesKept`, `TimersKept`, `JsonTreesSound`, `JsonTextFaithful`, `AnswersRight`) hold recursive operators and stay with TLC.

## Thread pool

`ThreadPool` models `threadpool.c` with its `main`. Each variable is named after the field it stands for; the lists
are sequences with the newest element first, as `LL_ADD` leaves them. `mpc` and `wpc` are the control points of main and of
the workers. A step is as large as the mutex allows and no larger: a worker locks, tests, sleeps or leaves its inner loop,
tests `terminate`, takes and unlocks in separate steps, since main writes `terminate` without the mutex. The shutdown walk
marks a worker in one step and reads its `next` in another. A worker block that was freed still holds its old `next` until it
is reused, so reading it continues the walk (`AdvanceCursor`) or crashes (`CursorCrash`). The condition variable wakes any
sleeper, or nobody if none sleeps, and may wake without a signal (at most `MaxSpurious` times). `malloc` and
`pthread_create` may fail; main ignores a failed `ThreadPoolCreate`. `main` returns at any time after shutdown, which ends
the process and its workers (`MainReturn`). `proc = "down"` is the end of the process.

`JobPool` says what a user is promised: each job runs at most once, on one of `Capacity` workers, the newest first; shutdown
drops what waits. `ImplementsJobPool` maps a job to new, waiting, running, done or dropped.

`IInv` is the inductive invariant of the [proofs](#proofs) and the safety property of the run: it contains that nothing is
stored into a freed worker, that no worker takes from an empty list and that none sleeps on after the broadcast.
`JobOwnedOnce`: no job is in two places (list, worker, freed). `WorkConserving`: before shutdown, while a worker sleeps at
least as many are awake as jobs wait. `WorkersExit`: after shutdown every worker ends. `JobsTaken`: before shutdown a queued
job leaves the list, if the pool has a worker.

`thread_pool` has 3 workers, 3 jobs, 1 spurious wakeup (211243 states): enough for two workers racing for one job while a
third sleeps, for a worker that leaves while another is woken, and for a queue longer than the number of workers awake.
Fairness: each worker is weakly fair (threads are scheduled), and so is main while it holds the mutex. Main is not assumed to
go on elsewhere, so `JobsTaken` and `WorkersExit` do not rest on its cooperation.

`thread_pool_shutdown` finds that `ThreadPoolShutdown` may crash: `worker->terminate = 1` is written with no lock held, the
worker sees it, leaves and frees its block, and main then reads `worker->next` from it.

## ZooKeeper lock

`ZkLock` models the processes of `code/zookeeper/main.c`: for each the main thread (`MainCreate`, `MainClose`) and the
callbacks, one action each (`CreateDone`, `FoundSmaller`, `NoneSmaller`, `ChildrenFailed`, `ExistsDone`, `DeleteDone`,
`Watcher`). Names of znodes are their sequence numbers. The server and the client library are external and modelled by what
the program relies on: per session, requests are served in order, answers and events arrive in order, and one thread runs all
callbacks; a watch fires once; an ended session loses its znode; the watcher is also called for changes of the session, with
an empty path. `watch = None` is the empty string `zmt.watch` holds at the start, which such a path equals (line 127).
`FirstSeq` is the number of the first znode: 0 for a parent no one has used (line 105 treats it in its own way), 1 otherwise.

Faults, of the kinds in `Faults` and at most `MaxFaults` in number: a process dies and its session ends later; a connection
breaks, so that answers and requests under way are lost, served or not, and is made again; a session expires while its
process lives.

- `FirstExecutionOwnsLock`: the first execution of a process that has a positive number, and whose session lives, happens while
  its znode is the smallest. It covers stale lists and late events. A process whose session expired is excluded, since it cannot
  know.
- `WatchInv` has two parts beside the types. `NoHerd`: one waiter per znode. `WaiterIsWatching`: a waiter with nothing under way
  has its watch at the server, or the znode is gone.
- `LockServed`: under fairness of server, callbacks and main threads each running process executes or ends, though any process
  may die; assumed are that connections and sessions last and that `FoundCanBeWatched` holds.
- `LockReleased`: when all processes have ended all znodes go.

`zk_lock_safety` has 3 processes, the least with two waiters in a row (2786305 states up to symmetry; no liveness is checked
with symmetry), and a crash or an expiry. `zk_lock_live` has 2 processes without symmetry and one fault of any kind, a lost
connection included. Three processes with lost connections are beyond five minutes.

Two runs show where the program breaks its own comments. `zk_lock_holder`: the first session event makes the watcher ask for
the children, next to the request that `zk_create_lock_res1_es` makes; when the first list lets the process execute and
delete its znode, the second makes it execute again (there, or when another holds the lock). The same event may also be
answered before the process has a znode. `zk_lock_watch`: the predecessor is deleted between the list and `zoo_aexists`; the
answer is `ZNONODE`, which is only printed, and the process waits forever.

## CAS queue

`CasQueue` models `cas.h` load by load: `push` allocates and reads `oldp` (`New`), reads `_tail` (`ReadTail`), swaps its
`_next` (`Link`), swaps `_tail` (`Swing`); `pop` reads `_head` and its `_next` twice and swaps. `cas.cpp` starts one pushing
and one popping thread, joins both (`Join`), and the destructor of the static queue frees the rest. The heap gives any
free address, so a freed node comes back at once and compare-and-swap may meet an old address with a new meaning.

`ListInv` collects the safety properties. Its parts `SwingSucceeds` and `LinkSucceeds` are why one pushing thread works: neither
swap ever fails, though `pop` overtakes `_tail` in between and even deletes the node `_tail` points to. `NoUseAfterFree` says
that this pointer is never followed then; `NoLeak` that what is allocated is on the list, about to be linked, or about to be
deleted. `ImplementsFifo` maps the list after the dummy node to the queue of `Fifo`: an element enters at the first swap and
leaves when `_head` moves.

`cas_queue` pushes 4 numbers over 5 addresses (132025 states), so that addresses are reused twice and the popping thread finds
the queue empty, with one and with several elements. `NumPush` stands for `FOR_LOOP_NUM`, and for the number of `pop` calls,
as in the program. Fairness: the three threads are scheduled. More than one thread on a side is not what the program does
and not modelled.

## Timing wheel

`TimeWheel` models `code/timer/test.cc`. `tw[s][n]` counts how often node `n` is in list `s`; all that matters of a list
is that, because a tick empties it as a whole. A tick takes one reference per entry and deletes a node whose count reaches
zero; an entry left for a deleted node is a use of freed memory, which goes unnoticed or ends the process (`UsesDeleted`).
`main` adds a node with one timeout and one delayed timeout; the model allows `MaxAdds` timeouts per node at any time, new
nodes, and `Offline`, which the class offers and `main` does not call.

`IdleTimer` says what reference counts in a wheel are for: a node is killed by the tick that reaches the latest of its
timeouts. `ImplementsIdleTimer` maps the distance of the last list that holds a node to the ticks left. `NoDanglingEntry`
(part of `WheelInv`) holds for nodes that were not taken offline: an offline node dies with its first entry and later ones dangle.

`time_wheel` has 2 nodes, 2 timeouts each, 8 slots, a timeout of 5 ticks and a delay of 2 (145352 states): entries in the same
list, in different lists, and across the wrap. With the sizes of the code (16 slots, 10 ticks, delay 5) one node and 3
timeouts give the same result. A delay of `TW_SIZE - EXPIRE` or more wraps and fires early; the program uses 5 of at most 5,
and the run stays in that range. Fairness: the clock goes on.

## Reactor

`Reactor` models `code/io/reactor.c`: a turn of the loop is `Scan`, `EpollWait`, then one callback for each event of the
batch (`Accept`, `Receive`, `Send` and their failures). Callbacks are atomic, since there is one thread; peers connect,
send, read, half-close and reset between any two of them. The kernel is external: lowest free descriptor, level-triggered
readiness, `close` leaves the epoll set, `epoll_ctl` may fail (`MaxAddFails`), and so may `accept`. Descriptor 0
stands for the standard streams and the epoll set itself, 1 for the listener.

A slot is found by the number of the descriptor, and nothing limits descriptors to the 51200 slots: the program asks for a
limit of 65535 (lines 12 to 15). `accept_cb` writes `events[clientfd]` unchecked (line 214), so a connection with such a
descriptor is written behind the slots (`AcceptOverruns`). What the program does then is undefined and the model ends there
(`pc = "overrun"`); `ReactorInv`, `EchoedBeforeReceiving` and `ConnectionsEnd` are about the program until then.

`ReactorInv` has two parts beside the types: `InterestMatchesCallback`, the event a descriptor is watched for is the one its
callback handles, and `StatusIsOpen`, which relates `status` to the kernel's table both ways: the scan closes no descriptor of
somebody else and no connection escapes it. `EventsAreFresh`: a descriptor closed and given away within a batch gets no event of
its former connection. `ConnectionsEnd`: every connection is closed in the end, also one whose `epoll_ctl` failed, because the
scan finds it; this needs `checkpos` to wrap correctly. `EchoedBeforeReceiving` holds up to short sends, of which the code
forgets the rest.

`reactor` has 2 peers that send up to 2 bytes, room for 1 byte, 3 slots scanned 2 at a time, 4 descriptors (so the second
peer gets the descriptor of the first once that is closed, or one without a slot), 1 second of timeout and one failing
`epoll_ctl` (641609 states). `Timeout` is 1 because only "reached or not" matters to the scan. Fairness: the thread runs and
time passes; peers may stop at any point.

Two facts the model shows without a property of their own: the scan closes the listener, too, `Timeout` after the start
(its `last_active` is never renewed), and a connection is refused from then on; and `accept_cb` never reports its connection
limit, since slots of descriptors that are not connections stay free.

## KCP

`Ikcp` models `ikcp.c`: every operation of the library maps a control block to the block it leaves, and `ikcp_flush` also to
the datagrams of its output callback. The fields have the names of the code; a segment keeps its number, fragment number,
message, length, count of transmissions and of skipped acknowledgements. Time is left out: which segments have waited for
their timeout (`late`), whether the probe timer has run out and whether the flush interval has passed are arguments, so that
the arithmetic of round trips, which only decides these, is covered by any outcome of it. `Lateness` and `ProbeTimes` are what
the timers may say.

`KcpEcho` composes two blocks with the threads of `test_client.cpp` and `test_server.cpp` and a network. Each thread does its
work inside one mutex, so a pass of a thread is an action: `ClientSend`, `ClientInput`, `ServerInput`, `ServerEcho`. The
network delivers any datagram on its way, leaves it there to arrive again, or loses it; when more than `MaxNet` are on their
way in one direction some get lost.

`Spec`, of `KcpEcho`, says nothing of progress; the proofs are about it. What it promises, in the order of the stream:

- `DeliveredInOrder`: what an application receives are the messages the other one sent, whole, in order, each once.
- `AckedIsHeld`: a segment leaves the send buffer only when the peer has it.
- `WindowsKept`: segments under way, send buffer, receive queue and receive buffer stay inside their windows, and what waits
  in the receive buffer waits for an earlier segment or for room.

`kcp_safety` has messages of 10 and 30 bytes and an MTU of 50, so the second needs two fragments and segments share or do
not share a datagram; windows of 2, so three segments do not fit; 2 datagrams in each direction, the least that can be
reordered; fast retransmission after one skipped acknowledgement, with a limit of 1. Transmissions are counted up to that limit
and skipped acknowledgements up to `fastresend`, since no comparison tells more apart. The client sends its messages and ends.

`KcpLive` adds what the last step did and states fairness of the steps taken: the threads never stop; a timeout that nothing
stops passes, and what it resends is not lost every time; what is on its way over and over arrives at last. The programs loop
for ever and UDP is assumed no worse than that. `MessagesArrive`: each message the client sends reaches the server's
application. `kcp_liveness` has 3 messages (`SmallSizes`) and a receive window of 2: the window closes, the answer that opens it
may be lost, and only the window probe (`Probe`) gets the client on. One datagram in each direction is enough for that; parity
of the step count tells a step that changes nothing from no step.

Sequence numbers start from 0 and stay far below 2^31, so their wrap is not modelled. Streaming mode is off in both programs.

## Samples

`Samples` puts the smaller programs into one specification: `part` says which of them a behaviour is about, the variables of
the others keep their first values, and no two programs share state. One run checks them all. Every property holds for any
sequence of calls or any interleaving the program allows, *but for* the faults it names: a property excepts exactly the
situations listed in the last column, so that any other one would be
found. No comment or test of the repository claims that these situations go well; two comments speak of neighbouring ones:
`singleton.cpp:110-112` says that variant 3 may return an object before it is constructed, and `timer/rbtree.c:132-137`
that the order of the timer tree minds the 32-bit wrap, which the test for expiry does not.

| part | modules | property | excepted, at the line |
|---|---|---|---|
| `trees` | `RedBlackTree`, `BTree`, `OrderedSet` | `TreesKept`: every insertion and deletion leaves a search tree of the right shape with the right keys | a key replaced by one that is not its neighbour (`b-tree.c:279`); insertion after the last key was deleted (`:130`); deletion of the only key of a root with two smallest children (`:301`) |
| `timers` | `SkipList`, `NgxRbTree`, `TimerQueue` | `TimersKept`: queues stay in order, an expiry fires what is due and nothing else, deleted timers are gone | two timers of a skip list with one deadline (`skiplist.c:151`); deadlines across the 32-bit wrap (`sl-timer.c:59`, `rbt-timer.c:76`) |
| `pool` | `MemoryPool` | `PoolOwned`: pieces lie inside their block and share no byte with anything in use, large allocations in one node each, every cleanup that was registered runs once | cleanups kept by a reset in memory it gives away (`ngx_palloc.c:121`); blocks whose end is not aligned (`:168`) |
| `bloom` | `BloomFilter` | `BloomAnswers`: what was added is found, the rest only by collision, memory is freed once | filters without a hash function (`bloomfilter.h:121`); bits between reset and the next add (`:206`, `:461`); pointers left by a failed load (`:415`) |
| `jsontree` | `JsonTree` | `JsonTreesSound`: lists are doubly linked, items and strings have one owner | the name of a constant-name member freed (`cJSON.c:672`); names lost (`:668`, `:689`, `:717`); a reference outliving its original |
| `jsontext` | `JsonText` | `JsonTextFaithful`: printing fits its buffer, parsing inverts it, minifying is printing unformatted | a text that ends within an escape (`cJSON.c:197`) |
| `exceptions` | `Exceptions` | `BlocksRun`: a throw reaches the innermost Try; a Finally is entered on every way out | blocks left by break, return or goto (`trycatch_finally.c:126`); a throw out of a Catch passes its Finally (`:76`) |
| `singletons` | `Singletons` | `OneInstance`: one object, complete when it is returned | variant 1 has no lock (`singleton.cpp:51`); variants 1 and 3 read a plain pointer (`:144`) |
| `xdp` | `XdpNat` | `RedirectedRight`: checksums stay right, answers go to the client that asked | UDP without a checksum (`xdp.bpf.c:305`); another client asked since (`:373`) |
| `loops` | `EventLoops` | `ReadableIsSeen`: open connections and no others are watched, what is readable is or will be reported | connections `epoll_ctl` refused (`epoll.c:81`); edges passed over (`epoll.c:88`, `:112`); one bit too many in `select.c:76`; `poll.c:77` never asks |
| `mqtt` | `MqttDevices` | `SubscriptionsKept`: the server and the devices have their subscriptions whatever connections they lost | the session of a device forgotten, or the connection lost before its one subscription (`client.go:106`) |
| `observer` | `Observer` | `ObserversLive`: a notification calls those who have attached and not detached since, exactly if their job is to hear of the level, and nobody who is gone | addresses of watchers deleted while attached (`observer.cpp:159`) |
| `zpipe` | `Zpipe` | `StreamWhole`: success means all was read and written, the assertions hold | none |
| `designs` | `Designs` | `DesignsKeepTheirPromise`: every call returns what an ideal object returns | none |
| `exercises` | `Exercises`, `TreeExercises`, `TextExercises`, `ArrayExercises`, `SearchExercises`, `UserStack` | `AnswersRight`: the program's answer is the plain definition's | `kmp.c:65` answers n - q + 1 where the pattern does not occur; lengths that disagree in `user_stack.c:315` |

Bounds, where they matter. Trees have up to 4, 7 and 9 keys and B-trees of degree 2 and 3, so that every case of a split, a
borrow and a merge and a root of every kind occurs. Timers: 3, with keys modulo 6 and a clock up to 7, so the wrap happens.
The pool has blocks of 27 or 28 bytes, one with the pool's header of 20, at most 3, and requests of 7 and 9 bytes at an
alignment of 2, so a request fits a block's rest, needs a new block, or is large, and the end of a block is aligned or not;
the limit on failures of a block is 0 instead of 4, a `size_t` has 128 values.
The Bloom filter has 2 items; its hash is a constant operator, a fixed function in `MCMurmur`. JSON trees have up to 4
items, with one or two strings or containers; JSON texts are those of `MCJsonDocs`. Exceptions: one thread, since frames are
thread-specific, 2 kinds and 3 nested statements. Singletons: 3 callers. XDP: 2 processors, 3 packets, checksums of 4 bits
instead of 16; end-around carries do not depend on the width. Event loops: 5 descriptors for `select`, one below what the
process may open. MQTT: one device and the server, 2 connections each, since devices share nothing. Observers: 2 addresses of
watchers and a list of 2 entries, so that an address comes to be used again and to stand twice in the list.
zlib: pieces of 2 units, each unit in gives 0 to 2 units out, up to 5 units, so input and output end at and off a boundary
of a piece. Data structures: 3 values, capacity 2. Exercises: 17391 questions, all inputs of a few elements (`MCExercises`).

`UserStack` is modelled as one answer to one packet because the loop of `user_stack.c` keeps nothing between two packets;
words have 4 bits and the echo structure two words of data. The faithful part of an exercise is the algorithm of the code, its
queue, stack, table or pointers; what it is compared with is below it in the same module and says only what is asked.

The samples have no fairness: their properties are safety. Deadlock is not checked since most programs end.

## Proofs

### Thread pool

`ThreadPoolProofs` proves, for every set of workers, number of jobs and number of spurious wakeups, from the assumptions
named in `ThreadPool`:

| theorem | establishes |
|---|---|
| `Invariant` | `IInv`, the inductive invariant, in every state |
| `TypeCorrect` | the types of all variables |
| `OwnedOnce` | `JobOwnedOnce` |
| `NoLostWakeup` | `WorkConserving` |
| `NoNullJob`, `StoreSafe`, `NobodyLeftAsleep` | no take from an empty list, no store into a freed worker, no sleeper after shutdown |
| `Refinement` | `ImplementsJobPool`: each step of the program is a step of the job pool or a stutter |

They rest on one inductive invariant, `IInv`, which the run checks too. None of the properties is inductive by itself.
`NoSleeperAfterShutdown` needs that all workers were marked when the broadcast is sent (`WalkInv`) and that a worker tests
`terminate` under the mutex main holds at that time (`LockInv`). `TakeFindsJob` needs that a worker in "check" holds the
mutex since it saw the list non-empty (`JobInv`, `LockInv`). `JobOwnedOnce` needs that job numbers on the list are decreasing
and smaller than the next one (`JobInv`). `WorkConserving` is preserved by `ThreadPoolQueue` because the signal adds an awake
worker for the job added. The proof has one lemma per conjunct of `IInv` and one step per action in each; facts about
lists built at the head come first.

### ZooKeeper lock

`ZkLockProofs` proves, for any number of processes, any first number and any number and mixture of crashes, lost
connections and expired sessions (`ClientsAssumption`, `NumbersAssumption`, `FaultsAssumption`):

| theorem | establishes |
|---|---|
| `ZkLockInvariant` | `IInv`, the inductive invariant |
| `ZkLockWatches` | `WatchInv`: the types, `NoHerd` and `WaiterIsWatching` |
| `ZkLockOwned` | `FirstExecutionOwnsLock`, an action property: the list that lets a process execute is old, and still right |

The run has three processes and one fault; the theorems have no such bounds. Why a list that was made at the server some time
ago can be relied on takes the whole invariant. `NumbersInv`: a number is given to one process and each process gets one,
wherever the number is by now (the znode, the answer on its way, `seq_me`), and later numbers are larger. `CreateInv`: each
process asks for one znode and is told of it once. `ListsInv`: a list that was made after a process drew its number has every
smaller znode that still exists, since a znode with a smaller number is never added later. `DeleteInv` and `OwnInv`: nobody else
deletes a znode with a positive number, and its owner not before it executed, so a process that has not executed still owns its
znode while its session lives. `WatchesInv`: what is watched, or asked to be watched, is the znode just below one's own; two
processes with different numbers have different ones there, which is `NoHerd`. `WatchingInv`: a process that waits is watching,
or its request for that is under way, unless a connection was lost.

### CAS queue

`CasQueueProofs` proves, for any number of pushes and any heap with room for one node more (`HeapAssumption`):

| theorem | establishes |
|---|---|
| `Invariant`, `TypeCorrect` | `IInv` and the types |
| `UsesLiveNodes` | `NoUseAfterFree` |
| `SwapsSucceed` | `LinkSucceeds` and `SwingSucceeds`: no swap of the pushing thread fails |
| `ListCorrect` | `ListInv`, which adds `NoLeak`: what is allocated is reachable from the head or in one thread's hands |
| `NothingLeaks` | nothing is allocated when the program has ended |
| `CasQueueImplementsFifo` | `ImplementsFifo`: the two threads are a queue, first in first out |

The state says only where each pointer leads, so the invariant says what the list is: there are a function `s` from the numbers
to the addresses and a window `lo..hi` of it such that the `_next` of each `s[k]` is `s[k + 1]`, all differ, `_head` is `s[lo]`
and `s[hi]` is the end (`Chain`); `PushInv`, `PopInv` and `LiveInv` say where the two threads are and what is allocated. A push
adds `s[hi + 1]`, a pop and a turn of the destructor move `lo`; the proof of each step names the new window. `_tail` is `s[hi]`
except between the two swaps. The second swap compares addresses only and succeeds because nobody but push writes `_tail`, even
when `pop` has deleted the node it points to meanwhile; no one follows it before it moved on. `NoLeak` needs that the nodes
reachable from `_head` are those of the window (`ChainIsPath`).

For the refinement, the walk along the list from `_head` is shown to be the window (`NodeIsWalk`), so the queue that `Fifo` sees
is what the nodes `s[lo + 1]` to `s[hi]` hold (`Contents`); a push adds one number behind it at its first swap, a pop and the
destructor take one from its front, and each other step leaves the window as it is.

### Timing wheel

`TimeWheelProofs` proves, for any set of nodes, any wheel, delays and number of timeouts (`SizeAssumption`,
`DelaysAssumption`):

| theorem | establishes |
|---|---|
| `TimeWheelInvariant` | `IInv`, the inductive invariant |
| `WheelSafe` | `WheelInv`: the types, `RefCounts` and `NoDanglingEntry` |
| `WheelImplementsIdleTimer` | `ImplementsIdleTimer`, if `DelaysFit`: a node dies with the tick that reaches its latest timeout |

`IInv` adds that no list holds a node more often than timeouts were added (`BoundInv`), that a node not yet used is in no list
(`NewInv`) and that one that lives has a reference (`LiveInv`). A reference count is a sum over the slots. `SlotSumIs` says that
the sum adds slot by slot; how it changes when one slot does, and that it is zero only if every slot is, follows by induction
over the slots. For the refinement, the ticks left to a node are the distance from the slot the clock is at to the last slot
that holds it; a tick lowers every distance but that of the emptied slot, and adding a timeout changes the distance to its
maximum with the new one. This is false for a timeout of a whole turn or more, which lands in a slot too near: hence the
hypothesis `DelaysFit`, which `main` fulfils (10 + 5 on a wheel of 16) and the run, too. The safety theorems need no such
hypothesis.

### Reactor

`ReactorProofs` proves, for any number of peers, descriptors and slots, more descriptors than slots included, and any number of
failing `epoll_ctl` calls (of descriptors and slots there are two at least, `FdsAssumption`):

| theorem | establishes |
|---|---|
| `Invariant` | `IInv`, the inductive invariant |
| `SlotsAgree` | `ReactorInv`: the types, and, until a connection is accepted that has no slot, `StatusIsOpen` and `InterestMatchesCallback` |
| `EventsStayFresh` | `EventsAreFresh` |
| `BufferSentFirst` | `EchoedBeforeReceiving` |

`IInv` says that the model has ended or `Running` holds, which adds five parts to the properties. `SlotInv`: every open
descriptor has a slot, which the guards of `Accept` and `AcceptOverruns` tell apart. `FileInv`: an open connection has one
descriptor. `CallbackInv`: slots keep a callback that fits their
descriptor also when `epoll_ctl` failed and epoll waits for nothing. `ReadyInv`: a batch has one event for a descriptor, and
there is none outside a batch. It is why a callback may close its descriptor, and why the scan, which closes any, does no
harm. `BytesInv`: what a peer sent is what was received and what waits; what was sent back and what a slot holds add up to
what was received. It is why the types hold at all, since the bound on bytes is one on what peers send. `Closing` is about
the three places that close descriptors, `Armed` and `TransferInv` about the three that set an event.

### KCP

`KcpProofs` proves, for any sequence of message sizes, any MTU, windows, buffer size and fast-retransmission setting, and a
network that holds any number of datagrams (`IkcpAssumption`, `KcpEchoAssumption`):

| theorem | establishes |
|---|---|
| `KcpInvariant` | `Base(DataSegment)`, the inductive invariant of the two ends and the network |
| `KcpAcked` | `AckedIsHeld` |
| `KcpWindows` | `WindowsKept` |
| `KcpDelivers` | `DeliveredInOrder`, if `Deliverable`: no loss, repetition or order of datagrams changes what is received |

The proof goes from the inside out. First the operators on buffers (insertion by number, removal, the front part below a number)
and what each operation of `ikcp.c` does to a *good* control block: one lemma for each of them, from `ikcp_parse_ack` and
`ikcp_parse_data` to `ikcp_input`, `ikcp_flush`, `ikcp_update`, `ikcp_send` and `ikcp_recv`, says that the block it leaves is
good and what it changed. `Good` says that the send buffer is ordered, lies between `snd_una` and `snd_nxt` and inside the send
window, and begins at `snd_una`; that `rcv_queue` holds consecutive numbers up to `rcv_nxt`; that `rcv_buf` is ordered, inside
the receive window, and holds `rcv_nxt` only if the queue is full; that what `acklist` will acknowledge has been received.

Then the two ends. `Linked` relates them over the network: what one no longer holds for resending, the other has; what one has,
the other has sent; and each datagram on its way says only such things (`FineOf`). That stays true of a datagram that arrives
late or again, since what an end has and what it has sent only grow. This is `Base(S)`, where `S` are the segments that may be
under way.

`Base` holds for any set of segments closed under what `ikcp_send` makes, and the order of delivery follows from the choice of it:
`Stream` has exactly one segment for each number, the piece of the message that is due there (`Start` is where each
message begins). `Order` adds to `Base(Stream)` that each application has given and got a prefix of the messages
and that `snd_nxt` and `rcv_nxt` stand where those prefixes end. Where a message begins
is a recursive function, whose properties `NaturalRecursion` gives.

`Deliverable` says that each message is cut into fragments at all. `ikcp_send` answers -2 for a message of `IKCP_WND_RCV`
fragments or more (`Taken`). The client then takes its index back and makes the same message again, without a flush
(`test_client.cpp:137`); the server drops the message it has received and goes on, without a flush either
(`test_server.cpp:145`), and from then on its numbers and those of the client differ. Both are in the model. The sizes of the
runs satisfy `Deliverable`, and so do the messages of the programs, which are a few bytes long. `KcpInvariant`, `KcpAcked` and
`KcpWindows` hold without it.

### Samples

`SampleProofs` proves properties of the samples, `ThreadPoolProofs` that of the singletons. Each theorem is about the
component's own specification, such as `XdpInit /\ [][XdpNext]_xdpVars`: in `Samples`, whose other parts hold recursive
operators, the part begins in such a state and takes such steps. Constants are arbitrary, within the assumptions of the module
they are declared in.

| theorem | establishes, for any | along the inductive invariant |
|---|---|---|
| `SingletonsShareOne` | `OneInstance`; callers, variant, order of stores | `Exclusion`: who is in the section that makes the object holds the mutex. `OnlyObject`: one object at most, which the pointer has or its maker is about to publish. `Construction`: its constructor has run, or its maker is about to run it |
| `ObserversStayLive` | `ObserversLive`; watchers, order of calls | `ObserverInv`: who has attached lives and is in the list; every other entry is an address whose watcher was deleted while attached |
| `SubscriptionsStayKept` | `SubscriptionsKept`; devices and connections lost | `ServerSubscribes`: what the session of a connected server lacks is left to the routine of this connection. `DevicesSubscribed`: a device has no session before it subscribes, then its topic until it is forgotten. `WillsRetained`: the server is told only of wills of devices that were connected |
| `ReadableStaysSeen` | `ReadableIsSeen`; loops, descriptors, limits | `WatchesOpen`: exactly the open connections and the listener are watched, but for those refused. `EdgesFollowed`: epoll is about to report a connection with data, has reported it, or the program passed it over |
| `StreamStaysWhole` | `StreamWhole`; sizes of pieces and of the stream, bytes out per byte in | `SourceRead`: what was read, and what the library was told of the end. `OutputDrained`: room is left in a piece of output only when the library has no more to give. `ReturnedWhole`: success is returned at the end of the stream |
| `RedirectionsStayRight` | `RedirectedRight`; width of checksums, addresses, processors, packets | see below |
| `BloomStaysRight` | `BloomAnswers`; items, hash function, number of bits | `HoldsItems`: the bits of what was added are set, in the filter and in its file; who owns the memory |
| `BlocksAlwaysRun` | `BlocksRun`, an action property; nesting and kinds of exception | `WellLinked`: the pointer of the thread, and that of each open frame, skip no open frame below. `BlocksOrdered`: a frame is in its Try block exactly while it is entered, but for the innermost, just thrown to |
| `PoolStaysOwned` | `PoolOwned`; sizes of pools, aligned or not, headers and requests, alignment, limits | `PoolSound`: `last` of a block lies behind its header, and inside the block if its end is aligned. `PiecesSound`: what is in use lies before `last`, where the next piece begins. `CleanupsSound`: what was registered is in the list, and has a handler until it has run. `LargeOwnedOnce`, `CleanedDiffer` |
| `PromisesStayKept` | `DesignsKeepTheirPromise`; values, keys, capacity, sequence of calls | `DesignAgrees`: what the object holds stands for what its user expects it to hold, see below |

The proof about XDP is about numbers: folding the carries of a sum back into it leaves a word that differs from the sum by a
multiple of `SumSpan - 1` and is zero only if the sum is (`EndAroundCarries`). That replacing words of a packet by
the incremental update keeps its checksum right follows for any width, of which the run has 4 bits. The other half,
`AskerRemembered` and `EchoRemembered`, relates what the program remembers to who asked: if a client asked and no rival has
since, it is the one remembered.

Destroying a pool is a loop over its cleanups, large nodes and blocks, in the model a recursive function whose result is found
with `NaturalRecursion`.

`DesignAgrees` is an abstraction relation for each of the ten classes, and each call of a class is shown to keep its own and to
answer as the ideal object does. `LruAgrees`: the list has the pairs in order of use, each under a number of its own that the map
gives for its key. `RingAgrees` and `ListAgrees`: there is a sequence of nodes, each linked to the next, that makes the
expected elements; nothing in the object stores it, so it is quantified. `CircularAgrees`: the elements from `front` on, round the
buffer. `MinStackAgrees`: the second stack has at each place the least of what is below. `StackAgrees`, `QueueAgrees`: one
queue, and two stacks end to end. `SetAgrees`: every value is where the map says and nowhere else. `FlipAgrees`: what stands
for the first cells are those not drawn, each once; the matrix has four cells, as in the run. `TreeAgrees`: the queue has
the nodes from the parent of the next one on. `HasRoom` bounds the classes that have no capacity by `DesignBound`, any number.

Assumed of the constants is what the code declares or relies on: no caller is numbered 0, the value of
an unlocked mutex (`SingletonAssumption`); a word has three bits at least (`XdpAssumption`); hashes and seeds stay below the span of a
word (`BloomAssumption`); a pool has room for its header and for a node of each kind, as `NGX_MIN_POOL_SIZE` is there for,
is no more than half of what a `size_t` counts, and a cleanup is no large allocation (`MemoryPoolAssumption`); keys and values
are positive (`DesignAssumption`).

### Numbers

`NaturalRecursion` replaces the induction that the library states with an operator as parameter. A least element of a set of
numbers is found among its initial segments, finite sets that are ordered by inclusion (`LeastOf`); a greatest one
(`GreatestOf`), induction over `0..N` for a set (`InductionUpTo`) and the existence of a recursive function on `0..N`
(`RecursionUpTo`) follow. `CarriedOnce` and `CarriesStep` say what is left of a number when its carries are put back.

### Only model-checked

- Liveness, which is out of the prover's reach: `WorkersExit` and `JobsTaken`, `LockServed` and `LockReleased`, `AllFreed`,
  `NodesDie`, `ConnectionsEnd`, `MessagesArrive`. The last needs fairness of the network as well as of the threads.
- `TreesKept`, `TimersKept`, `JsonTreesSound`, `JsonTextFaithful` and `AnswersRight`: they are about recursive operators on trees,
  lists, texts and questions, about which nothing can be proved here.
- What the runs that expect a violation show is a behaviour, found by TLC.

## Not modelled

Components left out: the other eBPF programs (they attach a probe and print), the Android client (user interface around a
library), executable files, samples of libraries (a few calls in a fixed order; the state is the library's), nginx, OpenResty
and skynet samples (configuration), Go samples (language features, one order), notes and configuration, the steps towards the
exceptions and the other samples of event loops (they keep no state), and the exercises that are one loop, one recurrence or one
call of the standard library, whose model would repeat them. `PROJECT.json` names their files.

Left out of modelled components:

- KCP: round-trip arithmetic (covered by free timers), streaming mode, wrapping numbers, the Windows branch that erases a
  connection, the end of the programs.
- Memory pool: failing `malloc`, `ngx_pcalloc`, deletion of files. JSON: `\u` surrogates, `%e`, arrays made from C arrays,
  lookup by name. XDP: `icmp_reply`, whose call is commented out, and the loader. zlib: the wrappers. Design patterns:
  `factory.cpp`, which only chooses a class. User stack: printing, and the zero byte written behind a datagram.
- ZooKeeper lock: a lost answer to `zoo_acreate` leaves a znode nobody knows of; the program only prints the error. A second
  fault in one behaviour of three processes.
- CAS queue: a second pushing or popping thread, which the program does not start.
- Timing wheel: a delay beyond the wheel, which the program does not ask for.
- Reactor: the limit on connections (line 204) is never reached, because slots of descriptors that are no connections stay
  free.
- Thread pool: `main` returning from the frame that holds the pool while workers may lock its mutex (line 208) is the end of
  the process here.

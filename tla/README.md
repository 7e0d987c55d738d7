# TLA+ models of linux_0

`linux_0` is a collection of Linux programs and libraries in C and C++. This
directory holds TLA+ modules translated from its source, TLC configurations that
check them on small instances, and TLAPS proofs for every size of instance.

## 1. Inventory

### 1.1 The reverse tunnel (`vpn/`)

The largest program of the repository. A *server* on a public host, a *client*
next to a service that cannot be reached from outside. The client keeps a control
connection to the server; for each user connection the server asks the client for
a data connection and relays bytes between the two.

| Part | State | Operations | Interaction |
|---|---|---|---|
| `com_lib/net_lib/sh_socket_server.cpp` | listening fd, epoll fd, `socket_manager` (id -> `socket_info`) | init/start/stop/close, one epoll thread: accept, recv, graceful and abnormal disconnect | callbacks `on_connected`, `on_recv_data`, `on_disconnected`, `on_a_disconnected` |
| `sh_socket_server_accept.cpp` | same, with a second thread that accepts | as above; the accept thread adds fds to the epoll set | two threads share the process's fd table and the manager |
| `sh_socket_client.cpp`, `sh_socket_client_once.cpp` | epoll fd, per connection info / one connection with reconnect interval | connect, add to epoll, recv, close, reconnect | connecting thread and epoll thread |
| `server/business_server.cpp` | map client name -> `client_info` (its control connection, its channels) | register, create channel, delete on disconnect, send "create tcp channel" | epoll thread of the control port; the console thread of `vpn_core` |
| `server/data_channel_server.cpp` | per channel two listeners (out, in), two queues of unpaired connections, two of paired ones | accept, pair, relay, close propagation, create/delete channel | accept thread, relay epoll thread, the business and console threads |
| `server/vpn_core.cpp` | the two servers | init, start, console commands, stop, close | owns both servers |
| `client/vnp_client.cpp` | control connection, pairs of data connections linked through `m_ptr`, reconnect condition variable | connect, register, open a pair on request, relay, reconnect, stop | main epoll thread, one epoll thread per end of the relays, reconnect thread |
| `com_lib/protocol` | none | 4-byte header, register/answer frames | both ends |
| `com_lib/mem_lib/mem_pool.h` | pages and a free chain threaded through the free blocks | create, alloc (grow), free, destroy | single-threaded |
| `com_lib/lock_lib` | one atomic word | read/write lock and unlock, spin lock | any number of threads |

Correct means: a user connection is relayed to exactly one service connection and
never to two; when one side of a pair goes the other side goes too; a descriptor
that is closed is not used again; a registry entry lives exactly as long as the
connection that made it; every request of the console eventually answers.

### 1.2 Older or smaller programs

| Part | What it is |
|---|---|
| `pools/thread_pool/thread_pool.cpp` | pthread pool: a spin-locked task list, workers sleeping on a condition variable, create/push/waitdone/destroy |
| `pools/thread_pool/ThreadPool.h` | a C++ pool in the manner of cpp-httplib, which no program of the repository includes |
| `pools/mem_pool/mm_pool.h` | fixed-block pool threaded through its free blocks, the earlier form of `mem_pool` |
| `svpn/` | the first version of the tunnel: one global slot pairs an outside connection with a client connection |
| `epoll_event/`, `epoll/`, `poll/`, `select/` | echo servers on each readiness API |
| `rbtree/`, `tree/` | red-black tree, search tree, binary tree with level order, FIFO list |
| `sys_queue/` | the BSD list macros and a program that uses one kind of them |
| `dpdk_ring`, `dpdk_eal`, `dpdk_fbarray`, `dpdk_mem*` | pieces of DPDK adapted to run alone |
| `test/temp.cpp` | a litmus test of acquire/release loads |
| `coroutine*`, `tcp_p2p`, `test_hook`, `core_dump`, `inc`, ... | demonstrations |

### 1.3 What is hard here

Interleaving of the console thread, the accept threads and the epoll threads on
unlocked maps and queues; a descriptor number that is closed and reused between two
system calls of another thread; close requests that are lost because the connection
is not yet in the epoll set; peers that go by FIN and peers that go by RST taking
different paths; condition variables waited on without a predicate; creation that
fails half way; blocks freed into a pool that refuses them; partial frames.
Outside the tunnel: indexes that wrap, and heads that are read long before they are
used, in the lock-free ring; locks that speculate; half-loaded 64 bit counters; searches
across masks whose end is cut; locks on files whose name is gone by the time they are had;
the shapes of trees and lists that only long sequences of calls lead to.
`PROJECT.json` lists each hazard at its line with the properties that cover it.

## 2. Modules

How to read the models: one action is one handler of the code, or the part of it
between two system calls when another thread can act in between. A variable bears
the name of the field it stands for where it has one. The `hist`, `past`, `ghosts`,
`overlooked`, `overlap` and `misused` variables are history: nothing in a guard reads them. They record that
a known race happened, so that a property can say precisely which events excuse
a state and that nothing else does. An operator under a comment "Broken variant" is
in no specification: it is the action before it as a plausible bug would have it, and
serves to show that the properties can tell the difference.

A module that a `MC` module composes with others has names of its own for its
variables and actions, because an `MC` module EXTENDS them all. Components that share no
state are composed as a choice: the initial state picks one (`part`, `program`,
`shares`), the others stay as they are. Such a run has the sum of their states and not
the product, and says the same about each as a run of its own would.

| Module | Models | Composed in |
|---|---|---|
| `RwLockSpec`, `AtomicRwLock` | `com_lib/lock_lib/atomic_rwlock.h` | `MCClient` |
| `ControlLink`, `ClientRelay` | `vpn/client/vnp_client.cpp` | `MCClient` |
| `FrameLoop` | the frames between client and server, both ends | `MCThreads` |
| `BusinessServer` | `vpn/server/business_server.cpp`, channel creation | `MCServers` |
| `DataChannel` | `vpn/server/data_channel_server.cpp` | `MCDataChannel` |
| `ServerLife` | `vpn/server/vpn_core.cpp`: start and end of the two servers | `MCServers` |
| `SvpnServer` | `svpn/s_vpn.cpp`, `svpn/vpn_core.cpp` | `MCServers` |
| `SvpnChannel` | `svpn/s_vpn_server.cpp` over `socket_server_accept` | `MCServers`, `MCThreads` |
| `TaskPool`, `ThreadPool` | `pools/thread_pool/thread_pool.cpp` | `MCThreads`, `MCThreadPool` |
| `BlockStore`, `MemPool`, `MmPool` | the two block pools | `MCStructures` |
| `RbTree`, `SearchTree`, `FifoList`, `SysQueue` | trees and lists | `MCStructures` |
| `Fbarray`, `FbarrayFile` | `dpdk_fbarray/eal_common_fbarray.h` | `MCStructures`, `MCFbarray` |
| `Ring`, `RteLocks`, `RteAtomic` | `dpdk_ring`, the locks and counters beside `dpdk_fbarray` | `MCDpdk` |

The proofs are in modules of their own, each about the components of one program:

| Module | Proves about |
|---|---|
| `DataChannelProofs` | `DataChannel` |
| `ServersProofs` | `BusinessServer`, `ServerLife`, `SvpnServer`, `SvpnChannel` |
| `ClientProofs` | `ControlLink`, `ClientRelay`, `FrameLoop` |
| `SharedMemoryProofs` | `AtomicRwLock`, `Ring`, `RteLocks`, `RteAtomic` |
| `ThreadPoolProofs` | `ThreadPool` |
| `TreeProofs` | `SearchTree`, `RbTree` |
| `StructuresProofs` | `MemPool`, `MmPool`, `FifoList`, `SysQueue`, `Fbarray`, `FbarrayFile` |
| `SequenceLemmas` | what the others need of numbers, sequences and `FlattenSeq` |

### 2.1 `RwLockSpec`, `AtomicRwLock`: `com_lib/lock_lib/atomic_rwlock.h`

`word` is `m_rwlock`, `expected` the local of each `lock_read` or `lock_write` call,
`pc` where the thread is. Each atomic operation is one action: the load of `lock_read`
(with the spin on -1), the two weak exchanges, which may fail spuriously, the
reset of `expected` in `lock_write`, `fetch_sub`, and the store of `unlock_write`.
`RwLockSpec` is what a user of the lock sees: sets of readers and writers.

### 2.2 `TaskPool`, `ThreadPool`: `pools/thread_pool/thread_pool.cpp`

The owner creates the threads one after the other (`CreateThread`, or `CreateFails` and
the rollback that joins), pushes (under the spin lock) and signals (not under it),
calls the empty `sh_waitdone_thread_pool`, and destroys: quit and broadcast, join,
free what is queued. A worker goes through *check* the queue, *pop* and *run*, or
*lock* the mutex, test `quit`, and *wait*. Sections under the spin lock or the mutex
are one step. The worker's look at the queue and its wait are two steps, with the
push between them: that is the lost wakeup, recorded in `overlooked`. `TaskPool` is
the promise: a task is accepted, starts at most once and in order, ends or is dropped.

### 2.3 `DataChannel`: `server/data_channel_server.cpp` over `net_lib/sh_socket_client.cpp`

One channel. The kernel is part of the model: the state of each connection and its
unread bytes (`peer`), the descriptor table (`file`, lowest number first) and the
epoll set (`watch`). `mem` and `live` are the heap of `socket_info` blocks; a
freed block keeps its contents, or the allocator has overwritten its descriptor,
and its address may be given out again. `free` and `busy` are the two queues of each listener, which the
accept thread and the business thread share without a lock; each call of a `std::queue` is a step.

- *Accept thread*: `accept` and `get_clinet_info` with the descriptor in hand; then
  `date_socket_accept`, which parks the connection (`Look`, `Park`) or pairs it with the oldest
  of the other side: `Front`, `Pair` (the `pop` and the two pointers), the pushes to the two queues
  of paired connections, and the two `add_eool`, one step each.
- *Epoll thread*: `epoll_wait` returns the events that are ready, one per
  descriptor; they are handled in any order, some of them overtaken by then: the close that was asked for, a reset,
  the end of the stream, or data. Teardown takes three steps, `close`, `EPOLL_CTL_DEL`
  with the same number, and the deletion of the block, since the accept thread
  may be given the number in between.
- *Business thread*: `delete_channel_server` closes the listeners and then goes through the four queues
  in its order, users first, each of them once (`del`): a queue that was empty for a moment is not looked
  at again, whatever the accept thread pushes to it afterwards. `close_queue` tests, reads and pops the head of a
  queue of waiting connections in separate steps (`DrainFree`), because the accept thread pops there too; to
  the queues of the paired ones it only pushes, so that their head stays the same (`DrainBusy`). They
  keep the connections that ended long ago.

`front()` and `pop()` of a queue that the other thread has emptied are undefined. The model takes any block
for the head, leaves the queue empty, and records *torn*. What two threads do inside one call of a
`std::queue` is not modelled.

A send completes at once (no full socket buffers). `ghosts` records: connections that
were *reset*; the requests to close that *missed* a connection not yet in the
epoll set; connections *late* for the loop over their queue; the registrations *unhooked* by the late `EPOLL_CTL_DEL` of an older
connection with that number; bytes that *strayed*; and *wild*, a block that was acted on when it was freed, or
when its descriptor was closed already and the number was another connection's.

### 2.4 `BusinessServer`: `server/business_server.cpp`, channel creation in `data_channel_server.cpp`

The registry `m_clinet_map` with each client's `m_channel_map`, the data server's
own `m_channel_map` with the state of each pair of listeners (`listener`), and the descriptors of the control
connections. Two kinds of listeners are in the epoll set without being in that map: those of a channel whose
key was taken (`lost`), and the out listener of a creation whose in listener failed (`stray`); its
block is freed, so that a user of it may be taken for any channel's (`AcceptStray`). Three threads:

- *business epoll thread*: a connection is accepted and registered; on its end the
  channels are deleted one by one, the entry is erased, and the descriptor is closed;
- *console thread* (`create_channel_server`): look up the client and increment its
  channel id, bind, listen on each side, insert in the data server's map, insert in the client's map
  through the iterator of the lookup, each step apart from the others; each of the two listens may fail;
- *accept thread* (`send_create_channel_msg`): look up the owner, look up the channel, send on its
  descriptor.

`ghosts.overlapped` holds the calls during which their client departed.

### 2.5 `ControlLink`, `ClientRelay`: `client/vnp_client.cpp`

`ControlLink`: `start()`, the reconnect thread and `stop()` around the control
connections. A notification is heard only by a thread that already waits; the others
are recorded as *unheard*. Connects that fail leave their descriptor open, as in
`socket_client::connect`. `ClientRelay`: one request for a data connection:
`wait_create_tcp_channel` on the main epoll thread connects both ends, joins them and
adds each to its own epoll set; from then on two epoll threads follow and clear
each other's pointers. They are two modules because the two parts only share the
main epoll thread.

### 2.6 `BlockStore`, `MemPool`: `com_lib/mem_lib/mem_pool.h`

`word` is the first word of every block: the chain's link while the block is free, the
caller's data (`Data`) once he has written to it (`Write`). `MallocGrows` is an
allocation that finds the chain empty and adds a page of `auto_increment` blocks.
`Free` takes any block address and whether the pointer is exactly a block's, and refuses what the code
refuses. Callers are assumed to be one thread, not to free a block twice and to use
blocks at least as large as a pointer. `BlockStore` is the promise to callers.

### 2.7 `RbTree`: `rbtree/main.cpp`

The insert, the delete, the two fixups and the rotations as operators on one record
`tree`. Nodes are named by their keys; `nil` has a color and a parent, which deletion
writes, and no children, so that TLC stops if an operation reads them. A loop of a fixup is a
function of the number of turns made (`InsertTurn`, `DeleteTurn`), with `MaxTurns` of them: a turn
after the loop's condition failed changes nothing, and the proofs show that the loops end earlier.

### 2.8 `FrameLoop`: `on_recv_data` of client and server

Two streams for each client, cut by `recv` anywhere. `sent` are the frames written to a
stream, `taken` how much of it was received, `buf` and `deal` the receive buffer and
`deal_len`. One epoll thread of the server serves the control connections of all
clients, so that `RecvData` on one waits for the loop of another. The handlers
are part of `Handle`: the server answers a registration with an id, the client answers a
request after it has connected or failed to. The loop leaves with less than a head,
handles a whole frame, and with a head but no whole frame does neither: there is no action
then, which is what the code's spinning amounts to (`Spins`). Lengths are scaled down (a head is
two units, a frame three or four); the 8 KiB buffer is never full between two reads.

### 2.9 `SvpnChannel`, `SvpnServer`: `svpn/`

`SvpnChannel` is one channel: two `socket_server_accept`, for the users ("out") and for the
tunnel client ("in"), each with an accept and an epoll thread, and the thread that closes
the channel. `slot` is the one place in which a user waits (`m_p_info`), `count` is
`m_connected_count`. The sections of `event_in::on_accept` under the mutex are steps of their
own (`Peek`, `Reread`, `Link`): the user that was seen is taken out of the slot later, in
another section. Both waits of the tunnel side end with the notification or after
5 s (`WaitEnds`, `AwaitEnds`); nobody waits on `m_connected_cond`. `upset` records what
happened that the pairing does not survive, `wild` where freed memory was touched. Descriptors
are not reused here; `DataChannel` has that.

`SvpnServer` has the two maps without a lock: the console creates channels through an
iterator (`FindSvClient`, `InsertChannel`, `InitChannel`), the epoll thread deletes a client
channel by channel, accept threads look up both. The end of the loop over the channels, the deletion of the
client and the erasing of its entry are three steps (`LoopEnds`, `DeleteSvClient`, `EraseSvClient`): a channel that the console
inserts after the first of them is closed by nobody. What a thread does with what another one deletes
is recorded in `raced`, for each channel. `quit` joins the control threads and closes everything.

### 2.10 `SearchTree`, `FifoList`, `SysQueue`, `MmPool`

`SearchTree`: a node is named by its key. `delete_node` is translated with all its cases, including the one
that replaces a node by its right child after deleting that child from below;
`contents` follows what is left in the tree, and the leaked nodes stay in `heap`. Both
insertions and all traversals are recursive functions on it, `Under` being what `release_tree` visits and frees. `FifoList` keeps memory apart
from the list, so that a freed node may be reused while `tatil` still points to it.
`push_back`, declared to return a value, has no return statement; its callers do not use one.
`SysQueue` is memory of addressed cells, the macros being assignments to them, for the six kinds of lists; a
`le_prev` or `stqh_last` is the address of a cell. The macros that change a list are checked
against the sequence of its items. `MmPool` is the pool with its bound on the wrong counter. `mem_destory` frees
the memory and leaves every field as it is; callers are assumed to create the pool again before they use it. `mem_create` also
writes a null pointer behind the memory it allocated: that write is outside the model, in which the last block's
word names the end of the memory and is never followed.

### 2.11 `Fbarray`, `FbarrayFile`

`Fbarray`: a mask is the set of its bits that are 1; every operation holds the lock of the array, and is
one step. The searches are translated mask by mask, with the shifts of `find_next_n` as sets
of runs. `FbarrayFile`: processes that make, attach, detach and destroy one name. The kernel's part is modelled as `flock(2)`
and `mmap(2)` describe it: a lock belongs to the open file and lasts until the last reference to it goes, the
mapping of a file included; a lock is converted by giving it up and asking again;
an unlinked file lives on while it is open.

### 2.12 `Ring`, `RteLocks`, `RteAtomic`

`Ring`: the load of the head, the load of the other side's tail, the compare-and-exchange, the
copy of each pointer and the store of the tail are steps of their own. Indexes run modulo
`IndexModulus`. `claimed` counts without wrapping, and names the objects; `lapped`
records that a head came round to the same value between its load and the exchange. `rte_ring_count` loads the two
tails in two steps (`LoadProdTail`, then the other one when it answers), with other threads' operations in between; `counter` is the caller's half
of it, one caller at a time. A count is a power of two, or 0, which `POWEROF2` takes for one: `rte_ring_create(0)`
makes a ring without cells, that nobody can use. Each function of the
interface is what it passes on (`Passes`). `RteLocks` has a state for every place where a
thread can be in `rte_try_tm`, lock and unlock; a transaction that has read the lock word is aborted when it
is written, or at any time. `RteAtomic`: each operation of each width is
an `Op`, one instruction or a loop of load and compare-and-set, depending on the
build; `Operations` lists what a build has.

### 2.13 `ServerLife`: `vpn/server/vpn_core.cpp`

`main` walks through init and start, the console until `q`, the two `stop()`, the statements of the two
`close()` and the two `delete`. The epoll threads end when they see their flag. The accept thread of the
data channels has no end: it polls, accepts, asks the client for the other connection (by way of the
business server) and parks or pairs, one step each, until the destructor of its `std::thread` ends the process.
A channel is `owned` by a client or, after a departure during its creation, an `orphan` that no
`close()` reaches. The number of the listening socket is followed, because it is
closed twice. How connections relay and end before that is `DataChannel`'s.

## 3. What the runs check

| Run | Instance | States | What it shows |
|---|---|---|---|
| `structures` | pools of 5 blocks, 3 pages; 8 and 5 keys; 3 items in 2 lists of each kind; arrays up to 8 elements in masks of 3; 3 processes, 3 files | 396 000 | every tree is red-black and ordered; every kind of list keeps its order; the free chains hold the free blocks; `MemPool` implements `BlockStore`; searches over masks; the array's file |
| `dpdk` | a ring of 4 cells or of none, 3 threads inside, indexes modulo 16; 3 threads at a lock, 1 retry, depth 2; 2 threads at a counter of 4 values | 1 580 000 | a consumer finds the objects it claimed; which answers of the count are possible; sections exclude each other; a thread waits for itself only in `rte_try_tm`; operations are atomic |
| `client` | lock: 2 threads; link: 3 connections, 2 outages, 1 leak; relay: 2 sends a side | 62 000 | one control connection; reconnection; return of `stop()`; clean relay; the lock implements `RwLockSpec` |
| `threads` | 2 clients, 1 request; a channel with 2 users, 2 tunnel connections, quiet peers; a pool with 2 workers, 3 tasks | 58 000 | frames in order and handled; a channel closes; the user in the slot is taken; no worker uses a freed pool; refinement of `TaskPool`; destruction ends; a pushed task starts unless a wakeup was lost |
| `servers` | 2 clients with 2 channels and 2 descriptors; 2 clients with 3 channels; a channel with 2 and 2 connections that act twice; a server with 2 channels and 2 users from start to end | 7 000 000 | what is freed, forgotten or left listening is so only after the crossings the properties name |
| `dc_pairs` | 4 connections, 3 descriptors, no reset | 584 000 | pairing in order of arrival; who lost its partner is being closed |
| `dc_races` | 3 connections, resets, deletion | 4 660 000 | which events lead to dangling pointers, stray bytes, wrong descriptors and lost registrations |
| `dc_live` | 3 connections, deletion | 360 000 | a close reaches the other end; deletion closes the relayed connections that its loops meet |
| `tp_waitdone` | 2 workers, 1 task | violation | `sh_waitdone_thread_pool` returns with the task still queued |
| `tp_rollback` | 2 workers | violation | the rollback of a failed creation never returns |
| `fbarray_chunk` | arrays up to 8 elements | violation | `rte_fbarray_find_next_n_free` answers a chunk that is not one |
| `dpdk_count` | as `dpdk` | violation | `rte_ring_full` answers for a ring that was never full |

**Bounds, and why they are enough.** Two threads let a writer come and go between the
two operations of a reader; the lock is proved for any number. Two workers let one
sleep while the other pops; three tasks make the queue empty, have one and have more
than one element. Three connections give a pair and a third one that gets the
reused descriptor of either; four give two pairs, which order needs. Two
channels of two clients distinguish "the first channel" from "all channels" and the owner from another
client; two descriptors force the second client onto a number used before; three
channels of `svpn` let one fail, one be open and one be created during a deletion.
Two sends a side let bytes arrive before and after each step of a teardown. Two users of a `svpn` channel meet
at its slot, and two tunnel connections take the same user. `MaxActs = 2` lets two peers act, so that
ends cross. Two channels and two users of a server that ends let one channel be owned and one not, and a
user be parked when the other one comes.
Two clients let one stop the service of the other; a request (three bytes of its
frame can be missing) follows a registration in one stream.

Three pages let growth happen twice, blocks of one and two per page make the ends of a page coincide
or not. Four keys reach every branch of the red-black tree; with eight an insertion's
fixup climbs before it rotates. Five keys give a deleted node a right spine of three with left subtrees. Three items
let the middle one go, and two heads let concatenation and reuse happen. Masks of three bits and
arrays of up to eight elements give one, two and three masks, whole and cut; a run of the wanted length
crosses one mask and two. Three processes: one uses the file, one makes it, one destroys it.

`IndexModulus = 16` with a ring of 4 cells wraps indexes after four laps, so that a count masked to the size of
the ring differs from the difference of the indexes; `Ages = {14}` starts
near the wrap, so that one side wraps before the other; `Flags = {FALSE}` still allows the single
functions, which are called by name; `MaxObjects = 5` fills the ring of 3 places and wraps it once;
`MaxActive = 3` allows two of one side and one of the other. `Counts` has 3 and, above `RTE_RING_SZ_MASK`, 8, which `rte_ring_create` refuses, and 0, which it does not. A counter of two halves
of two values wraps on every addition; the third amount has both halves different from zero.

`MaxLinks`, `MaxOutages`, `MaxLeaks`, `MaxConns`, `MaxClients`, `MaxUsers`, `MaxBytes`, `MaxCreate`, `MaxActs`, `MaxSvChannels`
and `MaxGrowth` bound what the
environment does and not what the code does; where a bound and not the code stops progress
(`Exhausted` in `ControlLink`) the property says so.

`CHECK_DEADLOCK FALSE`: users, peers and owners may simply stop, and the bounds end
every run.

**Fairness.** Weak fairness of the program's threads only: a runnable thread runs,
a system call that can complete completes, a timed wait ends. Users, peers, clients and the owner of a pool
are never obliged to do anything, except that `ControlLink` assumes that an unreachable server
becomes reachable again (a client can do nothing without one), that the tasks of
a pool end, and that the tunnel client of `SvpnChannel` answers a request, which its code does. `AtomicRwLock` also needs strong fairness of the exchanges: a thread
whose exchange could succeed again and again is not unlucky every time. `FrameLoop` needs strong fairness of the
reads of the server: `epoll_wait` keeps reporting a connection with data, whatever others send in between. No
spurious wakeup is ever relied on. In a composed run the fairness of a part that was not
chosen asks nothing, none of its fair actions being enabled in its initial state.

## 4. What the code turned out to do

Four things contradict what the repository itself says, and are violation runs:
`sh_waitdone_thread_pool` has an empty body (`threads_test.cpp:41`: wait for all tasks to
complete); the rollback of `init_threads` joins threads nobody told to quit
(`thread_pool.cpp:7`: creation is rolled back); `rte_ring_count` loads the two tails one after the other and masks
the difference, so that one object enqueued and dequeued in between makes `rte_ring_full` true of an empty ring
(`rte_ring.h:698`: "1: The ring is full."); and `find_next_n` joins the mask of what to ignore
with the mask of what is beyond the end where it should intersect them, so that a chunk may begin before `start` or end
behind the array (`rte_fbarray.h:264`: the next chunk starting at the index).

The rest is stated as the exact exceptions of properties that hold; no comment
or test of the repository claims otherwise:

- `thread_pool`: the signal can fall between a worker's look at the queue and its wait; the
  task then waits for the next push (`PushedStarts`).
- `data_channel_server`: a reset leaves the partner with a pointer to a freed block, which
  after reuse is a stranger's; `EPOLL_CTL_DEL` after `close` may remove the registration of
  a new connection with the same number (`RelaysStayApart`); a close that
  falls between the two `add_eool` of a pair is lost for the other end
  (`PairingIsSound`, `CloseReachesPartner`); deletion touches the blocks of connections
  that ended, and leaves open parked ones and those of a pair that was pushed when the loop over its
  queue had ended, whose other end may be closed without their being told (`DeleteClosesRelayed`,
  `CloseReachesPartner`); it may read a queue that the accept thread has just emptied (`RelaysStayApart`).
- `business_server`: a departure that overtakes a creation leaves listeners nobody owns; one
  that overtakes a request may send it to the next client with that descriptor
  (`ListenersDieWithClient`, `StaleOnlyIfOvertaken`); a creation whose second listen fails leaves the first listener in
  the epoll set for ever, with its block freed, so that its users are dropped or taken for another
  channel's (`stray`); a user that connects before the creation
  has ended is dropped (`UnaskedOnlyEarly`).
- `vpn_core`: `stop()` leaves the accept thread running, and the process ends in `std::terminate` because
  nobody joins it. Before that `close()` takes nothing away that it uses, as the listeners are gone by then, unless
  an accept was under way or a channel has no owner; then it goes on with freed connections, the deleted business
  server, or a descriptor that is closed because it was the listening socket's (`ShutdownIsClean`).
- client: no reconnection after a reset, or when the end of the connection came before the thread
  waits (`Reconnects`); `stop()` can hang (`StopReturns`); the two relay threads can touch each other's
  freed block (`RelayIsClean` says under which conditions they do not).
- frames: with the head of a frame but not all of it the loop never ends; on the server this stops the
  service of every client (`FramesAreHandled`).
- `svpn`: a second user in the slot is never paired (`NobodyForgotten`), and the tunnel side goes on
  after 5 s or with the wrong notification, before its user can be reached (`PairIsReady`); `close`
  touches blocks it has freed when a pair is left (`FreedOnlyWhenCrossed`); a channel whose `init` failed
  ends the process when its client goes, and one that the console inserts when the loop over its client's channels has ended
  outlives the client (`ChannelsDieAlone`).
- `bst_tree`: deleting a key with a right child deletes others as well (`DeleteRemovesOne`).
- `mm_pool`: blocks given back while as many or more are out are refused and lost (`MmChainIsFree`).
- `dpdk_fbarray`: an open file may have lost its name before it is locked, and two arrays of a name are in
  use (`ArraysAreKept`); a recursive lock taken twice through its transactional form waits for itself
  (`WaitsForItselfOnlyInTm`).
- `dpdk_ring`: a thread that sleeps for a whole lap of 2^32 between load and exchange claims
  places that are not free (`lapped`).

## 5. What is proved

For every value of the constants, with TLAPS. Every safety property that a run checks is a theorem, but for
the one named at the end of this section. What is assumed of the constants are the named ASSUMEs of the modules and nothing
else: bounds are natural numbers, the items of a list are no null pointer and no junk, a mask has a bit, a null pointer is no address, the two sides share no connection, a ring's
size divides the number of values of its indexes. TLC evaluates them in every run.

None of the safety properties is inductive. For each there is an invariant (`...Inv`) that joins it to the types,
to what each thread has in hand, and to what relates the parts of the state; the theorem
`...Invariance` says that it holds, and TLC found no violation of it on the instance of the run (with the places of the ring from -2 to 12). Each
proof has a lemma for each action, with one step for each conjunct that the action can disturb.

**The tunnel's server.**

- `DcInvariance`, `RelaysStayApartSafety`, `PairingUntilWild`, `PairingIsSoundSafety` (`DataChannelProofs`): any number
  of connections, descriptors and addresses, with the accept thread and `delete_channel_server` at every point of the
  queues they share. `DcInv` is in two halves. One holds always: the
  types, the descriptor table (`KernelFits`), one waiting side (`OneSide`), and that bytes stray only by a wild pointer and a
  wild pointer takes a reset or a deletion (`Tamed`). The other (`Sound`) holds until something is `wild`: every block owns its
  descriptor, except during the teardown between `close` and the deletion of the block (`FdsOwned`); what is in the
  epoll set was paired before (`PairedFirst`); registrations and the events read but not handled are of
  blocks that are there (`WatchFits`, `BatchFits`); pointers are mutual or excused (`Linked`); a block cut from its
  partner is asked to close (`Orphans`). The properties alone say nothing of a batch of events read
  earlier, and that batch is what makes a thread act on a freed block. `OrderInv` adds that a connection is in hand, waiting in order
  of arrival, or paired. Once a block is wild the order is lost, so `PairingUntilWild` is the general statement;
  `PairingIsSoundSafety` is the property of the run `dc_pairs` under the run's hypothesis that nobody resets or deletes.
- `BizInvariance`, `ListenersDieSafety`, `StaleSafety`, `UnaskedSafety` (`ServersProofs`): any number of clients,
  channels and descriptors, with every failure of a creation. `BizInv` follows a client from its connection to its departure (`Registered`), a channel from `bind`
  to the second map (`NumberIsNew`, `ListensFirst`), and the departure over the channels (`ClosedInTurn`: what listens is still ahead
  of it); `Overtaken` says that a call whose client departs meanwhile is in the history. The last theorem is an action property.
- `LifeInvariance`, `ShutdownSafety`: before `close()` nothing is misused; after it the accept thread has
  nothing to do, or was busy just then, or there is a channel of nobody. That an orphan stays one is a lemma.

**The tunnel's client.**

- `LinkInvariance`, `OneControlLinkSafety` (`ClientProofs`): any number of connections and outages. `DialsForNone`: who is
  about to dial knows that no connection is left; without it the second connection cannot be excluded at the step that makes it.
- `RelayInvariance`, `RelayIsCleanSafety`: for each end, socket, block and thread agree (`EndsAgree`), a pointer is missing only when
  the other end is gone (`PointersLead`), and an end is taken down because it ended or was told (`TakenDown`).
- `FrInvariance`, `FramesInOrderSafety`: any number of clients, requests and cuts of the streams. `InStep`: the buffer of each receiver
  begins where a frame of its stream begins (the sum of the lengths of the frames handled), plus what this loop
  dealt with; so the next frame handled is the next one sent. `Answered`: the answers of the client name the requests it handled, in order.

**The first tunnel.**

- `ChInvariance`, `NobodyForgottenSafety`, `PairIsReadySafety`, `FreedOnlyWhenCrossedSafety` (`ServersProofs`): any number of users and
  of tunnel connections. `ChInv` has three layers, each under its own part of the history. Partners know each other and
  every user is on its way into the slot, in it or linked (`Mutual`, `Remembered`). As long as the count means what it says (`Calm`), it is the
  number of users in the slot or linked and not yet counted off (`CountIsExact`), and so the tunnel side that passes its wait has a user
  in the epoll set (`PairsAreReady`). As long as nothing crossed (`Undisturbed`), blocks are freed in pairs and
  nothing else is heard of a pair that is torn down (`TornDownInPairs`, `HeardOfJoined`).
- `SvInvariance`, `ChannelsDieAloneSafety` (`ServersProofs`): a channel is in the map of a listed client from its insertion to its deletion,
  unless it was inserted when the loop of `del_client` had ended. `ep` tells how far that loop is, and the
  invariant that nothing is held behind its end but what is in `raced`.

**Threads and shared words.**

- `Typing`, `MutualExclusion`, `WordIsExact`, `Refinement` (`SharedMemoryProofs`): `AtomicRwLock`, any finite set of
  threads. The inductive invariant `IInv` joins the types, exclusion, the exact
  count and what the locals may hold when they are exchanged (`ExpectedSane`). Exclusion
  alone is not inductive: that an exchange of 0 for -1 finds no reader follows from
  the exact count, and that `fetch_sub` never reaches -1 by counting does too. `Refinement`: the lock implements `RwLockSpec`.
- `LocksInvariance`, `SectionsExcludeSafety`, `WaitsForItselfSafety`: the three locks of dpdk, any threads, retries and depths.
  `GuessFits` says that a transaction which was not aborted sees the word 0; `OneHolder`, `OwnerHolds` and `ReadersAreCounted` say who
  has the lock when it is not. A reader's exchange needs its loaded value to be at least 0 (`PlaceFits`).
- `AtomicInvariance`, `OperationsAreAtomicSafety`: any width of the halves, any threads and amounts, every build. The counter is the
  two halves of the exact value whatever is under way; an operation that loads the halves one by one
  ends in a compare-and-set of both.
- `RingInvariance`, `RingIsFifoSafety`: any size, any numbers of producers, consumers, objects and laps, in single or multi mode. The invariant counts places without wrapping: each
  index is its place modulo the width (`Indexes`), claims between a tail and its head are a partition (`Partition`), and a cell
  between the tails holds the object of its place (`PlacesWritten`). Two places in use never share a cell, because at most
  `Capacity` are in use (`InOrder`) and the size divides the width. All of it until some head was `lapped`. The count is what was published
  before its first load less what was given back before its second, unless that is negative (`CountIsExact`): the invariant
  keeps the loaded tail as the place it stands for.
- `Typing`, `OnePlace`, `FreedUnused`, `Implements` (`ThreadPoolProofs`): any number of workers and any
  tasks. The invariant adds `JoinsAreOrdered` (the joined threads are a prefix of the created ones, and
  have exited) to the types and the partition of the tasks; lemmas on the elements of `Append` and `Tail`
  of a sequence without duplicates carry the queue. `Implements`: the pool implements `TaskPool`.

**Structures** (`StructuresProofs`, `TreeProofs`).

- `Typing`, `ChainIsComplete`, `Implements`, `Counts`: `MemPool`, any pages, page sizes and growth.
  The chain is an existential: a function from 1..free_count onto the free blocks that
  follows the words. Each operation's lemma takes the chain before and gives the
  one after: shifted by one (`Malloc`), extended at the front (`Free`), laid over a new page (`MallocGrows`). `Implements`: the pool
  implements `BlockStore`.
- `MmInvariance`, `MmChainIsFreeSafety`: `MmPool`, any number of blocks; the same while the pool has its memory, with the blocks that `mem_free` refused.
- `FifoInvariance`, `FifoIsQueueSafety`: `FifoList`, any nodes. That no node is in the list twice (`NodesAreOnce`) is what makes the link that
  a push writes one that no other node depends on.
- `QueueInvariance`, `ListsKeepOrderSafety`: `SysQueue`, any items, heads and kinds of list. `QueueInv` says that the cells are
  linked as the sequence of each list says (`AllLinked`), that no item is twice in the lists (`SharesNothing`), and that the link of an item in no list
  is junk (`SpareIsJunk`). So the macros that search for the item before another one find it and no
  other, and a macro that writes through the address of a cell writes no other list's.
- `FbInvariance`, `SearchesAreRightSafety`: `Fbarray`, any width of a mask and any length of an array. `FbInv`: no bit is set
  behind the array, and the counter is the number of used elements. From the bits of the masks to the elements: a search for one is the least
  bit of the first mask that has one; the run that `find_contig` returns is built from the last mask back (`ContigTurn`);
  the look-ahead of `find_next_n` accepts a start at the end of a mask only if the run goes on in the masks behind
  (`LookAheadFinds`), and where no run reaches the end of a mask (`NoRunReachesEnd`) the first mask with a start has the first
  run; a refusal by the counter alone is right because so few elements leave no room for a run. The chunk of `fbarray_chunk`
  lies outside what the property and its theorem claim.
- `StInvariance`, `TreeIsSearchTreeSafety`, `DeleteRemovesOneSafety` (`TreeProofs`): `SearchTree`, any number of keys. `StInv`: the nodes form search trees (`TreeShape`: no
  node is above itself, each has one parent and the smaller keys on its left), `top` is the root of one of them (`TopIsRoot`), and what is below it
  is what should be in the tree. Insertion links its node where no node above is on the wrong side of the key
  (`InsertFinds`). A deletion frees a right spine and puts a left child in its place (`DeleteSpine`, `DeleteBelow`); pruning a
  tree so takes what was below the key but not below that child (`PrunedUnder`). The leaked trees are apart
  (`TreeIsClosed`), so later calls never meet them. `delete_node` removes its key alone only if the spine is one node long.
  The traversals: what is left of a node comes before it (`InorderIncreases`). Of the queue of `level_order_traversal` it is proved
  turn by turn that it holds the children of the nodes visited, by depth and then by key (`Queued`): two nodes of one depth
  have disjoint trees below them, on the sides on which they are themselves (`ChildIsLast`). When it is empty the tree is visited
  (`QueuedAll`), and the number of turns is enough (`LevelOrderIs`).
- `RbInvariance`, `RedBlackSafety` (`TreeProofs`): `RbTree`, any number of keys. `RbInv`: there are two bounds for every node, which its
  ancestors set, with the key between them (`Shape`, with the links both ways), and a height for every node that counts the
  black nodes on each way down (`Balanced`); the root and the sentinel are black and no red node has a red child. The width between the bounds of
  a node falls from a node to its children, so recursion down the tree ends (`Upwards`) and no key between two bounds is
  missing below them (`NoGap`): the search finds what is there, and the successor is the next key (`VictimIs`). Inside the operations
  the invariant is weaker. During an insertion `z` alone may be red below a red node or a red root (`InsertingAt`); during a
  deletion one black node is missing, on one side of one node (`DeleteAt`, `Lack`), and nodes outside the tree keep what they
  held. There is one lemma for each branch of the fixups (`UncleIsRed`, `Straighten`, `LiftOuterIs`; `SiblingIsRed`,
  `NephewsAreBlack`, `NephewIsNear`, `NephewIsFar`), all on what a rotation does to the shape, the heights and the
  colors (`RotateShape`, `RotateBalance`, `RotateReds`); the width of the node at hand bounds the turns left (`InsertTurns`, `DeleteTurns`).
  A deletion is a splice (`SpliceShape`, `SpliceBlack`, `SpliceRed`) and, when the successor was taken out, a renaming that
  fits because no key lies between (`RenameShape`).
- `FfInvariance`, `ArraysAreKeptSafety`: `FbarrayFile`, any processes and files. `LockFitsStep` and `LocksExclude` are the
  kernel's; `OthersKeepTheirs` says who had the array when an exclusive lock was obtained, and that it is another file than the one locked.

**Recursion.** `RECURSIVE` operators have no place in a module with a proof, recursive functions do. `MmPool`'s chain,
`FrameLoop`'s `Creates`, the searches of `SysQueue` and `Fbarray`, the calls on both trees and `FlattenSeq` of the community modules are such functions; that their equation
has a solution is proved by `UpTo` (`SequenceLemmas`), an induction over sets of numbers: the least number
at which a function fails to exist would be the successor of one at which it does. On a tree the numbers are ranks that fall
from a node to its children (`Founded`): the same induction shows that a recursive call ends and that
what passes from the children to their parent holds of every node (`NodeInduction`); in `RbTree` the widths do this.

**Only model-checked.** All liveness (`WriterGetsIn`, `Reconnects`, `StopReturns`, `CloseReachesOther`, `CloseReachesPartner`,
`DeleteClosesRelayed`, `PushedStarts`, `DestroyReturns`, `FramesAreHandled`, `ChannelCloses`, `SlotIsEmptied`), which is out of the
prover's reach. Every invariant of a passing run is a theorem.

## 6. What is not modelled

`PROJECT.json` lists every component. Not modelled for good: third-party programs (`hello_world_bak`),
the copies of modelled code (`vpn_define`, `2x_tree` and the library files of `lib_epoll_event` are identical to
their originals, `cvpn/vnp_client.cpp` differs in include paths and one statement without effect; what is said of the
originals holds of them),
programs that only do I/O (`ustack`, `pcap_analyze`, demonstrations, scripts), barriers and CPU flags of the dpdk headers.
In the modelled components: data races on the insides of `std::map` and of the id counter, full socket buffers,
failures of `malloc`, `epoll_create` and of the pthread initialisers; memory
orders weaker than those the code asks for; `rte_fbarray_get` and the dumping functions, which only read.

## 7. Plan

Done, in this order: `AtomicRwLock`, `ThreadPool`, `DataChannel`, `BusinessServer`, `ControlLink` and
`ClientRelay`, `MemPool`, `RbTree`, the proofs of the first, second and seventh; then `FrameLoop`, `SvpnChannel` and
`SvpnServer`, `SearchTree`, `FifoList`, `SysQueue`, `MmPool`, `Fbarray` and `FbarrayFile`, `Ring`, `RteLocks`, `RteAtomic`,
`ServerLife`; then the proofs of all of these, `RbTree` last.

Next, most important first:

1. Proofs: the abstract queue that `Ring` implements.
2. `EchoServers`: the loops of `epoll`, `poll`, `select` and `epoll_event` over one echo specification; then
   `client_once`.
3. `PageOrder`: the pure parts of `dpdk_eal`.

# Verification of sd-projeto-2

TLA+ specifications of the replicated key-value store of this repository: table
servers in a chain, each with a hash table behind a readers/writer lock, a
thread per connection, and a ZooKeeper callback that links it to its successor.
TLC checks the modules on small instances, and TLAPS proves the properties that
matter most for every instance. Paths below are relative to `src/`; line
numbers are those of this commit.

## The system

| component | state it keeps | operations | what makes it hard |
|---|---|---|---|
| lock (`source/mutex.c`) | `writers_waiting`, `readers_reading`, `writer_active`, a mutex, a condition variable | `enter_read`, `exit_read`, `enter_write`, `exit_write` | lost and spurious wakeups; counters kept by many threads |
| statistics (`source/stats.c`) | `n_clientes`, `n_operacoes`, `total_time`, behind a lock of their own | `change_client_num`, `increase_operations`, `increase_time` | load and store of each field are separate; early returns |
| request handling (`source/table_skel.c`) | the table, the global `tv` of the timer | `invoke`, by opcode | parts of an operation that run after the lock is given back |
| hash table (`source/table.c`, `list.c`, `entry.c`, `data.c`) | an array of sorted lists, the size of each | put, get, remove, size, keys, entries | bookkeeping over long sequences; the sign of the hash |
| connection threads (`source/server_thread.c`) | a descriptor | `serve_conn` | error paths; a descriptor closed twice |
| main loop (`source/network_server.c`) | `threads`, `active_threads` | accept, create, try to join; kill and join at the end | slots used again; `pthread_create` that fails; SIGINT at any moment |
| chain membership (`source/table_server.c`) | the node's path, the copied table | list, copy the tail's table, register | copying while the tail is written; servers that die |
| successor callback (`source/server_callbacks.c`) | path and connection of the next server | `server_watch_children` | runs in a thread of its own, beside `main` and the connections; one-shot watch |
| client stub and network client (`source/client_stub.c`, `network_client.c`) | a socket per remote table | `rtable_*`, `network_send_receive` | the peer dies before or after it has the request |
| framing (`source/message.c`) | none | `message_send_all`, `message_receive_all` | a 16-bit size; packets; short reads and writes; signals |
| client (`source/table_client.c`, `client_callbacks.c`) | connections to head and tail, their paths, two flags | the command loop, its ZooKeeper callbacks | the loop's connections shadow those that the callback replaces; flags, paths and descriptors are shared by two threads |

The rest is string work without state (`zoo_utils.c`, `address.c`), generated
(`sdmessage.pb-c.*`) or not used by any program (`serialization.c`).

How they interact. A client sends writes to the head of the chain and reads to
the tail. `network_main_loop` gives each connection a thread, which runs
`serve_conn`: `network_receive`, `invoke`, `network_send`. `invoke` takes
`table_locks` for the table and `stats_locks`, several times, for the
statistics. A PUT or DEL forwards itself to the next server with `rtable_put` or
`rtable_del` *while it holds the write lock*, so the locks of the whole chain
may be held by one write. ZooKeeper runs `server_watch_children` in its own
thread whenever the set of servers changes; it replaces
`resources.next_server_rtable` without any lock.

What each part must guarantee: the lock excludes and loses no wakeup; the server
answers as a linearizable map would and keeps exact statistics; the table's
lists are a function from keys to values; the main loop forgets no thread and
frees nothing that a thread still uses; the links follow the order of the chain
and neighbouring tables agree but for the write under way; no write waits for
ever; an answer is the answer to the request that was sent; the client follows the
chain, loses no connection and uses none that is gone.

## Modules

| module | models | extends or implements |
|---|---|---|
| `RWExclusion` | what the lock promises: readers or one writer | |
| `RWLock` | `mutex.c`, one step for each access to the struct | implements `RWExclusion` (proved) |
| `KVStore` | what a server promises: requests take effect at one instant each | |
| `TableSkel` | `invoke`, `stats.c` and the requests of `serve_conn` | two instances of `RWExclusion` as its locks; implements `KVStore` (proved) |
| `Table` | `table.c`, `list.c`, `entry_compare` | its operations are those of `KVStore` (proved) |
| `ServerLoop` | `network_main_loop`, the life of `serve_conn`, the shutdown | |
| `Chain` | `main` and `dup_table_from_server`, `server_watch_children`, the forwarding of PUT and DEL | |
| `MessageChannel` | what one direction of a connection promises | |
| `Framing` | `message_send_all` and `message_receive_all` at both ends of a connection, as `network_send_receive` and `serve_conn` call them | implements `MessageChannel`, once for each direction (proved) |
| `Client` | `main` of the client, `client_callbacks.c`, `client_stub.c`, `network_client.c` | what a client sees of `Chain` |
| `RWLock_proof`, `TableSkel_proof`, `Table_proof`, `ServerLoop_proof`, `Chain_proof`, `ChainReplicas_proof`, `Framing_proof`, `Client_proof` | the proofs | |
| `MC...` | values for TLC | |

The layers rest on each other. `RWLock` implements `RWExclusion`, which is the lock
that `TableSkel` uses. `TableSkel` treats the table as a function from keys to
values, which `Table` shows the lists to be. `Chain` takes a write as one step inside
the write section, which `TableSkel` shows it to be, and `Client` takes a chain that
is linked in order, which `Chain` shows it to be once its callbacks have run.
`Framing` shows that a call and its answer may be taken as whole messages, as all
other modules do.

### How state and actions correspond to the code

*RWLock.* The variables are the fields of `struct mutex_locks`. `pc[t]` is the
place of thread `t` in the four functions, one value for each line that reads or
writes the struct, so that only the mutex makes the counters consistent.
`pthread_cond_wait` releases the mutex and sleeps in one step; `SpuriousWakeup`
ends a sleep without a broadcast. `Decrement` wraps as an `int` of the build does.

*TableSkel.* Each slot is a connection with its thread. The locks are taken and
given back by the actions of `RWExclusion`. A change of the table takes two steps
(`BeginChange`, `EndChange`); a reader that runs between them would see either
table and may touch freed memory. An update of a statistic enters the lock, loads,
stores and leaves in separate steps (`Update`); `CopyStats` copies one field at a
time. `CountKeys`, `CountEntries` and `ScanEntries` are what GETKEYS and GETTABLE
do *after* `exit_read` (`table_skel.c:190`, `:211`). The global `tv` of the timer is
shared without a lock: an operation in the section alone measures one of
`ElapsedTimes`, one that others run beside measures one of `RacedTimes`, which may
be negative. `Refuse` is the path of a request that `invoke` rejects, `Hangup` a
client that goes, `Close` the end of `serve_conn`.

*Table.* `lists` and `size` are the array of lists and the `size` field of each.
A key is the sequence of its signed chars, as `hash_code` sums them; `strcmp`
compares them as bytes. The hash has the width `IntBits`, the truncating `%` of C
and the final `abs`. `list_add` is two actions, `Replace` and `Insert`, by the
node at which its walk stops.

*ServerLoop.* `loop` is where the main thread is, `thr[c]` where the thread of
connection `c` is. `owner` is the kernel's table of descriptors: `accept` gives
the least free one, so that a number that a thread still uses may belong to
another connection; `reading[c]` is the connection whose request the thread has
read. `Interrupt` is the handler of SIGINT running in a thread: it sets
`terminated` and ends a blocked `read`, since `SA_RESTART` is cleared
(`table_server.c:251`). A slot whose `pthread_create` failed holds a `pthread_t`
that names no thread: `ReapNone` and `KillNone` allow the outcomes that calls with
it may have (success, busy, an error, a crash).

*Chain.* Each server has a main thread (`phase`), the completion thread of the
ZooKeeper library (`event`, `callback`, `fetched`) and the connections that write
(`requests`, `job`). `nodes` is the state of ZooKeeper: sequence nodes are
numbers, so that the order of the paths is the order of the numbers. A watch is
armed by the listing and fires once. `job[s]` is the one write in the write
section of the table of `s`: applied, forwarded, waiting, answered. A link is to a
server, null (`rtable_connect` failed) or freed (`rtable_disconnect` ran and
`zoo_get` failed, `server_callbacks.c:79`); the use of a freed one may end the
process (`DoubleFree`, `ForwardDies`). The node of a dead server stays until its
session expires.

*Framing.* The two ends of one connection. A byte of the model is known by the
message it belongs to and its place in it, so that a reader that is out of step is
seen to unpack something else. `wire[p]` are the bytes under way to `p`; a `read`
returns any number of those that have arrived, and one that returns less than it
was asked for is taken for a disconnection (`message.c:128`). `Short` is the
conversion of a size to a `short`. A signal may interrupt each call once it
blocks, an end may close or be reset at any time, and both ends close the
connection on every error path (`network_client.c:75`, `server_thread.c:31`).

*Client.* `pc` is where `main` is, `cb` where the completion thread of the
ZooKeeper library is. `local` are the `rtable_head` and `rtable_tail` that `main`
declares, `global` those of the same names that `client_watch_children` replaces;
`path`, `connected` and the descriptors `fds` are shared. `events` is the queue of
the library, `watch` the children as they were when the one-shot watch was set. A
failing `connect` closes the uninitialised `sockfd` of the new structure: any
descriptor, or none (`ConnectFails`). `zoo_data_len` keeps the length of the first
address, so that the second may be cut (`Nowhere`). A write to a connection that the
server has closed kills the client by SIGPIPE. The chain is that of `Chain`, compacted:
servers copy, register, are linked to and die; a write is applied along the links in
one step.

## What is checked

| run | instance | properties | what it shows |
|---|---|---|---|
| `rwlock` | 3 threads, 2 calls each | `TypeOK`, `MutualExclusion`, `CountersExact`, `NoLostWakeup`, `Exclusion`, `EveryCallReturns` | the lock excludes, counts, wakes; every call returns |
| `skel` | 2 connections, requests of every kind, 3 events each | `TypeOK`, `UpdatesKept`, `ClientsCounted`, `WritesTimed`, `StatsSnapshot`, `ChangesAlone`, `Linearizable`, `EveryRequestFinishes` | the server is a linearizable store with exact statistics, and no lock is left taken |
| `skel_table` | 2 connections with PUT, DEL, GETTABLE | `NoInvalidRead` (violated) | GETTABLE scans the table outside the lock |
| `table` | 5 keys, 3 lists, 8-bit ints | `TypeOK`, `ListsWellFormed`, `CopiesComplete`, `OperationsCorrect` | the lists are the map of `KVStore` |
| `chain` | 3 servers, at most 3 writes and crashes (2 crashes) | `TypeOK`, `LinkedInOrder`, `ForwardsDown`, `ReplicaBehindByOneWrite`, `AnsweredByAll`, `EveryWriteFinishes` | the links mend; neighbouring tables differ in the write under way only; an answered write is in all later tables; no write is stuck |
| `chain_copy` | 2 servers, 2 keys, 3 writes | `CopyIsPut` (violated) | the copied table and its size come from two requests |
| `chain_cycle` | 2 servers, the callback may run early | `EveryWriteFinishes` (violated) | a server may link to itself or an earlier one, and a write then waits for ever |
| `loop` | 2 slots, 3 connections, 1 request, 1 failed `pthread_create` | `TypeOK`, `OneSlotPerThread`, `NoThreadOutlivesTable`, `DescriptorsGivenBack`, `EveryClientAccepted`, `ShutdownCompletes` | slots are reused and none forgotten; every descriptor is given back; the shutdown waits for every thread |
| `loop_reply` | 2 slots, 3 connections, 2 requests | `AnswersOwnClient` (violated) | after a second `close`, the answer to one client goes to another |
| `framing` | 2 requests, 8 sizes, packets of 2, shorts of 4 bits, 1 signal | `TypeOK`, `InStep`, `Channels`, `EveryCallReturns` | messages of a packet arrive as sent; an answer is never taken for another; no call waits for ever |
| `framing_long` | 2 requests of up to 2 packets | `ReceivedAsSent` (violated) | only the last packet of a message is unpacked |
| `client` | 3 servers, one of which joins, 1 PUT and any other commands, 1 fault, descriptors 0 to 4 | `TypeOK`, `CommandsUseLiveTable`, `DescriptorsHeld`, `OwnWritesRead`, `FollowsChain`, `EveryCommandReturns` | the client reads its own writes, follows every change, uses no freed connection, loses no descriptor, and no command hangs |

### Bounds, and why they are enough

* Three threads are the fewest in which a reader and a writer sleep while another
  thread leaves the lock; two calls let each come back after a wakeup.
  `writers_waiting` stays far from the wrap in this run. In the build it wraps
  after 2^31 write sections, and `enter_read` then sleeps for ever.
* Two connections let every pair of operations overlap; three events each let one
  connect, send a request and send another or go. The theorems cover more.
* The keys of the table run are chosen so that four share a list: one is empty,
  one is a prefix of another, one has a negative char and a negative code. Entries
  are inserted, replaced and removed at the head, inside and at the end.
* Two slots, three connections and one failed `pthread_create`: a client waits
  while one slot is lost and the other is busy, and descriptors are reused.
  `NThreads` is larger than `MaxFailures` since each failure may cost a slot.
  The bound leaves out a stale `pthread_t` that names a later, living thread.
* Three servers are the fewest with a middle one that can die under a write;
  two crashes can take both neighbours of a server. `MaxEvents` bounds writes and
  crashes together. `Rank` numbers the servers in the order in which they create
  their nodes, which leaves out permutations of servers only. One key and one value,
  with PUT and DEL, already tell tables apart that a write has or has not reached.
* Packets of 2 bytes and shorts of 4 bits make the sizes 0, 1, 2, 3, 6, 9 and 18 stand
  for an empty message, one of less than a packet, of one packet, of a packet and a
  byte, of three packets, one that is negative as a `short`, and one that wraps to a
  positive one. Two requests are the fewest for one answer to be taken for another.
* Two servers that run and one that joins change the tail once and, when one of them
  dies, the head or the tail again; five descriptors are standard input, both locals
  and both globals.
* Every action of every module fires in some passing run.

`CHECK_DEADLOCK FALSE` is used in `chain_cycle` only, where the circle of waiting
servers is the point and would be reported before the property.

### Environment assumptions

* `SortedListing` (Chain): ZooKeeper lists the children in order.
  `server_watch_children` takes the first path after its own *in the order of the
  listing*, which the ZooKeeper API does not promise; the runs assume it.
* `PathRecorded` (Chain): `main` stores its path before its callback runs. Nothing
  in the code enforces it (the watch is set at `table_server.c:79`, the path stored
  at `:144`); `chain_cycle` shows what happens otherwise.
* `ReplicaBehindByOneWrite` and `AnsweredByAll` speak of behaviours without a crash and
  in which no write ran while some server was joining: those are the ones in which the
  code does keep the tables together. A write between the copy of the tail's table and
  the link to the new server does not reach the new server.
* `OwnWritesRead` speaks of a chain that was linked between head and tail when the
  client connected, and of which none dies; servers may join.
* Memory allocation does not fail, and the library calls that no module names
  succeed.

### Fairness

* `RWLock`: weak fairness of what each thread does on its own, strong fairness of
  `pthread_mutex_lock` (the library gives a free mutex to some waiter, and a
  thread that asks again and again gets it). No fairness of calls, nor of spurious
  wakeups. The calls are bounded: with callers that never stop coming a writer may
  starve (see Divergences).
* `TableSkel`: weak fairness of each thread while it serves; none of the clients.
* `ServerLoop`: weak fairness of the main thread, of each thread, and of each
  client's leaving. The last one is needed: SIGINT may reach a thread between its
  test of `terminated` (`server_thread.c:22`) and its `read`, which then blocks
  until the client goes, and `pthread_join` with it.
* `Chain`: weak fairness of the threads of each server and of the expiry of dead
  sessions; none of starting, crashing or sending.
* `Framing`: weak fairness of each end inside a call, and of `invoke` in the server;
  the client need not call, and neither signals nor resets need happen.
* `Client`: weak fairness of `main` (`Start`, `Loop`), of the completion thread
  (`Callback`) and of the delivery of events by ZooKeeper while the client is
  connected (`Notify`); none of the user's input, of the servers' joining or dying,
  nor of losing or mending the session.

## What is proved

TLAPS checks every theorem below for all values of the constants that satisfy
the module's named assumptions.

*RWLock_proof*, for any finite set of threads and any width of `int`. `IInv` joins
the checked invariants with three facts: who holds the mutex (`MutexInv`), what a
thread tested still holds when it acts on it (`TestedInv`: `CountersExact` alone
does not say that no writer got in between the test and the increment), and the
exclusion of those who are counted (`CountedInv`: they stay counted until the
decrement, after their caller has left). One lemma per part, one step per action.
`TypeCorrect`, `Exclusive`, `CountersCorrect` and `WakeupsArrive` follow, and
`Implements` maps each step to one of `RWExclusion` or to a stutter.

*TableSkel_proof*, for any connections, keys, values and requests. `NoUpdateLost`:
between the load and the store of an update the field does not change
(`LoadedInv`), since whoever updates is in the write section (`StatsLockInv`).
Actions that leave the statistics alone are treated together (`Quiet`, `Calls`,
`Dies`). `ClientsAreCounted`: `n_clientes` equals the number of threads between
their two updates of it; each store changes that set by one element.
`WritersAreAlone`: who is inside the table is in one of its sections, and who
changes it in the write section. `ReadsAreValid`, assuming that `Inputs` has no
GETKEYS and no GETTABLE: nothing reads the table outside the section it entered.
With them it is false, as `skel_table` shows for GETTABLE. `StatsAreSnapshots`:
what `OP_STATS` has copied equals the statistics until it leaves its read section,
whoever else runs. `WriteTimesKept`: a thread that times a write is alone, so that
nobody else writes `tv`. `SkeletonTyped` needs the counting of clients, since
`n_clientes >= 0` is a part of it.

The same module shows that `TableSkel` implements `KVStore`, GETKEYS and GETTABLE
included. `ServerLinearizable` is the step simulation behind `Linearizable`:
`ServedInv` says where in its operation a thread has a request and an answer to it
(looking through the functions of `stats.c`, which return to where they were called),
`ReadTable` and `EndChange` map to `TakeEffect`, the arrival and the sending to
`Arrive` and `Finish`, all others to a stutter. It needs `ChangesAlone`: a reader
beside a writer could answer with either table.

*Table_proof*, for any keys, values, number of lists and width of an `int`. The order
of `strcmp` (`Lesser`) is transitive, total and irreflexive; `Insert` goes where all
before are less and all after are greater, `Remove` takes one out, and both keep `size`
right (`ListsStayWellFormed`). `TableTypeCorrect`: the list that `hash_code` numbers
exists for every key. Its code is an integer after each character (`CodeType`), whatever
the overflow, and the remainder of C stays within the number of lists. `TableIsAFunction`
is the step from lists to `KVStore`: a key has one entry at most (`KeyOnce`), in the list
of its hash code (`HoldingIs`), and an operation on a list that keeps the entries of the
other keys changes the function at its key alone (`OneKeyChanges`). A copy, one list
after the other, has no entry twice, since a key has one list only (`FlattenOnce`,
`ListsApart`): hence the size that `table_size` counts and `CopiesStayComplete`. The two
recursive functions, the loop of `hash_code` and `FlattenSeq`, are shown to exist and to
have their properties by induction over a *set* of naturals (`Induction`, from the least
element of its complement), which needs no operator as a parameter.

*ServerLoop_proof*, for any number of slots, connections and failed calls.
`ThreadsKept` and `NoneOutlives` rest on the slots that `main` will still look at
(`Remaining`): a thread that runs has one of them. `NoDescriptorLeaks` rests on the
converse of `fd`: a descriptor is open on the connection whose thread was given that
number (`OwnerInv`), which the two closes of a thread cannot break, although the
second may close the connection of another one. `LoopTyped` is the type invariant.

*Chain_proof*, for any servers, writes and crashes, assuming `PathRecorded` (and
not `SortedListing`). `WaitsLeadDown`: links, and waits with the write lock held,
lead to later nodes only, so the waiting has no circle. The invariant says that a
server without a node has no path and no link (`PathInv`, `CallbackInv`), that a
callback is linking to a node after its own path, and that whoever is linked to
has had a node (`TargetsInv`), since a server that registers later gets a greater
number. `ChainTypeCorrect` assumes neither: the numbers of the nodes stay in their range
since no more are created than servers have got that far (`NodesCounted`), and a table
has one write at most in its section (`OneJob`), or the answer to one would release the
other.

With `SortedListing` assumed too, `LinksFollowChain`: once all callbacks have
run, the links follow the chain. A server either has an event to handle or its watch
set (`Watched`); no server has come between it and the node it is linked to or is
linking to (`Nearest`: nodes that are created later have greater numbers), and if it
has no event to handle that node is still there (`Follows`).

*ChainReplicas_proof*, from the invariant of the links and under the same assumptions.
`ReplicasFollow`: neighbouring tables differ in the key of the write under way only,
while nobody has died and no write has run before all servers were linked (`Calm`).
`Agreeing` says, while that holds, that the numbers of the nodes have no gap (`Dense`,
so that the nearest node is the next one); that a write handed on waits for exactly
one request or one job of the next server (`JobsOK`, `RequestsOK`: were there two, the
answer to the first would release the server while the second is still to come); that
a difference is the key of a job not yet received (`Behind`); and that a server that
joins has, or will copy, the table of the last one (`Joining`). The write that is
taken out of `requests` needs `LinkedInOrder`: the server that takes it knows its
next server, or the write would not be handed on. That a copy is whole although table
and size are two requests is a fact about cardinalities (`WholeCopy`).
`AnswersAreStored` follows from the same invariant: a server that waits for nobody has left
the next one nothing to do and the same table (`NothingHandedOn`), and so on down to the
last one, by the least number of a node for which it would fail (`NothingBelow`).

*Framing_proof*, for messages of any sizes, packets and shorts of any width, and any
number of interrupted calls. Requests and answers alternate (`Turns`), so that at most
one message is under way; what is on the wire is a segment of it (`Stream`), which
begins where its receiver is in it (`Taken`) and, while its sender writes, ends where
the sender is (`Written`). All that shifts the two ends against each other, a short
read, an interrupted call, ends the connection for the end that sees it. A packet that
begins has something in it unless the message is empty (`Calls`): a sender may have
written all of an empty message without knowing it, and that is the only case in which
an answer may arrive at an end that still sends. `CallsInStep` is a part of the
invariant; `ChannelsImplemented` adds what is unpacked: a message of one packet has
the length it was announced with, and no other message has these bytes unless both are
empty.

*Client_proof*, for any servers, faults and descriptors. `LiveTables` and
`NoDescriptorLost` rest on what `main` knows of its tables at each place
(`LocalsInv`: it sets them once, and gives them up only when it ends) and on the
callback connecting only a table that it has freed or that was null (`GlobalsInv`).

The type invariant of the client (`TypeCorrect`) needs what a command in progress is
(`CommandInv`). `ReadsOwnWrites`: while no server has died, links are to the next server
and stay (`Growing`), so that what is reached from a server only grows (`ReachKept`); the
four tables of `main` and of the callback have descriptors of their own, each open on a
server, so that the callback, which closes and connects at any moment, cannot touch those
that the loop uses (`Separate`); and so `main` keeps its two connections, the one for
reads is reached from the one for writes, and both servers have what was written last
(`Consistent`). Before the first command no table has anything (`Untouched`).

Only model-checked: liveness (`EveryCallReturns`, of the lock and of the framing,
`EveryRequestFinishes`, `EveryClientAccepted`, `ShutdownCompletes`, `EveryWriteFinishes`,
`FollowsChain`, `EveryCommandReturns`), which rests on fairness and is out of the
prover's reach. Every invariant, action property and refinement that a passing run checks
is also a theorem. The five violations are shown by TLC's counterexamples only.

## Where the code and its words disagree

1. GETTABLE reads the table after `exit_read` (`table_skel.c:211`); GETKEYS calls
   `table_size` after it (`:190`) (`skel_table`).
2. The copied table and its size are two requests (`table_server.c:169`, `:171`)
   (`chain_copy`).
3. The callback may compare with an empty path (`server_callbacks.c:52`)
   (`chain_cycle`).
4. `serve_conn` closes its descriptor twice (`server_thread.c:52`): the second may
   close the connection of another thread, which then answers a third client
   (`loop_reply`).
5. `message_receive_all` unpacks only the last packet of a long message
   (`message.c:138`) (`framing_long`).

### Divergences

Met on the way, modelled as the code is, and without a run of their own:

* `enter_write` decrements `writers_waiting` and nothing increments it (`mutex.c:49`):
  a waiting writer has no preference over readers that keep coming.
* The client's loop keeps the head and tail that `main` connected to: the callback
  reconnects the globals that these shadow (`table_client.c:116`). After a change of
  the chain its reads go to the old tail, and the new connections serve nothing.
* While the callback reconnects, `connected_to_head` or `connected_to_tail` is 0 for
  a moment; if the loop tests them then (`table_client.c:125`), the client ends.
* The length that the first `zoo_get` stores limits the second
  (`table_client.c:113-114`): a longer address of the tail is cut, and `main` ends
  since it cannot connect.
* A connect that fails closes the descriptor of a structure that is not initialised,
  and not the socket (`network_client.c:43`, `:49`).
* The client does not ignore SIGPIPE: a command to a server that has died may end it.
* A PUT whose forwarding failed is answered as a success (`table_skel.c:73`).
* `network_main_loop` is documented to return -1 on an error (`network_server.c:87`)
  and returns 0; a failed `pthread_create` leaves its slot active (`:150`).

## Plan

Done, in this order: the lock and its promise; the skeleton over two such locks and
its store; the chain and the proof that it cannot deadlock; the main loop; the
table; the framing and its channel; the client over the chain; the timer of the
skeleton; the proofs of the main loop, the client, the lists, the linearizability of
the server, the links of the chain, its replicas and its answers, and the channels; the proofs of the
types of the client and the chain, of what a client reads of its own writes, and of the
table as a function.

Next: the membership of `Chain` with a server that joins during writes, that is, which
writes reach the new server.

## Not modelled

`network_server_init` and the set-up of `main` (sockets, signals and the node of the
chain, before anything runs concurrently), `zoo_utils.c`, `address.c` and `data.c`
(calls and copies in sequence, without state of their own), the splitting of the
client's input into words, allocation failure, `serialization.c` (unused), the
generated `sdmessage.pb-c.*`, and the external ZooKeeper, protobuf and pthread
libraries beyond what their callers rely on.

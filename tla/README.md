# VoidCache in TLA+

This directory holds a specification of VoidCache, a sharded in-memory
key-value cache with a RESP server and a cluster client: TLA+ modules
translated from the C sources, TLC configurations that check them on small
instances, and TLAPS proofs, for every value of the constants, of the safety
properties of ten of the modules: the shard's hash table and what its callers
see of it, a size class of the allocator, the placement of values, the log, the
connection table, one connection, starting and stopping the server, the commands,
and the cluster client's pools, replies and retries. Several of them hold only up
to an event the code does not exclude (an entry that expires, ABA, a foreign
sweep, a restart, more threads than the array holds, a command that meets another
one, a reply of which something stays unread); section 4 names it for each. Liveness and the bytes of a session are
model-checked only.

Contents: [1 The system](#1-the-system), [2 Modules](#2-modules),
[3 Runs](#3-runs), [4 Proofs](#4-proofs), [5 Where code and documents
disagree](#5-where-code-and-documents-disagree), [6 What is not
modelled](#6-what-is-not-modelled).

## 1 The system

| Part | Source | State | Operations | What makes it hard |
|---|---|---|---|---|
| Shard | `src/voidcache.c` 156-199, 350-500, 655-900 | slots (state, entry, probe distance, clock bit), `wlock`, `seq`, `count`, `clock_hand` | `vc_set`, `vc_get`, `vc_del`, `vc_flush`, `_shard_find`, `_shard_insert`, `_shard_evict_one` | readers without a lock, validated by `seq`; displacement moves entries of other keys; tombstones; expired entries that stay in the table |
| Slab allocator | `src/voidcache.c` 208-290 | one Treiber stack per size class | `slab_alloc`, `slab_free` | compare-and-swap races, ABA |
| Value tiers | `src/voidcache.c` 296-345, 633-740 | entry flags, 16-bit `val_len`, arenas, mappings | placement in `vc_set`, `entry_free_resources`, `vc_destroy` | boundaries at 8, 24, 32, 64 ... 2 MiB and at 65 535 |
| Write-ahead log | `src/voidcache.c` 506-575 | mmap ring, `write_pos`, `wal_seq`, `wal_lock` | `wal_init`, `wal_append` | wrap-around, torn records, crash, order of log and table |
| Connection table | `net/server.c` 105-150, 271-396 | `conns[]`, sockets, epoll sets | accept, `conn_alloc`, `conn_close`, events, idle sweep | one table, many workers, one lock taken in one place |
| Connection I/O | `net/server.c` 150-396 | socket buffers, `rbuf`, `wbuf`, epoll interest, TLS state | `process_conn`, `conn_flush`, `tls_do_handshake` | edge-triggered readiness, full sockets |
| Server lifecycle | `net/server.c` 402-568, `cli/vcli.c` 583-658 | `running`, `workers[]` | create, start, run, stop, join, destroy | stop against workers at work, failed starts, array bound |
| Commands | `net/commands.c` | the store, per worker the call in progress | handlers of `cmd_table` | several library calls per command with other workers between them; a cursor over shards that change |
| RESP | `net/proto.c` | none between reads: the parser starts over | `resp_parse_command`, `resp_write_*` | requests split over reads and run together; two versions of the reply format |
| Cluster client | `net/cluster.c` | node table, pools, `slot_map`, locks | connect, command, refresh, health thread | crashes, moved slots, pools without a lock on release |
| Key slots | `net/cluster.c` 41-93 | none | `vc_crc16`, `vc_key_slot` | table, hash tags |
| Auth, sessions | `net/auth.c`, `net/commands.c` 36-150 | the connection's user and version | HELLO, AUTH, `need_auth` | fields of a slot that outlive a client |
| CLI, demo, portability, deployment | `cli/`, `src/main.c`, `compat/`, `docker/`, `k8s/` | - | - | terminal I/O, system call wrappers, configuration |

How they interact: a worker thread (lifecycle) accepts a client (connection
table), reads and parses its requests (connection I/O, RESP) and runs a handler
(commands) that calls the library. `vc_set` and `vc_del` append to the log,
place the value (tiers, slab) and then change one shard under its lock;
`vc_get` reads the shard without it. The cluster client talks to several such
servers.

The hazards of this code, each at its line, are the `hazards` of
`PROJECT.json`. Where the properties hold only up to the hazard itself, its note
says so. In short: torn and stale reads (1), broken probe chains,
double frees and lost entries (2), ABA (3), numeric clipping of lengths (4),
torn or reordered log records (5), connections swept under their owner (6),
lost wakeups (7), threads beyond the array (8), non-atomic commands and
cursors (9), pool races, replies read by the wrong caller, and unassigned slots
(10), requests cut in pieces and sessions that meet in one slot (11).

## 2 Modules

Each module names its abstractions at its head. One step is one access another
thread can observe, unless said otherwise.

| Module | Models | State and actions |
|---|---|---|
| `Shard` | one `vc_shard_t` and the threads in `vc_set/get/del/flush` | the C fields by name; per thread a program counter and the locals of its function. Writers: `shard_lock`, `seq_write_begin`, `remove_*`, `evict_*`, `insert_*`, `flush_*`, `seq_write_end`, `shard_unlock`. Readers: `seq_read_begin`, then `find_load`, `find_compare`, `find_expiry` per probe, `get_snapshot`, `validate_*`, `get_reference`, and `locked_*` after the last retry. The lookup of a thread that holds `wlock` is one step; memory is sequentially consistent |
| `ShardHistory` | `Shard` with history variables | what a lookup would find whenever no writer is active (`view`), what each `vc_get` could have seen (`seen`), whether an entry has expired (`late`: from then on the table is no longer followed), and the refinement mapping to `Cache` |
| `Cache` | what the library promises | a map from keys to values; SET may cost one key its entry; nothing comes back |
| `Slab` | one size class | `head`, the link word of each block, every load and compare-and-swap of `slab_alloc` and `slab_free`; a block's link becomes value bytes when used. The free list is what a walk from `head` meets, the least set that is closed under links |
| `Values` | placement of values | real sizes and widths: class, flags, the 16-bit `val_len`, and per class its free list, so that a block that returns to the list of another class is followed; `set_slab`, `set_other`, `set_refused`, `vc_del`, `vc_destroy`. A set may evict, and from a full table `insert` drops an entry, whose block is `lost`. No value has a time to live |
| `Wal` | the log with crash and restart | header, payload and position stores of `wal_append`, `vc_set`/`vc_del` around it, `wal_init`. The scan of the ring that `README.md` describes finds the least set that has the record at position 0 and the valid one behind each found |
| `Server` | connection table and workers | kernel sockets and epoll as environment; accept (which fails when no descriptor is free), `conn_alloc`, batch of events, `conn_close` field by field, sweep by the time its worker took at its start. A handshake and a write that was pending are one step that ends in another event or a close (`Connection` has their parts) |
| `Connection` | one connection in depth | client, socket buffers, ready list, worker; handshake, read, parse, dispatch, flush, close; the idle sweep; a client may leave or shut down its sending side only |
| `Lifecycle` | start and stop | main thread and workers; what a store past `workers[]` overwrites |
| `Commands` | handlers over a store of shards | each library call is a step; the bytes behind `vc_get`'s pointer are copied in a step of their own; KEYS and SCAN visit a slot per step. `store` is what lookups find. `behind` has a key's other LIVE entries: an expired one stays in its slot and lookups stop at it, so that a value stored later may be hidden behind it; deleting an entry brings the next one forth. A scan lists every entry |
| `Proto` | `resp_parse_command` and the reply elements | operators on a buffer: array, line, `NEED`, the typed-value prefix. A byte the parser looks at is a unit, and so is a word |
| `Handlers` | what every handler of `cmd_table` writes | per command the set of replies its outcomes give, as elements; the permission each command needs |
| `Session` | the bytes of one connection slot | clients write, `read` delivers any number of bytes, `process_conn` parses and dispatches one command per step, HELLO, AUTH and QUIT change the connection, `conn_alloc` gives the slot to the next client |
| `Cluster` | the cluster client and its nodes | pools, node table, slot map, both locks, callers, health thread; crash, restart, move of the slot. A command's reply is one line, an array, two replies (as this server gives to INCR), a map (VCGET) or a null: `resp_read_reply` takes one line and does not know the last two types. A call starts in a step of its own, before it waits for the map's lock |
| `ShardProofs`, `ShardHistoryProofs`, `WalProofs`, `ServerProofs`, `CommandsProofs`, `ClusterProofs` | theorems about the module each is named after | see section 4 |
| `StorageProofs` | theorems about `Slab` and `Values` | see section 4 |
| `WorkerProofs` | theorems about `Connection` and `Lifecycle` | see section 4 |
| `MC*` | constants for TLC | small sets, home slots, scripts, requests |

Composition. `ShardHistory` composes the shard with its abstract specification.
`Commands` stands on the result of `Shard` (a library call is atomic) and adds
what callers see; `Wal` has the shard as a map; `Values` and `Slab` are the
storage behind `Shard`'s tiers, split because the first is about sizes and the
second about interleavings. `Server`, `Connection` and `Session` split the
server the same way: many connections with counted requests, one connection
with its events and buffers and requests in two halves, one connection with its
bytes, commands and replies. `Session` composes the parser, the dispatcher, the
handlers' replies and a client that reads them.

Operators whose names end in a word such as `_unmarked`, `_late` or `_over` and
that are marked "Fault" in their comment are not part of the specifications.
They are plausible mistakes; with one of them in place of the real definition
the property it belongs to fails, which shows that the property depends on that
code.

## 3 Runs

| Run | Question | Bounds, and why they are enough |
|---|---|---|
| `shard_table` | Does the table keep its chains, counts and keys through long sequences of calls? `ProbeChain`, `CountCoversLive`, `DropOnlyWhenFull`, `NoDuplicates`, `StorageOwnedOnce` | four keys, three slots, slab and inline values, five calls: collisions, displacement across the end of the array, tombstones before live entries, eviction that finds a victim or none, and a drop with every slot live all occur. Two threads overlap during the first two calls (`MaxOverlap`), the calls after them are one thread's; the proofs cover the rest |
| `shard_race` | Are readers and writers correct against each other, is `vc_get` linearizable, and does the shard implement `Cache`? `WriterExclusion`, `ValidatedReads`, `GetLinearizable`, `WritesAreAnnounced`, `ImplementsCache`, `CallsReturn` | two threads, three keys with one home on two slots, three calls, slab values, time to live 1: every pair of functions overlaps, a scan meets every stage of an insert, a retry (`Retries = 1`; 8 in the code) ends in the locked path. Time advances once, by `Pace = 2`, which expires every entry stored before. `EvictPct = 50` (85 in the code) makes the second SET sweep the table and the third one evict |
| `set_visible` | Is a value that was just set found? **Violated**, see section 5 | one thread, one key, two calls |
| `slab` | Is a block ever lost or handed out twice? `Conservation`, `CallsReturn` | two threads, three blocks, six operations: enough for ABA, which the history variable `aba` marks |
| `value_tiers` | Do values fit where `vc_set` puts them, and do blocks come back? `ValueFitsBlock`, `StraysAtLimit`, `PayloadFits`, `BlocksConserved` | the real sizes on both sides of every boundary, three keys on two slots (so that a set evicts, or drops an entry), two blocks per class, four operations |
| `wal` | Does the log survive a crash and replay to the table? `AckedSurvive`, `RotationOrder`, `ReplayAgrees` | two threads, records of two lengths in a ring of seven units, four calls, one crash: the ring wraps with and without a gap at its end |
| `server_table` | Do slots, sockets and buffers correspond? `TableMatches`, `BuffersLive`, `IdleOnly` | two workers, three clients, two slots, two descriptors that run out and are reused, one timeout. States behind the first foreign sweep, of which nothing is claimed, are not explored |
| `server_stop` | Does a server serve until it is stopped, and stop? `ServesUntilStop`, `DestroyAfterWorkers`, `StopReturns` | an array of three, one to five threads, starts that succeed and starts that fail after some workers run |
| `connection` | Is every request answered, in order, with no lost wakeup? `InOrder`, `NoLostWakeup`, `Answered` | three scripts of up to four requests, each in two fragments, with a QUIT and a malformed one, a socket that holds two replies (so that flushes block), with and without TLS, clients that leave or half-close at any time, a timeout that may pass whenever the worker waits |
| `session` | Are requests and replies understood, however they are cut and whoever had the slot before? `Framed`, `Understood` | two clients, three requests between them, of 13 that matter to later ones (changes of version and user, awkward bytes, empty arrays, lines that are too long) and some 60 that are written last, at least one per outcome of every handler; every cut of the bytes; with and without required authentication; five arguments and bulk strings of six units, both exceeded; KEYS, SCAN and CONFIG GET find up to two |
| `commands` | Is a command atomic, does it reply once, and does SCAN miss an entry? `Isolated`, `OneReply`, `ScanCovers` | two workers, any two of some forty requests, three keys in the slots of two shards (`Table`; a cursor is `SlotRange` times the shard plus the slot, 2^20 in the code), SCAN from the start and from inside a shard with COUNT 0, 1 and 2, initial stores with plain, expiring, expired and typed values, up to three entries of one key (the slots `Table` has for it: an expired one before and behind a new one), one entry that expires or is evicted (`MaxLost`), times to live on both sides of a second (PX) and below 0 |
| `cluster` | Does the client route, retry and recover? `PoolExclusive`, `ReplyMatches`, `NoSpuriousFailure`, `CallsReturn`, `Recovers` | two nodes of which one is a seed, one caller (as in `vcli --cluster`) with two calls beside the health thread, one connection per pool (so that pools are full), two attempts (three in the code), one crash, one move: enough to use up the attempts; a command may be answered by each of the five kinds of reply, a refresh in the nested or the flat format |

`TypeOK` is also checked for `Shard`. Deadlock is checked in every run but
`cluster`, where the model ends at the client's first race (`raced`) or the first
reply of which something stays unread (`skewed`). Threads, workers and clients are permuted as symmetry sets in
`wal`, `server_table` and `commands`, which check no liveness.

Fairness. `Shard`, `Lifecycle`, `Connection` and `Cluster` assume weak fairness
of each thread's own steps: the operating system schedules it, `epoll_wait`
returns within its one-second timeout. `Connection` also assumes a client that
reads, `Cluster` nodes that come back and strong fairness of a caller that waits
for the rwlock, as a reader or as a writer: there are finitely many calls and
refreshes to hold it, and glibc lets waiting readers in when a writer leaves.
`Slab` assumes that a compare-and-swap that could succeed again and again does,
since weak compare-and-swap may fail spuriously. No fairness is assumed of
callers, clients, crashes or time. `CallsReturn` of `Shard` and `Slab` is about
finitely many calls: neither the spin lock nor the stack is starvation-free.

Several properties hold only until the code does something wrong that is known.
A history variable says when (`aba`, `foreign`, `apart`, `late`, `idle`, `met` of
`Commands`, and `met` of `Cluster` with `raced`, `skewed` and `hindered`; `Fits`,
`Irregular`, `Crowded` and `EndsEarly` are conditions on the call), the property is
stated up to then, and the wrong step itself is in the model and listed in section 5.
Such a property says nothing of that hazard itself: it says that nothing else goes
wrong.

## 4 Proofs

TLAPS proves the theorems below for every value of the constants, from the
assumptions that the modules name and TLC evaluates:

- `Shard`, `ShardHistory`: every set of threads and keys, every capacity from 1
  up, every assignment of home slots inside the table (`CapAssumption`,
  `HomeAssumption`), every bound, at least one attempt of a lock-free read
  (`BoundsAssumption`). The others fix types.
- `Slab`: every set of threads, every number of blocks and operations
  (`SlabAssumption`).
- `Values`: every set of keys and key lengths from 1 up, every set of value
  lengths, every number of slots from 1 up and of blocks per class (`KeyAssumption`,
  `SizeAssumption`, `ValuesBounds`). The sizes of the classes are those of the code.
- `Wal`: every set of threads and keys, every ring and every set of lengths from
  1 to the size of the ring (`RingAssumption`; a longer record is outside the model,
  see section 6).
- `Server`: every set of workers and clients, every number of slots from 1 up, of
  descriptors and of requests, every timeout (`TableAssumption`).
- `Connection`: every set of scripts and every capacity of the socket from 1 up
  (`ConnectionAssumption`).
- `Lifecycle`: any size of the array and any number of threads from 1 up
  (`ThreadsAssumption`).
- `Commands`: every set of workers and keys, every number of shards, of entries a key
  may have and every order of them in the slots, with fewer slots per shard than a
  cursor can tell apart (`TableAssumption`); every range of times to live
  (`TtlAssumption`); every set of stores of non-empty values, expired or not
  (`StoreAssumption`) and of requests that have the arguments their handlers check
  for (`RequestAssumption`; FLUSHDB, KEYS and SCAN name a key of every shard).
- `Cluster`: every set of callers and nodes, every size of the node table, of a
  pool and of the number of attempts from 1 up, and as many seeds as the table
  holds (`ClusterAssumption`). Every set of kinds of reply, any reply of any kind.

| Theorem | States | Rests on |
|---|---|---|
| `ShardProofs!TypeCorrect` | `TypeOK` | `Base` |
| `ShardProofs!ExclusionCorrect` | `WriterExclusion`: one writer, `seq` odd exactly inside its section | `Base` |
| `ShardProofs!ChainCorrect` | `ProbeChain`: no EMPTY slot before a live entry | `Base` |
| `ShardProofs!AnnouncedCorrect` | `WritesAreAnnounced`: the table changes only while `seq` is odd | `Base` |
| `ShardProofs!ReadsCorrect` | `ValidatedReads`: a validated lock-free read answers what a locked one would | `Base`, `ReadInv` |
| `ShardProofs!StorageCorrect` | `StorageOwnedOnce`: storage has one owner and is freed once | `Base`, `StorageInv` |
| `ShardProofs!UniqueCorrect` | `NoDuplicates`, while nothing expires | `Base`, `UniqueInv` |
| `ShardProofs!DropCorrect` | `DropOnlyWhenFull`: entries are dropped only from a full table | `Base`, `DropInv` |
| `ShardHistoryProofs!CountCorrect` | `CountCoversLive`: `count` never falls below the live entries | `Base`, `CountInv` |
| `ShardHistoryProofs!LinearizableCorrect` | `GetLinearizable`: a `vc_get` returns a value its key had during the call, until an entry expires | `HistInv` and the above |
| `ShardHistoryProofs!RefinementCorrect` | `ImplementsCache`: every step is a step of `Cache` or a stutter, until an entry expires (then `view` is emptied, a Flush, and the table no longer followed) | `HistInv` and the above |
| `StorageProofs!ConservationCorrect` | `Conservation`: every block is in one place, until a pop installs a stale link (ABA) | `SlabInv` |
| `StorageProofs!FitsCorrect` | `ValueFitsBlock`: a value fits the block `slab_class_for` chose, also when the block came back from another class | `ValuesInv`, `ClassFor` |
| `StorageProofs!StraysCorrect` | `StraysAtLimit`: the blocks that change lists are those of clipped lengths, and all go to one class | `ValuesInv`, `ClassFor` |
| `StorageProofs!PayloadCorrect` | `PayloadFits`: key and value, or their pointers, end within the payload | `ValuesInv` |
| `StorageProofs!BlocksCorrect` | `BlocksConserved`: every block of every arena is on one list, once, or in one entry, or was lost with an entry dropped from a full table; none is in two of these | `ValuesInv` |
| `WalProofs!RotationCorrect` | `RotationOrder`: laps lie behind each other, newest first, until a restart | `WalInv` |
| `WalProofs!AckedCorrect` | `AckedSurvive`: a scan of the ring, as a crash would leave it, finds the record of every call of this process that returned, unless the ring has wrapped since | `WalInv` |
| `WalProofs!ReplayCorrect` | `ReplayAgrees`: between calls replay gives the shard, until a restart or the ring wraps, for keys outside `apart` (evicted, flushed, failed or overlapping calls) | `WalInv` |
| `ServerProofs!BuffersCorrect` | `BuffersLive`: no worker uses freed buffers, until a foreign sweep | `TableInv` |
| `ServerProofs!TableCorrect` | `TableMatches`: slots and sockets correspond, until a foreign sweep | `TableInv` |
| `ServerProofs!IdleCorrect` | `IdleOnly`: only idle connections are swept, until a foreign sweep | `TableInv` |
| `WorkerProofs!OrderCorrect` | `InOrder`: replies read, in the socket and in `wbuf` are those of the requests, in order | `Types`, `Open` |
| `WorkerProofs!WakeupCorrect` | `NoLostWakeup`: without TLS no worker sleeps on work it could do | `Types`, `Open`, `Pending` |
| `WorkerProofs!ServesCorrect` | `ServesUntilStop`: workers serve until the stop, if the threads fit the array | `Ordered` |
| `WorkerProofs!DestroyCorrect` | `DestroyAfterWorkers`: after a stop the server is destroyed when every worker has ended | `Ordered` |
| `CommandsProofs!OneReplyCorrect` | `OneReply`: every handler writes one reply on every path, those of the counters apart | `CommandsInv` |
| `CommandsProofs!IsolatedCorrect` | `Isolated`: a command that meets no writer of its shards has the reply and the effect of one step on the store it began with, whatever goes on elsewhere; its keys that had expired entries in the table (`Crowded`) may be left with another value | `CommandsInv` |
| `CommandsProofs!ScanCoversCorrect` | `ScanCovers`: a client that follows SCAN's cursors misses no LIVE entry and gets none twice, unless the scan ends early (`EndsEarly`) or COUNT is 0; a key is listed as often as it has entries | `CommandsInv` |
| `ClusterProofs!PoolCorrect` | `PoolExclusive`: a pooled connection serves one thread at a time, until one is closed under another thread's eyes | `ClusterInv` |
| `ClusterProofs!ReplyCorrect` | `ReplyMatches`: the reply a caller gets is the first line of the answer to its own request, up to and including the first reply of which something stays unread (an array, a map, two replies), until such a race | `ClusterInv` |
| `ClusterProofs!FailureCorrect` | `NoSpuriousFailure`: with fewer moves of the slot than attempts no call fails, until a crash, a race, a full pool or table, a reply of a type the client does not know, or a `node_count` stored over another thread's | `ClusterInv`, `CalmInv` |

The argument. None of these is inductive alone.

- `Base` is `TypeOK`, `CallInv` (what a program counter implies about the call's
  locals), `WriterExclusion` and `ChainInv`. Chains need more than
  `ProbeChain`: between `insert_swap` and `insert_place` the entry a writer
  carries must have an unbroken chain up to the slot it has reached
  (`CarryChained`), or the step that stores it would break the invariant.
- `ReadInv`: while `seq` equals the value a reader remembers, every slot it has
  passed is not EMPTY and does not hold its key (`Passed`), and what it has read
  is what is there. `WritesAreAnnounced` keeps this for as long as `seq` stays;
  after that nothing is claimed, which is what `seq_read_retry` is for.
- `StorageInv`: the value a writer carries, in `vc_set`'s new entry or displaced
  by `insert_swap`, is in no slot, not released, and no other thread's.
- `UniqueInv`: a carried entry's key is in no live slot from the removal of the
  old entry on.
- `DropInv`: while inserting, every slot passed is live, so after `cap` slots all
  are.
- `CountInv` follows `count` through a write section: it may lag by the one
  entry that `vc_set` has stored and not yet counted, and is ahead by one while
  an entry is displaced.
- `HistInv` relates the table to the abstract store `view`. Between writers a
  lookup finds exactly what `view` has (`ViewOK`, through `LookupFacts`: chains
  are unbroken and keys unique, so the first match is the only one). Inside a
  writer's section the table is on its way to `Goal`, the store after the call:
  every entry in a slot or in the writer's hands has the value `Goal` gives its
  key, and at most one key that should have an entry has lost it (`SectionOK`).
  That it is one and not two is the hard part: after an eviction there is a slot
  that is not live, so the insert that follows drops nothing. The section's last
  step then is one Set, Del or Flush of `Cache`. A `vc_get` has its answer only
  from a validated or locked read, which `ReadInv` turns into a value of `view`
  at that moment (`SeenOK`). `GivenInv` keeps the values of calls apart, so that
  none is applied twice.
- `SlabInv` has the free list as a set `F` with `d[b]` blocks below `b`: the head
  has the most, each link leads to one less, and the last block has none. Blocks outside `F` are held by
  one caller or on their way back by one thread. A push puts a block on top; a
  pop takes the top off, and while `aba` stays false the link it installs is still the
  head's. That `F` is what a walk from `head` meets (`StackIsFreeList`) is
  an induction on the depth.
- `ValuesInv`: the free lists, the blocks of entries and the lost ones share out
  the arenas (`Shared`), a list has only blocks of its own class or, if it is the
  class of 65 535 bytes, larger ones (`Suited`), and an entry's recorded length
  leads to a list its block may go to (`Sane`). A set moves a block from a list to
  an entry, those of the entries it removes to lists, and one that is dropped to the
  lost ones. `Sane` is what clipping could break: a block of a value
  longer than 65 535 bytes comes back to a smaller class, where it is too large
  and never too small. It needs what `slab_class_for` computes for every length:
  `First` says of a class that it is the first from some class on that is large
  enough or the last one, and `ClassFor` shows this of the loop's recursive
  function by a least counterexample counted from the last class.
- `WalInv`: the current lap is a run of records from position 0 to `e`, each
  beginning where the one before it ended, numbered `s` to `wal_seq - 1`; one
  thread appends, and up to `e` only its record may be torn. A restart begins at
  position 0 and number 0 again with the old records still there: the lap is then
  the new process's, which is enough for `AckedSurvive` since `acked` has only
  its calls. That what lies behind `e` is older than `s` (`OrderOK`) is claimed
  only until a restart. `ShardOK` adds the table: while every record is in the
  ring, a key that no call is working on has the effect of its last record, and
  calls of one key that did not overlap append and apply in the same order
  (`MetOK` marks the others).
- `TableInv`: a registered socket and its slot point at each other, and the slot
  has its buffers and was stamped no earlier than the socket was last read
  (`SocketOK`); a slot in use is registered or in the hands of one worker
  (`SlotOK`, `MovingOK`); what a worker serves, and every event it has still to
  handle, is a connection of its own, no connection twice (`ServingOK`). Without the
  last, a connection closed early in a batch could have a second event in it.
  All but the types is claimed only until `foreign`: a sweep that takes another
  worker's connection leaves that worker with one it no longer owns.
- `Pending` (of `Connection`) says for every place of the worker, not only
  when it waits, who will deal with unread bytes, unparsed requests and unwritten
  replies: the ready list, or a step that is still to come. It needs `Open`
  (`resume` is reached only with EPOLLOUT registered) for the flush that blocks
  again, and `Len(out) <= OutCap` for an event that reports nothing. The order of
  replies is then three facts about concatenation: moving a head to the end of
  the sequence before it (`MoveHead`, `MoveMiddle`) and appending the next number
  (`AppendNext`).
- `Ordered` (of `Lifecycle`) follows the main thread: until the stop
  `running` is set and no worker has left; `workers[]` holds what was started;
  what has been joined has ended. It is claimed only while the threads fit the
  array (`Fits`): past its end a store changes `running` itself.
- `CommandsInv` is about a command in the middle of its calls. `Serving` has what
  holds of every worker: how many replies it has written, that a loop's index
  is within the arguments. `Apart`: of two commands that conflict both are in `met`.
  `Alone`, of a worker outside `met`: the store, as far as the shards of
  its keys go, is what its command has made of the store it began with (`Progress`:
  the keys DEL has been through are gone and those that existed counted, MSET's
  keys have the value of the last argument so far, RENAME has taken the old name
  away and holds its value; keys with entries behind an expired one, `Crowded`, are
  left out of it), or, of a scan, every LIVE entry from its cursor on is in the reply
  or still ahead (`Scanned`). A step of the worker itself takes
  `Progress` one call further or, the last one, to `AsOneStep` (`OwnKeeps`, from a
  lemma per handler). A step of another worker changes only shards of its own
  keys (`WorkerFootprint`), which by `Apart` are not the ones `Progress` looks at
  (`OthersAlone`). That positions order the entries as the scan visits them is
  arithmetic of shard and slot (`CursorUnique`, `CursorOrder`, `CellPosition`).
- `ClusterInv`: what a thread's variables say at each place of its functions
  (`FramesOK`: the node it has come to, the connection it holds, the frames it
  will return to); a pool entry has one holder and a call's result is its own
  (`Exclusive`, `Replied`), until a race; and a pool entry that nobody uses has
  nothing unread on it, one in use only the answer its holder waits for, on a
  connection that is open (`InStep`). The last is why a reply cannot be another's:
  an entry goes back to its pool only after its answer was read, or closed. It
  ends with the first answer of which a line stays unread; the call that got the
  first line of that answer still got its own.
- `CalmInv`: as long as the history is calm (`Calm`), every initialised node is
  up, counted and alive, with its open connections up (`NodesOK`), and between
  refreshes the slot is mapped to such a node, once the client is connected or a call
  has started (`MapOK`, `Started`). Attempt k of a call is
  at a node that owned the slot after k moves or later (`Latest`), since a MOVED
  names an owner later than the node that sent it (`AnswerLatest`); the attempts
  can be used up only after as many moves. `Steady` says so of a thread by its
  frame, its connection and a `View` of table and owner. A step of another
  thread, or a move, only makes the view grow (`Grows`, `SteadyCarries`), which
  is what `hindered` is for: a `node_count` stored over another thread's shrinks the
  table and makes a node in use unknown, a full table has no index for the node a
  MOVED names, and a reply of an unknown type marks a node dead that is up.

What a step of one thread of `Shard` leaves alone in another is proved once
(`OthersUnchanged`, `WriteStep`, `QuietStep`) and cited by every invariant;
`ServerProofs` has `ServeKeep`, `MoveKeep` and `QuietTable` for the same purpose.

Only model-checked: liveness (`CallsReturn`, `StopReturns`, `Answered`,
`Recovers`), which is out of the prover's reach, and `Framed` and `Understood` of
`Session`: they are about what folds over the bytes compute (`Proto!parse_array`, the reading of
replies), and the provers do not instantiate an induction rule. Where recursion
matters to a proof it is avoided in one of two ways. A walk is a least closed set
(`Slab!FreeList`, `Wal!Scan`), and induction along it is an argument about a least
counterexample (`LeastNumber`). A recursive function is shown to exist by giving
one that satisfies its equation (`slab_class_size`, `slab_class_for`, over the 16
classes). `parse_int64` is needed only as a function of the text: `Isolated` says
that a command counts by the number its text stands for, and what that is, is
TLC's to check.

## 5 Where code and documents disagree

One disagreement is a run of its own: `set_visible`. `vc_set` takes the matching
entry out of the table only if `_shard_find` returns it, and `_shard_find`
answers "not found" at an expired entry with the same key. The new entry is
then placed behind the expired one, and lookups stop at the expired one: a value
that was just set is not found. `PROJECT.json` quotes the documented promise.

The others met while modelling are in the specifications as the code has them;
the properties are stated around them.

Library

- The same fault leaves two entries for one key once keys expire (`NoDuplicates`
  is checked, and proved, for `TTLs = {0}`; linearizability and the refinement
  are claimed until the first entry expires).
- A dropped insert leaves `count` above the number of live entries
  (`CountCoversLive` is an inequality), and `entry_free_resources` is not called
  for it: its block, its mapping or its key on the heap is lost until the arenas go
  (`lost` of `Values`).
- The pointer `vc_get` returns is invalidated by a SET of another key that
  evicts or displaces the entry.
- `slab_alloc` is open to ABA: `head` is a bare pointer without a version.
- `val_len` is 16 bits wide, so longer values are clipped; large blocks go back
  to the class of the clipped length, and of a mapping only as many pages are
  unmapped. `total_memory` only grows.
- The log is written before the shard is locked, so the order of two writers in
  the log may differ from the table's; `wal_init` reads nothing back and the
  sequence restarts at 0.

Server

- The idle sweep of one worker closes connections of another without a lock.
- It closes a connection that has been silent for 300 seconds although a request
  may have arrived since `epoll_wait` returned, or a reply still be unwritten.
- The master's listening socket is in the `SO_REUSEPORT` group but nobody
  accepts from it, so clients the kernel assigns to it wait.
- More worker threads than `VC_WORKER_THREADS` overwrite what follows the array,
  `running` included; `README.md` suggests `--threads 8`.
- After a failed start the server is destroyed under workers that run.
- Requests that arrive together with the client's shutdown of its sending side
  are closed unread: EPOLLRDHUP is looked at first.
- A TLS request that arrives with the end of the handshake is read only at the
  next arrival.

Commands

- INCR, DECR, INCRBY and DECRBY write two replies to one request; DECRBY adds.
- SET, MSET and APPEND treat an empty value differently; VCSET stores a string
  as binary; TTL answers only -1 or -2; EXPIRE, APPEND, INCR and RENAME read and
  write in separate calls and drop the remaining time.
- A time to live is kept in whole seconds modulo 2^32: PX below 1000 comes to 0,
  which is for ever, other values of PX are rounded down, and a negative EX or
  EXPIRE is a time far ahead.
- A value stored for a key that has expired may be hidden by the expired entry
  (`set_visible`), by every command that stores; DEL then may bring an older value
  of the key forth.
- SCAN ends early when it stops at the last slot of a shard. Its comment says
  `shard<<16`, the code shifts by 20. KEYS and SCAN list expired keys,
  a key as often as it has entries, and keys that do not match the pattern. With
  COUNT 0 a SCAN visits nothing and says that it has come to the end.
- VCGET writes a map, a double or a boolean to clients of either version,
  although `net/proto.c` says that such clients stall on types of RESP3.

Protocol

- An array of no arguments, `*0`, gets no reply at all.
- Words of a line past `VC_MAX_ARGS` are dropped without an error, while an array
  of as many arguments is refused.
- An array that is incomplete is parsed again from its start when more arrives;
  the copies of the arguments made so far are not freed.

Cluster client

- A refresh that ends early leaves slots unassigned; if every known node is
  then marked dead the map is never filled again.
- The client expects the nested CLUSTER SLOTS reply; VoidCache's own is flat, so
  a refresh from a VoidCache node waits, with `topology_lock` held, until the
  connection ends.
- Of an array reply only the header is read although the comment says "read and
  discard"; the elements are the next command's reply. The same holds of the second
  reply this server gives to INCR and of the fields of VCGET's map.
- A reply of a type that `resp_read_reply` does not know (a map, a null of RESP3), or
  a line longer than its buffer, counts as a failed read: the node is marked dead
  and the connection, which is sound, goes back to the pool.
- A full pool marks a healthy node dead; back-off is shorter than the health
  thread's period and so never takes effect; the read timeout is not applied to
  reads of replies.
- No VoidCache server sends MOVED, and ASK is not handled.
- The CRC table differs from CCITT's in 65 entries.

## 6 What is not modelled

- `src/voidcache.c`: statistics and the hash function (keys have arbitrary home
  slots instead); memory orders weaker than sequential consistency; a log record
  longer than the whole ring (a value of almost 64 MB, in process), which
  `wal_append` would write past the ring's end; times to live in `Values` (`Shard`
  has them).
- `net/server.c`: a failed allocation of a connection's buffers, which `conn_alloc`
  does not look at, and an error of `epoll_wait` other than EINTR: its descriptor is
  not closed while the worker runs.
- `net/proto.c`: the digits of numbers in replies, and the growth of `vc_buf_t`.
- `net/commands.c`: the text of INFO, VCINFO, CONFIG GET and CLIENT LIST, and the
  pattern of CONFIG GET (any number of settings may match); the replies to a failed
  `malloc` inside a handler.
- `net/auth.c`: SHA-256, the generator of tokens and the ACL file's syntax: computation on
  bytes without state of its own. `Session` takes a password check as equality.
- `net/cluster.c`: `vc_crc16` and `vc_key_slot`, pure functions that a test over
  the table's 256 entries settles; teardown of the client, which runs after the
  last call; TLS and AUTH of its connections; hosts that fall silent without closing
  (a read would wait for ever, since no timeout is set).
- `cli/` apart from the server start and stop, `src/main.c`, `compat/`: terminal
  I/O, demonstration, wrappers of system calls.
- `docker/`, `k8s/`, `docs/`: no program logic.

# A verification project for the c_cache server

`c_cache` is a cache server for V8 code: client processes put requests into a
shared-memory segment, one server process takes them out, keeps compiled code in
a memory-mapped file of 100 MB and answers through the same segment. This
directory holds TLA+ models of its parts, the runs of the TLC model checker over
them, and proofs checked by TLAPS. Paths are written from the
repository's parent, `src/`, so the code is under `src/src/`.

## 1. The system

| Component | State it keeps | Operations |
|---|---|---|
| **SharedCache** (`src/src/m_cache/m_v8_shared_cache.{h,cc}`) | the file: header (`magic_number`, `version`, `entry_count`, `next_offset`), a table of 1024 `CacheEntryHeader`s, the data area; in the process `initialized_`, the mapping, one `std::mutex` | `Put`, `Get`, `Remove`, `Clear`, `GetEntryCount`, `GetUsedSpace`, `GetFreeSpace`, `IsValid`; inside: `EnsureInitialized`, `InitMmap`, `InitializeCache`, `FindEntry`, `FindFreeEntry`, `CompactCache` |
| **Channel** (`SharedData` in `src/src/server/common.h`) | three semaphores (`mutex`, `data_ready`, `response_ready`), one message slot with `has_message` and `current_message_id`, one response buffer with its size and id | none of its own |
| **IPCClient** (`src/src/client/client_test.cpp`) | the mapping, `connected`, `generate_message_id`'s counter (one per process) | `connect`, `disconnect`, `send_message`, `wait_for_response` |
| **IPCServer** (`src/src/server/cache_server.cpp`) | `shared_data`, `running`, the router | `run`, eight handlers, `send_response`, `initialize`, `stop`, the destructor |
| **IPCRouter** (`src/src/server/router.h`) | the map from route hash to handler | `register_route`, `register_variable_route`, `dispatch_message` |
| **Server program** (`server_main.cpp`, `restart_server.sh`) | `server_instance`; the name `SHARED_MEM_NAME` in the file system | `main`; SIGINT and SIGTERM call `stop` from the handler; the script removes the name and starts a server |
| **Test client** (`client_main.cpp`, the `test_` methods of `client_test.cpp`) | `running`, `client_instance` | five requests with a `sleep(1)` behind each, a loop until Ctrl+C |
| Graph serializer, picosha2, `m_v8_shared_cache_improved.h`, build files | – | declarations without bodies, a vendored hash, an empty file, scripts |

How they interact. A client waits for `mutex`, writes id, route and payload into
the slot, raises `has_message`, posts `data_ready` and posts `mutex`. The server
waits for `data_ready`, and if `has_message` is up it looks the route up and calls
the handler, clears the flag, and posts `mutex` as well. Handlers of
`function/add_ir_graph`, `bytecode/save`, `function/get_ir_graph` and
`bytecode/get` call the `SharedCache` of the server process; those of
`function/get_ir`, `function/get_ir_graph`, `bytecode/save` and `bytecode/get`
write the response buffer and post `response_ready`; the user routes and
`function/add_ir_graph` send nothing back. A client that wants a response waits
for `response_ready` and compares `response_message_id` with the id it expects.
The cache file outlives the server; the segment does not.

What is hard about it:

* **the channel**: processes interleave at every access; the server never takes
  `mutex`; a single slot is written by all; the ids of different processes
  collide; one semaphore announces every client's response; the flag is cleared
  after the response is posted;
* **the cache file**: an append-only data area, slots that are overwritten and
  reused, and a compaction that rearranges bytes in place while later slots still
  point at them; counters kept apart from what they count; unsigned subtraction;
* **crashes and restarts**: the file is updated field by field with no log; a
  server takes over whatever segment has the name and re-initializes semaphores
  that clients are using; a client can die with the mutex in its hands;
* **signals**: `stop` runs in a handler, at any point of the main thread;
* **locks**: every method takes `mutex_` twice and reads `initialized_` between the
  two; `GetFreeSpace` calls `GetUsedSpace`, which locks the mutex it holds; the
  mutex belongs to a process, the file does not;
* **sizes**: a request states the size of its payload itself, and the header of a
  response is longer or shorter than that of the request the payload came in;
* **time**: the test program sleeps where it should wait.

What makes each component correct:

* SharedCache: one slot per key; exact count; regions disjoint and inside the
  file; `Get` answers with what the last successful `Put` stored or not at all;
  compaction gives back all the space and damages nothing; the file survives
  restarts.
* Channel: mutual exclusion in `send_message`; no wakeup lost; every message taken
  and handled once; a response reaches the caller that asked, whole.
* Handlers: every route with a response answers exactly once and tells the truth
  about what it stored; sizes fit the buffers.
* Lifecycle: a serving server can be found; it never sleeps beside a message,
  also one that it finds at its start; `stop` ends it; the mutex comes back.
* Locks: one thread at a time writes the file; it is mapped once and before it is
  used; calls return.
* Test client: it reports success only for requests that were worked on, and
  Ctrl+C closes it.

`PROJECT.json` lists every component with its status and every hazard at its line.

## 2. Modules

| Module | What it is |
|---|---|
| `LossyMap` | what the cache promises its callers: a map that may forget, only while a `Put` is in progress, and never answers wrongly |
| `SharedCache` | the cache file, byte by byte; `Put` is split at the points where its work can be told apart |
| `MCSharedCache` | payloads of one, two and three bytes for TLC |
| `SharedCacheProofs` | inductive invariant and eight theorems |
| `SharedCacheRefinement` | the steps of `SharedCache` as steps of `LossyMap`: two theorems |
| `IPCChannel` | clients, segment and server loop, one action per access |
| `IPCChannelProofs` | inductive invariant and four theorems |
| `SharedCacheCrash` | extends `SharedCache` by processes that are killed inside its functions |
| `CrashMap` | extends `LossyMap` by the kill after which nothing is promised any more |
| `SharedCacheCrashProofs` | what kills leave of the cache's invariant: six theorems |
| `MCSharedCacheCrash` | symmetric keys, payloads of one and three bytes |
| `CacheLocking`, `MCCacheLocking` | the locks of the public methods, with threads of one process or of several |
| `CacheLockingProofs` | inductive invariant and six theorems |
| `CacheServer`, `MCCacheServer` | the handlers and their size tests over `LossyMap`; requests at and beside every limit |
| `CacheServerProofs` | inductive invariant and five theorems |
| `ServerLifecycle` | how the segment, its server and its clients come and go |
| `ServerLifecycleProofs` | inductive invariant and four theorems |
| `TestClient`, `MCTestClient` | the test program as one client of `IPCChannel`, and a client behind it |
| `OneClientProofs` | a single client that awaits each answer: four theorems; and the test program as a client of the channel |

How they compose. `SharedCacheCrash` extends `SharedCache`, and `TestClient` extends
`IPCChannel`: their next-state relations contain the whole of the other's.
`CacheServer` contains an instance of `LossyMap` in the place of the cache; that
`SharedCache` implements `LossyMap` is what `cache_refines` checks and
`SharedCacheRefinement` proves. `CacheLocking` is what
justifies the `SharedCache` model's calls that do not overlap, and shows where they
do. `ServerLifecycle` keeps of the channel only the flag and the two semaphores on
which a restart can do damage.

### SharedCache

| Variable | Code |
|---|---|
| `stamped` | the header carries `CACHE_MAGIC` and `CACHE_VERSION` |
| `entry_count`, `next_offset` | the header's fields |
| `entries` | the table; a `function_name` is never used by the code and left out |
| `data` | the bytes of the data area, addressed as in the file |
| `initialized` | `initialized_` of the running process |
| `call` | the `Put` in progress: arguments, chosen slot, the loop variables of `CompactCache` |
| `written` | history: what the last successful `Put` of each key stored |

`EnsureInitialized` is the first method call of a process (`InitMmap` included, and
`InitializeCache` if the file is new). `Put` is `PutStart` (the space test), then
`CompactSlot` once per slot and `CompactEnd` if there was no room, then
`PutReuseSlot`, `PutClaimSlot` or `PutNoSlot` (the slot search), `PutFillEntry`,
`PutCopy` and `PutAdvance`. `Remove`, `Clear` and `Restart` are one step each: they
run under the same mutex and nobody can see their halves. A `Put` of no bytes, a
`Get` of an absent key and the counters change nothing and need no action; `Get`
is an operator. Deadlock is checked: the cache can always take another call.

`Stored` and `Moved` keep what a copy writes into the data area; what one would write
outside it is not represented. That no copy does is a matter of `LayoutSound`, and of
`InsideUnlessBroken` for every single copy.

Assumptions of the model. Calls do not overlap, since every public method holds
`mutex_` throughout (the exception, `Get`'s pointer, is used only by the server's
one thread; `CacheLocking` checks this). Keys are identified by the 255
characters that `FindEntry` compares, so `Keys` are the keys after truncation.
`ChecksumModulus` is 2^32 in the code and a parameter of the model: `cache_ops` makes
it 7, so that damaged bytes collide with the checksum they should fail and `Get`
hands them out, and the refinements make it 65536, so that none of the short
payloads collide. Checksum arithmetic is otherwise the code's. A process of
`SharedCache` ends between two calls; in `SharedCacheCrash` it ends anywhere.

### LossyMap

`ImplementsLossyMap` maps `content` to `written`, `view[k]` to `Get(k)` and `pending`
to the `Put` in progress. The abstract map may change what *other* keys answer
only between `Begin` and `Commit` or `Abort`, only to a miss and back, and the key
being stored may answer with its new value early. `Commit` demands that the new
value can be read back. This is as strong as the code allows: compaction does
destroy entries (section 5).

### SharedCacheCrash and CrashMap

| Action | A process is killed |
|---|---|
| `KilledInInitialize` | in `InitializeCache`, of a first call or of `Clear`: after the magic number and version, after the count, or after `next_offset` and any number of cleared slots |
| `KilledInFill` | in `Put` between the fields of the entry (`key`, `length`, `offset`, `is_used`; the checksum is the last) |
| `KilledInCopy` | in `Put`'s `memcpy`, or behind it before `next_offset` moves |
| `KilledInCompact` | in a `memmove` of `CompactCache`, with any stretch of it done, before the slot's offset is stored, or before `next_offset` is |
| `KilledInRemove` | in `Remove` between its stores (`is_used` is the first, the count the last) |
| `Recover` | the next process: an uninitialized cache object on the file as it is |

`kills` counts them by function; `Windows` says in which of the four functions kills
happen, `MaxKills` how many. A kill inside `Put` or its compaction is two steps, so
that the call is still pending when the bytes become visible, as `LossyMap` asks.

A kill inside `CompactCache` or `Remove` breaks nothing: until a process dies inside
`Put` or `InitializeCache` (`Broken`) the file implements `LossyMap`, killed processes
included. `ImplementsCrashMap` says so as a refinement of `CrashMap`, whose `Break` ends
every promise; the two other properties that hold after any number of kills are
`UniqueKeys` and `CountDrift`. What does go wrong after such a kill is in section 5.

Assumptions of the model. Stores reach the file in program order. The file is mapped
`MAP_SHARED`, so the pages of a killed process survive; a loss of power, where
`msync` would matter, is not modelled. The `memset` of the table is cut between two
slots and the copy of a key is not cut (a torn key is a key nobody asks for or an old
one). A behaviour ends with the first access outside the data area, as C++ promises
nothing behind it.

### CacheLocking

| Variable | Code |
|---|---|
| `mutex` | the owner of `mutex_`, for each process |
| `initialized`, `mappings` | `initialized_`, and how often `InitMmap` has succeeded |
| `version` | how often the file has been written |
| `thread[t]` | where the thread is in a public method, which one, whether the call comes from `GetFreeSpace`, the `version` its pointer was handed out at |

`Call`, `Ensure`, `InitMmap`, `LeaveEnsure`, `Test`, `Lock` and `Return` are the steps every
public method takes: the lock and test of `EnsureInitialized`, `InitMmap` with its
failures, the unlock, the test of `initialized_` without the lock, the second lock, the
body and its end. `CallUsedSpace` is `GetFreeSpace` at line 290. `Use` is the caller of a
`Get` reading behind the pointer. A `std::mutex` locked again by its owner blocks, which is
what the default pthread mutex does.

### CacheServer

| Variable | Code |
|---|---|
| `content`, `view`, `pending` | the cache, as in `LossyMap` |
| `pc`, `request` | the request between `dispatch_message` and the end of its handler |
| `replies`, `reply` | the calls of `send_response` that were not dropped for their size |
| `saved` | history: what was last stored with success, by kind and hash |

A request is a route, a hash, a payload of which the length is kept, the size it
states for that payload (`claimed`) and `payload_size` (`size`). `Receive` is
`send_message`'s size test; `Ignore` covers unknown routes, failing size tests and the
three handlers that only print; `RefuseStore`, `BeginStore`, `WorkStore`, `CommitStore`
and `AbortStore` are the two handlers that `Put`; `AnswerIR` and `AnswerFromCache` are the
three that `Get`. Sizes are those of the x86-64 layout of the structs of `common.h`.
Strings are taken to be terminated inside their field, as every client of the
repository sends them; a key is prefixed and cut as the code does it. The catch
branches are left out: nothing in the `try` blocks throws but a failed allocation.

### ServerLifecycle

| Variable | Code |
|---|---|
| `name`, `made` | the segment `SHARED_MEM_NAME` is bound to; how many were made |
| `segment[g]` | whether `ftruncate` has given it its pages; `mutex`, `data_ready`, `has_message` |
| `server[s]` | where the process is from `main` to the end of the destructor; the segment it sets up (`fd`), `shared_data`, `running`; history: `stop` has returned, the last process ended by a fault |
| `client[c]` | where the client is in `send_message`, its segment, whether it is alive; history: its announcement was wiped out by a start |
| `signals` | signals delivered |

| Action | Code |
|---|---|
| `Start`, `OpenSegment`, `SizeSegment`, `InitMutex`, `InitDataReady`, `InitFlags`, `InitFails`, `Publish`, `SetRunning` | `main`, `create_shared_memory` call by call with its failures, `initialize`, the start of `run` |
| `TestRunning`, `Wake`, `Look`, `ClearFlag`, `Release` | the loop |
| `Unmap`, `Unlink` | the destructor |
| `Signal` | `signal_handler` and `stop`, between any two steps of the main thread |
| `Kill`, `Die` | SIGKILL of a server, of a client inside `send_message` |
| `RestartScript` | `restart_server.sh` while no server of that shell runs |
| `Connect`, `Disconnect`, `Enter`, `Write`, `Announce`, `Leave` | the client |

A waiter on a semaphore that `sem_init` sets again may in reality be forgotten by the
kernel; in the model it can be let in or not, as nothing fair is assumed of it.

### TestClient

`NextTest` starts the next of the five tests by `IPCChannel`'s `Send`; `SendStep` is one of
the channel's steps of `send_message`, and the one that leaves it falls asleep;
`SleepEnds` ends `sleep(1)` at any time, however far the server is: the code waits a
second whatever the server does. `TestsEnd` is the report, `Interrupt` the
handler (it ends a sleep; a `sem_wait` is resumed, as `signal` sets `SA_RESTART`), `Close`
the end of `main`. Behind it a client of the same channel may send and await.

### IPCChannel

| Variable | Code |
|---|---|
| `mutex`, `data_ready`, `response_ready` | the semaphores' values |
| `message` | `SharedData::message`: `id`, `route`, `payload` |
| `has_message`, `current_message_id`, `response`, `response_size`, `response_message_id` | the fields of that name; a size is 0 or 1 |
| `sent` | each process's counter in `generate_message_id` |
| `client[c]` | where the client is in `send_message` or `wait_for_response`, its route, whether a response is still owed to it, what it got |
| `server` | where the server is in `run`, and the handler's route, payload and id |
| `released`, `handled` | history: the server's posts of `mutex`, the payloads handlers have worked on |

A payload is `<<c, n>>`, the n-th request of client c, and a response is the payload
it was computed from: enough to tell whose request and whose answer it is.

| Action | Code |
|---|---|
| `Send`, `Enter`, `WriteHead`, `WritePayload`, `RaiseFlag`, `SetCurrentId`, `Signal`, `Leave` | `send_message`, top to bottom |
| `Await`, `TakeAnswer`, `CheckId`, `ReadResponse`, `Clean` | `wait_for_response`, for the id of the caller's last request |
| `Wake`, `Look`, `ReadRoute`, `ReadTornRoute`, `ReadId`, `ReadPayload`, `WriteResponse`, `StampResponse`, `Notify`, `ClearFlag`, `Release` | one turn of the loop of `run` with `dispatch_message`, the handler and `send_response` |

The order in which a handler reads is the code's: the lambdas of the get routes
read `current_message_id` before the handler reads the request,
`handle_save_bytecode` reads it when it answers. `send_message` does not return the
id it drew; a caller that wants the response can only know that it is the value of
its process's counter, and that is what `Await` uses.

Assumptions of the model. Accesses happen in program order. The only plain stores
whose order a compiler or a weak memory could exchange before the next semaphore
operation are those of the slot and of `has_message` and `current_message_id`, and a
process that sees them half done was not kept out by `mutex` in the first place: an
exchanged order adds outcomes to the runs whose property is already violated and
none to those with one synchronous client, which posts `data_ready` after all three
and whose server is then asleep or about to be. The copy of a payload or of a
response is one step; `BuffersUnshared` shows that with one synchronous client no
copy ever overlaps a read, and in the runs with two clients the properties that pass
do not look at payloads. A route read while another is being copied over it is a
route of its own (`ReadTornRoute`), because it decides what the server does next.

## 3. Runs

| Run | Shows | Instance |
|---|---|---|
| `cache_ops` | types, exact count, unique keys, sound layout, honest `Get`, tight compaction, safe compaction of an ordered table | 3 keys, 3 slots, payloads of 1, 2 and 3 bytes, 5 bytes of data area |
| `cache_refines` | every step is a step of `LossyMap` | the same with 2 slots, so that a table can be full |
| `cache_compaction` | **violated**: no entry is corrupted by the cache itself | as `cache_refines` |
| `ipc_two` | types, mutex tokens, no lost wakeup; every message is taken from the slot | 2 clients, 2 requests each, awaiting; two routes |
| `ipc_solo` | answers are one's own, buffers are not shared, nothing is handled twice | 1 client, 4 requests, awaiting |
| `ipc_clear` | **violated**: only handled messages are marked as treated | 1 client, awaiting |
| `cache_kills` | nothing leaves the data area and the file implements `CrashMap`; keys stay unique; the count drifts by at most the kills | 3 keys, 2 slots, 2 kills in any function |
| `lifecycle_safe` | types (a connected client has a segment); a serving server is not asleep beside a message; `stop` ends it; the mutex comes back | 1 server, 2 clients, 2 segments, 1 request each, 1 signal, any number of kills |
| `locking_threads` | whoever holds the mutex is on the way to give it back; exclusive writes, one mapping, no body without it, calls return | 3 threads of one process, 2 calls each, `Put`, `Get`, `GetFreeSpace` |
| `server_answers` | types (nothing of no bytes is stored); one response per answered request, faithful answers, truthful reports | 2 hashes, 4 payload sizes, 8 routes and an unknown one |
| `test_interrupt` | Ctrl+C closes the test program | the test program, 1 client behind it |
| `test_hurried` | **violated**: success is reported only when every request has been handled | the test program alone |

The runs marked violated, and each of the following configurations, check one statement
of the documents that the code does not keep; TLC finds the latter violated in seconds
too (`tlc -config X.cfg M`). Section 5 says what they show.

| Configuration | Module | Violated |
|---|---|---|
| `ipc_exclusion.cfg`, `ipc_pairing.cfg` | `IPCChannel` | `MutualExclusion`, `AnswerIsOwn` |
| `crash_overrun.cfg`, `crash_initialize.cfg` | `MCSharedCacheCrash` | `AccessesInside` |
| `crash_invents.cfg`, `crash_count.cfg` | `MCSharedCacheCrash` | `NothingInvented`, `EntryCountExact` |
| `locking_free_space.cfg` | `MCCacheLocking` | `EveryCallReturns` |
| `locking_processes.cfg`, `locking_pointer.cfg` | `MCCacheLocking` | `FileExclusive`, `PointerStable` |
| `server_keys.cfg`, `server_silent.cfg` | `MCCacheServer` | `AnswerFaithful`, `StoreIsConfirmed` |
| `lifecycle_stop.cfg`, `lifecycle_fault.cfg`, `lifecycle_two.cfg` | `ServerLifecycle` | `SignalEnds`, `SignalIsClean`, `Connectable` |
| `test_leftover.cfg` | `MCTestClient` | `WakesForOwn` |

Bounds and why they are enough.

* `FileSize - DataStart` is five bytes and payloads have one to three, so a file
  holds two or three entries, `Put` meets every relation of length to space (fits,
  fits after compaction, does not fit at all), holes of every size appear before,
  between and behind live entries, and slot order and address order differ in every
  way three slots allow. `DataStart` is 2 to keep address 0 and an unset
  `offset` apart. Checksums collide in `cache_ops` and, like those of the
  32-bit code on payloads this short, not in `cache_refines`; the proofs hold for
  any modulus.
* The cache's state is finite without further bounds: runs cover call sequences of
  any length.
* `MaxSends` bounds the requests of a client. Two requests of two clients are enough
  for an overwritten message, a stale flag, a surplus token, equal ids and a second
  wait with the first one's token still there. The semaphores grow only with
  requests and server rounds, so `MaxSends` bounds them too. `ipc_two` has
  two routes whose answers are awaited, which is enough for requests that are written over
  each other and for a torn route; requests whose answers nobody awaits and silent routes
  occur in `test_interrupt`, and the theorems hold for any.
* `MaxKills` is 2: the second process dies on a file that a first death has
  already left half done, and there are enough steps before, between and after for
  every pair of functions. The data area is four bytes and the payloads have one
  and three, so a new entry always meets the space of an old one.
* `MaxSegments` is 2, so a server can make a segment while clients still use the
  one before; starts, failed starts, kills and runs of the script are not bounded.
  One signal is enough because `stop` changes nothing that a second one could
  undo. A client that has sent its messages does nothing more.
* Three threads with two calls each: one inside the body, one between the two locks
  and one at the first call, with a retry after a failed initialization.
* The requests of `server_answers` are every route with sizes right and a byte short,
  payloads of 0 and 1 bytes, of the most that fits into a request (19956) and of one
  whose response would not fit any more (20345, which `send_message` must refuse), and
  claims of one byte more than there is.
* Symmetry is used in `cache_kills` (keys) only. It is sound there: the run checks
  invariants and a step simulation, no liveness.
* `CHECK_DEADLOCK FALSE`: clients, threads and the test program stop when their bounded
  number of calls is made, and a client whose answer was taken by another waits for
  ever, which is what the code does; in `cache_kills` a behaviour ends at an access
  outside the data area.

Fairness is used for `MessageTaken` (and stated in the specification of
`ipc_clear`): weak fairness of the server's loop, which runs whenever its next
access is possible, and of a client while it holds the mutex, since nothing
between `sem_wait` and `sem_post` blocks. Nothing is assumed of who is let in by
`sem_wait`, of when callers call, or of a client that waits for a response.
`lifecycle_safe` assumes the same of a started server and of a live client inside
`send_message`; nobody has to start, connect, send, signal or die, and a dead client
takes no step. `locking_threads` assumes that a thread inside a method runs when it can;
since the number of calls is bounded no assumption about who gets a contended lock is
needed. `test_interrupt` assumes that the test program and the
server keep running, and nothing of how long a sleep takes beside the server's work.

## 4. Proofs

Every safety property of the passing runs is proved for all values of the constants.
The proof modules follow one argument: an inductive invariant, one lemma per action that
it is preserved, its invariance, and each property as a consequence. Each invariant was
checked by TLC before it was proved.

**SharedCache** (for any keys, payloads, table size, file size, checksum modulus, from
`KeysAssumption`, `BytesAssumption`, `ValuesAssumption` and `SizesAssumption`).
The properties speak of the times between two calls; `IInv` must hold in the middle of
a `Put` too. Its parts:

* `CallInv`: what the locals of the call guarantee in each phase, e.g. that the
  payload fits behind `next_offset` once the slot search begins;
* `StampInv`: an initialized process has a stamped file whose `next_offset` lies in it; an
  unstamped file has no used slot;
* `CountInv`: `entry_count` is the number of used slots, plus one while a claimed slot
  has not been filled;
* `LayoutInv`: every used slot's region is in the file; outside a compaction regions
  are disjoint and below `next_offset`, except that the entry just being written
  lies right behind it;
* `CompactInv`: in the middle of a compaction the slots already visited lie below
  `write_offset` and apart from each other, `write_offset` is the space they hold,
  and the space of all used slots is at most what lay below `next_offset` before. This is what shows that `memmove` stays inside the file even when it
  overwrites live bytes;
* `ContentInv`: each used slot has the length and checksum of `written` for its key.

Theorems: `TypeCorrect` (types only: what `memcpy` and `memmove` leave in the data area are
bytes), `CountIsExact`, `KeysAreUnique`, `LayoutIsSound` (the regions lie in the file, so
`CACHE_FILE_SIZE - next_offset` never wraps), `GetIsHonest`, `CompactionIsTight`, and
`OrderedCompactionIsSafe`, which delimits the defect of section 5: a compaction
damages nothing as long as slot order is address order.

**SharedCache implements LossyMap** (`SharedCacheRefinement`). `MapStep` says over the
cache's own variables what a step does to the map: it leaves what every `Get` answers, or
begins, disturbs, commits or aborts a `Put`, removes, or clears. One lemma per action
shows that it is a `MapStep`; what it needs of the state is `TableInv` (keys, contents,
the locals of the call, and that the bytes copied by `Put` are there when it moves
`next_offset`), not the layout of the file. From there the map is reached twice:

* `CacheIsAFingerprintMap`: over the pairs of length and checksum of the payloads, without
  any assumption. This is the theorem for the code as it is: the multiplier 33 of
  `CalculateChecksum` makes strings of two bytes collide, and `Get` cannot tell
  damaged bytes that collide from the stored ones;
* `CacheIsALossyMap` (`Spec /\ []Genuine => ImplementsLossyMap`): over the payloads
  themselves, in every behaviour without a false match. `Genuine` says of a state that no
  `Get` in it takes other bytes for the payload because their length and checksum are the
  payload's. It assumes nothing of payloads or checksum, only that this behaviour is not
  one in which damaged bytes happen to pass; that answers are lost only inside a `Put`,
  that no key changes another's and that a `Put` can be read back are what is proved.

**SharedCacheCrash** (any keys, payloads, sizes, and any number of kills in any function).
After a kill regions may overlap, so `LayoutInv` is gone. `CrashInv` keeps:

* always: types, the locals of the call, unique keys, and a stamp on every file that has
  a used slot or an initialized process (`Basics`);
* unless a process died in `InitializeCache`: `entry_count` exceeds the used slots by at
  most the kills in `Put` and `Remove` (`DriftInv`);
* unless a process died in `Put` or `InitializeCache` (`Broken`): each used slot's region
  lies below `next_offset`, and the lengths of all together are at most the space there
  (`BudgetInv`), wherever the regions are and whether or not they overlap. This is
  what takes the place of the layout: `PackInv` shows from it that the next compaction
  has room for everything it moves. A killed compaction keeps it, since it has only
  moved regions down; a killed `Put` does not, since it marks a slot as used before
  `next_offset` covers it. `StampInv`, `ContentInv` and `CopyInv` hold besides.

Theorems: `CrashInvariance`, `KeysStayUnique`, `CountDriftsByKills`, `InsideUntilBroken`,
`CrashedCacheIsAFingerprintMap` (unconditional, over fingerprints), and
`CrashedCacheIsALossyMap` (`ImplementsCrashMap`, in behaviours that are `Genuine` until the
first kill in `Put` or `InitializeCache`). The steps that are not
kills reuse the lemmas of `SharedCacheRefinement`.

**IPCChannel** (for any finite set of clients, any routes, any number of requests, from
`ChannelAssumption`). `IInv` adds to `TypeOK`, `MutexTokens` and `NoLostWakeup` what each
client relies on at its next access (`ClientInv`) and that the server reads the slot
only after some client has filled it (`ServerInv`). Theorems: `TypeCorrect`,
`MutexTokensAreCounted`, `WakeupsAreNotLost`.

**One client at a time** (`OneClientProofs`, any number of requests). `OneCaller`: there is
one client, it awaits each answer, and every route answers. All three conditions are
needed. Two clients share the mutex after the server's first round (`ipc_pairing.cfg`). A
request of a silent route is not awaited, so the next one can be copied over it while
the server reads it; TLC finds `AnswerIsOwn`, `BuffersUnshared` and `HandledOnce` violated for
one client whose routes are silent ones and saves. `SoloInv` relates the client's position
to the server's: while the client is between calls, fills the slot or reads its answer the
server is at the end of a round and no token of `data_ready` or `response_ready` is there;
while the client waits its request is announced, in the hands of the handler with the
right id, answered, or lost. It does not say where `has_message` is: the end of a round
may clear the flag of the next request (disagreement 2, section 5), and then
the client waits for ever, but nothing is mixed up. Theorems: `SoloInvariance`,
`AnswersAreOwn`, `BuffersAreUnshared`, `RequestsAreHandledOnce`.

The test program awaits nothing, so none of this holds of it (`test_hurried`).
`TestProgramIsAClient` says that it is one of the channel's clients: every behaviour of
`TestSpec` is one of `IPCChannel`'s `Spec`, so that its theorems on tokens and wakeups hold.
The theorems on `OneCaller` do not use `TestAssumption`, although the module sees it.

**ServerLifecycle** (any clients, segments, messages and signals; one server process at a
time, `OneServer`, which may fail, be killed and be started again any number of times).
With two the theorems do not hold: one server's end unlinks the name of the other's segment
(`lifecycle_two.cfg`), and one's start sets the semaphores of the other's segment to 0. That a
serving server can be found is therefore no theorem: with one server nobody else could
take its name away. `IInv` adds to `TypeOK`: the segment the server prepares or serves is the
one under the name, so that it is the one it emptied (`BoundInv`); a message in a segment that is tended has a wakeup on its way, from a
token, the server or a client about to announce it (`WakeInv`); and a server that sleeps
although `stop` has been called has a token to wake it (`StopInv`). Theorems: `TypeCorrect`,
`WakeupsSurvive`, `StopReachesSleeper` (the safety half of `StopEnds`).

**CacheLocking** (for any processes, threads, methods and number of calls, from
`LockingAssumption`). `IInv` adds to `TypeOK` and `OwnersAreInside`: a thread inside `EnsureInitialized`'s or its own
lock owns its process's mutex, and so does one whose call comes from `GetFreeSpace`,
which is still at its first lock (`HoldInv`); a process has one mapping if it is
initialized and none otherwise (`MapInv`); nobody initializes an initialized object, and
whoever is past the test found it initialized (`ReadyInv`). Theorems: `TypeCorrect`,
`OwnersStayInside` (on no path does a call end with the mutex in its hands), `FileIsMappedOnce`, `BodiesHaveMappings`, and `OneProcessIsExclusive`: with all threads in
one process, a writer is alone.

**CacheServer** (for any hashes, key length, payloads and requests, from `StringsAssumption`,
`PayloadsAssumption` and `RequestsAssumption`: a store request whose sizes agree carries
the bytes it claims). `IInv` adds to `TypeOK`: a request of an answering route has been
answered once when its handler has ended, and no request before (`ReplyInv`); the
cache works on a `Put` exactly while a request with agreeing sizes waits for it (`PutInv`);
what is stored came in a request, so that it has at most 19956 bytes (`FitInv`); and a
get finds what is stored or nothing, except for a half-done `Put` (`ViewInv`).
`FitInv` is why no response is too big and every one is sent. Theorems: `TypeCorrect`,
`AnsweredOnce`, and, under the further assumption `DistinctKeys`,
`AnswersAreFaithful` and `SavesAreTruthful`. A hash that begins with the prefix, or that
is longer than a key can be, makes `DistinctKeys` false (disagreement 12 below).

Only model-checked: `MessageTaken`, `CallsReturn`, `StopEnds`, `MutexReturns` and
`InterruptCloses`, since liveness under fairness is outside TLAPS; and that `cache_refines`
and `cache_kills` need no `Genuine`: there bytes are at most 2 and the modulus is 65536, and
short payloads do not collide. That is a fact about a fold over the bytes, whose
induction the provers cannot do, and for the bytes of the code it is false.

## 5. Where the code and its documents disagree

1. **Compaction corrupts entries** (`cache_compaction`). `CompactCache` walks the table in
   slot order, but the data lies in the order of the `Put`s. After `Put(k1)`,
   `Put(k2)`, `Put(k1)` the data of slot 0 lies behind that of slot 1; the next
   `Put` that needs room moves slot 0 to the front, over slot 1's bytes. `Get(k2)`
   then reports corruption, and the `Put` may have failed on top of it.
2. **A request can be marked as treated without being seen** (`ipc_clear`), even with a
   single client that waits for every response, because `has_message` is cleared
   after the response is posted. That client then waits for ever.
3. **Exclusive access is lost** (`ipc_exclusion.cfg`). The mutex is declared "Sémaphore pour
   l'accès exclusif" (`src/src/server/common.h:24`). It is posted by the client and again
   by the server. `MutexTokens` says exactly how much is lost: one token a round.
4. **Responses reach the wrong caller** (`ipc_pairing.cfg`). The ids are there "pour associer
   requête/réponse" (`src/src/server/common.h:39`), but they are counted per process and
   `response_ready` wakes anyone.
5. **A kill inside `Put` breaks the file** (`crash_overrun.cfg`). The cache is a "Fichier de
   cache persistant" (`src/README.md:173`) and `next_offset` the "Prochain offset libre"
   (`m_v8_shared_cache.h:33`). A process killed after `is_used = true` (line 167) and before
   line 174 leaves an entry whose bytes `next_offset` still calls free. The next `Put`
   copies over them, and the lengths of the used entries can then add up to more than
   the data area, so that `CompactCache` moves an entry past the end of the mapping.
6. **A kill inside `InitializeCache` leaves a file that looks valid**
   (`crash_initialize.cfg`). The magic number is there "Pour vérifier la validité du cache"
   (`m_v8_shared_cache.h:30`) but is stored first: a process killed before line 74 leaves
   `next_offset` 0, and the next one's first `Put` copies over header and table.
7. **The checksum accepts bytes nobody stored** (`crash_invents.cfg`). It is there "pour
   vérifier l'intégrité" (`m_v8_shared_cache.h:25`). A kill between `is_used` (line 167) and
   the checksum (line 168) leaves a new entry with checksum 0 on bytes that are 0, whose
   checksum is 0: `Get` succeeds.
8. **`entry_count` stays too high after a kill in `Remove`** (`crash_count.cfg`), the "Nombre
   d'entrées utilisées" (`m_v8_shared_cache.h:32`). Only `InitializeCache` sets it again.
   `CountDrift` says by how much it can be wrong.
9. **`GetFreeSpace` never returns** (`locking_free_space.cfg`), and no other call in its
   process after it, for all the "Mutex et sémaphores pour l'accès concurrent"
   (`src/README.md:174`): it holds `mutex_` when it calls `GetUsedSpace`. Nothing in the
   repository calls it.
10. **The mutex of the shared cache is private** (`locking_processes.cfg`). The same line 174
    speaks of a "Cache partagé" (line 171); `mutex_` is a member of the process's object
    while the file is shared: two processes write it together.
11. **A pointer outlives its lock** (`locking_pointer.cfg`). `Get` returns a pointer into the
    mapping; a concurrent `Put` can change the bytes before the caller has copied them. The
    server calls the cache from one thread and is safe.
12. **Two hashes can share an entry** (`server_keys.cfg`). "Hash des clés: Identification unique
    des entrées" (`src/README.md:175`), and the prefix `bytecode_` is there "pour le distinguer
    des graphiques IR" (`cache_server.cpp:390`). Graph keys carry no prefix: the graph whose
    hash is `bytecode_x` and the bytecode of `x` are one entry.
13. **A graph that could not be stored looks like one that was** (`server_silent.cfg`).
    `common.h:67` declares `AddFunctionIRResponse`, the "Structure pour la réponse";
    `handle_add_function_ir_graph` sends nothing on any path.
14. **Ctrl+C can be undone** (`lifecycle_stop.cfg`). "Arrêt propre avec Ctrl+C"
    (`src/README.md:164`, `server_main.cpp:17`): a `stop` after `initialize` and before
    `running = true` (line 328) clears a flag that is then set again; the loop takes the token
    for a message and runs on.
15. **Ctrl+C can end in a memory fault** (`lifecycle_fault.cfg`). `stop` posts
    `shared_data->data_ready` without asking whether `shared_data` is set: it is null while
    `create_shared_memory` runs, and unmapped behind the destructor's `munmap`.
16. **A second server takes the name away** (`lifecycle_two.cfg`). "Client ne peut pas se
    connecter: Démarrez d'abord le serveur" (`src/README.md:205`). The destructor unlinks the
    name whoever serves under it, and `restart_server.sh` removes it unasked: the other server
    runs on where no client can find it.
17. **The test program reports success too early** (`test_hurried`). It sleeps a second to
    "Attendre le traitement" (`client_test.cpp:131`) and prints "✓ Tous les tests ont réussi!"
    (`client_main.cpp:67`) also when the server has not yet taken a request and the next one
    has overwritten it.
18. **The test program leaves a token behind** (`test_leftover.cfg`). Its last test sends an
    answered request and never waits for it: the next client's wait to "Attendre la réponse"
    (`client_test.cpp:99`) returns before its own request has been worked on.

## 6. Plan

Done: `SharedCache`, `LossyMap`, `SharedCacheProofs`; `IPCChannel`, `IPCChannelProofs`;
`SharedCacheCrash`, `CrashMap`; `CacheLocking`, `CacheLockingProofs`; `CacheServer`
(with the keys and their prefix), `CacheServerProofs`; `ServerLifecycle`; `TestClient`;
`SharedCacheRefinement`, `SharedCacheCrashProofs`, `ServerLifecycleProofs` and `OneClientProofs`,
with which every safety property the passing runs check is proved.

Left, in this order:

1. the handlers over `CrashMap`: what `AnswerFaithful` and `SaveTruthful` become when the
   server is killed in a request, up to the first kill in `Put`;
2. the safety half of `MutexReturns` (that of `CallsReturn` is `OwnersStayInside`);
3. `AnswerIsOwn` for one client with silent get requests between those it awaits, which
   TLC finds true without `bytecode/save`.

## 7. Not modelled

Logging and wording; `msync` and loss of power; the graph serializer (declarations
without bodies or callers); the vendored SHA-256 (a route hash is the route itself);
`m_v8_shared_cache_improved.h` (empty); the build files; `function_name` of an entry and
the header's `padding` (never used); the payloads' contents beyond their
identity, length and checksum; the `catch` branches of the handlers; a string without
terminator. `GetEntryCount`, `GetUsedSpace` and `IsValid` change nothing: they appear in
`CacheLocking` as readers. The server's `printf` inside a signal handler is left out.

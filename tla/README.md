# A TLA+ model of kernel-kv

kernel-kv (HybridKV) is a Redis-compatible key-value store in Rust. Its `readme.md`
describes a kernel cache in front of a user-space store; what the repository
implements is the user-space part: a sharded in-memory engine with TTLs and LRU
eviction, a TCP server speaking RESP2, a synchronous client with a connection
pool, and the type definitions a kernel module would share. This directory holds
TLA+ specifications of that program, their TLC models, and TLAPS proofs.

## The parts of the system

| Part | Source | State | Who runs it | Modelled by |
|---|---|---|---|---|
| Shard | `hkv-engine/src/memory.rs` `ShardInner`, `Node` | hash map, node arena, free list, LRU links | whoever holds the shard's lock | `ShardInner` |
| Engine | `memory.rs` `MemoryEngine` | shards, `used_bytes`, `eviction_cursor` | server tasks on several threads | `MemoryEngine` |
| Sweeper | `memory.rs` `start_expirer`, `ExpirationHandle` | stop flag, thread | one background thread | `MemoryEngine` |
| Engine contract | `hkv-engine/src/engine.rs` `KVEngine` | a map with deadlines | | `KVEngine` |
| Server | `hkv-server/src/server.rs`, `main.rs` | per connection: buffer, parser | one task per connection | `Server` |
| Metrics | `hkv-server/src/metrics.rs` | atomic counters, histogram | all connection tasks | `Metrics` |
| RESP parser | `hkv-server/src/protocol.rs` | position in a half-received command | one per connection | `RespParser` |
| Pool | `hkv-client/src/pool.rs` | idle queue, total, mutex | client threads | `ConnectionPool` |
| Client, codec | `hkv-client/src/client.rs`, `resp.rs` | none beyond a connection | client threads | `ClientServer`, `Codec`, `RespReader` |
| Common types | `hkv-common/src/types.rs`, `error.rs` | values | | `EntryTypes`, `EntryState`, `CacheEntry`, `KernelAbi` |
| Kernel ABI | `hkv-common/src/ioctl.rs`, `protocol.rs` | layouts, constants | | `KernelAbi` |
| Kernel module, GUI, benchmarks | `hkv-kernel`, `hkv-gui`, `hkv-bench`, `bench_engine.rs` | placeholders, a driver | | not modelled |

A server task parses a command, calls one or two engine operations and writes the
answer. An engine operation takes the write lock of the key's shard, so operations
on one shard are serial; `used_bytes` and `eviction_cursor` are atomics changed
under different locks or under none. `set` evicts after it has dropped its lock.
The sweeper takes the shards' locks one after the other.

`PROJECT.json` lists for each part what can go wrong in it (`hazards`) and the
properties that would show it.

## Modules

### `MemoryEngine`

The engine under concurrency. Processes are client threads and the sweeper; `pc`
says where each is. A step ends where another process could see a difference: at
the lock, at an operation on an atomic, at a read of the clock.

| Code | Model |
|---|---|
| entry of a key: value, size, deadline | `entry[k]`, a record or `Absent` |
| LRU list of a shard | `older[s]`, the pairs of keys used one before the other |
| `RwLock` of a shard (always taken for writing) | `lock[s]`, its holder or `Unlocked` |
| `used_bytes`, `eviction_cursor` | `used`, `cursor` (modulo the shard count; only its masked value is used) |
| `Instant::now()` | `clock`, moved by `Tick` |
| locals of an operation | `call`, `now`, `delta`, `start`, `offset`, `res` |
| `ExpirationHandle` | `handle` |

`Invoke` starts an operation and, for all but `set`, reads the clock, as the code
does before it waits for the lock. `Get`, `Delete`, `Expire` and `Ttl` run from the
lock to the answer in one step when they change no atomic; when they remove an
entry they keep the lock for a second step, `Sub`, the `fetch_sub`. `set` is
`SetLock` (take the lock, remove an expired entry), `Sub` if it removed one, `Put`
(write), `Add` (the size difference, drop the lock), and then the eviction loop:
`Check` loads `used_bytes`, `Cursor` advances the cursor, `Scan` tries one shard,
`EvictSub` subtracts what was evicted. The sweeper is `ExpirerHead`, `ExpirerWake`,
and per shard `SweepLock`, `PurgeOne` and `Sub` for each expired entry, `PurgeDone`.
`purge_expired` first collects the expired slots and then removes them, under one
lock; the model removes them one by one in any order, which no other process can
tell apart.

`ttl` checks the deadline a second time after `is_expired` said no, with the same
`now`; that branch cannot be taken and is not in the model. The operations on
`used_bytes` and the cursor are `Relaxed`; the model interleaves them. A relaxed
load in `Check` may return an older value than the last one, but never one from
before the thread's own `fetch_add`, so it is a load the model makes at an earlier
moment.

### `ShardInner`

One shard as it is in memory: the map from keys to slots, the arena, the free list
and the links, with `lru_remove`, `lru_push_back`, `touch`, `insert_new` and
`remove_idx` as operators from a shard to the shard after the call, and an action
for what each caller does under the lock. Slots are numbered from 1 instead of 0.
A history variable records the order of last use as pairs of keys; it is the same
abstraction that `MemoryEngine` uses (`LruOrder`), which is what makes the two
models fit: `LinksFollowUse` says that following the links is following that order.

### `KVEngine`

What the trait promises concurrent callers: one map, every call takes effect
atomically between its invocation and its return and judges expiry by an instant
within the call, an expired entry may vanish at any time, and an engine with a
budget may forget entries, but only while a `set` that took effect has not
returned. `MemoryEngine` implements it under the mapping of `MemoryEngine!KV`.

### `ConnectionPool`

The client's pool, shared by threads. A step is one critical section of the mutex
or one operation on a socket. `acquire` is `PopIdle`, or `PopNone` followed by
`Reserve` or `Exhausted`, and after `Reserve` `Connect`, or `ConnectFail` and
`ReleaseSlot`. `exec` is `Send` and `Read`, or `ExecFail` at either. `drop` is
`Return`, or `Discard` and `Close`: the slot is given up under the mutex and the
socket closed afterwards, when the variable that holds it goes out of scope. Of the
traffic on a socket the model keeps the number of answers not yet read (`unread`);
the server and the network are external and may let any command fail, before or
after the server received it. `MCConnectionPool` adds an observer that remembers,
for each thread in `acquire`, whether the pool was exhausted since it began.

### `Server`, `ClientServer`

`Server` has one process per connection, the task of `handle_connection_with_metrics`,
and uses `KVEngine` as its engine, the contract that `MemoryEngine` implements,
without eviction because `main.rs` configures no budget.

| Code | Model |
|---|---|
| bytes in the socket, in the buffer, taken by the parser | `sent[c]` with the counts `arrived[c]` and `parsed[c]`, in whole commands (bytes are `RespParser`'s) |
| where the task is | `pc[c]`: "read", "parse", "call", "wait", "respond", "write", "end", "closed" |
| a call of the engine, synchronous on the task's thread | `Call` and `Return`, with the engine's own step between them; tasks on other threads run meanwhile |
| `removed` of `handle_del`, the response | `removed[c]`, `reply[c]` |
| responses on the socket | `answers[c]`, each with the engine's answer behind it |
| the `Metrics` calls | `metrics`, four counters (their atomics are `Metrics`') |

`CallsOf` is `dispatch_command` with the handlers' checks of their arguments: the
sequence of engine calls of a command, two for `SET EX`, one per key for `DEL`, none
for `PING`, `INFO` and whatever is refused. Other connections run between two of
them. A client may pipeline commands, stop sending, or send bytes that are no
command; a read or a write may fail at any time. Commands are upper case: the code
compares names and the `EX` option without regard to case and the model does not
tell cases apart.

`ClientServer` adds the methods of `KVClient`: `CommandOf` is the command that a
method sends, `ResultOf` what it makes of the response. Durations are in ticks, of
which a second has `TicksPerSec`, so that `as_secs` drops a fraction on both sides.

### `Metrics`

Every field is an `AtomicU64` used with `Relaxed`. `mem` holds the fields. A call
puts its `fetch_add`s into the task's `todo`, and each takes effect in a step of its
own, in any order except that a task's operations on one field keep theirs. Socket
writes separate a request's start from its end. `update_max` is `LoadMax` and then
`KeepMax` or `CompareExchange`. A snapshot (`INFO`) loads the fields one by one.
`started`, `erred`, `finished`, `abandoned`, `measured` and `maxed` record what really
happened, and `own` what each task has done. `PercentileUs` is `percentile_us` on the
fields, given a rank. The code computes the rank in `f64`. For the 50th, 90th and 99th
percentile that agrees with the exact rounding up. 99.9 / 100.0 is a little above
0.999, so for the 99.9th the rank of a multiple of 1000 samples comes out one higher
unless the product is rounded back; `Ranks` has both. This account of the rounding is
for at most 10^9 samples (`RanksKnown`), where the error is far from the next integer.

### `Codec`, `RespParser`, `RespReader`

`Codec` has the bytes: numbers as both programs write and parse them, saturating at
the width `UMax` or `IMax`; `encode_command`; the responses. `RespParser` is the
server's parser, fed by a socket that delivers the encoded commands in pieces of any
size, possibly followed by bytes that are no command; an action is one turn of the
loop in `parse`. Where the parser fails, the action still removes from the buffer what
the code has taken before it returns. `RespReader` is the client's `read_response`, a
recursive operator on the bytes still to come, applied to a stream that may end
anywhere. The server sends no arrays; they are encoded as commands are, since
`read_response` accepts them.

### `EntryTypes`, `EntryState`, `CacheEntry`

`EntryTypes` has the functions of `Key`, `Value`, `Version`, `Ttl`, `EntryFlags`,
`EntryMetadata` and `Entry` in `types.rs`, with integers that wrap at `UMax`.
`CacheEntry` is a caller that makes any sequence of calls; its state and the properties
are in `EntryState`. `Ttl::from_duration` and `Entry::new` are calls of their own, each
with its own reading of the clock. That clock, `SystemTime::now()`, is `wall`; `time` is
the time that passes. Both advance with `Tick`, and `SetClock` sets `wall` to anything, so that what the code computes
from the one can be held against the other. `asked`, `raised`, `seen` and `writes`
remember what was asked for, and when.

### `KernelAbi`

The entries of `types.rs` and the messages of `hkv-common/src/protocol.rs`, field by
field, with the rules by which `repr(C)` places fields; the commands of `ioctl.rs`; the
codes of `error.rs`. They are pure definitions: `hkv-kernel` is a stub and nothing in
the repository sends a message. `Drawn` is the other party to the comparison, the
drawings of the layouts in the documentation of the two files, by which the kernel's
side would be written.

### `ByteTotals`, `LruOrder`

The sum of a function's values, defined as the number of its bytes so that the
facts about finite sets apply to it, and orders of last use.

## Runs

| Run | Configuration | Shows |
|---|---|---|
| `engine_safety` | 2 threads, 2 keys in 2 shards, values of 0 and 2 bytes, keys of 1, budget 2, TTLs 0 and 1, clock up to 2; see Focus | `used_bytes` is exact, locks are held only inside critical sections, the budget is kept and exceeded by no more than the sets under way wrote, and the engine implements `KVEngine` |
| `engine_progress` | 2 threads with roles, 1 key, 2 shards, TTL 1, clock up to 1, budget 1, fairness | operations return, expired entries are swept, `stop` joins |
| `engine_over_eviction` | 2 threads, 2 keys in 2 shards, budget 2 | expected violation: with concurrent sets the loop does not evict only over budget |
| `pool_ownership` | 3 threads, 4 sockets, `max_total` 2, `max_idle` 1 | slots are exact, a connection has one owner, a command reads its own answer, sockets are bounded |
| `pool_exhausted` | the same | expected violation: `PoolExhausted` without exhaustion |
| `server_safety` | 2 connections, three workloads, 2 ticks a second, clock up to 2 | the client's result of a method is what the engine answered, other clients and failures notwithstanding; deletes count a stored value once; a key written only by SET EX has a deadline; a task reads only when it has answered all; metrics agree with the answers |
| `server_progress` | 2 connections of 2 commands, SET EX or malformed, clock up to 1, fairness | every command is answered or its connection ends |
| `server_set_expires` | 2 connections, SET and SET EX of one key | expected violation: a plain SET whose value expires |
| `metrics` | 2 tasks, 3 requests, 3 latencies, 2 bounds; see Focus | counters and maximum exact up to operations under way, the gauge too until a write fails; percentiles as by sorting; INFO contains its own connection's earlier requests |
| `metrics_inflight` | the same | expected violation: the gauge counts a request that no task has |
| `sequential` | a shard with 4 keys, 1 value, TTL 1, clock up to 1; up to 2 commands and a frame that is none, in all divisions; up to 2 responses, or any integer of 12 bits, cut anywhere; an entry with a key of up to 2 bytes, a value of up to 1, 2-bit counters, TTLs 0 and 2, time and wall clock up to 2 | map, arena, free list and links stay consistent; the division into reads cannot be noticed, what is no command is refused after the commands before it, the client stays in step, a response cut off is an error; an entry is what the calls made of it, versions tell a stale value, deadlines are kept where the clock is not moved; layouts and codes are as documented |
| `entry_clock` | an entry with a key and a value of up to 1 byte, TTL 2, 3-bit counters, time and wall clock up to 3 | expected violation: an entry that expires because the clock was set |

Some runs put several small instances into one. `MCMemoryEngine!Focus` keeps a
behaviour to one of two situations: two keys compete for space while time stands
still, or one key with a small value is used and swept while time passes; stopping the
sweeper is left to `engine_progress`. `MCMemoryEngine!Roles` lets one thread write small
values and look up, the other write large ones and set deadlines. The
`Workloads` of `MCClientServer` are every client method once, stores and deletes that
race, and pipelined traffic with errors. `MCMetrics!Focus` allows one INFO, with two
requests of one latency, or none, with at most one error. `MCSequential` joins the
components that one thread uses at a time, the shard, the parser, the client's reader,
an entry and the kernel ABI; they share no state, and each is explored while the others
are at rest.

Bounds. The budget of 2 bytes holds two small entries, not a small and a large one,
and not a large one alone, so that eviction of the newest entry itself, of several
entries in one loop, and rounds over empty shards all happen. A TTL of 0 makes an
entry expire at once, which puts lazy expiry and the sweep into the competition for
space without a moving clock; the clock moves where there is one key, because
contention is about one. Two threads and the sweeper are
enough for every pair of operations to interleave. Four keys in a shard give the
list a head, a tail and two inner nodes. Three threads and two slots make the pool
run out; one idle place makes it full; four sockets are one more than can be open
when a thread connects.

Two connections race every pair of engine calls; two commands on each are what it
takes to pipeline, and for a delete to follow a store on its own connection. Three
requests of two tasks let an update of the maximum be overtaken and retried, and put
a latency below, at and above the bounds of the histogram. The parser's and the
codec's inputs have arguments that are empty, that hold CR LF, that look like a
header, and that have lengths and counts of two digits. A version of 2 bits wraps, and
the clock and a TTL of 2 add up to sums below, at and above the 2-bit word. A sample
count of 1000, where the rank in `f64` has its choice, is out of reach of the `metrics`
run; it is covered by the proof.

Symmetry under permutation of threads, sockets, connections or tasks is used in runs
that check safety only.

Fairness (`MemoryEngine!Fairness`). Threads are scheduled: weak fairness for steps
that wait for nothing. `parking_lot` locks are eventually fair: strong fairness for
steps that take a lock. Clients need not call, the clock need not advance and the
handle need not be stopped. `OperationsReturn` excepts a set while other threads add
bytes for ever: nothing in `evict_if_needed` bounds the number of rounds it makes
then.

Fairness (`Server!Fairness`). The runtime polls every task that can go on, and the
engine answers every call, a plain function that runs on the task's thread and waits
for nothing but locks, which `engine_progress` is about: weak fairness for the steps of
a task and of the engine on its behalf. Reads and writes may fail
but need not, clients need not send, and a client is assumed to take its responses
off the socket, so that `write_all` does not wait for ever.

### Where the code and its documentation disagree

`engine_over_eviction`: `memory.rs:405` says "Evicts entries until within the
configured byte budget." The load of `used_bytes` and the eviction are separate
steps. A set that saw the budget exceeded evicts an entry after another set has
brought the engine within its budget.

`pool_exhausted`: `client.rs:60` says of `PoolExhausted` "Pool is at capacity and no
idle connections are available." `acquire` looks for an idle connection and for a
slot in two critical sections. Two callers find nothing idle, a connection is
returned, the first of them takes the last slot, and the second is refused while
that connection is idle. At no moment of its call was the pool at capacity with
nothing idle, so the answer is not merely late. It takes three threads.

`server_set_expires`: `client.rs:173` says of `KVClient::set` "Sets a value for a key
without expiration." `SET EX` is a `set` and an `expire`, two calls of the engine
(`server.rs:142`). A plain SET of another connection between them stores its value,
is answered OK, and the value gets the deadline of the SET EX.

`metrics_inflight`: `metrics.rs:33` says "Current in-flight requests." A failed write
returns from the handler (`server.rs:51`) without `record_request_end`, and the gauge
stays one too high. `InflightExact` says that nothing else moves it away from the truth.

`entry_clock`: `types.rs:275` says of `Ttl` "Uses nanoseconds since CLOCK_MONOTONIC (not
wall clock) to avoid issues with time adjustments (NTP, DST, timezone changes)." The code
reads `SystemTime::now()` (`types.rs:294`), and when that clock is set forward an entry
expires before its time. `DeadlineKept` says what holds when it is not moved.

Two more disagreements have no run.

* `metrics.rs:141` says "Returns the fraction of requests that produced an error
  response." A snapshot loads `requests_total` before `errors_total`; a request that
  starts and fails in between is in the one and not in the other, so the rate can be
  above 1.
* `hkv-common/src/protocol.rs:15` says "Response types return `STATUS_OK` on success or
  `HkvError::code()` on failure." `BatchPromoteResponse` (line 318) has no field for a
  status, in the code and in its drawing.

## Proofs

TLC checks the instances above. The following hold for all values of the constants
that the named `ASSUME`s admit.

| Module | Holds for | Assumptions, and where the code gives them |
|---|---|---|
| `MemoryEngineProofs`, `MemoryEngineBytes` | any threads, keys, shards, distribution of keys over shards, sizes, budget and TTLs | finite sets of threads and keys, at least one shard, a budget that a `usize` holds, sentinels that are no values (`ThreadAssumption` to `SentinelAssumption`) |
| `ShardInnerProofs` | any finite set of keys, any values and TTLs | `None` is no slot |
| `ConnectionPoolProofs` | any threads, sockets, `max_total` and `max_idle` | finite sets |
| `MetricsProofs` | any tasks, latencies and bounds, up to 10^9 requests | finite sets of tasks and of latencies (`u64`), bounds in ascending order (which `metrics.rs:83` requires); `RanksKnown`, up to which the rounding of the rank is known |
| `ServerProofs` | any connections, commands, keys, values, pipelines and ticks per second | finite set of connections; commands are sequences of strings or malformed; `Keys` has the keys they name; `Methods` has methods of `KVClient`, whose TTLs are among the numerals |
| `CacheEntryProofs` | any bytes, buffer sizes, durations, width of the word, bound on the time and settings of the clock | 0 is a byte (buffers are filled with it); the clock stays below `u64::MAX` |

All safety properties that the passing runs check are proved, except those of the wire
formats and `AbiAsDocumented`. The inductive invariants behind them:

* Types and locks (`TypeCorrect`, `LocksHeldInside` in `MemoryEngineProofs`). The lock
  discipline is inductive given the types: a step takes, keeps or drops the lock of
  the process's home shard exactly as it enters, stays in or leaves a critical section
  (`TakeLock`, `KeepLock`, `DropLock`).
* The engine implements the map (`EngineImplementsKV`). `Mapped` says that no process
  has read a later instant than the clock shows (`ReadBefore`), that a call has its
  answer exactly from the step on that took effect (`Settled`), and that only an engine
  with a budget evicts (`EvictsBounded`). Under it every step is one of `KVEngine`, or
  leaves the map's view alone (`EngineStep`): one lemma per operation says which, and
  `StoreView`, `PhaseView` and `SinceView` are the mapping. A lookup that finds an
  expired entry, an eviction and a sweep are the map's steps that forget an entry.
* `used_bytes` (`BytesExact` in `MemoryEngineBytes`). The bytes of a key are counted in
  `used_bytes` or still to be added by the one thread that holds its shard's lock at
  "add"; the bytes a process removed are owed by it. Each step leaves both accounts
  alone (`QuietBytes`, `PutBytes`), moves an entry from one to the other
  (`RemoveBytes`), or changes one together with `used_bytes` (`AddBytes`, `PayBytes`).
  That at most one thread is writing a key is where the lock discipline is needed.
* The budget (`BudgetIsWatched`, `BudgetKept`). `WithinBudget` speaks of idle engines
  only and is not inductive. `BudgetWatched` is: while more than the budget is counted
  some set is about to look at `used_bytes` again or is in a round in which no shard it
  has passed counts anything. Only `Add` raises what is counted, and whoever adds goes
  on to look; a round that visited every shard (`RoundCovers`) and still watches has
  found that nothing is counted.
* The overshoot (`OvershootIsBounded`). `BoundedOvershoot` is not inductive either: a
  set may return while other sets' bytes exceed the budget, and one set's bytes may be
  removed and written again by another. `ExcessAnswered` says that the keys fall into
  some that are within the budget together and others that count nothing or have a set
  of their own inside `evict_if_needed` that wrote no less (`Answers`) and whose round
  has not passed their shard. A set that leaves the loop either saw `used_bytes` within
  the budget, and then all keys are of the first kind, or has passed every shard and
  answers for nothing any more.
* The shard (`ShardTyped`, `MapAndArenaAgree`, `FreeListKept`, `ArenaStaysBounded`,
  `LinksAreLru` in `ShardInnerProofs`). `touch` unlinks a slot and links it again, so
  between its two calls a key of the map is not in the list. The lemmas about
  `lru_remove` and `lru_push_back` (`UnlinkChain`, `LinkChain`) are therefore about
  `Chain`: the links of a shard lead through a given set of slots in a given order of
  slots. The invariant `Sound` says that map, arena and free list agree and that the
  links are a chain of all live slots in the order of their keys (`SlotOrder`). The
  arena grows only when no slot is free; every slot then belongs to a key of its own
  (`FullArena`).
* The pool (`PoolTyped`, `ConnectionsOwned`, `AnswersOwned`, `SlotsKept`,
  `SocketsWithinLimit` in `ConnectionPoolProofs`). Ownership and answers are inductive
  together with `ReturnsClean`: a connection that `drop` would return has had its
  answer read. `SlotsAccounted` is inductive given ownership; the bound on sockets
  follows from the two by counting.
* Counters (`MetricsTyped`, `CountersAreExact`, `InflightIsExact`, `MaxIsExact` in
  `MetricsProofs`). They are inductive together with two facts. `Shape` says which
  operations a task can have in `todo` given where it is, so that no operation is added
  while an equal one waits. `MaxKnown` says that the value `update_max` has loaded is
  not above the maximum, so that a task may skip its update when that value is large
  enough. `InflightExact` speaks of runs without a failed write and is not inductive;
  `InflightOwed` counts the requests abandoned by failed writes with those under way.
  `TypeOK` includes that no field becomes negative, which for the gauge follows from it.
* Percentiles (`PercentilesAreRight`). `Histogram` says of every bucket that the
  buckets up to it, with the tasks that owe one of these an operation, count the
  latencies measured that belong to them, and that a task owes at most one. With
  nothing owed the cumulative counts are those of the measured latencies. The bucket
  that `percentile_us` stops at is then the one that the nearest-rank latency was put
  into (`PercentileFound`), because `Bucket` is monotone when the bounds are sorted and
  a rank that the code can compute is the nearest rank or, for the 99.9th percentile of
  a multiple of 1000 samples, the one after it (`RankFound`).
* `INFO` (`InfoCountsOwn`, an action property). `OwnSeen` says of each task and field
  that the task's own operations are in the field or still owed to it, and that those
  before the load are in what the load saw; for the samples, that some division of them
  over the buckets is so accounted for. Other tasks only add.
* Tasks and connections (`ServerTyped`, `AnsweredBeforeRead` in `ServerProofs`). They
  follow from `Steady`, which says for every place in the task's loop how many commands
  are parsed and not yet answered.
* SET EX (`SetExLeavesDeadline`). Between its two calls a SET EX has stored a value
  without a deadline. `Indebted` adds that every value without a deadline is owed one by
  a handler whose `expire` is still to come, or belongs to a key of a plain SET
  (`Debt`), and that a handler's `set` is always followed by its `expire` unless it is a
  plain SET's (`Handles`).
* Metrics and answers (`MetricsAgree`). `MetricsMatchAnswers` is inductive given
  `Steady`: each counter is a sum over connections, a step changes what one connection
  contributes (`OneMoves`, `OneCounts`), and `record_*` is called where it does.
* What a client learns (`ClientLearnsAnswer`). `Told` follows a command through its
  task: the call under way belongs to the command (`Handling`), the engine's answer is
  one that the operation can give, and the response made of it decodes to what the
  answer means (`Responding`, `Answered`). The case analysis over commands and answers
  is `Agrees`.
* Deletes (`DeletesCountOnce`). `NoDoubleDelete` is not inductive: it says nothing of
  the map. `Conserved` does: the keys claimed by responses, counted by handlers,
  removed and not yet counted, live in the map, or on their way there are together no
  more than the SETs parsed. A step moves a key from one of these to another, drops
  it, or parses a SET.
* Entries (`EntriesAsAsked`, `VersionsTell`, `DeadlinesKept` in `CacheEntryProofs`).
  The invariant says that the buffers were made of the bytes asked for, that each flag
  is as its last call left it, and that the version is as far from the one seen as
  there were writes, around the end of the word at most once. A deadline is
  the time it is due less what the clock was behind when it was read, if that fits the
  word (`Stands`), and so is the time of creation (`Made`). `SameBytes`: buffers
  compare equal exactly if they were made of the same bytes, although the rest of a
  buffer is filled with zeros. `FlagsApart`: a flag is set and cleared without the
  others.

`ByteTotalsProofs` has the facts about sums that several of these rest on. In the
proof modules a leaf goes to Zenon unless it names another prover.

Only model-checked:

* Liveness: `OperationsReturn`, `ExpiredPurged`, `StopJoins`, `AllAnswered`. Fairness
  and `ENABLED` are out of the prover's reach.
* The wire formats: `ChunkingInvisible`, `RefusesGarbage`, `ReadsInStep`,
  `CutIsNoValue`. They say that what one recursive function over bytes writes another
  reads (decimal numbers, nested responses), which takes induction over data.
* `AbiAsDocumented`: the layouts and tables are all given, so TLC's evaluation of them
  is the whole statement.
* The violations, which are counterexamples.

## Not modelled

* Engine: hashing (any distribution of keys over shards is allowed instead),
  allocation failure, the shared buffers of keys and values (`Arc`),
  `normalize_shard_count`'s rounding (any positive shard count is allowed), and the
  width of `used_bytes` (`ByteAccounting` shows that it is never negative).
* Panics and overflow that take values near the end of the machine's range: a time
  to live that no `Instant` can hold (`memory.rs:578`), an announced length near
  `usize::MAX` (`server/src/protocol.rs:90`), 2^64 eviction rounds (`memory.rs:425`), a
  remaining time above `i64::MAX` seconds (`server.rs:201`). A sum of clock and duration
  that does not fit 64 bits (`types.rs:298`) wraps in the model as in the code, but no
  property says what it should mean.
* Server: the case of command names, the wording of errors and of `INFO`, socket
  options, the listener's own errors, and a client that never reads.
* Metrics: `qps`, `average_us`, `error_rate` and the uptime, which divide and print what
  is modelled; wrapping of 64-bit counters; percentiles of a snapshot that is taken while
  updates are under way.
* Client: resolving addresses, socket timeouts as such (a command may fail at any
  time), configuration.
* Common types: hashing and formatting, and the ordering of versions, which no code
  uses. An exchange of messages with the kernel, which no code performs. The `_IOR`/`_IOW` encoding of ioctl numbers
  exists in comments only.
* `hkv-kernel`, `hkv-gui` and `hkv-bench` are placeholders; `bench_engine.rs` times
  engine calls in a loop.

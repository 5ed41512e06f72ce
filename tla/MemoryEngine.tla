---------------------------- MODULE MemoryEngine ----------------------------
(***************************************************************************)
(* The sharded in-memory engine of hkv-engine/src/memory.rs under           *)
(* concurrency: client threads that call the KVEngine operations, the       *)
(* background expirer, one write lock per shard, and the two atomics that   *)
(* no lock protects (used_bytes and eviction_cursor).                       *)
(*                                                                         *)
(* A step of a process ends where another process can see a difference: at  *)
(* a lock, at an atomic operation, at a read of the clock.  The content of  *)
(* a shard is abstract here (what is stored under a key, and the order of   *)
(* last use); module ShardInner models the arena, map and links behind it.  *)
(***************************************************************************)
EXTENDS Integers, FiniteSets, ByteTotals, LruOrder

CONSTANTS
  Threads,    \* client threads calling the engine
  Expirer,    \* the background sweeper thread
  Keys,
  Values,
  KeyLen,     \* [Keys -> Nat]
  ValueLen,   \* [Values -> Nat]
  NumShards,  \* the normalised (power of two) shard count
  ShardOf,    \* [Keys -> Shards], the hash of a key masked to a shard
  MaxBytes,   \* the byte budget given to with_shard_count_and_capacity
  UsizeMax,   \* usize::MAX, the budget that means "no limit"
  Ttls,       \* the durations passed to expire
  MaxTime,    \* bound on the clock
  Absent,     \* no entry under the key
  None,       \* Option::None
  Unlocked    \* no thread holds the lock

Shards == 0 .. NumShards - 1
Procs  == Threads \cup {Expirer}

\* The part of a Node that is not a link: the value, the accounted byte size
\* and the deadline.
Entry == [value : Values, size : Nat, expires_at : Nat \cup {None}]

ASSUME ThreadAssumption ==
  /\ IsFiniteSet(Threads)
  /\ Expirer \notin Threads
  /\ Unlocked \notin Procs

ASSUME KeyAssumption ==
  /\ IsFiniteSet(Keys)
  /\ KeyLen \in [Keys -> Nat]
  /\ ValueLen \in [Values -> Nat]

ASSUME ShardAssumption ==
  /\ NumShards \in Nat \ {0}
  /\ ShardOf \in [Keys -> Shards]

ASSUME NumberAssumption ==
  /\ UsizeMax \in Nat
  /\ MaxBytes \in 0 .. UsizeMax
  /\ Ttls \subseteq Nat
  /\ MaxTime \in Nat

ASSUME SentinelAssumption ==
  /\ None \notin Nat
  /\ Absent \notin Entry
  /\ Absent \notin [value : Values, expires_at : Nat \cup {None}]

VARIABLES
  entry,   \* what each key's shard holds under it
  older,   \* the order of last use of each shard's keys
  lock,    \* who holds each shard's write lock
  used,    \* used_bytes
  cursor,  \* eviction_cursor, modulo the shard count
  clock,   \* Instant::now()
  pc,      \* where each process is
  call,    \* the operation a client thread is executing
  now,     \* the instant a process read before taking the lock
  delta,   \* bytes a process is about to add to or subtract from used
  start,   \* evict_if_needed: the cursor value it fetched
  offset,  \* evict_if_needed, purge_expired: shards already visited
  res,     \* what the operation will return
  handle   \* the ExpirationHandle: "running", "stopping" or "joined"

vars == <<entry, older, lock, used, cursor, clock, pc, call, now, delta,
          start, offset, res, handle>>

-----------------------------------------------------------------------------
(* State.                                                                  *)

Calls == [op : {"get", "delete", "ttl"}, key : Keys]
           \cup [op : {"set"}, key : Keys, value : Values]
           \cup [op : {"expire"}, key : Keys, ttl : Ttls]

Results == {<<"None">>, <<"Ok">>, <<"NotFound">>, <<"true">>, <<"false">>,
            <<"Missing">>, <<"NoExpiry">>}
             \cup ({"Value"} \X Values) \cup ({"ExpiresIn"} \X Nat)

NoCall   == [op |-> "none"]
NoResult == <<>>

ClientPc  == {"idle", "lock", "sub", "put", "add", "check", "cursor", "scan",
              "evicted", "return"}
SetPc     == {"put", "add", "check", "cursor", "scan", "evicted"}
HoldingPc == {"sub", "put", "add", "purge"}
ExpirerPc == {"head", "sleep", "sweep", "purge", "sub", "stopped"}

Live(s) == {k \in Keys : ShardOf[k] = s /\ entry[k] # Absent}

\* MemoryEngine::entry_size
EntrySize(k, v) == KeyLen[k] + ValueLen[v]

\* Mutant of NewEntry: an overwritten entry keeps its deadline.
NewEntryKeepsDeadline(k, v) ==
  [value |-> v, size |-> EntrySize(k, v),
   expires_at |-> IF entry[k] = Absent THEN None ELSE entry[k].expires_at]

\* What set stores: a fresh size, no deadline.
NewEntry(k, v) == [value |-> v, size |-> EntrySize(k, v), expires_at |-> None]

\* Mutant of OldSize: an overwrite is counted as if it were an insert.
OldSizeIgnored(k) == 0

\* The bytes that set replaces.
OldSize(k) == IF entry[k] = Absent THEN 0 ELSE entry[k].size

\* Node::is_expired at the instant n, of the entry under k
IsExpired(k, n) == /\ entry[k].expires_at # None
                   /\ n >= entry[k].expires_at

\* An entry is found under k, expired or not at the instant n.
FoundExpired(k, n) == entry[k] # Absent /\ IsExpired(k, n)
FoundFresh(k, n)   == entry[k] # Absent /\ ~IsExpired(k, n)

\* The shard whose lock a process takes or holds.
HomeShard(p) == IF p = Expirer THEN offset[p] ELSE ShardOf[call[p].key]

Init ==
  /\ entry  = [k \in Keys |-> Absent]
  /\ older  = [s \in Shards |-> {}]
  /\ lock   = [s \in Shards |-> Unlocked]
  /\ used   = 0
  /\ cursor = 0
  /\ clock  = 0
  /\ pc     = [p \in Procs |-> IF p = Expirer THEN "head" ELSE "idle"]
  /\ call   = [t \in Threads |-> NoCall]
  /\ now    = [p \in Procs |-> 0]
  /\ delta  = [p \in Procs |-> 0]
  /\ start  = [t \in Threads |-> 0]
  /\ offset = [p \in Procs |-> 0]
  /\ res    = [t \in Threads |-> NoResult]
  /\ handle = "running"

-----------------------------------------------------------------------------
(* Operations on a shard, under its lock.                                  *)

\* ShardInner::remove_idx: the entry leaves the map and the LRU list.
Remove(k) ==
  /\ entry' = [entry EXCEPT ![k] = Absent]
  /\ older' = [older EXCEPT ![ShardOf[k]] = Without(@, k)]

\* ShardInner::touch, or insert_new's push to the tail: k becomes the newest.
MakeNewest(k) ==
  older' = [older EXCEPT ![ShardOf[k]] = WithNewest(@, Live(ShardOf[k]), k)]

\* Mutant of Acquire: the guard is dropped as soon as it is taken.
AcquireAndForget(p, s) == lock[s] = Unlocked /\ UNCHANGED lock

\* A process that found the lock free takes it.
Acquire(p, s) == /\ lock[s] = Unlocked
                 /\ lock' = [lock EXCEPT ![s] = p]

\* An operation finishes under the lock in the step that took it: the guard
\* is dropped on return, with nothing for another process to see in between.
AcquireAndRelease(s) == lock[s] = Unlocked /\ UNCHANGED lock

Answer(t, r) == res' = [res EXCEPT ![t] = r]
Goto(p, l)   == pc' = [pc EXCEPT ![p] = l]

\* get, delete, expire and ttl on a key the map does not hold.
AnswerMissing(t, r) ==
  /\ AcquireAndRelease(ShardOf[call[t].key])
  /\ entry[call[t].key] = Absent
  /\ Answer(t, r)
  /\ Goto(t, "return")
  /\ UNCHANGED <<entry, older, delta>>

\* get, delete, expire and ttl remove an entry and keep the lock until its
\* bytes are subtracted.
AnswerRemoving(t, r) ==
  LET k == call[t].key IN
  /\ Acquire(t, ShardOf[k])
  /\ Remove(k)
  /\ delta' = [delta EXCEPT ![t] = entry[k].size]
  /\ Answer(t, r)
  /\ Goto(t, "sub")

-----------------------------------------------------------------------------
(* The KVEngine operations, as steps of a client thread t.                 *)

\* A client calls an operation.  Every operation but set reads the clock
\* before it asks for the lock.
Invoke(t, c) ==
  /\ pc[t] = "idle"
  /\ call' = [call EXCEPT ![t] = c]
  /\ now' = IF c.op = "set" THEN now ELSE [now EXCEPT ![t] = clock]
  /\ Goto(t, "lock")
  /\ UNCHANGED <<entry, older, lock, used, cursor, clock, delta, start,
                 offset, res, handle>>

\* The operation returns to its caller and its locals die.
Return(t) ==
  /\ pc[t] = "return"
  /\ call'   = [call EXCEPT ![t] = NoCall]
  /\ now'    = [now EXCEPT ![t] = 0]
  /\ delta'  = [delta EXCEPT ![t] = 0]
  /\ start'  = [start EXCEPT ![t] = 0]
  /\ offset' = [offset EXCEPT ![t] = 0]
  /\ Answer(t, NoResult)
  /\ Goto(t, "idle")
  /\ UNCHANGED <<entry, older, lock, used, cursor, clock, handle>>

\* MemoryEngine::get: a hit moves the entry to the LRU tail.
Get(t) ==
  LET k == call[t].key IN
  /\ pc[t] = "lock" /\ call[t].op = "get"
  /\ \/ AnswerMissing(t, <<"None">>)
     \/ FoundExpired(k, now[t]) /\ AnswerRemoving(t, <<"None">>)
     \/ /\ FoundFresh(k, now[t])
        /\ AcquireAndRelease(ShardOf[k])
        /\ MakeNewest(k)
        /\ Answer(t, <<"Value", entry[k].value>>)
        /\ Goto(t, "return")
        /\ UNCHANGED <<entry, delta>>
  /\ UNCHANGED <<used, cursor, clock, call, now, start, offset, handle>>

\* MemoryEngine::delete: an expired entry is removed but reported missing.
Delete(t) ==
  LET k == call[t].key IN
  /\ pc[t] = "lock" /\ call[t].op = "delete"
  /\ \/ AnswerMissing(t, <<"false">>)
     \/ FoundExpired(k, now[t]) /\ AnswerRemoving(t, <<"false">>)
     \/ FoundFresh(k, now[t]) /\ AnswerRemoving(t, <<"true">>)
  /\ UNCHANGED <<used, cursor, clock, call, now, start, offset, handle>>

\* MemoryEngine::expire: the deadline counts from the instant read before
\* the lock; the LRU order is left alone.
Expire(t) ==
  LET k == call[t].key IN
  /\ pc[t] = "lock" /\ call[t].op = "expire"
  /\ \/ AnswerMissing(t, <<"NotFound">>)
     \/ FoundExpired(k, now[t]) /\ AnswerRemoving(t, <<"NotFound">>)
     \/ /\ FoundFresh(k, now[t])
        /\ AcquireAndRelease(ShardOf[k])
        /\ entry' = [entry EXCEPT ![k].expires_at = now[t] + call[t].ttl]
        /\ Answer(t, <<"Ok">>)
        /\ Goto(t, "return")
        /\ UNCHANGED <<older, delta>>
  /\ UNCHANGED <<used, cursor, clock, call, now, start, offset, handle>>

\* MemoryEngine::ttl
Ttl(t) ==
  LET k == call[t].key IN
  /\ pc[t] = "lock" /\ call[t].op = "ttl"
  /\ \/ AnswerMissing(t, <<"Missing">>)
     \/ FoundExpired(k, now[t]) /\ AnswerRemoving(t, <<"Missing">>)
     \/ /\ FoundFresh(k, now[t])
        /\ AcquireAndRelease(ShardOf[k])
        /\ Answer(t, IF entry[k].expires_at = None
                     THEN <<"NoExpiry">>
                     ELSE <<"ExpiresIn", entry[k].expires_at - now[t]>>)
        /\ Goto(t, "return")
        /\ UNCHANGED <<entry, older, delta>>
  /\ UNCHANGED <<used, cursor, clock, call, now, start, offset, handle>>

\* MemoryEngine::set takes the lock and removes an entry that is expired now.
SetLock(t) ==
  LET k == call[t].key IN
  /\ pc[t] = "lock" /\ call[t].op = "set"
  /\ Acquire(t, ShardOf[k])
  /\ \/ /\ FoundExpired(k, clock)
        /\ Remove(k)
        /\ delta' = [delta EXCEPT ![t] = entry[k].size]
        /\ Goto(t, "sub")
     \/ /\ ~FoundExpired(k, clock)
        /\ Goto(t, "put")
        /\ UNCHANGED <<entry, older, delta>>
  /\ UNCHANGED <<used, cursor, clock, call, now, start, offset, res, handle>>

\* MemoryEngine::set replaces or inserts the entry: no TTL, newest in its
\* shard.  The size difference is still to be added to used_bytes.
Put(t) ==
  LET k == call[t].key
      v == call[t].value
  IN
  /\ pc[t] = "put"
  /\ entry' = [entry EXCEPT ![k] = NewEntry(k, v)]
  /\ MakeNewest(k)
  /\ delta' = [delta EXCEPT ![t] = EntrySize(k, v) - OldSize(k)]
  /\ Answer(t, <<"Ok">>)
  /\ Goto(t, "add")
  /\ UNCHANGED <<lock, used, cursor, clock, call, now, start, offset, handle>>

\* Mutant of Add: evict_if_needed is called after an insert, not after an overwrite.
AddEvictsOnInsert(t) ==
  /\ pc[t] = "add"
  /\ used' = used + delta[t]
  /\ delta' = [delta EXCEPT ![t] = 0]
  /\ lock' = [lock EXCEPT ![HomeShard(t)] = Unlocked]
  /\ Goto(t, IF delta[t] = EntrySize(call[t].key, call[t].value) THEN "check" ELSE "return")
  /\ UNCHANGED <<entry, older, cursor, clock, call, now, start, offset, res, handle>>

\* MemoryEngine::set adds the size difference, then drops the lock.
Add(t) ==
  /\ pc[t] = "add"
  /\ used' = used + delta[t]
  /\ delta' = [delta EXCEPT ![t] = 0]
  /\ lock' = [lock EXCEPT ![HomeShard(t)] = Unlocked]
  /\ Goto(t, "check")
  /\ UNCHANGED <<entry, older, cursor, clock, call, now, start, offset, res, handle>>

\* used_bytes.fetch_sub after a removal, the lock still held.  get, delete,
\* expire and ttl then return; set goes on to write; the expirer goes on with
\* its shard.
Sub(p) ==
  /\ pc[p] = "sub"
  /\ used' = used - delta[p]
  /\ delta' = [delta EXCEPT ![p] = 0]
  /\ \/ /\ p = Expirer
        /\ Goto(p, "purge")
        /\ UNCHANGED lock
     \/ /\ p # Expirer /\ call[p].op = "set"
        /\ Goto(p, "put")
        /\ UNCHANGED lock
     \/ /\ p # Expirer /\ call[p].op # "set"
        /\ Goto(p, "return")
        /\ lock' = [lock EXCEPT ![HomeShard(p)] = Unlocked]
  /\ UNCHANGED <<entry, older, cursor, clock, call, now, start, offset, res, handle>>

-----------------------------------------------------------------------------
(* evict_if_needed, run by set after it dropped its lock.                  *)

\* The head of the loop: used_bytes is loaded with no lock held.
Check(t) ==
  /\ pc[t] = "check"
  /\ IF MaxBytes = UsizeMax \/ used <= MaxBytes
     THEN Goto(t, "return")
     ELSE Goto(t, "cursor")
  /\ UNCHANGED <<entry, older, lock, used, cursor, clock, call, now, delta,
                 start, offset, res, handle>>

\* eviction_cursor.fetch_add.  Only its value modulo the power-of-two shard
\* count is ever used, so the wrap at usize::MAX is not seen.
Cursor(t) ==
  /\ pc[t] = "cursor"
  /\ start' = [start EXCEPT ![t] = cursor]
  /\ cursor' = (cursor + 1) % NumShards
  /\ offset' = [offset EXCEPT ![t] = 0]
  /\ Goto(t, "scan")
  /\ UNCHANGED <<entry, older, lock, used, clock, call, now, delta, res, handle>>

\* Mutant of AfterEmpty: the round visits one shard too many.
AfterOneMore(t) == IF offset[t] + 1 > NumShards THEN "return" ELSE "scan"

\* Mutant of AfterEmpty: the round ends at the first empty shard.
AfterFirstEmpty(t) == "return"

\* The end of the round, once the shard at offset[t] was found empty.
AfterEmpty(t) == IF offset[t] + 1 = NumShards THEN "return" ELSE "scan"

\* Mutant of Scan: an empty shard is tried again instead of the next one.
ScanStays(t) ==
  LET s == (start[t] + offset[t]) % NumShards IN
  /\ pc[t] = "scan"
  /\ AcquireAndRelease(s)
  /\ \/ /\ Live(s) = {}
        /\ UNCHANGED <<entry, older, delta, pc>>
     \/ \E k \in Keys :
        /\ Oldest(older[s], Live(s), k)
        /\ Remove(k)
        /\ delta' = [delta EXCEPT ![t] = entry[k].size]
        /\ Goto(t, "evicted")
  /\ UNCHANGED <<used, cursor, clock, call, now, start, offset, res, handle>>

\* One shard of the round: pop its oldest entry and drop the lock, or pass on
\* to the next shard, or give up when the round found every shard empty.
Scan(t) ==
  LET s == (start[t] + offset[t]) % NumShards IN
  /\ pc[t] = "scan"
  /\ AcquireAndRelease(s)
  /\ \/ \E k \in Keys :
           /\ Oldest(older[s], Live(s), k)
           /\ Remove(k)
           /\ delta' = [delta EXCEPT ![t] = entry[k].size]
           /\ Goto(t, "evicted")
           /\ UNCHANGED offset
     \/ /\ Live(s) = {}
        /\ offset' = [offset EXCEPT ![t] = @ + 1]
        /\ Goto(t, AfterEmpty(t))
        /\ UNCHANGED <<entry, older, delta>>
  /\ UNCHANGED <<used, cursor, clock, call, now, start, res, handle>>

\* Mutant of EvictSub: one eviction per set, without looking at used_bytes again.
EvictSubOnce(t) ==
  /\ pc[t] = "evicted"
  /\ used' = used - delta[t]
  /\ delta'  = [delta EXCEPT ![t] = 0]
  /\ start'  = [start EXCEPT ![t] = 0]
  /\ offset' = [offset EXCEPT ![t] = 0]
  /\ Goto(t, "return")
  /\ UNCHANGED <<entry, older, lock, cursor, clock, call, now, res, handle>>

\* used_bytes.fetch_sub for the evicted entry, with no lock held; the round is
\* over and its locals die.
EvictSub(t) ==
  /\ pc[t] = "evicted"
  /\ used' = used - delta[t]
  /\ delta'  = [delta EXCEPT ![t] = 0]
  /\ start'  = [start EXCEPT ![t] = 0]
  /\ offset' = [offset EXCEPT ![t] = 0]
  /\ Goto(t, "check")
  /\ UNCHANGED <<entry, older, lock, cursor, clock, call, now, res, handle>>

-----------------------------------------------------------------------------
(* The expirer thread and its handle.                                      *)

\* Mutant of ExpirerHead: the stop flag is never looked at.
ExpirerHeadForever ==
  /\ pc[Expirer] = "head"
  /\ Goto(Expirer, "sleep")
  /\ UNCHANGED <<entry, older, lock, used, cursor, clock, call, now, delta,
                 start, offset, res, handle>>

\* The head of the expirer's loop: leave it once stop is set, else sleep.
ExpirerHead ==
  /\ pc[Expirer] = "head"
  /\ Goto(Expirer, IF handle = "running" THEN "sleep" ELSE "stopped")
  /\ UNCHANGED <<entry, older, lock, used, cursor, clock, call, now, delta,
                 start, offset, res, handle>>

\* Mutant of ExpirerWake: the clock is read once, when the thread starts.
ExpirerWakeInThePast ==
  /\ pc[Expirer] = "sleep"
  /\ offset' = [offset EXCEPT ![Expirer] = 0]
  /\ Goto(Expirer, "sweep")
  /\ UNCHANGED <<entry, older, lock, used, cursor, clock, call, now, delta, start,
                 res, handle>>

\* The sleep is over: purge_expired(Instant::now()) begins with shard 0.
ExpirerWake ==
  /\ pc[Expirer] = "sleep"
  /\ now' = [now EXCEPT ![Expirer] = clock]
  /\ offset' = [offset EXCEPT ![Expirer] = 0]
  /\ Goto(Expirer, "sweep")
  /\ UNCHANGED <<entry, older, lock, used, cursor, clock, call, delta, start,
                 res, handle>>

\* purge_expired takes the lock of its next shard.
SweepLock ==
  /\ pc[Expirer] = "sweep"
  /\ Acquire(Expirer, offset[Expirer])
  /\ Goto(Expirer, "purge")
  /\ UNCHANGED <<entry, older, used, cursor, clock, call, now, delta, start,
                 offset, res, handle>>

\* purge_expired removes an entry that was expired when the sweep began; the
\* hash map yields them in any order.
PurgeOne ==
  /\ pc[Expirer] = "purge"
  /\ \E k \in Live(offset[Expirer]) :
        /\ IsExpired(k, now[Expirer])
        /\ Remove(k)
        /\ delta' = [delta EXCEPT ![Expirer] = entry[k].size]
  /\ Goto(Expirer, "sub")
  /\ UNCHANGED <<lock, used, cursor, clock, call, now, start, offset, res, handle>>

\* No expired entry is left in the shard: drop its lock and go to the next.
PurgeDone ==
  LET s == offset[Expirer] IN
  /\ pc[Expirer] = "purge"
  /\ \A k \in Live(s) : ~IsExpired(k, now[Expirer])
  /\ lock' = [lock EXCEPT ![s] = Unlocked]
  /\ \/ /\ s + 1 < NumShards
        /\ offset' = [offset EXCEPT ![Expirer] = s + 1]
        /\ Goto(Expirer, "sweep")
        /\ UNCHANGED now
     \/ /\ s + 1 = NumShards
        /\ offset' = [offset EXCEPT ![Expirer] = 0]
        /\ now' = [now EXCEPT ![Expirer] = 0]
        /\ Goto(Expirer, "head")
  /\ UNCHANGED <<entry, older, used, cursor, clock, call, delta, start, res, handle>>

\* ExpirationHandle::stop sets the flag ...
Stop ==
  /\ handle = "running"
  /\ handle' = "stopping"
  /\ UNCHANGED <<entry, older, lock, used, cursor, clock, pc, call, now, delta,
                 start, offset, res>>

\* ... and joins the thread once it has left its loop.
Join ==
  /\ handle = "stopping" /\ pc[Expirer] = "stopped"
  /\ handle' = "joined"
  /\ UNCHANGED <<entry, older, lock, used, cursor, clock, pc, call, now, delta,
                 start, offset, res>>

-----------------------------------------------------------------------------
(* The specification.                                                      *)

Tick ==
  /\ clock < MaxTime
  /\ clock' = clock + 1
  /\ UNCHANGED <<entry, older, lock, used, cursor, pc, call, now, delta, start,
                 offset, res, handle>>

\* The steps of an operation that wait for a shard's lock, and the others.
LockStep(t) == Get(t) \/ Delete(t) \/ Expire(t) \/ Ttl(t) \/ SetLock(t) \/ Scan(t)
FreeStep(t) == Put(t) \/ Add(t) \/ Sub(t) \/ Check(t) \/ Cursor(t)
                 \/ EvictSub(t) \/ Return(t)
SweepStep   == ExpirerHead \/ ExpirerWake \/ PurgeOne \/ Sub(Expirer) \/ PurgeDone

Next ==
  \/ \E t \in Threads :
        \/ \E c \in Calls : Invoke(t, c)
        \/ LockStep(t)
        \/ FreeStep(t)
  \/ SweepStep \/ SweepLock
  \/ Stop \/ Join
  \/ Tick

Spec == Init /\ [][Next]_vars

\* Threads are scheduled, and a thread that waits for a lock that keeps being
\* released gets it (parking_lot's locks are eventually fair).  Nothing makes a
\* client call, the clock advance or the handle be stopped.
Fairness ==
  /\ \A t \in Threads : SF_vars(LockStep(t)) /\ WF_vars(FreeStep(t))
  /\ SF_vars(SweepLock) /\ WF_vars(SweepStep)
  /\ WF_vars(Join)

FairSpec == Spec /\ Fairness

-----------------------------------------------------------------------------
(* Properties.                                                             *)

SharedTypes ==
  /\ entry  \in [Keys -> Entry \cup {Absent}]
  /\ older  \in [Shards -> SUBSET (Keys \X Keys)]
  /\ lock   \in [Shards -> Procs \cup {Unlocked}]
  /\ used   \in Int
  /\ cursor \in Shards
  /\ clock  \in Nat
  /\ handle \in {"running", "stopping", "joined"}

ControlTypes ==
  /\ pc   \in [Procs -> ClientPc \cup ExpirerPc]
  /\ pc[Expirer] \in ExpirerPc
  /\ call \in [Threads -> Calls \cup {NoCall}]
  /\ \A t \in Threads : /\ pc[t] \in ClientPc
                        /\ pc[t] # "idle" => call[t] \in Calls
                        /\ pc[t] \in SetPc => call[t].op = "set"

LocalTypes ==
  /\ now    \in [Procs -> Nat]
  /\ delta  \in [Procs -> Int]
  /\ start  \in [Threads -> Shards]
  /\ offset \in [Procs -> 0 .. NumShards]
  /\ offset[Expirer] \in Shards
  /\ \A t \in Threads : pc[t] = "scan" => offset[t] \in Shards
  /\ res    \in [Threads -> Results \cup {NoResult}]

\* Every variable has its type, given where each process is.
TypeOK == SharedTypes /\ ControlTypes /\ LocalTypes

\* The bytes held under each key.
HeldBytes == [k \in Keys |-> IF entry[k] = Absent THEN 0 ELSE entry[k].size]

\* The lock holder of k's shard has written k and not yet added the difference.
Writing(k) ==
  LET p == lock[ShardOf[k]] IN
  p \in Threads /\ pc[p] = "add" /\ call[p].key = k

\* The bytes under each key that used_bytes already counts.
CountedBytes ==
  [k \in Keys |-> HeldBytes[k] - (IF Writing(k) THEN delta[lock[ShardOf[k]]] ELSE 0)]

\* The bytes each process removed and has not yet subtracted.
OwedBytes == [p \in Procs |-> IF pc[p] \in {"sub", "evicted"} THEN delta[p] ELSE 0]

\* used_bytes is, at every instant, the bytes held that were added to it plus
\* the bytes removed that were not yet subtracted from it: no interleaving of
\* set, eviction, lazy expiry and sweep loses, repeats or underflows an update.
ByteAccounting ==
  /\ used = Total(CountedBytes) + Total(OwedBytes)
  /\ \A k \in Keys : CountedBytes[k] >= 0
  /\ \A p \in Procs : OwedBytes[p] >= 0

\* A shard's lock is held exactly by the process inside its critical section,
\* so no process waits for a lock (or sleeps, or returns) while holding one.
LockDiscipline ==
  \A s \in Shards, p \in Procs :
    lock[s] = p <=> pc[p] \in HoldingPc /\ HomeShard(p) = s

\* A budget is configured.
Bounded == MaxBytes # UsizeMax

\* With no client operation under way, the engine holds no more than its byte
\* budget, however the evictions of concurrent sets interleaved with each
\* other, with deletes and with the sweep.
WithinBudget ==
  Bounded /\ (\A t \in Threads : pc[t] = "idle") => Total(HeldBytes) <= MaxBytes

\* A set that will look at used_bytes again, or is in a round that has passed
\* over no shard that used_bytes counts anything in.
Watching(t) ==
  \/ pc[t] \in {"check", "cursor", "evicted"}
  \/ /\ pc[t] = "scan"
     /\ \A o \in 0 .. offset[t] - 1, k \in Keys :
           ShardOf[k] = (start[t] + o) % NumShards => CountedBytes[k] = 0

\* While used_bytes counts more than the budget, some set is still watching it:
\* the last one to leave evict_if_needed never leaves an engine over budget,
\* also when a shard it found empty was refilled behind it.
BudgetWatched ==
  Bounded /\ Total(CountedBytes) > MaxBytes => \E t \in Threads : Watching(t)

\* The bytes a set under way wrote.
InFlightBytes ==
  [t \in Threads |->
     IF pc[t] \in {"add", "check", "cursor", "scan", "evicted", "return"}
          /\ call[t].op = "set"
     THEN EntrySize(call[t].key, call[t].value) ELSE 0]

\* The budget is exceeded by no more than what the sets under way wrote.
BoundedOvershoot == Bounded => Total(HeldBytes) <= MaxBytes + Total(InFlightBytes)

\* Eviction removes an entry only when the engine holds more than its budget, as
\* the comment on evict_if_needed has it.  Concurrent evictions act on a load of
\* used_bytes that may be stale.
EvictsOnlyOverBudget ==
  [][\A t \in Threads : pc[t] = "scan" /\ pc'[t] = "evicted"
        => Total(HeldBytes) > MaxBytes]_vars

\* The map of the KVEngine trait: the entries without their sizes.
StoreView ==
  [k \in Keys |-> IF entry[k] = Absent THEN Absent
                  ELSE [value |-> entry[k].value, expires_at |-> entry[k].expires_at]]

\* A call is done once its answer is settled; what follows (subtracting bytes,
\* evicting) is part of returning.
PhaseView ==
  [t \in Threads |-> IF pc[t] = "idle" THEN "idle"
                     ELSE IF res[t] = NoResult THEN "called" ELSE "done"]

SinceView == [t \in Threads |-> now[t]]

\* What the KVEngine trait promises.
KV == INSTANCE KVEngine WITH
  store <- StoreView, phase <- PhaseView, since <- SinceView, Evicts <- Bounded

\* Every call takes effect atomically between invocation and return, an expired
\* entry is never reported present nor a live one missing, and entries vanish
\* only by delete, by expiry, or by eviction while a set is under way.
ImplementsKVEngine == KV!Spec

\* Every operation returns.  For get, delete, expire and ttl that is because no lock
\* is held for ever; a set also has to leave the eviction loop of evict_if_needed,
\* which it does unless other threads add bytes for ever, whatever lookups and the
\* sweeper go on doing.
OperationsReturn ==
  \A t \in Threads :
    /\ (pc[t] # "idle" /\ call[t].op # "set") ~> pc[t] = "idle"
    /\ \/ pc[t] # "idle" ~> pc[t] = "idle"
       \/ []<>(\E u \in Threads \ {t} : pc[u] = "add")

\* While the sweeper runs, an entry past its deadline does not stay: it is
\* removed, replaced, or given a new deadline.
ExpiredPurged ==
  \A k \in Keys :
    (entry[k] # Absent /\ IsExpired(k, clock) /\ handle = "running")
      ~> (entry[k] = Absent \/ ~IsExpired(k, clock) \/ handle # "running")

\* stop() joins the sweeper thread: it always reaches the head of its loop.
StopJoins == handle = "stopping" ~> handle = "joined"
=============================================================================

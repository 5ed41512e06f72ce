------------------------- MODULE MemoryEngineProofs -------------------------
(***************************************************************************)
(* Proofs about MemoryEngine, for any number of threads, keys, shards and   *)
(* any byte budget.                                                         *)
(***************************************************************************)
EXTENDS MemoryEngine, TLAPS

\* A leaf goes to Zenon unless it names another prover.
USE Zenon

USE DEF Shards, Procs

-----------------------------------------------------------------------------
(* Type correctness.                                                       *)

\* A remainder is below its modulus.
LEMMA ModRange ==
  ASSUME NEW a \in Nat, NEW n \in Nat \ {0}
  PROVE  a % n \in 0 .. n - 1
BY SMTT(30)

\* The fields of a call have the types its operation needs.
LEMMA CallFields ==
  ASSUME NEW c \in Calls
  PROVE  /\ c.key \in Keys
         /\ c.op = "set" => c.value \in Values
         /\ c.op = "expire" => c.ttl \in Nat
         /\ c # NoCall
<1>1. CASE c \in [op : {"get", "delete", "ttl"}, key : Keys]
  BY <1>1, SMTT(30) DEF NoCall
<1>2. CASE c \in [op : {"set"}, key : Keys, value : Values]
  BY <1>2, SMTT(30) DEF NoCall
<1>3. CASE c \in [op : {"expire"}, key : Keys, ttl : Ttls]
  <2>1. c.op = "expire" /\ c.key \in Keys /\ c.ttl \in Ttls
    BY <1>3, SMTT(30)
  <2>2. c.ttl \in Nat
    BY <2>1, NumberAssumption
  <2> QED
    BY <2>1, <2>2, SMTT(30) DEF NoCall
<1> QED
  BY <1>1, <1>2, <1>3 DEF Calls

\* Removing an entry and making a key the newest keep the shards well-typed.
LEMMA ShardTypes ==
  ASSUME TypeOK, NEW k \in Keys
  PROVE  /\ Remove(k) => /\ entry' \in [Keys -> Entry \cup {Absent}]
                         /\ older' \in [Shards -> SUBSET (Keys \X Keys)]
         /\ MakeNewest(k) => older' \in [Shards -> SUBSET (Keys \X Keys)]
<1>1. ShardOf[k] \in Shards
  BY ShardAssumption
<1>2. \A o \in SUBSET (Keys \X Keys) :
         /\ Without(o, k) \in SUBSET (Keys \X Keys)
         /\ WithNewest(o, Live(ShardOf[k]), k) \in SUBSET (Keys \X Keys)
  BY DEF Without, WithNewest, Live
<1>3. older \in [Shards -> SUBSET (Keys \X Keys)] /\ entry \in [Keys -> Entry \cup {Absent}]
  BY DEF TypeOK, SharedTypes
<1>4. ASSUME Remove(k)
      PROVE  /\ entry' \in [Keys -> Entry \cup {Absent}]
             /\ older' \in [Shards -> SUBSET (Keys \X Keys)]
  <2>1. Without(older[ShardOf[k]], k) \in SUBSET (Keys \X Keys)
    BY <1>1, <1>2, <1>3
  <2> QED
    BY <1>1, <1>3, <1>4, <2>1 DEF Remove
<1>5. ASSUME MakeNewest(k) PROVE older' \in [Shards -> SUBSET (Keys \X Keys)]
  <2>1. WithNewest(older[ShardOf[k]], Live(ShardOf[k]), k) \in SUBSET (Keys \X Keys)
    BY <1>1, <1>2, <1>3
  <2> QED
    BY <1>1, <1>3, <1>5, <2>1 DEF MakeNewest
<1> QED
  BY <1>4, <1>5

\* The initial state is well-typed.
LEMMA TypeInit == Init => TypeOK
BY ThreadAssumption, ShardAssumption, SMTT(30)
   DEF Init, TypeOK, SharedTypes, ControlTypes, LocalTypes, ClientPc, ExpirerPc, SetPc

\* A thread moves within its call, or the expirer within its loop.
LEMMA ClientMoves ==
  ASSUME TypeOK, NEW t \in Threads, NEW l \in ClientPc, Goto(t, l), UNCHANGED call,
         pc[t] # "idle", l \in SetPc => call[t].op = "set"
  PROVE  /\ ControlTypes'
         /\ \A u \in Threads : pc'[u] = "scan" => pc[u] = "scan" \/ (u = t /\ l = "scan")
BY ThreadAssumption DEF TypeOK, ControlTypes, Goto

\* A step of the expirer keeps the types of where processes are.
LEMMA ExpirerMoves ==
  ASSUME TypeOK, NEW l \in ExpirerPc, Goto(Expirer, l), UNCHANGED call
  PROVE  /\ ControlTypes'
         /\ \A u \in Threads : pc'[u] = pc[u]
BY ThreadAssumption DEF TypeOK, ControlTypes, Goto

\* The key of the call of a thread that is in one, and its shard.
LEMMA CallTypes ==
  ASSUME TypeOK, NEW t \in Threads, pc[t] # "idle"
  PROVE  /\ call[t] \in Calls
         /\ call[t].key \in Keys
         /\ ShardOf[call[t].key] \in Shards
         /\ HomeShard(t) = ShardOf[call[t].key]
         /\ call[t].op = "set" => call[t].value \in Values
         /\ call[t].op = "expire" => call[t].ttl \in Nat
BY CallFields, ThreadAssumption, ShardAssumption DEF TypeOK, ControlTypes, HomeShard

\* An entry's fields.
LEMMA EntryTypes ==
  ASSUME TypeOK, NEW k \in Keys, entry[k] # Absent
  PROVE  /\ entry[k] \in Entry
         /\ entry[k].value \in Values
         /\ entry[k].size \in Nat
         /\ entry[k].expires_at \in Nat \cup {None}
BY DEF TypeOK, SharedTypes, Entry

\* Looking a key up without effect, or removing its entry, keeps the types.
LEMMA AnswerTypes ==
  ASSUME TypeOK, NEW t \in Threads, pc[t] = "lock", NEW r \in Results,
         UNCHANGED <<used, cursor, clock, call, now, start, offset, handle>>,
         AnswerMissing(t, r) \/ (entry[call[t].key] # Absent /\ AnswerRemoving(t, r))
  PROVE  TypeOK'
<1>1. call[t].key \in Keys /\ ShardOf[call[t].key] \in Shards
  BY CallTypes
<1>2. CASE AnswerMissing(t, r)
  <2>1. ControlTypes' /\ \A u \in Threads : pc'[u] = "scan" => pc[u] = "scan"
    BY <1>2, ClientMoves DEF AnswerMissing, ClientPc, SetPc
  <2> QED
    BY <1>2, <2>1 DEF AnswerMissing, AcquireAndRelease, Answer, TypeOK, SharedTypes, LocalTypes
<1>3. CASE entry[call[t].key] # Absent /\ AnswerRemoving(t, r)
  <2>1. ControlTypes' /\ \A u \in Threads : pc'[u] = "scan" => pc[u] = "scan"
    BY <1>3, ClientMoves DEF AnswerRemoving, ClientPc, SetPc
  <2>2. entry' \in [Keys -> Entry \cup {Absent}] /\ older' \in [Shards -> SUBSET (Keys \X Keys)]
    BY <1>1, <1>3, ShardTypes DEF AnswerRemoving
  <2>3. entry[call[t].key].size \in Int
    BY <1>1, <1>3, EntryTypes, SMTT(30)
  <2>4. SharedTypes'
    BY <1>1, <1>3, <2>2 DEF AnswerRemoving, Acquire, TypeOK, SharedTypes
  <2>5. LocalTypes'
    BY <1>3, <2>1, <2>3 DEF AnswerRemoving, Answer, TypeOK, LocalTypes
  <2> QED
    BY <2>1, <2>4, <2>5 DEF TypeOK
<1> QED
  BY <1>2, <1>3

\* Every step keeps the types.
LEMMA TypeNext == TypeOK /\ [Next]_vars => TypeOK'
<1> SUFFICES ASSUME TypeOK, [Next]_vars PROVE TypeOK'
  OBVIOUS
<1> USE DEF TypeOK
<1>1. ASSUME NEW t \in Threads, NEW c \in Calls, Invoke(t, c) PROVE TypeOK'
  <2>1. ControlTypes' /\ \A u \in Threads : pc'[u] = "scan" => pc[u] = "scan"
    BY <1>1, ThreadAssumption DEF Invoke, Goto, ControlTypes, ClientPc, SetPc
  <2> QED
    BY <1>1, <2>1 DEF Invoke, SharedTypes, LocalTypes
<1>2. ASSUME NEW t \in Threads, Return(t) PROVE TypeOK'
  <2>1. ControlTypes' /\ \A u \in Threads : pc'[u] = "scan" => pc[u] = "scan"
    BY <1>2, ThreadAssumption DEF Return, Goto, ControlTypes, ClientPc, SetPc
  <2>2. SharedTypes'
    BY <1>2 DEF Return, SharedTypes
  <2>3. LocalTypes'
    BY <1>2, <2>1, ThreadAssumption, ShardAssumption, SMTT(30)
       DEF Return, Answer, Goto, LocalTypes, ControlTypes
  <2> QED
    BY <2>1, <2>2, <2>3
<1>3. ASSUME NEW t \in Threads, Get(t) PROVE TypeOK'
  <2>1. call[t].key \in Keys /\ ShardOf[call[t].key] \in Shards
    BY <1>3, CallTypes DEF Get
  <2>2. CASE AnswerMissing(t, <<"None">>)
    BY <1>3, <2>2, AnswerTypes DEF Get, Results
  <2>3. CASE FoundExpired(call[t].key, now[t]) /\ AnswerRemoving(t, <<"None">>)
    BY <1>3, <2>3, AnswerTypes DEF Get, Results, FoundExpired
  <2>4. CASE /\ FoundFresh(call[t].key, now[t])
             /\ AcquireAndRelease(ShardOf[call[t].key])
             /\ MakeNewest(call[t].key)
             /\ Answer(t, <<"Value", entry[call[t].key].value>>)
             /\ Goto(t, "return")
             /\ UNCHANGED <<entry, delta>>
    <3>1. <<"Value", entry[call[t].key].value>> \in Results
      BY <2>1, <2>4, EntryTypes DEF FoundFresh, Results
    <3>2. older' \in [Shards -> SUBSET (Keys \X Keys)]
      BY <2>1, <2>4, ShardTypes
    <3>3. ControlTypes' /\ \A u \in Threads : pc'[u] = "scan" => pc[u] = "scan"
      BY <1>3, <2>4, ClientMoves DEF Get, ClientPc, SetPc
    <3> QED
      BY <1>3, <2>4, <3>1, <3>2, <3>3
         DEF Get, AcquireAndRelease, Answer, SharedTypes, LocalTypes
  <2> QED
    BY <1>3, <2>2, <2>3, <2>4 DEF Get
<1>4. ASSUME NEW t \in Threads, Delete(t) PROVE TypeOK'
  <2>1. \/ AnswerMissing(t, <<"false">>)
        \/ FoundExpired(call[t].key, now[t]) /\ AnswerRemoving(t, <<"false">>)
        \/ FoundFresh(call[t].key, now[t]) /\ AnswerRemoving(t, <<"true">>)
    BY <1>4 DEF Delete
  <2> QED
    BY <1>4, <2>1, AnswerTypes DEF Delete, Results, FoundExpired, FoundFresh
<1>5. ASSUME NEW t \in Threads, Expire(t) PROVE TypeOK'
  <2>1. call[t].key \in Keys /\ call[t].ttl \in Nat
    BY <1>5, CallTypes DEF Expire
  <2>2. CASE AnswerMissing(t, <<"NotFound">>)
    BY <1>5, <2>2, AnswerTypes DEF Expire, Results
  <2>3. CASE FoundExpired(call[t].key, now[t]) /\ AnswerRemoving(t, <<"NotFound">>)
    BY <1>5, <2>3, AnswerTypes DEF Expire, Results, FoundExpired
  <2>4. CASE /\ FoundFresh(call[t].key, now[t])
             /\ AcquireAndRelease(ShardOf[call[t].key])
             /\ entry' = [entry EXCEPT ![call[t].key].expires_at = now[t] + call[t].ttl]
             /\ Answer(t, <<"Ok">>)
             /\ Goto(t, "return")
             /\ UNCHANGED <<older, delta>>
    <3>1. now[t] + call[t].ttl \in Nat
      BY <2>1, SMTT(30) DEF LocalTypes
    <3>2. entry' \in [Keys -> Entry \cup {Absent}]
      BY <2>1, <2>4, <3>1 DEF FoundFresh, Entry, SharedTypes
    <3>3. ControlTypes' /\ \A u \in Threads : pc'[u] = "scan" => pc[u] = "scan"
      BY <1>5, <2>4, ClientMoves DEF Expire, ClientPc, SetPc
    <3>4. <<"Ok">> \in Results
      BY DEF Results
    <3> QED
      BY <1>5, <2>4, <3>2, <3>3, <3>4
         DEF Expire, AcquireAndRelease, Answer, SharedTypes, LocalTypes
  <2> QED
    BY <1>5, <2>2, <2>3, <2>4 DEF Expire
<1>6. ASSUME NEW t \in Threads, Ttl(t) PROVE TypeOK'
  <2> DEFINE left == IF entry[call[t].key].expires_at = None
                     THEN <<"NoExpiry">>
                     ELSE <<"ExpiresIn", entry[call[t].key].expires_at - now[t]>>
  <2>1. call[t].key \in Keys
    BY <1>6, CallTypes DEF Ttl
  <2>2. CASE AnswerMissing(t, <<"Missing">>)
    BY <1>6, <2>2, AnswerTypes DEF Ttl, Results
  <2>3. CASE FoundExpired(call[t].key, now[t]) /\ AnswerRemoving(t, <<"Missing">>)
    BY <1>6, <2>3, AnswerTypes DEF Ttl, Results, FoundExpired
  <2>4. CASE /\ FoundFresh(call[t].key, now[t])
             /\ AcquireAndRelease(ShardOf[call[t].key])
             /\ Answer(t, left)
             /\ Goto(t, "return")
             /\ UNCHANGED <<entry, older, delta>>
    <3>1. left \in Results
      <4>1. CASE entry[call[t].key].expires_at = None
        BY <4>1 DEF Results
      <4>2. CASE entry[call[t].key].expires_at # None
        <5>1. entry[call[t].key].expires_at \in Nat
          BY <2>1, <2>4, <4>2, EntryTypes DEF FoundFresh
        <5>2. entry[call[t].key].expires_at - now[t] \in Nat
          BY <2>4, <4>2, <5>1, SMTT(30) DEF FoundFresh, IsExpired, LocalTypes
        <5> QED
          BY <4>2, <5>2 DEF Results
      <4> QED
        BY <4>1, <4>2
    <3>2. ControlTypes' /\ \A u \in Threads : pc'[u] = "scan" => pc[u] = "scan"
      BY <1>6, <2>4, ClientMoves DEF Ttl, ClientPc, SetPc
    <3> HIDE DEF left
    <3> QED
      BY <1>6, <2>4, <3>1, <3>2 DEF Ttl, AcquireAndRelease, Answer, SharedTypes, LocalTypes
  <2> QED
    BY <1>6, <2>2, <2>3, <2>4 DEF Ttl
<1>7. ASSUME NEW t \in Threads, SetLock(t) PROVE TypeOK'
  <2>1. call[t].key \in Keys /\ ShardOf[call[t].key] \in Shards
    BY <1>7, CallTypes DEF SetLock
  <2>2. CASE FoundExpired(call[t].key, clock) /\ Remove(call[t].key)
               /\ delta' = [delta EXCEPT ![t] = entry[call[t].key].size] /\ Goto(t, "sub")
    <3>1. entry' \in [Keys -> Entry \cup {Absent}] /\ older' \in [Shards -> SUBSET (Keys \X Keys)]
      BY <2>1, <2>2, ShardTypes
    <3>2. entry[call[t].key].size \in Int
      BY <2>1, <2>2, EntryTypes, SMTT(30) DEF FoundExpired
    <3>3. ControlTypes' /\ \A u \in Threads : pc'[u] = "scan" => pc[u] = "scan"
      BY <1>7, <2>2, ClientMoves DEF SetLock, ClientPc, SetPc
    <3>4. SharedTypes'
      BY <1>7, <2>1, <3>1 DEF SetLock, Acquire, SharedTypes
    <3> QED
      BY <1>7, <2>2, <3>2, <3>3, <3>4 DEF SetLock, LocalTypes
  <2>3. CASE Goto(t, "put") /\ UNCHANGED <<entry, older, delta>>
    <3>1. ControlTypes' /\ \A u \in Threads : pc'[u] = "scan" => pc[u] = "scan"
      BY <1>7, <2>3, ClientMoves DEF SetLock, ClientPc, SetPc
    <3> QED
      BY <1>7, <2>1, <2>3, <3>1 DEF SetLock, Acquire, SharedTypes, LocalTypes
  <2> QED
    BY <1>7, <2>2, <2>3 DEF SetLock
<1>8. ASSUME NEW t \in Threads, Put(t) PROVE TypeOK'
  <2>1. call[t].key \in Keys /\ call[t].value \in Values /\ call[t].op = "set"
    BY <1>8, CallTypes DEF Put, SetPc, ControlTypes
  <2>2. EntrySize(call[t].key, call[t].value) \in Nat
    BY <2>1, KeyAssumption, SMTT(30) DEF EntrySize
  <2>3. older' \in [Shards -> SUBSET (Keys \X Keys)]
    BY <1>8, <2>1, ShardTypes DEF Put
  <2>4. entry' \in [Keys -> Entry \cup {Absent}]
    BY <1>8, <2>1, <2>2 DEF Put, NewEntry, Entry, SharedTypes
  <2>5. delta' \in [Procs -> Int]
    BY <1>8, <2>1, <2>2, EntryTypes, SMTT(30) DEF Put, OldSize, LocalTypes
  <2>6. ControlTypes' /\ \A u \in Threads : pc'[u] = "scan" => pc[u] = "scan"
    BY <1>8, <2>1, ClientMoves DEF Put, ClientPc, SetPc
  <2>7. <<"Ok">> \in Results
    BY DEF Results
  <2> QED
    BY <1>8, <2>3, <2>4, <2>5, <2>6, <2>7 DEF Put, Answer, SharedTypes, LocalTypes
<1>9. ASSUME NEW t \in Threads, Add(t) PROVE TypeOK'
  <2>1. HomeShard(t) \in Shards
    BY <1>9, CallTypes DEF Add
  <2>2. ControlTypes' /\ \A u \in Threads : pc'[u] = "scan" => pc[u] = "scan"
    BY <1>9, ClientMoves DEF Add, ClientPc, SetPc, ControlTypes
  <2>3. SharedTypes'
    <3>1. used' \in Int
      BY <1>9, SMTT(30) DEF Add, SharedTypes, LocalTypes
    <3>2. lock' \in [Shards -> Procs \cup {Unlocked}]
      BY <1>9, <2>1 DEF Add, SharedTypes
    <3> QED
      BY <1>9, <3>1, <3>2 DEF Add, SharedTypes
  <2>4. delta' \in [Procs -> Int]
    BY <1>9, SMTT(30) DEF Add, LocalTypes
  <2> QED
    BY <1>9, <2>2, <2>3, <2>4 DEF Add, LocalTypes
<1>10. ASSUME NEW p \in Procs, Sub(p) PROVE TypeOK'
  <2>0. used' \in Int /\ delta' \in [Procs -> Int]
    <3>1. used' = used - delta[p] /\ used \in Int /\ delta[p] \in Int
      BY <1>10 DEF Sub, SharedTypes, LocalTypes
    <3>2. delta' \in [Procs -> Int]
      BY <1>10, SMTT(30) DEF Sub, LocalTypes
    <3> QED
      BY ONLY <3>1, <3>2, SMTT(30)
  <2>1. CASE p = Expirer
    <3>1. ControlTypes' /\ \A u \in Threads : pc'[u] = pc[u]
      BY <1>10, <2>1, ExpirerMoves DEF Sub, ExpirerPc
    <3>2. SharedTypes'
      BY <1>10, <2>0, <2>1, ThreadAssumption DEF Sub, SharedTypes
    <3>3. LocalTypes'
      BY <1>10, <2>0, <2>1, <3>1 DEF Sub, LocalTypes
    <3> QED
      BY <3>1, <3>2, <3>3
  <2>2. CASE p \in Threads
    <3>1. HomeShard(p) \in Shards
      BY <1>10, <2>2, CallTypes DEF Sub
    <3>2. ControlTypes' /\ \A u \in Threads : pc'[u] = "scan" => pc[u] = "scan"
      BY <1>10, <2>2, ClientMoves, ThreadAssumption DEF Sub, ClientPc, SetPc
    <3>3. SharedTypes'
      <4>1. lock' \in [Shards -> Procs \cup {Unlocked}]
        BY <1>10, <3>1 DEF Sub, SharedTypes
      <4> QED
        BY <1>10, <2>0, <4>1 DEF Sub, SharedTypes
    <3> QED
      BY <1>10, <2>0, <3>2, <3>3 DEF Sub, LocalTypes
  <2> QED
    BY <2>1, <2>2
<1>11. ASSUME NEW t \in Threads, Check(t) PROVE TypeOK'
  <2>1. ControlTypes' /\ \A u \in Threads : pc'[u] = "scan" => pc[u] = "scan"
    BY <1>11, ClientMoves DEF Check, ClientPc, SetPc, ControlTypes
  <2> QED
    BY <1>11, <2>1 DEF Check, SharedTypes, LocalTypes
<1>12. ASSUME NEW t \in Threads, Cursor(t) PROVE TypeOK'
  <2>1. (cursor + 1) % NumShards \in Shards
    <3>1. cursor + 1 \in Nat
      BY ShardAssumption, SMTT(30) DEF SharedTypes
    <3> QED
      BY <3>1, ModRange, ShardAssumption
  <2>2. ControlTypes'
    BY <1>12, ClientMoves DEF Cursor, ClientPc, SetPc, ControlTypes
  <2>3. SharedTypes'
    BY <1>12, <2>1 DEF Cursor, SharedTypes
  <2>4. \A u \in Threads : pc'[u] = "scan" => offset'[u] \in Shards
    BY <1>12, ShardAssumption, SMTT(30) DEF Cursor, Goto, LocalTypes, ControlTypes
  <2>5. LocalTypes'
    BY <1>12, <2>4, ThreadAssumption, ShardAssumption, SMTT(30) DEF Cursor, LocalTypes, SharedTypes
  <2> QED
    BY <2>2, <2>3, <2>5
<1>13. ASSUME NEW t \in Threads, Scan(t) PROVE TypeOK'
  <2> DEFINE s == (start[t] + offset[t]) % NumShards
  <2>1. ASSUME NEW k \in Keys, Oldest(older[s], Live(s), k), Remove(k),
               delta' = [delta EXCEPT ![t] = entry[k].size], Goto(t, "evicted"),
               UNCHANGED offset
        PROVE  TypeOK'
    <3>1. entry' \in [Keys -> Entry \cup {Absent}] /\ older' \in [Shards -> SUBSET (Keys \X Keys)]
      BY <2>1, ShardTypes
    <3>2. entry[k].size \in Int
      BY <2>1, EntryTypes, SMTT(30) DEF Oldest, Live
    <3>3. ControlTypes' /\ \A u \in Threads : pc'[u] = "scan" => pc[u] = "scan"
      BY <1>13, <2>1, ClientMoves DEF Scan, AfterEmpty, ClientPc, SetPc, ControlTypes
    <3>4. SharedTypes'
      BY <1>13, <3>1 DEF Scan, AfterEmpty, AcquireAndRelease, SharedTypes
    <3> QED
      BY <1>13, <2>1, <3>2, <3>3, <3>4 DEF Scan, AfterEmpty, LocalTypes
  <2>2. CASE /\ offset' = [offset EXCEPT ![t] = @ + 1]
             /\ Goto(t, IF offset[t] + 1 = NumShards THEN "return" ELSE "scan")
             /\ UNCHANGED <<entry, older, delta>>
    <3>1. ControlTypes'
      BY <1>13, <2>2, ClientMoves DEF Scan, AfterEmpty, ClientPc, SetPc, ControlTypes
    <3>2. SharedTypes'
      BY <1>13, <2>2 DEF Scan, AfterEmpty, AcquireAndRelease, SharedTypes
    <3>3. offset[t] \in Shards
      BY <1>13 DEF Scan, AfterEmpty, LocalTypes
    <3>4. \A u \in Threads : pc'[u] = "scan" => offset'[u] \in Shards
      BY <2>2, <3>3, ShardAssumption, SMTT(30) DEF Goto, LocalTypes, ControlTypes
    <3>5. LocalTypes'
      BY <1>13, <2>2, <3>3, <3>4, ThreadAssumption, ShardAssumption, SMTT(30) DEF Scan, AfterEmpty, LocalTypes
    <3> QED
      BY <3>1, <3>2, <3>5
  <2> QED
    BY <1>13, <2>1, <2>2 DEF Scan, AfterEmpty
<1>14. ASSUME NEW t \in Threads, EvictSub(t) PROVE TypeOK'
  <2>1. ControlTypes' /\ \A u \in Threads : pc'[u] = "scan" => pc[u] = "scan"
    BY <1>14, ClientMoves DEF EvictSub, ClientPc, SetPc, ControlTypes
  <2>2. SharedTypes'
    BY <1>14, SMTT(30) DEF EvictSub, SharedTypes, LocalTypes
  <2>3. LocalTypes'
    BY <1>14, <2>1, ThreadAssumption, ShardAssumption, SMTT(30)
       DEF EvictSub, Goto, LocalTypes, ControlTypes
  <2> QED
    BY <2>1, <2>2, <2>3
<1>15. CASE ExpirerHead
  <2>1. ControlTypes' /\ \A u \in Threads : pc'[u] = pc[u]
    BY <1>15, ExpirerMoves DEF ExpirerHead, ExpirerPc
  <2> QED
    BY <1>15, <2>1 DEF ExpirerHead, SharedTypes, LocalTypes
<1>16. CASE ExpirerWake
  <2>1. ControlTypes' /\ \A u \in Threads : pc'[u] = pc[u]
    BY <1>16, ExpirerMoves DEF ExpirerWake, ExpirerPc
  <2>2. offset' \in [Procs -> 0 .. NumShards] /\ offset'[Expirer] \in Shards
          /\ \A u \in Threads : offset'[u] = offset[u]
    BY <1>16, ThreadAssumption, ShardAssumption, SMTT(30) DEF ExpirerWake, LocalTypes
  <2>3. now' \in [Procs -> Nat]
    BY <1>16 DEF ExpirerWake, LocalTypes, SharedTypes
  <2> QED
    BY <1>16, <2>1, <2>2, <2>3 DEF ExpirerWake, SharedTypes, LocalTypes
<1>17. CASE SweepLock
  <2>1. ControlTypes' /\ \A u \in Threads : pc'[u] = pc[u]
    BY <1>17, ExpirerMoves DEF SweepLock, ExpirerPc
  <2> QED
    BY <1>17, <2>1 DEF SweepLock, Acquire, SharedTypes, LocalTypes
<1>18. CASE PurgeOne
  <2>1. PICK k \in Live(offset[Expirer]) :
           Remove(k) /\ delta' = [delta EXCEPT ![Expirer] = entry[k].size]
    BY <1>18 DEF PurgeOne
  <2>2. k \in Keys /\ entry[k].size \in Int
    BY EntryTypes, SMTT(30) DEF Live
  <2>3. entry' \in [Keys -> Entry \cup {Absent}] /\ older' \in [Shards -> SUBSET (Keys \X Keys)]
    BY <2>1, <2>2, ShardTypes
  <2>4. ControlTypes' /\ \A u \in Threads : pc'[u] = pc[u]
    BY <1>18, ExpirerMoves DEF PurgeOne, ExpirerPc
  <2> QED
    BY <1>18, <2>1, <2>2, <2>3, <2>4 DEF PurgeOne, SharedTypes, LocalTypes
<1>19. CASE PurgeDone
  <2>1. ControlTypes' /\ \A u \in Threads : pc'[u] = pc[u]
    BY <1>19, ExpirerMoves DEF PurgeDone, ExpirerPc
  <2>2. offset' \in [Procs -> 0 .. NumShards] /\ offset'[Expirer] \in Shards
          /\ \A u \in Threads : offset'[u] = offset[u]
    BY <1>19, ThreadAssumption, ShardAssumption, SMTT(30) DEF PurgeDone, LocalTypes
  <2>3. now' \in [Procs -> Nat]
    BY <1>19, SMTT(30) DEF PurgeDone, LocalTypes
  <2> QED
    BY <1>19, <2>1, <2>2, <2>3 DEF PurgeDone, SharedTypes, LocalTypes
<1>20. CASE Stop \/ Join \/ Tick
  BY <1>20, SMTT(30) DEF Stop, Join, Tick, SharedTypes, ControlTypes, LocalTypes
<1>21. CASE UNCHANGED vars
  BY <1>21 DEF vars, SharedTypes, ControlTypes, LocalTypes
<1> QED
  BY <1>1, <1>2, <1>3, <1>4, <1>5, <1>6, <1>7, <1>8, <1>9, <1>10, <1>11, <1>12,
     <1>13, <1>14, <1>15, <1>16, <1>17, <1>18, <1>19, <1>20, <1>21
     DEF Next, LockStep, FreeStep, SweepStep

\* Every reachable state of the engine is well-typed.
THEOREM TypeCorrect == Spec => []TypeOK
BY TypeInit, TypeNext, PTL DEF Spec

-----------------------------------------------------------------------------
(* Lock discipline.  A process takes, keeps or drops the lock of its home   *)
(* shard exactly as it enters, stays in or leaves a critical section.       *)

\* A process that takes a free lock and enters its critical section.
LEMMA TakeLock ==
  ASSUME TypeOK, LockDiscipline, NEW p \in Procs, NEW l \in HoldingPc, NEW s \in Shards,
         Acquire(p, s), pc[p] \notin HoldingPc, Goto(p, l), HomeShard(p)' = s,
         \A q \in Procs \ {p} : HomeShard(q)' = HomeShard(q)
  PROVE  LockDiscipline'
BY ThreadAssumption, SMTT(30)
   DEF TypeOK, SharedTypes, ControlTypes, LockDiscipline, Acquire, Goto

\* A process that stays inside, or outside, its critical section.
LEMMA KeepLock ==
  ASSUME TypeOK, LockDiscipline, NEW p \in Procs, NEW l, Goto(p, l),
         pc[p] \in HoldingPc <=> l \in HoldingPc, UNCHANGED lock,
         \A q \in Procs : pc'[q] \in HoldingPc => HomeShard(q)' = HomeShard(q)
  PROVE  LockDiscipline'
BY SMTT(30) DEF TypeOK, ControlTypes, LockDiscipline, Goto

\* A process that leaves its critical section and drops its lock.
LEMMA DropLock ==
  ASSUME TypeOK, LockDiscipline, NEW p \in Procs, NEW l, Goto(p, l),
         pc[p] \in HoldingPc, l \notin HoldingPc, HomeShard(p) \in Shards,
         lock' = [lock EXCEPT ![HomeShard(p)] = Unlocked],
         \A q \in Procs : pc'[q] \in HoldingPc => HomeShard(q)' = HomeShard(q)
  PROVE  LockDiscipline'
BY ThreadAssumption, SMTT(30)
   DEF TypeOK, SharedTypes, ControlTypes, LockDiscipline, Goto

\* Nobody holds a lock in a new engine.
LEMMA LockInit == Init => LockDiscipline
BY ThreadAssumption, SMTT(30) DEF Init, LockDiscipline, HoldingPc

\* Every step takes, keeps or drops a lock together with the place it is for.
LEMMA LockNext == TypeOK /\ LockDiscipline /\ [Next]_vars => LockDiscipline'
<1> SUFFICES ASSUME TypeOK, LockDiscipline, [Next]_vars PROVE LockDiscipline'
  OBVIOUS
<1>a. ASSUME UNCHANGED <<call, offset>> PROVE \A q \in Procs : HomeShard(q)' = HomeShard(q)
  BY <1>a DEF HomeShard
<1>b. ASSUME NEW t \in Threads, pc[t] = "lock",
             UNCHANGED <<call, offset>>, NEW r, AnswerMissing(t, r) \/ AnswerRemoving(t, r)
      PROVE  LockDiscipline'
  <2>1. HomeShard(t) = ShardOf[call[t].key] /\ HomeShard(t) \in Shards
    BY <1>b, CallTypes
  <2>2. CASE AnswerMissing(t, r)
    BY <1>a, <1>b, <2>2, KeepLock DEF AnswerMissing, AcquireAndRelease, HoldingPc
  <2>3. CASE AnswerRemoving(t, r)
    BY <1>a, <1>b, <2>1, <2>3, TakeLock DEF AnswerRemoving, HoldingPc
  <2> QED
    BY <1>b, <2>2, <2>3
<1>c. ASSUME NEW t \in Threads, pc[t] = "lock", UNCHANGED <<call, offset, lock>>, Goto(t, "return")
      PROVE  LockDiscipline'
  BY <1>a, <1>c, KeepLock DEF HoldingPc
<1>1. ASSUME NEW t \in Threads, NEW c \in Calls, Invoke(t, c) PROVE LockDiscipline'
  <2>1. \A q \in Procs : pc'[q] \in HoldingPc => HomeShard(q)' = HomeShard(q)
    BY <1>1 DEF Invoke, Goto, HoldingPc, HomeShard, TypeOK, ControlTypes
  <2> QED
    BY <1>1, <2>1, KeepLock DEF Invoke, HoldingPc
<1>2. ASSUME NEW t \in Threads, Return(t) PROVE LockDiscipline'
  <2>1. \A q \in Procs : pc'[q] \in HoldingPc => HomeShard(q)' = HomeShard(q)
    BY <1>2 DEF Return, Goto, HoldingPc, HomeShard, TypeOK, ControlTypes, LocalTypes
  <2> QED
    BY <1>2, <2>1, KeepLock DEF Return, HoldingPc
<1>3. ASSUME NEW t \in Threads, Get(t) \/ Delete(t) \/ Expire(t) \/ Ttl(t) PROVE LockDiscipline'
  BY <1>3, <1>b, <1>c DEF Get, Delete, Expire, Ttl, AcquireAndRelease
<1>4. ASSUME NEW t \in Threads, SetLock(t) PROVE LockDiscipline'
  <2>1. HomeShard(t) = ShardOf[call[t].key] /\ HomeShard(t) \in Shards
    BY <1>4, CallTypes DEF SetLock
  <2>2. \A q \in Procs : HomeShard(q)' = HomeShard(q)
    BY <1>4, <1>a DEF SetLock
  <2> QED
    BY <1>4, <2>1, <2>2, TakeLock DEF SetLock, HoldingPc
<1>5. ASSUME NEW t \in Threads, Put(t) PROVE LockDiscipline'
  BY <1>5, <1>a, KeepLock DEF Put, HoldingPc
<1>6. ASSUME NEW t \in Threads, Add(t) PROVE LockDiscipline'
  <2>1. HomeShard(t) \in Shards
    BY <1>6, CallTypes DEF Add
  <2> QED
    BY <1>6, <1>a, <2>1, DropLock DEF Add, HoldingPc
<1>7. ASSUME NEW p \in Procs, Sub(p) PROVE LockDiscipline'
  <2>1. \A q \in Procs : HomeShard(q)' = HomeShard(q)
    BY <1>7, <1>a DEF Sub
  <2>2. CASE UNCHANGED lock /\ (Goto(p, "put") \/ Goto(p, "purge"))
    BY <1>7, <2>1, <2>2, KeepLock DEF Sub, HoldingPc
  <2>3. CASE lock' = [lock EXCEPT ![HomeShard(p)] = Unlocked] /\ Goto(p, "return") /\ p # Expirer
    <3>1. HomeShard(p) \in Shards
      BY <1>7, <2>3, CallTypes DEF Sub
    <3> QED
      BY <1>7, <2>1, <2>3, <3>1, DropLock DEF Sub, HoldingPc
  <2> QED
    BY <1>7, <2>2, <2>3 DEF Sub
<1>8. ASSUME NEW t \in Threads, Check(t) PROVE LockDiscipline'
  BY <1>8, <1>a, KeepLock DEF Check, HoldingPc
<1>9. ASSUME NEW t \in Threads, Cursor(t) \/ Scan(t) \/ EvictSub(t) PROVE LockDiscipline'
  <2>1. \A q \in Procs : offset'[q] = offset[q] \/ q = t
    BY <1>9 DEF Cursor, Scan, EvictSub, TypeOK, LocalTypes
  <2>2. \A q \in Procs : HomeShard(q)' = HomeShard(q)
    BY <1>9, <2>1, ThreadAssumption DEF Cursor, Scan, EvictSub, HomeShard
  <2> QED
    BY <1>9, <2>2, KeepLock DEF Cursor, Scan, AfterEmpty, EvictSub, AcquireAndRelease, HoldingPc
<1>10. CASE ExpirerHead
  BY <1>10, <1>a, KeepLock DEF ExpirerHead, HoldingPc
<1>11. CASE ExpirerWake
  <2>1. \A q \in Procs : pc'[q] \in HoldingPc => HomeShard(q)' = HomeShard(q)
    BY <1>11 DEF ExpirerWake, Goto, HoldingPc, HomeShard, TypeOK, ControlTypes
  <2> QED
    BY <1>11, <2>1, KeepLock DEF ExpirerWake, HoldingPc
<1>12. CASE SweepLock
  <2>1. HomeShard(Expirer) = offset[Expirer] /\ offset[Expirer] \in Shards
    BY DEF HomeShard, TypeOK, LocalTypes
  <2> QED
    BY <1>12, <1>a, <2>1, TakeLock DEF SweepLock, HoldingPc
<1>13. CASE PurgeOne
  BY <1>13, <1>a, KeepLock DEF PurgeOne, HoldingPc
<1>14. CASE PurgeDone
  <2>1. HomeShard(Expirer) = offset[Expirer] /\ offset[Expirer] \in Shards
    BY DEF HomeShard, TypeOK, LocalTypes
  <2>2. \A q \in Procs : pc'[q] \in HoldingPc => HomeShard(q)' = HomeShard(q)
    BY <1>14 DEF PurgeDone, Goto, HoldingPc, HomeShard, TypeOK, ControlTypes
  <2> QED
    BY <1>14, <2>1, <2>2, DropLock DEF PurgeDone, HoldingPc
<1>15. CASE Stop \/ Join \/ Tick \/ UNCHANGED vars
  BY <1>15, <1>a DEF Stop, Join, Tick, vars, LockDiscipline
<1> QED
  BY <1>1, <1>2, <1>3, <1>4, <1>5, <1>6, <1>7, <1>8, <1>9, <1>10, <1>11, <1>12,
     <1>13, <1>14, <1>15 DEF Next, LockStep, FreeStep, SweepStep

\* A lock is held exactly inside a critical section on its shard, whatever the
\* number of threads, keys and shards; in particular set has dropped its lock
\* when evict_if_needed takes others.
THEOREM LocksHeldInside == Spec => []LockDiscipline
<1>1. Init => TypeOK /\ LockDiscipline
  BY TypeInit, LockInit
<1>2. TypeOK /\ LockDiscipline /\ [Next]_vars => (TypeOK /\ LockDiscipline)'
  BY TypeNext, LockNext
<1> QED
  BY <1>1, <1>2, PTL DEF Spec

-----------------------------------------------------------------------------
(* What the steps need to know of where a call is.                         *)

\* No process has read a later instant than the clock shows.
ReadBefore == \A p \in Procs : now[p] <= clock

\* A call has its answer exactly from the step on that took effect: for set that
\* is the one that writes, also when it removed an expired entry before.
Settled ==
  \A t \in Threads :
    /\ pc[t] \in {"idle", "lock", "put"} => res[t] = NoResult
    /\ pc[t] = "sub" => (res[t] = NoResult <=> call[t].op = "set")
    /\ pc[t] \in {"add", "check", "cursor", "scan", "evicted", "return"} => res[t] # NoResult

\* Only an engine with a budget gets into the loop of evict_if_needed.
EvictsBounded == \A t \in Threads : pc[t] \in {"cursor", "scan", "evicted"} => Bounded

\* The invariant under which a step of the engine is a step of the map.
Mapped == ReadBefore /\ Settled /\ EvictsBounded

\* Every result is an answer.
LEMMA ResultIsAnswer == ASSUME NEW r \in Results PROVE r # NoResult
BY SMTT(30) DEF Results, NoResult

\* No process has read the clock in a new engine, and no call is under way.
LEMMA MappedInit == Init => Mapped
BY ThreadAssumption, SMTT(30) DEF Init, Mapped, ReadBefore, Settled, EvictsBounded

\* A step leaves the clock, or lets it advance.
LEMMA ReadBeforeNext == TypeOK /\ ReadBefore /\ [Next]_vars => ReadBefore'
<1> SUFFICES ASSUME TypeOK, ReadBefore, [Next]_vars PROVE ReadBefore'
  OBVIOUS
<1>0. now \in [Procs -> Nat] /\ clock \in Nat
  BY DEF TypeOK, LocalTypes, SharedTypes
<1>1. /\ clock' = clock \/ (clock' = clock + 1 /\ now' = now)
      /\ \/ now' = now
         \/ \E p \in Procs : now' = [now EXCEPT ![p] = clock] \/ now' = [now EXCEPT ![p] = 0]
  BY DEF Next, LockStep, FreeStep, SweepStep, vars, Invoke, Return, Get, Delete, Expire,
         Ttl, SetLock, Put, Add, Sub, Check, Cursor, Scan, EvictSub, ExpirerHead, ExpirerWake,
         SweepLock, PurgeOne, PurgeDone, Stop, Join, Tick
<1> QED
  BY <1>0, <1>1, SMTT(30) DEF ReadBefore

\* A step moves a thread from one place to the next, and settles its answer when
\* it takes effect.
LEMMA SettledMove ==
  ASSUME TypeOK, Settled, NEW t \in Threads, NEW l, Goto(t, l),
         \A u \in Threads \ {t} : res'[u] = res[u] /\ call'[u] = call[u],
         /\ l \in {"idle", "lock", "put"} => res'[t] = NoResult
         /\ l = "sub" => (res'[t] = NoResult <=> call'[t].op = "set")
         /\ l \in {"add", "check", "cursor", "scan", "evicted", "return"} => res'[t] # NoResult
  PROVE  Settled'
<1>1. \A u \in Threads : pc'[u] = IF u = t THEN l ELSE pc[u]
  BY DEF Goto, TypeOK, ControlTypes
<1> QED
  BY <1>1 DEF Settled

\* An answered call, and a step of the expirer.
LEMMA SettledNext == TypeOK /\ Settled /\ [Next]_vars => Settled'
<1> SUFFICES ASSUME TypeOK, Settled, [Next]_vars PROVE Settled'
  OBVIOUS
<1>0. /\ res \in [Threads -> Results \cup {NoResult}] /\ call \in [Threads -> Calls \cup {NoCall}]
      /\ pc \in [Procs -> ClientPc \cup ExpirerPc]
      /\ \A t \in Threads : pc[t] \in SetPc => call[t].op = "set"
  BY DEF TypeOK, LocalTypes, ControlTypes
<1>1. ASSUME NEW t \in Threads, NEW l \in {"return", "sub"}, NEW r \in Results, Goto(t, l),
             Answer(t, r), call[t].op # "set", UNCHANGED call
      PROVE  Settled'
  <2>1. res'[t] = r /\ r # NoResult /\ \A u \in Threads \ {t} : res'[u] = res[u]
    BY <1>0, <1>1, ResultIsAnswer DEF Answer
  <2> QED
    BY <1>1, <2>1, SettledMove
<1>2. ASSUME NEW t \in Threads, NEW c \in Calls, Invoke(t, c) PROVE Settled'
  <2>1. /\ res'[t] = NoResult
        /\ \A u \in Threads \ {t} : res'[u] = res[u] /\ call'[u] = call[u]
    BY <1>0, <1>2 DEF Invoke, Settled
  <2> QED
    BY <1>2, <2>1, SettledMove DEF Invoke
<1>3. ASSUME NEW t \in Threads, Return(t) PROVE Settled'
  <2>1. /\ res'[t] = NoResult
        /\ \A u \in Threads \ {t} : res'[u] = res[u] /\ call'[u] = call[u]
    BY <1>0, <1>3 DEF Return, Answer
  <2> QED
    BY <1>3, <2>1, SettledMove DEF Return
<1>4. ASSUME NEW t \in Threads, Get(t) \/ Delete(t) \/ Expire(t) \/ Ttl(t) PROVE Settled'
  <2>1. call[t].op # "set" /\ UNCHANGED call
    BY <1>4 DEF Get, Delete, Expire, Ttl
  <2>2. \E l \in {"return", "sub"} : \E r : Goto(t, l) /\ Answer(t, r)
    BY <1>4 DEF Get, Delete, Expire, Ttl, AnswerMissing, AnswerRemoving
  <2>3. PICK l \in {"return", "sub"} : \E r : Goto(t, l) /\ Answer(t, r)
    BY <2>2
  <2>7. PICK r : Goto(t, l) /\ Answer(t, r)
    BY <2>3
  <2>4. res' \in [Threads -> Results \cup {NoResult}]
    BY TypeNext DEF TypeOK, LocalTypes
  <2>5. res'[t] = r
    BY <1>0, <2>7 DEF Answer
  <2>6. r # NoResult
    <3>1. \A x : <<x>> # NoResult /\ \A y : <<x, y>> # NoResult
      BY DEF NoResult
    <3>2. \E x, y : Answer(t, <<x>>) \/ Answer(t, <<x, y>>)
      BY <1>4 DEF Get, Delete, Expire, Ttl, AnswerMissing, AnswerRemoving
    <3> QED
      BY <1>0, <2>5, <3>1, <3>2 DEF Answer
  <2> QED
    BY <1>1, <2>1, <2>4, <2>5, <2>6, <2>7
<1>5. ASSUME NEW t \in Threads, SetLock(t) PROVE Settled'
  <2>1. PICK l \in {"sub", "put"} : Goto(t, l)
    BY <1>5 DEF SetLock
  <2> QED
    BY <1>5, <2>1, SettledMove DEF SetLock, Settled
<1>6. ASSUME NEW t \in Threads, Put(t) PROVE Settled'
  <2>1. res'[t] = <<"Ok">> /\ \A u \in Threads \ {t} : res'[u] = res[u]
    BY <1>0, <1>6 DEF Put, Answer
  <2>2. <<"Ok">> # NoResult
    BY DEF NoResult
  <2> QED
    BY <1>6, <2>1, <2>2, SettledMove DEF Put
<1>7. ASSUME NEW t \in Threads, NEW l \in {"check", "cursor", "scan", "evicted", "return"},
             pc[t] \in {"add", "check", "cursor", "scan", "evicted"}, Goto(t, l),
             UNCHANGED <<res, call>>
      PROVE  Settled'
  BY <1>7, SettledMove DEF Settled
<1>8. ASSUME NEW t \in Threads, Add(t) \/ Check(t) \/ Cursor(t) \/ Scan(t) \/ EvictSub(t)
      PROVE  Settled'
  BY <1>7, <1>8 DEF Add, Check, Cursor, Scan, AfterEmpty, EvictSub
<1>9. ASSUME NEW t \in Threads, Sub(t) PROVE Settled'
  <2>1. t # Expirer /\ pc[t] = "sub" /\ UNCHANGED <<res, call>>
    BY <1>9, ThreadAssumption DEF Sub
  <2>2. CASE call[t].op = "set" /\ Goto(t, "put")
    BY <2>1, <2>2, SettledMove DEF Settled
  <2>3. CASE call[t].op # "set" /\ Goto(t, "return")
    BY <2>1, <2>3, SettledMove DEF Settled
  <2> QED
    BY <1>9, <2>1, <2>2, <2>3 DEF Sub
<1>10. ASSUME \A t \in Threads : pc'[t] = pc[t], UNCHANGED <<res, call>> PROVE Settled'
  BY <1>10 DEF Settled
<1>11. CASE SweepStep \/ SweepLock
  <2>1. UNCHANGED <<res, call>> /\ \E l : Goto(Expirer, l)
    BY <1>11 DEF SweepStep, SweepLock, ExpirerHead, ExpirerWake, PurgeOne, Sub, PurgeDone
  <2>2. \A t \in Threads : pc'[t] = pc[t]
    BY <1>0, <2>1, ThreadAssumption DEF Goto
  <2> QED
    BY <1>10, <2>1, <2>2
<1>12. CASE Stop \/ Join \/ Tick \/ UNCHANGED vars
  BY <1>10, <1>12 DEF Stop, Join, Tick, vars
<1> QED
  BY <1>2, <1>3, <1>4, <1>5, <1>6, <1>8, <1>9, <1>11, <1>12 DEF Next, LockStep, FreeStep

\* Check is the only way into the loop.
LEMMA EvictsBoundedNext == TypeOK /\ EvictsBounded /\ [Next]_vars => EvictsBounded'
<1> SUFFICES ASSUME TypeOK, EvictsBounded, [Next]_vars, NEW t \in Threads,
                    pc'[t] \in {"cursor", "scan", "evicted"}
             PROVE  Bounded
  BY DEF EvictsBounded, Bounded
<1>0. pc \in [Procs -> ClientPc \cup ExpirerPc]
  BY DEF TypeOK, ControlTypes
<1>1. SUFFICES ASSUME pc[t] \notin {"cursor", "scan", "evicted"} PROVE Bounded
  BY DEF EvictsBounded
<1>2. ASSUME NEW p \in Procs, NEW l, Goto(p, l) PROVE p = t /\ l \in {"cursor", "scan", "evicted"}
  BY <1>0, <1>1, <1>2 DEF Goto
<1>3. pc' # pc
  BY <1>1
<1>4. ASSUME NEW u \in Threads, LockStep(u) \/ FreeStep(u) PROVE Check(t)
  <2>1. CASE Get(u) \/ Delete(u) \/ Expire(u) \/ Ttl(u) \/ SetLock(u)
    BY <1>2, <2>1, SMTT(30) DEF Get, Delete, Expire, Ttl, AnswerMissing, AnswerRemoving, SetLock
  <2>2. CASE Put(u) \/ Add(u) \/ Sub(u) \/ EvictSub(u) \/ Return(u)
    BY <1>2, <2>2, SMTT(30) DEF Put, Add, Sub, EvictSub, Return
  <2>3. CASE Cursor(u) \/ Scan(u)
    <3>1. u = t
      BY <1>2, <2>3 DEF Cursor, Scan
    <3> QED
      BY <1>1, <2>3, <3>1 DEF Cursor, Scan
  <2>4. CASE Check(u)
    BY <1>2, <2>4, SMTT(30) DEF Check
  <2> QED
    BY <1>4, <2>1, <2>2, <2>3, <2>4 DEF LockStep, FreeStep
<1>5. ASSUME NEW u \in Threads, NEW c \in Calls, Invoke(u, c) PROVE FALSE
  BY <1>2, <1>5, SMTT(30) DEF Invoke
<1>6. ~SweepStep /\ ~SweepLock
  <2>1. Expirer \in Procs /\ Expirer # t
    BY ThreadAssumption
  <2> QED
    BY <1>2, <2>1 DEF SweepStep, SweepLock, ExpirerHead, ExpirerWake, PurgeOne, Sub, PurgeDone
<1>7. Check(t)
  BY <1>3, <1>4, <1>5, <1>6 DEF Next, vars, Stop, Join, Tick
<1> QED
  BY <1>0, <1>1, <1>7 DEF Check, Goto, Bounded

-----------------------------------------------------------------------------
(* How the map, the phases and the instants of the abstract engine are read   *)
(* off the state.                                                          *)

\* The map holds under a key what the shard holds, so both judge expiry alike.
LEMMA StoreReads ==
  ASSUME TypeOK, NEW k \in Keys
  PROVE  /\ StoreView[k] = Absent <=> entry[k] = Absent
         /\ entry[k] # Absent => StoreView[k] = [value      |-> entry[k].value,
                                                 expires_at |-> entry[k].expires_at]
         /\ \A n \in Nat : /\ KV!Lapsed(k, n) <=> FoundExpired(k, n)
                           /\ KV!Present(k, n) <=> FoundFresh(k, n)
<1>1. entry[k] \in Entry \cup {Absent}
  BY DEF TypeOK, SharedTypes
<1>2. CASE entry[k] = Absent
  BY <1>2 DEF StoreView, KV!Lapsed, KV!Present, FoundExpired, FoundFresh
<1>3. CASE entry[k] # Absent
  <2>1. StoreView[k] = [value |-> entry[k].value, expires_at |-> entry[k].expires_at]
    BY <1>3 DEF StoreView
  <2>2. StoreView[k] \in [value : Values, expires_at : Nat \cup {None}]
    BY <1>1, <1>3, <2>1, SMTT(30) DEF Entry
  <2>3. StoreView[k] # Absent /\ StoreView[k].expires_at = entry[k].expires_at
    BY <2>1, <2>2, SentinelAssumption, SMTT(30)
  <2>4. entry[k].expires_at # None => entry[k].expires_at \in Nat
    BY <1>1, <1>3 DEF Entry
  <2> QED
    BY <1>3, <2>1, <2>3, <2>4 DEF KV!Lapsed, KV!Present, FoundExpired, FoundFresh, IsExpired
<1> QED
  BY <1>2, <1>3

\* The map changes where the shards do.
LEMMA StoreKept == ASSUME UNCHANGED entry PROVE UNCHANGED StoreView
BY DEF StoreView

LEMMA StoreRemove ==
  ASSUME TypeOK, NEW k \in Keys, entry' = [entry EXCEPT ![k] = Absent]
  PROVE  StoreView' = [StoreView EXCEPT ![k] = Absent]
<1>1. entry \in [Keys -> Entry \cup {Absent}]
  BY DEF TypeOK, SharedTypes
<1> QED
  BY <1>1 DEF StoreView

LEMMA StorePut ==
  ASSUME TypeOK, NEW k \in Keys, NEW v \in Values, entry' = [entry EXCEPT ![k] = NewEntry(k, v)]
  PROVE  StoreView' = [StoreView EXCEPT ![k] = [value |-> v, expires_at |-> None]]
<1>1. entry \in [Keys -> Entry \cup {Absent}]
  BY DEF TypeOK, SharedTypes
<1>2. NewEntry(k, v) # Absent
  BY KeyAssumption, SentinelAssumption, SMTT(30) DEF NewEntry, EntrySize, Entry
<1>3. \A j \in Keys : StoreView'[j] = IF j = k THEN [value |-> v, expires_at |-> None] ELSE StoreView[j]
  BY <1>1, <1>2 DEF StoreView, NewEntry
<1> QED
  BY <1>3 DEF StoreView

LEMMA StoreExpire ==
  ASSUME TypeOK, NEW k \in Keys, NEW n \in Nat, entry[k] # Absent,
         entry' = [entry EXCEPT ![k].expires_at = n]
  PROVE  StoreView' = [StoreView EXCEPT ![k].expires_at = n]
<1>1. entry \in [Keys -> Entry \cup {Absent}]
  BY DEF TypeOK, SharedTypes
<1>2. entry'[k] \in Entry /\ entry'[k].value = entry[k].value /\ entry'[k].expires_at = n
  BY <1>1 DEF Entry
<1>3. entry'[k] # Absent
  BY <1>2, SentinelAssumption
<1>4. StoreView'[k] = [value |-> entry[k].value, expires_at |-> n]
  BY <1>2, <1>3 DEF StoreView
<1>5. StoreView'[k] = [StoreView[k] EXCEPT !.expires_at = n]
  <2>1. StoreView[k] = [value |-> entry[k].value, expires_at |-> entry[k].expires_at]
    BY StoreReads
  <2>2. \A a, b : [[value |-> a, expires_at |-> b] EXCEPT !.expires_at = n]
                  = [value |-> a, expires_at |-> n]
    BY SMTT(30)
  <2> QED
    BY <1>4, <2>1, <2>2, SMTT(30)
<1>6. \A j \in Keys \ {k} : StoreView'[j] = StoreView[j]
  BY <1>1 DEF StoreView
<1>7. DOMAIN StoreView = Keys /\ StoreView' = [j \in Keys |-> StoreView'[j]]
  BY DEF StoreView
<1> QED
  BY <1>5, <1>6, <1>7

\* The phase of a call, and the instants, change with the thread that moves.
LEMMA PhaseMove ==
  ASSUME TypeOK, NEW t \in Threads, NEW l, Goto(t, l),
         \A u \in Threads \ {t} : res'[u] = res[u]
  PROVE  PhaseView' = [PhaseView EXCEPT ![t] =
                         IF l = "idle" THEN "idle"
                         ELSE IF res'[t] = NoResult THEN "called" ELSE "done"]
<1>1. \A u \in Threads : pc'[u] = IF u = t THEN l ELSE pc[u]
  BY DEF Goto, TypeOK, ControlTypes
<1> QED
  BY <1>1 DEF PhaseView

LEMMA PhaseKept ==
  ASSUME \A t \in Threads : pc'[t] = pc[t], UNCHANGED res
  PROVE  UNCHANGED PhaseView
BY DEF PhaseView

LEMMA SinceKept == ASSUME \A t \in Threads : now'[t] = now[t] PROVE UNCHANGED SinceView
BY DEF SinceView

\* A move within an operation, before or after it took effect, is not seen.
LEMMA HiddenMove ==
  ASSUME TypeOK, NEW t \in Threads, NEW l, Goto(t, l), l # "idle", pc[t] # "idle", UNCHANGED res
  PROVE  UNCHANGED PhaseView
<1>1. \A u \in Threads : pc'[u] = IF u = t THEN l ELSE pc[u]
  BY DEF Goto, TypeOK, ControlTypes
<1> QED
  BY <1>1 DEF PhaseView

-----------------------------------------------------------------------------
(* Every step of the engine is a step of the map, or none.                 *)

\* The moment a call takes effect: it was called, it gets its answer, and the map
\* becomes what the shards then hold.
LEMMA TakesEffect ==
  ASSUME TypeOK, Mapped, NEW t \in Threads, NEW l, NEW r,
         pc[t] \in {"lock", "put"}, Goto(t, l), l # "idle", Answer(t, r), r # NoResult,
         UNCHANGED <<call, now, clock>>
  PROVE  KV!Effect(t, StoreView', r)
<1>1. res \in [Threads -> Results \cup {NoResult}]
  BY DEF TypeOK, LocalTypes
<1>2. res'[t] = r /\ \A u \in Threads \ {t} : res'[u] = res[u]
  BY <1>1 DEF Answer
<1>3. PhaseView[t] = "called"
  BY DEF Mapped, Settled, PhaseView
<1>4. PhaseView' = [PhaseView EXCEPT ![t] = "done"]
  BY <1>2, PhaseMove
<1>5. UNCHANGED SinceView
  BY SinceKept
<1> QED
  BY <1>3, <1>4, <1>5 DEF KV!Effect, Answer

\* A call that finds nothing under its key, or an expired entry, misses.
LEMMA Misses ==
  ASSUME TypeOK, Mapped, NEW t \in Threads, NEW r, r # NoResult, pc[t] = "lock",
         \/ AnswerMissing(t, r)
         \/ FoundExpired(call[t].key, now[t]) /\ AnswerRemoving(t, r),
         UNCHANGED <<call, now, clock>>
  PROVE  KV!Miss(t, now[t], r)
<1> DEFINE k == call[t].key
<1>1. k \in Keys /\ now[t] \in Nat
  BY CallFields DEF TypeOK, ControlTypes, LocalTypes
<1>2. ~KV!Present(k, now[t])
  BY <1>1, StoreReads DEF AnswerMissing, FoundFresh, FoundExpired
<1>3. StoreView' = [StoreView EXCEPT ![k] = Absent]
  <2>1. CASE AnswerMissing(t, r)
    <3>1. StoreView[k] = Absent /\ UNCHANGED StoreView
      BY <1>1, <2>1, StoreReads, StoreKept DEF AnswerMissing
    <3>2. StoreView = [j \in Keys |-> StoreView[j]]
      BY DEF StoreView
    <3> QED
      BY <3>1, <3>2
  <2>2. CASE AnswerRemoving(t, r)
    BY <1>1, <2>2, StoreRemove DEF AnswerRemoving, Remove
  <2> QED
    BY <2>1, <2>2
<1>4. \E l \in {"return", "sub"} : Goto(t, l) /\ Answer(t, r)
  BY DEF AnswerMissing, AnswerRemoving
<1>5. KV!Effect(t, StoreView', r)
  BY <1>4, TakesEffect, SMTT(30)
<1> QED
  BY <1>2, <1>3, <1>5 DEF KV!Miss

\* The instant a call judges expiry by lies within the call.
LEMMA JudgesWithin ==
  ASSUME TypeOK, Mapped, NEW t \in Threads
  PROVE  now[t] \in SinceView[t] .. clock
BY SMTT(30) DEF TypeOK, LocalTypes, SharedTypes, Mapped, ReadBefore, SinceView

LEMMA GetStep ==
  ASSUME TypeOK, Mapped, NEW t \in Threads, Get(t)
  PROVE  KV!Get(t, now[t])
<1> DEFINE k == call[t].key
<1>1. k \in Keys /\ now[t] \in Nat /\ call[t].op = "get" /\ pc[t] = "lock"
      /\ UNCHANGED <<call, now, clock>>
  BY CallFields DEF TypeOK, ControlTypes, LocalTypes, Get
<1>2. CASE \/ AnswerMissing(t, <<"None">>)
           \/ FoundExpired(k, now[t]) /\ AnswerRemoving(t, <<"None">>)
  <2>1. <<"None">> # NoResult
    BY DEF NoResult
  <2> QED
    BY <1>1, <1>2, <2>1, Misses DEF KV!Get
<1>3. CASE /\ FoundFresh(k, now[t])
           /\ Answer(t, <<"Value", entry[k].value>>)
           /\ Goto(t, "return")
           /\ UNCHANGED entry
  <2>1. KV!Present(k, now[t])
    BY <1>1, <1>3, StoreReads
  <2>4. StoreView[k] = [value |-> entry[k].value, expires_at |-> entry[k].expires_at]
    BY <1>1, <1>3, StoreReads DEF FoundFresh
  <2>2. <<"Value", entry[k].value>> # NoResult
    BY DEF NoResult
  <2>3. KV!Effect(t, StoreView', <<"Value", entry[k].value>>)
    BY <1>1, <1>3, <2>2, TakesEffect, SMTT(30)
  <2> QED
    BY <1>1, <1>3, <2>1, <2>3, <2>4, StoreKept, SMTT(30) DEF KV!Get
<1>4. \/ AnswerMissing(t, <<"None">>)
      \/ FoundExpired(k, now[t]) /\ AnswerRemoving(t, <<"None">>)
      \/ /\ FoundFresh(k, now[t])
         /\ Answer(t, <<"Value", entry[k].value>>)
         /\ Goto(t, "return")
         /\ UNCHANGED entry
  BY DEF Get
<1> QED
  BY <1>2, <1>3, <1>4

LEMMA DeleteStep ==
  ASSUME TypeOK, Mapped, NEW t \in Threads, Delete(t)
  PROVE  KV!Delete(t, now[t])
<1> DEFINE k == call[t].key
<1>1. k \in Keys /\ now[t] \in Nat /\ call[t].op = "delete" /\ pc[t] = "lock"
      /\ UNCHANGED <<call, now, clock>>
  BY CallFields DEF TypeOK, ControlTypes, LocalTypes, Delete
<1>2. <<"false">> # NoResult /\ <<"true">> # NoResult
  BY DEF NoResult
<1>3. CASE \/ AnswerMissing(t, <<"false">>)
           \/ FoundExpired(k, now[t]) /\ AnswerRemoving(t, <<"false">>)
  BY <1>1, <1>2, <1>3, Misses DEF KV!Delete
<1>4. CASE FoundFresh(k, now[t]) /\ AnswerRemoving(t, <<"true">>)
  <2>1. KV!Present(k, now[t])
    BY <1>1, <1>4, StoreReads
  <2>2. StoreView' = [StoreView EXCEPT ![k] = Absent]
    BY <1>1, <1>4, StoreRemove DEF AnswerRemoving, Remove
  <2>3. KV!Effect(t, StoreView', <<"true">>)
    BY <1>1, <1>2, <1>4, TakesEffect, SMTT(30) DEF AnswerRemoving
  <2> QED
    BY <1>1, <2>1, <2>2, <2>3 DEF KV!Delete
<1>5. \/ AnswerMissing(t, <<"false">>)
      \/ FoundExpired(k, now[t]) /\ AnswerRemoving(t, <<"false">>)
      \/ FoundFresh(k, now[t]) /\ AnswerRemoving(t, <<"true">>)
  BY DEF Delete
<1> QED
  BY <1>3, <1>4, <1>5

LEMMA ExpireStep ==
  ASSUME TypeOK, Mapped, NEW t \in Threads, Expire(t)
  PROVE  KV!Expire(t, now[t])
<1> DEFINE k == call[t].key
           n == now[t] + call[t].ttl
<1>1. k \in Keys /\ now[t] \in Nat /\ call[t].op = "expire" /\ pc[t] = "lock"
      /\ UNCHANGED <<call, now, clock>>
  BY CallFields DEF TypeOK, ControlTypes, LocalTypes, Expire
<1>2. <<"NotFound">> # NoResult /\ <<"Ok">> # NoResult
  BY DEF NoResult
<1>3. CASE \/ AnswerMissing(t, <<"NotFound">>)
           \/ FoundExpired(k, now[t]) /\ AnswerRemoving(t, <<"NotFound">>)
  BY <1>1, <1>2, <1>3, Misses DEF KV!Expire
<1>4. CASE /\ FoundFresh(k, now[t])
           /\ entry' = [entry EXCEPT ![k].expires_at = n]
           /\ Answer(t, <<"Ok">>)
           /\ Goto(t, "return")
  <2>1. KV!Present(k, now[t])
    BY <1>1, <1>4, StoreReads
  <2>2. n \in Nat
    BY <1>1, CallFields, NumberAssumption, SMTT(30) DEF TypeOK, ControlTypes
  <2>3. StoreView' = [StoreView EXCEPT ![k].expires_at = n]
    BY <1>1, <1>4, <2>2, StoreExpire DEF FoundFresh
  <2>4. KV!Effect(t, StoreView', <<"Ok">>)
    BY <1>1, <1>2, <1>4, TakesEffect, SMTT(30)
  <2> QED
    BY <1>1, <2>1, <2>3, <2>4 DEF KV!Expire
<1>5. \/ AnswerMissing(t, <<"NotFound">>)
      \/ FoundExpired(k, now[t]) /\ AnswerRemoving(t, <<"NotFound">>)
      \/ /\ FoundFresh(k, now[t])
         /\ entry' = [entry EXCEPT ![k].expires_at = n]
         /\ Answer(t, <<"Ok">>)
         /\ Goto(t, "return")
  BY DEF Expire
<1> QED
  BY <1>3, <1>4, <1>5

LEMMA TtlStep ==
  ASSUME TypeOK, Mapped, NEW t \in Threads, Ttl(t)
  PROVE  KV!Ttl(t, now[t])
<1> DEFINE k == call[t].key
           r == IF entry[k].expires_at = None
                THEN <<"NoExpiry">> ELSE <<"ExpiresIn", entry[k].expires_at - now[t]>>
<1>1. k \in Keys /\ now[t] \in Nat /\ call[t].op = "ttl" /\ pc[t] = "lock"
      /\ UNCHANGED <<call, now, clock>>
  BY CallFields DEF TypeOK, ControlTypes, LocalTypes, Ttl
<1>2. <<"Missing">> # NoResult /\ r # NoResult
  BY DEF NoResult
<1>3. CASE \/ AnswerMissing(t, <<"Missing">>)
           \/ FoundExpired(k, now[t]) /\ AnswerRemoving(t, <<"Missing">>)
  BY <1>1, <1>2, <1>3, Misses DEF KV!Ttl
<1>4. CASE /\ FoundFresh(k, now[t])
           /\ Answer(t, r)
           /\ Goto(t, "return")
           /\ UNCHANGED entry
  <2>1. KV!Present(k, now[t])
    BY <1>1, <1>4, StoreReads
  <2>2. StoreView[k] = [value |-> entry[k].value, expires_at |-> entry[k].expires_at]
    BY <1>1, <1>4, StoreReads DEF FoundFresh
  <2>3. KV!Effect(t, StoreView', r)
    BY <1>1, <1>2, <1>4, TakesEffect, SMTT(30)
  <2> QED
    BY <1>1, <1>4, <2>1, <2>2, <2>3, StoreKept, SMTT(30) DEF KV!Ttl
<1>5. \/ AnswerMissing(t, <<"Missing">>)
      \/ FoundExpired(k, now[t]) /\ AnswerRemoving(t, <<"Missing">>)
      \/ /\ FoundFresh(k, now[t])
         /\ Answer(t, r)
         /\ Goto(t, "return")
         /\ UNCHANGED entry
  BY DEF Ttl
<1> QED
  BY <1>3, <1>4, <1>5

\* A set that finds an expired entry lets it lapse, and is not seen otherwise.
LEMMA SetLockStep ==
  ASSUME TypeOK, Mapped, NEW t \in Threads, SetLock(t)
  PROVE  (\E k \in Keys : KV!Lapse(k)) \/ UNCHANGED KV!vars
<1> DEFINE k == call[t].key
<1>1. k \in Keys /\ clock \in Nat /\ pc[t] = "lock" /\ UNCHANGED <<call, now, clock, res>>
  BY CallFields DEF TypeOK, ControlTypes, SharedTypes, SetLock
<1>2. UNCHANGED <<PhaseView, SinceView>>
  <2>1. \E l \in {"sub", "put"} : Goto(t, l)
    BY DEF SetLock
  <2> QED
    BY <1>1, <2>1, HiddenMove, SinceKept
<1>3. CASE FoundExpired(k, clock) /\ Remove(k)
  <2>1. KV!Lapsed(k, clock)
    BY <1>1, <1>3, StoreReads
  <2>2. StoreView' = [StoreView EXCEPT ![k] = Absent]
    BY <1>1, <1>3, StoreRemove DEF Remove
  <2> QED
    BY <1>1, <1>2, <2>1, <2>2 DEF KV!Lapse
<1>4. CASE UNCHANGED entry
  BY <1>1, <1>2, <1>4, StoreKept DEF KV!vars
<1> QED
  BY <1>3, <1>4 DEF SetLock

LEMMA PutStep ==
  ASSUME TypeOK, Mapped, NEW t \in Threads, Put(t)
  PROVE  KV!Set(t)
<1> DEFINE k == call[t].key
           v == call[t].value
<1>1. call[t] \in Calls /\ call[t].op = "set" /\ pc[t] = "put"
  BY DEF TypeOK, ControlTypes, Put, SetPc
<1>2. k \in Keys /\ v \in Values
  BY <1>1, CallFields
<1>3. StoreView' = [StoreView EXCEPT ![k] = [value |-> v, expires_at |-> None]]
  BY <1>2, StorePut DEF Put
<1>4. <<"Ok">> # NoResult
  BY DEF NoResult
<1>5. KV!Effect(t, StoreView', <<"Ok">>)
  BY <1>1, <1>4, TakesEffect, SMTT(30) DEF Put
<1> QED
  BY <1>1, <1>3, <1>5 DEF KV!Set

\* Eviction forgets an entry while the set that runs it has taken effect.
LEMMA ScanStep ==
  ASSUME TypeOK, Mapped, NEW t \in Threads, Scan(t)
  PROVE  (\E k \in Keys : KV!Forget(k)) \/ UNCHANGED KV!vars
<1>1. /\ pc[t] = "scan" /\ UNCHANGED <<call, now, clock, res>>
      /\ \E l \in {"evicted", "return", "scan"} : Goto(t, l)
  BY DEF Scan, AfterEmpty
<1>2. UNCHANGED <<PhaseView, SinceView>>
  BY <1>1, HiddenMove, SinceKept
<1>3. Bounded /\ PhaseView[t] = "done" /\ call[t].op = "set"
  BY <1>1 DEF Mapped, EvictsBounded, Settled, PhaseView, TypeOK, ControlTypes, SetPc
<1>4. CASE UNCHANGED entry
  BY <1>1, <1>2, <1>4, StoreKept DEF KV!vars
<1>5. ASSUME NEW k \in Keys, entry[k] # Absent, Remove(k)
      PROVE  KV!Forget(k)
  <2>1. StoreView[k] # Absent
    BY <1>5, StoreReads
  <2>2. StoreView' = [StoreView EXCEPT ![k] = Absent]
    BY <1>5, StoreRemove DEF Remove
  <2> QED
    BY <1>1, <1>2, <1>3, <2>1, <2>2 DEF KV!Forget
<1>6. \/ UNCHANGED entry
      \/ \E k \in Keys : entry[k] # Absent /\ Remove(k)
  BY DEF Scan, Oldest, Live
<1> QED
  BY <1>4, <1>5, <1>6

\* The sweep lets entries lapse that were expired when it began.
LEMMA SweepSteps ==
  ASSUME TypeOK, Mapped, SweepStep \/ SweepLock
  PROVE  (\E k \in Keys : KV!Lapse(k)) \/ UNCHANGED KV!vars
<1>1. /\ UNCHANGED <<call, clock, res>>
      /\ \E l : Goto(Expirer, l)
      /\ now' = now \/ now' = [now EXCEPT ![Expirer] = clock] \/ now' = [now EXCEPT ![Expirer] = 0]
  BY DEF SweepStep, SweepLock, ExpirerHead, ExpirerWake, PurgeOne, Sub, PurgeDone
<1>2. UNCHANGED <<PhaseView, SinceView>>
  <2>1. \A t \in Threads : pc'[t] = pc[t] /\ now'[t] = now[t]
    BY <1>1, ThreadAssumption DEF TypeOK, ControlTypes, LocalTypes, Goto
  <2> QED
    BY <1>1, <2>1, PhaseKept, SinceKept
<1>3. CASE UNCHANGED entry
  BY <1>1, <1>2, <1>3, StoreKept DEF KV!vars
<1>4. ASSUME NEW k \in Keys, FoundExpired(k, now[Expirer]), Remove(k)
      PROVE  KV!Lapse(k)
  <2>1. FoundExpired(k, clock)
    <3>1. now[Expirer] \in Nat /\ clock \in Nat /\ now[Expirer] <= clock
      BY DEF TypeOK, LocalTypes, SharedTypes, Mapped, ReadBefore
    <3>2. entry[k].expires_at # None => entry[k].expires_at \in Nat
      BY <1>4 DEF TypeOK, SharedTypes, Entry, FoundExpired
    <3> QED
      BY <1>4, <3>1, <3>2, SMTT(30) DEF FoundExpired, IsExpired
  <2>2. KV!Lapsed(k, clock)
    BY <2>1, StoreReads DEF TypeOK, SharedTypes
  <2>3. StoreView' = [StoreView EXCEPT ![k] = Absent]
    BY <1>4, StoreRemove DEF Remove
  <2> QED
    BY <1>1, <1>2, <2>2, <2>3 DEF KV!Lapse
<1>5. \/ UNCHANGED entry
      \/ \E k \in Keys : FoundExpired(k, now[Expirer]) /\ Remove(k)
  BY DEF SweepStep, SweepLock, ExpirerHead, ExpirerWake, PurgeOne, Sub, PurgeDone, Live,
         FoundExpired
<1> QED
  BY <1>3, <1>4, <1>5

LEMMA InvokeStep ==
  ASSUME TypeOK, Mapped, NEW t \in Threads, NEW c \in Calls, Invoke(t, c)
  PROVE  KV!Begin(t, c)
<1>1. pc[t] = "idle" /\ res[t] = NoResult /\ UNCHANGED res
  BY DEF Invoke, Mapped, Settled
<1>2. PhaseView[t] = "idle" /\ PhaseView' = [PhaseView EXCEPT ![t] = "called"]
  BY <1>1, PhaseMove, SMTT(30) DEF Invoke, PhaseView
<1>3. SinceView' = IF c.op = "set" THEN SinceView ELSE [SinceView EXCEPT ![t] = clock]
  BY DEF Invoke, SinceView, TypeOK, LocalTypes
<1> QED
  BY <1>2, <1>3, StoreKept DEF Invoke, KV!Begin

LEMMA ReturnStep ==
  ASSUME TypeOK, Mapped, NEW t \in Threads, Return(t)
  PROVE  KV!Finish(t)
<1>1. /\ pc[t] = "return" /\ res[t] # NoResult /\ Goto(t, "idle")
      /\ \A u \in Threads \ {t} : res'[u] = res[u]
  BY DEF Return, Answer, Mapped, Settled, TypeOK, LocalTypes
<1>2. PhaseView[t] = "done" /\ PhaseView' = [PhaseView EXCEPT ![t] = "idle"]
  BY <1>1, PhaseMove DEF PhaseView
<1>3. SinceView' = [SinceView EXCEPT ![t] = 0]
  BY DEF Return, SinceView, TypeOK, LocalTypes
<1>4. KV!NoCall = NoCall /\ KV!NoResult = NoResult
  BY DEF KV!NoCall, KV!NoResult, NoCall, NoResult
<1> QED
  BY <1>2, <1>3, <1>4, StoreKept DEF Return, Answer, KV!Finish

\* What a set does after it wrote, and the subtraction of removed bytes.
LEMMA HiddenSteps ==
  ASSUME TypeOK, NEW t \in Threads,
         Add(t) \/ Sub(t) \/ Check(t) \/ Cursor(t) \/ EvictSub(t)
  PROVE  UNCHANGED KV!vars
<1>1. /\ pc[t] # "idle" /\ UNCHANGED <<entry, call, now, clock, res>>
      /\ \E l : l # "idle" /\ Goto(t, l)
  BY ThreadAssumption DEF Add, Sub, Check, Cursor, EvictSub
<1>2. UNCHANGED <<StoreView, PhaseView, SinceView>>
  BY <1>1, HiddenMove, SinceKept, StoreKept
<1> QED
  BY <1>1, <1>2 DEF KV!vars

\* Every step of the engine is a step of the map, or none.
LEMMA EngineStep == TypeOK /\ Mapped /\ [Next]_vars => [KV!Next]_(KV!vars)
<1> SUFFICES ASSUME TypeOK, Mapped, [Next]_vars PROVE KV!Next \/ UNCHANGED KV!vars
  OBVIOUS
<1>1. ASSUME NEW t \in Threads, NEW c \in Calls, Invoke(t, c) PROVE KV!Next
  <2>1. c \in KV!Calls
    BY DEF Calls, KV!Calls
  <2> QED
    BY <1>1, <2>1, InvokeStep DEF KV!Next
<1>2. ASSUME NEW t \in Threads, Get(t) \/ Delete(t) \/ Expire(t) \/ Ttl(t) PROVE KV!Next
  <2>1. now[t] \in SinceView[t] .. clock
    BY JudgesWithin
  <2>2. \/ KV!Get(t, now[t]) \/ KV!Delete(t, now[t])
        \/ KV!Expire(t, now[t]) \/ KV!Ttl(t, now[t])
    BY <1>2, GetStep, DeleteStep, ExpireStep, TtlStep
  <2> QED
    BY <2>1, <2>2 DEF KV!Next
<1>3. ASSUME NEW t \in Threads, SetLock(t) \/ Scan(t) PROVE KV!Next \/ UNCHANGED KV!vars
  BY <1>3, SetLockStep, ScanStep DEF KV!Next
<1>4. ASSUME NEW t \in Threads, FreeStep(t) PROVE KV!Next \/ UNCHANGED KV!vars
  BY <1>4, PutStep, ReturnStep, HiddenSteps DEF FreeStep, KV!Next
<1>5. CASE SweepStep \/ SweepLock
  BY <1>5, SweepSteps DEF KV!Next
<1>6. CASE Tick
  <2>1. UNCHANGED <<StoreView, PhaseView, SinceView>>
    BY <1>6, StoreKept, PhaseKept, SinceKept DEF Tick
  <2>2. KV!Tick
    BY <1>6, <2>1 DEF Tick, KV!Tick
  <2> QED
    BY <2>2 DEF KV!Next
<1>7. CASE Stop \/ Join \/ UNCHANGED vars
  <2>1. UNCHANGED <<entry, pc, call, now, clock, res>>
    BY <1>7 DEF Stop, Join, vars
  <2> QED
    BY <2>1, StoreKept, PhaseKept, SinceKept DEF KV!vars
<1> QED
  BY <1>1, <1>2, <1>3, <1>4, <1>5, <1>6, <1>7 DEF Next, LockStep

\* A new engine is an empty map.
LEMMA EngineInit == Init => KV!Init
BY ThreadAssumption
   DEF Init, KV!Init, StoreView, PhaseView, SinceView, NoCall, KV!NoCall, NoResult, KV!NoResult

\* The promise of the KVEngine trait (hkv-engine/src/engine.rs): whatever the
\* threads, the shards and the budget, each get, set, delete, expire and ttl of
\* MemoryEngine takes effect on one map at one moment within the call, judging
\* expiry by an instant within the call, and entries vanish only by delete, by
\* expiry, or by eviction while a set is under way.
THEOREM EngineImplementsKV == Spec => ImplementsKVEngine
<1>1. Init => Mapped /\ KV!Init
  BY MappedInit, EngineInit
<1>2. TypeOK /\ Mapped /\ [Next]_vars => Mapped' /\ [KV!Next]_(KV!vars)
  BY ReadBeforeNext, SettledNext, EvictsBoundedNext, EngineStep DEF Mapped
<1> QED
  BY <1>1, <1>2, TypeCorrect, PTL DEF Spec, ImplementsKVEngine, KV!Spec
=============================================================================

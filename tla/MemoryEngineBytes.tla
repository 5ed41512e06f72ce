-------------------------- MODULE MemoryEngineBytes --------------------------
(***************************************************************************)
(* Proofs about the byte accounting and the byte budget of MemoryEngine,    *)
(* for any number of threads, keys, shards and any budget.                  *)
(***************************************************************************)
EXTENDS MemoryEngineProofs, ByteTotalsProofs

\* A leaf goes to Zenon unless it names another prover.
USE Zenon

USE DEF Shards, Procs

\* Where a process owes used_bytes an update.
PendingPc == {"add", "sub", "evicted"}

-----------------------------------------------------------------------------
(* How a step changes the counted and the owed bytes.                      *)

\* The bytes held under a key are a natural number.
LEMMA HeldTypes ==
  ASSUME TypeOK
  PROVE  HeldBytes \in [Keys -> Nat]
BY EntryTypes DEF HeldBytes

\* A thread between writing k and adding the difference holds k's shard.
WriterHolds ==
  \A q \in Threads, k \in Keys :
     pc[q] = "add" /\ call[q].key = k => lock[ShardOf[k]] = q

\* The lock discipline gives a writer its shard.
LEMMA WriterHoldsLock == TypeOK /\ LockDiscipline => WriterHolds
<1> SUFFICES ASSUME TypeOK, LockDiscipline, NEW q \in Threads, NEW k \in Keys,
                    pc[q] = "add", call[q].key = k
             PROVE  lock[ShardOf[k]] = q
  BY DEF WriterHolds
<1>1. HomeShard(q) = ShardOf[k] /\ ShardOf[k] \in Shards
  BY CallTypes
<1> QED
  BY <1>1 DEF LockDiscipline, HoldingPc

\* A process moves where nothing is pending before or after, and what it does
\* leaves the held bytes alone.
LEMMA QuietBytes ==
  ASSUME TypeOK, LockDiscipline, TypeOK', LockDiscipline',
         NEW p \in Procs, NEW l, Goto(p, l), pc[p] \notin PendingPc, l \notin PendingPc,
         HeldBytes' = HeldBytes,
         \A q \in Threads \ {p} : call'[q] = call[q],
         \A q \in Procs \ {p} : delta'[q] = delta[q]
  PROVE  CountedBytes' = CountedBytes /\ OwedBytes' = OwedBytes
<1>0. WriterHolds /\ WriterHolds'
  BY WriterHoldsLock, PTL
<1>1. \A q \in Procs : pc'[q] = IF q = p THEN l ELSE pc[q]
  BY DEF Goto, TypeOK, ControlTypes
<1>2. ASSUME NEW k \in Keys
      PROVE  /\ Writing(k)' <=> Writing(k)
             /\ Writing(k) => delta'[lock'[ShardOf[k]]] = delta[lock[ShardOf[k]]]
  <2>1. ASSUME Writing(k) PROVE Writing(k)' /\ lock'[ShardOf[k]] = lock[ShardOf[k]]
    <3>1. PICK q \in Threads : q = lock[ShardOf[k]] /\ pc[q] = "add" /\ call[q].key = k
      BY <2>1 DEF Writing
    <3>2. pc'[q] = "add" /\ call'[q].key = k /\ q # p
      BY <1>1, <3>1 DEF PendingPc
    <3>3. lock'[ShardOf[k]] = q
      BY <1>0, <3>1, <3>2 DEF WriterHolds
    <3> QED
      BY <3>1, <3>2, <3>3 DEF Writing
  <2>2. ASSUME Writing(k)' PROVE Writing(k)
    <3>1. PICK q \in Threads : q = lock'[ShardOf[k]] /\ pc'[q] = "add" /\ call'[q].key = k
      BY <2>2 DEF Writing
    <3>2. pc[q] = "add" /\ call[q].key = k
      BY <1>1, <3>1 DEF PendingPc
    <3>3. lock[ShardOf[k]] = q
      BY <1>0, <3>1, <3>2 DEF WriterHolds
    <3> QED
      BY <3>1, <3>2, <3>3 DEF Writing
  <2>3. Writing(k) => lock[ShardOf[k]] \in Procs \ {p}
    BY DEF Writing, PendingPc
  <2> QED
    BY <2>1, <2>2, <2>3
<1>3. CountedBytes' = CountedBytes
  BY <1>2 DEF CountedBytes
<1>4. OwedBytes' = OwedBytes
  BY <1>1 DEF OwedBytes, PendingPc
<1> QED
  BY <1>3, <1>4

\* Nobody is writing a key of the shard whose lock is free, or held by a process
\* that is not at "add".
LEMMA NotWriting ==
  ASSUME TypeOK, NEW s \in Shards, NEW p \in Procs, lock[s] \in {Unlocked, p},
         pc[p] # "add", NEW k \in Keys, ShardOf[k] = s
  PROVE  ~Writing(k) /\ CountedBytes[k] = HeldBytes[k]
<1>1. ~Writing(k)
  BY ThreadAssumption DEF Writing
<1>2. HeldBytes[k] \in Nat
  BY HeldTypes
<1> QED
  BY <1>1, <1>2, SMTT(30) DEF CountedBytes

\* A process removes the entry under k: its counted bytes become owed.
LEMMA RemoveBytes ==
  ASSUME TypeOK, LockDiscipline, TypeOK', LockDiscipline',
         NEW k \in Keys, entry[k] # Absent, Remove(k),
         NEW p \in Procs, lock[ShardOf[k]] \in {Unlocked, p},
         lock'[ShardOf[k]] \in {Unlocked, p},
         NEW l \in {"sub", "evicted"}, pc[p] \notin PendingPc, Goto(p, l),
         delta' = [delta EXCEPT ![p] = entry[k].size], UNCHANGED call
  PROVE  /\ CountedBytes' = [CountedBytes EXCEPT ![k] = 0]
         /\ OwedBytes' = [OwedBytes EXCEPT ![p] = CountedBytes[k]]
         /\ OwedBytes[p] = 0
<1>0. WriterHolds /\ WriterHolds'
  BY WriterHoldsLock, PTL
<1>1. \A q \in Procs : pc'[q] = IF q = p THEN l ELSE pc[q]
  BY DEF Goto, TypeOK, ControlTypes
<1>2. HeldBytes' = [HeldBytes EXCEPT ![k] = 0] /\ HeldBytes[k] = entry[k].size
  BY DEF HeldBytes, Remove, TypeOK, SharedTypes
<1>3. HeldBytes \in [Keys -> Nat]
  BY HeldTypes
<1>4. ~Writing(k) /\ CountedBytes[k] = entry[k].size
  BY <1>2, ShardAssumption, NotWriting DEF PendingPc
<1>5. ~Writing(k)'
  BY <1>1, ThreadAssumption DEF Writing
<1>6. ASSUME NEW j \in Keys \ {k} PROVE CountedBytes'[j] = CountedBytes[j]
  <2>1. Writing(j)' <=> Writing(j)
    <3>1. \A q \in Threads : pc'[q] = "add" <=> pc[q] = "add"
      BY <1>1 DEF PendingPc
    <3> QED
      BY <1>0, <3>1 DEF Writing, WriterHolds
  <2>2. Writing(j) => /\ lock'[ShardOf[j]] = lock[ShardOf[j]]
                      /\ lock[ShardOf[j]] \in Procs \ {p}
    <3>1. SUFFICES ASSUME Writing(j)
                   PROVE  /\ lock'[ShardOf[j]] = lock[ShardOf[j]]
                          /\ lock[ShardOf[j]] \in Procs \ {p}
      OBVIOUS
    <3>2. PICK q \in Threads : q = lock[ShardOf[j]] /\ pc[q] = "add" /\ call[q].key = j
      BY <3>1 DEF Writing
    <3>3. q # p
      BY <3>2 DEF PendingPc
    <3>4. pc'[q] = "add" /\ call'[q].key = j
      BY <1>1, <3>2, <3>3
    <3> QED
      BY <1>0, <3>2, <3>3, <3>4 DEF WriterHolds
  <2>3. Writing(j) => delta'[lock'[ShardOf[j]]] = delta[lock[ShardOf[j]]]
    BY <2>2 DEF TypeOK, LocalTypes
  <2>4. HeldBytes'[j] = HeldBytes[j]
    BY <1>2, <1>3
  <2> QED
    BY <2>1, <2>3, <2>4, SMTT(30) DEF CountedBytes
<1>7. CountedBytes'[k] = 0
  BY <1>2, <1>3, <1>5, SMTT(30) DEF CountedBytes
<1>8. CountedBytes' = [CountedBytes EXCEPT ![k] = 0]
  BY <1>6, <1>7 DEF CountedBytes
<1>9. OwedBytes[p] = 0
  BY DEF OwedBytes, PendingPc
<1>10. OwedBytes' = [OwedBytes EXCEPT ![p] = entry[k].size]
  BY <1>1 DEF OwedBytes, TypeOK, LocalTypes
<1> QED
  BY <1>4, <1>8, <1>9, <1>10

\* The counted and the owed bytes are natural numbers.
LEMMA AccountTypes ==
  ASSUME TypeOK, ByteAccounting
  PROVE  /\ CountedBytes \in [Keys -> Nat] /\ Total(CountedBytes) \in Nat
         /\ OwedBytes \in [Procs -> Nat] /\ Total(OwedBytes) \in Nat
         /\ IsFiniteSet(Procs)
<1>1. IsFiniteSet(Procs)
  BY ThreadAssumption, FS_AddElement
<1>2. \A k \in Keys : CountedBytes[k] \in Int
  BY HeldTypes, SMTT(30) DEF CountedBytes, Writing, TypeOK, LocalTypes
<1>3. CountedBytes \in [Keys -> Nat]
  BY <1>2, SMTT(30) DEF CountedBytes, ByteAccounting
<1>4. \A p \in Procs : OwedBytes[p] \in Int
  BY SMTT(30) DEF OwedBytes, TypeOK, LocalTypes
<1>5. \A p \in Procs : OwedBytes[p] \in Nat
  BY <1>4, SMTT(30) DEF ByteAccounting
<1>6. OwedBytes \in [Procs -> Nat]
  BY <1>5 DEF OwedBytes
<1> QED
  BY <1>1, <1>3, <1>6, TotalNat, KeyAssumption

\* Changing one counted and one owed summand keeps the accounts balanced when
\* used_bytes changes by as much.
LEMMA Balance ==
  ASSUME TypeOK, ByteAccounting, NEW k \in Keys, NEW n \in Nat, NEW p \in Procs, NEW m \in Nat,
         CountedBytes' = [CountedBytes EXCEPT ![k] = n],
         OwedBytes' = [OwedBytes EXCEPT ![p] = m],
         used' = used + (n - CountedBytes[k]) + (m - OwedBytes[p])
  PROVE  ByteAccounting'
<1>1. /\ CountedBytes \in [Keys -> Nat] /\ Total(CountedBytes) \in Nat
      /\ OwedBytes \in [Procs -> Nat] /\ Total(OwedBytes) \in Nat
      /\ IsFiniteSet(Procs)
  BY AccountTypes
<1>2. Total(CountedBytes)' = Total(CountedBytes) - CountedBytes[k] + n
  BY <1>1, TotalUpdate, KeyAssumption
<1>3. Total(OwedBytes)' = Total(OwedBytes) - OwedBytes[p] + m
  BY <1>1, TotalUpdate, ZenonT(30)
<1>4. used = Total(CountedBytes) + Total(OwedBytes)
  BY DEF ByteAccounting
<1>5. used' = Total(CountedBytes)' + Total(OwedBytes)'
  BY <1>1, <1>2, <1>3, <1>4, SMTT(30)
<1>6. \A j \in Keys : CountedBytes'[j] >= 0
  BY <1>1, SMTT(30)
<1>7. \A q \in Procs : OwedBytes'[q] >= 0
  BY <1>1, SMTT(30)
<1> QED
  BY <1>5, <1>6, <1>7 DEF ByteAccounting

\* A step adds nothing to what used_bytes counts.
Shrinks == \A k \in Keys : CountedBytes'[k] <= CountedBytes[k]

\* A step that touches neither account.
LEMMA QuietBalances ==
  ASSUME TypeOK, ByteAccounting, UNCHANGED used,
         CountedBytes' = CountedBytes, OwedBytes' = OwedBytes
  PROVE  ByteAccounting' /\ Shrinks
<1>1. CountedBytes \in [Keys -> Nat]
  BY AccountTypes
<1> QED
  BY <1>1, SMTT(30) DEF ByteAccounting, Shrinks

\* Removing an entry moves its bytes from one account to the other.
LEMMA RemoveBalances ==
  ASSUME TypeOK, ByteAccounting, NEW k \in Keys, NEW p \in Procs, UNCHANGED used,
         CountedBytes' = [CountedBytes EXCEPT ![k] = 0],
         OwedBytes' = [OwedBytes EXCEPT ![p] = CountedBytes[k]], OwedBytes[p] = 0
  PROVE  ByteAccounting' /\ Shrinks
<1> DEFINE n == CountedBytes[k]
<1>1. n \in Nat
  BY AccountTypes
<1>2. PICK z \in Nat : z = 0
  BY SMTT(30)
<1>3. used' = used + (z - n) + (n - OwedBytes[p])
  BY <1>1, <1>2, SMTT(30) DEF TypeOK, SharedTypes
<1>4. Shrinks
  BY <1>1, AccountTypes, SMTT(30) DEF Shrinks
<1> QED
  BY <1>1, <1>2, <1>3, <1>4, Balance

-----------------------------------------------------------------------------
(* The steps that change the accounts.                                     *)

\* A set that overwrites an entry under its shard's lock changes neither account
\* until the difference is added.
LEMMA PutBytes ==
  ASSUME TypeOK, LockDiscipline, TypeOK', LockDiscipline', NEW t \in Threads, Put(t)
  PROVE  CountedBytes' = CountedBytes /\ OwedBytes' = OwedBytes
<1> DEFINE k == call[t].key
           n == EntrySize(k, call[t].value)
<1>0. WriterHolds /\ WriterHolds'
  BY WriterHoldsLock, PTL
<1>1. \A q \in Procs : pc'[q] = IF q = t THEN "add" ELSE pc[q]
  BY DEF Put, Goto, TypeOK, ControlTypes
<1>2. /\ call[t] \in Calls /\ call[t].op = "set" /\ call' = call /\ lock' = lock
      /\ k \in Keys /\ ShardOf[k] \in Shards /\ HomeShard(t) = ShardOf[k]
  BY CallTypes DEF Put, TypeOK, ControlTypes, SetPc
<1>3. lock[ShardOf[k]] = t
  BY <1>2 DEF Put, LockDiscipline, HoldingPc
<1>4. n \in Nat
  BY <1>2, KeyAssumption, CallFields, SMTT(30) DEF EntrySize
<1>5. /\ HeldBytes' = [HeldBytes EXCEPT ![k] = n]
      /\ delta' = [delta EXCEPT ![t] = n - HeldBytes[k]]
  <2>1. NewEntry(k, call[t].value) \in Entry /\ NewEntry(k, call[t].value).size = n
    BY <1>2, <1>4, CallFields DEF NewEntry, Entry
  <2>2. entry' = [entry EXCEPT ![k] = NewEntry(k, call[t].value)]
    BY DEF Put
  <2>3. HeldBytes' = [HeldBytes EXCEPT ![k] = n]
    BY <1>2, <2>1, <2>2, SentinelAssumption DEF HeldBytes, TypeOK, SharedTypes
  <2> QED
    BY <1>2, <2>3 DEF Put, OldSize, HeldBytes
<1>6. HeldBytes \in [Keys -> Nat]
  BY HeldTypes
<1>7. CountedBytes'[k] = CountedBytes[k]
  <2>1. ~Writing(k) /\ CountedBytes[k] = HeldBytes[k]
    BY <1>2, <1>3, NotWriting DEF Put
  <2>2. Writing(k)' /\ delta'[lock'[ShardOf[k]]] = n - HeldBytes[k]
    BY <1>1, <1>2, <1>3, <1>5 DEF Writing, TypeOK, LocalTypes
  <2>3. CountedBytes'[k] = n - (n - HeldBytes[k])
    BY <1>2, <1>5, <1>6, <2>2 DEF CountedBytes
  <2> QED
    BY <1>2, <1>4, <1>6, <2>1, <2>3, SMTT(30)
<1>8. ASSUME NEW j \in Keys \ {k} PROVE CountedBytes'[j] = CountedBytes[j]
  <2>1. /\ Writing(j)' <=> Writing(j)
        /\ Writing(j) => lock[ShardOf[j]] \in Procs \ {t}
    BY <1>1, <1>2 DEF Writing, Put
  <2>2. Writing(j) => delta'[lock'[ShardOf[j]]] = delta[lock[ShardOf[j]]]
    BY <1>2, <1>5, <2>1 DEF TypeOK, LocalTypes
  <2>3. HeldBytes'[j] = HeldBytes[j]
    BY <1>5, <1>6
  <2> QED
    BY <2>1, <2>2, <2>3 DEF CountedBytes
<1>9. CountedBytes' = CountedBytes
  BY <1>7, <1>8 DEF CountedBytes
<1>10. OwedBytes' = OwedBytes
  BY <1>1, <1>5 DEF OwedBytes, Put, TypeOK, LocalTypes
<1> QED
  BY <1>9, <1>10

\* The add of a set settles what it wrote.
LEMMA AddBytes ==
  ASSUME TypeOK, LockDiscipline, TypeOK', LockDiscipline', NEW t \in Threads, Add(t)
  PROVE  LET k == call[t].key IN
         /\ k \in Keys
         /\ CountedBytes' = [CountedBytes EXCEPT ![k] = HeldBytes[k]]
         /\ CountedBytes[k] = HeldBytes[k] - delta[t]
         /\ OwedBytes' = OwedBytes
<1> DEFINE k == call[t].key
<1>0. WriterHolds /\ WriterHolds'
  BY WriterHoldsLock, PTL
<1>1. \A q \in Procs : pc'[q] = IF q = t THEN "check" ELSE pc[q]
  BY DEF Add, Goto, TypeOK, ControlTypes
<1>2. /\ call' = call /\ HeldBytes' = HeldBytes
      /\ k \in Keys /\ ShardOf[k] \in Shards /\ HomeShard(t) = ShardOf[k]
  BY CallTypes DEF Add, HeldBytes
<1>3. lock[ShardOf[k]] = t /\ lock' = [lock EXCEPT ![ShardOf[k]] = Unlocked]
  BY <1>2 DEF Add, LockDiscipline, HoldingPc
<1>4. HeldBytes \in [Keys -> Nat]
  BY HeldTypes
<1>5. CountedBytes[k] = HeldBytes[k] - delta[t]
  BY <1>2, <1>3 DEF Add, CountedBytes, Writing
<1>6. CountedBytes'[k] = HeldBytes[k]
  <2>1. ~Writing(k)'
    BY <1>2, <1>3, ThreadAssumption DEF Writing, TypeOK, SharedTypes
  <2> QED
    BY <1>2, <1>4, <2>1, SMTT(30) DEF CountedBytes
<1>7. ASSUME NEW j \in Keys \ {k} PROVE CountedBytes'[j] = CountedBytes[j]
  <2>1. ASSUME Writing(j) PROVE Writing(j)' /\ lock'[ShardOf[j]] = lock[ShardOf[j]]
                                 /\ lock[ShardOf[j]] \in Procs \ {t}
    <3>1. PICK q \in Threads : q = lock[ShardOf[j]] /\ pc[q] = "add" /\ call[q].key = j
      BY <2>1 DEF Writing
    <3>2. q # t
      BY <3>1
    <3>3. pc'[q] = "add" /\ call'[q].key = j
      BY <1>1, <1>2, <3>1, <3>2
    <3>4. lock'[ShardOf[j]] = q
      BY <1>0, <3>3 DEF WriterHolds
    <3> QED
      BY <3>1, <3>2, <3>3, <3>4 DEF Writing
  <2>2. ASSUME Writing(j)' PROVE Writing(j)
    <3>1. PICK q \in Threads : q = lock'[ShardOf[j]] /\ pc'[q] = "add" /\ call'[q].key = j
      BY <2>2 DEF Writing
    <3>2. pc[q] = "add" /\ call[q].key = j
      BY <1>1, <1>2, <3>1
    <3> QED
      BY <1>0, <3>2 DEF Writing, WriterHolds
  <2>3. Writing(j) => delta'[lock'[ShardOf[j]]] = delta[lock[ShardOf[j]]]
    BY <2>1 DEF Add, TypeOK, LocalTypes
  <2> QED
    BY <1>2, <2>1, <2>2, <2>3 DEF CountedBytes
<1>8. CountedBytes' = [CountedBytes EXCEPT ![k] = HeldBytes[k]]
  BY <1>6, <1>7 DEF CountedBytes
<1>9. OwedBytes' = OwedBytes
  BY <1>1 DEF OwedBytes, Add, TypeOK, LocalTypes
<1> QED
  BY <1>2, <1>5, <1>8, <1>9

\* A process subtracts the bytes it removed.
LEMMA PayBytes ==
  ASSUME TypeOK, LockDiscipline, TypeOK', LockDiscipline',
         NEW p \in Procs, pc[p] \in {"sub", "evicted"}, NEW l, Goto(p, l),
         l \notin PendingPc, delta' = [delta EXCEPT ![p] = 0], UNCHANGED <<entry, call>>
  PROVE  /\ CountedBytes' = CountedBytes
         /\ OwedBytes' = [OwedBytes EXCEPT ![p] = 0]
         /\ OwedBytes[p] = delta[p]
<1>0. WriterHolds /\ WriterHolds'
  BY WriterHoldsLock, PTL
<1>1. \A q \in Procs : pc'[q] = IF q = p THEN l ELSE pc[q]
  BY DEF Goto, TypeOK, ControlTypes
<1>2. HeldBytes' = HeldBytes
  BY DEF HeldBytes
<1>3. ASSUME NEW j \in Keys PROVE CountedBytes'[j] = CountedBytes[j]
  <2>1. ASSUME Writing(j) PROVE Writing(j)' /\ lock'[ShardOf[j]] = lock[ShardOf[j]]
                                 /\ lock[ShardOf[j]] \in Procs \ {p}
    <3>1. PICK q \in Threads : q = lock[ShardOf[j]] /\ pc[q] = "add" /\ call[q].key = j
      BY <2>1 DEF Writing
    <3>2. q # p
      BY <3>1
    <3>3. pc'[q] = "add" /\ call'[q].key = j
      BY <1>1, <3>1, <3>2
    <3>4. lock'[ShardOf[j]] = q
      BY <1>0, <3>3 DEF WriterHolds
    <3> QED
      BY <3>1, <3>2, <3>3, <3>4 DEF Writing
  <2>2. ASSUME Writing(j)' PROVE Writing(j)
    <3>1. PICK q \in Threads : q = lock'[ShardOf[j]] /\ pc'[q] = "add" /\ call'[q].key = j
      BY <2>2 DEF Writing
    <3>2. pc[q] = "add" /\ call[q].key = j
      BY <1>1, <3>1 DEF PendingPc
    <3> QED
      BY <1>0, <3>2 DEF Writing, WriterHolds
  <2>3. Writing(j) => delta'[lock'[ShardOf[j]]] = delta[lock[ShardOf[j]]]
    BY <2>1 DEF TypeOK, LocalTypes
  <2> QED
    BY <1>2, <2>1, <2>2, <2>3, SMTT(30) DEF CountedBytes
<1>4. CountedBytes' = CountedBytes
  BY <1>3 DEF CountedBytes
<1>5. OwedBytes' = [OwedBytes EXCEPT ![p] = 0]
  BY <1>1 DEF OwedBytes, PendingPc, TypeOK, LocalTypes
<1> QED
  BY <1>4, <1>5 DEF OwedBytes

-----------------------------------------------------------------------------
(* used_bytes is exact.                                                    *)

\* An engine that has just been built holds, counts and owes nothing.
LEMMA AccountingInit == Init => ByteAccounting
<1> SUFFICES ASSUME Init PROVE ByteAccounting
  OBVIOUS
<1>1. CountedBytes = [k \in Keys |-> 0]
  BY ThreadAssumption, ShardAssumption, SMTT(30) DEF Init, CountedBytes, HeldBytes, Writing
<1>2. OwedBytes = [p \in Procs |-> 0]
  BY DEF Init, OwedBytes
<1>3. Total(CountedBytes) = 0
  BY <1>1, TotalZero
<1>4. Total(OwedBytes) = 0
  BY <1>2, TotalZero
<1> QED
  BY <1>1, <1>2, <1>3, <1>4, SMTT(30) DEF ByteAccounting, Init

\* A lookup that misses, or that removes the entry it found.
LEMMA AnswerAccounting ==
  ASSUME TypeOK, LockDiscipline, ByteAccounting, TypeOK', LockDiscipline',
         NEW t \in Threads, pc[t] = "lock", NEW r, UNCHANGED <<used, call>>,
         AnswerMissing(t, r) \/ (entry[call[t].key] # Absent /\ AnswerRemoving(t, r))
  PROVE  ByteAccounting' /\ Shrinks
<1> DEFINE k == call[t].key
<1>1. k \in Keys /\ ShardOf[k] \in Shards
  BY CallTypes
<1>2. CASE AnswerMissing(t, r)
  <2>1. HeldBytes' = HeldBytes
    BY <1>2 DEF AnswerMissing, HeldBytes
  <2>2. CountedBytes' = CountedBytes /\ OwedBytes' = OwedBytes
    BY <1>2, <2>1, QuietBytes DEF AnswerMissing, PendingPc
  <2> QED
    BY <2>2, QuietBalances
<1>3. CASE entry[k] # Absent /\ AnswerRemoving(t, r)
  <2>1. /\ Remove(k) /\ delta' = [delta EXCEPT ![t] = entry[k].size] /\ Goto(t, "sub")
        /\ lock[ShardOf[k]] = Unlocked /\ lock'[ShardOf[k]] = t
    BY <1>1, <1>3 DEF AnswerRemoving, Acquire, TypeOK, SharedTypes
  <2>2. /\ CountedBytes' = [CountedBytes EXCEPT ![k] = 0]
        /\ OwedBytes' = [OwedBytes EXCEPT ![t] = CountedBytes[k]]
        /\ OwedBytes[t] = 0
    BY <1>1, <1>3, <2>1, RemoveBytes DEF PendingPc
  <2> QED
    BY <1>1, <2>2, RemoveBalances
<1> QED
  BY <1>2, <1>3

\* Every step keeps used_bytes exact, and only the add of a set raises what it
\* counts.
LEMMA AccountingNext ==
  ASSUME TypeOK, LockDiscipline, ByteAccounting, TypeOK', LockDiscipline', [Next]_vars
  PROVE  ByteAccounting' /\ (Shrinks \/ \E t \in Threads : Add(t))
<1>1. ASSUME NEW t \in Threads, NEW c \in Calls, Invoke(t, c) PROVE ByteAccounting' /\ Shrinks
  <2>1. HeldBytes' = HeldBytes
    BY <1>1 DEF Invoke, HeldBytes
  <2>2. CountedBytes' = CountedBytes /\ OwedBytes' = OwedBytes
    BY <1>1, <2>1, QuietBytes DEF Invoke, PendingPc, TypeOK, ControlTypes
  <2> QED
    BY <1>1, <2>2, QuietBalances DEF Invoke
<1>2. ASSUME NEW t \in Threads, Get(t) PROVE ByteAccounting' /\ Shrinks
  <2> DEFINE k == call[t].key
  <2>1. pc[t] = "lock" /\ UNCHANGED <<used, call>>
    BY <1>2 DEF Get
  <2>2. CASE AnswerMissing(t, <<"None">>) \/ (entry[k] # Absent /\ AnswerRemoving(t, <<"None">>))
    BY <2>1, <2>2, AnswerAccounting
  <2>3. CASE FoundFresh(k, now[t]) /\ Goto(t, "return") /\ UNCHANGED <<entry, delta>>
    <3>1. HeldBytes' = HeldBytes
      BY <2>3 DEF HeldBytes
    <3>2. CountedBytes' = CountedBytes /\ OwedBytes' = OwedBytes
      BY <2>1, <2>3, <3>1, QuietBytes DEF PendingPc
    <3> QED
      BY <2>1, <3>2, QuietBalances
  <2> QED
    BY <1>2, <2>2, <2>3 DEF Get, FoundExpired
<1>3. ASSUME NEW t \in Threads, Delete(t) PROVE ByteAccounting' /\ Shrinks
  <2>1. pc[t] = "lock" /\ UNCHANGED <<used, call>>
    BY <1>3 DEF Delete
  <2> QED
    BY <1>3, <2>1, AnswerAccounting DEF Delete, FoundExpired, FoundFresh
<1>4. ASSUME NEW t \in Threads, Expire(t) PROVE ByteAccounting' /\ Shrinks
  <2> DEFINE k == call[t].key
  <2>1. pc[t] = "lock" /\ UNCHANGED <<used, call>>
    BY <1>4 DEF Expire
  <2>2. CASE AnswerMissing(t, <<"NotFound">>)
               \/ (entry[k] # Absent /\ AnswerRemoving(t, <<"NotFound">>))
    BY <2>1, <2>2, AnswerAccounting
  <2>3. CASE /\ FoundFresh(k, now[t]) /\ Goto(t, "return") /\ UNCHANGED delta
             /\ entry' = [entry EXCEPT ![k].expires_at = now[t] + call[t].ttl]
    <3>1. k \in Keys
      BY <2>1, CallTypes
    <3>2. entry[k] \in Entry /\ entry \in [Keys -> Entry \cup {Absent}]
      BY <2>3, <3>1, EntryTypes DEF FoundFresh, TypeOK, SharedTypes
    <3>3. [entry[k] EXCEPT !.expires_at = now[t] + call[t].ttl] \in Entry
      BY <1>4, <2>1, <3>2, CallTypes, SMTT(30) DEF Expire, Entry, TypeOK, LocalTypes
    <3>4. entry'[k] # Absent /\ entry'[k].size = entry[k].size
      BY <2>3, <3>1, <3>2, <3>3, SentinelAssumption DEF Entry
    <3>5. HeldBytes' = HeldBytes
      BY <2>3, <3>2, <3>4 DEF HeldBytes, FoundFresh
    <3>6. CountedBytes' = CountedBytes /\ OwedBytes' = OwedBytes
      BY <2>1, <2>3, <3>5, QuietBytes DEF PendingPc
    <3> QED
      BY <2>1, <3>6, QuietBalances
  <2> QED
    BY <1>4, <2>2, <2>3 DEF Expire, FoundExpired
<1>5. ASSUME NEW t \in Threads, Ttl(t) PROVE ByteAccounting' /\ Shrinks
  <2> DEFINE k == call[t].key
  <2>1. pc[t] = "lock" /\ UNCHANGED <<used, call>>
    BY <1>5 DEF Ttl
  <2>2. CASE AnswerMissing(t, <<"Missing">>) \/ (entry[k] # Absent /\ AnswerRemoving(t, <<"Missing">>))
    BY <2>1, <2>2, AnswerAccounting
  <2>3. CASE FoundFresh(k, now[t]) /\ Goto(t, "return") /\ UNCHANGED <<entry, delta>>
    <3>1. HeldBytes' = HeldBytes
      BY <2>3 DEF HeldBytes
    <3>2. CountedBytes' = CountedBytes /\ OwedBytes' = OwedBytes
      BY <2>1, <2>3, <3>1, QuietBytes DEF PendingPc
    <3> QED
      BY <2>1, <3>2, QuietBalances
  <2> QED
    BY <1>5, <2>2, <2>3 DEF Ttl, FoundExpired
<1>6. ASSUME NEW t \in Threads, SetLock(t) PROVE ByteAccounting' /\ Shrinks
  <2> DEFINE k == call[t].key
  <2>1. /\ pc[t] = "lock" /\ UNCHANGED <<used, call>> /\ k \in Keys /\ ShardOf[k] \in Shards
        /\ lock[ShardOf[k]] = Unlocked /\ lock'[ShardOf[k]] = t
    BY <1>6, CallTypes DEF SetLock, Acquire, TypeOK, SharedTypes
  <2>2. CASE /\ entry[k] # Absent /\ Remove(k) /\ Goto(t, "sub")
             /\ delta' = [delta EXCEPT ![t] = entry[k].size]
    <3>1. /\ CountedBytes' = [CountedBytes EXCEPT ![k] = 0]
          /\ OwedBytes' = [OwedBytes EXCEPT ![t] = CountedBytes[k]]
          /\ OwedBytes[t] = 0
      BY <2>1, <2>2, RemoveBytes DEF PendingPc
    <3> QED
      BY <2>1, <3>1, RemoveBalances
  <2>3. CASE Goto(t, "put") /\ UNCHANGED <<entry, delta>>
    <3>1. HeldBytes' = HeldBytes
      BY <2>3 DEF HeldBytes
    <3>2. CountedBytes' = CountedBytes /\ OwedBytes' = OwedBytes
      BY <2>1, <2>3, <3>1, QuietBytes DEF PendingPc
    <3> QED
      BY <2>1, <3>2, QuietBalances
  <2> QED
    BY <1>6, <2>2, <2>3 DEF SetLock, FoundExpired
<1>7. ASSUME NEW t \in Threads, Put(t) PROVE ByteAccounting' /\ Shrinks
  BY <1>7, PutBytes, QuietBalances DEF Put
<1>8. ASSUME NEW t \in Threads, Add(t) PROVE ByteAccounting'
  <2> DEFINE k == call[t].key
  <2>1. /\ k \in Keys
        /\ CountedBytes' = [CountedBytes EXCEPT ![k] = HeldBytes[k]]
        /\ CountedBytes[k] = HeldBytes[k] - delta[t]
        /\ OwedBytes' = OwedBytes
    BY <1>8, AddBytes
  <2>2. HeldBytes[k] \in Nat /\ delta[t] \in Int /\ used \in Int
    BY <2>1, HeldTypes DEF TypeOK, LocalTypes, SharedTypes
  <2>3. OwedBytes[t] \in Nat /\ OwedBytes' = [OwedBytes EXCEPT ![t] = OwedBytes[t]]
    BY <2>1, AccountTypes
  <2>4. used' = used + (HeldBytes[k] - CountedBytes[k]) + (OwedBytes[t] - OwedBytes[t])
    BY <1>8, <2>1, <2>2, <2>3, SMTT(30) DEF Add
  <2> QED
    BY <2>1, <2>2, <2>3, <2>4, Balance
<1>9. ASSUME NEW p \in Procs, pc[p] \in {"sub", "evicted"}, NEW l, Goto(p, l),
             l \notin PendingPc, delta' = [delta EXCEPT ![p] = 0],
             UNCHANGED <<entry, call>>, used' = used - delta[p]
      PROVE  ByteAccounting' /\ Shrinks
  <2>1. /\ CountedBytes' = CountedBytes
        /\ OwedBytes' = [OwedBytes EXCEPT ![p] = 0]
        /\ OwedBytes[p] = delta[p]
    BY <1>9, PayBytes
  <2>2. /\ CountedBytes \in [Keys -> Nat] /\ Total(CountedBytes) \in Nat
        /\ OwedBytes \in [Procs -> Nat] /\ Total(OwedBytes) \in Nat
        /\ IsFiniteSet(Procs)
    BY AccountTypes
  <2>3. Total(OwedBytes) = Total(OwedBytes') + delta[p] /\ Total(OwedBytes') \in Nat
    BY <2>1, <2>2, TotalSplit, TotalNat
  <2>4. used' = Total(CountedBytes') + Total(OwedBytes')
    BY <1>9, <2>1, <2>2, <2>3, SMTT(30) DEF ByteAccounting
  <2>5. \A q \in Procs : OwedBytes'[q] >= 0
    BY <2>1, <2>2, SMTT(30)
  <2>6. Shrinks
    BY <2>1, <2>2, SMTT(30) DEF Shrinks
  <2> QED
    BY <2>1, <2>2, <2>4, <2>5, <2>6 DEF ByteAccounting
<1>10. ASSUME NEW p \in Procs, Sub(p) PROVE ByteAccounting' /\ Shrinks
  <2>1. PICK l \in {"purge", "put", "return"} : Goto(p, l)
    BY <1>10 DEF Sub
  <2> QED
    BY <1>9, <1>10, <2>1 DEF Sub, PendingPc
<1>11. ASSUME NEW t \in Threads, EvictSub(t) PROVE ByteAccounting' /\ Shrinks
  BY <1>9, <1>11 DEF EvictSub, PendingPc
<1>12. ASSUME NEW t \in Threads, Scan(t) PROVE ByteAccounting' /\ Shrinks
  <2>1. pc[t] = "scan" /\ UNCHANGED <<used, call, lock>>
    BY <1>12 DEF Scan, AcquireAndRelease
  <2> DEFINE s == (start[t] + offset[t]) % NumShards
  <2>2. ASSUME NEW k \in Keys, Oldest(older[s], Live(s), k), Remove(k), lock[s] = Unlocked,
               delta' = [delta EXCEPT ![t] = entry[k].size], Goto(t, "evicted")
        PROVE  ByteAccounting' /\ Shrinks
    <3>1. entry[k] # Absent /\ ShardOf[k] = s
      BY <2>2 DEF Oldest, Live
    <3>2. /\ CountedBytes' = [CountedBytes EXCEPT ![k] = 0]
          /\ OwedBytes' = [OwedBytes EXCEPT ![t] = CountedBytes[k]]
          /\ OwedBytes[t] = 0
      BY <2>1, <2>2, <3>1, RemoveBytes DEF PendingPc
    <3> QED
      BY <2>1, <3>2, RemoveBalances
  <2>3. ASSUME NEW l \in {"scan", "return"}, Goto(t, l), UNCHANGED <<entry, delta>>
        PROVE  ByteAccounting' /\ Shrinks
    <3>1. HeldBytes' = HeldBytes
      BY <2>3 DEF HeldBytes
    <3>2. CountedBytes' = CountedBytes /\ OwedBytes' = OwedBytes
      BY <2>1, <2>3, <3>1, QuietBytes DEF PendingPc
    <3> QED
      BY <2>1, <3>2, QuietBalances
  <2> QED
    BY <1>12, <2>2, <2>3 DEF Scan, AfterEmpty, AcquireAndRelease
<1>13. ASSUME PurgeOne PROVE ByteAccounting' /\ Shrinks
  <2>1. PICK k \in Live(offset[Expirer]) :
           Remove(k) /\ delta' = [delta EXCEPT ![Expirer] = entry[k].size]
    BY <1>13 DEF PurgeOne
  <2>2. /\ pc[Expirer] = "purge" /\ Goto(Expirer, "sub") /\ UNCHANGED <<used, call, lock>>
        /\ k \in Keys /\ entry[k] # Absent /\ ShardOf[k] = offset[Expirer]
    BY <1>13, <2>1 DEF PurgeOne, Live
  <2>3. lock[ShardOf[k]] = Expirer
    BY <2>2, ShardAssumption DEF LockDiscipline, HoldingPc, HomeShard
  <2>4. /\ CountedBytes' = [CountedBytes EXCEPT ![k] = 0]
        /\ OwedBytes' = [OwedBytes EXCEPT ![Expirer] = CountedBytes[k]]
        /\ OwedBytes[Expirer] = 0
    BY <2>1, <2>2, <2>3, RemoveBytes DEF PendingPc
  <2> QED
    BY <2>2, <2>4, RemoveBalances
<1>14. ASSUME NEW p \in Procs, pc[p] \notin PendingPc, NEW l, l \notin PendingPc, Goto(p, l),
              \A q \in Threads \ {p} : call'[q] = call[q],
              \A q \in Procs \ {p} : delta'[q] = delta[q], UNCHANGED <<entry, used>>
       PROVE  ByteAccounting' /\ Shrinks
  <2>1. HeldBytes' = HeldBytes
    BY <1>14 DEF HeldBytes
  <2>2. CountedBytes' = CountedBytes /\ OwedBytes' = OwedBytes
    BY <1>14, <2>1, QuietBytes
  <2> QED
    BY <1>14, <2>2, QuietBalances
<1>15. ASSUME NEW t \in Threads, Return(t) PROVE ByteAccounting' /\ Shrinks
  BY <1>14, <1>15 DEF Return, PendingPc, TypeOK, ControlTypes, LocalTypes
<1>16. ASSUME NEW t \in Threads, Check(t) PROVE ByteAccounting' /\ Shrinks
  BY <1>14, <1>16 DEF Check, PendingPc
<1>17. ASSUME NEW t \in Threads, Cursor(t) PROVE ByteAccounting' /\ Shrinks
  BY <1>14, <1>17 DEF Cursor, PendingPc
<1>18. ASSUME ExpirerHead \/ ExpirerWake \/ SweepLock \/ PurgeDone PROVE ByteAccounting' /\ Shrinks
  BY <1>14, <1>18 DEF ExpirerHead, ExpirerWake, SweepLock, PurgeDone, PendingPc
<1>19. CASE Stop \/ Join \/ Tick \/ UNCHANGED vars
  <2>1. CountedBytes' = CountedBytes /\ OwedBytes' = OwedBytes /\ UNCHANGED used
    BY <1>19 DEF Stop, Join, Tick, vars, CountedBytes, OwedBytes, HeldBytes, Writing
  <2> QED
    BY <2>1, QuietBalances
<1> QED
  BY <1>1, <1>2, <1>3, <1>4, <1>5, <1>6, <1>7, <1>8, <1>10, <1>11, <1>12, <1>13,
     <1>15, <1>16, <1>17, <1>18, <1>19
  DEF Next, LockStep, FreeStep, SweepStep

\* used_bytes never drifts, for any number of threads, keys and shards: at every
\* instant it is the bytes held and already added plus the bytes removed and
\* not yet subtracted, whatever set, get, delete, expire, ttl, eviction and
\* the expirer do to each other.
THEOREM BytesExact == Spec => []ByteAccounting
<1>1. Init => ByteAccounting
  BY AccountingInit
<1>2. TypeOK /\ LockDiscipline /\ ByteAccounting /\ TypeOK' /\ LockDiscipline' /\ [Next]_vars
        => ByteAccounting'
  BY AccountingNext
<1> QED
  BY <1>1, <1>2, TypeCorrect, LocksHeldInside, PTL DEF Spec

-----------------------------------------------------------------------------
(* What used_bytes counts.                                                 *)

\* What used_bytes counts is a natural number per key, and no more than used_bytes.
CountedTyped ==
  /\ CountedBytes \in [Keys -> Nat]
  /\ Total(CountedBytes) \in Nat
  /\ Total(CountedBytes) <= used

\* The accounting invariant bounds what is counted by used_bytes.
LEMMA CountedFacts == TypeOK /\ ByteAccounting => CountedTyped
<1> SUFFICES ASSUME TypeOK, ByteAccounting PROVE CountedTyped
  OBVIOUS
<1>1. /\ CountedBytes \in [Keys -> Nat] /\ Total(CountedBytes) \in Nat
      /\ Total(OwedBytes) \in Nat
  BY AccountTypes
<1> QED
  BY <1>1, SMTT(30) DEF CountedTyped, ByteAccounting

\* A step that raises no summand does not raise the total.
LEMMA TotalShrinks ==
  ASSUME CountedTyped, CountedTyped', Shrinks
  PROVE  Total(CountedBytes)' <= Total(CountedBytes)
BY TotalMonotone, KeyAssumption DEF CountedTyped, Shrinks

-----------------------------------------------------------------------------
(* Watching the budget.                                                    *)

\* A round of NumShards shards visits every shard, wherever it starts.
LEMMA RoundCovers ==
  ASSUME NEW s \in Shards, NEW b \in Shards
  PROVE  \E o \in Shards : (b + o) % NumShards = s
<1>1. NumShards \in Nat \ {0}
  BY ShardAssumption
<1>2. CASE b <= s
  <2>1. s - b \in Shards /\ b + (s - b) = s
    BY <1>1, <1>2, SMTT(30)
  <2>2. s % NumShards = s
    BY <1>1, SMT
  <2> QED
    BY <2>1, <2>2
<1>3. CASE s < b
  <2>1. s + NumShards - b \in Shards /\ b + (s + NumShards - b) = s + NumShards
    BY <1>1, <1>3, SMTT(30)
  <2>2. (s + NumShards) % NumShards = s
    BY <1>1, SMT
  <2> QED
    BY <2>1, <2>2
<1> QED
  BY <1>1, <1>2, <1>3, SMTT(30)

\* A step of another process that raises nothing leaves a watching set watching.
LEMMA WatchKept ==
  ASSUME CountedTyped, CountedTyped', Shrinks, NEW t \in Threads, Watching(t),
         pc'[t] = pc[t], start'[t] = start[t], offset'[t] = offset[t]
  PROVE  Watching(t)'
<1>1. \A k \in Keys : CountedBytes[k] = 0 => CountedBytes'[k] = 0
  BY SMTT(30) DEF CountedTyped, Shrinks
<1> QED
  BY <1>1 DEF Watching

\* The places of evict_if_needed.
EvictingPc == {"check", "cursor", "scan", "evicted"}

\* A thread inside evict_if_needed is moved only by its own four steps.
LEMMA EvictingSteps ==
  ASSUME TypeOK, [Next]_vars, NEW t \in Threads, pc[t] \in EvictingPc
  PROVE  \/ Check(t) \/ Cursor(t) \/ Scan(t) \/ EvictSub(t)
         \/ pc'[t] = pc[t] /\ start'[t] = start[t] /\ offset'[t] = offset[t]
<1> USE DEF EvictingPc, TypeOK, ControlTypes, LocalTypes, Goto
<1>1. ASSUME NEW q \in Threads, NEW c \in Calls, Invoke(q, c)
      PROVE  pc'[t] = pc[t] /\ start'[t] = start[t] /\ offset'[t] = offset[t]
  BY <1>1 DEF Invoke
<1>2. ASSUME NEW q \in Threads, Get(q) \/ Delete(q) \/ Expire(q) \/ Ttl(q) \/ SetLock(q)
      PROVE  pc'[t] = pc[t] /\ start'[t] = start[t] /\ offset'[t] = offset[t]
  <2>1. pc[q] = "lock" /\ UNCHANGED <<start, offset>> /\ \E l \in ClientPc : Goto(q, l)
    BY <1>2 DEF Get, Delete, Expire, Ttl, SetLock, AnswerMissing, AnswerRemoving, ClientPc
  <2> QED
    BY <2>1
<1>3. ASSUME NEW q \in Threads, q # t, Check(q) \/ Cursor(q) \/ Scan(q) \/ EvictSub(q)
      PROVE  pc'[t] = pc[t] /\ start'[t] = start[t] /\ offset'[t] = offset[t]
  BY <1>3 DEF Check, Cursor, Scan, EvictSub
<1>4. ASSUME NEW q \in Threads, Put(q) \/ Add(q) \/ Return(q)
      PROVE  pc'[t] = pc[t] /\ start'[t] = start[t] /\ offset'[t] = offset[t]
  BY <1>4 DEF Put, Add, Return
<1>5. ASSUME NEW q \in Procs, Sub(q)
      PROVE  pc'[t] = pc[t] /\ start'[t] = start[t] /\ offset'[t] = offset[t]
  BY <1>5 DEF Sub
<1>6. ASSUME ExpirerHead \/ ExpirerWake \/ SweepLock \/ PurgeOne \/ PurgeDone
      PROVE  pc'[t] = pc[t] /\ start'[t] = start[t] /\ offset'[t] = offset[t]
  BY <1>6, ThreadAssumption DEF ExpirerHead, ExpirerWake, SweepLock, PurgeOne, PurgeDone
<1>7. CASE Stop \/ Join \/ Tick \/ UNCHANGED vars
  BY <1>7 DEF Stop, Join, Tick, vars
<1> QED
  BY <1>1, <1>2, <1>3, <1>4, <1>5, <1>6, <1>7
  DEF Next, LockStep, FreeStep, SweepStep

\* A shard found empty with its lock free counts for nothing.
LEMMA EmptyShard ==
  ASSUME TypeOK, ByteAccounting, NEW s \in Shards, lock[s] = Unlocked, Live(s) = {},
         NEW k \in Keys, ShardOf[k] = s
  PROVE  CountedBytes[k] = 0
<1>1. HeldBytes[k] = 0
  BY DEF Live, HeldBytes
<1>2. ~Writing(k)
  BY ThreadAssumption DEF Writing
<1> QED
  BY <1>1, <1>2, SMTT(30) DEF CountedBytes

\* A watching set that moves on keeps watching, unless the budget is met.
LEMMA WatcherMoves ==
  ASSUME TypeOK, LockDiscipline, ByteAccounting, TypeOK', ByteAccounting',
         CountedTyped, CountedTyped', Shrinks, Bounded, NEW t \in Threads, Watching(t),
         Total(CountedBytes) > MaxBytes,
         Check(t) \/ Cursor(t) \/ Scan(t) \/ EvictSub(t)
  PROVE  Watching(t)'
<1>0. MaxBytes \in Nat /\ NumShards \in Nat \ {0} /\ used \in Int
  BY NumberAssumption, ShardAssumption, SMTT(30) DEF TypeOK, SharedTypes
<1>1. CASE Check(t)
  <2>1. used > MaxBytes
    BY <1>0, SMTT(30) DEF CountedTyped
  <2>2. Goto(t, "cursor")
    BY <1>0, <1>1, <2>1, SMTT(30) DEF Check, Bounded
  <2> QED
    BY <2>2 DEF Goto, Watching, TypeOK, ControlTypes
<1>2. CASE Cursor(t)
  <2>1. pc'[t] = "scan" /\ offset'[t] = 0
    BY <1>2 DEF Cursor, Goto, TypeOK, ControlTypes, LocalTypes
  <2> QED
    BY <2>1, SMTT(30) DEF Watching
<1>3. CASE EvictSub(t)
  <2>1. pc'[t] = "check"
    BY <1>3 DEF EvictSub, Goto, TypeOK, ControlTypes
  <2> QED
    BY <2>1 DEF Watching
<1>4. CASE Scan(t)
  <2> DEFINE s == (start[t] + offset[t]) % NumShards
  <2>0. /\ pc[t] = "scan" /\ start[t] \in Shards /\ offset[t] \in Shards /\ s \in Shards
        /\ start' = start /\ lock[s] = Unlocked
    <3>1. pc[t] = "scan" /\ start' = start /\ lock[s] = Unlocked
      BY <1>4 DEF Scan, AcquireAndRelease
    <3>2. start[t] \in Shards /\ offset[t] \in Shards
      BY <3>1 DEF TypeOK, LocalTypes
    <3>3. start[t] + offset[t] \in Nat
      BY <1>0, <3>2, SMTT(30)
    <3> QED
      BY <1>0, <3>1, <3>2, <3>3, ModRange
  <2>1. CASE Goto(t, "evicted")
    <3>1. pc'[t] = "evicted"
      BY <2>1 DEF Goto, TypeOK, ControlTypes
    <3> QED
      BY <3>1 DEF Watching
  <2>2. CASE /\ Live(s) = {} /\ offset' = [offset EXCEPT ![t] = @ + 1]
             /\ Goto(t, IF offset[t] + 1 = NumShards THEN "return" ELSE "scan")
    <3>1. \A o \in 0 .. offset[t], k \in Keys :
             ShardOf[k] = (start[t] + o) % NumShards => CountedBytes[k] = 0
      <4>1. \A k \in Keys : ShardOf[k] = s => CountedBytes[k] = 0
        BY <2>0, <2>2, EmptyShard
      <4>2. \A o \in 0 .. offset[t] - 1, k \in Keys :
               ShardOf[k] = (start[t] + o) % NumShards => CountedBytes[k] = 0
        BY <2>0 DEF Watching
      <4>3. \A o \in 0 .. offset[t] : o \in 0 .. offset[t] - 1 \/ o = offset[t]
        BY <2>0, SMTT(30)
      <4> QED
        BY <4>1, <4>2, <4>3
    <3>2. offset[t] + 1 # NumShards
      <4>1. SUFFICES ASSUME offset[t] + 1 = NumShards PROVE FALSE
        OBVIOUS
      <4>2. 0 .. offset[t] = Shards
        BY <2>0, <4>1, SMTT(30)
      <4>3. \A k \in Keys : CountedBytes[k] = 0
        <5>1. TAKE k \in Keys
        <5>2. ShardOf[k] \in Shards
          BY ShardAssumption
        <5>3. PICK o \in Shards : (start[t] + o) % NumShards = ShardOf[k]
          BY <2>0, <5>2, RoundCovers
        <5> QED
          BY <3>1, <4>2, <5>3
      <4>4. Total(CountedBytes) = 0
        BY <4>3, TotalZero DEF CountedTyped
      <4> QED
        BY <1>0, <4>4, SMTT(30)
    <3>3. pc'[t] = "scan" /\ offset'[t] = offset[t] + 1
      BY <2>2, <3>2 DEF Goto, TypeOK, ControlTypes, LocalTypes
    <3>4. \A k \in Keys : CountedBytes[k] = 0 => CountedBytes'[k] = 0
      BY SMTT(30) DEF CountedTyped, Shrinks
    <3>5. offset'[t] - 1 = offset[t]
      BY <2>0, <3>3, SMTT(30)
    <3> QED
      BY <2>0, <3>1, <3>3, <3>4, <3>5 DEF Watching
  <2> QED
    BY <1>4, <2>1, <2>2 DEF Scan, AfterEmpty
<1> QED
  BY <1>1, <1>2, <1>3, <1>4

-----------------------------------------------------------------------------
(* The budget.                                                             *)

\* Every step leaves somebody watching while the budget is exceeded.
LEMMA BudgetNext ==
  ASSUME TypeOK, LockDiscipline, ByteAccounting, BudgetWatched,
         TypeOK', LockDiscipline', ByteAccounting', [Next]_vars
  PROVE  BudgetWatched'
<1> SUFFICES ASSUME Bounded, Total(CountedBytes)' > MaxBytes
             PROVE  \E t \in Threads : Watching(t)'
  BY DEF BudgetWatched, Bounded
<1>0. CountedTyped /\ CountedTyped'
  BY CountedFacts, PTL
<1>1. CASE \E t \in Threads : Add(t)
  BY <1>1 DEF Add, Goto, Watching, TypeOK, ControlTypes
<1>2. CASE Shrinks
  <2>1. Total(CountedBytes) > MaxBytes
    BY <1>0, <1>2, TotalShrinks, NumberAssumption, SMTT(30) DEF CountedTyped
  <2>2. PICK t \in Threads : Watching(t)
    BY <2>1 DEF BudgetWatched
  <2>3. pc[t] \in EvictingPc
    BY <2>2 DEF Watching, EvictingPc
  <2>4. CASE pc'[t] = pc[t] /\ start'[t] = start[t] /\ offset'[t] = offset[t]
    BY <1>0, <1>2, <2>2, <2>4, WatchKept
  <2>5. CASE Check(t) \/ Cursor(t) \/ Scan(t) \/ EvictSub(t)
    BY <1>0, <1>2, <2>1, <2>2, <2>5, WatcherMoves
  <2> QED
    BY <2>3, <2>4, <2>5, EvictingSteps
<1> QED
  BY <1>1, <1>2, AccountingNext

\* Nothing is counted, and so nothing is over budget, in a new engine.
LEMMA BudgetInit == Init /\ TypeOK /\ ByteAccounting => BudgetWatched
<1> SUFFICES ASSUME Init, TypeOK, ByteAccounting PROVE Total(CountedBytes) <= MaxBytes
  BY NumberAssumption, CountedFacts, SMTT(30) DEF BudgetWatched, CountedTyped
<1> QED
  BY CountedFacts, NumberAssumption, SMTT(30) DEF Init, CountedTyped

\* With every thread idle, everything held is counted and nobody is watching.
LEMMA IdleBudget == TypeOK /\ ByteAccounting /\ BudgetWatched => WithinBudget
<1> SUFFICES ASSUME TypeOK, ByteAccounting, BudgetWatched, Bounded,
                    \A t \in Threads : pc[t] = "idle"
             PROVE  Total(HeldBytes) <= MaxBytes
  BY DEF WithinBudget
<1>1. HeldBytes \in [Keys -> Nat]
  BY HeldTypes
<1>2. \A k \in Keys : CountedBytes[k] = HeldBytes[k]
  BY <1>1, SMTT(30) DEF CountedBytes, Writing
<1>3. CountedBytes = HeldBytes
  BY <1>2 DEF CountedBytes, HeldBytes
<1>4. ~(Total(CountedBytes) > MaxBytes)
  BY DEF BudgetWatched, Watching
<1> QED
  BY <1>3, <1>4, CountedFacts, NumberAssumption, SMTT(30) DEF CountedTyped

\* While more than the budget is counted, some set is about to look at used_bytes
\* again, or is in a round in which no shard it has passed counts anything.
THEOREM BudgetIsWatched == Spec => []BudgetWatched
<1>1. Init /\ TypeOK /\ ByteAccounting => BudgetWatched
  BY BudgetInit
<1>2. TypeOK /\ LockDiscipline /\ ByteAccounting /\ BudgetWatched
        /\ TypeOK' /\ LockDiscipline' /\ ByteAccounting' /\ [Next]_vars
        => BudgetWatched'
  BY BudgetNext
<1> QED
  BY <1>1, <1>2, TypeCorrect, LocksHeldInside, BytesExact, PTL DEF Spec

\* The engine is within its budget whenever no operation is under way: the last
\* set to leave evict_if_needed saw used_bytes at or below the budget after
\* everything was added, or found every shard empty.
THEOREM BudgetKept == Spec => []WithinBudget
<1>1. TypeOK /\ ByteAccounting /\ BudgetWatched => WithinBudget
  BY IdleBudget
<1> QED
  BY <1>1, TypeCorrect, BytesExact, BudgetIsWatched, PTL

-----------------------------------------------------------------------------
(* By how much the budget is exceeded.                                     *)

\* What a set wrote is what its key holds until it is counted.
WroteSize ==
  \A t \in Threads :
    pc[t] = "add" => HeldBytes[call[t].key] = EntrySize(call[t].key, call[t].value)

\* An entry changes only in the hands of a process that holds its shard, or finds
\* it free, and has no difference to add.
LEMMA EntryChanges ==
  ASSUME TypeOK, LockDiscipline, [Next]_vars, NEW k \in Keys, entry'[k] # entry[k]
  PROVE  \E p \in Procs : lock[ShardOf[k]] \in {Unlocked, p} /\ pc[p] # "add"
<1>0. entry \in [Keys -> Entry \cup {Absent}] /\ ShardOf[k] \in Shards
  BY ShardAssumption DEF TypeOK, SharedTypes
<1>1. ASSUME NEW t \in Threads, Get(t) \/ Delete(t) \/ Expire(t) \/ Ttl(t) \/ SetLock(t)
      PROVE  lock[ShardOf[k]] = Unlocked /\ pc[t] # "add"
  <2>1. pc[t] = "lock" /\ lock[ShardOf[call[t].key]] = Unlocked
    BY <1>1 DEF Get, Delete, Expire, Ttl, SetLock, AnswerMissing, AnswerRemoving, Acquire,
                AcquireAndRelease
  <2>2. call[t].key \in Keys
    BY <2>1, CallTypes
  <2>3. \A j \in Keys \ {call[t].key} : entry'[j] = entry[j]
    BY <1>0, <1>1, <2>2 DEF Get, Delete, Expire, Ttl, SetLock, AnswerMissing, AnswerRemoving,
                            Remove
  <2> QED
    BY <2>1, <2>3
<1>2. ASSUME NEW t \in Threads, Scan(t)
      PROVE  lock[ShardOf[k]] = Unlocked /\ pc[t] # "add"
  BY <1>0, <1>2 DEF Scan, AcquireAndRelease, Oldest, Live, Remove
<1>3. ASSUME NEW t \in Threads, Put(t)
      PROVE  lock[ShardOf[k]] = t /\ pc[t] # "add"
  <2>1. pc[t] = "put" /\ call[t].key = k
    BY <1>0, <1>3 DEF Put
  <2> QED
    BY <1>0, <2>1, CallTypes DEF LockDiscipline, HoldingPc
<1>4. ASSUME PurgeOne
      PROVE  lock[ShardOf[k]] = Expirer /\ pc[Expirer] # "add"
  <2>1. pc[Expirer] = "purge" /\ ShardOf[k] = offset[Expirer]
    BY <1>0, <1>4 DEF PurgeOne, Live, Remove
  <2> QED
    BY <1>0, <2>1 DEF LockDiscipline, HoldingPc, HomeShard
<1>5. ASSUME NEW t \in Threads, NEW c \in Calls, Invoke(t, c) PROVE FALSE
  BY <1>5 DEF Invoke
<1>6. ASSUME NEW t \in Threads,
             Add(t) \/ Sub(t) \/ Check(t) \/ Cursor(t) \/ EvictSub(t) \/ Return(t)
      PROVE  FALSE
  BY <1>6 DEF Add, Sub, Check, Cursor, EvictSub, Return
<1>7. ASSUME \/ ExpirerHead \/ ExpirerWake \/ Sub(Expirer) \/ PurgeDone \/ SweepLock
             \/ Stop \/ Join \/ Tick \/ UNCHANGED vars
      PROVE  FALSE
  BY <1>7 DEF ExpirerHead, ExpirerWake, Sub, PurgeDone, SweepLock, Stop, Join, Tick, vars
<1> QED
  BY <1>1, <1>2, <1>3, <1>4, <1>5, <1>6, <1>7 DEF Next, LockStep, FreeStep, SweepStep

\* A call lasts from its invocation to its return, and only Put leads to "add".
LEMMA CallLasts ==
  ASSUME TypeOK, [Next]_vars, NEW t \in Threads
  PROVE  /\ pc[t] \notin {"idle", "return"} => call'[t] = call[t]
         /\ pc'[t] = "add" => pc[t] = "add" \/ Put(t)
<1> USE DEF TypeOK, ControlTypes, Goto
<1>1. ASSUME NEW q \in Threads, NEW c \in Calls, Invoke(q, c)
      PROVE  /\ pc[t] \notin {"idle", "return"} => call'[t] = call[t]
             /\ pc'[t] = "add" => pc[t] = "add"
  BY <1>1 DEF Invoke
<1>2. ASSUME NEW q \in Threads, Return(q)
      PROVE  /\ pc[t] \notin {"idle", "return"} => call'[t] = call[t]
             /\ pc'[t] = "add" => pc[t] = "add"
  BY <1>2 DEF Return
<1>3. ASSUME NEW q \in Procs, NEW l, Goto(q, l), l # "add", UNCHANGED call
      PROVE  /\ call'[t] = call[t]
             /\ pc'[t] = "add" => pc[t] = "add"
  BY <1>3
<1>4. ASSUME NEW q \in Threads, Get(q) \/ Delete(q) \/ Expire(q) \/ Ttl(q) \/ SetLock(q)
      PROVE  UNCHANGED call /\ \E l : l # "add" /\ Goto(q, l)
  BY <1>4 DEF Get, Delete, Expire, Ttl, SetLock, AnswerMissing, AnswerRemoving
<1>5. ASSUME NEW q \in Threads,
             Scan(q) \/ Add(q) \/ Check(q) \/ Cursor(q) \/ EvictSub(q)
      PROVE  UNCHANGED call /\ \E l : l # "add" /\ Goto(q, l)
  BY <1>5 DEF Scan, AfterEmpty, Add, Check, Cursor, EvictSub
<1>6. ASSUME NEW q \in Procs, Sub(q)
      PROVE  UNCHANGED call /\ \E l : l # "add" /\ Goto(q, l)
  BY <1>6 DEF Sub
<1>7. ASSUME ExpirerHead \/ ExpirerWake \/ PurgeOne \/ PurgeDone \/ SweepLock
      PROVE  UNCHANGED call /\ \E l : l # "add" /\ Goto(Expirer, l)
  BY <1>7 DEF ExpirerHead, ExpirerWake, PurgeOne, PurgeDone, SweepLock
<1>8. ASSUME NEW q \in Threads, Put(q)
      PROVE  call' = call /\ (q # t => pc'[t] = pc[t])
  BY <1>8 DEF Put
<1>9. ASSUME Stop \/ Join \/ Tick \/ UNCHANGED vars
      PROVE  call' = call /\ pc' = pc
  BY <1>9 DEF Stop, Join, Tick, vars
<1>10. ASSUME NEW q \in Procs, UNCHANGED call, \E l : l # "add" /\ Goto(q, l)
       PROVE  /\ call'[t] = call[t]
              /\ pc'[t] = "add" => pc[t] = "add"
  BY <1>3, <1>10
<1>11. CASE \E q \in Threads : LockStep(q)
  BY <1>4, <1>5, <1>10, <1>11 DEF LockStep
<1>12. CASE \E q \in Threads : FreeStep(q)
  BY <1>2, <1>5, <1>6, <1>8, <1>10, <1>12 DEF FreeStep
<1>13. CASE SweepStep \/ SweepLock
  BY <1>6, <1>7, <1>10, <1>13 DEF SweepStep
<1> QED
  BY <1>1, <1>9, <1>11, <1>12, <1>13 DEF Next

\* Nobody else touches the entry before its writer has added the difference.
LEMMA WroteNext ==
  ASSUME TypeOK, LockDiscipline, WroteSize, TypeOK', [Next]_vars
  PROVE  WroteSize'
<1> SUFFICES ASSUME NEW t \in Threads, pc'[t] = "add"
             PROVE  HeldBytes'[call'[t].key] = EntrySize(call'[t].key, call'[t].value)
  BY DEF WroteSize, EntrySize
<1>1. CASE Put(t)
  <2> DEFINE k == call[t].key
  <2>1. k \in Keys /\ call[t].value \in Values /\ call' = call
    BY <1>1, CallTypes DEF Put, TypeOK, ControlTypes, SetPc
  <2>2. entry'[k] = NewEntry(k, call[t].value)
    BY <1>1, <2>1 DEF Put, TypeOK, SharedTypes
  <2>3. entry'[k] # Absent
    BY <2>1, <2>2, KeyAssumption, SentinelAssumption, SMTT(30) DEF NewEntry, EntrySize, Entry
  <2> QED
    BY <2>1, <2>2, <2>3, SMTT(30) DEF HeldBytes, NewEntry
<1>2. CASE pc[t] = "add"
  <2> DEFINE k == call[t].key
  <2>1. k \in Keys /\ call'[t] = call[t]
    BY <1>2, CallTypes, CallLasts
  <2>2. lock[ShardOf[k]] = t
    BY <1>2, <2>1, WriterHoldsLock DEF WriterHolds
  <2>3. entry'[k] = entry[k]
    BY <1>2, <2>1, <2>2, EntryChanges, ThreadAssumption
  <2>4. HeldBytes'[k] = HeldBytes[k]
    BY <2>1, <2>3 DEF HeldBytes
  <2> QED
    BY <1>2, <2>1, <2>4 DEF WroteSize
<1> QED
  BY <1>1, <1>2, CallLasts

\* A set inside evict_if_needed answers for what its key counts, as long as it
\* counts no more than what the set wrote and the round has not passed the key's
\* shard.
Answers(w, k) ==
  /\ pc[w] \in EvictingPc
  /\ call[w].key = k
  /\ CountedBytes[k] <= EntrySize(call[w].key, call[w].value)
  /\ pc[w] = "scan" => \A o \in 0 .. offset[w] - 1 : ShardOf[k] # (start[w] + o) % NumShards

\* What the keys in S count, and nothing for the others.
CountedIn(S) == [k \in Keys |-> IF k \in S THEN CountedBytes[k] ELSE 0]

\* The keys fall into some that are within the budget together, and others that
\* count nothing or have a set to answer for them.
Covered(S) ==
  /\ Total(CountedIn(S)) <= MaxBytes
  /\ \A k \in Keys \ S : CountedBytes[k] = 0 \/ \E w \in Threads : Answers(w, k)

ExcessAnswered == Bounded => \E S \in SUBSET Keys : Covered(S)

\* What the keys in S count is a natural number for each, and grows with S.
LEMMA CountedInTypes ==
  ASSUME CountedTyped, NEW S
  PROVE  CountedIn(S) \in [Keys -> Nat] /\ Total(CountedIn(S)) \in Nat
<1>1. CountedIn(S) \in [Keys -> Nat]
  BY DEF CountedIn, CountedTyped
<1> QED
  BY <1>1, TotalNat, KeyAssumption

\* Once everything counted is within the budget, nobody has to answer.
LEMMA CoveredByBudget ==
  ASSUME CountedTyped, Total(CountedBytes) <= MaxBytes
  PROVE  Covered(Keys)
<1>1. CountedIn(Keys) = CountedBytes
  BY DEF CountedIn, CountedTyped
<1> QED
  BY <1>1 DEF Covered

\* A set that moves on within evict_if_needed still answers for its key, unless
\* the key counts nothing or the budget is met.
LEMMA AnswererMoves ==
  ASSUME TypeOK, LockDiscipline, ByteAccounting, TypeOK', CountedTyped, CountedTyped', Shrinks,
         Bounded, NEW k \in Keys, NEW w \in Threads, Answers(w, k),
         Check(w) \/ Cursor(w) \/ Scan(w) \/ EvictSub(w)
  PROVE  Answers(w, k)' \/ CountedBytes'[k] = 0 \/ Total(CountedBytes)' <= MaxBytes
<1>0. MaxBytes \in Nat /\ NumShards \in Nat \ {0} /\ used \in Int /\ ShardOf[k] \in Shards
  BY NumberAssumption, ShardAssumption, SMTT(30) DEF TypeOK, SharedTypes
<1>1. /\ call' = call /\ CountedBytes'[k] <= EntrySize(call[w].key, call[w].value)
      /\ call[w].key = k
  <2>1. call' = call /\ call[w].key = k /\ call[w].value \in Values
    BY CallTypes DEF Answers, Check, Cursor, Scan, EvictSub, EvictingPc, TypeOK, ControlTypes,
                     SetPc
  <2>2. EntrySize(call[w].key, call[w].value) \in Nat
    BY <2>1, KeyAssumption, SMTT(30) DEF EntrySize
  <2> QED
    BY <2>1, <2>2, SMTT(30) DEF Answers, Shrinks, CountedTyped
<1>2. ASSUME pc'[w] \in EvictingPc,
             pc'[w] = "scan" => \A o \in 0 .. offset'[w] - 1 : ShardOf[k] # (start'[w] + o) % NumShards
      PROVE  Answers(w, k)'
  BY <1>1, <1>2 DEF Answers, EntrySize
<1>3. CASE Check(w)
  <2>1. CASE Goto(w, "cursor")
    BY <1>2, <2>1 DEF Goto, TypeOK, ControlTypes, EvictingPc
  <2>2. CASE used <= MaxBytes
    BY <1>0, <2>2, TotalShrinks, SMTT(30) DEF CountedTyped
  <2> QED
    BY <1>3, <2>1, <2>2 DEF Check, Bounded
<1>4. CASE Cursor(w)
  <2>1. pc'[w] = "scan" /\ offset'[w] = 0
    BY <1>4 DEF Cursor, Goto, TypeOK, ControlTypes, LocalTypes
  <2> QED
    BY <1>2, <2>1, SMTT(30) DEF EvictingPc
<1>5. CASE EvictSub(w)
  <2>1. pc'[w] = "check"
    BY <1>5 DEF EvictSub, Goto, TypeOK, ControlTypes
  <2> QED
    BY <1>2, <2>1 DEF EvictingPc
<1>6. CASE Scan(w)
  <2> DEFINE s == (start[w] + offset[w]) % NumShards
  <2>0. /\ pc[w] = "scan" /\ start[w] \in Shards /\ offset[w] \in Shards /\ s \in Shards
        /\ start' = start /\ lock[s] = Unlocked
    <3>1. pc[w] = "scan" /\ start' = start /\ lock[s] = Unlocked
      BY <1>6 DEF Scan, AcquireAndRelease
    <3>2. start[w] \in Shards /\ offset[w] \in Shards
      BY <3>1 DEF TypeOK, LocalTypes
    <3>3. start[w] + offset[w] \in Nat
      BY <1>0, <3>2, SMTT(30)
    <3> QED
      BY <1>0, <3>1, <3>2, <3>3, ModRange
  <2>1. CASE Goto(w, "evicted")
    <3>1. pc'[w] = "evicted"
      BY <2>1 DEF Goto, TypeOK, ControlTypes
    <3> QED
      BY <1>2, <3>1 DEF EvictingPc
  <2>2. CASE /\ Live(s) = {} /\ offset' = [offset EXCEPT ![w] = @ + 1]
             /\ Goto(w, IF offset[w] + 1 = NumShards THEN "return" ELSE "scan")
    <3>1. CASE ShardOf[k] = s
      <4>1. CountedBytes[k] = 0
        BY <2>0, <2>2, <3>1, EmptyShard
      <4> QED
        BY <4>1, SMTT(30) DEF Shrinks, CountedTyped
    <3>2. CASE ShardOf[k] # s
      <4>1. \A o \in 0 .. offset[w] : ShardOf[k] # (start[w] + o) % NumShards
        <5>1. \A o \in 0 .. offset[w] : o \in 0 .. offset[w] - 1 \/ o = offset[w]
          BY <2>0, SMTT(30)
        <5> QED
          BY <2>0, <3>2, <5>1 DEF Answers
      <4>2. offset[w] + 1 # NumShards
        <5>1. SUFFICES ASSUME offset[w] + 1 = NumShards PROVE FALSE
          OBVIOUS
        <5>2. 0 .. offset[w] = Shards
          BY <2>0, <5>1, SMTT(30)
        <5> QED
          BY <1>0, <2>0, <4>1, <5>2, RoundCovers
      <4>3. pc'[w] = "scan" /\ offset'[w] - 1 = offset[w]
        BY <2>0, <2>2, <4>2, SMTT(30) DEF Goto, TypeOK, ControlTypes, LocalTypes
      <4> QED
        BY <1>2, <2>0, <4>1, <4>3 DEF EvictingPc
    <3> QED
      BY <3>1, <3>2
  <2> QED
    BY <1>6, <2>1, <2>2 DEF Scan, AfterEmpty
<1> QED
  BY <1>3, <1>4, <1>5, <1>6

\* A step of another process that raises nothing leaves an answering set answering.
LEMMA AnswererKept ==
  ASSUME TypeOK, CountedTyped, CountedTyped', NEW k \in Keys, NEW w \in Threads, Answers(w, k),
         CountedBytes'[k] <= CountedBytes[k],
         pc'[w] = pc[w], start'[w] = start[w], offset'[w] = offset[w], call'[w] = call[w]
  PROVE  Answers(w, k)'
<1>1. call[w].key = k /\ call[w].value \in Values
  BY CallTypes DEF Answers, EvictingPc, TypeOK, ControlTypes, SetPc
<1>2. EntrySize(call[w].key, call[w].value) \in Nat
  BY <1>1, KeyAssumption, SMTT(30) DEF EntrySize
<1>3. CountedBytes'[k] <= EntrySize(call[w].key, call[w].value)
  BY <1>2, SMTT(30) DEF Answers, CountedTyped
<1> QED
  BY <1>3 DEF Answers, EntrySize

\* Every step leaves the excess answered for.
LEMMA ExcessNext ==
  ASSUME TypeOK, LockDiscipline, ByteAccounting, WroteSize, ExcessAnswered,
         TypeOK', LockDiscipline', ByteAccounting', [Next]_vars
  PROVE  ExcessAnswered'
<1> SUFFICES ASSUME Bounded PROVE \E S \in SUBSET Keys : Covered(S)'
  BY DEF ExcessAnswered, Bounded
<1>0. CountedTyped /\ CountedTyped'
  BY CountedFacts, PTL
<1>1. PICK S \in SUBSET Keys : Covered(S)
  BY DEF ExcessAnswered
<1>2. MaxBytes \in Nat
  BY NumberAssumption, SMTT(30)
<1>3. ASSUME NEW R \in SUBSET S, \A k \in R : CountedBytes'[k] <= CountedBytes[k]
      PROVE  Total(CountedIn(R))' <= MaxBytes
  <2>1. CountedIn(S) \in [Keys -> Nat] /\ Total(CountedIn(S)) \in Nat
    BY <1>0, CountedInTypes
  <2>2. CountedIn(R)' \in [Keys -> Nat] /\ Total(CountedIn(R))' \in Nat
    <3>1. CountedIn(R)' \in [Keys -> Nat]
      BY <1>0 DEF CountedIn, CountedTyped
    <3> QED
      BY <3>1, TotalNat, KeyAssumption
  <2>3. \A k \in Keys : CountedIn(R)'[k] <= CountedIn(S)[k]
    BY <1>0, <1>3, SMTT(30) DEF CountedIn, CountedTyped
  <2>4. Total(CountedIn(R))' <= Total(CountedIn(S))
    BY <2>1, <2>2, <2>3, TotalMonotone, KeyAssumption
  <2> QED
    BY <1>1, <1>2, <2>1, <2>2, <2>4, SMTT(30) DEF Covered
<1>4. CASE \E t \in Threads : Add(t)
  <2>1. PICK t \in Threads : Add(t)
    BY <1>4
  <2>0. PICK k \in Keys : k = call[t].key
    BY <2>1, AddBytes
  <2>2. CountedBytes' = [CountedBytes EXCEPT ![k] = HeldBytes[k]]
    BY <2>0, <2>1, AddBytes
  <2>3. \A j \in Keys \ {k} : CountedBytes'[j] = CountedBytes[j] /\ CountedBytes[j] \in Nat
    BY <1>0, <2>2 DEF CountedTyped
  <2>4. Total(CountedIn(S \ {k}))' <= MaxBytes
    BY <1>3, <2>3, SMTT(30)
  <2>5. Answers(t, k)'
    <3>1. pc'[t] = "check" /\ call' = call /\ pc[t] = "add"
      BY <2>1 DEF Add, Goto, TypeOK, ControlTypes
    <3>2. CountedBytes'[k] = EntrySize(k, call[t].value)
      BY <1>0, <2>0, <2>2, <3>1 DEF WroteSize, CountedTyped
    <3>3. CountedBytes'[k] <= EntrySize(k, call[t].value)
      BY <1>0, <2>2, <3>2, SMTT(30) DEF CountedTyped
    <3> QED
      BY <2>0, <3>1, <3>3 DEF Answers, EvictingPc, EntrySize
  <2>6. ASSUME NEW j \in Keys \ {k}, NEW w \in Threads, Answers(w, j) PROVE Answers(w, j)'
    <3>1. w # t
      BY <2>1, <2>6 DEF Add, Answers, EvictingPc
    <3>2. /\ pc'[w] = pc[w] /\ start'[w] = start[w] /\ offset'[w] = offset[w]
          /\ call'[w] = call[w]
      BY <2>1, <3>1 DEF Add, Goto, TypeOK, ControlTypes
    <3> QED
      BY <1>0, <2>3, <2>6, <3>2, AnswererKept, SMTT(30)
  <2>7. \A j \in Keys \ (S \ {k}) : CountedBytes'[j] = 0 \/ \E w \in Threads : Answers(w, j)'
    BY <1>1, <2>3, <2>5, <2>6 DEF Covered
  <2> QED
    BY <2>4, <2>7 DEF Covered
<1>5. CASE Shrinks
  <2>1. CASE Total(CountedBytes)' <= MaxBytes
    <3>1. CountedIn(Keys)' = CountedBytes'
      BY <1>0 DEF CountedIn, CountedTyped
    <3> QED
      BY <2>1, <3>1 DEF Covered
  <2>2. CASE ~(Total(CountedBytes)' <= MaxBytes)
    <3>1. Total(CountedIn(S))' <= MaxBytes
      BY <1>3, <1>5 DEF Shrinks
    <3>2. ASSUME NEW k \in Keys \ S
          PROVE  CountedBytes'[k] = 0 \/ \E w \in Threads : Answers(w, k)'
      <4>1. CASE CountedBytes[k] = 0
        BY <1>0, <1>5, <4>1, SMTT(30) DEF Shrinks, CountedTyped
      <4>2. ASSUME NEW w \in Threads, Answers(w, k)
            PROVE  CountedBytes'[k] = 0 \/ Answers(w, k)'
        <5>1. pc[w] \in EvictingPc /\ call'[w] = call[w]
          BY <4>2, CallLasts DEF Answers, EvictingPc
        <5>2. CASE Check(w) \/ Cursor(w) \/ Scan(w) \/ EvictSub(w)
          BY <1>0, <1>5, <2>2, <4>2, <5>2, AnswererMoves
        <5>3. CASE pc'[w] = pc[w] /\ start'[w] = start[w] /\ offset'[w] = offset[w]
          BY <1>0, <1>5, <4>2, <5>1, <5>3, AnswererKept DEF Shrinks
        <5> QED
          BY <5>1, <5>2, <5>3, EvictingSteps
      <4> QED
        BY <1>1, <4>1, <4>2 DEF Covered
    <3> QED
      BY <3>1, <3>2 DEF Covered
  <2> QED
    BY <2>1, <2>2
<1> QED
  BY <1>4, <1>5, AccountingNext

\* The bytes a set under way wrote are a natural number.
LEMMA InFlightTypes ==
  ASSUME TypeOK
  PROVE  InFlightBytes \in [Threads -> Nat]
<1> SUFFICES ASSUME NEW t \in Threads,
                    pc[t] \in {"add", "check", "cursor", "scan", "evicted", "return"},
                    call[t].op = "set"
             PROVE  EntrySize(call[t].key, call[t].value) \in Nat
  BY DEF InFlightBytes
<1>1. call[t].key \in Keys /\ call[t].value \in Values
  BY CallTypes
<1> QED
  BY <1>1, KeyAssumption, SMTT(30) DEF EntrySize

\* What is held beyond the budget lies under keys that sets under way wrote, each
\* under its own.
LEMMA OvershootBound ==
  TypeOK /\ LockDiscipline /\ ByteAccounting /\ WroteSize /\ ExcessAnswered => BoundedOvershoot
<1> SUFFICES ASSUME TypeOK, LockDiscipline, ByteAccounting, WroteSize, ExcessAnswered, Bounded
             PROVE  Total(HeldBytes) <= MaxBytes + Total(InFlightBytes)
  BY DEF BoundedOvershoot
<1>1. PICK S \in SUBSET Keys : Covered(S)
  BY DEF ExcessAnswered
<1>2. CountedTyped /\ HeldBytes \in [Keys -> Nat] /\ InFlightBytes \in [Threads -> Nat]
  BY CountedFacts, HeldTypes, InFlightTypes
<1> DEFINE A == {k \in S : ~Writing(k)}
           inside == [k \in Keys |-> IF k \in A THEN HeldBytes[k] ELSE 0]
           beyond == [k \in Keys |-> IF k \in A THEN 0 ELSE HeldBytes[k]]
           key == [t \in Threads |-> call[t].key]
<1>3. \A k \in Keys : ~Writing(k) => HeldBytes[k] = CountedBytes[k]
  BY <1>2, SMTT(30) DEF CountedBytes
<1>4. Total(inside) <= MaxBytes
  <2>1. inside \in [Keys -> Nat] /\ CountedIn(S) \in [Keys -> Nat]
    BY <1>2, CountedInTypes
  <2>2. \A k \in Keys : inside[k] <= CountedIn(S)[k]
    BY <1>2, <1>3, SMTT(30) DEF CountedIn, CountedTyped
  <2>3. Total(inside) <= Total(CountedIn(S))
    BY <2>1, <2>2, TotalMonotone, KeyAssumption
  <2> QED
    BY <1>1, <1>2, <2>1, <2>3, TotalNat, KeyAssumption, NumberAssumption, SMTT(30) DEF Covered
<1>5. Total(beyond) <= Total(InFlightBytes)
  <2>1. ASSUME NEW k \in Keys
        PROVE  beyond[k] = 0 \/ \E w \in Threads : key[w] = k /\ beyond[k] <= InFlightBytes[w]
    <3>1. CASE Writing(k)
      <4>1. PICK w \in Threads : pc[w] = "add" /\ call[w].key = k
        BY <3>1 DEF Writing
      <4>2. InFlightBytes[w] = HeldBytes[k]
        BY <4>1 DEF InFlightBytes, WroteSize, TypeOK, ControlTypes, SetPc
      <4> QED
        BY <1>2, <3>1, <4>1, <4>2, SMTT(30)
    <3>2. CASE k \in S /\ ~Writing(k)
      BY <3>2
    <3>3. CASE k \notin S /\ ~Writing(k)
      <4>1. beyond[k] = CountedBytes[k]
        BY <1>3, <3>3
      <4>2. CASE CountedBytes[k] = 0
        BY <4>1, <4>2
      <4>3. ASSUME NEW w \in Threads, Answers(w, k)
            PROVE  key[w] = k /\ beyond[k] <= InFlightBytes[w]
        <5>1. InFlightBytes[w] = EntrySize(call[w].key, call[w].value)
          BY <4>3 DEF Answers, EvictingPc, InFlightBytes, TypeOK, ControlTypes, SetPc
        <5> QED
          BY <4>1, <4>3, <5>1 DEF Answers
      <4> QED
        BY <1>1, <3>3, <4>2, <4>3 DEF Covered
    <3> QED
      BY <3>1, <3>2, <3>3
  <2>2. beyond \in [Keys -> Nat]
    BY <1>2
  <2> HIDE DEF beyond, key
  <2> QED
    BY <1>2, <2>1, <2>2, TotalOwned, KeyAssumption, ThreadAssumption, SMTT(30)
<1>6. /\ inside \in [Keys -> Nat] /\ beyond \in [Keys -> Nat]
      /\ \A k \in Keys : HeldBytes[k] <= inside[k] \/ HeldBytes[k] <= beyond[k]
  BY <1>2, SMTT(30)
<1> HIDE DEF inside, beyond
<1>7. Total(HeldBytes) <= Total(inside) + Total(beyond)
  BY <1>2, <1>6, TotalParts, KeyAssumption
<1>8. /\ Total(HeldBytes) \in Nat /\ Total(inside) \in Nat /\ Total(beyond) \in Nat
      /\ Total(InFlightBytes) \in Nat /\ MaxBytes \in Nat
  BY <1>2, <1>6, TotalNat, KeyAssumption, ThreadAssumption, NumberAssumption, SMTT(30)
<1> QED
  BY <1>4, <1>5, <1>7, <1>8, SMTT(30)

\* Nothing is written nor counted in a new engine.
LEMMA OvershootInit == Init /\ TypeOK /\ ByteAccounting => WroteSize /\ ExcessAnswered
<1> SUFFICES ASSUME Init, TypeOK, ByteAccounting PROVE WroteSize /\ ExcessAnswered
  OBVIOUS
<1>1. WroteSize
  BY ThreadAssumption DEF Init, WroteSize
<1>2. CountedTyped /\ Total(CountedBytes) <= MaxBytes
  BY CountedFacts, NumberAssumption, SMTT(30) DEF Init, CountedTyped
<1> QED
  BY <1>1, <1>2, CoveredByBudget DEF ExcessAnswered

\* However the sets, their evictions and the sweep interleave, the engine never
\* holds more than its budget and what the sets that have not returned wrote: a
\* set that leaves evict_if_needed leaves nothing of its own above the budget.
THEOREM OvershootIsBounded == Spec => []BoundedOvershoot
<1>1. Init /\ TypeOK /\ ByteAccounting => WroteSize /\ ExcessAnswered
  BY OvershootInit
<1>2. TypeOK /\ LockDiscipline /\ ByteAccounting /\ WroteSize /\ ExcessAnswered
        /\ TypeOK' /\ LockDiscipline' /\ ByteAccounting' /\ [Next]_vars
        => WroteSize' /\ ExcessAnswered'
  BY WroteNext, ExcessNext
<1>3. TypeOK /\ LockDiscipline /\ ByteAccounting /\ WroteSize /\ ExcessAnswered
        => BoundedOvershoot
  BY OvershootBound
<1> QED
  BY <1>1, <1>2, <1>3, TypeCorrect, LocksHeldInside, BytesExact, PTL DEF Spec
=============================================================================

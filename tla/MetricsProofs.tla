---------------------------- MODULE MetricsProofs ----------------------------
(***************************************************************************)
(* Proofs about Metrics, for any tasks, buckets, latencies and number of    *)
(* requests.  The counters are exact because a task never owes the same     *)
(* operation twice; that in turn rests on where in a request an operation   *)
(* can still be owed (Shape).  The same bookkeeping, per prefix of the      *)
(* buckets, makes the histogram exact and so the percentiles right          *)
(* (Histogram); per task, it shows that a snapshot misses no earlier event  *)
(* of the task that takes it (OwnSeen).                                     *)
(***************************************************************************)
EXTENDS Metrics, ByteTotalsProofs, WellFoundedInduction

\* A leaf goes to Zenon unless it names another prover.
USE Zenon

\* The least element of a set of numbers exists.
LEMMA LeastExists ==
    ASSUME NEW S \in SUBSET Nat, S # {}
    PROVE  \E x \in S : \A y \in S : x <= y
<1>1. PICK x \in S : \A y \in S : ~(<<y, x>> \in OpToRel(<, Nat))
  BY WFMin, NatLessThanWellFounded
<1>2. \A y \in S : ~(y < x)
  BY <1>1 DEF OpToRel
<1> QED
  BY <1>2, SMTT(30)

\* The greatest element of a finite set of numbers exists: it has the fewest
\* members above it.
LEMMA GreatestExists ==
    ASSUME NEW S \in SUBSET Nat, S # {}, IsFiniteSet(S)
    PROVE  \E x \in S : \A y \in S : y <= x
<1> DEFINE Above(x) == {y \in S : y > x}
           counts == {Cardinality(Above(x)) : x \in S}
<1>1. \A x \in S : IsFiniteSet(Above(x)) /\ Cardinality(Above(x)) \in Nat
  BY FS_Subset, FS_CardinalityType
<1>2. counts \in SUBSET Nat /\ counts # {}
  BY <1>1
<1>3. PICK least \in counts : \A n \in counts : least <= n
  <2> HIDE DEF counts
  <2> QED
    BY <1>2, LeastExists
<1>4. PICK x \in S : \A y \in S : Cardinality(Above(x)) <= Cardinality(Above(y))
  BY <1>3
<1>5. ASSUME NEW y \in S, y > x PROVE FALSE
  <2>1. Above(y) \in SUBSET Above(x) /\ y \in Above(x) /\ y \notin Above(y)
    <3>1. x \in Nat /\ y \in Nat /\ \A z \in S : z \in Nat
      OBVIOUS
    <3>2. ~(y > y) /\ \A z \in Nat : z > y => z > x
      BY <1>5, <3>1, SMTT(30)
    <3> QED
      BY <1>5, <3>1, <3>2
  <2> HIDE DEF Above
  <2>2. Cardinality(Above(y)) <= Cardinality(Above(x)) /\ Cardinality(Above(y)) # Cardinality(Above(x))
    BY <1>1, <2>1, FS_Subset
  <2> QED
    BY <1>1, <1>4, <2>2, SMTT(30)
<1> QED
  BY <1>4, <1>5, SMTT(30)

\* record stops at the first bound that is not below the latency, or goes past
\* them all.
LEMMA BucketIs ==
    ASSUME NEW l \in Nat
    PROVE  \/ Bucket(l) = 7 + Len(Bounds) /\ \A j \in 1 .. Len(Bounds) : ~(l <= Bounds[j])
           \/ \E i \in 1 .. Len(Bounds) :
                 /\ Bucket(l) = 6 + i /\ l <= Bounds[i]
                 /\ \A j \in 1 .. Len(Bounds) : l <= Bounds[j] => i <= j
<1> DEFINE above == {i \in 1 .. Len(Bounds) : l <= Bounds[i]}
<1>1. Len(Bounds) \in Nat
  BY MetricsAssumption, SMTT(30)
<1>2. CASE above = {}
  BY <1>2 DEF Bucket
<1>3. CASE above # {}
  <2>1. \E i \in above : \A j \in above : i <= j
    <3>1. above \in SUBSET Nat
      BY <1>1, SMTT(30)
    <3> HIDE DEF above
    <3> QED
      BY <3>1, <1>3, LeastExists
  <2> DEFINE least == CHOOSE i \in above : \A j \in above : i <= j
  <2>2. least \in above /\ \A j \in above : least <= j
    <3> HIDE DEF above
    <3> QED
      BY <2>1
  <2>3. Bucket(l) = 7 + (least - 1)
    BY <1>3 DEF Bucket
  <2>4. least \in 1 .. Len(Bounds) /\ l <= Bounds[least]
    BY <2>2
  <2>5. \A j \in 1 .. Len(Bounds) : l <= Bounds[j] => least <= j
    BY <2>2
  <2> HIDE DEF least
  <2>6. 7 + (least - 1) = 6 + least
    BY <1>1, <2>4, SMTT(30)
  <2> QED
    BY <2>3, <2>4, <2>5, <2>6
<1> QED
  BY <1>2, <1>3

\* record always finds a bucket.
LEMMA BucketFound == \A l \in Nat : Bucket(l) \in Buckets
<1> SUFFICES ASSUME NEW l \in Nat PROVE Bucket(l) \in Buckets
  OBVIOUS
<1>1. Len(Bounds) \in Nat
  BY MetricsAssumption, SMTT(30)
<1>2. Bucket(l) = 7 + Len(Bounds) \/ \E i \in 1 .. Len(Bounds) : Bucket(l) = 6 + i
  BY BucketIs
<1> QED
  BY <1>1, <1>2, SMTT(30) DEF Buckets

\* The latencies in the buckets up to that of a bound are those up to the bound.
LEMMA BucketBound ==
    ASSUME NEW l \in Nat, NEW i \in 1 .. Len(Bounds)
    PROVE  Bucket(l) <= 6 + i <=> l <= Bounds[i]
<1>1. Len(Bounds) \in Nat /\ \A j \in 1 .. Len(Bounds) : Bounds[j] \in Nat
  BY MetricsAssumption, SMTT(30)
<1>2. CASE Bucket(l) = 7 + Len(Bounds) /\ \A j \in 1 .. Len(Bounds) : ~(l <= Bounds[j])
  BY <1>1, <1>2, SMTT(30)
<1>3. ASSUME NEW k \in 1 .. Len(Bounds), Bucket(l) = 6 + k, l <= Bounds[k],
             \A j \in 1 .. Len(Bounds) : l <= Bounds[j] => k <= j
      PROVE  Bucket(l) <= 6 + i <=> l <= Bounds[i]
  <2>1. k <= i => Bounds[k] <= Bounds[i]
    BY MetricsAssumption
  <2> QED
    BY <1>1, <1>3, <2>1, SMTT(30)
<1> QED
  BY <1>2, <1>3, BucketIs

LEMMA CardNat == \A S \in SUBSET Tasks : IsFiniteSet(S) /\ Cardinality(S) \in Nat
  BY MetricsAssumption, FS_Subset, FS_CardinalityType

LEMMA CardGrows ==
    \A S \in SUBSET Tasks, t \in Tasks :
        t \notin S => Cardinality(S \union {t}) = Cardinality(S) + 1
  BY CardNat, FS_AddElement

LEMMA CardShrinks ==
    \A S \in SUBSET Tasks, t \in Tasks :
        t \in S => Cardinality(S \ {t}) = Cardinality(S) - 1
  BY CardNat, FS_RemoveElement

LEMMA CardMonotone ==
    \A S, T \in SUBSET Tasks : S \subseteq T => Cardinality(S) <= Cardinality(T)
  BY CardNat, FS_Subset

-----------------------------------------------------------------------------
\* The operations a task can owe.
Owable ==
    {<<RequestsTotal, 1>>, <<ErrorsTotal, 1>>, <<Inflight, 1>>, <<Inflight, -1>>, <<Samples, 1>>}
      \union {<<SumUs, l>> : l \in Latencies}
      \union {<<b, 1>> : b \in Buckets}

\* Where in a request an operation can be owed, and a snapshot under way.
Shape ==
    \A t \in Tasks :
        /\ todo[t] \subseteq Owable
        /\ pc[t] = "idle" => /\ <<RequestsTotal, 1>> \notin todo[t]
                            /\ <<Inflight, 1>> \notin todo[t]
        /\ pc[t] # "write" => <<ErrorsTotal, 1>> \notin todo[t]
        /\ unread[t] # {} => pc[t] = "load"
        /\ updating[t] # "no" => micros[t] \in Latencies

\* What update_max last read has not been exceeded by it.
MaxKnown == \A t \in Tasks : updating[t] = "cas" => current[t] <= mem[MaxUs]

\* The gauge counts the requests under way and, since server.rs:51 returns before
\* record_request_end, those whose answer could not be written.
InflightOwed ==
    /\ mem[Inflight] + Cardinality(Owing(Inflight, 1))
         = Cardinality(Busy) + Cardinality(Owing(Inflight, -1)) + abandoned
    /\ mem[Inflight] >= 0

IInv == TypeOK /\ Shape /\ CountersExact /\ InflightOwed /\ MaxExact /\ MaxKnown

\* The fields are different locations.
LEMMA Fields ==
    /\ RequestsTotal \in Cells /\ ErrorsTotal \in Cells /\ Inflight \in Cells
    /\ Samples \in Cells /\ SumUs \in Cells /\ MaxUs \in Cells
    /\ RequestsTotal \notin {ErrorsTotal, Inflight, Samples, SumUs, MaxUs}
    /\ ErrorsTotal \notin {Inflight, Samples, SumUs, MaxUs}
    /\ Inflight \notin {Samples, SumUs, MaxUs}
    /\ Samples \notin {SumUs, MaxUs}
    /\ SumUs # MaxUs
    /\ Buckets \subseteq Cells
    /\ Buckets \intersect {RequestsTotal, ErrorsTotal, Inflight, Samples, SumUs, MaxUs} = {}
<1>1. Len(Bounds) \in Nat
  BY MetricsAssumption, SMTT(30)
<1> QED
  BY <1>1, SMTT(30) DEF RequestsTotal, ErrorsTotal, Inflight, Samples, SumUs, MaxUs, Cells, Buckets

LEMMA OwingTasks ==
    \A c, n : Owing(c, n) \in SUBSET Tasks /\ Cardinality(Owing(c, n)) \in Nat
  BY CardNat DEF Owing

\* A task counts its own events.
LEMMA OwnTyped ==
    ASSUME TypeOK, NEW t \in Tasks, NEW c \in Counters, Own(t, c)
    PROVE  own' \in [Tasks -> [Counters -> Nat]]
<1>1. own \in [Tasks -> [Counters -> Nat]]
  BY DEF TypeOK
<1> QED
  BY <1>1, SMTT(30) DEF Own

\* Fresh metrics.
LEMMA IInvInit == Init => IInv
<1> SUFFICES ASSUME Init PROVE IInv
  OBVIOUS
<1>1. TypeOK
  BY Fields DEF Init, TypeOK
<1>2. Shape /\ MaxKnown
  BY DEF Init, Shape, MaxKnown
<1>3. MaxExact
  BY Fields DEF Init, MaxExact
<1>4. \A c, n : Owing(c, n) = {}
  BY DEF Init, Owing
<1>5. Busy = {}
  BY DEF Init, Busy
<1>6. Cardinality({}) = 0
  BY FS_EmptySet
<1>7. \A c \in Cells : mem[c] = 0
  BY DEF Init
<1>8. started = 0 /\ erred = 0 /\ finished = 0 /\ abandoned = 0
  BY DEF Init
<1>9. CountersExact
  BY <1>4, <1>6, <1>7, <1>8, Fields, SMTT(30) DEF CountersExact
<1>10. InflightOwed
  BY <1>4, <1>5, <1>6, <1>7, <1>8, Fields, SMTT(30) DEF InflightOwed
<1> QED
  BY <1>1, <1>2, <1>3, <1>9, <1>10 DEF IInv

\* record_request_start: the task becomes busy and owes two operations.
LEMMA StartKeeps ==
    ASSUME IInv, NEW t \in Tasks, RecordRequestStart(t)
    PROVE  IInv'
<1> USE Fields DEF IInv
<1>1. /\ pc[t] = "idle"
      /\ todo' = [todo EXCEPT ![t] = @ \union StartAdds]
      /\ pc' = [pc EXCEPT ![t] = "dispatch"]
      /\ started' = started + 1
      /\ UNCHANGED <<mem, micros, updating, current, maxed, unread, snap, erred,
                     finished, abandoned, measured>>
  BY DEF RecordRequestStart, Calls, Goto, maxUpdate, snapshot
<1>2. TypeOK'
  <2>1. own' \in [Tasks -> [Counters -> Nat]]
    BY OwnTyped DEF RecordRequestStart, Counters
  <2>2. todo \in [Tasks -> SUBSET (Cells \X Int)] /\ pc \in [Tasks -> {"idle", "dispatch", "load", "write"}]
    BY DEF TypeOK
  <2>3. todo' \in [Tasks -> SUBSET (Cells \X Int)]
    BY <1>1, <2>2, SMTT(30) DEF StartAdds
  <2>4. pc' \in [Tasks -> {"idle", "dispatch", "load", "write"}]
    BY <1>1, <2>2, SMTT(30)
  <2>5. started' \in Nat
    BY <1>1, SMTT(30) DEF TypeOK
  <2> QED
    BY <1>1, <2>1, <2>3, <2>4, <2>5 DEF TypeOK
<1>3. Shape'
  BY <1>1 DEF Shape, TypeOK, StartAdds, Owable
<1>4. MaxExact' /\ MaxKnown'
  BY <1>1 DEF MaxExact, MaxKnown
<1>5. /\ Owing(RequestsTotal, 1)' = Owing(RequestsTotal, 1) \union {t}
      /\ Owing(Inflight, 1)' = Owing(Inflight, 1) \union {t}
      /\ Owing(ErrorsTotal, 1)' = Owing(ErrorsTotal, 1)
      /\ Owing(Samples, 1)' = Owing(Samples, 1)
      /\ Owing(Inflight, -1)' = Owing(Inflight, -1)
      /\ Busy' = Busy \union {t}
  <2>1. /\ todo'[t] = todo[t] \union StartAdds
        /\ \A u \in Tasks : u # t => todo'[u] = todo[u]
        /\ <<RequestsTotal, 1>> \in StartAdds /\ <<Inflight, 1>> \in StartAdds
        /\ \A a \in StartAdds : a = <<RequestsTotal, 1>> \/ a = <<Inflight, 1>>
    BY <1>1 DEF TypeOK, StartAdds
  <2>2. /\ <<ErrorsTotal, 1>> \notin StartAdds
        /\ <<Samples, 1>> \notin StartAdds
        /\ <<Inflight, -1>> \notin StartAdds
    BY SMTT(30) DEF StartAdds
  <2>3. Busy' = Busy \union {t}
    <3>1. pc \in [Tasks -> {"idle", "dispatch", "load", "write"}]
      BY DEF TypeOK
    <3> QED
      BY <1>1, <3>1, SMTT(30) DEF Busy
  <2> QED
    BY <2>1, <2>2, <2>3 DEF Owing
<1>6. /\ t \notin Owing(RequestsTotal, 1)
      /\ t \notin Owing(Inflight, 1)
      /\ t \notin Busy
  BY <1>1 DEF Owing, Busy, Shape
<1>7. /\ Cardinality(Owing(RequestsTotal, 1)') = Cardinality(Owing(RequestsTotal, 1)) + 1
      /\ Cardinality(Owing(Inflight, 1)') = Cardinality(Owing(Inflight, 1)) + 1
      /\ Cardinality(Busy') = Cardinality(Busy) + 1
      /\ Busy \in SUBSET Tasks
  BY <1>5, <1>6, CardGrows, OwingTasks DEF Busy
<1>8. CountersExact'
  <2>1. mem[RequestsTotal] \in Nat /\ started \in Nat
    BY DEF TypeOK
  <2> QED
    BY <1>1, <1>5, <1>7, <2>1, OwingTasks, SMTT(30) DEF CountersExact
<1>9. InflightOwed'
  <2>1. /\ Cardinality(Owing(Inflight, 1)) \in Nat /\ Cardinality(Owing(Inflight, -1)) \in Nat
        /\ Cardinality(Busy) \in Nat /\ mem[Inflight] \in Nat /\ abandoned \in Nat
    <3>1. mem[Inflight] \in Nat /\ abandoned \in Nat
      BY DEF TypeOK
    <3>2. /\ Owing(Inflight, 1) \in SUBSET Tasks /\ Owing(Inflight, -1) \in SUBSET Tasks
          /\ Busy \in SUBSET Tasks
      BY DEF Owing, Busy
    <3> QED
      BY <3>1, <3>2, CardNat
  <2>2. mem' = mem /\ abandoned' = abandoned /\ Owing(Inflight, -1)' = Owing(Inflight, -1)
    BY <1>1, <1>5
  <2> QED
    BY ONLY InflightOwed, <1>7, <2>1, <2>2, SMTT(30) DEF InflightOwed
<1> QED
  BY <1>2, <1>3, <1>4, <1>8, <1>9

\* Steps that neither owe nor perform a fetch_add, nor begin or end a request.
LEMMA AccountsKept ==
    ASSUME IInv, todo' = todo, Busy' = Busy,
           \A c \in Cells \ {MaxUs} : mem'[c] = mem[c],
           UNCHANGED <<started, erred, finished, abandoned>>
    PROVE  CountersExact' /\ InflightOwed'
<1>1. \A c, n : Owing(c, n)' = Owing(c, n)
  BY DEF Owing
<1>2. /\ mem'[RequestsTotal] = mem[RequestsTotal] /\ mem'[ErrorsTotal] = mem[ErrorsTotal]
      /\ mem'[Inflight] = mem[Inflight] /\ mem'[Samples] = mem[Samples]
  BY Fields
<1> QED
  BY <1>1, <1>2 DEF IInv, CountersExact, InflightOwed

\* The steps of dispatch, and the loads of a snapshot.
LEMMA DispatchKeeps ==
    ASSUME IInv, NEW t \in Tasks,
           Succeed(t) \/ Snapshot(t) \/ \E c \in Cells : Load(t, c)
    PROVE  IInv'
<1> USE DEF IInv
<1>1. UNCHANGED <<mem, todo, micros, updating, current, maxed, history>>
  BY DEF Succeed, Snapshot, Load, memory, maxUpdate
<1>2. TypeOK'
  <2>1. CASE Succeed(t) \/ Snapshot(t)
    <3>1. pc' \in [Tasks -> {"idle", "dispatch", "load", "write"}]
      BY <2>1 DEF Succeed, Snapshot, TypeOK, Goto
    <3>2. unread' \in [Tasks -> SUBSET Cells] /\ snap' = snap
      BY <2>1 DEF Succeed, Snapshot, TypeOK, snapshot
    <3> QED
      BY <1>1, <3>1, <3>2 DEF TypeOK, history
  <2>2. ASSUME NEW c \in Cells, Load(t, c) PROVE TypeOK'
    BY <2>2, <1>1 DEF Load, TypeOK, history
  <2> QED
    BY <2>1, <2>2
<1>3. /\ pc'[t] # "idle" /\ pc[t] # "idle" /\ pc[t] # "write"
      /\ \A u \in Tasks : u # t => pc'[u] = pc[u] /\ unread'[u] = unread[u]
      /\ unread'[t] # {} => pc'[t] = "load"
  BY SMTT(30) DEF Succeed, Snapshot, Load, TypeOK, Shape, Goto, snapshot
<1>4. Shape'
  BY <1>1, <1>3 DEF Shape
<1>5. Busy' = Busy
  BY <1>3 DEF Busy
<1>6. CountersExact' /\ InflightOwed'
  BY <1>1, <1>5, AccountsKept DEF history
<1>7. MaxExact' /\ MaxKnown'
  BY <1>1 DEF MaxExact, MaxKnown
<1> QED
  BY <1>2, <1>4, <1>6, <1>7

\* record_error: the task owes one more operation.
LEMMA ErrorKeeps ==
    ASSUME IInv, NEW t \in Tasks, RecordError(t)
    PROVE  IInv'
<1> USE Fields DEF IInv
<1>1. /\ pc[t] = "dispatch"
      /\ todo' = [todo EXCEPT ![t] = @ \union {<<ErrorsTotal, 1>>}]
      /\ pc' = [pc EXCEPT ![t] = "write"]
      /\ erred' = erred + 1
      /\ UNCHANGED <<mem, micros, updating, current, maxed, unread, snap, started,
                     finished, abandoned, measured>>
  BY DEF RecordError, Calls, Goto, maxUpdate, snapshot
<1>2. TypeOK'
  <2>1. own' \in [Tasks -> [Counters -> Nat]]
    BY OwnTyped DEF RecordError, Counters
  <2>2. todo \in [Tasks -> SUBSET (Cells \X Int)] /\ pc \in [Tasks -> {"idle", "dispatch", "load", "write"}]
    BY DEF TypeOK
  <2>3. todo' \in [Tasks -> SUBSET (Cells \X Int)]
    BY <1>1, <2>2, SMTT(30)
  <2>4. pc' \in [Tasks -> {"idle", "dispatch", "load", "write"}]
    BY <1>1, <2>2, SMTT(30)
  <2>5. erred' \in Nat
    BY <1>1, SMTT(30) DEF TypeOK
  <2> QED
    BY <1>1, <2>1, <2>3, <2>4, <2>5 DEF TypeOK
<1>3. Shape'
  BY <1>1 DEF Shape, TypeOK, Owable
<1>4. MaxExact' /\ MaxKnown'
  BY <1>1 DEF MaxExact, MaxKnown
<1>5. \A c, n : <<c, n>> # <<ErrorsTotal, 1>> => Owing(c, n)' = Owing(c, n)
  BY <1>1 DEF Owing, TypeOK
<1>6. /\ Owing(ErrorsTotal, 1)' = Owing(ErrorsTotal, 1) \union {t}
      /\ t \notin Owing(ErrorsTotal, 1)
  BY <1>1 DEF Owing, TypeOK, Shape
<1>7. Busy' = Busy
  BY <1>1 DEF Busy, TypeOK
<1>8. Cardinality(Owing(ErrorsTotal, 1)') = Cardinality(Owing(ErrorsTotal, 1)) + 1
  BY <1>6, CardGrows, OwingTasks
<1>9. CountersExact'
  BY <1>1, <1>5, <1>8, OwingTasks, SMTT(30) DEF CountersExact, TypeOK
<1>10. InflightOwed'
  BY <1>1, <1>5, <1>7 DEF InflightOwed
<1> QED
  BY <1>2, <1>3, <1>4, <1>9, <1>10

\* record_request_end: the task is idle and owes four operations.
LEMMA EndKeeps ==
    ASSUME IInv, NEW t \in Tasks, NEW l \in Latencies, RecordRequestEnd(t, l)
    PROVE  IInv'
<1> USE DEF IInv
<1>1. /\ pc[t] = "write" /\ todo[t] = {}
      /\ todo' = [todo EXCEPT ![t] = EndAdds(l)]
      /\ pc' = [pc EXCEPT ![t] = "idle"]
      /\ micros' = [micros EXCEPT ![t] = l]
      /\ updating' = [updating EXCEPT ![t] = "load"]
      /\ snap' = [snap EXCEPT ![t] = [c \in Cells |-> 0]]
      /\ finished' = finished + 1
      /\ measured' = [measured EXCEPT ![l] = @ + 1]
      /\ UNCHANGED <<mem, current, maxed, unread, started, erred, abandoned>>
  <2>1. todo' = [todo EXCEPT ![t] = todo[t] \union EndAdds(l)] /\ todo[t] = {}
    BY DEF RecordRequestEnd, Calls
  <2>2. todo[t] \union EndAdds(l) = EndAdds(l)
    BY <2>1
  <2> QED
    BY <2>1, <2>2 DEF RecordRequestEnd, Goto, DropSnapshot
<1>2. Bucket(l) \in Buckets /\ l \in Nat
  BY BucketFound, MetricsAssumption
<1>3. EndAdds(l) \subseteq Owable /\ EndAdds(l) \subseteq Cells \X Int
  BY <1>2, Fields, SMTT(30) DEF EndAdds, Owable
<1>4. TypeOK'
  <2>1. own' \in [Tasks -> [Counters -> Nat]]
    BY OwnTyped DEF RecordRequestEnd, Counters
  <2>2. todo \in [Tasks -> SUBSET (Cells \X Int)] /\ pc \in [Tasks -> {"idle", "dispatch", "load", "write"}]
    BY DEF TypeOK
  <2>3. todo' \in [Tasks -> SUBSET (Cells \X Int)]
    BY <1>1, <1>3, <2>2, SMTT(30)
  <2>4. pc' \in [Tasks -> {"idle", "dispatch", "load", "write"}]
    BY <1>1, <2>2, SMTT(30)
  <2>5. finished' \in Nat
    BY <1>1, SMTT(30) DEF TypeOK
  <2>6. /\ micros' \in [Tasks -> Nat] /\ updating' \in [Tasks -> {"no", "load", "cas"}]
        /\ snap' \in [Tasks -> [Cells -> Nat]] /\ measured' \in [Latencies -> Nat]
    BY <1>1, <1>2, SMTT(30) DEF TypeOK
  <2> QED
    BY <1>1, <2>1, <2>3, <2>4, <2>5, <2>6 DEF TypeOK
<1>5. /\ <<RequestsTotal, 1>> \notin EndAdds(l)
      /\ <<ErrorsTotal, 1>> \notin EndAdds(l)
      /\ <<Inflight, 1>> \notin EndAdds(l)
      /\ <<Inflight, -1>> \in EndAdds(l)
      /\ <<Samples, 1>> \in EndAdds(l)
  BY <1>2, Fields, SMTT(30) DEF EndAdds
<1>6. Shape'
  BY <1>1, <1>3, <1>5 DEF Shape, TypeOK
<1>7. MaxExact' /\ MaxKnown'
  BY <1>1 DEF MaxExact, MaxKnown, TypeOK
<1>8. /\ Owing(RequestsTotal, 1)' = Owing(RequestsTotal, 1)
      /\ Owing(ErrorsTotal, 1)' = Owing(ErrorsTotal, 1)
      /\ Owing(Inflight, 1)' = Owing(Inflight, 1)
      /\ Owing(Inflight, -1)' = Owing(Inflight, -1) \union {t}
      /\ Owing(Samples, 1)' = Owing(Samples, 1) \union {t}
  BY <1>1, <1>5 DEF Owing, TypeOK
<1>9. /\ Busy' = Busy \ {t} /\ t \in Busy /\ Busy \in SUBSET Tasks
      /\ t \notin Owing(Inflight, -1) /\ t \notin Owing(Samples, 1)
  BY <1>1 DEF Busy, TypeOK, Owing
<1>10. /\ Cardinality(Owing(Inflight, -1)') = Cardinality(Owing(Inflight, -1)) + 1
       /\ Cardinality(Owing(Samples, 1)') = Cardinality(Owing(Samples, 1)) + 1
       /\ Cardinality(Busy') = Cardinality(Busy) - 1
  BY <1>8, <1>9, CardGrows, CardShrinks, OwingTasks
<1>11. mem[Samples] \in Nat /\ mem[Inflight] \in Nat /\ finished \in Nat /\ abandoned \in Nat
  BY Fields DEF TypeOK
<1>12. CountersExact'
  BY <1>1, <1>8, <1>10, <1>11, OwingTasks, SMTT(30) DEF CountersExact
<1>13. InflightOwed'
  <2>1. Cardinality(Busy) \in Nat
    BY <1>9, CardNat
  <2> QED
    BY <1>1, <1>8, <1>10, <1>11, <2>1, OwingTasks, SMTT(30) DEF InflightOwed
<1> QED
  BY <1>4, <1>6, <1>7, <1>12, <1>13

\* The early return after a failed write: one busy task less, one more abandoned.
LEMMA WriteFailedKeeps ==
    ASSUME IInv, NEW t \in Tasks, WriteFailed(t)
    PROVE  IInv'
<1> USE DEF IInv
<1>1. /\ pc[t] = "write" /\ todo[t] = {}
      /\ pc' = [pc EXCEPT ![t] = "idle"]
      /\ snap' = [snap EXCEPT ![t] = [c \in Cells |-> 0]]
      /\ abandoned' = abandoned + 1
      /\ UNCHANGED <<mem, todo, micros, updating, current, maxed, unread, started, erred,
                     finished, own, measured>>
  BY DEF WriteFailed, DropSnapshot, Goto, memory, maxUpdate
<1>2. TypeOK'
  BY <1>1, SMTT(30) DEF TypeOK
<1>3. Shape'
  BY <1>1 DEF Shape, TypeOK
<1>4. MaxExact' /\ MaxKnown'
  BY <1>1 DEF MaxExact, MaxKnown
<1>5. \A c, n : Owing(c, n)' = Owing(c, n)
  BY <1>1 DEF Owing
<1>6. CountersExact'
  BY <1>1, <1>5 DEF CountersExact
<1>7. Busy' = Busy \ {t} /\ t \in Busy /\ Busy \in SUBSET Tasks
  BY <1>1 DEF Busy, TypeOK
<1>8. Cardinality(Busy') = Cardinality(Busy) - 1 /\ Cardinality(Busy) \in Nat
  BY <1>7, CardShrinks, CardNat
<1>9. mem[Inflight] \in Nat /\ abandoned \in Nat
  BY Fields DEF TypeOK
<1>10. InflightOwed'
  BY <1>1, <1>5, <1>8, <1>9, OwingTasks, SMTT(30) DEF InflightOwed
<1> QED
  BY <1>2, <1>3, <1>4, <1>6, <1>10

\* A fetch_add takes effect: what was owed to the field is in it.
LEMMA FetchAddKeeps ==
    ASSUME IInv, NEW t \in Tasks, NEW a \in todo[t], FetchAdd(t, a[1], a[2])
    PROVE  IInv'
<1> USE DEF IInv
<1>1. PICK c \in Cells, n \in Int : a = <<c, n>>
  BY SMTT(30) DEF TypeOK
<1>2. /\ <<c, n>> \in todo[t]
      /\ mem' = [mem EXCEPT ![c] = @ + n]
      /\ todo' = [todo EXCEPT ![t] = @ \ {<<c, n>>}]
      /\ UNCHANGED <<pc, micros, updating, current, maxed, unread, snap, started, erred,
                     finished, abandoned, own, measured>>
  BY <1>1 DEF FetchAdd, maxUpdate, snapshot, history
<1>3. <<c, n>> \in Owable /\ c # MaxUs
  BY <1>2, Fields DEF Shape, Owable
<1>4. n \in Nat \/ (c = Inflight /\ n = -1)
  BY <1>3, MetricsAssumption, SMTT(30) DEF Owable
<1>5. mem[c] \in Nat /\ mem[Inflight] \in Nat
  BY Fields DEF TypeOK
<1>6. t \in Owing(c, n)
  BY <1>2 DEF Owing
<1>7. Owing(c, n)' = Owing(c, n) \ {t}
  BY <1>2 DEF Owing, TypeOK
<1>8. \A d, m : <<d, m>> # <<c, n>> => Owing(d, m)' = Owing(d, m)
  BY <1>2 DEF Owing, TypeOK
<1>9. Cardinality(Owing(c, n)') = Cardinality(Owing(c, n)) - 1
  BY <1>6, <1>7, CardShrinks, OwingTasks
<1>10. /\ Busy' = Busy /\ Busy \in SUBSET Tasks /\ Cardinality(Busy) \in Nat
  BY <1>2, CardNat DEF Busy
<1>11. c = Inflight /\ n = -1 => mem[c] >= 1
  <2>1. Owing(Inflight, 1) \subseteq Busy
    BY DEF Owing, Busy, Shape
  <2>2. Cardinality(Owing(Inflight, 1)) <= Cardinality(Busy)
    BY <2>1, <1>10, CardMonotone, OwingTasks
  <2>3. Cardinality(Owing(c, n)) >= 1
    BY <1>7, <1>9, OwingTasks, CardNat, SMTT(30)
  <2>4. abandoned \in Nat
    BY DEF TypeOK
  <2> QED
    BY <2>2, <2>3, <2>4, <1>5, <1>10, OwingTasks, SMTT(30) DEF InflightOwed
<1>12. mem'[c] = mem[c] + n /\ mem'[c] \in Nat /\ \A d \in Cells : d # c => mem'[d] = mem[d]
  <2>1. mem'[c] = mem[c] + n /\ \A d \in Cells : d # c => mem'[d] = mem[d]
    BY <1>2 DEF TypeOK
  <2> QED
    BY <2>1, <1>4, <1>5, <1>11, SMTT(30)
<1>13. TypeOK'
  BY <1>2, <1>12 DEF TypeOK
<1>14. Shape'
  BY <1>2 DEF Shape, TypeOK
<1>15. MaxExact' /\ MaxKnown'
  BY <1>2, <1>3, <1>12, Fields DEF MaxExact, MaxKnown
<1>16. ASSUME NEW d \in {RequestsTotal, ErrorsTotal, Samples}
       PROVE  mem'[d] + Cardinality(Owing(d, 1)') = mem[d] + Cardinality(Owing(d, 1))
  <2>1. CASE c = d
    <3>1. n = 1
      BY <2>1, <1>3, Fields DEF Owable
    <3> QED
      BY <2>1, <3>1, <1>9, <1>12, <1>5, OwingTasks, SMTT(30)
  <2>2. CASE c # d
    BY <2>2, <1>8, <1>12, Fields
  <2> QED
    BY <2>1, <2>2
<1>17. CountersExact'
  BY <1>2, <1>16 DEF CountersExact
<1>18. InflightOwed'
  <2>1. CASE c = Inflight
    <3>1. n = 1 \/ n = -1
      BY <2>1, <1>3, Fields DEF Owable
    <3>2. CASE n = 1
      <4>1. Owing(Inflight, -1)' = Owing(Inflight, -1)
        BY <1>8, <3>2, SMTT(30)
      <4> QED
        BY <2>1, <3>2, <4>1, <1>2, <1>5, <1>9, <1>10, <1>12, OwingTasks, SMTT(30) DEF InflightOwed, TypeOK
    <3>3. CASE n = -1
      <4>1. Owing(Inflight, 1)' = Owing(Inflight, 1)
        BY <1>8, <3>3, SMTT(30)
      <4>2. Cardinality(Owing(Inflight, -1)') = Cardinality(Owing(Inflight, -1)) - 1
        BY <2>1, <3>3, <1>9
      <4>3. mem'[Inflight] = mem[Inflight] - 1 /\ mem'[Inflight] \in Nat /\ abandoned \in Nat
        BY <2>1, <3>3, <1>5, <1>12 DEF TypeOK
      <4> QED
        BY <4>1, <4>2, <4>3, <1>2, <1>5, <1>10, OwingTasks, SMTT(30) DEF InflightOwed
    <3> QED
      BY <3>1, <3>2, <3>3
  <2>2. CASE c # Inflight
    <3>1. Owing(Inflight, 1)' = Owing(Inflight, 1) /\ Owing(Inflight, -1)' = Owing(Inflight, -1)
      BY <2>2, <1>8
    <3> QED
      BY <2>2, <3>1, <1>2, <1>10, <1>12, Fields DEF InflightOwed
  <2> QED
    BY <2>1, <2>2
<1> QED
  BY <1>13, <1>14, <1>15, <1>17, <1>18

\* update_max: the maximum only grows, and only to the value of a task that
\* then has finished its update.
LEMMA MaxKeeps ==
    ASSUME IInv, NEW t \in Tasks, LoadMax(t) \/ KeepMax(t) \/ CompareExchange(t)
    PROVE  IInv'
<1> USE DEF IInv
<1>1. UNCHANGED <<todo, pc, micros, unread, snap, history>>
  BY DEF LoadMax, KeepMax, CompareExchange, memory, snapshot
<1>2. mem[MaxUs] \in Nat /\ micros[t] \in Nat /\ current[t] \in Nat
  BY Fields DEF TypeOK
<1>3. micros[t] \in Latencies
  BY DEF LoadMax, KeepMax, CompareExchange, Shape
<1>4. /\ mem' \in [Cells -> Nat]
      /\ \A c \in Cells \ {MaxUs} : mem'[c] = mem[c]
      /\ updating' \in [Tasks -> {"no", "load", "cas"}]
      /\ \A u \in Tasks : u # t => updating'[u] = updating[u] /\ current'[u] = current[u]
      /\ current' \in [Tasks -> Nat]
      /\ maxed' \subseteq Latencies
  <2>1. CASE LoadMax(t)
    BY <2>1, <1>2 DEF LoadMax, memory, TypeOK
  <2>2. CASE KeepMax(t)
    BY <2>2, <1>3 DEF KeepMax, UpdateDone, memory, TypeOK
  <2>3. CASE CompareExchange(t)
    BY <2>3, <1>2, <1>3 DEF CompareExchange, UpdateDone, TypeOK
  <2> QED
    BY <2>1, <2>2, <2>3
<1>5. TypeOK'
  BY <1>1, <1>4 DEF TypeOK, history
<1>6. Shape'
  BY <1>1, <1>3, <1>4 DEF Shape
<1>7. Busy' = Busy
  BY <1>1 DEF Busy
<1>8. CountersExact' /\ InflightOwed'
  BY <1>1, <1>4, <1>7, AccountsKept DEF history
<1>9. MaxExact' /\ MaxKnown'
  <2>1. CASE LoadMax(t)
    BY <2>1, <1>2, <1>4, SMTT(30) DEF LoadMax, memory, MaxExact, MaxKnown, TypeOK
  <2>2. CASE KeepMax(t)
    <3>1. micros[t] <= mem[MaxUs]
      BY <2>2, <1>2, SMTT(30) DEF KeepMax, MaxKnown
    <3> QED
      BY <2>2, <3>1 DEF KeepMax, UpdateDone, memory, MaxExact, MaxKnown, TypeOK
  <2>3. CASE CompareExchange(t) /\ Unmoved(t)
    <3>1. /\ micros[t] > mem[MaxUs] /\ mem'[MaxUs] = micros[t]
          /\ maxed' = maxed \union {micros[t]} /\ current' = current
          /\ updating'[t] = "no"
      BY <2>3, Fields DEF CompareExchange, Unmoved, UpdateDone, TypeOK
    <3>2. \A m \in maxed : m \in Nat
      BY MetricsAssumption DEF TypeOK
    <3>3. MaxExact'
      BY <3>1, <3>2, <1>2, SMTT(30) DEF MaxExact
    <3>4. MaxKnown'
      <4>1. \A u \in Tasks : current[u] \in Nat
        BY DEF TypeOK
      <4> QED
        BY <3>1, <4>1, <1>2, <1>4, SMTT(30) DEF MaxKnown
    <3> QED
      BY <3>3, <3>4
  <2>4. CASE CompareExchange(t) /\ ~Unmoved(t)
    <3>1. /\ mem' = mem /\ updating' = updating /\ maxed' = maxed
          /\ current' = [current EXCEPT ![t] = mem[MaxUs]]
      BY <2>4 DEF CompareExchange
    <3>2. current'[t] = mem[MaxUs]
      BY <3>1 DEF TypeOK
    <3> QED
      BY <3>1, <3>2, <1>2, <1>4, SMTT(30) DEF MaxExact, MaxKnown
  <2> QED
    BY <2>1, <2>2, <2>3, <2>4
<1> QED
  BY <1>5, <1>6, <1>8, <1>9

-----------------------------------------------------------------------------
\* IInv is inductive.
LEMMA IInvStep == IInv /\ [Next]_vars => IInv'
<1> SUFFICES ASSUME IInv, [Next]_vars PROVE IInv'
  OBVIOUS
<1>1. CASE UNCHANGED vars
  BY <1>1 DEF IInv, TypeOK, Shape, CountersExact, InflightOwed, MaxExact, MaxKnown,
     Owing, Busy, vars, memory, maxUpdate, snapshot, history
<1>2. CASE Next
  <2> PICK t \in Tasks : Step(t)
    BY <1>2 DEF Next
  <2> QED
    BY StartKeeps, DispatchKeeps, ErrorKeeps, EndKeeps, WriteFailedKeeps, FetchAddKeeps,
       MaxKeeps DEF Step
<1> QED
  BY <1>1, <1>2

\* The inductive invariant holds of the metrics.
LEMMA AlwaysIInv == Spec => []IInv
  BY IInvInit, IInvStep, PTL DEF Spec

\* Types, among them that no fetch_sub takes the inflight gauge below zero.
THEOREM MetricsTyped == Spec => []TypeOK
<1>1. IInv => TypeOK
  BY DEF IInv
<1> QED
  BY <1>1, AlwaysIInv, PTL

\* The counters of requests, errors and samples lose no update and count none
\* twice, for any number of tasks that record at the same time.
THEOREM CountersAreExact == Spec => []CountersExact
<1>1. IInv => CountersExact
  BY DEF IInv
<1> QED
  BY <1>1, AlwaysIInv, PTL

\* No request is counted in or out of the inflight gauge twice or never, for any
\* number of tasks, as long as no answer failed to be written.
THEOREM InflightIsExact == Spec => []InflightExact
<1>1. IInv => InflightExact
  <2> SUFFICES ASSUME IInv, abandoned = 0
               PROVE  mem[Inflight] + Cardinality(Owing(Inflight, 1))
                        = Cardinality(Busy) + Cardinality(Owing(Inflight, -1))
    BY DEF InflightExact
  <2>1. Cardinality(Busy) \in Nat /\ Cardinality(Owing(Inflight, -1)) \in Nat
    BY CardNat, OwingTasks DEF Busy
  <2> QED
    BY <2>1, SMTT(30) DEF IInv, InflightOwed
<1> QED
  BY <1>1, AlwaysIInv, PTL

\* update_max: no concurrent update of the maximum is lost.
THEOREM MaxIsExact == Spec => []MaxExact
<1>1. IInv => MaxExact
  BY DEF IInv
<1> QED
  BY <1>1, AlwaysIInv, PTL

-----------------------------------------------------------------------------
(* The histogram. *)

\* The latencies that go to the buckets up to b, and the tasks that still owe an
\* operation to one of these.
UpTo(b) == {l \in Latencies : Bucket(l) <= b}
OwingUpTo(b) == {t \in Tasks : \E c \in 7 .. b : <<c, 1>> \in todo[t]}

\* A task owes at most one operation to the buckets.
OneBucket ==
    \A t \in Tasks : \A b, c \in Buckets : <<b, 1>> \in todo[t] /\ <<c, 1>> \in todo[t] => b = c

\* Up to operations under way, the buckets count what was measured.
BucketsExact ==
    \A b \in Buckets : Cumulative(mem, b) + Cardinality(OwingUpTo(b)) = MeasuredIn(UpTo(b))

\* Every request that finished was measured.
AllMeasured == finished = Total(measured)

Histogram == OneBucket /\ BucketsExact /\ AllMeasured

\* The buckets up to b.
LEMMA FirstBuckets ==
    \A b \in Buckets : /\ 7 .. b \in SUBSET Buckets /\ 7 .. b \in SUBSET Cells
                       /\ IsFiniteSet(7 .. b)
                       /\ \A c \in Buckets : c \in 7 .. b <=> c <= b
<1> SUFFICES ASSUME NEW b \in Buckets
             PROVE  /\ 7 .. b \in SUBSET Buckets /\ 7 .. b \in SUBSET Cells
                    /\ IsFiniteSet(7 .. b)
                    /\ \A c \in Buckets : c \in 7 .. b <=> c <= b
  OBVIOUS
<1>1. Len(Bounds) \in Nat
  BY MetricsAssumption, SMTT(30)
<1>2. b \in Int /\ 7 \in Int
  BY <1>1, SMTT(30) DEF Buckets
<1>3. IsFiniteSet(7 .. b)
  BY <1>2, FS_Interval
<1>4. 7 .. b \in SUBSET Buckets /\ \A c \in Buckets : c \in 7 .. b <=> c <= b
  BY <1>1, SMTT(30) DEF Buckets
<1> QED
  BY <1>3, <1>4, Fields

\* OwingUpTo holds tasks.
LEMMA OwingUpToTasks ==
    \A b : OwingUpTo(b) \in SUBSET Tasks /\ Cardinality(OwingUpTo(b)) \in Nat
  BY CardNat DEF OwingUpTo

\* Fresh metrics.
LEMMA HistogramInit == Init => Histogram
<1> SUFFICES ASSUME Init PROVE Histogram
  OBVIOUS
<1>1. OneBucket
  BY DEF Init, OneBucket
<1>2. ASSUME NEW b \in Buckets
      PROVE  Cumulative(mem, b) + Cardinality(OwingUpTo(b)) = MeasuredIn(UpTo(b))
  <2>1. [i \in 7 .. b |-> mem[i]] \in [7 .. b -> Nat] /\ \A i \in 7 .. b : mem[i] = 0
    BY FirstBuckets DEF Init
  <2>2. Cumulative(mem, b) = 0
    BY <2>1, TotalZero DEF Cumulative
  <2>3. \A l \in UpTo(b) : measured[l] = 0
    BY DEF Init, UpTo
  <2>4. [l \in UpTo(b) |-> measured[l]] \in [UpTo(b) -> Nat]
    BY <2>3, SMTT(30)
  <2>5. MeasuredIn(UpTo(b)) = 0
    BY <2>3, <2>4, TotalZero DEF MeasuredIn
  <2>6. OwingUpTo(b) = {}
    BY DEF Init, OwingUpTo
  <2>7. Cardinality(OwingUpTo(b)) = 0
    BY <2>6, FS_EmptySet
  <2> QED
    BY <2>2, <2>5, <2>7, SMTT(30)
<1>3. AllMeasured
  <2>1. measured \in [Latencies -> Nat] /\ \A l \in Latencies : measured[l] = 0
    BY DEF Init
  <2>2. Total(measured) = 0
    BY <2>1, TotalZero
  <2> QED
    BY <2>2 DEF AllMeasured, Init
<1> QED
  BY <1>1, <1>2, <1>3 DEF Histogram, BucketsExact

\* Steps that leave the buckets, and what is owed to them, alone.
LEMMA HistogramKept ==
    ASSUME Histogram, UNCHANGED <<finished, measured>>,
           \A b \in Buckets : mem'[b] = mem[b],
           \A t \in Tasks, b \in Buckets : <<b, 1>> \in todo'[t] <=> <<b, 1>> \in todo[t]
    PROVE  Histogram'
<1>1. OneBucket'
  BY DEF Histogram, OneBucket
<1>2. ASSUME NEW b \in Buckets
      PROVE  Cumulative(mem, b)' = Cumulative(mem, b) /\ OwingUpTo(b)' = OwingUpTo(b)
  <2>1. [i \in 7 .. b |-> mem'[i]] = [i \in 7 .. b |-> mem[i]]
    BY FirstBuckets
  <2>2. OwingUpTo(b)' = OwingUpTo(b)
    BY FirstBuckets DEF OwingUpTo
  <2> QED
    BY <2>1, <2>2 DEF Cumulative
<1>3. \A b \in Buckets : MeasuredIn(UpTo(b))' = MeasuredIn(UpTo(b))
  BY DEF MeasuredIn, UpTo
<1>4. BucketsExact'
  BY <1>2, <1>3 DEF Histogram, BucketsExact
<1>5. AllMeasured'
  BY DEF Histogram, AllMeasured
<1> QED
  BY <1>1, <1>4, <1>5 DEF Histogram

\* record_request_end: one more latency is measured, and its bucket is owed one.
LEMMA EndHistogram ==
    ASSUME IInv, Histogram, NEW t \in Tasks, NEW l \in Latencies, RecordRequestEnd(t, l)
    PROVE  Histogram'
<1>1. /\ todo[t] = {} /\ mem' = mem /\ finished' = finished + 1
      /\ todo' = [todo EXCEPT ![t] = todo[t] \union EndAdds(l)]
      /\ measured' = [measured EXCEPT ![l] = measured[l] + 1]
  BY DEF RecordRequestEnd, Calls
<1>2. measured \in [Latencies -> Nat] /\ finished \in Nat /\ mem \in [Cells -> Nat]
      /\ todo \in [Tasks -> SUBSET (Cells \X Int)]
  BY DEF IInv, TypeOK
<1>3. Bucket(l) \in Buckets /\ l \in Nat
  BY BucketFound, MetricsAssumption
<1>4. \A b \in Buckets : <<b, 1>> \in todo'[t] <=> b = Bucket(l)
  <2>1. todo'[t] = EndAdds(l)
    BY <1>1, <1>2
  <2> QED
    BY <2>1, <1>3, Fields DEF EndAdds
<1>5. \A u \in Tasks : u # t => todo'[u] = todo[u]
  BY <1>1, <1>2
<1>6. OneBucket'
  BY <1>4, <1>5 DEF OneBucket, Histogram
<1>7. ASSUME NEW b \in Buckets
      PROVE  Cumulative(mem, b)' + Cardinality(OwingUpTo(b)') = MeasuredIn(UpTo(b))'
  <2>1. UpTo(b) \in SUBSET Latencies /\ IsFiniteSet(UpTo(b))
    BY MetricsAssumption, FS_Subset DEF UpTo
  <2>2. Cumulative(mem, b)' = Cumulative(mem, b) /\ Cumulative(mem, b) \in Nat
    <3>1. [i \in 7 .. b |-> mem[i]] \in [7 .. b -> Nat] /\ IsFiniteSet(7 .. b)
      BY <1>2, FirstBuckets
    <3> QED
      BY <1>1, <3>1, TotalNat DEF Cumulative
  <2>3. /\ Total([k \in UpTo(b) |-> measured[k]]) \in Nat
        /\ l \in UpTo(b) => Total([k \in UpTo(b) |-> measured'[k]])
                              = Total([k \in UpTo(b) |-> measured[k]]) + 1
        /\ l \notin UpTo(b) => Total([k \in UpTo(b) |-> measured'[k]])
                                 = Total([k \in UpTo(b) |-> measured[k]])
    <3>1. measured \in [Latencies -> Nat] /\ measured' = [measured EXCEPT ![l] = measured[l] + 1]
      BY <1>1, <1>2
    <3> QED
      BY <2>1, <3>1, TotalOn, SMTT(30)
  <2>4. Cumulative(mem, b) + Cardinality(OwingUpTo(b)) = MeasuredIn(UpTo(b))
    BY DEF Histogram, BucketsExact
  <2>5. t \notin OwingUpTo(b)
    BY <1>1 DEF OwingUpTo
  <2>6. CASE Bucket(l) <= b
    <3>1. OwingUpTo(b)' = OwingUpTo(b) \union {t}
      BY <1>3, <1>4, <1>5, <2>6, FirstBuckets DEF OwingUpTo
    <3>2. Cardinality(OwingUpTo(b)') = Cardinality(OwingUpTo(b)) + 1
      BY <3>1, <2>5, CardGrows, OwingUpToTasks
    <3>3. MeasuredIn(UpTo(b))' = MeasuredIn(UpTo(b)) + 1
      <4>1. l \in UpTo(b)
        BY <2>6 DEF UpTo
      <4>2. Total([k \in UpTo(b) |-> measured'[k]]) = Total([k \in UpTo(b) |-> measured[k]]) + 1
        BY <2>3, <4>1
      <4> QED
        BY <4>2 DEF MeasuredIn, UpTo
    <3> QED
      BY <2>2, <2>3, <2>4, <3>2, <3>3, OwingUpToTasks, SMTT(30) DEF MeasuredIn
  <2>7. CASE ~(Bucket(l) <= b)
    <3>1. OwingUpTo(b)' = OwingUpTo(b)
      BY <1>1, <1>4, <1>5, <2>7, FirstBuckets DEF OwingUpTo
    <3>2. MeasuredIn(UpTo(b))' = MeasuredIn(UpTo(b))
      <4>1. l \notin UpTo(b)
        BY <2>7 DEF UpTo
      <4>2. Total([k \in UpTo(b) |-> measured'[k]]) = Total([k \in UpTo(b) |-> measured[k]])
        BY <2>3, <4>1
      <4> QED
        BY <4>2 DEF MeasuredIn, UpTo
    <3> QED
      BY <2>2, <2>4, <3>1, <3>2
  <2> QED
    BY <2>6, <2>7
<1>8. AllMeasured'
  <2>1. measured[l] \in Nat /\ measured[l] + 1 \in Nat /\ Total(measured) \in Nat
    <3>1. Total(measured) \in Nat
      BY <1>2, MetricsAssumption, TotalNat
    <3> QED
      BY <1>2, <3>1, SMTT(30)
  <2>2. Total(measured') = Total(measured) - measured[l] + (measured[l] + 1)
    <3>1. measured \in [Latencies -> Nat] /\ measured' = [measured EXCEPT ![l] = measured[l] + 1]
      BY <1>1, <1>2
    <3>2. IsFiniteSet(Latencies)
      BY MetricsAssumption
    <3>3. Total([measured EXCEPT ![l] = measured[l] + 1])
            = Total(measured) - measured[l] + (measured[l] + 1)
      BY <2>1, <3>1, <3>2, TotalUpdate
    <3> QED
      BY <3>1, <3>3
  <2>3. finished = Total(measured)
    BY DEF Histogram, AllMeasured
  <2> QED
    BY <1>1, <2>1, <2>2, <2>3, SMTT(30) DEF AllMeasured
<1> QED
  BY <1>6, <1>7, <1>8 DEF Histogram, BucketsExact

\* The fetch_add of a bucket: what was owed to it is in it.
LEMMA BucketAdd ==
    ASSUME IInv, Histogram, NEW t \in Tasks, NEW c \in Buckets, FetchAdd(t, c, 1)
    PROVE  Histogram'
<1>1. /\ <<c, 1>> \in todo[t] /\ mem' = [mem EXCEPT ![c] = mem[c] + 1]
      /\ todo' = [todo EXCEPT ![t] = todo[t] \ {<<c, 1>>}]
      /\ UNCHANGED <<finished, measured>>
  BY DEF FetchAdd, history
<1>2. mem \in [Cells -> Nat] /\ todo \in [Tasks -> SUBSET (Cells \X Int)]
  BY DEF IInv, TypeOK
<1>3. /\ todo'[t] = todo[t] \ {<<c, 1>>}
      /\ \A u \in Tasks : u # t => todo'[u] = todo[u]
  BY <1>1, <1>2
<1>4. OneBucket'
  BY <1>3 DEF Histogram, OneBucket
<1>5. \A b \in Buckets : <<b, 1>> \in todo[t] => b = c
  BY <1>1 DEF Histogram, OneBucket
<1>6. ASSUME NEW b \in Buckets
      PROVE  Cumulative(mem, b)' + Cardinality(OwingUpTo(b)') = MeasuredIn(UpTo(b))'
  <2>1. MeasuredIn(UpTo(b))' = MeasuredIn(UpTo(b))
    BY <1>1 DEF MeasuredIn, UpTo
  <2>2. Cumulative(mem, b) + Cardinality(OwingUpTo(b)) = MeasuredIn(UpTo(b))
    BY DEF Histogram, BucketsExact
  <2>3. 7 .. b \in SUBSET Cells /\ IsFiniteSet(7 .. b) /\ c \in Cells
    BY FirstBuckets, Fields
  <2>4. /\ Total([i \in 7 .. b |-> mem[i]]) \in Nat
        /\ c \in 7 .. b => Total([i \in 7 .. b |-> mem'[i]]) = Total([i \in 7 .. b |-> mem[i]]) + 1
        /\ c \notin 7 .. b => Total([i \in 7 .. b |-> mem'[i]]) = Total([i \in 7 .. b |-> mem[i]])
    <3>1. mem \in [Cells -> Nat] /\ mem' = [mem EXCEPT ![c] = mem[c] + 1]
      BY <1>1, <1>2
    <3>2. PICK S : S = 7 .. b
      OBVIOUS
    <3>3. S \in SUBSET Cells /\ IsFiniteSet(S) /\ c \in Cells
      BY <2>3, <3>2
    <3>4. /\ Total([i \in S |-> mem[i]]) \in Nat
          /\ c \in S => Total([i \in S |-> mem'[i]]) = Total([i \in S |-> mem[i]]) + 1
          /\ c \notin S => Total([i \in S |-> mem'[i]]) = Total([i \in S |-> mem[i]])
      BY <3>1, <3>3, TotalOn, SMTT(30)
    <3> QED
      BY <3>2, <3>4
  <2>5. CASE c <= b
    <3>1. c \in 7 .. b
      BY <2>5, FirstBuckets
    <3>2. OwingUpTo(b)' = OwingUpTo(b) \ {t} /\ t \in OwingUpTo(b)
      BY <1>1, <1>3, <1>5, <3>1, FirstBuckets DEF OwingUpTo
    <3>3. Cardinality(OwingUpTo(b)') = Cardinality(OwingUpTo(b)) - 1
      BY <3>2, CardShrinks, OwingUpToTasks
    <3>4. Cumulative(mem, b)' = Cumulative(mem, b) + 1
      BY <2>4, <3>1 DEF Cumulative
    <3> QED
      BY <2>1, <2>2, <2>4, <3>3, <3>4, OwingUpToTasks, SMTT(30) DEF Cumulative
  <2>6. CASE ~(c <= b)
    <3>1. c \notin 7 .. b
      BY <2>6, FirstBuckets
    <3>2. OwingUpTo(b)' = OwingUpTo(b)
      BY <1>3, <1>5, <3>1, FirstBuckets DEF OwingUpTo
    <3>3. Cumulative(mem, b)' = Cumulative(mem, b)
      BY <2>4, <3>1 DEF Cumulative
    <3> QED
      BY <2>1, <2>2, <3>2, <3>3
  <2> QED
    BY <2>5, <2>6
<1>7. AllMeasured'
  BY <1>1 DEF Histogram, AllMeasured
<1> QED
  BY <1>4, <1>6, <1>7 DEF Histogram, BucketsExact

\* The histogram is exact at every step.
LEMMA HistogramStep == IInv /\ Histogram /\ [Next]_vars => Histogram'
<1> SUFFICES ASSUME IInv, Histogram, [Next]_vars PROVE Histogram'
  OBVIOUS
<1>1. CASE UNCHANGED vars
  BY <1>1, HistogramKept DEF vars, memory, history
<1>2. CASE Next
  <2> PICK t \in Tasks : Step(t)
    BY <1>2 DEF Next
  <2>1. todo \in [Tasks -> SUBSET (Cells \X Int)] /\ mem \in [Cells -> Nat]
    BY DEF IInv, TypeOK
  <2>2. CASE RecordRequestStart(t)
    <3>1. mem' = mem /\ todo' = [todo EXCEPT ![t] = todo[t] \union StartAdds]
          /\ UNCHANGED <<finished, measured>>
      BY <2>2 DEF RecordRequestStart, Calls
    <3>2. \A b \in Buckets : <<b, 1>> \notin StartAdds
      BY Fields DEF StartAdds
    <3>3. \A u \in Tasks, b \in Buckets : <<b, 1>> \in todo'[u] <=> <<b, 1>> \in todo[u]
      BY <2>1, <3>1, <3>2
    <3> QED
      BY <3>1, <3>3, HistogramKept
  <2>3. CASE RecordError(t)
    <3>1. mem' = mem /\ todo' = [todo EXCEPT ![t] = todo[t] \union {<<ErrorsTotal, 1>>}]
          /\ UNCHANGED <<finished, measured>>
      BY <2>3 DEF RecordError, Calls
    <3>2. \A u \in Tasks, b \in Buckets : <<b, 1>> \in todo'[u] <=> <<b, 1>> \in todo[u]
      BY <2>1, <3>1, Fields
    <3> QED
      BY <3>1, <3>2, HistogramKept
  <2>4. CASE Succeed(t) \/ Snapshot(t) \/ \E c \in Cells : Load(t, c)
    BY <2>4, HistogramKept DEF Succeed, Snapshot, Load, memory, history
  <2>5. CASE WriteFailed(t)
    BY <2>5, HistogramKept DEF WriteFailed, memory
  <2>6. CASE LoadMax(t) \/ KeepMax(t) \/ CompareExchange(t)
    <3>1. UNCHANGED <<todo, finished, measured>>
      BY <2>6 DEF LoadMax, KeepMax, CompareExchange, memory, history
    <3>2. mem' = mem \/ mem' = [mem EXCEPT ![MaxUs] = micros[t]]
      BY <2>6 DEF LoadMax, KeepMax, CompareExchange, memory
    <3>3. \A b \in Buckets : mem'[b] = mem[b]
      BY <2>1, <3>2, Fields
    <3> QED
      BY <3>1, <3>3, HistogramKept
  <2>7. ASSUME NEW l \in Latencies, RecordRequestEnd(t, l) PROVE Histogram'
    BY <2>7, EndHistogram
  <2>8. ASSUME NEW a \in todo[t], FetchAdd(t, a[1], a[2]) PROVE Histogram'
    <3>1. PICK c \in Cells, n \in Int : a = <<c, n>>
      BY <2>1, SMTT(30)
    <3>2. FetchAdd(t, c, n) /\ <<c, n>> \in Owable
      BY <2>8, <3>1 DEF IInv, Shape
    <3>3. CASE c \in Buckets
      <4>1. n = 1
        BY <3>2, <3>3, Fields DEF Owable
      <4> QED
        BY <3>2, <3>3, <4>1, BucketAdd
    <3>4. CASE c \notin Buckets
      <4>1. mem' = [mem EXCEPT ![c] = mem[c] + n] /\ todo' = [todo EXCEPT ![t] = todo[t] \ {<<c, n>>}]
            /\ UNCHANGED <<finished, measured>>
        BY <3>2 DEF FetchAdd, history
      <4>2. \A b \in Buckets : mem'[b] = mem[b]
        BY <2>1, <3>4, <4>1, Fields
      <4>3. \A u \in Tasks, b \in Buckets : <<b, 1>> \in todo'[u] <=> <<b, 1>> \in todo[u]
        BY <2>1, <3>4, <4>1
      <4> QED
        BY <4>1, <4>2, <4>3, HistogramKept
    <3> QED
      BY <3>3, <3>4
  <2> QED
    BY <2>2, <2>3, <2>4, <2>5, <2>6, <2>7, <2>8 DEF Step
<1> QED
  BY <1>1, <1>2

\* n times p/1000, rounded up.
Exact(n, p) == (n * p + 999) \div 1000

\* That is the nearest rank.
LEMMA ExactNearest ==
    ASSUME NEW f \in Nat \ {0}, NEW p \in Percentiles
    PROVE  NearestRank(f, p) \in 1 .. f /\ NearestRank(f, p) = Exact(f, p)
<1>1. /\ Exact(f, p) \in 1 .. f /\ IsNearest(Exact(f, p), f, p)
      /\ \A k \in 1 .. f : IsNearest(k, f, p) => k = Exact(f, p)
  <2>1. CASE p = 1
    BY <2>1, SMTT(30) DEF Exact, IsNearest
  <2>2. CASE p = 500
    BY <2>2, SMTT(30) DEF Exact, IsNearest
  <2>3. CASE p = 900
    BY <2>3, SMTT(30) DEF Exact, IsNearest
  <2>4. CASE p = 990
    BY <2>4, SMTT(30) DEF Exact, IsNearest
  <2>5. CASE p = 999
    BY <2>5, SMTT(30) DEF Exact, IsNearest
  <2>6. CASE p = 1000
    BY <2>6, SMTT(30) DEF Exact, IsNearest
  <2> QED
    BY <2>1, <2>2, <2>3, <2>4, <2>5, <2>6, SMTT(30) DEF Percentiles
<1>2. NearestRank(f, p) \in 1 .. f /\ IsNearest(NearestRank(f, p), f, p)
  BY <1>1 DEF NearestRank
<1> QED
  BY <1>1, <1>2

\* percentile_us takes a rank that there is: the nearest or, for p99.9, the next.
LEMMA RankFound ==
    ASSUME NEW f \in Nat \ {0}, NEW p \in Percentiles, NEW rank \in Ranks(f, p)
    PROVE  rank \in 1 .. f /\ rank \in Candidates(f, p)
<1>1. NearestRank(f, p) \in 1 .. f /\ NearestRank(f, p) = Exact(f, p)
  BY ExactNearest
<1>2. CASE p = 999 /\ f % 1000 = 0
  <2>1. rank = NearestRank(f, p) \/ rank = NearestRank(f, p) + 1
    BY ONLY <1>1, <1>2, rank \in Ranks(f, p), SMTT(30) DEF Ranks, Exact
  <2>2. Candidates(f, p) = NearestRank(f, p) .. NearestRank(f, p) + 1
    BY ONLY <1>2, SMTT(30) DEF Candidates
  <2>3. Exact(f, 999) + 1 <= f
    BY <1>2, SMTT(30) DEF Exact
  <2> QED
    BY <1>1, <1>2, <2>1, <2>2, <2>3, SMTT(30)
<1>3. CASE ~(p = 999 /\ f % 1000 = 0)
  <2>1. rank = NearestRank(f, p)
    BY ONLY <1>1, <1>3, rank \in Ranks(f, p), SMTT(30) DEF Ranks, Exact
  <2>2. Candidates(f, p) = NearestRank(f, p) .. NearestRank(f, p) + 0
    BY ONLY <1>3, SMTT(30) DEF Candidates
  <2> QED
    BY <1>1, <2>1, <2>2, SMTT(30)
<1> QED
  BY <1>2, <1>3

\* The latencies up to a bound.
Below(x) == {k \in Latencies : k <= x}

\* More latencies are measured in a larger set.
LEMMA MeasuredMonotone ==
    ASSUME TypeOK, NEW T \in SUBSET Latencies, NEW S \in SUBSET T
    PROVE  MeasuredIn(S) \in Nat /\ MeasuredIn(S) <= MeasuredIn(T)
<1>1. IsFiniteSet(T) /\ IsFiniteSet(S)
  BY MetricsAssumption, FS_Subset
<1>2. PICK f : f = [l \in T |-> measured[l]]
  OBVIOUS
<1>3. /\ [l \in S |-> measured[l]] = [l \in S |-> f[l]]
      /\ [l \in T |-> measured[l]] = [l \in T |-> f[l]]
      /\ f \in [T -> Nat] /\ [l \in S |-> measured[l]] \in [S -> Nat]
  <2>1. \A l \in T : f[l] = measured[l] /\ measured[l] \in Nat
    BY <1>2 DEF TypeOK
  <2>2. f \in [T -> Nat]
    BY <1>2, <2>1
  <2>3. [l \in S |-> measured[l]] \in [S -> Nat]
    BY <2>1
  <2>4. [l \in S |-> measured[l]] = [l \in S |-> f[l]]
    BY <2>1
  <2>5. [l \in T |-> measured[l]] = [l \in T |-> f[l]]
    BY <2>1
  <2> QED
    BY <2>2, <2>3, <2>4, <2>5
<1>4. Total([l \in S |-> f[l]]) <= Total([l \in T |-> f[l]])
  <2>1. f \in [T -> Nat]
    BY <1>3
  <2> QED
    BY <1>1, <2>1, TotalSubset
<1>5. Total([l \in S |-> measured[l]]) \in Nat
  BY <1>1, <1>3, TotalNat
<1> QED
  BY <1>3, <1>4, <1>5, SMTT(30) DEF MeasuredIn

\* The n-th smallest latency is at most x exactly when n latencies are.
LEMMA NthSmallestIs ==
    ASSUME TypeOK, AllMeasured, NEW n \in 1 .. finished, NEW x \in Nat
    PROVE  /\ NthSmallest(n) \in Latencies
           /\ MeasuredIn(Below(x)) >= n <=> NthSmallest(n) <= x
<1> DEFINE enough == {l \in Latencies : MeasuredIn(Below(l)) >= n}
<1>1. finished \in Nat /\ n \in Nat /\ n >= 1 /\ n <= finished
  BY SMTT(30) DEF TypeOK
<1>2. Latencies \in SUBSET Nat /\ IsFiniteSet(Latencies)
  BY MetricsAssumption
<1>3. \A S \in SUBSET Latencies : MeasuredIn(S) \in Nat
  BY MeasuredMonotone
<1>4. MeasuredIn({}) = 0
  <2>1. [l \in {} |-> measured[l]] \in [{} -> Nat]
    OBVIOUS
  <2> QED
    BY <2>1, TotalZero DEF MeasuredIn
<1>5. ASSUME NEW S \in SUBSET Latencies, MeasuredIn(S) >= n
      PROVE  \E g \in S : (\A k \in S : k <= g) /\ g \in enough
  <2>1. S # {}
    BY <1>1, <1>3, <1>4, <1>5, SMTT(30)
  <2>2. S \in SUBSET Nat /\ IsFiniteSet(S)
    BY <1>2, FS_Subset
  <2>3. PICK g \in S : \A k \in S : k <= g
    BY <2>1, <2>2, GreatestExists
  <2>4. S \in SUBSET Below(g) /\ Below(g) \in SUBSET Latencies
    BY <2>3 DEF Below
  <2>5. MeasuredIn(S) <= MeasuredIn(Below(g)) /\ MeasuredIn(S) \in Nat /\ MeasuredIn(Below(g)) \in Nat
    BY <1>3, <2>4, MeasuredMonotone
  <2>6. MeasuredIn(Below(g)) >= n
    BY <1>1, <1>5, <2>5, SMTT(30)
  <2> QED
    BY <2>3, <2>6
<1>6. MeasuredIn(Latencies) >= n
  <2>1. [l \in Latencies |-> measured[l]] = measured
    BY DEF TypeOK
  <2>2. MeasuredIn(Latencies) = finished
    BY <2>1 DEF MeasuredIn, AllMeasured
  <2> QED
    BY <1>1, <2>2, SMTT(30)
<1>7. enough # {} /\ enough \in SUBSET Nat
  BY <1>2, <1>5, <1>6
<1>8. NthSmallest(n) = CHOOSE l \in enough : \A k \in enough : l <= k
  BY DEF NthSmallest, Below
<1>9. NthSmallest(n) \in enough /\ \A k \in enough : NthSmallest(n) <= k
  <2> HIDE DEF enough
  <2>1. \E l \in enough : \A k \in enough : l <= k
    BY <1>7, LeastExists
  <2> QED
    BY <1>8, <2>1
<1> DEFINE exact == NthSmallest(n)
<1>10. exact \in Latencies /\ exact \in Nat /\ MeasuredIn(Below(exact)) >= n
  BY <1>2, <1>9
<1> HIDE DEF exact
<1>11. ASSUME exact <= x PROVE MeasuredIn(Below(x)) >= n
  <2>1. \A k \in Nat : k <= exact => k <= x
    BY <1>10, <1>11, SMTT(30)
  <2>2. Below(exact) \in SUBSET Below(x) /\ Below(x) \in SUBSET Latencies
    BY <1>2, <2>1 DEF Below
  <2>3. /\ MeasuredIn(Below(exact)) <= MeasuredIn(Below(x))
        /\ MeasuredIn(Below(exact)) \in Nat /\ MeasuredIn(Below(x)) \in Nat
    BY <1>3, <2>2, MeasuredMonotone
  <2> QED
    BY <1>1, <1>10, <2>3, SMTT(30)
<1>12. ASSUME MeasuredIn(Below(x)) >= n PROVE exact <= x
  <2>1. PICK g \in Below(x) : g \in enough
    BY <1>5, <1>12 DEF Below
  <2>2. exact <= g /\ g <= x /\ g \in Nat
    BY <1>2, <1>9, <2>1 DEF Below, exact
  <2> QED
    BY <1>10, <2>2, SMTT(30)
<1> QED
  BY <1>10, <1>11, <1>12 DEF exact

\* With no operation under way, all that finished is sampled.
LEMMA SamplesAtRest ==
    ASSUME IInv, \A t \in Tasks : todo[t] = {}
    PROVE  mem[Samples] = finished
<1>1. Owing(Samples, 1) = {}
  BY DEF Owing
<1>2. Cardinality(Owing(Samples, 1)) = 0
  BY <1>1, FS_EmptySet
<1>3. mem[Samples] \in Nat /\ finished \in Nat
  BY Fields DEF IInv, TypeOK
<1> QED
  BY <1>2, <1>3, SMTT(30) DEF IInv, CountersExact

\* percentile_us on the fields of metrics at rest.
LEMMA PercentileFound ==
    ASSUME IInv, Histogram, finished > 0,
           \A t \in Tasks : todo[t] = {},
           NEW n \in 1 .. finished,
           NEW above, above = {i \in 1 .. Len(Bounds) : Bounds[i] >= NthSmallest(n)}
    PROVE  PercentileUs(mem, n) =
             IF above = {} THEN mem[MaxUs]
             ELSE Bounds[CHOOSE i \in above : \A j \in above : Bounds[i] <= Bounds[j]]
<1> DEFINE reached == {b \in Buckets : Cumulative(mem, b) >= n}
           Least(S) == CHOOSE x \in S : \A y \in S : x <= y
           first == Least(reached)
<1>1. /\ Len(Bounds) \in Nat /\ \A i \in 1 .. Len(Bounds) : Bounds[i] \in Nat
      /\ finished \in Nat /\ n \in Nat /\ n >= 1 /\ n <= finished
  BY MetricsAssumption, SMTT(30) DEF IInv, TypeOK
<1>2. mem[Samples] = finished
  BY SamplesAtRest
<1>3. \A b \in Buckets : Cumulative(mem, b) = MeasuredIn(UpTo(b))
  <2> SUFFICES ASSUME NEW b \in Buckets PROVE Cumulative(mem, b) = MeasuredIn(UpTo(b))
    OBVIOUS
  <2>1. OwingUpTo(b) = {}
    BY DEF OwingUpTo
  <2>2. Cardinality(OwingUpTo(b)) = 0
    BY <2>1, FS_EmptySet
  <2>3. Cumulative(mem, b) \in Nat
    <3>1. [i \in 7 .. b |-> mem[i]] \in [7 .. b -> Nat] /\ IsFiniteSet(7 .. b)
      BY FirstBuckets DEF IInv, TypeOK
    <3> QED
      BY <3>1, TotalNat DEF Cumulative
  <2> QED
    BY <2>2, <2>3, SMTT(30) DEF Histogram, BucketsExact
<1>4. ASSUME NEW i \in 1 .. Len(Bounds)
      PROVE  6 + i \in Buckets /\ (6 + i \in reached <=> i \in above)
  <2>1. 6 + i \in Buckets
    BY <1>1, SMTT(30) DEF Buckets
  <2>2. UpTo(6 + i) = Below(Bounds[i])
    BY BucketBound, MetricsAssumption DEF UpTo, Below
  <2>3. 6 + i \in reached <=> MeasuredIn(Below(Bounds[i])) >= n
    BY <1>3, <2>1, <2>2
  <2>4. /\ NthSmallest(n) \in Latencies
        /\ MeasuredIn(Below(Bounds[i])) >= n <=> NthSmallest(n) <= Bounds[i]
    BY <1>1, NthSmallestIs DEF IInv, Histogram
  <2>5. NthSmallest(n) \in Nat
    BY <2>4, MetricsAssumption
  <2>6. NthSmallest(n) <= Bounds[i] <=> Bounds[i] >= NthSmallest(n)
    BY <1>1, <2>5, SMTT(30)
  <2> QED
    BY <2>1, <2>3, <2>4, <2>6
<1>5. 7 + Len(Bounds) \in reached
  <2>1. 7 + Len(Bounds) \in Buckets
    BY <1>1, SMTT(30) DEF Buckets
  <2>2. \A l \in Nat : Bucket(l) <= 7 + Len(Bounds)
    BY <1>1, BucketFound, SMTT(30) DEF Buckets
  <2>3. UpTo(7 + Len(Bounds)) = Latencies
    BY <2>2, MetricsAssumption DEF UpTo
  <2>4. [l \in Latencies |-> measured[l]] = measured
    BY DEF IInv, TypeOK
  <2>5. MeasuredIn(UpTo(7 + Len(Bounds))) = finished
    BY <2>3, <2>4 DEF MeasuredIn, Histogram, AllMeasured
  <2>6. Cumulative(mem, 7 + Len(Bounds)) >= n
    BY <1>1, <1>3, <2>1, <2>5, SMTT(30)
  <2> QED
    BY <2>1, <2>6
<1>6. \A b \in reached : b = 7 + Len(Bounds) \/ \E i \in above : b = 6 + i
  <2> SUFFICES ASSUME NEW b \in reached, b # 7 + Len(Bounds) PROVE \E i \in above : b = 6 + i
    OBVIOUS
  <2>1. b \in Buckets
    OBVIOUS
  <2>2. PICK i \in 1 .. Len(Bounds) : b = 6 + i
    <3>1. b - 6 \in 1 .. Len(Bounds) /\ b = 6 + (b - 6)
      BY <1>1, <2>1, SMTT(30) DEF Buckets
    <3> QED
      BY <3>1
  <2> QED
    BY <1>4, <2>2
<1>7. first \in reached /\ \A c \in reached : first <= c
  <2>1. reached \in SUBSET Nat
    BY <1>1, SMTT(30) DEF Buckets
  <2> HIDE DEF reached
  <2>2. \E b \in reached : \A c \in reached : b <= c
    BY <1>5, <2>1, LeastExists
  <2> QED
    BY <2>2
<1>8. PercentileUs(mem, n) = IF first = 7 + Len(Bounds) THEN mem[MaxUs] ELSE Bounds[first - 6]
  <2>1. (IF n > 1 THEN n ELSE 1) = n
    BY <1>1, SMTT(30)
  <2>2. mem[Samples] # 0 /\ reached # {}
    BY <1>1, <1>2, <1>5, SMTT(30)
  <2> DEFINE target == IF n > 1 THEN n ELSE 1
             atLeast == {b \in Buckets : Cumulative(mem, b) >= target}
  <2>3. PercentileUs(mem, n) =
          IF mem[Samples] = 0 THEN -1
          ELSE IF atLeast = {} \/ Least(atLeast) = 7 + Len(Bounds) THEN mem[MaxUs]
               ELSE Bounds[Least(atLeast) - 6]
    BY DEF PercentileUs
  <2>4. atLeast = reached
    BY <2>1
  <2> HIDE DEF atLeast, reached, Least
  <2> QED
    BY <2>2, <2>3, <2>4
<1> HIDE DEF reached, first
<1>9. above \in SUBSET (1 .. Len(Bounds))
  OBVIOUS
<1>10. CASE above = {}
  BY <1>6, <1>7, <1>8, <1>10
<1>11. CASE above # {}
  <2>1. PICK i \in above : first = 6 + i
    <3>1. PICK j \in above : TRUE
      BY <1>11
    <3>2. 6 + j \in reached /\ j \in 1 .. Len(Bounds)
      BY <1>4, <1>9, <3>1
    <3>3. first # 7 + Len(Bounds)
      BY <1>1, <1>7, <3>2, SMTT(30)
    <3> QED
      BY <1>6, <1>7, <3>3
  <2>2. \A j \in above : Bounds[i] <= Bounds[j]
    <3> SUFFICES ASSUME NEW j \in above PROVE Bounds[i] <= Bounds[j]
      OBVIOUS
    <3>1. i \in 1 .. Len(Bounds) /\ j \in 1 .. Len(Bounds) /\ 6 + j \in reached
      BY <1>4, <1>9
    <3>2. i <= j
      BY <1>1, <1>7, <2>1, <3>1, SMTT(30)
    <3> QED
      BY <3>1, <3>2, MetricsAssumption
  <2>3. PICK m : m = CHOOSE k \in above : \A j \in above : Bounds[k] <= Bounds[j]
    OBVIOUS
  <2>4. m \in above /\ \A j \in above : Bounds[m] <= Bounds[j]
    BY <2>2, <2>3
  <2>5. Bounds[m] = Bounds[i]
    <3>1. Bounds[m] \in Nat /\ Bounds[i] \in Nat /\ Bounds[m] <= Bounds[i] /\ Bounds[i] <= Bounds[m]
      BY <1>1, <1>9, <2>2, <2>4
    <3> QED
      BY <3>1, SMTT(30)
  <2>6. first # 7 + Len(Bounds) /\ first - 6 = i
    BY <1>1, <1>9, <2>1, SMTT(30)
  <2> QED
    BY <1>8, <1>11, <2>3, <2>5, <2>6
<1> QED
  BY <1>10, <1>11

\* Percentiles are right wherever the histogram is exact.
LEMMA HistogramPercentiles == IInv /\ Histogram => PercentilesRight
<1> SUFFICES ASSUME IInv, Histogram, \A t \in Tasks : todo[t] = {}, finished > 0,
                    NEW p \in Percentiles, NEW rank \in Ranks(mem[Samples], p)
             PROVE  \E k \in Candidates(finished, p) :
                        PercentileUs(mem, rank) = RoundedUp(NthSmallest(k))
  BY DEF PercentilesRight
<1>1. finished \in Nat \ {0}
  BY SMTT(30) DEF IInv, TypeOK
<1>2. mem[Samples] = finished
  BY SamplesAtRest
<1>3. rank \in 1 .. finished /\ rank \in Candidates(finished, p)
  BY <1>1, <1>2, RankFound
<1>4. PercentileUs(mem, rank) = RoundedUp(NthSmallest(rank))
  <2>1. PICK above : above = {i \in 1 .. Len(Bounds) : Bounds[i] >= NthSmallest(rank)}
    OBVIOUS
  <2> QED
    BY <1>3, <2>1, PercentileFound DEF RoundedUp
<1> QED
  BY <1>3, <1>4

\* The buckets lose no sample whatever tasks record at the same time, so at rest
\* percentile_us reports the nearest-rank percentile, rounded up to a bound; for p99.9
\* of a multiple of 1000 samples it may report the next greater sample's bound.  This
\* is for up to 10^9 requests, as far as the f64 product is known to stay in Ranks.
THEOREM PercentilesAreRight == Spec => []PercentilesRight
  BY HistogramInit, HistogramStep, AlwaysIInv, HistogramPercentiles, PTL DEF Spec

-----------------------------------------------------------------------------
(* What a task sees of its own requests. *)

Counted == Counters \union Buckets

\* n operations of the task on the field c are in the field or owed to it, and
\* those that came before its snapshot loaded the field are in the snapshot.
Accounted(t, c, n) ==
    /\ n <= mem[c] + 1
    /\ <<c, 1>> \notin todo[t] => n <= mem[c]
    /\ pc[t] = "load" /\ c \notin unread[t] => n <= snap[t][c]

\* A task's own events are accounted for, each of its samples in some bucket.
OwnCounted == \A t \in Tasks, c \in Counters : Accounted(t, c, own[t][c])

OwnBucketed ==
    \A t \in Tasks : \E g \in [Buckets -> Nat] :
        Total(g) = own[t][Samples] /\ \A b \in Buckets : Accounted(t, b, g[b])

\* A snapshot that has loaded inflight saw its own request there.
OwnInflight ==
    \A t \in Tasks : pc[t] = "load" /\ Inflight \notin unread[t] => snap[t][Inflight] >= 1

OwnSeen == OwnCounted /\ OwnBucketed /\ OwnInflight

LEMMA CountedCells == Counted \subseteq Cells \ {Inflight, SumUs, MaxUs}
  BY Fields DEF Counted, Counters

\* A step changes a counter only by an operation of one, which was owed.
LEMMA CountedStep ==
    ASSUME IInv, NEW t \in Tasks, Step(t), NEW c \in Counted
    PROVE  \/ mem'[c] = mem[c] + 1
           \/ mem'[c] = mem[c] /\ \A u \in Tasks : <<c, 1>> \in todo[u] => <<c, 1>> \in todo'[u]
<1>1. mem \in [Cells -> Nat] /\ todo \in [Tasks -> SUBSET (Cells \X Int)]
  BY DEF IInv, TypeOK
<1>2. c \in Cells /\ c # MaxUs /\ c # Inflight /\ c # SumUs
  BY CountedCells
<1>3. ASSUME mem' = mem, NEW adds, Calls(t, adds)
      PROVE  mem'[c] = mem[c] /\ \A u \in Tasks : <<c, 1>> \in todo[u] => <<c, 1>> \in todo'[u]
  <2>1. todo' = [todo EXCEPT ![t] = todo[t] \union adds]
    BY <1>3 DEF Calls
  <2> QED
    BY <1>1, <1>3, <2>1
<1>4. CASE RecordRequestStart(t) \/ RecordError(t) \/ \E l \in Latencies : RecordRequestEnd(t, l)
  BY <1>3, <1>4 DEF RecordRequestStart, RecordError, RecordRequestEnd
<1>5. CASE Succeed(t) \/ Snapshot(t) \/ (\E d \in Cells : Load(t, d)) \/ WriteFailed(t)
  BY <1>5 DEF Succeed, Snapshot, Load, WriteFailed, memory
<1>6. CASE LoadMax(t) \/ KeepMax(t) \/ CompareExchange(t)
  <2>1. todo' = todo
    BY <1>6 DEF LoadMax, KeepMax, CompareExchange, memory
  <2>2. mem' = mem \/ mem' = [mem EXCEPT ![MaxUs] = micros[t]]
    BY <1>6 DEF LoadMax, KeepMax, CompareExchange, memory
  <2> QED
    BY <1>1, <1>2, <2>1, <2>2
<1>7. ASSUME NEW a \in todo[t], FetchAdd(t, a[1], a[2])
      PROVE  \/ mem'[c] = mem[c] + 1
             \/ mem'[c] = mem[c] /\ \A u \in Tasks : <<c, 1>> \in todo[u] => <<c, 1>> \in todo'[u]
  <2>1. PICK d \in Cells, n \in Int : a = <<d, n>>
    BY <1>1, SMTT(30)
  <2>2. /\ mem' = [mem EXCEPT ![d] = mem[d] + n] /\ todo' = [todo EXCEPT ![t] = todo[t] \ {<<d, n>>}]
        /\ <<d, n>> \in Owable
    BY <1>7, <2>1 DEF FetchAdd, IInv, Shape
  <2>3. CASE d = c
    <3>1. n = 1
      BY <1>2, <2>2, <2>3 DEF Owable
    <3> QED
      BY <1>1, <2>2, <2>3, <3>1
  <2>4. CASE d # c
    BY <1>1, <1>2, <2>2, <2>4
  <2> QED
    BY <2>3, <2>4
<1> QED
  BY <1>4, <1>5, <1>6, <1>7 DEF Step

\* A step brings a field into a snapshot only by a load of what the field holds.
LEMMA SnapStep ==
    ASSUME IInv, NEW t \in Tasks, Step(t), NEW u \in Tasks, NEW c \in Cells,
           pc'[u] = "load", c \notin unread'[u]
    PROVE  \/ pc[u] = "load" /\ c \notin unread[u] /\ snap'[u][c] = snap[u][c]
           \/ u = t /\ Load(t, c) /\ snap'[u][c] = mem[c]
<1>1. /\ pc \in [Tasks -> {"idle", "dispatch", "load", "write"}]
      /\ unread \in [Tasks -> SUBSET Cells] /\ snap \in [Tasks -> [Cells -> Nat]]
  BY DEF IInv, TypeOK
<1>2. CASE RecordRequestStart(t) \/ RecordError(t) \/ Succeed(t)
  <2>1. /\ unread' = unread /\ snap' = snap
        /\ pc' = [pc EXCEPT ![t] = "dispatch"] \/ pc' = [pc EXCEPT ![t] = "write"]
    BY <1>2 DEF RecordRequestStart, RecordError, Succeed, Goto, snapshot
  <2>2. pc[u] = "load"
    BY <1>1, <2>1
  <2> QED
    BY <2>1, <2>2
<1>3. CASE Snapshot(t)
  <2>1. snap' = snap /\ unread' = [unread EXCEPT ![t] = Cells] /\ pc' = [pc EXCEPT ![t] = "load"]
    BY <1>3 DEF Snapshot, Goto
  <2> QED
    BY <1>1, <2>1
<1>4. ASSUME NEW d \in Cells, Load(t, d)
      PROVE  \/ pc[u] = "load" /\ c \notin unread[u] /\ snap'[u][c] = snap[u][c]
             \/ u = t /\ Load(t, c) /\ snap'[u][c] = mem[c]
  <2>1. /\ d \in unread[t] /\ pc[t] = "load"
        /\ snap' = [snap EXCEPT ![t][d] = mem[d]] /\ unread' = [unread EXCEPT ![t] = unread[t] \ {d}]
        /\ pc' = pc \/ pc' = [pc EXCEPT ![t] = "write"]
    BY <1>4 DEF Load, IInv, Shape
  <2>2. pc[u] = "load"
    BY <1>1, <2>1
  <2>3. CASE u = t /\ c = d
    <3>1. snap'[t][d] = mem[d]
      BY <1>1, <2>1
    <3> QED
      BY <1>4, <2>3, <3>1
  <2>4. CASE u = t /\ c # d
    <3>1. snap'[t][c] = snap[t][c] /\ unread'[t] = unread[t] \ {d}
      BY <1>1, <2>1, <2>4
    <3> QED
      BY <2>2, <2>4, <3>1
  <2>5. CASE u # t
    <3>1. snap'[u] = snap[u] /\ unread'[u] = unread[u]
      BY <1>1, <2>1, <2>5
    <3> QED
      BY <2>2, <3>1
  <2> QED
    BY <2>3, <2>4, <2>5
<1>5. CASE WriteFailed(t) \/ \E l \in Latencies : RecordRequestEnd(t, l)
  <2>1. /\ unread' = unread /\ pc' = [pc EXCEPT ![t] = "idle"]
        /\ snap' = [snap EXCEPT ![t] = [k \in Cells |-> 0]]
    BY <1>5 DEF WriteFailed, RecordRequestEnd, DropSnapshot, Goto
  <2>2. u # t /\ pc[u] = "load"
    BY <1>1, <2>1
  <2> QED
    BY <1>1, <2>1, <2>2
<1>6. CASE (\E a \in todo[t] : FetchAdd(t, a[1], a[2])) \/ LoadMax(t) \/ KeepMax(t) \/ CompareExchange(t)
  BY <1>6 DEF FetchAdd, LoadMax, KeepMax, CompareExchange, snapshot
<1> QED
  BY <1>2, <1>3, <1>4, <1>5, <1>6 DEF Step

\* What is accounted for stays so.
LEMMA AccountedKept ==
    ASSUME IInv, NEW t \in Tasks, Step(t), NEW u \in Tasks, NEW c \in Counted, NEW n \in Nat,
           Accounted(u, c, n)
    PROVE  Accounted(u, c, n)'
<1>1. c \in Cells /\ mem[c] \in Nat
  BY CountedCells DEF IInv, TypeOK
<1>2. \/ mem'[c] = mem[c] + 1
      \/ mem'[c] = mem[c] /\ \A v \in Tasks : <<c, 1>> \in todo[v] => <<c, 1>> \in todo'[v]
  BY CountedStep
<1>3. n <= mem[c] + 1 /\ (<<c, 1>> \notin todo[u] => n <= mem[c])
  BY DEF Accounted
<1>4. n <= mem'[c] + 1
  BY <1>1, <1>2, <1>3, SMTT(30)
<1>5. <<c, 1>> \notin todo'[u] => n <= mem'[c]
  <2>1. CASE mem'[c] = mem[c] + 1
    BY <1>1, <1>3, <2>1, SMTT(30)
  <2>2. CASE mem'[c] = mem[c] /\ \A v \in Tasks : <<c, 1>> \in todo[v] => <<c, 1>> \in todo'[v]
    BY <1>3, <2>2
  <2> QED
    BY <1>2, <2>1, <2>2
<1>6. ASSUME pc'[u] = "load", c \notin unread'[u] PROVE n <= snap'[u][c]
  <2>1. CASE pc[u] = "load" /\ c \notin unread[u] /\ snap'[u][c] = snap[u][c]
    BY <2>1 DEF Accounted
  <2>2. CASE u = t /\ Load(t, c) /\ snap'[u][c] = mem[c]
    <3>1. <<c, 1>> \notin todo[u]
      <4>1. \A a \in todo[u] : a[1] # c
        BY <2>2 DEF Load, Settled
      <4>2. <<c, 1>>[1] = c
        OBVIOUS
      <4> QED
        BY <4>1, <4>2
    <3> QED
      BY <1>3, <2>2, <3>1
  <2> QED
    BY <1>1, <1>6, <2>1, <2>2, SnapStep
<1> QED
  BY <1>4, <1>5, <1>6 DEF Accounted

\* One more operation that the task owes.
LEMMA AccountedGrows ==
    ASSUME IInv, NEW t \in Tasks, NEW c \in Counted, NEW n \in Nat, Accounted(t, c, n),
           <<c, 1>> \notin todo[t], <<c, 1>> \in todo'[t], mem' = mem, pc'[t] # "load"
    PROVE  Accounted(t, c, n + 1)'
<1>1. mem[c] \in Nat
  BY CountedCells DEF IInv, TypeOK
<1>2. n <= mem[c]
  BY DEF Accounted
<1>3. n + 1 <= mem'[c] + 1
  BY <1>1, <1>2, SMTT(30)
<1> QED
  BY <1>3 DEF Accounted

Ends(t) == \E l \in Latencies : RecordRequestEnd(t, l)

\* An event of a task leaves it with the operation that counts it owed.
LEMMA OwnStep ==
    ASSUME IInv, NEW t \in Tasks, Step(t), NEW u \in Tasks, NEW c \in Counters
    PROVE  \/ own'[u][c] = own[u][c]
           \/ /\ u = t /\ own'[t][c] = own[t][c] + 1
              /\ <<c, 1>> \notin todo[t] /\ <<c, 1>> \in todo'[t]
              /\ mem' = mem /\ pc'[t] # "load"
              /\ c = Samples => Ends(t)
<1>1. /\ own \in [Tasks -> [Counters -> Nat]] /\ todo \in [Tasks -> SUBSET (Cells \X Int)]
      /\ pc \in [Tasks -> {"idle", "dispatch", "load", "write"}]
  BY DEF IInv, TypeOK
<1>2. ASSUME NEW d \in Counters, Own(t, d)
      PROVE  /\ u = t /\ c = d => own'[t][c] = own[t][c] + 1
             /\ ~(u = t /\ c = d) => own'[u][c] = own[u][c]
  <2>1. own' = [own EXCEPT ![t] = [own[t] EXCEPT ![d] = own[t][d] + 1]]
    BY <1>2 DEF Own
  <2>2. own[t] \in [Counters -> Nat]
    BY <1>1
  <2>3. CASE u = t
    <3>1. own'[t] = [own[t] EXCEPT ![d] = own[t][d] + 1]
      BY <1>1, <2>1
    <3> QED
      BY <2>2, <2>3, <3>1
  <2>4. CASE u # t
    <3>1. own'[u] = own[u]
      BY <1>1, <2>1, <2>4
    <3> QED
      BY <2>4, <3>1
  <2> QED
    BY <2>3, <2>4
<1>3. ASSUME NEW adds, Calls(t, adds) PROVE todo'[t] = todo[t] \union adds
  <2>1. todo' = [todo EXCEPT ![t] = todo[t] \union adds]
    BY <1>3 DEF Calls
  <2> QED
    BY <1>1, <2>1
<1>4. CASE RecordRequestStart(t)
  <2>1. /\ Own(t, RequestsTotal) /\ mem' = mem /\ pc[t] = "idle" /\ Calls(t, StartAdds)
        /\ pc' = [pc EXCEPT ![t] = "dispatch"] /\ RequestsTotal \in Counters
    BY <1>4 DEF RecordRequestStart, Goto, Counters
  <2>2. <<RequestsTotal, 1>> \in todo'[t] /\ <<RequestsTotal, 1>> \notin todo[t]
    <3>1. todo'[t] = todo[t] \union StartAdds
      BY <1>3, <2>1
    <3>2. <<RequestsTotal, 1>> \notin todo[t]
      BY <2>1 DEF IInv, Shape
    <3> QED
      BY <3>1, <3>2 DEF StartAdds
  <2>3. pc'[t] # "load" /\ RequestsTotal # Samples
    BY <1>1, <2>1, Fields
  <2> QED
    BY <1>2, <2>1, <2>2, <2>3
<1>5. CASE RecordError(t)
  <2>1. /\ Own(t, ErrorsTotal) /\ mem' = mem /\ pc[t] = "dispatch" /\ Calls(t, {<<ErrorsTotal, 1>>})
        /\ pc' = [pc EXCEPT ![t] = "write"] /\ ErrorsTotal \in Counters
    BY <1>5 DEF RecordError, Goto, Counters
  <2>2. <<ErrorsTotal, 1>> \in todo'[t] /\ <<ErrorsTotal, 1>> \notin todo[t]
    <3>1. todo'[t] = todo[t] \union {<<ErrorsTotal, 1>>}
      BY <1>3, <2>1
    <3>2. <<ErrorsTotal, 1>> \notin todo[t]
      BY <2>1 DEF IInv, Shape
    <3> QED
      BY <3>1, <3>2
  <2>3. pc'[t] # "load" /\ ErrorsTotal # Samples
    BY <1>1, <2>1, Fields
  <2> QED
    BY <1>2, <2>1, <2>2, <2>3
<1>6. ASSUME NEW l \in Latencies, RecordRequestEnd(t, l)
      PROVE  \/ own'[u][c] = own[u][c]
             \/ /\ u = t /\ own'[t][c] = own[t][c] + 1
                /\ <<c, 1>> \notin todo[t] /\ <<c, 1>> \in todo'[t]
                /\ mem' = mem /\ pc'[t] # "load"
                /\ c = Samples => Ends(t)
  <2>1. /\ Own(t, Samples) /\ mem' = mem /\ todo[t] = {} /\ Calls(t, EndAdds(l))
        /\ pc' = [pc EXCEPT ![t] = "idle"] /\ Samples \in Counters
    BY <1>6 DEF RecordRequestEnd, Goto, Counters
  <2>2. <<Samples, 1>> \in todo'[t] /\ <<Samples, 1>> \notin todo[t]
    BY <1>3, <2>1 DEF EndAdds
  <2>3. pc'[t] # "load"
    BY <1>1, <2>1
  <2> QED
    BY <1>2, <1>6, <2>1, <2>2, <2>3 DEF Ends
<1>7. CASE \/ Succeed(t) \/ Snapshot(t) \/ (\E d \in Cells : Load(t, d)) \/ WriteFailed(t)
           \/ LoadMax(t) \/ KeepMax(t) \/ CompareExchange(t)
           \/ \E a \in todo[t] : FetchAdd(t, a[1], a[2])
  <2>1. own' = own
    BY <1>7 DEF Succeed, Snapshot, Load, WriteFailed, LoadMax, KeepMax, CompareExchange, FetchAdd,
       history
  <2> QED
    BY <2>1
<1> QED
  BY <1>4, <1>5, <1>6, <1>7 DEF Step

\* The bucket of a finished request.
LEMMA EndBuckets ==
    ASSUME IInv, NEW t \in Tasks, NEW l \in Latencies, RecordRequestEnd(t, l),
           NEW g \in [Buckets -> Nat], Total(g) = own[t][Samples],
           own'[t][Samples] = own[t][Samples] + 1, \A b \in Buckets : Accounted(t, b, g[b])
    PROVE  \E h \in [Buckets -> Nat] :
               Total(h) = own'[t][Samples] /\ \A b \in Buckets : Accounted(t, b, h[b])'
<1> DEFINE d == Bucket(l)
           h == [g EXCEPT ![d] = g[d] + 1]
<1>1. d \in Buckets /\ Step(t) /\ g[d] \in Nat
  <2>1. d \in Buckets
    BY BucketFound, MetricsAssumption
  <2> QED
    BY <2>1 DEF Step
<1>2. g[d] + 1 \in Nat
  BY <1>1, SMTT(30)
<1>3. IsFiniteSet(Buckets)
  <2>1. Len(Bounds) \in Nat
    BY MetricsAssumption, SMTT(30)
  <2>2. 7 \in Int /\ 7 + Len(Bounds) \in Int
    BY <2>1, SMTT(30)
  <2> QED
    BY <2>2, FS_Interval DEF Buckets
<1> HIDE DEF d
<1>4. h \in [Buckets -> Nat] /\ h[d] = g[d] + 1 /\ \A b \in Buckets : b # d => h[b] = g[b]
  BY <1>1, <1>2
<1>5. Total(h) = own'[t][Samples]
  <2>1. Total(h) = Total(g) - g[d] + (g[d] + 1)
    BY <1>1, <1>2, <1>3, TotalUpdate
  <2>2. Total(g) \in Nat
    BY <1>3, TotalNat
  <2> HIDE DEF h
  <2> QED
    BY <1>1, <2>1, <2>2, SMTT(30)
<1> HIDE DEF h
<1>6. ASSUME NEW b \in Buckets PROVE Accounted(t, b, h[b])'
  <2>1. b \in Counted /\ g[b] \in Nat /\ Accounted(t, b, g[b])
    BY DEF Counted
  <2>2. CASE b # d
    <3>1. Accounted(t, b, g[b])'
      BY <1>1, <2>1, AccountedKept
    <3> QED
      BY <1>4, <2>2, <3>1
  <2>3. CASE b = d
    <3>1. todo[t] = {} /\ mem' = mem /\ todo'[t] = EndAdds(l) /\ pc'[t] # "load"
      <4>1. /\ todo \in [Tasks -> SUBSET (Cells \X Int)]
            /\ pc \in [Tasks -> {"idle", "dispatch", "load", "write"}]
        BY DEF IInv, TypeOK
      <4>2. /\ todo[t] = {} /\ mem' = mem /\ todo' = [todo EXCEPT ![t] = todo[t] \union EndAdds(l)]
            /\ pc' = [pc EXCEPT ![t] = "idle"]
        BY DEF RecordRequestEnd, Calls, Goto
      <4> QED
        BY <4>1, <4>2
    <3>2. <<b, 1>> \notin todo[t] /\ <<b, 1>> \in todo'[t]
      BY <2>3, <3>1 DEF EndAdds, d
    <3>3. Accounted(t, b, g[b] + 1)'
      BY <2>1, <3>1, <3>2, AccountedGrows
    <3> QED
      BY <1>4, <2>3, <3>3
  <2> QED
    BY <2>2, <2>3
<1> QED
  BY <1>4, <1>5, <1>6

\* A task with a request under way whose operation on inflight has taken effect
\* finds the gauge positive.
LEMMA InflightPositive ==
    ASSUME IInv, NEW t \in Tasks, Load(t, Inflight)
    PROVE  mem[Inflight] >= 1
<1>1. t \in Busy /\ Busy \in SUBSET Tasks /\ Cardinality(Busy) \in Nat
  <2>1. pc[t] = "load"
    BY DEF Load, IInv, Shape
  <2> QED
    BY <2>1, CardNat DEF Busy
<1>2. t \notin Owing(Inflight, 1)
  <2>1. \A a \in todo[t] : a[1] # Inflight
    BY DEF Load, Settled
  <2>2. <<Inflight, 1>>[1] = Inflight
    OBVIOUS
  <2> QED
    BY <2>1, <2>2 DEF Owing
<1>3. Owing(Inflight, 1) \subseteq Busy \ {t}
  BY <1>2 DEF Owing, Busy, IInv, Shape
<1>4. Cardinality(Owing(Inflight, 1)) <= Cardinality(Busy \ {t})
  BY <1>1, <1>3, CardMonotone, OwingTasks
<1>5. Cardinality(Busy \ {t}) = Cardinality(Busy) - 1
  BY <1>1, CardShrinks
<1>6. mem[Inflight] \in Nat /\ abandoned \in Nat
  BY Fields DEF IInv, TypeOK
<1> QED
  BY <1>1, <1>4, <1>5, <1>6, OwingTasks, SMTT(30) DEF IInv, InflightOwed

\* Fresh metrics.
LEMMA OwnSeenInit == Init => OwnSeen
<1> SUFFICES ASSUME Init PROVE OwnSeen
  OBVIOUS
<1>1. ASSUME NEW t \in Tasks, NEW c \in Cells PROVE Accounted(t, c, 0)
  <2>1. mem[c] = 0 /\ pc[t] = "idle"
    BY <1>1 DEF Init
  <2>2. 0 <= mem[c] /\ 0 <= mem[c] + 1
    BY <2>1, SMTT(30)
  <2> QED
    BY <2>1, <2>2 DEF Accounted
<1>2. OwnCounted
  BY <1>1, CountedCells DEF OwnCounted, Counted, Init
<1>3. OwnBucketed
  <2> SUFFICES ASSUME NEW t \in Tasks
               PROVE  \E g \in [Buckets -> Nat] :
                        Total(g) = own[t][Samples] /\ \A b \in Buckets : Accounted(t, b, g[b])
    BY DEF OwnBucketed
  <2>1. PICK g : g = [b \in Buckets |-> 0]
    OBVIOUS
  <2>2. g \in [Buckets -> Nat] /\ \A b \in Buckets : g[b] = 0
    BY <2>1
  <2>3. Total(g) = 0
    BY <2>2, TotalZero
  <2>4. own[t][Samples] = 0
    BY DEF Init, Counters
  <2> QED
    BY <1>1, <2>2, <2>3, <2>4, Fields
<1>4. OwnInflight
  BY DEF OwnInflight, Init
<1> QED
  BY <1>2, <1>3, <1>4 DEF OwnSeen

\* Every step keeps a task's own events accounted for.
LEMMA OwnSeenStep == IInv /\ OwnSeen /\ [Next]_vars => OwnSeen'
<1> SUFFICES ASSUME IInv, OwnSeen, [Next]_vars PROVE OwnSeen'
  OBVIOUS
<1>1. CASE UNCHANGED vars
  BY <1>1 DEF OwnSeen, OwnCounted, OwnBucketed, OwnInflight, Accounted, vars, memory, snapshot, history
<1>2. CASE Next
  <2> PICK t \in Tasks : Step(t)
    BY <1>2 DEF Next
  <2>1. own \in [Tasks -> [Counters -> Nat]] /\ Samples \in Counters
    BY DEF IInv, TypeOK, Counters
  <2>2. ASSUME NEW u \in Tasks, NEW c \in Counters PROVE Accounted(u, c, own[u][c])'
    <3>1. own[u][c] \in Nat /\ c \in Counted /\ Accounted(u, c, own[u][c])
      BY <2>1 DEF Counted, OwnSeen, OwnCounted
    <3>2. PICK n : n = own[u][c]
      OBVIOUS
    <3>3. CASE own'[u][c] = n
      <4>1. Accounted(u, c, n)'
        BY <3>1, <3>2, AccountedKept
      <4> QED
        BY <3>3, <4>1 DEF Accounted
    <3>4. CASE /\ u = t /\ own'[t][c] = n + 1
               /\ <<c, 1>> \notin todo[t] /\ <<c, 1>> \in todo'[t]
               /\ mem' = mem /\ pc'[t] # "load"
      <4>1. Accounted(u, c, n + 1)'
        BY <3>1, <3>2, <3>4, AccountedGrows
      <4> QED
        BY <3>4, <4>1 DEF Accounted
    <3>5. \/ own'[u][c] = own[u][c]
          \/ /\ u = t /\ own'[t][c] = own[t][c] + 1
             /\ <<c, 1>> \notin todo[t] /\ <<c, 1>> \in todo'[t]
             /\ mem' = mem /\ pc'[t] # "load"
      BY OwnStep, SMTT(30)
    <3> QED
      BY <3>2, <3>3, <3>4, <3>5
  <2>3. ASSUME NEW u \in Tasks
        PROVE  \E g \in [Buckets -> Nat] :
                 Total(g) = own'[u][Samples] /\ \A b \in Buckets : Accounted(u, b, g[b])'
    <3>1. PICK g \in [Buckets -> Nat] :
                 Total(g) = own[u][Samples] /\ \A b \in Buckets : Accounted(u, b, g[b])
      BY DEF OwnSeen, OwnBucketed
    <3>2. CASE own'[u][Samples] = own[u][Samples]
      <4>1. ASSUME NEW b \in Buckets PROVE Accounted(u, b, g[b])'
        BY <3>1, AccountedKept DEF Counted
      <4> QED
        BY <3>1, <3>2, <4>1
    <3>3. CASE /\ u = t /\ own'[t][Samples] = own[t][Samples] + 1
               /\ Ends(t)
      BY <3>1, <3>3, EndBuckets DEF Ends
    <3>4. \/ own'[u][Samples] = own[u][Samples]
          \/ /\ u = t /\ own'[t][Samples] = own[t][Samples] + 1
             /\ Ends(t)
      <4>1. PICK c \in Counters : c = Samples
        BY <2>1
      <4>2. \/ own'[u][c] = own[u][c]
            \/ /\ u = t /\ own'[t][c] = own[t][c] + 1
               /\ <<c, 1>> \notin todo[t] /\ <<c, 1>> \in todo'[t]
               /\ mem' = mem /\ pc'[t] # "load"
               /\ c = Samples => Ends(t)
        BY OwnStep, SMTT(30)
      <4> QED
        BY <4>1, <4>2
    <3> QED
      BY <3>2, <3>3, <3>4
  <2>4. ASSUME NEW u \in Tasks, pc'[u] = "load", Inflight \notin unread'[u]
        PROVE  snap'[u][Inflight] >= 1
    <3>1. CASE pc[u] = "load" /\ Inflight \notin unread[u] /\ snap'[u][Inflight] = snap[u][Inflight]
      BY <3>1 DEF OwnSeen, OwnInflight
    <3>2. CASE u = t /\ Load(t, Inflight) /\ snap'[u][Inflight] = mem[Inflight]
      BY <3>2, InflightPositive
    <3> QED
      BY <2>4, <3>1, <3>2, SnapStep, Fields
  <2> QED
    BY <2>2, <2>3, <2>4 DEF OwnSeen, OwnCounted, OwnBucketed, OwnInflight
<1> QED
  BY <1>1, <1>2

\* When the last field is loaded, the snapshot holds all that is accounted for.
LEMMA LastLoad ==
    ASSUME IInv, OwnSeen, NEW t \in Tasks, NEW c \in Cells, Load(t, c), unread[t] = {c}
    PROVE  /\ \A d \in Counters : snap'[t][d] >= own[t][d]
           /\ Cumulative(snap'[t], 7 + Len(Bounds)) >= own[t][Samples]
           /\ snap'[t][Inflight] >= 1
<1>1. /\ snap \in [Tasks -> [Cells -> Nat]] /\ own \in [Tasks -> [Counters -> Nat]]
      /\ mem \in [Cells -> Nat]
  BY DEF IInv, TypeOK
<1>2. /\ pc[t] = "load" /\ \A a \in todo[t] : a[1] # c
      /\ snap' = [snap EXCEPT ![t][c] = mem[c]]
  BY DEF Load, Settled, IInv, Shape
<1>3. /\ snap'[t] \in [Cells -> Nat] /\ snap'[t][c] = mem[c]
      /\ \A d \in Cells : d # c => snap'[t][d] = snap[t][d]
  BY <1>1, <1>2
<1>4. <<c, 1>> \notin todo[t]
  <2>1. <<c, 1>>[1] = c
    OBVIOUS
  <2> QED
    BY <1>2, <2>1
<1>5. ASSUME NEW d \in Counted, NEW n \in Nat, Accounted(t, d, n)
      PROVE  n <= snap'[t][d]
  <2>1. d \in Cells
    BY CountedCells
  <2>2. CASE d = c
    BY <1>3, <1>4, <1>5, <2>2 DEF Accounted
  <2>3. CASE d # c
    BY <1>2, <1>3, <1>5, <2>1, <2>3 DEF Accounted
  <2> QED
    BY <2>2, <2>3
<1>6. ASSUME NEW d \in Counters PROVE snap'[t][d] >= own[t][d]
  <2>1. d \in Counted /\ d \in Cells
    BY CountedCells DEF Counted
  <2>2. own[t][d] \in Nat /\ Accounted(t, d, own[t][d])
    BY <1>1 DEF OwnSeen, OwnCounted
  <2>3. own[t][d] <= snap'[t][d] /\ snap'[t][d] \in Nat
    BY <1>3, <1>5, <2>1, <2>2
  <2> QED
    BY <2>2, <2>3, SMTT(30)
<1>7. Cumulative(snap'[t], 7 + Len(Bounds)) >= own[t][Samples]
  <2>1. PICK g \in [Buckets -> Nat] :
               Total(g) = own[t][Samples] /\ \A b \in Buckets : Accounted(t, b, g[b])
    BY DEF OwnSeen, OwnBucketed
  <2>2. PICK h : h = [i \in Buckets |-> snap'[t][i]]
    OBVIOUS
  <2>3. h \in [Buckets -> Nat] /\ \A b \in Buckets : h[b] = snap'[t][b]
    BY <1>3, <2>2, Fields
  <2>4. \A b \in Buckets : g[b] <= h[b]
    BY <1>5, <2>1, <2>3 DEF Counted
  <2>5. IsFiniteSet(Buckets)
    <3>1. Len(Bounds) \in Nat
      BY MetricsAssumption, SMTT(30)
    <3>2. 7 + Len(Bounds) \in Buckets
      BY <3>1, SMTT(30) DEF Buckets
    <3> QED
      BY <3>2, FirstBuckets DEF Buckets
  <2>6. Total(g) <= Total(h) /\ Total(g) \in Nat /\ Total(h) \in Nat
    BY <2>3, <2>4, <2>5, TotalMonotone, TotalNat
  <2>7. Cumulative(snap'[t], 7 + Len(Bounds)) = Total(h)
    BY <2>2 DEF Cumulative, Buckets
  <2> QED
    BY <2>1, <2>6, <2>7, SMTT(30)
<1>8. snap'[t][Inflight] >= 1
  <2>1. CASE c = Inflight
    BY <1>3, <2>1, InflightPositive
  <2>2. CASE c # Inflight
    BY <1>2, <1>3, <2>2, Fields DEF OwnSeen, OwnInflight
  <2> QED
    BY <2>1, <2>2
<1> QED
  BY <1>6, <1>7, <1>8

\* A snapshot ends with the load of its last field.
LEMMA InfoStep ==
    ASSUME IInv, OwnSeen, [Next]_vars, NEW t \in Tasks, pc[t] = "load", pc'[t] = "write"
    PROVE  /\ \A c \in Counters : snap'[t][c] >= own[t][c]
           /\ Cumulative(snap'[t], 7 + Len(Bounds)) >= own[t][Samples]
           /\ snap'[t][Inflight] >= 1
<1>1. pc \in [Tasks -> {"idle", "dispatch", "load", "write"}]
  BY DEF IInv, TypeOK
<1>2. PICK u \in Tasks : Step(u)
  BY DEF Next, vars
<1>3. /\ ~RecordRequestStart(u) /\ ~Succeed(u) /\ ~RecordError(u) /\ ~Snapshot(u) /\ ~WriteFailed(u)
      /\ \A l \in Latencies : ~RecordRequestEnd(u, l)
  <2>1. ASSUME NEW place, Goto(u, place), pc[u] # "load" PROVE FALSE
    BY <1>1, <2>1 DEF Goto
  <2> QED
    BY <2>1 DEF RecordRequestStart, Succeed, RecordError, Snapshot, WriteFailed, RecordRequestEnd
<1>4. /\ ~LoadMax(u) /\ ~KeepMax(u) /\ ~CompareExchange(u)
      /\ \A a \in todo[u] : ~FetchAdd(u, a[1], a[2])
  BY DEF LoadMax, KeepMax, CompareExchange, FetchAdd
<1>5. PICK c \in Cells : Load(u, c)
  BY <1>2, <1>3, <1>4 DEF Step
<1>6. u = t /\ unread[t] = {c}
  BY <1>1, <1>5 DEF Load
<1> QED
  BY <1>5, <1>6, LastLoad

\* An INFO answer accounts for the connection's own earlier requests and for
\* itself, however many tasks record and load at the same time.
THEOREM InfoCountsOwn == Spec => InfoSeesOwnRequests
<1>1. Spec => []OwnSeen
  BY OwnSeenInit, OwnSeenStep, AlwaysIInv, PTL DEF Spec
<1>2. ASSUME IInv, OwnSeen, [Next]_vars
      PROVE  [\A t \in Tasks : pc[t] = "load" /\ pc'[t] = "write" =>
               /\ \A c \in Counters : snap'[t][c] >= own[t][c]
               /\ Cumulative(snap'[t], 7 + Len(Bounds)) >= own[t][Samples]
               /\ snap'[t][Inflight] >= 1]_vars
  BY <1>2, InfoStep
<1> QED
  BY <1>1, <1>2, AlwaysIInv, PTL DEF Spec, InfoSeesOwnRequests

=============================================================================

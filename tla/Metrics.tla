------------------------------- MODULE Metrics -------------------------------
(***************************************************************************)
(* The server's metrics (hkv-server/src/metrics.rs), shared by all          *)
(* connection tasks.  Every field is an AtomicU64 used with Relaxed, so an  *)
(* operation on one field is atomic, and operations on different fields     *)
(* take effect in any order between two socket writes of their task.  mem   *)
(* holds the fields; a call adds its operations to the task's todo, and     *)
(* each one takes effect in a step of its own.                              *)
(*                                                                         *)
(* A task makes the calls in the order of handle_connection_with_metrics:   *)
(* start, possibly an error or a snapshot (INFO), the write of the answer,  *)
(* then end, unless the write failed.                                       *)
(***************************************************************************)
EXTENDS ByteTotals, Sequences

CONSTANTS
    Tasks,       \* tasks that serve requests
    Readers,     \* the tasks among them that may be asked for INFO
    Bounds,      \* bounds_us, ascending
    Latencies,   \* latencies of requests, in microseconds
    MaxRequests  \* bound on the requests that are started

\* The number of samples up to which Ranks holds all ranks that percentile_us computes.
RanksKnown == 10^9

ASSUME MetricsAssumption ==
    /\ IsFiniteSet(Tasks)
    /\ Readers \subseteq Tasks
    /\ Bounds \in Seq(Nat)
    /\ \A i, j \in 1 .. Len(Bounds) : i <= j => Bounds[i] <= Bounds[j]
    /\ Latencies \subseteq Nat
    /\ IsFiniteSet(Latencies)
    /\ MaxRequests \in Nat /\ MaxRequests <= RanksKnown

\* The fields of Metrics and of its LatencyHistogram; buckets come last.
RequestsTotal == 1
ErrorsTotal == 2
Inflight == 3
Samples == 4
SumUs == 5
MaxUs == 6
Buckets == 7 .. 7 + Len(Bounds)
Cells == 1 .. 7 + Len(Bounds)

\* The fields that count events.
Counters == {RequestsTotal, ErrorsTotal, Samples}

VARIABLES
    mem,        \* the value of every field
    pc,         \* where each task is
    todo,       \* pairs <<field, n>>: a fetch_add of n that has not taken effect
    micros,     \* latency of the task's last request
    updating,   \* progress of update_max: "no", "load" or "cas"
    current,    \* the local variable of update_max
    unread,     \* fields the task's snapshot has not loaded yet
    snap,       \* the values it has loaded
    \* What really happened, for the properties.
    started, erred, finished, abandoned,  \* requests
    own,        \* the requests, errors and finished requests of each task
    measured,   \* [Latencies -> Nat], the latencies passed to record
    maxed       \* latencies whose update_max has returned

memory == <<todo, mem>>
maxUpdate == <<updating, current, maxed>>
snapshot == <<unread, snap>>
history == <<started, erred, finished, abandoned, own, measured>>
vars == <<memory, pc, micros, maxUpdate, snapshot, history>>

Goto(t, place) == pc' = [pc EXCEPT ![t] = place]

-----------------------------------------------------------------------------
(* Ways in which the code could be wrong. *)

\* record_request_start that counts the request only.
StartsOne == {<<RequestsTotal, 1>>}

\* update_max with a plain store after its check.
StoreMax(t) == TRUE

\* percentile_us that rounds the rank down.
RanksDown(n, p) == {(n * p) \div 1000}

\* record without the count of samples.
EndsUncounted(l) == {<<Inflight, -1>>, <<SumUs, l>>}

\* record_request_end that leaves the gauge alone.
EndsInflight(l) == {<<Samples, 1>>, <<SumUs, l>>}

-----------------------------------------------------------------------------
\* Metrics::new and with_latency_buckets.
Init ==
    /\ mem = [c \in Cells |-> 0]
    /\ pc = [t \in Tasks |-> "idle"]
    /\ todo = [t \in Tasks |-> {}]
    /\ micros = [t \in Tasks |-> 0]
    /\ updating = [t \in Tasks |-> "no"]
    /\ current = [t \in Tasks |-> 0]
    /\ unread = [t \in Tasks |-> {}]
    /\ snap = [t \in Tasks |-> [c \in Cells |-> 0]]
    /\ started = 0 /\ erred = 0 /\ finished = 0 /\ abandoned = 0
    /\ own = [t \in Tasks |-> [c \in Counters |-> 0]]
    /\ measured = [l \in Latencies |-> 0]
    /\ maxed = {}

\* The task has made one more request, error or answer.
Own(t, c) == own' = [own EXCEPT ![t][c] = @ + 1]

Calls(t, adds) == todo' = [todo EXCEPT ![t] = @ \union adds]

\* The operations of record_request_start.
StartAdds == {<<RequestsTotal, 1>>, <<Inflight, 1>>}

\* A command, or a protocol error, has been parsed.
RecordRequestStart(t) ==
    /\ pc[t] = "idle"
    /\ started < MaxRequests
    /\ Calls(t, StartAdds)
    /\ started' = started + 1
    /\ Own(t, RequestsTotal)
    /\ Goto(t, "dispatch")
    /\ UNCHANGED <<mem, micros, maxUpdate, snapshot, erred, finished, abandoned, measured>>

\* The answer is not an error.
Succeed(t) ==
    /\ pc[t] = "dispatch"
    /\ Goto(t, "write")
    /\ UNCHANGED <<memory, micros, maxUpdate, snapshot, history>>

\* The answer is an error.
RecordError(t) ==
    /\ pc[t] = "dispatch"
    /\ Calls(t, {<<ErrorsTotal, 1>>})
    /\ erred' = erred + 1
    /\ Own(t, ErrorsTotal)
    /\ Goto(t, "write")
    /\ UNCHANGED <<mem, micros, maxUpdate, snapshot, started, finished, abandoned, measured>>

\* INFO: snapshot begins, and loads the fields one by one.
Snapshot(t) ==
    /\ t \in Readers
    /\ pc[t] = "dispatch"
    /\ unread' = [unread EXCEPT ![t] = Cells]
    /\ Goto(t, "load")
    /\ UNCHANGED <<memory, micros, maxUpdate, snap, history>>

\* The task's own earlier operations on a field come before its load.
Settled(t, c) ==
    /\ \A a \in todo[t] : a[1] # c
    /\ c = MaxUs => updating[t] = "no"

Load(t, c) ==
    /\ c \in unread[t]
    /\ Settled(t, c)
    /\ snap' = [snap EXCEPT ![t][c] = mem[c]]
    /\ unread' = [unread EXCEPT ![t] = @ \ {c}]
    /\ pc' = IF unread[t] = {c} THEN [pc EXCEPT ![t] = "write"] ELSE pc
    /\ UNCHANGED <<memory, micros, maxUpdate, history>>

\* The for loop of record: the first bucket whose bound is not below l.
Bucket(l) ==
    LET above == {i \in 1 .. Len(Bounds) : l <= Bounds[i]}
    IN 7 + IF above = {} THEN Len(Bounds)
           ELSE (CHOOSE i \in above : \A j \in above : i <= j) - 1

\* The fetch_adds of record_request_end and of LatencyHistogram::record.
EndAdds(l) == {<<Inflight, -1>>, <<Samples, 1>>, <<SumUs, l>>, <<Bucket(l), 1>>}

\* The answer is gone, and with it the snapshot it was made from.
DropSnapshot(t) ==
    /\ snap' = [snap EXCEPT ![t] = [c \in Cells |-> 0]]
    /\ UNCHANGED unread

\* The answer was written, and the request ends after l microseconds.
RecordRequestEnd(t, l) ==
    /\ pc[t] = "write"
    /\ todo[t] = {} /\ updating[t] = "no"
    /\ Calls(t, EndAdds(l))
    /\ micros' = [micros EXCEPT ![t] = l]
    /\ updating' = [updating EXCEPT ![t] = "load"]
    /\ finished' = finished + 1
    /\ Own(t, Samples)
    /\ measured' = [measured EXCEPT ![l] = @ + 1]
    /\ DropSnapshot(t)
    /\ Goto(t, "idle")
    /\ UNCHANGED <<mem, current, maxed, started, erred, abandoned>>

\* The write failed: the handler returns, and the task serves another request.
WriteFailed(t) ==
    /\ pc[t] = "write"
    /\ todo[t] = {} /\ updating[t] = "no"
    /\ abandoned' = abandoned + 1
    /\ DropSnapshot(t)
    /\ Goto(t, "idle")
    /\ UNCHANGED <<memory, micros, maxUpdate, started, erred, finished, own, measured>>

\* A fetch_add takes effect; those of one task on one field keep their order.
FetchAdd(t, c, n) ==
    /\ <<c, n>> \in todo[t]
    /\ <<c, n>> = <<Inflight, 1>> => <<Inflight, -1>> \notin todo[t]
    /\ mem' = [mem EXCEPT ![c] = @ + n]
    /\ todo' = [todo EXCEPT ![t] = @ \ {<<c, n>>}]
    /\ UNCHANGED <<pc, micros, maxUpdate, snapshot, history>>

\* update_max loads the maximum.
LoadMax(t) ==
    /\ updating[t] = "load"
    /\ current' = [current EXCEPT ![t] = mem[MaxUs]]
    /\ updating' = [updating EXCEPT ![t] = "cas"]
    /\ UNCHANGED <<memory, pc, micros, maxed, snapshot, history>>

UpdateDone(t) ==
    /\ updating' = [updating EXCEPT ![t] = "no"]
    /\ maxed' = maxed \union {micros[t]}

\* update_max returns: the maximum is no less than the value.
KeepMax(t) ==
    /\ updating[t] = "cas"
    /\ micros[t] <= current[t]
    /\ UpdateDone(t)
    /\ UNCHANGED <<memory, pc, micros, current, snapshot, history>>

\* The comparison of compare_exchange.
Unmoved(t) == mem[MaxUs] = current[t]

\* compare_exchange stores the value, or reports the one it found.
CompareExchange(t) ==
    /\ updating[t] = "cas"
    /\ micros[t] > current[t]
    /\ \/ /\ Unmoved(t)
          /\ mem' = [mem EXCEPT ![MaxUs] = micros[t]]
          /\ UpdateDone(t)
          /\ UNCHANGED current
       \/ /\ ~Unmoved(t)
          /\ current' = [current EXCEPT ![t] = mem[MaxUs]]
          /\ UNCHANGED <<mem, updating, maxed>>
    /\ UNCHANGED <<todo, pc, micros, snapshot, history>>

Step(t) ==
    \/ RecordRequestStart(t) \/ Succeed(t) \/ RecordError(t) \/ Snapshot(t)
    \/ \E c \in Cells : Load(t, c)
    \/ \E l \in Latencies : RecordRequestEnd(t, l)
    \/ WriteFailed(t)
    \/ \E a \in todo[t] : FetchAdd(t, a[1], a[2])
    \/ LoadMax(t) \/ KeepMax(t) \/ CompareExchange(t)

Next == \E t \in Tasks : Step(t)

Spec == Init /\ [][Next]_vars

-----------------------------------------------------------------------------
\* The ranks that percentile_us may compute for a percentile of p/10 among n samples:
\* the product of n and p/1000, rounded up.  It is a product of f64s.  For n up to
\* RanksKnown and the Percentiles below, it rounds up as the exact one does, but for
\* one case: 99.9 / 100.0 is a little above 0.999, so that where 0.999 n is whole the
\* product may lie above it, and does for most such n.
Ranks(n, p) ==
    LET exact == (n * p + 999) \div 1000
    IN IF p = 999 /\ n % 1000 = 0 THEN {exact, exact + 1} ELSE {exact}

\* cumulative of percentile_us, after bucket b of the fields m.
Cumulative(m, b) == Total([i \in 7 .. b |-> m[i]])

\* LatencySnapshot::percentile_us on the fields m, with the rank that it computed; -1
\* is None.
PercentileUs(m, rank) ==
    LET target == IF rank > 1 THEN rank ELSE 1
        reached == {b \in Buckets : Cumulative(m, b) >= target}
        first == CHOOSE b \in reached : \A c \in reached : b <= c
    IN IF m[Samples] = 0 THEN -1
       ELSE IF reached = {} \/ first = 7 + Len(Bounds) THEN m[MaxUs]
       ELSE Bounds[first - 6]

-----------------------------------------------------------------------------
\* Tasks with a request under way.
Busy == {t \in Tasks : pc[t] # "idle"}

\* Tasks whose fetch_add of n to field c has not taken effect.
Owing(c, n) == {t \in Tasks : <<c, n>> \in todo[t]}

\* Every field of Metrics is a number that an AtomicU64 holds: none is ever taken
\* below zero, the gauge that record_request_end decrements included.
TypeOK ==
    /\ mem \in [Cells -> Nat]
    /\ pc \in [Tasks -> {"idle", "dispatch", "load", "write"}]
    /\ todo \in [Tasks -> SUBSET (Cells \X Int)]
    /\ micros \in [Tasks -> Nat]
    /\ updating \in [Tasks -> {"no", "load", "cas"}]
    /\ current \in [Tasks -> Nat]
    /\ unread \in [Tasks -> SUBSET Cells]
    /\ snap \in [Tasks -> [Cells -> Nat]]
    /\ started \in Nat /\ erred \in Nat /\ finished \in Nat /\ abandoned \in Nat
    /\ own \in [Tasks -> [Counters -> Nat]]
    /\ measured \in [Latencies -> Nat]
    /\ maxed \subseteq Latencies

\* requests_total, errors_total and latency_samples count what happened, however
\* tasks interleave: each differs from the truth only by operations under way.
CountersExact ==
    /\ mem[RequestsTotal] + Cardinality(Owing(RequestsTotal, 1)) = started
    /\ mem[ErrorsTotal] + Cardinality(Owing(ErrorsTotal, 1)) = erred
    /\ mem[Samples] + Cardinality(Owing(Samples, 1)) = finished

\* The inflight gauge is the number of requests under way, up to operations under way,
\* as long as no answer failed to be written.  (After a failed write it is not: see
\* InflightIsCurrent.)
InflightExact ==
    abandoned = 0 =>
        mem[Inflight] + Cardinality(Owing(Inflight, 1))
          = Cardinality(Busy) + Cardinality(Owing(Inflight, -1))

\* The inflight gauge is "Current in-flight requests.", as the documentation of
\* MetricsSnapshot says (metrics.rs:33): with no operation under way it is the number
\* of requests that are neither answered nor given up.
InflightIsCurrent ==
    (\A t \in Tasks : todo[t] = {}) => mem[Inflight] = Cardinality(Busy)

\* max_us is the greatest latency of those whose record has finished with it:
\* concurrent updates, retries included, lose no maximum and invent none.
MaxExact ==
    /\ mem[MaxUs] \in maxed \union {0}
    /\ \A l \in maxed : l <= mem[MaxUs]

\* How many latencies of the set S were measured.
MeasuredIn(S) == Total([l \in S |-> measured[l]])

\* The n-th smallest of the measured latencies (nearest-rank definition).
NthSmallest(n) ==
    LET enough == {l \in Latencies : MeasuredIn({k \in Latencies : k <= l}) >= n}
    IN CHOOSE l \in enough : \A k \in enough : l <= k

\* The nearest rank of a percentile of p/10 among n samples, and the percentiles
\* that are asked for, the extremes included.
IsNearest(k, n, p) == 1000 * k >= n * p /\ 1000 * (k - 1) < n * p
NearestRank(n, p) == CHOOSE k \in 1 .. n : IsNearest(k, n, p)
Percentiles == {1, 500, 900, 990, 999, 1000}

\* A latency rounded up to the bound of its bucket, or the maximum above all bounds.
RoundedUp(l) ==
    LET above == {i \in 1 .. Len(Bounds) : Bounds[i] >= l}
    IN IF above = {} THEN mem[MaxUs]
       ELSE Bounds[CHOOSE i \in above : \A j \in above : Bounds[i] <= Bounds[j]]

\* The sample that the percentile may be taken from: the one of nearest rank, or for
\* p99.9 of a multiple of 1000 samples possibly the next greater one.
Candidates(n, p) ==
    NearestRank(n, p) .. NearestRank(n, p) + (IF p = 999 /\ n % 1000 = 0 THEN 1 ELSE 0)

\* With no operation under way, percentile_us reports the nearest-rank percentile
\* of what was measured, rounded up to its bucket's bound, or the maximum when it
\* is above all bounds: record and percentile_us agree on the buckets.  For p99.9 the
\* inexact product can make it the next greater sample, never a smaller one, and
\* never with fewer than 1000 samples.
PercentilesRight ==
    (\A t \in Tasks : todo[t] = {} /\ updating[t] = "no") /\ finished > 0 =>
        \A p \in Percentiles : \A rank \in Ranks(mem[Samples], p) :
            \E k \in Candidates(finished, p) :
                PercentileUs(mem, rank) = RoundedUp(NthSmallest(k))

\* INFO on a connection accounts for that connection's earlier requests and for
\* itself, whatever the other tasks and the order of the loads do, which is what
\* hkv-server/tests/metrics.rs expects of a client alone on the server: all of its
\* requests, all of its errors, a sample in some bucket for each that finished,
\* and itself in flight.
InfoSeesOwnRequests ==
    [][\A t \in Tasks : pc[t] = "load" /\ pc'[t] = "write" =>
         /\ \A c \in Counters : snap'[t][c] >= own[t][c]
         /\ Cumulative(snap'[t], 7 + Len(Bounds)) >= own[t][Samples]
         /\ snap'[t][Inflight] >= 1]_vars

=============================================================================

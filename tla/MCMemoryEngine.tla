--------------------------- MODULE MCMemoryEngine ---------------------------
(* Small instances of MemoryEngine for TLC.                                *)
EXTENDS MemoryEngine, TLC

CONSTANTS t1, t2, a, b, small, large

\* One byte of key; a value of no bytes and one of two.
MCKeyLen   == [k \in Keys |-> 1]
MCValueLen == [v \in Values |-> IF v = large THEN 2 ELSE 0]

\* One key in each shard.
TwoShards == [k \in Keys |-> IF k = b THEN 1 ELSE 0]

Symmetric == Permutations(Threads)

\* The sweeper runs.  Either two keys compete for space, with time standing still,
\* or one key of a small value is used, and swept, while time passes.
Focus ==
  /\ handle = "running"
  /\ \/ clock = 0 /\ \A t \in Threads : call[t].op = "expire" => call[t].ttl = 0
     \/ /\ entry[b] = Absent /\ (entry[a] # Absent => entry[a].value = small)
        /\ \A t \in Threads : call[t] # NoCall => call[t].key = a
        /\ \A t \in Threads : call[t].op = "set" => call[t].value = small
        /\ \A t \in Threads : call[t].op = "expire" => call[t].ttl = 1

FocusedSpec == Init /\ [][Next /\ Focus']_vars

\* One thread writes small values and looks up, the other writes large ones and sets
\* deadlines.
Roles ==
  /\ call[t1].op = "set" => call[t1].value = small
  /\ call[t1].op # "expire"
  /\ call[t2].op \notin {"get", "delete", "ttl"}
  /\ call[t2].op = "set" => call[t2].value = large

FairRolesSpec == Init /\ [][Next /\ Roles']_vars /\ Fairness
=============================================================================

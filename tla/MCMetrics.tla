------------------------------ MODULE MCMetrics ------------------------------
(***************************************************************************)
(* A small instance of Metrics for TLC.                                     *)
(***************************************************************************)
EXTENDS Metrics, TLC

CONSTANTS t1, t2

\* Two bounded buckets before the one for everything else.
TwoBounds == <<2, 4>>

Symmetric == Permutations(Tasks)

\* The tasks whose request is INFO.
Asking == {t \in Tasks : pc[t] = "load" \/ \E c \in Cells : snap[t][c] > 0}

\* Either no one asks for INFO and one request at most is an error, or one does and
\* there are two requests of one latency.
Focus ==
    \/ Asking = {} /\ erred <= 1
    \/ /\ Cardinality(Asking) = 1 /\ started <= 2
       /\ \A l \in Latencies : measured[l] > 0 => l = 2

MCNext == Next /\ Focus'

MCSpec == Init /\ [][MCNext]_vars

=============================================================================

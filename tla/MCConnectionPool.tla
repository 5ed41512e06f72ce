-------------------------- MODULE MCConnectionPool --------------------------
(***************************************************************************)
(* ConnectionPool for TLC, with an observer of the moments at which the    *)
(* pool is exhausted.                                                      *)
(***************************************************************************)
EXTENDS ConnectionPool, TLC

VARIABLE full  \* per thread in acquire: was the pool exhausted since it began?

MCvars == <<vars, full>>

\* At capacity and nothing idle.
Full == total >= MaxTotal /\ idle = <<>>

Observe ==
    full' = [t \in Threads |->
               CASE pc'[t] = "reserve" -> Full' \/ (pc[t] = "reserve" /\ full[t])
                 [] pc'[t] = "idle" -> full[t]
                 [] OTHER -> FALSE]

MCInit == Init /\ full = [t \in Threads |-> FALSE]

MCNext == Next /\ Observe

MCSpec == MCInit /\ [][MCNext]_MCvars

\* PoolExhausted is returned only to a caller during whose acquire the pool was,
\* at some moment, at capacity with no idle connection, as the documentation of
\* the error says.
ExhaustedJustified ==
    \A t \in Threads : res[t] = "exhausted" => full[t]

Symmetry == Permutations(Threads) \union Permutations(Conns)

=============================================================================

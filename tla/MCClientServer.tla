---------------------------- MODULE MCClientServer ----------------------------
(* Small instances of ClientServer for TLC. *)
EXTENDS ClientServer, SequencesExt, TLC

CONSTANTS c1, c2

\* Numerals of the seconds that occur.
MCNumerals == ("0" :> 0) @@ ("1" :> 1)

\* Every method, on one key; times to live of less and of more than a second.
MCMethods ==
    [method : {"get", "delete", "ttl"}, key : Keys]
      \union [method : {"set"}, key : Keys, value : Values]
      \union [method : {"set_with_ttl"}, key : Keys, value : Values, ttl : {3}]
      \union [method : {"expire"}, key : Keys, ttl : {1}]
      \union [method : {"ping"}, payload : {<<>>, <<"hi">>}]
      \union {[method |-> "info"]}

\* Stores and deletes of one key, among them a delete that names it twice.
Removals == {<<"SET", "k", "v">>, <<"SET", "k", "v", "EX", "1">>, <<"DEL", "k", "k">>}

\* What the metrics tell apart, among them SET EX that is refused and
\* commands in error.
Traffic == {<<"GET", "k">>, <<"SET", "k", "v", "EX", "x">>, <<>>, Malformed}

\* Two writers of one key.
Writers == {<<"SET", "k", "v", "EX", "1">>, <<"SET", "k", "w">>}

\* A command of two engine calls, and the end of a connection by an error.
Answerable == {<<"SET", "k", "v", "EX", "1">>, Malformed}

Symmetric == Permutations(Conns)

\* What the connections send in one behaviour: every method once, stores and deletes
\* that race, or traffic with errors; with bounds on the commands of a connection,
\* on those of all connections, and on the clock.
Workload(commands, each, total, time) ==
    [commands |-> commands, each |-> each, total |-> total, time |-> time]
Workloads ==
    {Workload(ClientCommands, 1, 2, 2), Workload(Removals, 2, 3, 2),
     Workload(Traffic, 2, 4, 0)}

Focus ==
    \E w \in Workloads :
        /\ \A c \in Conns : ToSet(sent[c]) \subseteq w.commands /\ Len(sent[c]) <= w.each
        /\ Total([c \in Conns |-> Len(sent[c])]) <= w.total
        /\ clock <= w.time

AllCommands == ClientCommands \union Removals \union Traffic

FocusedSpec == Init /\ [][Next /\ Focus']_vars

=============================================================================

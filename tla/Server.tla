------------------------------- MODULE Server -------------------------------
(***************************************************************************)
(* The server's connections (hkv-server/src/server.rs and main.rs): one     *)
(* task per connection reads bytes, takes commands from them, runs each on  *)
(* the shared engine and writes its answer.  A command is the sequence of   *)
(* its arguments, as RespParser hands it out.                               *)
(*                                                                         *)
(* The engine is KVEngine, the contract MemoryEngine is shown to implement, *)
(* without a byte budget (main.rs).  A handler calls it once or, for DEL    *)
(* and SET EX, several times, and other tasks run between two calls.        *)
(***************************************************************************)
EXTENDS Integers, Sequences, FiniteSets, ByteTotals

CONSTANTS
    Conns,        \* connections, each used once
    Commands,     \* commands that clients send, and possibly Malformed
    Malformed,    \* bytes that are not RESP
    Keys, Values,
    Numerals,     \* [tokens that parse as integers -> their values]
    TicksPerSec,  \* clock ticks in a second
    MaxSent,      \* bound on the commands sent on a connection
    MaxTime,      \* bound on the clock
    Absent, None

ASSUME ServerAssumption ==
    /\ IsFiniteSet(Conns)
    /\ \A a \in Commands : a # Malformed => a \in Seq(STRING)
    /\ \A x \in DOMAIN Numerals : Numerals[x] \in Nat
    /\ TicksPerSec \in Nat \ {0}
    /\ None \notin Int

VARIABLES
    store, phase, call, since, res, clock,  \* the engine
    pc,       \* where each task is
    sent,     \* what the client of each connection has sent
    arrived,  \* how much of it the socket has delivered to the task's buffer
    parsed,   \* how much of it the task has parsed
    calls,    \* engine calls the handler has yet to make
    removed,  \* the local variable of handle_del
    reply,    \* the response
    said,     \* the engine's answer behind the response, for the properties
    answers,  \* responses written, with the engine's answer behind each
    peer,     \* the client's end: "open", or "shut" for writing
    metrics   \* counters of Metrics

engine == <<store, phase, call, since, res, clock>>
stream == <<sent, arrived, parsed, peer>>
handler == <<calls, removed, reply, said>>
vars == <<engine, stream, pc, handler, answers, metrics>>

Engine == INSTANCE KVEngine WITH
            Threads <- Conns,
            Ttls <- {Numerals[x] * TicksPerSec : x \in DOMAIN Numerals},
            Evicts <- FALSE

Goto(c, place) == pc' = [pc EXCEPT ![c] = place]

\* The command the task works on.
Args(c) == sent[c][parsed[c]]

-----------------------------------------------------------------------------
(* Responses. *)

Simple(x)  == [type |-> "simple", text |-> x, int |-> 0]
Error      == [type |-> "error", text |-> "ERR", int |-> 0]
Integer(n) == [type |-> "integer", text |-> "", int |-> n]
Bulk(x)    == [type |-> "bulk", text |-> x, int |-> 0]
Null       == [type |-> "null", text |-> "", int |-> 0]

IsError(r) == r.type = "error"

-----------------------------------------------------------------------------
(* Ways in which the code could be wrong. *)

\* handle_del that counts the keys it was given.
CountsAll(c) == TRUE

\* handle_connection that reads again after each answer.
ReadAgain(c) == "read"

\* handle_connection that writes its answer twice.
WriteAgain(c) == "write"

\* handle_set that sets the time to live before the value.
ExpireFirst(k, v, d) ==
    <<[op |-> "expire", key |-> k, ttl |-> d], [op |-> "set", key |-> k, value |-> v]>>

\* handle_ttl with the answers for a missing and for a persistent key swapped.
TtlSwapped(r) ==
    CASE r[1] = "Missing"   -> Integer(-1)
      [] r[1] = "NoExpiry"  -> Integer(-2)
      [] r[1] = "ExpiresIn" -> Integer(r[2] \div TicksPerSec)

\* handle_connection that takes a null for an error.
CountsNull(c) == IF reply[c].type \in {"error", "null"} THEN 1 ELSE 0

-----------------------------------------------------------------------------
(* Handlers. *)

IsNumber(x) == x \in DOMAIN Numerals

\* The calls of SET EX.
SetEx(k, v, d) ==
    <<[op |-> "set", key |-> k, value |-> v], [op |-> "expire", key |-> k, ttl |-> d]>>

\* The engine calls of a command, by dispatch_command and the handlers' checks
\* of their arguments; none for a command that the engine has no part in.
CallsOf(a) ==
    LET n == Len(a) IN
    CASE n = 2 /\ a[1] = "GET" -> <<[op |-> "get", key |-> a[2]]>>
      [] n = 3 /\ a[1] = "SET" -> <<[op |-> "set", key |-> a[2], value |-> a[3]]>>
      [] n = 5 /\ a[1] = "SET" /\ a[4] = "EX" /\ IsNumber(a[5]) ->
           SetEx(a[2], a[3], Numerals[a[5]] * TicksPerSec)
      [] n >= 2 /\ a[1] = "DEL" ->
           [i \in 1 .. n - 1 |-> [op |-> "delete", key |-> a[i + 1]]]
      [] n = 3 /\ a[1] = "EXPIRE" /\ IsNumber(a[3]) ->
           <<[op |-> "expire", key |-> a[2], ttl |-> Numerals[a[3]] * TicksPerSec]>>
      [] n = 2 /\ a[1] = "TTL" -> <<[op |-> "ttl", key |-> a[2]]>>
      [] OTHER -> <<>>

\* The map has room for every key that a command names.
ASSUME KeysAssumption ==
    \A a \in Commands : a # Malformed =>
        \A i \in 1 .. Len(CallsOf(a)) : CallsOf(a)[i].key \in Keys

\* The response to a command without engine calls: PING, INFO, or an error for an
\* empty or unknown command, a wrong number of arguments, SET options other than
\* EX, or a TTL that is not a number.
DirectReply(a) ==
    CASE a = <<"PING">> -> Simple("PONG")
      [] Len(a) = 2 /\ a[1] = "PING" -> Bulk(a[2])
      [] Len(a) >= 1 /\ a[1] = "INFO" -> Bulk("info")
      [] OTHER -> Error

\* handle_ttl's conversion; as_secs drops the fraction.
TtlReply(r) ==
    CASE r[1] = "Missing"   -> Integer(-2)
      [] r[1] = "NoExpiry"  -> Integer(-1)
      [] r[1] = "ExpiresIn" -> Integer(r[2] \div TicksPerSec)

\* The response once the last engine call has returned r, with n keys removed.
ReplyOf(a, r, n) ==
    CASE a[1] = "GET"    -> IF r[1] = "Value" THEN Bulk(r[2]) ELSE Null
      [] a[1] = "SET"    -> IF r[1] = "Ok" THEN Simple("OK") ELSE Error
      [] a[1] = "DEL"    -> Integer(n)
      [] a[1] = "EXPIRE" -> Integer(IF r[1] = "Ok" THEN 1 ELSE 0)
      [] a[1] = "TTL"    -> TtlReply(r)

-----------------------------------------------------------------------------
Init ==
    /\ Engine!Init
    /\ pc = [c \in Conns |-> "new"]
    /\ sent = [c \in Conns |-> <<>>]
    /\ arrived = [c \in Conns |-> 0]
    /\ parsed = [c \in Conns |-> 0]
    /\ calls = [c \in Conns |-> <<>>]
    /\ removed = [c \in Conns |-> 0]
    /\ reply = [c \in Conns |-> Null]
    /\ said = [c \in Conns |-> <<>>]
    /\ answers = [c \in Conns |-> <<>>]
    /\ peer = [c \in Conns |-> "open"]
    /\ metrics = [requests |-> 0, errors |-> 0, inflight |-> 0, samples |-> 0]

\* The client sends a command, without waiting for answers to earlier ones.
Send(c, a) ==
    /\ pc[c] \notin {"new", "closed"} /\ peer[c] = "open"
    /\ Len(sent[c]) < MaxSent
    /\ sent' = [sent EXCEPT ![c] = Append(@, a)]
    /\ UNCHANGED <<engine, arrived, parsed, peer, pc, handler, answers, metrics>>

\* The client will send no more.
Shutdown(c) ==
    /\ pc[c] # "new" /\ peer[c] = "open"
    /\ peer' = [peer EXCEPT ![c] = "shut"]
    /\ UNCHANGED <<engine, sent, arrived, parsed, pc, handler, answers, metrics>>

\* main accepts the connection and spawns its task.
Accept(c) ==
    /\ pc[c] = "new"
    /\ Goto(c, "read")
    /\ UNCHANGED <<engine, stream, handler, answers, metrics>>

\* read_buf returns some of the commands in the socket.
Read(c) ==
    /\ pc[c] = "read"
    /\ \E n \in arrived[c] + 1 .. Len(sent[c]) : arrived' = [arrived EXCEPT ![c] = n]
    /\ Goto(c, "parse")
    /\ UNCHANGED <<engine, sent, parsed, peer, handler, answers, metrics>>

\* read_buf returns 0, at the end of what was sent.
Eof(c) ==
    /\ pc[c] = "read" /\ peer[c] = "shut" /\ arrived[c] = Len(sent[c])
    /\ Goto(c, "closed")
    /\ UNCHANGED <<engine, stream, handler, answers, metrics>>

\* read_buf fails.
ReadFail(c) ==
    /\ pc[c] = "read"
    /\ Goto(c, "closed")
    /\ UNCHANGED <<engine, stream, handler, answers, metrics>>

\* parse finds no whole command in the buffer.
ParseNone(c) ==
    /\ pc[c] = "parse" /\ parsed[c] = arrived[c]
    /\ Goto(c, "read")
    /\ UNCHANGED <<engine, stream, handler, answers, metrics>>

\* parse returns a command: record_request_start, and its handler begins.
ParseCommand(c) ==
    /\ pc[c] = "parse" /\ parsed[c] < arrived[c]
    /\ LET a == sent[c][parsed[c] + 1] IN
         /\ a # Malformed
         /\ calls' = [calls EXCEPT ![c] = CallsOf(a)]
         /\ reply' = [reply EXCEPT ![c] = DirectReply(a)]
         /\ Goto(c, IF CallsOf(a) = <<>> THEN "respond" ELSE "call")
    /\ parsed' = [parsed EXCEPT ![c] = @ + 1]
    /\ removed' = [removed EXCEPT ![c] = 0]
    /\ said' = [said EXCEPT ![c] = <<>>]
    /\ metrics' = [metrics EXCEPT !.requests = @ + 1, !.inflight = @ + 1]
    /\ UNCHANGED <<engine, sent, arrived, peer, answers>>

\* parse fails: record_request_start, record_error.
ParseError(c) ==
    /\ pc[c] = "parse" /\ parsed[c] < arrived[c]
    /\ sent[c][parsed[c] + 1] = Malformed
    /\ parsed' = [parsed EXCEPT ![c] = @ + 1]
    /\ removed' = [removed EXCEPT ![c] = 0]
    /\ reply' = [reply EXCEPT ![c] = Error]
    /\ said' = [said EXCEPT ![c] = <<>>]
    /\ metrics' = [metrics EXCEPT !.requests = @ + 1, !.inflight = @ + 1, !.errors = @ + 1]
    /\ Goto(c, "write")
    /\ UNCHANGED <<engine, sent, arrived, peer, calls, answers>>

\* The handler calls the engine.
Call(c) ==
    /\ pc[c] = "call"
    /\ Engine!Begin(c, Head(calls[c]))
    /\ calls' = [calls EXCEPT ![c] = Tail(@)]
    /\ Goto(c, "wait")
    /\ UNCHANGED <<stream, removed, reply, said, answers, metrics>>

\* The engine serves a call.
EngineServes(c) ==
    /\ \/ \E n \in since[c] .. clock :
            \/ Engine!Get(c, n) \/ Engine!Delete(c, n)
            \/ Engine!Expire(c, n) \/ Engine!Ttl(c, n)
       \/ Engine!Set(c)
    /\ UNCHANGED <<stream, pc, handler, answers, metrics>>

\* The engine sweeps an expired entry, or time passes.
EngineTime ==
    /\ (\E k \in Keys : Engine!Lapse(k)) \/ Engine!Tick
    /\ UNCHANGED <<stream, pc, handler, answers, metrics>>

\* The arm of handle_del that counts.
Counted(c) == res[c] = <<"true">>

\* The engine's call returns, and the handler goes on or makes its response.
Return(c) ==
    LET n == removed[c] + (IF Counted(c) THEN 1 ELSE 0) IN
    /\ pc[c] = "wait" /\ phase[c] = "done"
    /\ Engine!Finish(c)
    /\ removed' = [removed EXCEPT ![c] = IF call[c].op = "delete" THEN n ELSE @]
    /\ \/ /\ calls[c] # <<>>
          /\ Goto(c, "call")
          /\ UNCHANGED <<reply, said>>
       \/ /\ calls[c] = <<>>
          /\ reply' = [reply EXCEPT ![c] = ReplyOf(Args(c), res[c], n)]
          /\ said' = [said EXCEPT ![c] = res[c]]
          /\ Goto(c, "respond")
    /\ UNCHANGED <<stream, calls, answers, metrics>>

\* record_error, if the response is an error.
ErrorsOf(c) == IF IsError(reply[c]) THEN 1 ELSE 0

Respond(c) ==
    /\ pc[c] = "respond"
    /\ metrics' = [metrics EXCEPT !.errors = @ + ErrorsOf(c)]
    /\ Goto(c, "write")
    /\ UNCHANGED <<engine, stream, handler, answers>>

\* write_all succeeds.
Write(c) ==
    /\ pc[c] = "write"
    /\ answers' = [answers EXCEPT ![c] = Append(@, [reply |-> reply[c], engine |-> said[c]])]
    /\ Goto(c, "end")
    /\ UNCHANGED <<engine, stream, handler, metrics>>

\* write_all fails, and the handler returns.
WriteFail(c) ==
    /\ pc[c] = "write"
    /\ Goto(c, "closed")
    /\ UNCHANGED <<engine, stream, handler, answers, metrics>>

\* Where the inner loop goes on after an answer.
NextPlace(c) == "parse"

\* record_request_end; after a protocol error the handler returns.
End(c) ==
    /\ pc[c] = "end"
    /\ metrics' = [metrics EXCEPT !.inflight = @ - 1, !.samples = @ + 1]
    /\ Goto(c, IF Args(c) = Malformed THEN "closed" ELSE NextPlace(c))
    /\ UNCHANGED <<engine, stream, handler, answers>>

\* What the runtime does for a connection, as opposed to its client and faults.
TaskStep(c) ==
    \/ Accept(c) \/ Read(c) \/ Eof(c) \/ ParseNone(c) \/ ParseCommand(c) \/ ParseError(c)
    \/ Call(c) \/ Return(c) \/ Respond(c) \/ Write(c) \/ End(c)

Next ==
    \/ \E c \in Conns :
         \/ \E a \in Commands : Send(c, a)
         \/ Shutdown(c) \/ ReadFail(c) \/ WriteFail(c)
         \/ TaskStep(c) \/ EngineServes(c)
    \/ EngineTime

Spec == Init /\ [][Next]_vars

\* The runtime runs every task that can go on, and the engine, which a task calls on
\* its own thread, answers every call.
Fairness == \A c \in Conns : WF_vars(TaskStep(c)) /\ WF_vars(EngineServes(c))

FairSpec == Spec /\ Fairness

-----------------------------------------------------------------------------
\* How many of the responses written are errors.
ErrorAnswers(c) == Cardinality({i \in 1 .. Len(answers[c]) : IsError(answers[c][i].reply)})

\* The first n commands on a connection, those that are commands.
Taken(c, n) == {i \in 1 .. n : sent[c][i] # Malformed /\ sent[c][i] # <<>>}
IsSet(a) == a[1] = "SET" /\ CallsOf(a) # <<>>

\* The values that commands parsed so far store.
Stored == Total([c \in Conns |->
            Cardinality({i \in Taken(c, parsed[c]) : IsSet(sent[c][i])})])

\* The keys that DEL responses on a connection claim to have removed.
Claimed(c) ==
    Total([i \in Taken(c, Len(answers[c])) |->
             IF sent[c][i][1] = "DEL" THEN answers[c][i].reply.int ELSE 0])

\* A task answers no more than it has parsed, parses no more than has arrived, and
\* is in the engine exactly while it is in a call (the loops of
\* handle_connection_with_metrics).
TypeOK ==
    /\ pc \in [Conns -> {"new", "read", "parse", "call", "wait", "respond", "write",
                         "end", "closed"}]
    /\ \A c \in Conns : Len(answers[c]) <= parsed[c] /\ parsed[c] <= arrived[c]
                         /\ arrived[c] <= Len(sent[c])
    /\ \A c \in Conns : phase[c] # "idle" <=> pc[c] = "wait"
    /\ metrics \in [{"requests", "errors", "inflight", "samples"} -> Int]

\* A task that reads has answered every command it was given: the inner loop of
\* handle_connection_with_metrics leaves no pipelined command in the buffer, so
\* none waits for more input, or is lost when the client has shut down its side.
EofAfterAnswers ==
    \A c \in Conns :
        pc[c] = "read" => Len(answers[c]) = arrived[c]

\* Metrics agree with the traffic: a request per command parsed, an error per
\* error response, on the ordinary path and on the one for protocol errors, and a
\* latency sample per response written, up to commands under way; and, until a write
\* fails, the gauge of commands in flight is the number of those under way.
MetricsMatchAnswers ==
    LET under == {c \in Conns : pc[c] \notin {"new", "read", "parse", "closed"}}
        failed == {c \in Conns : pc[c] = "closed" /\ Len(answers[c]) < parsed[c]}
    IN /\ metrics.requests = Total(parsed)
       /\ failed = {} => metrics.inflight = Cardinality(under)
       /\ metrics.samples = Total([c \in Conns |-> Len(answers[c])])
                            - Cardinality({c \in Conns : pc[c] = "end"})
       /\ metrics.errors = Total([c \in Conns |-> ErrorAnswers(c)])
            + Cardinality({c \in Conns : /\ IsError(reply[c])
                                        /\ (pc[c] = "write" \/ c \in failed)})

\* The keys that all DEL responses claim to have removed, and those counted by
\* handlers under way, are no more than the values stored so far: two deletes
\* racing for a key, or a key named twice, count it once.
NoDoubleDelete ==
    Total([c \in Conns |-> Claimed(c)])
      + Total([c \in Conns |-> IF pc[c] \in {"call", "wait", "respond", "write"}
                                 THEN removed[c] ELSE 0]) <= Stored

\* A key that is only ever written by SET EX has a deadline whenever no SET EX is
\* between its two calls of the engine, whatever the other connections do to the
\* key between the two (handle_set).
SetExExpires ==
    \A k \in Keys :
        (\A c \in Conns :
           /\ pc[c] \notin {"call", "wait"}
           /\ \A i \in Taken(c, parsed[c]) :
                ~(IsSet(sent[c][i]) /\ Len(sent[c][i]) = 3 /\ sent[c][i][2] = k))
        => (store[k] # Absent => store[k].expires_at # None)

\* Every command sent on a connection is answered, unless the connection ends.
AllAnswered ==
    \A c \in Conns, n \in 1 .. MaxSent :
        Len(sent[c]) >= n ~> Len(answers[c]) >= n \/ pc[c] = "closed"

=============================================================================

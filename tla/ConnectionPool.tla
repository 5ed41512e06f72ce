--------------------------- MODULE ConnectionPool ---------------------------
(***************************************************************************)
(* The connection pool of the synchronous client (hkv-client/src/pool.rs). *)
(* Threads share one pool.  Each call of the client takes a connection,    *)
(* runs one command on it and drops it.  A step is one critical section of *)
(* the pool's mutex, or one operation on a socket; in between, all other   *)
(* threads may run.                                                        *)
(***************************************************************************)
EXTENDS Naturals, Sequences, FiniteSets

CONSTANTS
    Threads,    \* threads that use the client
    Conns,      \* identities of sockets; a closed one may be used again
    MaxIdle,    \* PoolConfig.max_idle
    MaxTotal,   \* PoolConfig.max_total
    NoConn      \* "no connection"

ASSUME PoolAssumption ==
    /\ IsFiniteSet(Threads)
    /\ IsFiniteSet(Conns)
    /\ MaxIdle \in Nat
    /\ MaxTotal \in Nat
    /\ NoConn \notin Conns

VARIABLES
    idle,    \* PoolState.idle, front first
    total,   \* PoolState.total
    open,    \* the sockets the client has open
    unread,  \* per socket: answers the server owes or the client has not read
    pc,      \* where each thread is
    conn,    \* PooledConnection.conn of each thread
    valid,   \* PooledConnection.valid of each thread
    res      \* how each thread's last call ended

vars == <<idle, total, open, unread, pc, conn, valid, res>>

Outcomes == {"none", "answered", "exhausted", "failed"}
Places == {"idle", "reserve", "connect", "release", "send", "read", "drop", "close"}

\* Places at which a thread has a connection of its own.
Using == {"send", "read", "drop"}

\* Places at which a thread has a slot counted in total.
Slotted == Using \union {"connect", "release"}

At(places) == {t \in Threads : pc[t] \in places}

Goto(t, place) == pc' = [pc EXCEPT ![t] = place]

-----------------------------------------------------------------------------
(* Ways in which the code could be wrong. *)

\* A path that gives up its slot without counting it.
LessNothing(n) == n

\* try_reserve with an off-by-one.
RoomOneMore(n) == n <= MaxTotal

\* pop_idle that hands out the front connection and leaves it in the list.
RestAll == idle

\* return_connection with an off-by-one.
KeepsWhenFull == Len(idle) <= MaxIdle

\* exec that forgets to mark the connection after an error.
StaysValid(t) == valid' = [valid EXCEPT ![t] = TRUE]

-----------------------------------------------------------------------------
\* usize::saturating_sub(1).
Less(n) == IF n > 0 THEN n - 1 ELSE 0

(* ConnectionPool::new. *)
Init ==
    /\ idle = <<>>
    /\ total = 0
    /\ open = {}
    /\ unread = [c \in Conns |-> 0]
    /\ pc = [t \in Threads |-> "idle"]
    /\ conn = [t \in Threads |-> NoConn]
    /\ valid = [t \in Threads |-> TRUE]
    /\ res = [t \in Threads |-> "none"]

\* PooledConnection::new: thread t goes on with connection c.
Wrap(t, c) ==
    /\ conn' = [conn EXCEPT ![t] = c]
    /\ valid' = [valid EXCEPT ![t] = TRUE]
    /\ Goto(t, "send")

\* What pop_front leaves.
Rest == Tail(idle)

\* acquire begins: pop_idle finds a connection.
PopIdle(t) ==
    /\ pc[t] = "idle"
    /\ idle # <<>>
    /\ idle' = Rest
    /\ Wrap(t, Head(idle))
    /\ res' = [res EXCEPT ![t] = "none"]
    /\ UNCHANGED <<total, open, unread>>

\* acquire begins: pop_idle finds none and drops the mutex.
PopNone(t) ==
    /\ pc[t] = "idle"
    /\ idle = <<>>
    /\ Goto(t, "reserve")
    /\ res' = [res EXCEPT ![t] = "none"]
    /\ UNCHANGED <<idle, total, open, unread, conn, valid>>

\* The test of try_reserve, as the condition to go on.
HasRoom(n) == n < MaxTotal

\* try_reserve takes a slot.
Reserve(t) ==
    /\ pc[t] = "reserve"
    /\ HasRoom(total)
    /\ total' = total + 1
    /\ Goto(t, "connect")
    /\ UNCHANGED <<idle, open, unread, conn, valid, res>>

\* try_reserve refuses; acquire returns PoolExhausted.
Exhausted(t) ==
    /\ pc[t] = "reserve"
    /\ ~HasRoom(total)
    /\ Goto(t, "idle")
    /\ res' = [res EXCEPT ![t] = "exhausted"]
    /\ UNCHANGED <<idle, total, open, unread, conn, valid>>

\* Connection::connect succeeds, with a socket that has no past.
Connect(t) ==
    /\ pc[t] = "connect"
    /\ \E c \in Conns \ open :
         /\ open' = open \union {c}
         /\ unread' = [unread EXCEPT ![c] = 0]
         /\ Wrap(t, c)
    /\ UNCHANGED <<idle, total, res>>

\* Connection::connect fails: bad address, refused, timed out, or a socket
\* option that could not be set; the stream, if any, is closed by then.
ConnectFail(t) ==
    /\ pc[t] = "connect"
    /\ Goto(t, "release")
    /\ res' = [res EXCEPT ![t] = "failed"]
    /\ UNCHANGED <<idle, total, open, unread, conn, valid>>

\* release_slot after a failed connect.
ReleaseSlot(t) ==
    /\ pc[t] = "release"
    /\ total' = Less(total)
    /\ Goto(t, "idle")
    /\ UNCHANGED <<idle, open, unread, conn, valid, res>>

\* exec: the whole command is written and flushed.
Send(t) ==
    /\ pc[t] = "send"
    /\ unread' = [unread EXCEPT ![conn[t]] = @ + 1]
    /\ Goto(t, "read")
    /\ UNCHANGED <<idle, total, open, conn, valid, res>>

\* exec: one response is read, the first one not read yet.
Read(t) ==
    /\ pc[t] = "read"
    /\ unread' = [unread EXCEPT ![conn[t]] = @ - 1]
    /\ Goto(t, "drop")
    /\ res' = [res EXCEPT ![t] = "answered"]
    /\ UNCHANGED <<idle, total, open, conn, valid>>

\* PooledConnection::exec sees an error.
Invalidate(t) == valid' = [valid EXCEPT ![t] = FALSE]

\* exec fails with an IO or protocol error.  The write may have failed before
\* or after the server got the command, and the answer may have been consumed,
\* be malformed, or come after the read timed out.
ExecFail(t) ==
    /\ pc[t] \in {"send", "read"}
    /\ \E n \in {0, 1} : unread' = [unread EXCEPT ![conn[t]] = n]
    /\ Invalidate(t)
    /\ Goto(t, "drop")
    /\ res' = [res EXCEPT ![t] = "failed"]
    /\ UNCHANGED <<idle, total, open, conn>>

\* The test of return_connection.
HasIdleRoom == Len(idle) < MaxIdle

\* drop of a valid connection: return_connection keeps it.
Return(t) ==
    /\ pc[t] = "drop"
    /\ valid[t]
    /\ HasIdleRoom
    /\ idle' = Append(idle, conn[t])
    /\ conn' = [conn EXCEPT ![t] = NoConn]
    /\ Goto(t, "idle")
    /\ UNCHANGED <<total, open, unread, valid, res>>

\* drop otherwise: return_connection finds the idle list full, or release_slot
\* after an error.  Either gives up the slot and then the mutex; the socket is
\* closed only when the variable that holds it goes out of scope.
Discard(t) ==
    /\ pc[t] = "drop"
    /\ valid[t] => ~HasIdleRoom
    /\ total' = Less(total)
    /\ Goto(t, "close")
    /\ UNCHANGED <<idle, open, unread, conn, valid, res>>

\* The TcpStream is dropped.
Close(t) ==
    /\ pc[t] = "close"
    /\ open' = open \ {conn[t]}
    /\ conn' = [conn EXCEPT ![t] = NoConn]
    /\ Goto(t, "idle")
    /\ UNCHANGED <<idle, total, unread, valid, res>>

Step(t) ==
    \/ PopIdle(t) \/ PopNone(t)
    \/ Reserve(t) \/ Exhausted(t)
    \/ Connect(t) \/ ConnectFail(t) \/ ReleaseSlot(t)
    \/ Send(t) \/ Read(t) \/ ExecFail(t)
    \/ Return(t) \/ Discard(t) \/ Close(t)

Next == \E t \in Threads : Step(t)

Spec == Init /\ [][Next]_vars

-----------------------------------------------------------------------------
\* Types; a counter of slots that never exceeds max_total (try_reserve), and
\* never more idle connections than max_idle (return_connection).
TypeOK ==
    /\ idle \in Seq(Conns)
    /\ Len(idle) <= MaxIdle
    /\ total \in 0 .. MaxTotal
    /\ open \subseteq Conns
    /\ unread \in [Conns -> Nat]
    /\ pc \in [Threads -> Places]
    /\ conn \in [Threads -> Conns \union {NoConn}]
    /\ valid \in [Threads -> BOOLEAN]
    /\ res \in [Threads -> Outcomes]

\* Slots are neither lost nor released twice: total counts the idle connections
\* and the threads that have a slot, on every path through acquire and drop
\* (so the saturating_sub of release_slot and return_connection never saturates,
\* and a pool that nobody uses has lost no capacity).
SlotsAccounted == total = Len(idle) + Cardinality(At(Slotted))

\* A connection is in one place: once in the idle list, or with one thread that
\* uses or closes it.  No two threads ever write to one socket, and no open
\* socket is forgotten.
Holders == At(Using \union {"close"})
OneOwner ==
    /\ \A t \in Threads : conn[t] # NoConn <=> t \in Holders
    /\ \A t, u \in Holders : conn[t] = conn[u] => t = u
    /\ \A i, j \in 1 .. Len(idle) : idle[i] = idle[j] => i = j
    /\ \A t \in Holders, i \in 1 .. Len(idle) : idle[i] # conn[t]
    /\ open = {idle[i] : i \in 1 .. Len(idle)} \union {conn[t] : t \in Holders}

\* A command reads its own answer: a connection about to be used has no answer
\* outstanding, and one that waits for an answer waits for one only.  An error in
\* exec, which may leave an answer behind, must keep the connection from reuse.
OwnAnswer ==
    /\ \A i \in 1 .. Len(idle) : unread[idle[i]] = 0
    /\ \A t \in At({"send"}) : unread[conn[t]] = 0
    /\ \A t \in At({"read"}) : unread[conn[t]] = 1

\* max_total bounds idle and used connections; sockets beyond it are those whose
\* slot has been given up and that their thread is about to close.
SocketsBounded == Cardinality(open) <= MaxTotal + Cardinality(At({"close"}))

=============================================================================

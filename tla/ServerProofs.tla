----------------------------- MODULE ServerProofs -----------------------------
(***************************************************************************)
(* Theorems about Server and ClientServer, for any connections, commands,   *)
(* keys and times to live, and for clients that send any number of commands. *)
(***************************************************************************)
EXTENDS ClientServer, ByteTotalsProofs

\* A leaf goes to Zenon unless it names another prover.
USE Zenon

\* Functions and sequences of anything.
IsFn(f, S) == f = [x \in S |-> f[x]]
IsSeq(s) == \E S : s \in Seq(S)

LEMMA EmptyIsSeq == IsSeq(<<>>) /\ Len(<<>>) = 0
<1>1. <<>> \in Seq({})
  BY SMTT(30)
<1> QED
  BY <1>1 DEF IsSeq

LEMMA SeqLength == ASSUME NEW s, IsSeq(s) PROVE Len(s) \in Nat
  BY SMTT(30) DEF IsSeq

LEMMA AppendIsSeq ==
  ASSUME NEW s, NEW e, IsSeq(s)
  PROVE  IsSeq(Append(s, e)) /\ Len(Append(s, e)) = Len(s) + 1
<1>1. PICK S : s \in Seq(S)
  BY DEF IsSeq
<1>2. s \in Seq(S \union {e})
  BY <1>1, SMTT(30)
<1>3. Append(s, e) \in Seq(S \union {e}) /\ Len(Append(s, e)) = Len(s) + 1
  BY <1>2, SMTT(30)
<1> QED
  BY <1>3 DEF IsSeq

LEMMA TailIsSeq ==
  ASSUME NEW s, IsSeq(s), s # <<>>
  PROVE  /\ IsSeq(Tail(s)) /\ Len(Tail(s)) = Len(s) - 1
         /\ Len(s) \in Nat /\ Len(s) >= 1 /\ Head(s) = s[1]
         /\ \A i \in 1 .. Len(s) - 1 : Tail(s)[i] = s[i + 1]
<1>1. PICK S : s \in Seq(S)
  BY DEF IsSeq
<1>2. Tail(s) \in Seq(S) /\ Len(Tail(s)) = Len(s) - 1 /\ Len(s) \in Nat /\ Len(s) >= 1
  BY <1>1, SMTT(30)
<1>3. \A i \in 1 .. Len(s) - 1 : Tail(s)[i] = s[i + 1]
  BY <1>1, <1>2, SMTT(30)
<1> QED
  BY <1>1, <1>2, <1>3, SMTT(30) DEF IsSeq

LEMMA OneIsSeq == ASSUME NEW x PROVE IsSeq(<<x>>) /\ Len(<<x>>) = 1 /\ <<x>>[1] = x
<1>1. <<x>> \in Seq({x})
  BY SMTT(30)
<1> QED
  BY <1>1 DEF IsSeq

LEMMA TwoIsSeq ==
  ASSUME NEW x, NEW y
  PROVE  IsSeq(<<x, y>>) /\ Len(<<x, y>>) = 2 /\ <<x, y>>[1] = x /\ <<x, y>>[2] = y
<1>1. <<x, y>> \in Seq({x, y})
  BY SMTT(30)
<1> QED
  BY <1>1 DEF IsSeq

LEMMA AppendItems ==
  ASSUME NEW s, NEW e, NEW m, IsSeq(s), m = Len(s)
  PROVE  /\ Len(Append(s, e)) = m + 1 /\ Append(s, e)[m + 1] = e
         /\ \A i \in 1 .. m : Append(s, e)[i] = s[i]
<1>1. PICK S : s \in Seq(S)
  BY DEF IsSeq
<1>2. s \in Seq(S \union {e}) /\ e \in S \union {e}
  BY <1>1, SMTT(30)
<1> QED
  BY <1>2, SMTT(30)

LEMMA ItemOf == ASSUME NEW S, NEW s \in Seq(S), NEW i \in 1 .. Len(s) PROVE s[i] \in S
  BY SMTT(30)

LEMMA CountFinite == \A n \in Nat : IsFiniteSet(1 .. n)
  BY FS_Interval, SMTT(30)

LEMMA CountNext ==
  \A n \in Nat : /\ n + 1 \in Nat /\ n + 1 \notin 1 .. n
                 /\ 1 .. n + 1 = (1 .. n) \union {n + 1}
  BY SMTT(30)

LEMMA FirstCounts == \A n \in Nat : n >= 1 => 1 \in 1 .. n
  BY SMTT(30)

LEMMA PlusZero == \A n \in Nat : n + 0 = n
  BY SMTT(30)

LEMMA FunctionIsSeq ==
  ASSUME NEW m \in Nat, NEW S, NEW f \in [1 .. m -> S]
  PROVE  IsSeq(f) /\ Len(f) = m
<1>1. f \in Seq(S) /\ Len(f) = m
  BY SMTT(30)
<1> QED
  BY <1>1 DEF IsSeq

-----------------------------------------------------------------------------
(* A task is in step with its connection. *)

Places == {"new", "read", "parse", "call", "wait", "respond", "write", "end", "closed"}
Names == {"requests", "errors", "inflight", "samples"}

Typed ==
    /\ pc \in [Conns -> Places]
    /\ sent \in [Conns -> Seq(Commands)]
    /\ arrived \in [Conns -> Nat] /\ parsed \in [Conns -> Nat]
    /\ IsFn(answers, Conns) /\ \A c \in Conns : IsSeq(answers[c])
    /\ phase \in [Conns -> {"idle", "called", "done"}]
    /\ metrics \in [Names -> Int]

\* How many answers a task has written, by where it is.
InStep(c) ==
    /\ parsed[c] <= arrived[c] /\ arrived[c] <= Len(sent[c])
    /\ pc[c] \in {"new", "read"} => Len(answers[c]) = parsed[c] /\ parsed[c] = arrived[c]
    /\ pc[c] = "parse" => Len(answers[c]) = parsed[c]
    /\ pc[c] \in {"call", "wait", "respond", "write"} => Len(answers[c]) = parsed[c] - 1
    /\ pc[c] = "end" => Len(answers[c]) = parsed[c] /\ parsed[c] >= 1
    /\ pc[c] = "closed" => Len(answers[c]) <= parsed[c]
    /\ phase[c] # "idle" <=> pc[c] = "wait"

Steady == Typed /\ \A c \in Conns : InStep(c)

LEMMA SteadyInit == Init => Steady
<1> SUFFICES ASSUME Init PROVE Steady
  OBVIOUS
<1>1. \A c \in Conns : IsSeq(answers[c]) /\ Len(answers[c]) = 0
  BY EmptyIsSeq DEF Init
<1>2. \A c \in Conns : sent[c] \in Seq(Commands) /\ Len(sent[c]) = 0
  BY SMTT(30) DEF Init
<1>3. Typed
  BY <1>1, SMTT(30) DEF Init, Typed, Places, Names, IsFn, Engine!Init
<1> QED
  BY <1>1, <1>2, <1>3, SMTT(30) DEF Init, Steady, InStep, Engine!Init

\* A step that leaves a connection's variables alone leaves it in step.
Quiet(c) ==
    /\ pc'[c] = pc[c] /\ sent'[c] = sent[c] /\ arrived'[c] = arrived[c]
    /\ parsed'[c] = parsed[c] /\ answers'[c] = answers[c]
    /\ phase'[c] # "idle" <=> phase[c] # "idle"

LEMMA QuietInStep ==
  ASSUME NEW c, InStep(c), Quiet(c)
  PROVE  InStep(c)'
  BY DEF InStep, Quiet

LEMMA ClientSteady ==
  ASSUME Steady, NEW c \in Conns,
         (\E a \in Commands : Send(c, a)) \/ Shutdown(c)
  PROVE  Steady'
<1>1. CASE \E a \in Commands : Send(c, a)
  <2>1. PICK a \in Commands : Send(c, a)
    BY <1>1
  <2>2. /\ Append(sent[c], a) \in Seq(Commands)
        /\ Len(Append(sent[c], a)) = Len(sent[c]) + 1 /\ Len(sent[c]) \in Nat
    BY SMTT(30) DEF Steady, Typed
  <2>3. Typed'
    BY <2>1, <2>2 DEF Send, Steady, Typed, engine, handler
  <2>4. InStep(c)'
    BY <2>1, <2>2, SMTT(30) DEF Send, Steady, Typed, InStep, engine, handler
  <2>5. ASSUME NEW d \in Conns, d # c PROVE InStep(d)'
    BY <2>1, <2>5, QuietInStep DEF Send, Steady, Typed, Quiet, engine, handler
  <2> QED
    BY <2>3, <2>4, <2>5 DEF Steady
<1>2. CASE Shutdown(c)
  BY <1>2 DEF Shutdown, Steady, Typed, InStep, engine, handler
<1> QED
  BY <1>1, <1>2

LEMMA Counts ==
  ASSUME NEW m \in [Names -> Int], NEW n, NEW x \in Names, NEW y \in Names, NEW z \in Names,
         NEW a \in Int, NEW b \in Int, NEW d \in Int,
         n = [m EXCEPT ![x] = a, ![y] = b, ![z] = d] \/ n = [m EXCEPT ![x] = a, ![y] = b]
  PROVE  n \in [Names -> Int]
<1>1. [m EXCEPT ![x] = a] \in [Names -> Int]
  OBVIOUS
<1>2. [m EXCEPT ![x] = a, ![y] = b] \in [Names -> Int]
  BY <1>1
<1>3. [m EXCEPT ![x] = a, ![y] = b, ![z] = d] \in [Names -> Int]
  BY <1>2
<1> QED
  BY <1>2, <1>3

\* Steps of the task c leave the other connections alone.
LEMMA TaskSteady ==
  ASSUME Steady, NEW c \in Conns, TaskStep(c) \/ ReadFail(c) \/ WriteFail(c)
  PROVE  Steady'
<1> USE DEF engine, stream, handler
<1>1. Len(answers[c]) \in Nat /\ Len(sent[c]) \in Nat
  BY SeqLength, SMTT(30) DEF Steady, Typed
<1>m. /\ metrics \in [Names -> Int]
      /\ metrics.requests + 1 \in Int /\ metrics.errors + 1 \in Int
      /\ metrics.inflight + 1 \in Int /\ metrics.inflight - 1 \in Int /\ metrics.samples + 1 \in Int
      /\ "requests" \in Names /\ "errors" \in Names /\ "inflight" \in Names /\ "samples" \in Names
  BY SMTT(30) DEF Steady, Typed, Names
<1>2. CASE Accept(c)
  <2>1. Typed'
    BY <1>2 DEF Accept, Goto, Steady, Typed, Places, Names
  <2>2. InStep(c)'
    BY <1>2, <1>1 DEF Accept, Goto, Steady, Typed, InStep
  <2>3. ASSUME NEW d \in Conns, d # c PROVE InStep(d)'
    BY <1>2, <2>3, QuietInStep DEF Accept, Goto, Steady, Typed, Quiet
  <2> QED
    BY <2>1, <2>2, <2>3 DEF Steady
<1>3. CASE Eof(c)
  <2>1. Typed'
    BY <1>3 DEF Eof, Goto, Steady, Typed, Places, Names
  <2>2. InStep(c)'
    BY <1>3, <1>1 DEF Eof, Goto, Steady, Typed, InStep
  <2>3. ASSUME NEW d \in Conns, d # c PROVE InStep(d)'
    BY <1>3, <2>3, QuietInStep DEF Eof, Goto, Steady, Typed, Quiet
  <2> QED
    BY <2>1, <2>2, <2>3 DEF Steady
<1>4. CASE ReadFail(c)
  <2>1. Typed'
    BY <1>4 DEF ReadFail, Goto, Steady, Typed, Places, Names
  <2>2. InStep(c)'
    BY <1>4, <1>1 DEF ReadFail, Goto, Steady, Typed, InStep
  <2>3. ASSUME NEW d \in Conns, d # c PROVE InStep(d)'
    BY <1>4, <2>3, QuietInStep DEF ReadFail, Goto, Steady, Typed, Quiet
  <2> QED
    BY <2>1, <2>2, <2>3 DEF Steady
<1>5. CASE ParseNone(c)
  <2>1. Typed'
    BY <1>5 DEF ParseNone, Goto, Steady, Typed, Places, Names
  <2>2. InStep(c)'
    BY <1>5, <1>1 DEF ParseNone, Goto, Steady, Typed, InStep
  <2>3. ASSUME NEW d \in Conns, d # c PROVE InStep(d)'
    BY <1>5, <2>3, QuietInStep DEF ParseNone, Goto, Steady, Typed, Quiet
  <2> QED
    BY <2>1, <2>2, <2>3 DEF Steady
<1>6. CASE WriteFail(c)
  <2>1. Typed'
    BY <1>6 DEF WriteFail, Goto, Steady, Typed, Places, Names
  <2>2. InStep(c)'
    BY <1>6, <1>1, SMTT(30) DEF WriteFail, Goto, Steady, Typed, InStep
  <2>3. ASSUME NEW d \in Conns, d # c PROVE InStep(d)'
    BY <1>6, <2>3, QuietInStep DEF WriteFail, Goto, Steady, Typed, Quiet
  <2> QED
    BY <2>1, <2>2, <2>3 DEF Steady
<1>7. CASE ParseError(c)
  <2>0. metrics' \in [Names -> Int]
    BY <1>7, <1>m, Counts DEF ParseError
  <2>1. Typed'
    BY <1>7, <2>0, SMTT(30) DEF ParseError, Goto, Steady, Typed, Places
  <2>2. InStep(c)'
    BY <1>7, <1>1, SMTT(30) DEF ParseError, Goto, Steady, Typed, InStep
  <2>3. ASSUME NEW d \in Conns, d # c PROVE InStep(d)'
    BY <1>7, <2>3, QuietInStep DEF ParseError, Goto, Steady, Typed, Quiet
  <2> QED
    BY <2>1, <2>2, <2>3 DEF Steady
<1>8. CASE Read(c)
  <2>1. Typed'
    BY <1>8, SMTT(30) DEF Read, Goto, Steady, Typed, Places, Names
  <2>2. InStep(c)'
    BY <1>8, <1>1, SMTT(30) DEF Read, Goto, Steady, Typed, InStep
  <2>3. ASSUME NEW d \in Conns, d # c PROVE InStep(d)'
    BY <1>8, <2>3, QuietInStep DEF Read, Goto, Steady, Typed, Quiet
  <2> QED
    BY <2>1, <2>2, <2>3 DEF Steady
<1>9. CASE ParseCommand(c)
  <2>0. metrics' \in [Names -> Int]
    BY <1>9, <1>m, Counts DEF ParseCommand
  <2>1. Typed'
    BY <1>9, <2>0, SMTT(30) DEF ParseCommand, Goto, Steady, Typed, Places
  <2>2. InStep(c)'
    BY <1>9, <1>1, SMTT(30) DEF ParseCommand, Goto, Steady, Typed, InStep
  <2>3. ASSUME NEW d \in Conns, d # c PROVE InStep(d)'
    BY <1>9, <2>3, QuietInStep DEF ParseCommand, Goto, Steady, Typed, Quiet
  <2> QED
    BY <2>1, <2>2, <2>3 DEF Steady
<1>10. CASE Call(c)
  <2>1. Typed'
    BY <1>10 DEF Call, Engine!Begin, Goto, Steady, Typed, Places, Names
  <2>2. InStep(c)'
    BY <1>10, <1>1 DEF Call, Engine!Begin, Goto, Steady, Typed, InStep
  <2>3. ASSUME NEW d \in Conns, d # c PROVE InStep(d)'
    BY <1>10, <2>3, QuietInStep DEF Call, Engine!Begin, Goto, Steady, Typed, Quiet
  <2> QED
    BY <2>1, <2>2, <2>3 DEF Steady
<1>11. CASE Return(c)
  <2>1. Typed'
    BY <1>11 DEF Return, Engine!Finish, Goto, Steady, Typed, Places, Names
  <2>2. InStep(c)'
    BY <1>11, <1>1 DEF Return, Engine!Finish, Goto, Steady, Typed, InStep
  <2>3. ASSUME NEW d \in Conns, d # c PROVE InStep(d)'
    BY <1>11, <2>3, QuietInStep DEF Return, Engine!Finish, Goto, Steady, Typed, Quiet
  <2> QED
    BY <2>1, <2>2, <2>3 DEF Steady
<1>12. CASE Respond(c)
  <2>0. metrics' \in [Names -> Int]
    BY <1>12, <1>m, SMTT(30) DEF Respond, ErrorsOf
  <2>1. Typed'
    BY <1>12, <2>0 DEF Respond, ErrorsOf, Goto, Steady, Typed, Places
  <2>2. InStep(c)'
    BY <1>12, <1>1 DEF Respond, ErrorsOf, Goto, Steady, Typed, InStep
  <2>3. ASSUME NEW d \in Conns, d # c PROVE InStep(d)'
    BY <1>12, <2>3, QuietInStep DEF Respond, ErrorsOf, Goto, Steady, Typed, Quiet
  <2> QED
    BY <2>1, <2>2, <2>3 DEF Steady
<1>13. CASE End(c)
  <2>0. metrics' \in [Names -> Int]
    BY <1>13, <1>m, Counts DEF End
  <2>1. Typed'
    BY <1>13, <2>0 DEF End, NextPlace, Goto, Steady, Typed, Places
  <2>2. InStep(c)'
    BY <1>13, <1>1, SMTT(30) DEF End, NextPlace, Goto, Steady, Typed, InStep
  <2>3. ASSUME NEW d \in Conns, d # c PROVE InStep(d)'
    BY <1>13, <2>3, QuietInStep DEF End, NextPlace, Goto, Steady, Typed, Quiet
  <2> QED
    BY <2>1, <2>2, <2>3 DEF Steady
<1>14. CASE Write(c)
  <2> DEFINE e == [reply |-> reply[c], engine |-> said[c]]
  <2>1. IsSeq(Append(answers[c], e)) /\ Len(Append(answers[c], e)) = Len(answers[c]) + 1
    BY AppendIsSeq DEF Steady, Typed
  <2> HIDE DEF e
  <2>2. answers' = [answers EXCEPT ![c] = Append(@, e)]
    BY <1>14 DEF Write, e
  <2>3. Typed'
    BY <1>14, <2>1, <2>2 DEF Write, Goto, Steady, Typed, Places, IsFn
  <2>4. InStep(c)'
    BY <1>14, <1>1, <2>1, <2>2, SMTT(30) DEF Write, Goto, Steady, Typed, InStep, IsFn
  <2>5. ASSUME NEW d \in Conns, d # c PROVE InStep(d)'
    BY <1>14, <2>2, <2>5, QuietInStep DEF Write, Goto, Steady, Typed, Quiet, IsFn
  <2> QED
    BY <2>3, <2>4, <2>5 DEF Steady
<1> QED
  BY <1>2, <1>3, <1>4, <1>5, <1>6, <1>7, <1>8, <1>9, <1>10, <1>11, <1>12, <1>13, <1>14 DEF TaskStep

LEMMA EngineSteady ==
  ASSUME Steady, (\E c \in Conns : EngineServes(c)) \/ EngineTime
  PROVE  Steady'
<1> USE DEF stream, handler
<1>1. CASE \E c \in Conns : EngineServes(c)
  <2>1. PICK c \in Conns : EngineServes(c)
    BY <1>1
  <2>2. phase[c] = "called" /\ phase' = [phase EXCEPT ![c] = "done"]
    BY <2>1 DEF EngineServes, Engine!Get, Engine!Delete, Engine!Expire, Engine!Ttl,
         Engine!Set, Engine!Miss, Engine!Effect
  <2>3. Typed'
    BY <2>1, <2>2 DEF EngineServes, Steady, Typed
  <2>4. \A d \in Conns : Quiet(d)
    BY <2>1, <2>2 DEF EngineServes, Steady, Typed, Quiet
  <2> QED
    BY <2>3, <2>4, QuietInStep DEF Steady
<1>2. CASE EngineTime
  BY <1>2 DEF EngineTime, Engine!Lapse, Engine!Tick, Steady, Typed, InStep
<1> QED
  BY <1>1, <1>2

LEMMA SteadyNext == Steady /\ [Next]_vars => Steady'
<1> SUFFICES ASSUME Steady, [Next]_vars PROVE Steady'
  OBVIOUS
<1>1. CASE UNCHANGED vars
  BY <1>1 DEF vars, engine, stream, Steady, Typed, InStep
<1> QED
  BY <1>1, ClientSteady, TaskSteady, EngineSteady DEF Next

\* A task has parsed no more than the socket delivered and written no more answers
\* than it has parsed commands, and is in the engine exactly while it waits for it.
THEOREM ServerTyped == Spec => []TypeOK
<1>1. Steady => TypeOK
  <2> SUFFICES ASSUME Steady PROVE TypeOK
    OBVIOUS
  <2>1. \A c \in Conns : Len(answers[c]) \in Nat
    BY SeqLength DEF Steady, Typed
  <2>2. \A c \in Conns : Len(answers[c]) <= parsed[c] /\ parsed[c] <= arrived[c]
                           /\ arrived[c] <= Len(sent[c])
    <3> SUFFICES ASSUME NEW c \in Conns PROVE Len(answers[c]) <= parsed[c]
      BY DEF Steady, InStep
    <3> pc[c] \in Places /\ parsed[c] \in Nat /\ Len(answers[c]) \in Nat /\ InStep(c)
      BY <2>1 DEF Steady, Typed
    <3> QED
      BY SMTT(30) DEF InStep, Places
  <2> QED
    BY <2>2 DEF Steady, Typed, InStep, Places, Names, TypeOK
<1> QED
  BY <1>1, SteadyInit, SteadyNext, PTL DEF Spec

\* A task that waits for more bytes, and so one that finds the end of the stream,
\* has answered every command that it was given, pipelined ones included.
THEOREM AnsweredBeforeRead == Spec => []EofAfterAnswers
<1>1. Steady => EofAfterAnswers
  BY DEF Steady, Typed, InStep, EofAfterAnswers
<1> QED
  BY <1>1, SteadyInit, SteadyNext, PTL DEF Spec

-----------------------------------------------------------------------------
(* A value that SET EX has stored without a deadline is owed one. *)

Expiring(x, k) == x.op = "expire" /\ x.key = k /\ x.ttl \in Nat
Harmless(x) == x.op \in {"get", "delete", "ttl"} \/ Expiring(x, x.key)

\* A plain SET of k is among the commands of c.
Plain(c, k) ==
    \E i \in Taken(c, parsed[c]) :
        IsSet(sent[c][i]) /\ Len(sent[c][i]) = 3 /\ sent[c][i][2] = k

\* The handler of c will give k a deadline.
Owes(c, k) == Len(calls[c]) = 1 /\ Expiring(calls[c][1], k)
Owed(k) ==
    \E c \in Conns :
        \/ pc[c] \in {"call", "wait"} /\ Owes(c, k)
        \/ pc[c] = "wait" /\ phase[c] = "called" /\ Expiring(call[c], k)

\* The calls a handler has to make, and the one it is making: a set belongs to a
\* plain SET or is followed by its expire.
Handles(c) ==
    /\ pc[c] = "call" =>
         /\ IsSeq(calls[c]) /\ calls[c] # <<>>
         /\ \A i \in 2 .. Len(calls[c]) : Harmless(calls[c][i])
         /\ \/ Harmless(calls[c][1])
            \/ Plain(c, calls[c][1].key)
            \/ Len(calls[c]) = 2 /\ Expiring(calls[c][2], calls[c][1].key)
    /\ pc[c] = "wait" =>
         /\ IsSeq(calls[c])
         /\ \A i \in 1 .. Len(calls[c]) : Harmless(calls[c][i])
         /\ phase[c] = "called" =>
              \/ Harmless(call[c]) \/ Plain(c, call[c].key) \/ Owes(c, call[c].key)

Debt(k) ==
    store[k] # Absent /\ store[k].expires_at = None
    => Owed(k) \/ \E c \in Conns : Plain(c, k)

IsEntry(e) == e = [value |-> e.value, expires_at |-> e.expires_at]

Indebted ==
    /\ clock \in Nat /\ since \in [Conns -> Nat]
    /\ IsFn(call, Conns) /\ IsFn(calls, Conns) /\ IsFn(store, Keys)
    /\ \A k \in Keys : store[k] # Absent => IsEntry(store[k])
    /\ \A c \in Conns : Handles(c)
    /\ \A k \in Keys : Debt(k)

\* An instant plus a TTL is never Option::None.
LEMMA SumIsSome == \A n, t \in Nat : n + t # None
  BY ServerAssumption, SMTT(30)

LEMMA IndebtedInit == Init => Indebted
  BY SMTT(30) DEF Init, Engine!Init, Indebted, Handles, Debt, IsFn

\* What a connection has parsed is never taken back.
LEMMA ParsedGrows ==
  ASSUME Steady, [Next]_vars, NEW c \in Conns
  PROVE  /\ parsed'[c] \in Nat /\ parsed'[c] >= parsed[c]
         /\ \A i \in 1 .. Len(sent[c]) : sent'[c][i] = sent[c][i]
<1> USE DEF engine, stream, handler
<1>0. parsed \in [Conns -> Nat] /\ sent \in [Conns -> Seq(Commands)]
  BY DEF Steady, Typed
<1>1. ASSUME NEW d \in Conns, NEW a \in Commands, Send(d, a)
      PROVE  \A i \in 1 .. Len(sent[c]) : sent'[c][i] = sent[c][i]
  <2>1. \A i \in 1 .. Len(sent[d]) : Append(sent[d], a)[i] = sent[d][i]
    BY <1>0, SMTT(30)
  <2> QED
    BY <1>0, <1>1, <2>1 DEF Send
<1>2. ASSUME NEW d \in Conns, ParseCommand(d) \/ ParseError(d)
      PROVE  parsed'[c] \in Nat /\ parsed'[c] >= parsed[c] /\ sent' = sent
  BY <1>0, <1>2, SMTT(30) DEF ParseCommand, ParseError
<1>3. \/ \E d \in Conns : (\E a \in Commands : Send(d, a)) \/ ParseCommand(d) \/ ParseError(d)
      \/ sent' = sent /\ parsed' = parsed
  BY ZenonT(30) DEF Next, vars, Shutdown, ReadFail, WriteFail, TaskStep, EngineServes, EngineTime,
         Accept, Read, Eof, ParseNone, Call, Return, Respond, Write, End
<1>4. ASSUME NEW d \in Conns, NEW a \in Commands, Send(d, a) PROVE parsed' = parsed
  BY <1>4 DEF Send
<1> QED
  BY <1>0, <1>1, <1>2, <1>3, <1>4, SMTT(30)

LEMMA PlainStays ==
  ASSUME Steady, [Next]_vars, NEW c \in Conns, NEW k, Plain(c, k)
  PROVE  Plain(c, k)'
<1>1. PICK i \in Taken(c, parsed[c]) :
        IsSet(sent[c][i]) /\ Len(sent[c][i]) = 3 /\ sent[c][i][2] = k
  BY DEF Plain
<1>2. i \in 1 .. parsed[c] /\ parsed[c] \in Nat /\ parsed[c] <= Len(sent[c])
      /\ Len(sent[c]) \in Nat
  BY <1>1, SMTT(30) DEF Steady, Typed, InStep, Taken
<1>3. sent'[c][i] = sent[c][i] /\ i \in 1 .. parsed'[c]
  BY <1>2, ParsedGrows, SMTT(30)
<1> QED
  BY <1>1, <1>3 DEF Plain, Taken, IsSet

\* A step outside handlers' calls, by which the store at most loses entries.
Calm ==
    /\ UNCHANGED <<phase, call, since, calls>>
    /\ \A c \in Conns : /\ pc'[c] = "call" <=> pc[c] = "call"
                        /\ pc'[c] = "wait" <=> pc[c] = "wait"
    /\ clock' \in Nat /\ IsFn(store, Keys)'
    /\ \A k \in Keys : store'[k] \in {store[k], Absent}

LEMMA HandlesStays ==
  ASSUME Steady, [Next]_vars, NEW c \in Conns, Handles(c),
         calls'[c] = calls[c], call'[c] = call[c], phase'[c] = "called" => phase[c] = "called",
         pc'[c] = "call" => pc[c] = "call", pc'[c] = "wait" => pc[c] = "wait"
  PROVE  Handles(c)'
  BY PlainStays DEF Handles, Owes, Harmless, Expiring

LEMMA CalmKeeps ==
  ASSUME Steady, [Next]_vars, Indebted, Calm
  PROVE  Indebted'
<1>1. ASSUME NEW c \in Conns PROVE Handles(c)'
  BY <1>1, HandlesStays DEF Calm, Indebted
<1>2. ASSUME NEW k \in Keys PROVE Debt(k)'
  <2>1. Owed(k) => Owed(k)'
    BY DEF Calm, Owed, Owes, Expiring
  <2> QED
    BY <2>1, PlainStays DEF Calm, Indebted, Debt
<1> QED
  BY <1>1, <1>2 DEF Calm, Indebted, IsEntry

\* The calls of a command.
LEMMA CallsOfCommand ==
  ASSUME NEW a \in Seq(STRING), CallsOf(a) # <<>>
  PROVE  /\ IsSeq(CallsOf(a))
         /\ \A i \in 2 .. Len(CallsOf(a)) : Harmless(CallsOf(a)[i])
         /\ \/ Harmless(CallsOf(a)[1])
            \/ IsSet(a) /\ Len(a) = 3 /\ CallsOf(a)[1].key = a[2]
            \/ Len(CallsOf(a)) = 2 /\ Expiring(CallsOf(a)[2], CallsOf(a)[1].key)
<1> DEFINE n == Len(a)
<1>0. n \in Nat
  BY SMTT(30)
<1>t. ASSUME NEW x, IsNumber(x) PROVE Numerals[x] * TicksPerSec \in Nat
  BY <1>t, ServerAssumption, SMTT(30) DEF IsNumber
<1>o. ASSUME NEW x, Harmless(x), CallsOf(a) = <<x>>
      PROVE  /\ IsSeq(CallsOf(a)) /\ Harmless(CallsOf(a)[1])
             /\ \A i \in 2 .. Len(CallsOf(a)) : Harmless(CallsOf(a)[i])
  BY <1>o, OneIsSeq, SMTT(30)
<1>1. CASE n = 2 /\ a[1] = "GET"
  <2>1. CallsOf(a) = <<[op |-> "get", key |-> a[2]]>>
    BY <1>1 DEF CallsOf
  <2> QED
    BY <1>o, <2>1 DEF Harmless
<1>2. CASE n = 3 /\ a[1] = "SET"
  <2>1. CallsOf(a) = <<[op |-> "set", key |-> a[2], value |-> a[3]]>>
    BY <1>2, SMTT(30) DEF CallsOf
  <2> DEFINE x == [op |-> "set", key |-> a[2], value |-> a[3]]
  <2>2. x.key = a[2]
    OBVIOUS
  <2>3. CallsOf(a) = <<x>>
    BY <2>1
  <2>4. IsSet(a)
    BY <1>2 DEF IsSet
  <2> HIDE DEF x
  <2> QED
    BY <1>2, <2>2, <2>3, <2>4, OneIsSeq, SMTT(30)
<1>3. CASE n = 5 /\ a[1] = "SET" /\ a[4] = "EX" /\ IsNumber(a[5])
  <2> DEFINE x == [op |-> "set", key |-> a[2], value |-> a[3]]
             y == [op |-> "expire", key |-> a[2], ttl |-> Numerals[a[5]] * TicksPerSec]
  <2>1. CallsOf(a) = <<x, y>>
    BY <1>3, SMTT(30) DEF CallsOf, SetEx
  <2>3. Expiring(y, x.key) /\ Harmless(y)
    BY <1>3, <1>t DEF Expiring, Harmless
  <2> HIDE DEF x, y
  <2> QED
    BY <2>1, <2>3, TwoIsSeq, SMTT(30)
<1>4. CASE n >= 2 /\ a[1] = "DEL"
  <2> DEFINE f == [i \in 1 .. n - 1 |-> [op |-> "delete", key |-> a[i + 1]]]
             S == {[op |-> "delete", key |-> a[i + 1]] : i \in 1 .. n - 1}
  <2>1. CallsOf(a) = f
    BY <1>4 DEF CallsOf
  <2>2. n - 1 \in Nat /\ f \in [1 .. n - 1 -> S]
    BY <1>0, <1>4, SMTT(30)
  <2>3. IsSeq(f) /\ Len(f) = n - 1
    <3> HIDE DEF f, S, n
    <3> QED
      BY <2>2, FunctionIsSeq
  <2>4. \A i \in 1 .. n - 1 : Harmless(f[i])
    BY DEF Harmless
  <2> HIDE DEF f, S, n
  <2> QED
    BY <1>0, <1>4, <2>1, <2>3, <2>4, SMTT(30)
<1>5. CASE n = 3 /\ a[1] = "EXPIRE" /\ IsNumber(a[3])
  <2> DEFINE y == [op |-> "expire", key |-> a[2], ttl |-> Numerals[a[3]] * TicksPerSec]
  <2>1. CallsOf(a) = <<y>>
    BY <1>5 DEF CallsOf
  <2>2. Harmless(y)
    BY <1>5, <1>t DEF Expiring, Harmless
  <2> QED
    BY <1>o, <2>1, <2>2
<1>6. CASE n = 2 /\ a[1] = "TTL"
  <2>1. CallsOf(a) = <<[op |-> "ttl", key |-> a[2]]>>
    BY <1>6 DEF CallsOf
  <2> QED
    BY <1>o, <2>1 DEF Harmless
<1> QED
  BY <1>1, <1>2, <1>3, <1>4, <1>5, <1>6 DEF CallsOf

LEMMA ParseKeeps ==
  ASSUME Steady, Indebted, NEW c \in Conns, ParseCommand(c)
  PROVE  Indebted'
<1>0. [Next]_vars
  BY DEF Next, TaskStep
<1>a. PICK a : a = sent[c][parsed[c] + 1]
  OBVIOUS
<1>1. /\ pc[c] = "parse" /\ parsed[c] + 1 \in 1 .. Len(sent[c]) /\ a \in Seq(STRING)
      /\ parsed'[c] = parsed[c] + 1 /\ sent' = sent /\ a # Malformed
  BY <1>a, ServerAssumption, SMTT(30) DEF ParseCommand, Steady, Typed, InStep
<1>2. /\ calls' = [calls EXCEPT ![c] = CallsOf(a)]
      /\ pc' = [pc EXCEPT ![c] = IF CallsOf(a) = <<>> THEN "respond" ELSE "call"]
      /\ UNCHANGED <<store, phase, call, since, clock>>
  BY <1>a DEF ParseCommand, Goto, engine
<1>3. /\ calls'[c] = CallsOf(a) /\ pc'[c] = IF CallsOf(a) = <<>> THEN "respond" ELSE "call"
      /\ \A d \in Conns : d # c => pc'[d] = pc[d] /\ calls'[d] = calls[d]
      /\ IsFn(calls, Conns)'
  BY <1>2 DEF Steady, Typed, Indebted, IsFn
<1>4. Handles(c)'
  <2>1. CASE CallsOf(a) = <<>>
    BY <1>3, <2>1 DEF Handles
  <2>2. CASE CallsOf(a) # <<>>
    <3>1. IsSet(a) /\ Len(a) = 3 => Plain(c, a[2])'
      <4> SUFFICES ASSUME IsSet(a), Len(a) = 3 PROVE Plain(c, a[2])'
        OBVIOUS
      <4>1. a # <<>>
        BY EmptyIsSeq, SMTT(30)
      <4>2. parsed'[c] \in 1 .. parsed'[c] /\ sent'[c][parsed'[c]] = a
        BY <1>1, <1>a, SMTT(30)
      <4>3. parsed'[c] \in Taken(c, parsed[c])'
        BY <1>1, <4>1, <4>2 DEF Taken
      <4> QED
        BY <4>2, <4>3 DEF Plain, IsSet
    <3>2. IsSet(a) /\ Len(a) = 3 /\ CallsOf(a)[1].key = a[2] => Plain(c, CallsOf(a)[1].key)'
      BY <3>1
    <3> QED
      BY <1>1, <1>3, <2>2, <3>2, CallsOfCommand, ZenonT(30) DEF Handles, Harmless, Expiring
  <2> QED
    BY <2>1, <2>2
<1>5. ASSUME NEW d \in Conns, d # c PROVE Handles(d)'
  BY <1>0, <1>2, <1>3, <1>5, HandlesStays DEF Indebted
<1>6. ASSUME NEW k \in Keys PROVE Debt(k)'
  <2>1. Owed(k) => Owed(k)'
    BY <1>1, <1>2, <1>3, ZenonT(30) DEF Owed, Owes, Expiring
  <2> QED
    BY <1>0, <1>2, <2>1, PlainStays DEF Indebted, Debt
<1> QED
  BY <1>2, <1>3, <1>4, <1>5, <1>6 DEF Indebted, IsFn, IsEntry

LEMMA CallKeeps ==
  ASSUME Steady, Indebted, NEW c \in Conns, Call(c)
  PROVE  Indebted'
<1>0. [Next]_vars
  BY DEF Next, TaskStep
<1>x. PICK x, s : x = Head(calls[c]) /\ s = Tail(calls[c])
  OBVIOUS
<1>1. /\ pc[c] = "call" /\ pc' = [pc EXCEPT ![c] = "wait"]
      /\ calls' = [calls EXCEPT ![c] = s] /\ call' = [call EXCEPT ![c] = x]
      /\ phase' = [phase EXCEPT ![c] = "called"]
      /\ since' \in {since, [since EXCEPT ![c] = clock]}
      /\ UNCHANGED <<store, clock, sent, parsed>>
  BY <1>x DEF Call, Engine!Begin, Goto, stream
<1>2. Handles(c) /\ IsSeq(calls[c]) /\ calls[c] # <<>>
  BY <1>1 DEF Indebted, Handles
<1>3. /\ IsSeq(s) /\ Len(s) = Len(calls[c]) - 1 /\ Len(calls[c]) \in Nat /\ Len(calls[c]) >= 1
      /\ x = calls[c][1] /\ \A i \in 1 .. Len(calls[c]) - 1 : s[i] = calls[c][i + 1]
  BY <1>2, <1>x, TailIsSeq
<1>4. /\ pc'[c] = "wait" /\ calls'[c] = s /\ call'[c] = x /\ phase'[c] = "called"
      /\ \A d \in Conns : d # c => /\ pc'[d] = pc[d] /\ calls'[d] = calls[d]
                                   /\ call'[d] = call[d] /\ phase'[d] = phase[d]
      /\ IsFn(calls, Conns)' /\ IsFn(call, Conns)' /\ since' \in [Conns -> Nat]
  BY <1>1, ZenonT(30) DEF Steady, Typed, Indebted, IsFn
<1>5. Handles(c)'
  <2>1. \A i \in 1 .. Len(s) : Harmless(s[i])
    <3> SUFFICES ASSUME NEW i \in 1 .. Len(s) PROVE Harmless(s[i])
      OBVIOUS
    <3>1. i + 1 \in 2 .. Len(calls[c]) /\ s[i] = calls[c][i + 1]
      BY <1>3, SMTT(30)
    <3> QED
      BY <1>1, <1>2, <3>1 DEF Handles
  <2>2. Plain(c, x.key) => Plain(c, x.key)'
    BY <1>0, PlainStays
  <2>3. Len(calls[c]) = 2 => Len(s) = 1 /\ s[1] = calls[c][2]
    BY <1>3, SMTT(30)
  <2>4. Harmless(x) \/ Plain(c, x.key)' \/ (Len(s) = 1 /\ Expiring(s[1], x.key))
    BY <1>1, <1>2, <1>3, <2>2, <2>3 DEF Handles
  <2> QED
    BY <1>3, <1>4, <2>1, <2>4 DEF Handles, Owes, Harmless, Expiring
<1>6. ASSUME NEW d \in Conns, d # c PROVE Handles(d)'
  BY <1>0, <1>4, <1>6, HandlesStays DEF Indebted
<1>7. ASSUME NEW k \in Keys PROVE Debt(k)'
  <2>1. ASSUME Owed(k) PROVE Owed(k)'
    <3>1. PICK d \in Conns : \/ pc[d] \in {"call", "wait"} /\ Owes(d, k)
                             \/ pc[d] = "wait" /\ phase[d] = "called" /\ Expiring(call[d], k)
      BY <2>1 DEF Owed
    <3>2. CASE d = c
      BY <1>1, <1>3, <1>4, <3>1, <3>2, SMTT(30) DEF Owed, Owes, Expiring
    <3>3. CASE d # c
      BY <1>4, <3>1, <3>3 DEF Owed, Owes, Expiring
    <3> QED
      BY <3>2, <3>3
  <2> QED
    BY <1>0, <1>1, <2>1, PlainStays DEF Indebted, Debt
<1> QED
  BY <1>1, <1>4, <1>5, <1>6, <1>7 DEF Indebted, IsFn, IsEntry

LEMMA ReturnKeeps ==
  ASSUME Steady, Indebted, NEW c \in Conns, Return(c)
  PROVE  Indebted'
<1>0. [Next]_vars
  BY DEF Next, TaskStep
<1>1. /\ pc[c] = "wait" /\ phase[c] = "done"
      /\ \/ calls[c] # <<>> /\ pc' = [pc EXCEPT ![c] = "call"]
         \/ calls[c] = <<>> /\ pc' = [pc EXCEPT ![c] = "respond"]
      /\ call' = [call EXCEPT ![c] = Engine!NoCall]
      /\ phase' = [phase EXCEPT ![c] = "idle"]
      /\ since' = [since EXCEPT ![c] = 0]
      /\ UNCHANGED <<store, clock, calls>>
  BY DEF Return, Engine!Finish, Goto
<1>2. /\ \/ calls[c] # <<>> /\ pc'[c] = "call"
         \/ calls[c] = <<>> /\ pc'[c] = "respond"
      /\ \A d \in Conns : d # c => /\ pc'[d] = pc[d] /\ call'[d] = call[d]
                                   /\ phase'[d] = phase[d]
      /\ IsFn(call, Conns)' /\ since' \in [Conns -> Nat]
  BY <1>1 DEF Steady, Typed, Indebted, IsFn
<1>3. /\ IsSeq(calls[c]) /\ Len(calls[c]) \in Nat
      /\ \A i \in 1 .. Len(calls[c]) : Harmless(calls[c][i])
  BY <1>1, SeqLength DEF Indebted, Handles
<1>4. Handles(c)'
  <2>1. CASE calls[c] = <<>>
    BY <1>2, <2>1 DEF Handles
  <2>2. CASE calls[c] # <<>>
    <3>1. Len(calls[c]) >= 1
      BY <1>3, <2>2, TailIsSeq
    <3>2. 1 \in 1 .. Len(calls[c]) /\ \A i \in 2 .. Len(calls[c]) : i \in 1 .. Len(calls[c])
      BY <1>3, <3>1, SMTT(30)
    <3> QED
      BY <1>1, <1>2, <1>3, <2>2, <3>2 DEF Handles, Harmless, Expiring
  <2> QED
    BY <2>1, <2>2
<1>5. ASSUME NEW d \in Conns, d # c PROVE Handles(d)'
  BY <1>0, <1>1, <1>2, <1>5, HandlesStays DEF Indebted
<1>6. ASSUME NEW k \in Keys PROVE Debt(k)'
  <2>1. ASSUME Owed(k) PROVE Owed(k)'
    <3>1. PICK d \in Conns : \/ pc[d] \in {"call", "wait"} /\ Owes(d, k)
                             \/ pc[d] = "wait" /\ phase[d] = "called" /\ Expiring(call[d], k)
      BY <2>1 DEF Owed
    <3>2. CASE d = c
      <4>1. calls[c] # <<>> /\ Owes(c, k)
        BY <1>1, <3>1, <3>2, EmptyIsSeq, SMTT(30) DEF Owes
      <4> QED
        BY <1>1, <1>2, <4>1 DEF Owed, Owes, Expiring
    <3>3. CASE d # c
      BY <1>1, <1>2, <3>1, <3>3 DEF Owed, Owes, Expiring
    <3> QED
      BY <3>2, <3>3
  <2> QED
    BY <1>0, <1>1, <2>1, PlainStays DEF Indebted, Debt
<1> QED
  BY <1>1, <1>2, <1>4, <1>5, <1>6 DEF Indebted, IsFn, IsEntry

\* What the engine does for a call of c on the entry under k.
LEMMA ServesOneKey ==
  ASSUME Steady, Indebted, NEW c \in Conns, EngineServes(c), NEW k \in Keys
  PROVE  /\ IsFn(store, Keys)' /\ phase[c] = "called"
         /\ phase' = [phase EXCEPT ![c] = "done"]
         /\ UNCHANGED <<call, since, clock, pc, calls>>
         /\ \/ store'[k] \in {store[k], Absent}
            \/ /\ call[c].op = "set" /\ call[c].key = k
               /\ store'[k] = [value |-> call[c].value, expires_at |-> None]
            \/ /\ call[c].op = "expire" /\ call[c].key = k
               /\ IsEntry(store'[k])
               /\ \E n \in Nat : store'[k].expires_at = n + call[c].ttl
<1> USE DEF handler
<1>0. /\ store = [j \in Keys |-> store[j]]
      /\ UNCHANGED <<pc, calls>>
  BY DEF Indebted, IsFn, EngineServes
<1>1. CASE Engine!Set(c)
  BY <1>0, <1>1 DEF Engine!Set, Engine!Effect, IsFn
<1>2. ASSUME NEW n \in since[c] .. clock, Engine!Get(c, n) \/ Engine!Delete(c, n) \/ Engine!Ttl(c, n)
      PROVE  /\ IsFn(store, Keys)' /\ phase[c] = "called"
             /\ phase' = [phase EXCEPT ![c] = "done"] /\ UNCHANGED <<call, since, clock>>
             /\ store'[k] \in {store[k], Absent}
  BY <1>0, <1>2 DEF Engine!Get, Engine!Delete, Engine!Ttl, Engine!Miss, Engine!Effect, IsFn
<1>3. ASSUME NEW n \in since[c] .. clock, Engine!Expire(c, n)
      PROVE  /\ IsFn(store, Keys)' /\ phase[c] = "called"
             /\ phase' = [phase EXCEPT ![c] = "done"] /\ UNCHANGED <<call, since, clock>>
             /\ \/ store'[k] \in {store[k], Absent}
                \/ /\ call[c].op = "expire" /\ call[c].key = k
                   /\ IsEntry(store'[k])
                   /\ store'[k].expires_at = n + call[c].ttl
  <2>1. CASE Engine!Miss(c, n, <<"NotFound">>)
    BY <1>0, <2>1 DEF Engine!Miss, Engine!Effect, IsFn
  <2>2. CASE Engine!Present(call[c].key, n)
             /\ Engine!Effect(c, [store EXCEPT ![call[c].key].expires_at = n + call[c].ttl], <<"Ok">>)
    <3>1. store' = [store EXCEPT ![call[c].key].expires_at = n + call[c].ttl]
      BY <2>2 DEF Engine!Effect
    <3>2. store' = [j \in Keys |-> IF j = call[c].key
                                    THEN [store[j] EXCEPT !.expires_at = n + call[c].ttl]
                                    ELSE store[j]]
      BY <1>0, <3>1
    <3>3. CASE call[c].key = k
      <4>1. IsEntry(store[k])
        BY <2>2, <3>3 DEF Engine!Present, Indebted
      <4>2. store'[k] = [store[k] EXCEPT !.expires_at = n + call[c].ttl]
        BY <3>2, <3>3
      <4>3. store'[k] = [value |-> store[k].value, expires_at |-> n + call[c].ttl]
        BY <4>1, <4>2 DEF IsEntry
      <4> QED
        BY <1>3, <2>2, <3>2, <3>3, <4>3 DEF Engine!Expire, Engine!Effect, IsFn, IsEntry
    <3>4. CASE call[c].key # k
      BY <2>2, <3>2, <3>4 DEF Engine!Effect, IsFn
    <3> QED
      BY <3>3, <3>4
  <2> QED
    BY <1>3, <2>1, <2>2 DEF Engine!Expire
<1>4. \A n \in since[c] .. clock : n \in Nat
  BY SMTT(30) DEF Indebted
<1> QED
  BY <1>0, <1>1, <1>2, <1>3, <1>4 DEF EngineServes

LEMMA ServesKeeps ==
  ASSUME Steady, Indebted, NEW c \in Conns, EngineServes(c)
  PROVE  Indebted'
<1>0. [Next]_vars
  BY DEF Next
<1>1. /\ pc[c] = "wait" /\ phase[c] = "called" /\ phase' = [phase EXCEPT ![c] = "done"]
      /\ UNCHANGED <<call, since, clock, pc, calls>>
  <2>1. phase[c] = "called" /\ phase' = [phase EXCEPT ![c] = "done"]
        /\ UNCHANGED <<call, since, clock, pc, calls>>
    BY DEF EngineServes, Engine!Get, Engine!Delete, Engine!Expire, Engine!Ttl, Engine!Set,
           Engine!Miss, Engine!Effect, handler
  <2> QED
    BY <2>1 DEF Steady, Typed, InStep
<1>2. ASSUME NEW d \in Conns PROVE Handles(d)'
  BY <1>0, <1>1, <1>2, HandlesStays DEF Indebted, Steady, Typed
<1>3. ASSUME NEW k \in Keys PROVE Debt(k)' /\ (store'[k] # Absent => IsEntry(store'[k]))
  <2>1. /\ store'[k] # Absent /\ store'[k].expires_at = None =>
             \/ store'[k] = store[k] \/ Owes(c, k) \/ Plain(c, k)
        /\ store'[k] # Absent => IsEntry(store'[k])
    <3>1. CASE store'[k] \in {store[k], Absent}
      BY <3>1 DEF Indebted
    <3>2. CASE /\ call[c].op = "set" /\ call[c].key = k
               /\ store'[k] = [value |-> call[c].value, expires_at |-> None]
      BY <1>1, <3>2 DEF Indebted, Handles, Harmless, Expiring, IsEntry
    <3>3. CASE /\ call[c].op = "expire" /\ call[c].key = k /\ IsEntry(store'[k])
               /\ \E n \in Nat : store'[k].expires_at = n + call[c].ttl
      <4>1. Harmless(call[c]) => store'[k].expires_at # None
        BY <3>3, SumIsSome DEF Harmless, Expiring
      <4> QED
        BY <1>1, <3>3, <4>1 DEF Indebted, Handles
    <3> QED
      BY <3>1, <3>2, <3>3, ServesOneKey
  <2>2. Owes(c, k) => Owed(k)'
    BY <1>1 DEF Owed, Owes, Expiring
  <2>3. ASSUME Owed(k), store'[k] # Absent, store'[k].expires_at = None, store'[k] = store[k]
        PROVE  Owed(k)' \/ Plain(c, k)
    <3>1. PICK d \in Conns : \/ pc[d] \in {"call", "wait"} /\ Owes(d, k)
                             \/ pc[d] = "wait" /\ phase[d] = "called" /\ Expiring(call[d], k)
      BY <2>3 DEF Owed
    <3>2. CASE pc[d] \in {"call", "wait"} /\ Owes(d, k)
      BY <1>1, <3>2 DEF Owed, Owes, Expiring
    <3>3. CASE d # c /\ pc[d] = "wait" /\ phase[d] = "called" /\ Expiring(call[d], k)
      BY <1>1, <3>3 DEF Owed, Expiring, Steady, Typed
    <3>4. CASE d = c /\ Expiring(call[c], k)
      <4>1. /\ call[c].op = "expire" /\ call[c].key = k /\ call[c].ttl \in Nat
            /\ store[k] # Absent /\ store[k].expires_at = None
        BY <2>3, <3>4 DEF Expiring
      <4>2. PICK n \in since[c] .. clock : Engine!Expire(c, n)
        BY <4>1 DEF EngineServes, Engine!Get, Engine!Delete, Engine!Ttl, Engine!Set
      <4>3. store' = [store EXCEPT ![k].expires_at = n + call[c].ttl]
        BY <4>1, <4>2 DEF Engine!Expire, Engine!Miss, Engine!Effect, Engine!Present, Engine!Lapsed
      <4>4. n \in Nat /\ n + call[c].ttl # None
        <5>1. clock \in Nat /\ since[c] \in Nat
          BY DEF Indebted
        <5>2. n \in Nat
          BY <5>1, SMTT(30)
        <5> QED
          BY <4>1, <5>2, SumIsSome
      <4>5. IsEntry(store[k]) /\ IsFn(store, Keys)
        BY <4>1 DEF Indebted
      <4>6. store'[k] = [store[k] EXCEPT !.expires_at = n + call[c].ttl]
        BY <4>3, <4>5 DEF IsFn
      <4>7. store'[k].expires_at = n + call[c].ttl
        BY <4>5, <4>6 DEF IsEntry
      <4> QED
        BY <2>3, <4>4, <4>7
    <3> QED
      BY <3>1, <3>2, <3>3, <3>4
  <2> QED
    BY <1>0, <2>1, <2>2, <2>3, PlainStays DEF Indebted, Debt
<1>4. IsFn(store, Keys)'
  BY DEF EngineServes, Engine!Get, Engine!Delete, Engine!Expire, Engine!Ttl, Engine!Set,
         Engine!Miss, Engine!Effect, Indebted, IsFn
<1> QED
  BY <1>1, <1>2, <1>3, <1>4 DEF Indebted, IsFn, IsEntry

LEMMA CalmSteps ==
  ASSUME Steady, Indebted, [Next]_vars
  PROVE  \/ Calm
         \/ \E c \in Conns : ParseCommand(c) \/ Call(c) \/ Return(c) \/ EngineServes(c)
<1> USE DEF engine, stream, handler
<1>0. pc \in [Conns -> Places] /\ clock \in Nat /\ IsFn(store, Keys)
  BY DEF Steady, Typed, Indebted
<1>1. CASE UNCHANGED vars
  BY <1>0, <1>1 DEF vars, Calm, IsFn
<1>2. ASSUME NEW c \in Conns,
             (\E a \in Commands : Send(c, a)) \/ Shutdown(c) \/ ReadFail(c) \/ WriteFail(c)
      PROVE  Calm
  BY <1>0, <1>2 DEF Send, Shutdown, ReadFail, WriteFail, Goto, Calm, IsFn
<1>3. ASSUME NEW c \in Conns, Accept(c) \/ Read(c) \/ Eof(c) \/ ParseNone(c) \/ ParseError(c)
                              \/ Respond(c) \/ Write(c) \/ End(c)
      PROVE  Calm
  BY <1>0, <1>3 DEF Accept, Read, Eof, ParseNone, ParseError, Respond, Write, End, NextPlace,
                    Goto, Calm, IsFn
<1>4. CASE EngineTime
  BY <1>0, <1>4, SMTT(30) DEF EngineTime, Engine!Lapse, Engine!Tick, Calm, IsFn
<1> QED
  BY <1>1, <1>2, <1>3, <1>4 DEF Next, TaskStep

LEMMA IndebtedNext == Steady /\ Indebted /\ [Next]_vars => Indebted'
  BY CalmSteps, CalmKeeps, ParseKeeps, CallKeeps, ReturnKeeps, ServesKeeps

\* However the tasks' calls interleave, SET EX leaves its key with a deadline: a
\* value without one that no plain SET stored is owed an expire by a handler
\* under way.
THEOREM SetExLeavesDeadline == Spec => []SetExExpires
<1>1. Indebted => SetExExpires
  BY ZenonT(30) DEF Indebted, Debt, Owed, SetExExpires, Plain
<1> QED
  BY <1>1, SteadyInit, SteadyNext, IndebtedInit, IndebtedNext, PTL DEF Spec

-----------------------------------------------------------------------------
(* The metrics agree with the traffic. *)

\* What MetricsMatchAnswers counts.
Under  == {c \in Conns : pc[c] \notin {"new", "read", "parse", "closed"}}
Failed == {c \in Conns : pc[c] = "closed" /\ Len(answers[c]) < parsed[c]}
Ending == {c \in Conns : pc[c] = "end"}
Owing  == {c \in Conns : IsError(reply[c]) /\ (pc[c] = "write" \/ c \in Failed)}
Written == [c \in Conns |-> Len(answers[c])]
Errors  == [c \in Conns |-> ErrorAnswers(c)]

Measured ==
    /\ metrics.requests = Total(parsed)
    /\ metrics.inflight = Cardinality(Under) + Cardinality(Failed)
    /\ metrics.samples = Total(Written) - Cardinality(Ending)
    /\ metrics.errors = Total(Errors) + Cardinality(Owing)

LEMMA MeasuredMeans == Measured => MetricsMatchAnswers
<1> SUFFICES ASSUME Measured PROVE MetricsMatchAnswers
  OBVIOUS
<1>1. Failed = {} => metrics.inflight = Cardinality(Under)
  <2>1. Cardinality(Under) \in Nat
    BY ServerAssumption, FS_Subset, FS_CardinalityType DEF Under
  <2>2. Cardinality({}) = 0
    BY FS_EmptySet
  <2> QED
    BY <2>1, <2>2, SMTT(30) DEF Measured
<1> QED
  BY <1>1 DEF Measured, MetricsMatchAnswers, Under, Failed, Ending, Owing, Written, Errors

\* A set of connections changes by the one that moves.
LEMMA OneMoves ==
  ASSUME NEW A \in SUBSET Conns, NEW B \in SUBSET Conns, NEW c \in Conns,
         \A d \in Conns \ {c} : d \in A <=> d \in B
  PROVE  /\ Cardinality(A) \in Nat /\ Cardinality(B) \in Nat
         /\ (c \in A <=> c \in B) => Cardinality(B) = Cardinality(A)
         /\ c \in B /\ c \notin A => Cardinality(B) = Cardinality(A) + 1
         /\ c \notin B /\ c \in A => Cardinality(B) = Cardinality(A) - 1
<1>1. IsFiniteSet(A) /\ IsFiniteSet(B)
  BY ServerAssumption, FS_Subset
<1>2. Cardinality(A) \in Nat /\ Cardinality(B) \in Nat
  BY <1>1, FS_CardinalityType
<1>3. CASE c \in A <=> c \in B
  <2>1. A = B
    BY <1>3, SMTT(30)
  <2> QED
    BY <1>2, <1>3, <2>1
<1>4. CASE c \in B /\ c \notin A
  <2>1. B = A \union {c}
    BY <1>4
  <2>2. Cardinality(B) = Cardinality(A) + 1
    BY <1>1, <1>4, <2>1, FS_AddElement
  <2> QED
    BY <1>2, <1>4, <2>2
<1>5. CASE c \notin B /\ c \in A
  <2>1. A = B \union {c}
    BY <1>5
  <2>2. Cardinality(A) = Cardinality(B) + 1
    BY <1>1, <1>5, <2>1, FS_AddElement
  <2> QED
    BY <1>2, <1>5, <2>2, SMTT(30)
<1> QED
  BY <1>3, <1>4, <1>5

\* The counts are natural numbers.
Tallies == parsed \in [Conns -> Nat] /\ Written \in [Conns -> Nat] /\ Errors \in [Conns -> Nat]

LEMMA CountsTyped == Steady => Tallies
<1> SUFFICES ASSUME Steady PROVE Tallies
  OBVIOUS
<1>1. \A c \in Conns : Len(answers[c]) \in Nat
  BY SeqLength DEF Steady, Typed
<1>2. ASSUME NEW c \in Conns PROVE ErrorAnswers(c) \in Nat
  <2>1. IsFiniteSet(1 .. Len(answers[c]))
    BY <1>1, FS_Interval, SMTT(30)
  <2> QED
    BY <2>1, FS_Subset, FS_CardinalityType DEF ErrorAnswers
<1> QED
  BY <1>1, <1>2 DEF Steady, Typed, Written, Errors, Tallies

\* The errors among answers, and one more answer.
Bad(s) == {i \in 1 .. Len(s) : IsError(s[i].reply)}

LEMMA OneMoreAnswer ==
  ASSUME NEW s, IsSeq(s), NEW e
  PROVE  /\ Cardinality(Bad(s)) \in Nat
         /\ Cardinality(Bad(Append(s, e)))
              = Cardinality(Bad(s)) + (IF IsError(e.reply) THEN 1 ELSE 0)
<1> DEFINE n == Len(s)
           u == Append(s, e)
<1>1. n \in Nat /\ Len(u) = n + 1 /\ u[n + 1] = e /\ \A i \in 1 .. n : u[i] = s[i]
  <2>1. PICK S : s \in Seq(S)
    BY DEF IsSeq
  <2>2. s \in Seq(S \union {e}) /\ e \in S \union {e}
    BY <2>1, SMTT(30)
  <2> QED
    BY <2>2, SMTT(30)
<1>2. IsFiniteSet(Bad(s)) /\ n + 1 \notin Bad(s) /\ Cardinality(Bad(s)) \in Nat
  <2>1. IsFiniteSet(1 .. n)
    BY <1>1, FS_Interval, SMTT(30)
  <2> QED
    BY <1>1, <2>1, FS_Subset, FS_CardinalityType, SMTT(30) DEF Bad
<1>3. CASE IsError(e.reply)
  <2>1. Bad(u) = Bad(s) \union {n + 1}
    BY <1>1, <1>3, SMTT(30) DEF Bad
  <2>2. Cardinality(Bad(u)) = Cardinality(Bad(s)) + 1
    BY <1>2, <2>1, FS_AddElement
  <2> QED
    BY <1>2, <1>3, <2>2
<1>4. CASE ~IsError(e.reply)
  <2>1. Bad(u) = Bad(s)
    BY <1>1, <1>4, SMTT(30) DEF Bad
  <2> QED
    BY <1>2, <1>4, <2>1, SMTT(30)
<1> QED
  BY <1>3, <1>4

\* What one connection contributes to each counter.
In(b) == IF b THEN 1 ELSE 0
Running(c) == In(c \in Under) + In(c \in Failed)
Sampled(c) == Written[c] - In(c \in Ending)
Erred(c)   == Errors[c] + In(c \in Owing)

\* A connection that a step leaves alone is counted as before.
Same(d) ==
    /\ pc'[d] = pc[d] /\ answers'[d] = answers[d] /\ parsed'[d] = parsed[d]
    /\ pc[d] \in {"write", "closed"} => reply'[d] = reply[d]

LEMMA SameCounts ==
  ASSUME NEW d \in Conns, Same(d)
  PROVE  /\ d \in Under' <=> d \in Under
         /\ d \in Failed' <=> d \in Failed
         /\ d \in Ending' <=> d \in Ending
         /\ d \in Owing' <=> d \in Owing
         /\ parsed'[d] = parsed[d] /\ Written'[d] = Written[d] /\ Errors'[d] = Errors[d]
  BY DEF Same, Under, Failed, Ending, Owing, Written, Errors, ErrorAnswers

\* A sum whose terms change for one connection.
LEMMA OneCounts ==
  ASSUME NEW g \in [Conns -> Nat], NEW h \in [Conns -> Nat], NEW c \in Conns,
         \A d \in Conns \ {c} : h[d] = g[d]
  PROVE  Total(g) \in Nat /\ Total(h) = Total(g) - g[c] + h[c]
<1>1. h = [g EXCEPT ![c] = h[c]] /\ h[c] \in Nat
  OBVIOUS
<1>2. PICK n \in Nat : n = h[c]
  BY <1>1
<1>3. Total([g EXCEPT ![c] = n]) = Total(g) - g[c] + n
  BY TotalUpdate, ServerAssumption, ZenonT(30)
<1> QED
  BY <1>1, <1>2, <1>3, TotalNat, ServerAssumption

\* The counters follow what the connection c contributes.
LEMMA MeasuredMove ==
  ASSUME Steady, Steady', Measured, NEW c \in Conns,
         \A d \in Conns \ {c} : Same(d),
         metrics'.requests = metrics.requests + (parsed'[c] - parsed[c]),
         metrics'.inflight = metrics.inflight + (Running(c)' - Running(c)),
         metrics'.samples = metrics.samples + (Sampled(c)' - Sampled(c)),
         metrics'.errors = metrics.errors + (Erred(c)' - Erred(c))
  PROVE  Measured'
<1>0. /\ parsed \in [Conns -> Nat] /\ Written \in [Conns -> Nat] /\ Errors \in [Conns -> Nat]
      /\ parsed' \in [Conns -> Nat] /\ Written' \in [Conns -> Nat] /\ Errors' \in [Conns -> Nat]
  <2>1. Tallies
    BY CountsTyped
  <2>2. Tallies'
    BY CountsTyped, PTL
  <2> QED
    BY <2>1, <2>2 DEF Tallies
<1>1. \A d \in Conns \ {c} :
        /\ d \in Under' <=> d \in Under
        /\ d \in Failed' <=> d \in Failed
        /\ d \in Ending' <=> d \in Ending
        /\ d \in Owing' <=> d \in Owing
        /\ parsed'[d] = parsed[d] /\ Written'[d] = Written[d] /\ Errors'[d] = Errors[d]
  BY SameCounts
<1>2. /\ Total(parsed) \in Nat /\ Total(Written) \in Nat /\ Total(Errors) \in Nat
      /\ Total(parsed)' = Total(parsed) - parsed[c] + parsed'[c]
      /\ Total(Written)' = Total(Written) - Written[c] + Written'[c]
      /\ Total(Errors)' = Total(Errors) - Errors[c] + Errors'[c]
  BY <1>0, <1>1, OneCounts
<1>3. ASSUME NEW A \in SUBSET Conns, NEW B \in SUBSET Conns,
             \A d \in Conns \ {c} : d \in A <=> d \in B
      PROVE  /\ Cardinality(A) \in Nat
             /\ Cardinality(B) = Cardinality(A) + In(c \in B) - In(c \in A)
  BY <1>3, OneMoves, SMTT(30) DEF In
<1>4. /\ Cardinality(Under) \in Nat
      /\ Cardinality(Under)' = Cardinality(Under) + In(c \in Under') - In(c \in Under)
  <2>1. Under \in SUBSET Conns /\ Under' \in SUBSET Conns
    BY DEF Under
  <2> QED
    BY <1>1, <1>3, <2>1
<1>5. /\ Cardinality(Failed) \in Nat
      /\ Cardinality(Failed)' = Cardinality(Failed) + In(c \in Failed') - In(c \in Failed)
  <2>1. Failed \in SUBSET Conns /\ Failed' \in SUBSET Conns
    BY DEF Failed
  <2> QED
    BY <1>1, <1>3, <2>1
<1>6. /\ Cardinality(Ending) \in Nat
      /\ Cardinality(Ending)' = Cardinality(Ending) + In(c \in Ending') - In(c \in Ending)
  <2>1. Ending \in SUBSET Conns /\ Ending' \in SUBSET Conns
    BY DEF Ending
  <2> QED
    BY <1>1, <1>3, <2>1
<1>7. /\ Cardinality(Owing) \in Nat
      /\ Cardinality(Owing)' = Cardinality(Owing) + In(c \in Owing') - In(c \in Owing)
  <2>1. Owing \in SUBSET Conns /\ Owing' \in SUBSET Conns
    BY DEF Owing
  <2> QED
    BY <1>1, <1>3, <2>1
<1>8. \A b : In(b) \in {0, 1}
  BY DEF In
<1>9. /\ parsed[c] \in Nat /\ Written[c] \in Nat /\ Errors[c] \in Nat
      /\ parsed'[c] \in Nat /\ Written'[c] \in Nat /\ Errors'[c] \in Nat
  BY <1>0
<1>10. metrics'.requests = Total(parsed)'
  BY <1>2, <1>9, SMTT(30) DEF Measured
<1>11. metrics'.inflight = Cardinality(Under)' + Cardinality(Failed)'
  BY <1>4, <1>5, <1>8, SMTT(30) DEF Measured, Running
<1>12. metrics'.samples = Total(Written)' - Cardinality(Ending)'
  BY <1>2, <1>6, <1>8, <1>9, SMTT(30) DEF Measured, Sampled
<1>13. metrics'.errors = Total(Errors)' + Cardinality(Owing)'
  BY <1>2, <1>7, <1>8, <1>9, SMTT(30) DEF Measured, Erred
<1> QED
  BY <1>10, <1>11, <1>12, <1>13 DEF Measured

\* What an answer does to the counts of responses.
LEMMA WriteCounts ==
  ASSUME Steady, NEW c \in Conns, Write(c)
  PROVE  /\ Written'[c] = Written[c] + 1
         /\ Errors'[c] = Errors[c] + ErrorsOf(c)
<1> DEFINE e == [reply |-> reply[c], engine |-> said[c]]
<1>1. /\ answers' = [answers EXCEPT ![c] = Append(@, e)] /\ e.reply = reply[c]
      /\ IsFn(answers, Conns) /\ IsSeq(answers[c])
  BY DEF Write, Steady, Typed
<1> HIDE DEF e
<1>2. /\ answers'[c] = Append(answers[c], e)
      /\ \A d \in Conns : d # c => answers'[d] = answers[d]
  BY <1>1 DEF IsFn
<1>3. Len(Append(answers[c], e)) = Len(answers[c]) + 1
  BY <1>1, AppendIsSeq
<1>4. \A d \in Conns : ErrorAnswers(d) = Cardinality(Bad(answers[d]))
  BY DEF ErrorAnswers, Bad
<1>5. \A d \in Conns : ErrorAnswers(d)' = Cardinality(Bad(answers'[d]))
  BY DEF ErrorAnswers, Bad
<1>6. Cardinality(Bad(Append(answers[c], e))) = Cardinality(Bad(answers[c])) + ErrorsOf(c)
  BY <1>1, OneMoreAnswer DEF ErrorsOf
<1>7. Written'[c] = Written[c] + 1
  BY <1>2, <1>3 DEF Written
<1>8. Errors[c] = Cardinality(Bad(answers[c])) /\ Errors'[c] = Cardinality(Bad(answers'[c]))
  BY <1>4, <1>5 DEF Errors
<1> QED
  BY <1>2, <1>6, <1>7, <1>8

\* A step that leaves every connection alone in this sense.
LEMMA UncountedMeasured ==
  ASSUME Steady, Steady', Measured, metrics' = metrics, \A d \in Conns : Same(d)
  PROVE  Measured'
<1>1. Under' = Under /\ Failed' = Failed /\ Ending' = Ending /\ Owing' = Owing
  <2>1. /\ Under \subseteq Conns /\ Failed \subseteq Conns /\ Ending \subseteq Conns
        /\ Owing \subseteq Conns /\ Under' \subseteq Conns /\ Failed' \subseteq Conns
        /\ Ending' \subseteq Conns /\ Owing' \subseteq Conns
    BY DEF Under, Failed, Ending, Owing
  <2> QED
    BY <2>1, SameCounts
<1>2. Written' = Written /\ Errors' = Errors
  BY DEF Same, Written, Errors, ErrorAnswers
<1>3. parsed' = parsed
  BY SMTT(30) DEF Same, Steady, Typed
<1> QED
  BY <1>1, <1>2, <1>3 DEF Measured

\* Where c is counted.
LEMMA CountedNow ==
  ASSUME NEW c \in Conns
  PROVE  /\ c \in Under <=> pc[c] \notin {"new", "read", "parse", "closed"}
         /\ c \in Failed <=> pc[c] = "closed" /\ Len(answers[c]) < parsed[c]
         /\ c \in Ending <=> pc[c] = "end"
         /\ c \in Owing <=> /\ IsError(reply[c])
                            /\ \/ pc[c] = "write"
                               \/ pc[c] = "closed" /\ Len(answers[c]) < parsed[c]
  BY DEF Under, Failed, Ending, Owing

LEMMA CountedNext ==
  ASSUME NEW c \in Conns
  PROVE  /\ c \in Under' <=> pc'[c] \notin {"new", "read", "parse", "closed"}
         /\ c \in Failed' <=> pc'[c] = "closed" /\ Len(answers'[c]) < parsed'[c]
         /\ c \in Ending' <=> pc'[c] = "end"
         /\ c \in Owing' <=> /\ IsError(reply'[c])
                             /\ \/ pc'[c] = "write"
                                \/ pc'[c] = "closed" /\ Len(answers'[c]) < parsed'[c]
  BY DEF Under, Failed, Ending, Owing

\* Steps without an answer leave the counts of answers alone.
LEMMA SameAnswers ==
  ASSUME Steady, NEW c \in Conns, answers'[c] = answers[c]
  PROVE  /\ Written'[c] = Written[c] /\ Errors'[c] = Errors[c]
         /\ Written[c] \in Nat /\ Errors[c] \in Nat
<1>1. Written[c] \in Nat /\ Errors[c] \in Nat
  BY CountsTyped DEF Tallies
<1> QED
  BY <1>1 DEF Written, Errors, ErrorAnswers

LEMMA ParseMeasured ==
  ASSUME Steady, Steady', IsFn(reply, Conns), Measured, NEW c \in Conns,
         ParseCommand(c) \/ ParseError(c)
  PROVE  Measured' /\ IsFn(reply, Conns)'
<1>1. /\ pc[c] = "parse" /\ answers' = answers /\ parsed'[c] = parsed[c] + 1
      /\ \A d \in Conns \ {c} : Same(d)
      /\ IsFn(reply, Conns)'
  BY DEF ParseCommand, ParseError, Goto, Steady, Typed, IsFn, Same
<1>2. /\ Written'[c] = Written[c] /\ Errors'[c] = Errors[c]
      /\ Written[c] \in Nat /\ Errors[c] \in Nat /\ parsed[c] \in Nat
  BY <1>1, SameAnswers DEF Steady, Typed
<1>3. c \notin Under /\ c \notin Failed /\ c \notin Ending /\ c \notin Owing
  BY <1>1, CountedNow
<1>m. metrics \in [Names -> Int]
  BY DEF Steady, Typed
<1>5. CASE ParseCommand(c)
  <2>1. pc'[c] \in {"respond", "call"}
    BY <1>5 DEF ParseCommand, Goto, Steady, Typed
  <2>2. c \in Under' /\ c \notin Failed' /\ c \notin Ending' /\ c \notin Owing'
    BY <2>1, CountedNext
  <2>3. /\ metrics'.requests = metrics.requests + 1 /\ metrics'.inflight = metrics.inflight + 1
        /\ metrics'.samples = metrics.samples + 0 /\ metrics'.errors = metrics.errors + 0
    BY <1>5, <1>m, SMTT(30) DEF ParseCommand, Names
  <2>4. /\ parsed'[c] - parsed[c] = 1 /\ Running(c)' - Running(c) = 1
        /\ Sampled(c)' - Sampled(c) = 0 /\ Erred(c)' - Erred(c) = 0
    BY <1>1, <1>2, <1>3, <2>2, SMTT(30) DEF Running, Sampled, Erred, In
  <2>5. Measured'
    BY <1>1, <2>3, <2>4, MeasuredMove
  <2> QED
    BY <1>1, <2>5
<1>6. CASE ParseError(c)
  <2>1. pc'[c] = "write" /\ IsError(reply'[c])
    BY <1>6 DEF ParseError, Goto, Steady, Typed, IsFn, IsError, Error
  <2>2. c \in Under' /\ c \notin Failed' /\ c \notin Ending' /\ c \in Owing'
    BY <2>1, CountedNext
  <2>3. /\ metrics'.requests = metrics.requests + 1 /\ metrics'.inflight = metrics.inflight + 1
        /\ metrics'.samples = metrics.samples + 0 /\ metrics'.errors = metrics.errors + 1
    BY <1>6, <1>m, SMTT(30) DEF ParseError, Names
  <2>4. /\ parsed'[c] - parsed[c] = 1 /\ Running(c)' - Running(c) = 1
        /\ Sampled(c)' - Sampled(c) = 0 /\ Erred(c)' - Erred(c) = 1
    BY <1>1, <1>2, <1>3, <2>2, SMTT(30) DEF Running, Sampled, Erred, In
  <2>5. Measured'
    BY <1>1, <2>3, <2>4, MeasuredMove
  <2> QED
    BY <1>1, <2>5
<1> QED
  BY <1>5, <1>6

LEMMA RespondMeasured ==
  ASSUME Steady, Steady', IsFn(reply, Conns), Measured, NEW c \in Conns, Respond(c)
  PROVE  Measured' /\ IsFn(reply, Conns)'
<1>1. /\ pc[c] = "respond" /\ pc'[c] = "write" /\ answers' = answers
      /\ parsed' = parsed /\ reply' = reply
      /\ \A d \in Conns \ {c} : Same(d)
      /\ IsFn(reply, Conns)'
  BY DEF Respond, Goto, Steady, Typed, IsFn, Same, stream, handler
<1>2. /\ Written'[c] = Written[c] /\ Errors'[c] = Errors[c]
      /\ Written[c] \in Nat /\ Errors[c] \in Nat /\ parsed[c] \in Nat
  BY <1>1, SameAnswers DEF Steady, Typed
<1>3. /\ c \in Under /\ c \notin Failed /\ c \notin Ending /\ c \notin Owing
      /\ c \in Under' /\ c \notin Failed' /\ c \notin Ending' /\ (c \in Owing' <=> IsError(reply[c]))
  BY <1>1, CountedNow, CountedNext
<1>4. metrics \in [Names -> Int]
  BY DEF Steady, Typed
<1>5. /\ metrics'.requests = metrics.requests + 0 /\ metrics'.inflight = metrics.inflight + 0
      /\ metrics'.samples = metrics.samples + 0 /\ metrics'.errors = metrics.errors + ErrorsOf(c)
  BY <1>4, SMTT(30) DEF Respond, Names
<1>6. /\ parsed'[c] - parsed[c] = 0 /\ Running(c)' - Running(c) = 0
      /\ Sampled(c)' - Sampled(c) = 0 /\ Erred(c)' - Erred(c) = ErrorsOf(c)
  BY <1>1, <1>2, <1>3, SMTT(30) DEF Running, Sampled, Erred, In, ErrorsOf
<1>7. Measured'
  BY <1>1, <1>5, <1>6, MeasuredMove
<1> QED
  BY <1>1, <1>7

LEMMA WriteMeasured ==
  ASSUME Steady, Steady', IsFn(reply, Conns), Measured, NEW c \in Conns, Write(c)
  PROVE  Measured' /\ IsFn(reply, Conns)'
<1>1. /\ pc[c] = "write" /\ pc'[c] = "end" /\ parsed' = parsed /\ reply' = reply
      /\ \A d \in Conns \ {c} : Same(d)
      /\ IsFn(reply, Conns)' /\ metrics' = metrics
  BY DEF Write, Goto, Steady, Typed, IsFn, Same, stream, handler
<1>2. /\ Written'[c] = Written[c] + 1 /\ Errors'[c] = Errors[c] + ErrorsOf(c)
      /\ Written[c] \in Nat /\ Errors[c] \in Nat /\ parsed[c] \in Nat
  BY WriteCounts, CountsTyped DEF Tallies
<1>3. /\ c \in Under /\ c \notin Failed /\ c \notin Ending /\ (c \in Owing <=> IsError(reply[c]))
      /\ c \in Under' /\ c \notin Failed' /\ c \in Ending' /\ c \notin Owing'
  BY <1>1, CountedNow, CountedNext
<1>4. metrics \in [Names -> Int]
  BY DEF Steady, Typed
<1>5. /\ metrics'.requests = metrics.requests + 0 /\ metrics'.inflight = metrics.inflight + 0
      /\ metrics'.samples = metrics.samples + 0 /\ metrics'.errors = metrics.errors + 0
  BY <1>1, <1>4, SMTT(30) DEF Names
<1>6. /\ parsed'[c] - parsed[c] = 0 /\ Running(c)' - Running(c) = 0
      /\ Sampled(c)' - Sampled(c) = 0 /\ Erred(c)' - Erred(c) = 0
  BY <1>1, <1>2, <1>3, SMTT(30) DEF Running, Sampled, Erred, In, ErrorsOf
<1>7. Measured'
  BY <1>1, <1>5, <1>6, MeasuredMove
<1> QED
  BY <1>1, <1>7

LEMMA WriteFailMeasured ==
  ASSUME Steady, Steady', IsFn(reply, Conns), Measured, NEW c \in Conns, WriteFail(c)
  PROVE  Measured' /\ IsFn(reply, Conns)'
<1>1. /\ pc[c] = "write" /\ pc'[c] = "closed" /\ answers' = answers
      /\ parsed' = parsed /\ reply' = reply
      /\ \A d \in Conns \ {c} : Same(d)
      /\ IsFn(reply, Conns)' /\ metrics' = metrics
  BY DEF WriteFail, Goto, Steady, Typed, IsFn, Same, stream, handler
<1>2. /\ Written'[c] = Written[c] /\ Errors'[c] = Errors[c]
      /\ Written[c] \in Nat /\ Errors[c] \in Nat /\ parsed[c] \in Nat
  BY <1>1, SameAnswers DEF Steady, Typed
<1>f. Len(answers[c]) < parsed[c]
  <2>1. Len(answers[c]) = parsed[c] - 1
    BY <1>1 DEF Steady, InStep
  <2> QED
    BY <1>2, <2>1, SMTT(30)
<1>3. /\ c \in Under /\ c \notin Failed /\ c \notin Ending /\ (c \in Owing <=> IsError(reply[c]))
      /\ c \notin Under' /\ c \in Failed' /\ c \notin Ending' /\ (c \in Owing' <=> IsError(reply[c]))
  BY <1>1, <1>f, CountedNow, CountedNext
<1>4. metrics \in [Names -> Int]
  BY DEF Steady, Typed
<1>5. /\ metrics'.requests = metrics.requests + 0 /\ metrics'.inflight = metrics.inflight + 0
      /\ metrics'.samples = metrics.samples + 0 /\ metrics'.errors = metrics.errors + 0
  BY <1>1, <1>4, SMTT(30) DEF Names
<1>6. /\ parsed'[c] - parsed[c] = 0 /\ Running(c)' - Running(c) = 0
      /\ Sampled(c)' - Sampled(c) = 0 /\ Erred(c)' - Erred(c) = 0
  BY <1>1, <1>2, <1>3, SMTT(30) DEF Running, Sampled, Erred, In
<1>7. Measured'
  BY <1>1, <1>5, <1>6, MeasuredMove
<1> QED
  BY <1>1, <1>7

LEMMA EndMeasured ==
  ASSUME Steady, Steady', IsFn(reply, Conns), Measured, NEW c \in Conns, End(c)
  PROVE  Measured' /\ IsFn(reply, Conns)'
<1>1. /\ pc[c] = "end" /\ pc'[c] \in {"closed", "parse"} /\ answers' = answers
      /\ parsed' = parsed /\ reply' = reply
      /\ \A d \in Conns \ {c} : Same(d)
      /\ IsFn(reply, Conns)'
  BY DEF End, NextPlace, Goto, Steady, Typed, IsFn, Same, stream, handler
<1>2. /\ Written'[c] = Written[c] /\ Errors'[c] = Errors[c]
      /\ Written[c] \in Nat /\ Errors[c] \in Nat /\ parsed[c] \in Nat
  BY <1>1, SameAnswers DEF Steady, Typed
<1>f. ~(Len(answers[c]) < parsed[c])
  <2>1. Len(answers[c]) = parsed[c]
    BY <1>1 DEF Steady, InStep
  <2> QED
    BY <1>2, <2>1, SMTT(30)
<1>3. /\ c \in Under /\ c \notin Failed /\ c \in Ending /\ c \notin Owing
      /\ c \notin Under' /\ c \notin Failed' /\ c \notin Ending' /\ c \notin Owing'
  BY <1>1, <1>f, CountedNow, CountedNext
<1>4. metrics \in [Names -> Int]
  BY DEF Steady, Typed
<1>5. /\ metrics'.requests = metrics.requests + 0 /\ metrics'.inflight = metrics.inflight + (0 - 1)
      /\ metrics'.samples = metrics.samples + 1 /\ metrics'.errors = metrics.errors + 0
  BY <1>4, SMTT(30) DEF End, Names
<1>6. /\ parsed'[c] - parsed[c] = 0 /\ Running(c)' - Running(c) = 0 - 1
      /\ Sampled(c)' - Sampled(c) = 1 /\ Erred(c)' - Erred(c) = 0
  BY <1>1, <1>2, <1>3, SMTT(30) DEF Running, Sampled, Erred, In
<1>7. Measured'
  BY <1>1, <1>5, <1>6, MeasuredMove
<1> QED
  BY <1>1, <1>7

\* A connection that is accepted, read from or closed: c has no command under way.
LEMMA CloseMeasured ==
  ASSUME Steady, Steady', IsFn(reply, Conns), Measured, NEW c \in Conns,
         Accept(c) \/ Read(c) \/ Eof(c) \/ ReadFail(c) \/ ParseNone(c)
  PROVE  Measured' /\ IsFn(reply, Conns)'
<1>1. /\ pc[c] \in {"new", "read", "parse"} /\ pc'[c] \in {"read", "parse", "closed"}
      /\ answers' = answers /\ parsed' = parsed /\ reply' = reply
      /\ \A d \in Conns \ {c} : Same(d)
      /\ IsFn(reply, Conns)' /\ metrics' = metrics
  BY DEF Accept, Read, Eof, ReadFail, ParseNone, Goto, Steady, Typed, IsFn, Same, stream, handler
<1>2. /\ Written'[c] = Written[c] /\ Errors'[c] = Errors[c]
      /\ Written[c] \in Nat /\ Errors[c] \in Nat /\ parsed[c] \in Nat
  BY <1>1, SameAnswers DEF Steady, Typed
<1>f. ~(Len(answers[c]) < parsed[c])
  <2>1. Len(answers[c]) = parsed[c]
    BY <1>1 DEF Steady, InStep
  <2> QED
    BY <1>2, <2>1, SMTT(30)
<1>3. /\ c \notin Under /\ c \notin Failed /\ c \notin Ending /\ c \notin Owing
      /\ c \notin Under' /\ c \notin Failed' /\ c \notin Ending' /\ c \notin Owing'
  BY <1>1, <1>f, CountedNow, CountedNext
<1>4. metrics \in [Names -> Int]
  BY DEF Steady, Typed
<1>5. /\ metrics'.requests = metrics.requests + 0 /\ metrics'.inflight = metrics.inflight + 0
      /\ metrics'.samples = metrics.samples + 0 /\ metrics'.errors = metrics.errors + 0
  BY <1>1, <1>4, SMTT(30) DEF Names
<1>6. /\ parsed'[c] - parsed[c] = 0 /\ Running(c)' - Running(c) = 0
      /\ Sampled(c)' - Sampled(c) = 0 /\ Erred(c)' - Erred(c) = 0
  BY <1>1, <1>2, <1>3, SMTT(30) DEF Running, Sampled, Erred, In
<1>7. Measured'
  BY <1>1, <1>5, <1>6, MeasuredMove
<1> QED
  BY <1>1, <1>7

\* A handler's calls of the engine and their returns: the command stays under way.
LEMMA HandlerMeasured ==
  ASSUME Steady, Steady', IsFn(reply, Conns), Measured, NEW c \in Conns, Call(c) \/ Return(c)
  PROVE  Measured' /\ IsFn(reply, Conns)'
<1>1. /\ pc[c] \in {"call", "wait"} /\ pc'[c] \in {"call", "wait", "respond"}
      /\ answers' = answers /\ parsed' = parsed
      /\ \A d \in Conns \ {c} : Same(d)
      /\ IsFn(reply, Conns)' /\ metrics' = metrics
  BY DEF Call, Return, Goto, Steady, Typed, IsFn, Same, stream
<1>2. /\ Written'[c] = Written[c] /\ Errors'[c] = Errors[c]
      /\ Written[c] \in Nat /\ Errors[c] \in Nat /\ parsed[c] \in Nat
  BY <1>1, SameAnswers DEF Steady, Typed
<1>3. /\ c \in Under /\ c \notin Failed /\ c \notin Ending /\ c \notin Owing
      /\ c \in Under' /\ c \notin Failed' /\ c \notin Ending' /\ c \notin Owing'
  BY <1>1, CountedNow, CountedNext
<1>4. metrics \in [Names -> Int]
  BY DEF Steady, Typed
<1>5. /\ metrics'.requests = metrics.requests + 0 /\ metrics'.inflight = metrics.inflight + 0
      /\ metrics'.samples = metrics.samples + 0 /\ metrics'.errors = metrics.errors + 0
  BY <1>1, <1>4, SMTT(30) DEF Names
<1>6. /\ parsed'[c] - parsed[c] = 0 /\ Running(c)' - Running(c) = 0
      /\ Sampled(c)' - Sampled(c) = 0 /\ Erred(c)' - Erred(c) = 0
  BY <1>1, <1>2, <1>3, SMTT(30) DEF Running, Sampled, Erred, In
<1>7. Measured'
  BY <1>1, <1>5, <1>6, MeasuredMove
<1> QED
  BY <1>1, <1>7

LEMMA MeasuredNext ==
  Steady /\ Steady' /\ IsFn(reply, Conns) /\ Measured /\ [Next]_vars
  => Measured' /\ IsFn(reply, Conns)'
<1> SUFFICES ASSUME Steady, Steady', IsFn(reply, Conns), Measured, [Next]_vars
             PROVE  Measured' /\ IsFn(reply, Conns)'
  OBVIOUS
<1>1. CASE \/ UNCHANGED vars \/ EngineTime
           \/ \E c \in Conns : \/ \E a \in Commands : Send(c, a)
                               \/ Shutdown(c) \/ EngineServes(c)
  <2>1. UNCHANGED <<pc, parsed, answers, reply, metrics>>
    BY <1>1 DEF vars, EngineTime, EngineServes, Send, Shutdown, stream, handler
  <2>2. \A d \in Conns : Same(d)
    BY <2>1 DEF Same
  <2> QED
    BY <2>1, <2>2, UncountedMeasured DEF IsFn
<1> QED
  BY <1>1, ParseMeasured, RespondMeasured, WriteMeasured, WriteFailMeasured, EndMeasured,
     CloseMeasured, HandlerMeasured DEF Next, TaskStep

LEMMA MeasuredInit == Init => Measured /\ IsFn(reply, Conns)
<1> SUFFICES ASSUME Init PROVE Measured /\ IsFn(reply, Conns)
  OBVIOUS
<1>1. \A c \in Conns : Len(answers[c]) = 0 /\ parsed[c] = 0 /\ pc[c] = "new"
  BY EmptyIsSeq DEF Init
<1>2. Under = {} /\ Failed = {} /\ Ending = {} /\ Owing = {}
  BY <1>1 DEF Under, Failed, Ending, Owing
<1>3. \A c \in Conns : Errors[c] = 0 /\ Written[c] = 0
  <2> SUFFICES ASSUME NEW c \in Conns PROVE ErrorAnswers(c) = 0 /\ Len(answers[c]) = 0
    BY DEF Errors, Written
  <2>1. {i \in 1 .. Len(answers[c]) : IsError(answers[c][i].reply)} = {}
    BY <1>1, SMTT(30)
  <2> QED
    BY <1>1, <2>1, FS_EmptySet DEF ErrorAnswers
<1>4. Total(parsed) = 0 /\ Total(Written) = 0 /\ Total(Errors) = 0
  <2>1. Tallies
    BY SteadyInit, CountsTyped
  <2> QED
    BY <1>1, <1>3, <2>1, TotalZero, ServerAssumption DEF Tallies
<1>5. Cardinality({}) = 0
  BY FS_EmptySet
<1> QED
  BY <1>2, <1>4, <1>5, SMTT(30) DEF Init, Measured, IsFn

\* The metrics agree with the traffic, however the connections' tasks interleave
\* and wherever a read or a write fails: a request per command parsed, an error
\* per error response, a sample per response written, and the gauge of commands in
\* flight right until a write fails.
THEOREM MetricsAgree == Spec => []MetricsMatchAnswers
  BY SteadyInit, SteadyNext, MeasuredInit, MeasuredNext, MeasuredMeans, PTL DEF Spec

-----------------------------------------------------------------------------
(* What a method returns is what the engine answered. *)

\* A call that a handler makes for the command a.
Belongs(a, x) ==
    \/ a[1] = "GET" /\ x.op = "get"
    \/ a[1] = "SET" /\ x.op \in {"set", "expire"}
    \/ a[1] = "DEL" /\ x.op = "delete"
    \/ a[1] = "EXPIRE" /\ x.op = "expire"
    \/ a[1] = "TTL" /\ x.op = "ttl"

IsCall(a, x) == Belongs(a, x) /\ x.key \in Keys /\ (x.op = "expire" => x.ttl \in Nat)

\* The answers that the engine gives to a call.
IsAnswer(op, r) ==
    \/ op = "get" /\ (r = <<"None">> \/ \E v : r = <<"Value", v>>)
    \/ op = "set" /\ r = <<"Ok">>
    \/ op = "delete" /\ r \in {<<"true">>, <<"false">>}
    \/ op = "expire" /\ r \in {<<"Ok">>, <<"NotFound">>}
    \/ op = "ttl" /\ (r \in {<<"Missing">>, <<"NoExpiry">>} \/ \E n \in Nat : r = <<"ExpiresIn", n>>)

Agrees(a, r, e) == a \in ClientCommands => ResultOf(a, r) = Meaning(a, e)

\* The commands of the client's methods.
LEMMA ClientShapes ==
  ASSUME NEW a \in Seq(STRING), a \in ClientCommands
  PROVE  \/ Len(a) = 2 /\ a[1] = "GET"
         \/ Len(a) = 3 /\ a[1] = "SET"
         \/ Len(a) = 5 /\ a[1] = "SET" /\ a[4] = "EX" /\ IsNumber(a[5])
         \/ Len(a) = 2 /\ a[1] = "DEL"
         \/ Len(a) = 3 /\ a[1] = "EXPIRE" /\ IsNumber(a[3])
         \/ Len(a) = 2 /\ a[1] = "TTL"
         \/ a = <<"PING">>
         \/ Len(a) = 2 /\ a[1] = "PING"
         \/ Len(a) = 1 /\ a[1] = "INFO"
<1>1. PICK m \in Methods : a = CommandOf(m)
  BY DEF ClientCommands
<1>2. m.method \in {"set_with_ttl", "expire"} => IsNumber(NumeralOf(AsSecs(m.ttl)))
  BY MethodAssumption DEF NumeralOf, IsNumber
<1>3. CASE m.method = "get"
  BY <1>1, <1>3 DEF CommandOf
<1>4. CASE m.method = "set"
  BY <1>1, <1>4 DEF CommandOf
<1>5. CASE m.method = "set_with_ttl"
  BY <1>1, <1>2, <1>5 DEF CommandOf
<1>6. CASE m.method = "delete"
  BY <1>1, <1>6 DEF CommandOf
<1>7. CASE m.method = "expire"
  BY <1>1, <1>2, <1>7 DEF CommandOf
<1>8. CASE m.method = "ttl"
  BY <1>1, <1>8 DEF CommandOf
<1>9. CASE m.method = "ping"
  <2>1. a = <<"PING">> \o m.payload /\ m.payload \in Seq(STRING) /\ Len(m.payload) <= 1
    BY <1>1, <1>9, MethodAssumption DEF CommandOf
  <2>2. /\ <<"PING">> \in Seq({"PING"}) /\ Len(<<"PING">>) = 1 /\ <<"PING">>[1] = "PING"
        /\ m.payload \in Seq(STRING)
    BY <2>1, SMTT(30)
  <2>3. Len(a) = 1 + Len(m.payload) /\ a[1] = "PING" /\ Len(m.payload) \in {0, 1}
    BY <2>1, <2>2, SMTT(30)
  <2>4. Len(m.payload) = 0 => a = <<"PING">>
    BY <2>2, <2>3, SMTT(30)
  <2>5. Len(m.payload) = 1 => Len(a) = 2 /\ a[1] = "PING"
    BY <2>3, SMTT(30)
  <2>6. Len(m.payload) = 0 \/ Len(m.payload) = 1
    BY <2>3
  <2> QED
    BY <2>4, <2>5, <2>6
<1>10. CASE m.method = "info"
  BY <1>1, <1>10 DEF CommandOf
<1> QED
  BY <1>3, <1>4, <1>5, <1>6, <1>7, <1>8, <1>9, <1>10, MethodAssumption

\* A method's command that the engine has no part in.
LEMMA DirectAgrees ==
  ASSUME NEW a \in Seq(STRING), CallsOf(a) = <<>>
  PROVE  Agrees(a, DirectReply(a), <<>>)
<1> SUFFICES ASSUME a \in ClientCommands
             PROVE  ResultOf(a, DirectReply(a)) = Meaning(a, <<>>)
  BY DEF Agrees
<1>0. \A x : <<x>> # <<>> /\ \A y : <<x, y>> # <<>>
  OBVIOUS
<1>1. \/ a = <<"PING">>
      \/ Len(a) = 2 /\ a[1] = "PING"
      \/ Len(a) = 1 /\ a[1] = "INFO"
  <2>1. ~(Len(a) = 2 /\ a[1] = "DEL")
    <3> SUFFICES ASSUME Len(a) = 2, a[1] = "DEL" PROVE FALSE
      OBVIOUS
    <3>1. CallsOf(a) = [i \in 1 .. 1 |-> [op |-> "delete", key |-> a[i + 1]]]
      BY SMTT(30) DEF CallsOf
    <3>2. 1 \in DOMAIN CallsOf(a) /\ DOMAIN <<>> = {}
      BY <3>1, SMTT(30)
    <3> QED
      BY <3>2
  <2>2. ~(Len(a) = 2 /\ a[1] = "GET")
    BY <1>0 DEF CallsOf
  <2>3. ~(Len(a) = 3 /\ a[1] = "SET")
    BY <1>0, SMTT(30) DEF CallsOf
  <2>4. ~(Len(a) = 5 /\ a[1] = "SET" /\ a[4] = "EX" /\ IsNumber(a[5]))
    BY <1>0 DEF CallsOf, SetEx
  <2>5. ~(Len(a) = 3 /\ a[1] = "EXPIRE" /\ IsNumber(a[3]))
    BY <1>0 DEF CallsOf
  <2>6. ~(Len(a) = 2 /\ a[1] = "TTL")
    BY <1>0 DEF CallsOf
  <2> QED
    BY <1>0, <2>1, <2>2, <2>3, <2>4, <2>5, <2>6, ClientShapes
<1>m. Meaning(a, <<>>) = Ok("Some", IF a[1] = "INFO" THEN "info"
                                    ELSE IF Len(a) = 2 THEN a[2] ELSE "PONG", 0)
  BY DEF Meaning
<1>2. CASE a = <<"PING">>
  <2>1. a[1] = "PING" /\ Len(a) = 1
    BY <1>2
  <2>2. DirectReply(a) = Simple("PONG")
    BY <1>2, SMTT(30) DEF DirectReply
  <2>3. ResultOf(a, Simple("PONG")) = Ok("Some", "PONG", 0)
    BY <2>1 DEF ResultOf, Simple
  <2> QED
    BY <1>m, <2>1, <2>2, <2>3, SMTT(30)
<1>3. CASE Len(a) = 2 /\ a[1] = "PING"
  <2>1. a # <<"PING">>
    BY <1>3, SMTT(30)
  <2>2. DirectReply(a) = Bulk(a[2])
    BY <1>3, <2>1 DEF DirectReply
  <2>3. ResultOf(a, Bulk(a[2])) = Ok("Some", a[2], 0)
    BY <1>3 DEF ResultOf, Bulk
  <2> QED
    BY <1>3, <1>m, <2>2, <2>3
<1>4. CASE Len(a) = 1 /\ a[1] = "INFO"
  <2>1. a # <<"PING">>
    BY <1>4, SMTT(30)
  <2>2. DirectReply(a) = Bulk("info")
    BY <1>4, <2>1, SMTT(30) DEF DirectReply
  <2>3. ResultOf(a, Bulk("info")) = Ok("Some", "info", 0)
    BY <1>4 DEF ResultOf, Bulk
  <2> QED
    BY <1>4, <1>m, <2>2, <2>3
<1> QED
  BY <1>1, <1>2, <1>3, <1>4

\* The calls of a command are calls of that command, and a method's DEL has one.
LEMMA CallsBelong ==
  ASSUME NEW a \in Commands, a # Malformed, CallsOf(a) # <<>>
  PROVE  /\ \A i \in 1 .. Len(CallsOf(a)) : IsCall(a, CallsOf(a)[i])
         /\ a \in ClientCommands /\ a[1] = "DEL" => Len(CallsOf(a)) = 1
<1> DEFINE n == Len(a)
<1>0. a \in Seq(STRING) /\ n \in Nat
  BY ServerAssumption, SMTT(30)
<1>k. \A i \in 1 .. Len(CallsOf(a)) : CallsOf(a)[i].key \in Keys
  BY KeysAssumption
<1>t. ASSUME NEW x, IsNumber(x) PROVE Numerals[x] * TicksPerSec \in Nat
  BY <1>t, ServerAssumption, SMTT(30) DEF IsNumber
<1>o. ASSUME NEW x, Belongs(a, x), x.op = "expire" => x.ttl \in Nat, CallsOf(a) = <<x>>
      PROVE  \A i \in 1 .. Len(CallsOf(a)) : IsCall(a, CallsOf(a)[i])
  BY <1>k, <1>o, OneIsSeq, SMTT(30) DEF IsCall
<1>1. CASE n = 2 /\ a[1] = "GET"
  <2>1. CallsOf(a) = <<[op |-> "get", key |-> a[2]]>>
    BY <1>1 DEF CallsOf
  <2> QED
    BY <1>1, <1>o, <2>1 DEF Belongs
<1>2. CASE n = 3 /\ a[1] = "SET"
  <2>1. CallsOf(a) = <<[op |-> "set", key |-> a[2], value |-> a[3]]>>
    BY <1>2, SMTT(30) DEF CallsOf
  <2> QED
    BY <1>2, <1>o, <2>1 DEF Belongs
<1>3. CASE n = 5 /\ a[1] = "SET" /\ a[4] = "EX" /\ IsNumber(a[5])
  <2> DEFINE x == [op |-> "set", key |-> a[2], value |-> a[3]]
             y == [op |-> "expire", key |-> a[2], ttl |-> Numerals[a[5]] * TicksPerSec]
  <2>1. CallsOf(a) = <<x, y>>
    BY <1>3, SMTT(30) DEF CallsOf, SetEx
  <2>2. /\ Belongs(a, x) /\ Belongs(a, y) /\ x.op = "set" /\ y.ttl \in Nat
    BY <1>3, <1>t DEF Belongs
  <2> HIDE DEF x, y
  <2>3. Len(CallsOf(a)) = 2 /\ CallsOf(a)[1] = x /\ CallsOf(a)[2] = y
    BY <2>1, TwoIsSeq, SMTT(30)
  <2> QED
    BY <1>3, <1>k, <2>2, <2>3, SMTT(30) DEF IsCall
<1>4. CASE n >= 2 /\ a[1] = "DEL"
  <2> DEFINE f == [i \in 1 .. n - 1 |-> [op |-> "delete", key |-> a[i + 1]]]
             S == {[op |-> "delete", key |-> a[i + 1]] : i \in 1 .. n - 1}
  <2>1. CallsOf(a) = f
    BY <1>4 DEF CallsOf
  <2>2. n - 1 \in Nat /\ f \in [1 .. n - 1 -> S]
    BY <1>0, <1>4, SMTT(30)
  <2>3. IsSeq(f) /\ Len(f) = n - 1
    <3> HIDE DEF f, S, n
    <3> QED
      BY <2>2, FunctionIsSeq
  <2>4. \A i \in 1 .. n - 1 : Belongs(a, f[i]) /\ f[i].op = "delete"
    BY <1>4 DEF Belongs
  <2>5. a \in ClientCommands => n = 2
    BY <1>0, <1>4, ClientShapes, SMTT(30)
  <2> HIDE DEF f, S, n
  <2> QED
    BY <1>k, <2>1, <2>3, <2>4, <2>5, SMTT(30) DEF IsCall
<1>5. CASE n = 3 /\ a[1] = "EXPIRE" /\ IsNumber(a[3])
  <2> DEFINE y == [op |-> "expire", key |-> a[2], ttl |-> Numerals[a[3]] * TicksPerSec]
  <2>1. CallsOf(a) = <<y>>
    BY <1>5 DEF CallsOf
  <2>2. Belongs(a, y) /\ y.ttl \in Nat
    BY <1>5, <1>t DEF Belongs
  <2> QED
    BY <1>5, <1>o, <2>1, <2>2
<1>6. CASE n = 2 /\ a[1] = "TTL"
  <2>1. CallsOf(a) = <<[op |-> "ttl", key |-> a[2]]>>
    BY <1>6 DEF CallsOf
  <2> QED
    BY <1>6, <1>o, <2>1 DEF Belongs
<1> QED
  BY <1>1, <1>2, <1>3, <1>4, <1>5, <1>6 DEF CallsOf

\* The response that a handler makes of the engine's answer, as the client reads it.
LEMMA ReplyAgrees ==
  ASSUME NEW a, NEW x, NEW r, NEW n, Belongs(a, x), IsAnswer(x.op, r),
         a[1] = "DEL" => n = IF r = <<"true">> THEN 1 ELSE 0
  PROVE  ResultOf(a, ReplyOf(a, r, n)) = Meaning(a, r)
<1> USE DEF Belongs, IsAnswer
<1>1. CASE a[1] = "GET"
  <2>1. CASE r = <<"None">>
    BY <1>1, <2>1 DEF ResultOf, ReplyOf, Meaning, Null
  <2>2. ASSUME NEW v, r = <<"Value", v>> PROVE ResultOf(a, ReplyOf(a, r, n)) = Meaning(a, r)
    BY <1>1, <2>2 DEF ResultOf, ReplyOf, Meaning, Bulk
  <2> QED
    BY <1>1, <2>1, <2>2
<1>2. CASE a[1] = "SET"
  <2>1. CASE r = <<"Ok">>
    BY <1>2, <2>1 DEF ResultOf, ReplyOf, Meaning, Simple
  <2>2. CASE r = <<"NotFound">>
    BY <1>2, <2>2 DEF ResultOf, ReplyOf, Meaning, Error
  <2> QED
    BY <1>2, <2>1, <2>2
<1>3. CASE a[1] = "DEL"
  <2>1. ReplyOf(a, r, n) = Integer(n)
    BY <1>3 DEF ReplyOf
  <2>2. ResultOf(a, Integer(n)) = Bool(n > 0)
    BY <1>3 DEF ResultOf, Integer, Removed
  <2>3. CASE r = <<"true">>
    <3>1. n > 0 /\ r # <<>> /\ r[1] = "true"
      BY <1>3, <2>3, SMTT(30)
    <3>2. Meaning(a, r) = Ok("true", "", 0)
      BY <3>1 DEF Meaning
    <3> QED
      BY <2>1, <2>2, <3>1, <3>2 DEF Bool
  <2>4. CASE r = <<"false">>
    <3>1. ~(n > 0) /\ r # <<>> /\ r[1] = "false"
      BY <1>3, <2>4, SMTT(30)
    <3>2. Meaning(a, r) = Ok("false", "", 0)
      BY <3>1 DEF Meaning
    <3> QED
      BY <2>1, <2>2, <3>1, <3>2 DEF Bool
  <2> QED
    BY <1>3, <2>3, <2>4
<1>4. CASE a[1] = "EXPIRE"
  <2>1. CASE r = <<"Ok">>
    <3>1. r # <<>> /\ r[1] = "Ok"
      BY <2>1
    <3>2. Meaning(a, r) = Bool(TRUE) /\ ReplyOf(a, r, n) = Integer(1)
      BY <1>4, <3>1 DEF Meaning, ReplyOf
    <3>3. ResultOf(a, Integer(1)) = Bool(TRUE)
      BY <1>4 DEF ResultOf, Integer, Bool
    <3> QED
      BY <3>2, <3>3
  <2>2. CASE r = <<"NotFound">>
    <3>1. r # <<>> /\ r[1] = "NotFound"
      BY <2>2
    <3>2. Meaning(a, r) = Bool(FALSE) /\ ReplyOf(a, r, n) = Integer(0)
      BY <1>4, <3>1 DEF Meaning, ReplyOf
    <3>3. ResultOf(a, Integer(0)) = Bool(FALSE)
      BY <1>4, SMTT(30) DEF ResultOf, Integer, Bool
    <3> QED
      BY <3>2, <3>3
  <2> QED
    BY <1>4, <2>1, <2>2
<1>5. CASE a[1] = "TTL"
  <2>1. CASE r = <<"Missing">>
    <3>1. r # <<>> /\ r[1] = "Missing"
      BY <2>1
    <3>2. Meaning(a, r) = Ok("Missing", "", 0) /\ ReplyOf(a, r, n) = Integer(-2)
      BY <1>5, <3>1 DEF Meaning, ReplyOf, TtlReply
    <3>3. ResultOf(a, Integer(-2)) = Ok("Missing", "", 0)
      BY <1>5, SMTT(30) DEF ResultOf, Integer
    <3> QED
      BY <3>2, <3>3
  <2>2. CASE r = <<"NoExpiry">>
    <3>1. r # <<>> /\ r[1] = "NoExpiry"
      BY <2>2
    <3>2. Meaning(a, r) = Ok("NoExpiry", "", 0) /\ ReplyOf(a, r, n) = Integer(-1)
      BY <1>5, <3>1 DEF Meaning, ReplyOf, TtlReply
    <3>3. ResultOf(a, Integer(-1)) = Ok("NoExpiry", "", 0)
      BY <1>5, SMTT(30) DEF ResultOf, Integer
    <3> QED
      BY <3>2, <3>3
  <2>3. ASSUME NEW d \in Nat, r = <<"ExpiresIn", d>>
        PROVE  ResultOf(a, ReplyOf(a, r, n)) = Meaning(a, r)
    <3>1. d \div TicksPerSec \in Nat
      BY ServerAssumption, SMTT(30)
    <3>2. ReplyOf(a, r, n) = Integer(d \div TicksPerSec)
      BY <1>5, <2>3 DEF ReplyOf, TtlReply
    <3>3. Meaning(a, r) = Ok("ExpiresIn", "", d \div TicksPerSec)
      BY <1>5, <2>3 DEF Meaning, AsSecs
    <3>4. PICK q \in Nat : q = d \div TicksPerSec
      BY <3>1
    <3>5. ResultOf(a, Integer(q)) = Ok("ExpiresIn", "", q)
      BY <1>5, SMTT(30) DEF ResultOf, Integer
    <3> QED
      BY <3>2, <3>3, <3>4, <3>5
  <2> QED
    BY <1>5, <2>1, <2>2, <2>3
<1> QED
  BY <1>1, <1>2, <1>3, <1>4, <1>5

\* What has been written, what a handler does, and what it is about to write.
Answered(c) ==
    \A i \in 1 .. Len(answers[c]) : sent[c][i] # Malformed =>
        Agrees(sent[c][i], answers[c][i].reply, answers[c][i].engine)

Handling(c) ==
    pc[c] \in {"call", "wait"} =>
        /\ \A i \in 1 .. Len(calls[c]) : IsCall(Args(c), calls[c][i])
        /\ pc[c] = "wait" => /\ IsCall(Args(c), call[c])
                             /\ phase[c] = "done" => IsAnswer(call[c].op, res[c])
        /\ Args(c) \in ClientCommands /\ Args(c)[1] = "DEL" =>
             removed[c] = 0 /\ Len(calls[c]) = (IF pc[c] = "call" THEN 1 ELSE 0)

Responding(c) ==
    pc[c] \in {"respond", "write"} /\ Args(c) # Malformed => Agrees(Args(c), reply[c], said[c])

Dated == \A k \in Keys : store[k] # Absent => store[k].expires_at \in Nat \union {None}

Shaped == IsFn(res, Conns) /\ IsFn(removed, Conns) /\ IsFn(reply, Conns) /\ IsFn(said, Conns)

Told == Shaped /\ Dated /\ \A c \in Conns : Answered(c) /\ Handling(c) /\ Responding(c)

LEMMA ToldInit == Init => Told
<1> SUFFICES ASSUME Init PROVE Told
  OBVIOUS
<1>1. \A c \in Conns : Len(answers[c]) = 0
  BY EmptyIsSeq DEF Init
<1> QED
  BY <1>1, SMTT(30) DEF Init, Engine!Init, Told, Shaped, Dated, Answered, Handling, Responding, IsFn

\* The commands that c has parsed stay in their places.
LEMMA ParsedStay ==
  ASSUME Steady, [Next]_vars, NEW c \in Conns
  PROVE  /\ Len(answers[c]) \in Nat /\ parsed[c] \in Nat /\ Len(answers[c]) <= parsed[c]
         /\ \A i \in 1 .. parsed[c] : sent'[c][i] = sent[c][i]
         /\ pc[c] \in {"call", "wait", "respond", "write"} =>
              parsed[c] = Len(answers[c]) + 1 /\ sent'[c][parsed[c]] = Args(c)
<1>1. /\ pc[c] \in Places /\ parsed[c] \in Nat /\ Len(answers[c]) \in Nat /\ InStep(c)
      /\ Len(sent[c]) \in Nat /\ arrived[c] \in Nat
  BY SeqLength, SMTT(30) DEF Steady, Typed
<1>2. Len(answers[c]) <= parsed[c] /\ parsed[c] <= Len(sent[c])
  BY <1>1, SMTT(30) DEF InStep, Places
<1>3. \A i \in 1 .. parsed[c] : sent'[c][i] = sent[c][i]
  BY <1>1, <1>2, ParsedGrows, SMTT(30)
<1>4. pc[c] \in {"call", "wait", "respond", "write"} => parsed[c] = Len(answers[c]) + 1
  BY <1>1, SMTT(30) DEF InStep
<1> QED
  BY <1>1, <1>2, <1>3, <1>4, SMTT(30) DEF Args

\* Nothing happens to the command of c.
Untouched(c) ==
    /\ parsed'[c] = parsed[c] /\ answers'[c] = answers[c]
    /\ pc'[c] \in {"call", "wait"} =>
         /\ pc'[c] = pc[c] /\ calls'[c] = calls[c] /\ call'[c] = call[c]
         /\ removed'[c] = removed[c]
         /\ phase'[c] = "done" => phase[c] = "done" /\ res'[c] = res[c]
    /\ pc'[c] \in {"respond", "write"} =>
         pc[c] \in {"respond", "write"} /\ reply'[c] = reply[c] /\ said'[c] = said[c]

LEMMA AnsweredStays ==
  ASSUME Steady, [Next]_vars, NEW c \in Conns, Answered(c), answers'[c] = answers[c]
  PROVE  Answered(c)'
<1>1. \A i \in 1 .. Len(answers[c]) : sent'[c][i] = sent[c][i]
  BY ParsedStay, SMTT(30)
<1> QED
  BY <1>1 DEF Answered, Agrees

LEMMA UntouchedStays ==
  ASSUME Steady, [Next]_vars, NEW c \in Conns, Untouched(c),
         Answered(c), Handling(c), Responding(c)
  PROVE  Answered(c)' /\ Handling(c)' /\ Responding(c)'
<1>1. Answered(c)'
  BY AnsweredStays DEF Untouched
<1>2. CASE pc'[c] \in {"call", "wait", "respond", "write"}
  <2>1. Args(c)' = Args(c)
    BY <1>2, ParsedStay DEF Untouched, Args
  <2>2. Handling(c)'
    BY <1>2, <2>1 DEF Untouched, Handling
  <2>3. Responding(c)'
    BY <1>2, <2>1 DEF Untouched, Responding
  <2> QED
    BY <1>1, <2>2, <2>3
<1>3. CASE pc'[c] \notin {"call", "wait", "respond", "write"}
  BY <1>1, <1>3 DEF Handling, Responding
<1> QED
  BY <1>2, <1>3

\* The engine answers a call as its contract says.
LEMMA EngineAnswers ==
  ASSUME Steady, Indebted, Told, NEW c \in Conns, EngineServes(c)
  PROVE  /\ IsAnswer(call[c].op, res'[c]) /\ IsFn(res, Conns)'
         /\ \A d \in Conns \ {c} : res'[d] = res[d]
<1>0. /\ IsFn(res, Conns) /\ clock \in Nat /\ since[c] \in Nat
      /\ pc[c] = "wait" /\ call[c].key \in Keys
  <2>1. phase[c] = "called"
    BY DEF EngineServes, Engine!Get, Engine!Delete, Engine!Expire, Engine!Ttl,
           Engine!Set, Engine!Miss, Engine!Effect
  <2>2. pc[c] = "wait"
    BY <2>1 DEF Steady, InStep
  <2> QED
    BY <2>2 DEF Told, Shaped, Handling, IsCall, Indebted
<1>e. ASSUME NEW s, NEW r, Engine!Effect(c, s, r)
      PROVE  res'[c] = r /\ IsFn(res, Conns)' /\ \A d \in Conns \ {c} : res'[d] = res[d]
  BY <1>0, <1>e DEF Engine!Effect, IsFn
<1>1. CASE Engine!Set(c)
  BY <1>1, <1>e DEF Engine!Set, IsAnswer
<1>2. ASSUME NEW n \in since[c] .. clock, Engine!Get(c, n)
      PROVE  /\ IsAnswer(call[c].op, res'[c]) /\ IsFn(res, Conns)'
             /\ \A d \in Conns \ {c} : res'[d] = res[d]
  BY <1>2, <1>e DEF Engine!Get, Engine!Miss, IsAnswer
<1>3. ASSUME NEW n \in since[c] .. clock, Engine!Delete(c, n)
      PROVE  /\ IsAnswer(call[c].op, res'[c]) /\ IsFn(res, Conns)'
             /\ \A d \in Conns \ {c} : res'[d] = res[d]
  BY <1>3, <1>e DEF Engine!Delete, Engine!Miss, IsAnswer
<1>4. ASSUME NEW n \in since[c] .. clock, Engine!Expire(c, n)
      PROVE  /\ IsAnswer(call[c].op, res'[c]) /\ IsFn(res, Conns)'
             /\ \A d \in Conns \ {c} : res'[d] = res[d]
  BY <1>4, <1>e DEF Engine!Expire, Engine!Miss, IsAnswer
<1>5. ASSUME NEW n \in since[c] .. clock, Engine!Ttl(c, n)
      PROVE  /\ IsAnswer(call[c].op, res'[c]) /\ IsFn(res, Conns)'
             /\ \A d \in Conns \ {c} : res'[d] = res[d]
  <2> DEFINE k == call[c].key
             d == store[k].expires_at
  <2>0. call[c].op = "ttl" /\ n \in Nat
    BY <1>0, <1>5, SMTT(30) DEF Engine!Ttl
  <2>1. CASE Engine!Miss(c, n, <<"Missing">>)
    BY <1>e, <2>0, <2>1 DEF Engine!Miss, IsAnswer
  <2>2. CASE Engine!Present(k, n) /\ d = None /\ Engine!Effect(c, store, <<"NoExpiry">>)
    BY <1>e, <2>0, <2>2 DEF IsAnswer
  <2>3. CASE Engine!Present(k, n) /\ d # None /\ Engine!Effect(c, store, <<"ExpiresIn", d - n>>)
    <3>1. d \in Nat
      BY <1>0, <2>3 DEF Told, Dated, Engine!Present
    <3>2. ~(d <= n)
      BY <2>3 DEF Engine!Present, Engine!Lapsed
    <3>3. d - n \in Nat
      BY <2>0, <3>1, <3>2, SMTT(30)
    <3> QED
      BY <1>e, <2>0, <2>3, <3>3 DEF IsAnswer
  <2>4. \/ Engine!Miss(c, n, <<"Missing">>)
        \/ Engine!Present(k, n) /\ d = None /\ Engine!Effect(c, store, <<"NoExpiry">>)
        \/ Engine!Present(k, n) /\ d # None /\ Engine!Effect(c, store, <<"ExpiresIn", d - n>>)
    BY <1>5 DEF Engine!Ttl
  <2> QED
    BY <2>1, <2>2, <2>3, <2>4
<1> QED
  BY <1>1, <1>2, <1>3, <1>4, <1>5 DEF EngineServes

LEMMA DatedNext ==
  ASSUME Steady, Indebted, Told, [Next]_vars
  PROVE  Dated'
<1> SUFFICES ASSUME NEW k \in Keys, store'[k] # Absent
             PROVE  store'[k].expires_at \in Nat \union {None}
  BY DEF Dated
<1>1. ASSUME store'[k] \in {store[k], Absent}
      PROVE  store'[k].expires_at \in Nat \union {None}
  BY <1>1 DEF Told, Dated
<1>2. CASE Calm
  BY <1>1, <1>2 DEF Calm
<1>3. ASSUME NEW c \in Conns, ParseCommand(c) \/ Call(c) \/ Return(c)
      PROVE  store'[k] = store[k]
  BY <1>3 DEF ParseCommand, Call, Return, Engine!Begin, Engine!Finish, engine
<1>4. ASSUME NEW c \in Conns, EngineServes(c)
      PROVE  store'[k].expires_at \in Nat \union {None}
  <2>1. CASE store'[k] \in {store[k], Absent}
    BY <1>1, <2>1
  <2>2. CASE store'[k] = [value |-> call[c].value, expires_at |-> None]
    BY <2>2, SMTT(30)
  <2>3. CASE call[c].op = "expire" /\ \E n \in Nat : store'[k].expires_at = n + call[c].ttl
    <3>1. phase[c] = "called"
      BY <1>4, ServesOneKey
    <3>2. call[c].ttl \in Nat
      BY <2>3, <3>1 DEF Steady, InStep, Told, Handling, IsCall
    <3> QED
      BY <2>3, <3>2, SMTT(30)
  <2> QED
    BY <1>4, <2>1, <2>2, <2>3, ServesOneKey
<1> QED
  BY <1>1, <1>2, <1>3, <1>4, CalmSteps

LEMMA ParseTold ==
  ASSUME Steady, Indebted, Told, NEW c \in Conns, ParseCommand(c) \/ ParseError(c)
  PROVE  /\ Shaped' /\ Answered(c)' /\ Handling(c)' /\ Responding(c)'
         /\ \A d \in Conns \ {c} : Untouched(d)
<1>0. [Next]_vars
  BY DEF Next, TaskStep
<1>1. Shaped' /\ \A d \in Conns \ {c} : Untouched(d)
  BY ZenonT(30)
     DEF ParseCommand, ParseError, Goto, engine, Steady, Typed, Indebted, Told, Shaped, IsFn,
         Untouched
<1>2. Answered(c)'
  <2>1. answers' = answers
    BY DEF ParseCommand, ParseError
  <2> QED
    BY <1>0, <2>1, AnsweredStays DEF Told
<1>a. PICK a : a = sent[c][parsed[c] + 1]
  OBVIOUS
<1>3. Args(c)' = a /\ parsed[c] + 1 \in 1 .. Len(sent[c]) /\ a \in Commands
  <2>1. parsed'[c] = parsed[c] + 1 /\ sent' = sent
    BY DEF ParseCommand, ParseError, Steady, Typed
  <2>2. parsed[c] + 1 \in 1 .. Len(sent[c]) /\ sent[c] \in Seq(Commands)
    BY SMTT(30) DEF ParseCommand, ParseError, Steady, Typed, InStep
  <2> QED
    BY <1>a, <2>1, <2>2, SMTT(30) DEF Args
<1>4. CASE ParseError(c)
  <2>1. pc'[c] = "write" /\ a = Malformed
    BY <1>4, <1>a DEF ParseError, Goto, Steady, Typed
  <2> QED
    BY <1>1, <1>2, <1>3, <2>1 DEF Handling, Responding
<1>5. CASE ParseCommand(c)
  <2>1. /\ a # Malformed /\ calls'[c] = CallsOf(a) /\ reply'[c] = DirectReply(a)
        /\ pc'[c] = (IF CallsOf(a) = <<>> THEN "respond" ELSE "call")
        /\ removed'[c] = 0 /\ said'[c] = <<>>
    <3>1. /\ a # Malformed /\ calls' = [calls EXCEPT ![c] = CallsOf(a)]
          /\ reply' = [reply EXCEPT ![c] = DirectReply(a)]
          /\ pc' = [pc EXCEPT ![c] = IF CallsOf(a) = <<>> THEN "respond" ELSE "call"]
          /\ removed' = [removed EXCEPT ![c] = 0] /\ said' = [said EXCEPT ![c] = <<>>]
      BY <1>5, <1>a DEF ParseCommand, Goto
    <3>2. IsFn(calls, Conns)
      BY DEF Indebted
    <3> QED
      BY <3>1, <3>2 DEF Steady, Typed, Told, Shaped, IsFn
  <2>2. a \in Seq(STRING)
    BY <1>3, <2>1, ServerAssumption
  <2>3. CASE CallsOf(a) = <<>>
    <3>1. Agrees(a, DirectReply(a), <<>>)
      BY <2>2, <2>3, DirectAgrees
    <3>2. Responding(c)'
      BY <1>3, <2>1, <3>1 DEF Responding, Agrees
    <3>3. Handling(c)'
      BY <2>1, <2>3 DEF Handling
    <3> QED
      BY <1>1, <1>2, <3>2, <3>3
  <2>4. CASE CallsOf(a) # <<>>
    <3>1. /\ \A i \in 1 .. Len(CallsOf(a)) : IsCall(a, CallsOf(a)[i])
          /\ a \in ClientCommands /\ a[1] = "DEL" => Len(CallsOf(a)) = 1
      BY <1>3, <2>1, <2>4, CallsBelong
    <3>2. Handling(c)'
      BY <1>3, <2>1, <2>4, <3>1 DEF Handling
    <3>3. Responding(c)'
      BY <2>1, <2>4 DEF Responding
    <3> QED
      BY <1>1, <1>2, <3>2, <3>3
  <2> QED
    BY <2>3, <2>4
<1> QED
  BY <1>4, <1>5

LEMMA CallTold ==
  ASSUME Steady, Indebted, Told, NEW c \in Conns, Call(c)
  PROVE  /\ Shaped' /\ Answered(c)' /\ Handling(c)' /\ Responding(c)'
         /\ \A d \in Conns \ {c} : Untouched(d)
<1>0. [Next]_vars
  BY DEF Next, TaskStep
<1>x. PICK x, s : x = Head(calls[c]) /\ s = Tail(calls[c])
  OBVIOUS
<1>1. /\ pc[c] = "call" /\ pc' = [pc EXCEPT ![c] = "wait"]
      /\ calls' = [calls EXCEPT ![c] = s] /\ call' = [call EXCEPT ![c] = x]
      /\ phase' = [phase EXCEPT ![c] = "called"]
      /\ UNCHANGED <<res, sent, parsed, removed, reply, said, answers>>
  BY <1>x DEF Call, Engine!Begin, Goto, stream
<1>2. /\ pc'[c] = "wait" /\ calls'[c] = s /\ call'[c] = x /\ phase'[c] = "called"
      /\ removed'[c] = removed[c]
      /\ \A d \in Conns : d # c => /\ pc'[d] = pc[d] /\ calls'[d] = calls[d]
                                   /\ call'[d] = call[d] /\ phase'[d] = phase[d]
  BY <1>1 DEF Steady, Typed, Indebted, IsFn
<1>3. Shaped' /\ \A d \in Conns \ {c} : Untouched(d)
  BY <1>1, <1>2 DEF Told, Shaped, IsFn, Untouched
<1>4. Answered(c)'
  BY <1>0, <1>1, AnsweredStays DEF Told
<1>5. Args(c)' = Args(c)
  BY <1>0, <1>1, ParsedStay DEF Args
<1>6. Handling(c) /\ IsSeq(calls[c]) /\ calls[c] # <<>>
  BY <1>1 DEF Told, Indebted, Handles
<1>7. /\ IsSeq(s) /\ Len(s) = Len(calls[c]) - 1 /\ Len(calls[c]) \in Nat /\ Len(calls[c]) >= 1
      /\ x = calls[c][1] /\ \A i \in 1 .. Len(calls[c]) - 1 : s[i] = calls[c][i + 1]
  BY <1>6, <1>x, TailIsSeq
<1>8. Handling(c)'
  <2>1. IsCall(Args(c), x)
    BY <1>1, <1>6, <1>7, SMTT(30) DEF Handling
  <2>2. ASSUME NEW i \in 1 .. Len(s) PROVE IsCall(Args(c), s[i])
    <3>1. i + 1 \in 1 .. Len(calls[c]) /\ s[i] = calls[c][i + 1]
      BY <1>7, SMTT(30)
    <3> QED
      BY <1>1, <1>6, <3>1 DEF Handling
  <2>3. Args(c) \in ClientCommands /\ Args(c)[1] = "DEL" => removed[c] = 0 /\ Len(s) = 0
    BY <1>1, <1>6, <1>7, SMTT(30) DEF Handling
  <2> QED
    BY <1>2, <1>5, <2>1, <2>2, <2>3 DEF Handling
<1>9. Responding(c)'
  BY <1>2 DEF Responding
<1> QED
  BY <1>3, <1>4, <1>8, <1>9

LEMMA ReturnTold ==
  ASSUME Steady, Indebted, Told, NEW c \in Conns, Return(c)
  PROVE  /\ Shaped' /\ Answered(c)' /\ Handling(c)' /\ Responding(c)'
         /\ \A d \in Conns \ {c} : Untouched(d)
<1>0. [Next]_vars
  BY DEF Next, TaskStep
<1> DEFINE a == Args(c)
           r == res[c]
           n == removed[c] + (IF Counted(c) THEN 1 ELSE 0)
<1>1. /\ pc[c] = "wait" /\ phase[c] = "done"
      /\ removed' = [removed EXCEPT ![c] = IF call[c].op = "delete" THEN n ELSE @]
      /\ \/ /\ calls[c] # <<>> /\ pc' = [pc EXCEPT ![c] = "call"] /\ UNCHANGED <<reply, said>>
         \/ /\ calls[c] = <<>> /\ pc' = [pc EXCEPT ![c] = "respond"]
            /\ reply' = [reply EXCEPT ![c] = ReplyOf(a, r, n)]
            /\ said' = [said EXCEPT ![c] = r]
      /\ call' = [call EXCEPT ![c] = Engine!NoCall]
      /\ phase' = [phase EXCEPT ![c] = "idle"]
      /\ res' = [res EXCEPT ![c] = Engine!NoResult]
      /\ UNCHANGED <<calls, sent, parsed, answers>>
  BY DEF Return, Engine!Finish, Goto, stream
<1>2. /\ Shaped'
      /\ \A d \in Conns : d # c => /\ pc'[d] = pc[d] /\ call'[d] = call[d]
                                   /\ phase'[d] = phase[d] /\ res'[d] = res[d]
                                   /\ removed'[d] = removed[d]
                                   /\ reply'[d] = reply[d] /\ said'[d] = said[d]
  <2> HIDE DEF n
  <2> QED
    BY <1>1 DEF Steady, Typed, Told, Shaped, Indebted, IsFn
<1>3. \A d \in Conns \ {c} : Untouched(d)
  BY <1>1, <1>2 DEF Untouched
<1>4. Answered(c)'
  BY <1>0, <1>1, AnsweredStays DEF Told
<1>5. Args(c)' = a
  BY <1>0, <1>1, ParsedStay DEF Args
<1>6. /\ \A i \in 1 .. Len(calls[c]) : IsCall(a, calls[c][i])
      /\ IsCall(a, call[c]) /\ IsAnswer(call[c].op, r)
      /\ a \in ClientCommands /\ a[1] = "DEL" => removed[c] = 0 /\ Len(calls[c]) = 0
  BY <1>1 DEF Told, Handling
<1>7. CASE calls[c] # <<>>
  <2>1. pc'[c] = "call" /\ calls'[c] = calls[c]
    BY <1>1, <1>7 DEF Steady, Typed
  <2>2. Len(calls[c]) # 0
    <3>1. IsSeq(calls[c])
      BY <1>1 DEF Indebted, Handles
    <3> QED
      BY <1>7, <3>1, TailIsSeq, SMTT(30)
  <2>3. Handling(c)'
    BY <1>5, <1>6, <2>1, <2>2 DEF Handling
  <2>4. Responding(c)'
    BY <2>1 DEF Responding
  <2> QED
    BY <1>2, <1>3, <1>4, <2>3, <2>4
<1>8. CASE calls[c] = <<>>
  <2>1. pc'[c] = "respond" /\ reply'[c] = ReplyOf(a, r, n) /\ said'[c] = r
    <3> HIDE DEF n
    <3> QED
      BY <1>1, <1>8 DEF Steady, Typed, Told, Shaped, IsFn
  <2>2. Agrees(a, ReplyOf(a, r, n), r)
    <3> SUFFICES ASSUME a \in ClientCommands PROVE ResultOf(a, ReplyOf(a, r, n)) = Meaning(a, r)
      BY DEF Agrees
    <3>1. a[1] = "DEL" => n = IF r = <<"true">> THEN 1 ELSE 0
      BY ONLY <1>6, a \in ClientCommands, SMTT(30) DEF Counted, n
    <3>2. Belongs(a, call[c])
      BY <1>6 DEF IsCall
    <3> HIDE DEF n, a, r
    <3> QED
      BY <1>6, <3>1, <3>2, ReplyAgrees
  <2>3. Handling(c)'
    BY <2>1 DEF Handling
  <2>4. Responding(c)'
    BY <1>5, <2>1, <2>2 DEF Responding, Agrees
  <2> QED
    BY <1>2, <1>3, <1>4, <2>3, <2>4
<1> QED
  BY <1>7, <1>8

LEMMA WriteTold ==
  ASSUME Steady, Told, NEW c \in Conns, Write(c)
  PROVE  /\ Shaped' /\ Answered(c)' /\ Handling(c)' /\ Responding(c)'
         /\ \A d \in Conns \ {c} : Untouched(d)
<1>0. [Next]_vars
  BY DEF Next, TaskStep
<1> DEFINE e == [reply |-> reply[c], engine |-> said[c]]
<1>1. /\ answers' = [answers EXCEPT ![c] = Append(@, e)]
      /\ e.reply = reply[c] /\ e.engine = said[c]
      /\ pc[c] = "write" /\ pc' = [pc EXCEPT ![c] = "end"]
      /\ UNCHANGED <<phase, call, res, sent, parsed, calls, removed, reply, said>>
  BY DEF Write, Goto, engine, stream, handler
<1> HIDE DEF e
<1>2. Shaped' /\ \A d \in Conns \ {c} : Untouched(d)
  BY <1>1 DEF Steady, Typed, Told, Shaped, IsFn, Untouched
<1>3. /\ pc'[c] = "end" /\ answers'[c] = Append(answers[c], e) /\ IsSeq(answers[c])
  BY <1>1 DEF Steady, Typed, IsFn
<1>4. Handling(c)' /\ Responding(c)'
  BY <1>3 DEF Handling, Responding
<1>5. PICK m \in Nat : m = Len(answers[c])
  BY <1>3, SeqLength
<1>6. /\ Len(answers'[c]) = m + 1 /\ answers'[c][m + 1] = e
      /\ \A i \in 1 .. m : answers'[c][i] = answers[c][i]
  <2>1. PICK S : answers[c] \in Seq(S)
    BY <1>3 DEF IsSeq
  <2>2. answers[c] \in Seq(S \union {e}) /\ e \in S \union {e}
    BY <2>1, SMTT(30)
  <2> QED
    BY <1>3, <1>5, <2>2, SMTT(30)
<1>7. parsed[c] = m + 1
  BY <1>0, <1>1, <1>5, ParsedStay
<1>8. sent[c][m + 1] # Malformed => Agrees(sent[c][m + 1], e.reply, e.engine)
  BY <1>1, <1>7 DEF Told, Responding, Args
<1>9. Answered(c)'
  <2> SUFFICES ASSUME NEW i \in 1 .. m + 1, sent[c][i] # Malformed
               PROVE  Agrees(sent[c][i], answers'[c][i].reply, answers'[c][i].engine)
    BY <1>1, <1>6 DEF Answered, Agrees
  <2>1. CASE i = m + 1
    BY <1>6, <1>8, <2>1
  <2>2. CASE i \in 1 .. m
    BY <1>5, <1>6, <2>2 DEF Told, Answered
  <2> QED
    BY <2>1, <2>2, SMTT(30)
<1> QED
  BY <1>2, <1>4, <1>9

LEMMA ServesTold ==
  ASSUME Steady, Indebted, Told, NEW c \in Conns, EngineServes(c)
  PROVE  /\ Shaped' /\ Answered(c)' /\ Handling(c)' /\ Responding(c)'
         /\ \A d \in Conns \ {c} : Untouched(d)
<1>0. [Next]_vars
  BY DEF Next
<1>1. /\ phase[c] = "called" /\ phase' = [phase EXCEPT ![c] = "done"]
      /\ UNCHANGED <<call, pc, calls, sent, parsed, removed, reply, said, answers>>
  BY DEF EngineServes, Engine!Get, Engine!Delete, Engine!Expire, Engine!Ttl, Engine!Set,
         Engine!Miss, Engine!Effect, handler, stream
<1>2. /\ IsAnswer(call[c].op, res'[c]) /\ IsFn(res, Conns)'
      /\ \A d \in Conns \ {c} : res'[d] = res[d]
  BY EngineAnswers
<1>3. Shaped' /\ \A d \in Conns \ {c} : Untouched(d)
  BY <1>1, <1>2 DEF Steady, Typed, Told, Shaped, IsFn, Untouched
<1>4. Answered(c)'
  BY <1>0, <1>1, AnsweredStays DEF Told
<1>5. pc[c] = "wait"
  BY <1>1 DEF Steady, InStep
<1>6. Args(c)' = Args(c)
  BY <1>1 DEF Args
<1>7. Handling(c)'
  BY <1>1, <1>2, <1>5, <1>6 DEF Told, Handling
<1>8. Responding(c)'
  BY <1>1, <1>5 DEF Responding
<1> QED
  BY <1>3, <1>4, <1>7, <1>8

\* Steps that touch no command.
LEMMA RestTold ==
  ASSUME Steady, Told,
         \/ UNCHANGED vars \/ EngineTime
         \/ \E c \in Conns : \/ \E a \in Commands : Send(c, a)
                             \/ Shutdown(c) \/ ReadFail(c) \/ WriteFail(c)
                             \/ Accept(c) \/ Read(c) \/ Eof(c) \/ ParseNone(c)
                             \/ Respond(c) \/ End(c)
  PROVE  Shaped' /\ \A d \in Conns : Untouched(d)
<1>1. UNCHANGED <<phase, call, res, parsed, calls, removed, reply, said, answers>>
  BY DEF vars, engine, stream, handler, EngineTime, Engine!Lapse, Engine!Tick, Send, Shutdown,
         ReadFail, WriteFail, Accept, Read, Eof, ParseNone, Respond, End
<1>2. ASSUME NEW d \in Conns
      PROVE  \/ pc'[d] = pc[d]
             \/ pc[d] = "respond" /\ pc'[d] = "write"
             \/ pc'[d] \in {"read", "parse", "closed"}
  BY <1>2, ZenonT(30)
     DEF vars, EngineTime, Send, Shutdown, ReadFail, WriteFail, Accept, Read, Eof,
         ParseNone, Respond, End, NextPlace, Goto, Steady, Typed
<1> QED
  BY <1>1, <1>2 DEF Untouched, Told, Shaped, IsFn

LEMMA ToldNext == Steady /\ Indebted /\ Told /\ [Next]_vars => Told'
<1> SUFFICES ASSUME Steady, Indebted, Told, [Next]_vars PROVE Told'
  OBVIOUS
<1>1. Dated'
  BY DatedNext
<1>2. ASSUME NEW d \in Conns, Untouched(d) PROVE Answered(d)' /\ Handling(d)' /\ Responding(d)'
  BY <1>2, UntouchedStays DEF Told
<1>3. ASSUME NEW c \in Conns,
             \/ ParseCommand(c) \/ ParseError(c) \/ Call(c) \/ Return(c) \/ Write(c)
             \/ EngineServes(c)
      PROVE  Told'
  <2>1. /\ Shaped' /\ Answered(c)' /\ Handling(c)' /\ Responding(c)'
        /\ \A d \in Conns \ {c} : Untouched(d)
    BY <1>3, ParseTold, CallTold, ReturnTold, WriteTold, ServesTold
  <2> QED
    BY <1>1, <1>2, <2>1 DEF Told
<1>4. CASE \/ UNCHANGED vars \/ EngineTime
           \/ \E c \in Conns : \/ \E a \in Commands : Send(c, a)
                               \/ Shutdown(c) \/ ReadFail(c) \/ WriteFail(c)
                               \/ Accept(c) \/ Read(c) \/ Eof(c) \/ ParseNone(c)
                               \/ Respond(c) \/ End(c)
  <2>1. Shaped' /\ \A d \in Conns : Untouched(d)
    BY <1>4, RestTold
  <2> QED
    BY <1>1, <1>2, <2>1 DEF Told
<1> QED
  BY <1>3, <1>4 DEF Next, TaskStep

\* A client learns what the engine answered: for any commands of any connections,
\* pipelined or not, the i-th response is to the i-th command, and what the method
\* makes of it is what the engine said.
THEOREM ClientLearnsAnswer == Spec => []ClientAgrees
<1>1. Told => ClientAgrees
  BY DEF Told, Answered, Agrees, ClientAgrees, Taken
<1> QED
  BY <1>1, SteadyInit, SteadyNext, IndebtedInit, IndebtedNext, ToldInit, ToldNext, PTL DEF Spec

-----------------------------------------------------------------------------
(* What is removed was stored. *)

\* The keys that responses claim, and that handlers under way have counted; the
\* values that commands store.
Claims == [c \in Conns |-> Claimed(c)]
Tally  == [c \in Conns |-> IF pc[c] \in {"call", "wait", "respond", "write"}
                             THEN removed[c] ELSE 0]
Stores == [c \in Conns |-> Cardinality({i \in Taken(c, parsed[c]) : IsSet(sent[c][i])})]

\* The tasks whose delete has removed a key that they have not counted yet, and
\* those that have a value to store.
Deleting ==
    {c \in Conns : pc[c] = "wait" /\ phase[c] = "done" /\ call[c].op = "delete"
                   /\ res[c] = <<"true">>}
Storing ==
    {c \in Conns : \/ pc[c] = "call" /\ calls[c][1].op = "set"
                   \/ pc[c] = "wait" /\ phase[c] = "called" /\ call[c].op = "set"}

Live == {k \in Keys : store[k] # Absent}

\* Every key claimed, counted, removed or still in the map, and every value on its
\* way there, is one of a SET of its own.
Conserved ==
    Total(Claims) + Total(Tally) + Cardinality(Deleting) + Cardinality(Storing)
      + Cardinality(Live) <= Total(Stores)

\* The count in a response to DEL is that of its handler.
CountedReply(c) ==
    pc[c] \in {"respond", "write"} /\ Args(c) # Malformed /\ Args(c) # <<>>
      /\ Args(c)[1] = "DEL" => reply[c].int = removed[c]
Claiming(c) ==
    \A i \in Taken(c, Len(answers[c])) :
        sent[c][i][1] = "DEL" => answers[c][i].reply.int \in Nat

Numbered ==
    /\ removed \in [Conns -> Nat]
    /\ \A c \in Conns : CountedReply(c) /\ Claiming(c)

LEMMA NumberedInit == Init => Numbered
<1> SUFFICES ASSUME Init PROVE Numbered
  OBVIOUS
<1>1. \A c \in Conns : Len(answers[c]) = 0
  BY EmptyIsSeq DEF Init
<1> QED
  BY <1>1, SMTT(30) DEF Init, Numbered, CountedReply, Claiming, Taken

\* The commands answered stay where they are.
LEMMA TakenStays ==
  ASSUME Steady, [Next]_vars, NEW c \in Conns, answers'[c] = answers[c]
  PROVE  /\ Taken(c, Len(answers[c]))' = Taken(c, Len(answers[c]))
         /\ \A i \in Taken(c, Len(answers[c])) : sent'[c][i] = sent[c][i]
<1>1. \A i \in 1 .. Len(answers[c]) : sent'[c][i] = sent[c][i]
  BY ParsedStay, SMTT(30)
<1> QED
  BY <1>1 DEF Taken

LEMMA ClaimingStays ==
  ASSUME Steady, [Next]_vars, NEW c \in Conns, answers'[c] = answers[c], Claiming(c)
  PROVE  Claiming(c)'
  BY TakenStays DEF Claiming

LEMMA NumberedQuiet ==
  ASSUME Steady, [Next]_vars, NEW c \in Conns, CountedReply(c), Claiming(c), Untouched(c),
         pc'[c] \in {"respond", "write"} => removed'[c] = removed[c]
  PROVE  CountedReply(c)' /\ Claiming(c)'
<1>1. Claiming(c)'
  BY ClaimingStays DEF Untouched
<1>2. CASE pc'[c] \in {"respond", "write"}
  <2>1. Args(c)' = Args(c)
    BY <1>2, ParsedStay DEF Untouched, Args
  <2> QED
    BY <1>1, <1>2, <2>1 DEF Untouched, CountedReply
<1>3. CASE pc'[c] \notin {"respond", "write"}
  BY <1>1, <1>3 DEF CountedReply
<1> QED
  BY <1>2, <1>3

LEMMA NumberedNext == Steady /\ Indebted /\ Told /\ Numbered /\ [Next]_vars => Numbered'
<1> SUFFICES ASSUME Steady, Indebted, Told, Numbered, [Next]_vars PROVE Numbered'
  OBVIOUS
<1>0. ASSUME NEW d \in Conns, Untouched(d), removed'[d] = removed[d]
      PROVE  CountedReply(d)' /\ Claiming(d)'
  BY <1>0, NumberedQuiet DEF Numbered
<1>1. ASSUME NEW c \in Conns, ParseCommand(c) \/ ParseError(c) PROVE Numbered'
  <2>1. removed' = [removed EXCEPT ![c] = 0] /\ answers' = answers
    BY <1>1 DEF ParseCommand, ParseError
  <2>2. removed' \in [Conns -> Nat] /\ removed'[c] = 0
        /\ \A d \in Conns \ {c} : removed'[d] = removed[d]
    BY <2>1 DEF Numbered
  <2>3. \A d \in Conns \ {c} : CountedReply(d)' /\ Claiming(d)'
    BY <1>0, <1>1, <2>2, ParseTold
  <2>4. Claiming(c)'
    BY <2>1, ClaimingStays DEF Numbered
  <2>5. CountedReply(c)'
    <3>1. CASE ParseError(c)
      <4>1. Args(c)' = Malformed
        BY <3>1 DEF ParseError, Args, Steady, Typed
      <4> QED
        BY <4>1 DEF CountedReply
    <3>2. CASE ParseCommand(c)
      <4>a. PICK a : a = sent[c][parsed[c] + 1]
        OBVIOUS
      <4>1. /\ Args(c)' = a /\ a # Malformed /\ reply'[c] = DirectReply(a)
        <5>1. parsed'[c] = parsed[c] + 1 /\ sent' = sent
          BY <3>2 DEF ParseCommand, Steady, Typed
        <5>2. a # Malformed /\ reply' = [reply EXCEPT ![c] = DirectReply(a)]
          BY <3>2, <4>a DEF ParseCommand
        <5> QED
          BY <4>a, <5>1, <5>2 DEF Args, Told, Shaped, IsFn
      <4>2. a # <<>> /\ a[1] = "DEL" => DirectReply(a) = Error
        <5>1. a = <<"PING">> => a[1] = "PING"
          BY SMTT(30)
        <5> QED
          BY <5>1 DEF DirectReply
      <4> QED
        BY <2>2, <4>1, <4>2, SMTT(30) DEF CountedReply, Error
    <3> QED
      BY <1>1, <3>1, <3>2
  <2> QED
    BY <2>2, <2>3, <2>4, <2>5 DEF Numbered
<1>2. ASSUME NEW c \in Conns, Return(c) PROVE Numbered'
  <2> DEFINE n == removed[c] + (IF Counted(c) THEN 1 ELSE 0)
  <2>0. n \in Nat
    BY SMTT(30) DEF Numbered
  <2>1. /\ removed' = [removed EXCEPT ![c] = IF call[c].op = "delete" THEN n ELSE @]
        /\ answers' = answers /\ pc[c] = "wait"
        /\ \/ pc'[c] = "call"
           \/ reply' = [reply EXCEPT ![c] = ReplyOf(Args(c), res[c], n)]
    BY <1>2 DEF Return, Goto, Steady, Typed
  <2> HIDE DEF n
  <2>2. /\ removed' \in [Conns -> Nat] /\ (call[c].op = "delete" => removed'[c] = n)
        /\ \A d \in Conns \ {c} : removed'[d] = removed[d]
    BY <2>0, <2>1 DEF Numbered
  <2>3. \A d \in Conns \ {c} : CountedReply(d)' /\ Claiming(d)'
    BY <1>0, <1>2, <2>2, ReturnTold
  <2>4. Claiming(c)'
    BY <2>1, ClaimingStays DEF Numbered
  <2>5. CountedReply(c)'
    <3>1. CASE pc'[c] = "call"
      BY <3>1 DEF CountedReply
    <3>2. CASE reply' = [reply EXCEPT ![c] = ReplyOf(Args(c), res[c], n)]
      <4>1. Args(c)' = Args(c)
        <5>1. parsed' = parsed
          BY <1>2 DEF Return, stream
        <5> QED
          BY <2>1, <5>1, ParsedStay DEF Args
      <4>2. Belongs(Args(c), call[c])
        BY <2>1 DEF Told, Handling, IsCall
      <4>3. reply'[c] = ReplyOf(Args(c), res[c], n)
        BY <3>2 DEF Told, Shaped, IsFn
      <4>4. Args(c)[1] = "DEL" => removed'[c] = n /\ reply'[c].int = n
        <5> SUFFICES ASSUME Args(c)[1] = "DEL" PROVE removed'[c] = n /\ reply'[c].int = n
          OBVIOUS
        <5>1. call[c].op = "delete"
          BY <4>2 DEF Belongs
        <5>2. ReplyOf(Args(c), res[c], n) = Integer(n)
          BY DEF ReplyOf
        <5>3. Integer(n).int = n
          BY DEF Integer
        <5>4. removed'[c] = n
          BY <2>2, <5>1
        <5> QED
          BY <4>3, <5>2, <5>3, <5>4
      <4> QED
        BY <4>1, <4>4 DEF CountedReply
    <3> QED
      BY <2>1, <3>1, <3>2
  <2> QED
    BY <2>2, <2>3, <2>4, <2>5 DEF Numbered
<1>3. ASSUME NEW c \in Conns, Write(c) PROVE Numbered'
  <2> DEFINE e == [reply |-> reply[c], engine |-> said[c]]
  <2>1. /\ answers' = [answers EXCEPT ![c] = Append(@, e)] /\ e.reply = reply[c]
        /\ pc[c] = "write" /\ pc'[c] = "end"
        /\ UNCHANGED <<sent, parsed, removed>>
    BY <1>3 DEF Write, Goto, stream, handler, Steady, Typed
  <2> HIDE DEF e
  <2>2. \A d \in Conns \ {c} : CountedReply(d)' /\ Claiming(d)'
    BY <1>0, <1>3, <2>1, WriteTold
  <2>3. CountedReply(c)'
    BY <2>1 DEF CountedReply
  <2>4. PICK m \in Nat : m = Len(answers[c])
    BY SeqLength DEF Steady, Typed
  <2>5. /\ Len(answers'[c]) = m + 1 /\ answers'[c][m + 1] = e
        /\ \A i \in 1 .. m : answers'[c][i] = answers[c][i]
    <3>1. PICK S : answers[c] \in Seq(S)
      BY DEF Steady, Typed, IsSeq
    <3>2. answers[c] \in Seq(S \union {e}) /\ e \in S \union {e}
      BY <3>1, SMTT(30)
    <3>3. answers'[c] = Append(answers[c], e)
      BY <2>1 DEF Steady, Typed, IsFn
    <3> QED
      BY <2>4, <3>2, <3>3, SMTT(30)
  <2>6. parsed[c] = m + 1
    BY <2>1, <2>4, ParsedStay
  <2>7. Claiming(c)'
    <3> SUFFICES ASSUME NEW i \in 1 .. m + 1, sent[c][i] # Malformed, sent[c][i] # <<>>,
                        sent[c][i][1] = "DEL"
                 PROVE  answers'[c][i].reply.int \in Nat
      BY <2>1, <2>5 DEF Claiming, Taken
    <3>1. CASE i = m + 1
      <4>1. reply[c].int = removed[c]
        BY <2>1, <2>6, <3>1 DEF Numbered, CountedReply, Args
      <4> QED
        BY <2>1, <2>5, <3>1, <4>1, SMTT(30) DEF Numbered
    <3>2. CASE i \in 1 .. m
      <4>1. i \in Taken(c, Len(answers[c]))
        BY <2>4, <3>2 DEF Taken
      <4> QED
        BY <2>5, <3>2, <4>1 DEF Numbered, Claiming
    <3> QED
      BY <3>1, <3>2, SMTT(30)
  <2> QED
    BY <2>1, <2>2, <2>3, <2>7 DEF Numbered
<1>4. ASSUME NEW c \in Conns, Call(c) PROVE Numbered'
  <2>1. removed' = removed /\ answers' = answers /\ pc'[c] = "wait"
    BY <1>4 DEF Call, Goto, Steady, Typed
  <2>2. \A d \in Conns \ {c} : CountedReply(d)' /\ Claiming(d)'
    BY <1>0, <1>4, <2>1, CallTold
  <2>3. CountedReply(c)' /\ Claiming(c)'
    BY <2>1, ClaimingStays DEF CountedReply, Numbered
  <2> QED
    BY <2>1, <2>2, <2>3 DEF Numbered
<1>5. ASSUME NEW c \in Conns, EngineServes(c) PROVE Numbered'
  <2>1. UNCHANGED <<removed, answers, pc>> /\ pc[c] = "wait"
    <3>1. phase[c] = "called" /\ UNCHANGED <<removed, answers, pc>>
      BY <1>5 DEF EngineServes, Engine!Get, Engine!Delete, Engine!Expire, Engine!Ttl,
           Engine!Set, Engine!Miss, Engine!Effect, handler
    <3> QED
      BY <3>1 DEF Steady, InStep
  <2>2. \A d \in Conns \ {c} : CountedReply(d)' /\ Claiming(d)'
    BY <1>0, <1>5, <2>1, ServesTold
  <2>3. CountedReply(c)' /\ Claiming(c)'
    BY <2>1, ClaimingStays DEF CountedReply, Numbered
  <2> QED
    BY <2>1, <2>2, <2>3 DEF Numbered
<1>6. CASE \/ UNCHANGED vars \/ EngineTime
           \/ \E c \in Conns : \/ \E a \in Commands : Send(c, a)
                               \/ Shutdown(c) \/ ReadFail(c) \/ WriteFail(c)
                               \/ Accept(c) \/ Read(c) \/ Eof(c) \/ ParseNone(c)
                               \/ Respond(c) \/ End(c)
  <2>1. removed' = removed
    BY <1>6 DEF vars, handler, EngineTime, Send, Shutdown, ReadFail, WriteFail, Accept, Read,
         Eof, ParseNone, Respond, End
  <2>2. \A d \in Conns : Untouched(d)
    BY <1>6, RestTold
  <2> QED
    BY <1>0, <2>1, <2>2 DEF Numbered
<1> QED
  BY <1>1, <1>2, <1>3, <1>4, <1>5, <1>6 DEF Next, TaskStep

\* What one connection contributes.
Amounts == Claims \in [Conns -> Nat] /\ Tally \in [Conns -> Nat] /\ Stores \in [Conns -> Nat]
Weight(c) == Claims[c] + Tally[c] + In(c \in Deleting) + In(c \in Storing)

LEMMA AmountsTyped == Steady /\ Numbered => Amounts
<1> SUFFICES ASSUME Steady, Numbered PROVE Amounts
  OBVIOUS
<1>1. ASSUME NEW c \in Conns, NEW n \in Nat PROVE IsFiniteSet(Taken(c, n))
  <2>1. IsFiniteSet(1 .. n)
    BY CountFinite
  <2> QED
    BY <2>1, FS_Subset DEF Taken
<1>2. ASSUME NEW c \in Conns PROVE Claimed(c) \in Nat
  <2> DEFINE T == Taken(c, Len(answers[c]))
             f == [i \in T |-> IF sent[c][i][1] = "DEL" THEN answers[c][i].reply.int ELSE 0]
  <2>1. Len(answers[c]) \in Nat
    BY SeqLength DEF Steady, Typed
  <2>2. IsFiniteSet(T)
    BY <1>1, <2>1
  <2>3. f \in [T -> Nat]
    BY DEF Numbered, Claiming
  <2>4. Claimed(c) = Total(f)
    BY DEF Claimed
  <2> HIDE DEF f, T
  <2> QED
    BY <2>2, <2>3, <2>4, TotalNat
<1>3. ASSUME NEW c \in Conns
      PROVE  Cardinality({i \in Taken(c, parsed[c]) : IsSet(sent[c][i])}) \in Nat
  <2>1. IsFiniteSet(Taken(c, parsed[c]))
    BY <1>1 DEF Steady, Typed
  <2> QED
    BY <2>1, FS_Subset, FS_CardinalityType
<1> QED
  BY <1>2, <1>3 DEF Amounts, Claims, Tally, Stores, Numbered

\* A connection that a step leaves alone contributes as before.
Alike(d) ==
    /\ Claims'[d] = Claims[d] /\ Tally'[d] = Tally[d] /\ Stores'[d] = Stores[d]
    /\ d \in Deleting' <=> d \in Deleting
    /\ d \in Storing' <=> d \in Storing

LEMMA ClaimsStay ==
  ASSUME Steady, [Next]_vars, NEW d \in Conns, answers'[d] = answers[d]
  PROVE  Claims'[d] = Claims[d]
<1>1. Claimed(d)' = Claimed(d)
  BY TakenStays DEF Claimed
<1> QED
  BY <1>1 DEF Claims

LEMMA StoresStay ==
  ASSUME Steady, [Next]_vars, NEW d \in Conns, parsed'[d] = parsed[d]
  PROVE  Stores'[d] = Stores[d]
<1>1. \A i \in 1 .. parsed[d] : sent'[d][i] = sent[d][i]
  BY ParsedStay
<1>2. {i \in Taken(d, parsed[d]) : IsSet(sent[d][i])}'
        = {i \in Taken(d, parsed[d]) : IsSet(sent[d][i])}
  BY <1>1 DEF Taken, IsSet
<1> QED
  BY <1>2 DEF Stores

LEMMA RestsAlike ==
  ASSUME Steady, [Next]_vars, NEW d \in Conns,
         answers'[d] = answers[d], parsed'[d] = parsed[d], pc'[d] = pc[d],
         removed'[d] = removed[d], phase'[d] = phase[d], call'[d] = call[d],
         calls'[d] = calls[d], res'[d] = res[d]
  PROVE  Alike(d)
<1>1. Claims'[d] = Claims[d] /\ Stores'[d] = Stores[d]
  BY ClaimsStay, StoresStay
<1>2. Tally'[d] = Tally[d]
  BY DEF Tally
<1>3. /\ d \in Deleting' <=> d \in Deleting
      /\ d \in Storing' <=> d \in Storing
  BY DEF Deleting, Storing
<1> QED
  BY <1>1, <1>2, <1>3 DEF Alike

\* The balance follows what the connection c contributes.
LEMMA ConservedMove ==
  ASSUME Amounts, Amounts', Conserved, NEW c \in Conns, \A d \in Conns \ {c} : Alike(d),
         Cardinality(Live) \in Nat, Cardinality(Live)' \in Nat,
         Weight(c)' + Cardinality(Live)' - (Weight(c) + Cardinality(Live))
           <= Stores'[c] - Stores[c]
  PROVE  Conserved'
<1>1. /\ Total(Claims) \in Nat /\ Total(Tally) \in Nat /\ Total(Stores) \in Nat
      /\ Total(Claims)' = Total(Claims) - Claims[c] + Claims'[c]
      /\ Total(Tally)' = Total(Tally) - Tally[c] + Tally'[c]
      /\ Total(Stores)' = Total(Stores) - Stores[c] + Stores'[c]
  BY OneCounts DEF Alike, Amounts
<1>2. ASSUME NEW A \in SUBSET Conns, NEW B \in SUBSET Conns,
             \A d \in Conns \ {c} : d \in A <=> d \in B
      PROVE  /\ Cardinality(A) \in Nat
             /\ Cardinality(B) = Cardinality(A) + In(c \in B) - In(c \in A)
  BY <1>2, OneMoves, SMTT(30) DEF In
<1>3. /\ Cardinality(Deleting) \in Nat
      /\ Cardinality(Deleting)'
           = Cardinality(Deleting) + In(c \in Deleting') - In(c \in Deleting)
  <2>1. Deleting \in SUBSET Conns /\ Deleting' \in SUBSET Conns
    BY DEF Deleting
  <2> QED
    BY <1>2, <2>1 DEF Alike
<1>4. /\ Cardinality(Storing) \in Nat
      /\ Cardinality(Storing)' = Cardinality(Storing) + In(c \in Storing') - In(c \in Storing)
  <2>1. Storing \in SUBSET Conns /\ Storing' \in SUBSET Conns
    BY DEF Storing
  <2> QED
    BY <1>2, <2>1 DEF Alike
<1>5. \A b : In(b) \in {0, 1}
  BY DEF In
<1>6. /\ Claims[c] \in Nat /\ Tally[c] \in Nat /\ Stores[c] \in Nat
      /\ Claims'[c] \in Nat /\ Tally'[c] \in Nat /\ Stores'[c] \in Nat
  BY DEF Amounts
<1> QED
  BY ONLY Conserved, <1>1, <1>3, <1>4, <1>5, <1>6, Cardinality(Live) \in Nat,
          Cardinality(Live)' \in Nat,
          Weight(c)' + Cardinality(Live)' - (Weight(c) + Cardinality(Live))
            <= Stores'[c] - Stores[c],
          SMTT(30)
     DEF Conserved, Weight

\* A step of no connection, by which the map at most loses entries.
LEMMA ConservedRest ==
  ASSUME Amounts, Amounts', Conserved, \A d \in Conns : Alike(d),
         Cardinality(Live) \in Nat, Cardinality(Live)' \in Nat,
         Cardinality(Live)' <= Cardinality(Live)
  PROVE  Conserved'
<1>1. Claims' = Claims /\ Tally' = Tally /\ Stores' = Stores
  BY SMTT(30) DEF Alike, Amounts
<1>2. Deleting' = Deleting /\ Storing' = Storing
  <2>1. /\ Deleting \subseteq Conns /\ Deleting' \subseteq Conns
        /\ Storing \subseteq Conns /\ Storing' \subseteq Conns
    BY DEF Deleting, Storing
  <2> QED
    BY <2>1 DEF Alike
<1>3. /\ Total(Claims) \in Nat /\ Total(Tally) \in Nat /\ Total(Stores) \in Nat
  BY TotalNat, ServerAssumption DEF Amounts
<1>4. Cardinality(Deleting) \in Nat /\ Cardinality(Storing) \in Nat
  <2>1. IsFiniteSet(Deleting) /\ IsFiniteSet(Storing)
    BY ServerAssumption, FS_Subset DEF Deleting, Storing
  <2> QED
    BY <2>1, FS_CardinalityType
<1>5. /\ Total(Claims)' = Total(Claims) /\ Total(Tally)' = Total(Tally)
      /\ Total(Stores)' = Total(Stores)
      /\ Cardinality(Deleting)' = Cardinality(Deleting)
      /\ Cardinality(Storing)' = Cardinality(Storing)
  BY <1>1, <1>2
<1> QED
  BY <1>3, <1>4, <1>5, SMTT(30) DEF Conserved

Balanced == IsFiniteSet(Live) /\ Conserved

LEMMA BalancedInit == Init => Balanced
<1> SUFFICES ASSUME Init PROVE Balanced
  OBVIOUS
<1>1. Live = {} /\ Deleting = {} /\ Storing = {}
  BY DEF Init, Engine!Init, Live, Deleting, Storing
<1>2. Amounts
  BY SteadyInit, NumberedInit, AmountsTyped
<1>3. ASSUME NEW c \in Conns PROVE Claims[c] = 0 /\ Tally[c] = 0
  <2>1. Taken(c, Len(answers[c])) = {}
    BY EmptyIsSeq, SMTT(30) DEF Init, Taken
  <2> DEFINE f == [i \in Taken(c, Len(answers[c])) |->
                     IF sent[c][i][1] = "DEL" THEN answers[c][i].reply.int ELSE 0]
  <2>2. f \in [{} -> Nat]
    BY <2>1
  <2>3. Claimed(c) = Total(f)
    BY DEF Claimed
  <2>4. Total(f) = 0
    <3> HIDE DEF f
    <3> QED
      BY <2>2, TotalZero
  <2> QED
    BY <2>3, <2>4 DEF Claims, Tally, Init
<1>4. Total(Claims) = 0 /\ Total(Tally) = 0 /\ Total(Stores) \in Nat
  BY <1>2, <1>3, TotalZero, TotalNat, ServerAssumption DEF Amounts
<1>5. IsFiniteSet({}) /\ Cardinality({}) = 0
  BY FS_EmptySet
<1>6. /\ Cardinality(Live) = 0 /\ Cardinality(Deleting) = 0 /\ Cardinality(Storing) = 0
      /\ IsFiniteSet(Live)
  BY <1>1, <1>5
<1> QED
  BY <1>4, <1>6, SMTT(30) DEF Balanced, Conserved

LEMMA LiveShrinks ==
  ASSUME IsFiniteSet(Live), \A k \in Keys : store'[k] \in {store[k], Absent}
  PROVE  /\ IsFiniteSet(Live') /\ Cardinality(Live)' \in Nat /\ Cardinality(Live) \in Nat
         /\ Cardinality(Live)' <= Cardinality(Live)
<1>1. Live' \subseteq Live
  BY DEF Live
<1> QED
  BY <1>1, FS_Subset, FS_CardinalityType

\* Where c is counted.
LEMMA Weighed ==
  ASSUME NEW c \in Conns
  PROVE  /\ Tally[c] = IF pc[c] \in {"call", "wait", "respond", "write"} THEN removed[c] ELSE 0
         /\ c \in Deleting <=> /\ pc[c] = "wait" /\ phase[c] = "done"
                               /\ call[c].op = "delete" /\ res[c] = <<"true">>
         /\ c \in Storing <=> \/ pc[c] = "call" /\ calls[c][1].op = "set"
                              \/ pc[c] = "wait" /\ phase[c] = "called" /\ call[c].op = "set"
  BY DEF Tally, Deleting, Storing

LEMMA WeighedNext ==
  ASSUME NEW c \in Conns
  PROVE  /\ Tally'[c] = IF pc'[c] \in {"call", "wait", "respond", "write"} THEN removed'[c] ELSE 0
         /\ c \in Deleting' <=> /\ pc'[c] = "wait" /\ phase'[c] = "done"
                                /\ call'[c].op = "delete" /\ res'[c] = <<"true">>
         /\ c \in Storing' <=> \/ pc'[c] = "call" /\ calls'[c][1].op = "set"
                               \/ pc'[c] = "wait" /\ phase'[c] = "called" /\ call'[c].op = "set"
  BY DEF Tally, Deleting, Storing

\* A step of c outside the engine that makes no response and is no new command.
LEMMA TaskBalanced ==
  ASSUME Steady, Indebted, Told, Numbered, Amounts, Amounts', Balanced, [Next]_vars,
         NEW c \in Conns,
         \/ ReadFail(c) \/ WriteFail(c) \/ Accept(c) \/ Read(c) \/ Eof(c) \/ ParseNone(c)
         \/ Respond(c) \/ End(c)
  PROVE  Balanced'
<1>1. /\ UNCHANGED <<store, phase, call, res, parsed, calls, removed, answers>>
      /\ \A d \in Conns : d # c => pc'[d] = pc[d]
      /\ pc[c] \notin {"call", "wait"} /\ pc'[c] \notin {"call", "wait"}
      /\ pc'[c] \in {"respond", "write"} => pc[c] \in {"respond", "write"}
  BY DEF engine, stream, handler, ReadFail, WriteFail, Accept, Read, Eof, ParseNone, Respond,
         End, NextPlace, Goto, Steady, Typed
<1>2. \A d \in Conns \ {c} : Alike(d)
  BY <1>1, RestsAlike
<1>3. Claims'[c] = Claims[c] /\ Stores'[c] = Stores[c]
  BY <1>1, ClaimsStay, StoresStay
<1>4. Live' = Live /\ Cardinality(Live) \in Nat
  BY <1>1, FS_CardinalityType DEF Live, Balanced
<1>5. removed[c] \in Nat /\ removed'[c] = removed[c]
  BY <1>1 DEF Numbered
<1>6. /\ Tally'[c] = Tally[c] \/ Tally'[c] = 0
      /\ c \notin Deleting /\ c \notin Deleting' /\ c \notin Storing /\ c \notin Storing'
  BY <1>1, <1>5, Weighed, WeighedNext
<1>7. Claims[c] \in Nat /\ Tally[c] \in Nat /\ Tally'[c] \in Nat /\ Stores[c] \in Nat
  BY DEF Amounts
<1>8. Weight(c)' + Cardinality(Live)' - (Weight(c) + Cardinality(Live)) <= Stores'[c] - Stores[c]
  <2>1. Weight(c) = Claims[c] + Tally[c] + 0 + 0 /\ Weight(c)' = Claims[c] + Tally'[c] + 0 + 0
    BY <1>3, <1>6 DEF Weight, In
  <2> QED
    BY ONLY <1>3, <1>4, <1>6, <1>7, <2>1, SMTT(30)
<1> QED
  BY <1>2, <1>4, <1>8, ConservedMove DEF Balanced

LEMMA IdleBalanced ==
  ASSUME Steady, Indebted, Told, Numbered, Amounts, Amounts', Balanced, [Next]_vars,
         \/ UNCHANGED vars \/ EngineTime
         \/ \E c \in Conns : (\E a \in Commands : Send(c, a)) \/ Shutdown(c)
  PROVE  Balanced'
<1>1. UNCHANGED <<phase, call, res, pc, parsed, calls, removed, answers>>
  BY DEF vars, engine, stream, handler, EngineTime, Engine!Lapse, Engine!Tick, Send, Shutdown
<1>2. \A k \in Keys : store'[k] \in {store[k], Absent}
  BY DEF vars, engine, stream, handler, EngineTime, Engine!Lapse, Engine!Tick, Send, Shutdown,
         Indebted, IsFn
<1>3. \A d \in Conns : Alike(d)
  BY <1>1, RestsAlike
<1> QED
  BY <1>2, <1>3, LiveShrinks, ConservedRest DEF Balanced

\* A command more that stores.
LEMMA StoresGrow ==
  ASSUME Steady, NEW c \in Conns, ParseCommand(c) \/ ParseError(c)
  PROVE  LET a == sent[c][parsed[c] + 1] IN
         /\ Stores'[c] >= Stores[c]
         /\ a # Malformed /\ a # <<>> /\ IsSet(a) => Stores'[c] = Stores[c] + 1
<1> DEFINE n == parsed[c]
           a == sent[c][n + 1]
           S == {i \in Taken(c, n) : IsSet(sent[c][i])}
           T == {i \in Taken(c, n + 1) : IsSet(sent[c][i])}
<1>1. n \in Nat /\ parsed'[c] = n + 1 /\ sent' = sent
  BY DEF ParseCommand, ParseError, Steady, Typed
<1>2. IsFiniteSet(1 .. n) /\ IsFiniteSet(1 .. n + 1)
  BY <1>1, CountFinite, CountNext
<1>3. IsFiniteSet(S) /\ IsFiniteSet(T) /\ S \subseteq T /\ n + 1 \notin S
  <2>1. n + 1 \notin 1 .. n /\ \A i \in 1 .. n : i \in 1 .. n + 1
    BY ONLY <1>1, SMTT(30)
  <2>2. S \subseteq T
    <3>1. ASSUME NEW i \in Taken(c, n) PROVE i \in Taken(c, n + 1)
      BY <2>1 DEF Taken
    <3> QED
      BY <3>1
  <2>3. S \subseteq 1 .. n
    BY DEF Taken
  <2>4. T \subseteq 1 .. n + 1
    BY DEF Taken
  <2> HIDE DEF S, T
  <2> QED
    BY <1>2, <2>1, <2>2, <2>3, <2>4, FS_Subset
<1>4. Cardinality(S) \in Nat /\ Cardinality(T) \in Nat /\ Cardinality(S) <= Cardinality(T)
  BY <1>3, FS_Subset, FS_CardinalityType
<1>5. ASSUME a # Malformed, a # <<>>, IsSet(a) PROVE Cardinality(T) = Cardinality(S) + 1
  <2>1. T = S \union {n + 1}
    BY <1>1, <1>5, CountNext DEF Taken
  <2> HIDE DEF S, T
  <2> QED
    BY <1>3, <2>1, FS_AddElement
<1>6. Stores[c] = Cardinality(S)
  BY DEF Stores
<1>7. Stores'[c] = Cardinality(T)
  BY <1>1 DEF Stores, Taken, IsSet
<1> QED
  BY <1>4, <1>5, <1>6, <1>7

LEMMA ParseBalanced ==
  ASSUME Steady, Indebted, Told, Numbered, Amounts, Amounts', Balanced,
         NEW c \in Conns, ParseCommand(c) \/ ParseError(c)
  PROVE  Balanced'
<1>0. [Next]_vars
  BY DEF Next, TaskStep
<1>1. /\ UNCHANGED <<store, phase, call, res, answers>>
      /\ pc[c] = "parse" /\ pc'[c] \in {"call", "respond", "write"}
      /\ removed'[c] = 0
      /\ \A d \in Conns : d # c => /\ pc'[d] = pc[d] /\ parsed'[d] = parsed[d]
                                   /\ calls'[d] = calls[d] /\ removed'[d] = removed[d]
  BY DEF engine, ParseCommand, ParseError, Goto, Steady, Typed, Indebted, Numbered, IsFn
<1>2. \A d \in Conns \ {c} : Alike(d)
  BY <1>0, <1>1, RestsAlike
<1>3. Claims'[c] = Claims[c]
  BY <1>0, <1>1, ClaimsStay
<1>4. Live' = Live /\ Cardinality(Live) \in Nat
  BY <1>1, FS_CardinalityType DEF Live, Balanced
<1>5. /\ Tally'[c] = 0 /\ Tally[c] = 0
      /\ c \notin Deleting /\ c \notin Deleting' /\ c \notin Storing
      /\ c \in Storing' <=> pc'[c] = "call" /\ calls'[c][1].op = "set"
  BY <1>1, Weighed, WeighedNext
<1>6. Stores[c] \in Nat /\ Stores'[c] \in Nat /\ Stores'[c] - Stores[c] >= In(c \in Storing')
  <2>1. Stores[c] \in Nat /\ Stores'[c] \in Nat /\ Stores'[c] >= Stores[c]
    BY StoresGrow DEF Amounts
  <2>2. ASSUME c \in Storing' PROVE Stores'[c] = Stores[c] + 1
    <3>a. PICK a : a = sent[c][parsed[c] + 1]
      OBVIOUS
    <3>1. pc'[c] = "call" /\ calls'[c][1].op = "set"
      BY <1>5, <2>2
    <3>2. ParseCommand(c)
      BY <3>1 DEF ParseError, Goto, Steady, Typed
    <3>3. /\ a # Malformed /\ calls' = [calls EXCEPT ![c] = CallsOf(a)]
          /\ pc' = [pc EXCEPT ![c] = IF CallsOf(a) = <<>> THEN "respond" ELSE "call"]
      BY <3>2, <3>a DEF ParseCommand, Goto
    <3>4. calls'[c] = CallsOf(a) /\ CallsOf(a) # <<>>
      BY <3>1, <3>3 DEF Steady, Typed, Indebted, IsFn
    <3>5. a \in Commands
      <4>1. parsed[c] + 1 \in 1 .. Len(sent[c]) /\ sent[c] \in Seq(Commands)
        BY SMTT(30) DEF ParseCommand, ParseError, Steady, Typed, InStep
      <4> QED
        BY <3>a, <4>1, ItemOf
    <3>6. a \in Seq(STRING) /\ IsSeq(CallsOf(a))
      BY <3>3, <3>4, <3>5, CallsOfCommand, ServerAssumption
    <3>7. Len(CallsOf(a)) \in Nat /\ Len(CallsOf(a)) >= 1
      BY <3>4, <3>6, TailIsSeq
    <3>8. IsCall(a, CallsOf(a)[1])
      BY <3>3, <3>4, <3>5, <3>7, CallsBelong, FirstCounts
    <3>9. IsSet(a)
      BY <3>1, <3>4, <3>8 DEF IsCall, Belongs, IsSet
    <3>10. a # <<>>
      <4>1. Len(a) = 0 => CallsOf(a) = <<>>
        BY SMTT(30) DEF CallsOf
      <4> QED
        BY <3>4, <4>1, EmptyIsSeq
    <3> QED
      BY <3>a, <3>3, <3>9, <3>10, StoresGrow
  <2> QED
    BY <2>1, <2>2, SMTT(30) DEF In
<1>7. Claims[c] \in Nat
  BY DEF Amounts
<1>8. Weight(c)' + Cardinality(Live)' - (Weight(c) + Cardinality(Live)) <= Stores'[c] - Stores[c]
  <2>1. /\ Weight(c) = Claims[c] + 0 + 0 + 0
        /\ Weight(c)' = Claims[c] + 0 + 0 + In(c \in Storing')
        /\ In(c \in Storing') \in {0, 1}
    BY <1>3, <1>5 DEF Weight, In
  <2> QED
    BY ONLY <1>4, <1>6, <1>7, <2>1, SMTT(30)
<1> QED
  BY <1>2, <1>4, <1>8, ConservedMove DEF Balanced

LEMMA CallBalanced ==
  ASSUME Steady, Indebted, Told, Numbered, Amounts, Amounts', Balanced,
         NEW c \in Conns, Call(c)
  PROVE  Balanced'
<1>0. [Next]_vars
  BY DEF Next, TaskStep
<1>x. PICK x, s : x = Head(calls[c]) /\ s = Tail(calls[c])
  OBVIOUS
<1>1. /\ UNCHANGED <<store, res, answers, parsed, removed>>
      /\ pc[c] = "call" /\ pc'[c] = "wait" /\ phase'[c] = "called" /\ call'[c] = x
      /\ \A d \in Conns : d # c => /\ pc'[d] = pc[d] /\ phase'[d] = phase[d]
                                   /\ calls'[d] = calls[d] /\ call'[d] = call[d]
  BY <1>x DEF Call, Engine!Begin, Goto, stream, Steady, Typed, Indebted, IsFn
<1>2. \A d \in Conns \ {c} : Alike(d)
  BY <1>0, <1>1, RestsAlike
<1>3. Claims'[c] = Claims[c] /\ Stores'[c] = Stores[c]
  BY <1>0, <1>1, ClaimsStay, StoresStay
<1>4. Live' = Live /\ Cardinality(Live) \in Nat
  BY <1>1, FS_CardinalityType DEF Live, Balanced
<1>5. x = calls[c][1]
  <2>1. IsSeq(calls[c]) /\ calls[c] # <<>>
    BY <1>1 DEF Indebted, Handles
  <2> QED
    BY <1>x, <2>1, TailIsSeq
<1>6. /\ Tally'[c] = Tally[c] /\ c \notin Deleting /\ c \notin Deleting'
      /\ c \in Storing' <=> c \in Storing
  <2>1. Tally'[c] = Tally[c]
    BY <1>1 DEF Tally
  <2>2. c \notin Deleting /\ c \notin Deleting'
    BY <1>1 DEF Deleting
  <2>3. c \in Storing' <=> c \in Storing
    BY <1>1, <1>5 DEF Storing
  <2> QED
    BY <2>1, <2>2, <2>3
<1>7. Weight(c)' = Weight(c) /\ Weight(c) \in Nat /\ Stores[c] \in Nat
  <2>1. Claims[c] \in Nat /\ Tally[c] \in Nat /\ Stores[c] \in Nat
    BY DEF Amounts
  <2>2. /\ Weight(c) = Claims[c] + Tally[c] + 0 + In(c \in Storing)
        /\ Weight(c)' = Claims[c] + Tally[c] + 0 + In(c \in Storing)
        /\ In(c \in Storing) \in {0, 1}
    BY <1>3, <1>6 DEF Weight, In
  <2> QED
    BY ONLY <2>1, <2>2, SMTT(30)
<1>8. Weight(c)' + Cardinality(Live)' - (Weight(c) + Cardinality(Live)) <= Stores'[c] - Stores[c]
  BY ONLY <1>3, <1>4, <1>7, SMTT(30)
<1> QED
  BY <1>2, <1>4, <1>8, ConservedMove DEF Balanced

LEMMA ReturnBalanced ==
  ASSUME Steady, Indebted, Told, Numbered, Amounts, Amounts', Balanced,
         NEW c \in Conns, Return(c)
  PROVE  Balanced'
<1>0. [Next]_vars
  BY DEF Next, TaskStep
<1> DEFINE n == removed[c] + (IF Counted(c) THEN 1 ELSE 0)
<1>1. /\ UNCHANGED <<store, answers, parsed, calls>>
      /\ pc[c] = "wait" /\ phase[c] = "done" /\ phase'[c] = "idle"
      /\ \/ calls[c] # <<>> /\ pc'[c] = "call"
         \/ pc'[c] = "respond"
      /\ removed'[c] = IF call[c].op = "delete" THEN n ELSE removed[c]
      /\ \A d \in Conns : d # c => /\ pc'[d] = pc[d] /\ phase'[d] = phase[d]
                                   /\ removed'[d] = removed[d]
                                   /\ call'[d] = call[d] /\ res'[d] = res[d]
  <2>1. /\ removed' = [removed EXCEPT ![c] = IF call[c].op = "delete" THEN n ELSE @]
        /\ pc[c] = "wait" /\ phase[c] = "done"
        /\ \/ calls[c] # <<>> /\ pc' = [pc EXCEPT ![c] = "call"]
           \/ pc' = [pc EXCEPT ![c] = "respond"]
        /\ call' = [call EXCEPT ![c] = Engine!NoCall]
        /\ phase' = [phase EXCEPT ![c] = "idle"]
        /\ res' = [res EXCEPT ![c] = Engine!NoResult]
        /\ UNCHANGED <<store, answers, parsed, calls>>
    BY DEF Return, Engine!Finish, Goto, stream
  <2> HIDE DEF n
  <2> QED
    BY <2>1 DEF Steady, Typed, Indebted, Told, Shaped, Numbered, IsFn
<1>2. \A d \in Conns \ {c} : Alike(d)
  BY <1>0, <1>1, RestsAlike
<1>3. Claims'[c] = Claims[c] /\ Stores'[c] = Stores[c]
  BY <1>0, <1>1, ClaimsStay, StoresStay
<1>4. Live' = Live /\ Cardinality(Live) \in Nat
  BY <1>1, FS_CardinalityType DEF Live, Balanced
<1>5. pc'[c] = "call" => calls'[c][1].op # "set"
  <2> SUFFICES ASSUME pc'[c] = "call" PROVE calls[c][1].op # "set"
    BY <1>1
  <2>1. /\ IsSeq(calls[c]) /\ calls[c] # <<>>
        /\ \A i \in 1 .. Len(calls[c]) : Harmless(calls[c][i])
    BY <1>1 DEF Indebted, Handles
  <2>2. Len(calls[c]) \in Nat /\ Len(calls[c]) >= 1
    BY <2>1, TailIsSeq
  <2>3. Harmless(calls[c][1])
    BY <2>1, <2>2, FirstCounts
  <2> QED
    BY <2>3 DEF Harmless, Expiring
<1>6. /\ Tally[c] = removed[c] /\ Tally'[c] = removed'[c]
      /\ c \in Deleting <=> call[c].op = "delete" /\ res[c] = <<"true">>
      /\ c \notin Deleting' /\ c \notin Storing /\ c \notin Storing'
  BY <1>1, <1>5, Weighed, WeighedNext
<1>7. Claims[c] \in Nat /\ removed[c] \in Nat /\ Stores[c] \in Nat
  BY DEF Amounts, Numbered
<1>8. Tally'[c] = Tally[c] + In(c \in Deleting)
  <2>1. CASE c \in Deleting
    BY <1>1, <1>6, <2>1 DEF In, Counted
  <2>2. CASE c \notin Deleting
    <3>1. removed'[c] = removed[c] \/ removed'[c] = removed[c] + 0
      BY <1>1, <1>6, <2>2 DEF Counted
    <3> QED
      BY <1>6, <1>7, <2>2, <3>1, PlusZero DEF In
  <2> QED
    BY <2>1, <2>2
<1>9. Weight(c)' + Cardinality(Live)' - (Weight(c) + Cardinality(Live)) <= Stores'[c] - Stores[c]
  <2>1. In(c \in Deleting) \in {0, 1} /\ In(c \in Deleting') = 0 /\ In(c \in Storing) = 0
        /\ In(c \in Storing') = 0 /\ Tally[c] \in Nat
    BY <1>6, <1>7 DEF In
  <2> QED
    <3>1. /\ Weight(c) = Claims[c] + Tally[c] + In(c \in Deleting) + 0
          /\ Weight(c)' = Claims[c] + (Tally[c] + In(c \in Deleting)) + 0 + 0
      BY <1>3, <1>8, <2>1 DEF Weight
    <3> QED
      BY ONLY <1>3, <1>4, <1>7, <2>1, <3>1, SMTT(30)
<1> QED
  BY <1>2, <1>4, <1>9, ConservedMove DEF Balanced

\* A response claims what its handler has counted.
LEMMA WriteClaims ==
  ASSUME Steady, Told, Numbered, Numbered', Steady', NEW c \in Conns, Write(c)
  PROVE  Claims'[c] <= Claims[c] + removed[c]
<1>0. [Next]_vars
  BY DEF Next, TaskStep
<1> DEFINE e == [reply |-> reply[c], engine |-> said[c]]
<1>1. /\ answers' = [answers EXCEPT ![c] = Append(@, e)] /\ e.reply = reply[c]
      /\ pc[c] = "write" /\ UNCHANGED <<sent, parsed, removed>>
  BY DEF Write, stream, handler
<1> HIDE DEF e
<1>2. PICK m \in Nat : m = Len(answers[c])
  BY SeqLength DEF Steady, Typed
<1>3. /\ Len(answers'[c]) = m + 1 /\ answers'[c][m + 1] = e
      /\ \A i \in 1 .. m : answers'[c][i] = answers[c][i]
  <2>1. PICK s : s = answers[c]
    OBVIOUS
  <2>2. IsSeq(s) /\ answers'[c] = Append(s, e) /\ m = Len(s)
    BY <1>1, <1>2, <2>1 DEF Steady, Typed, IsFn
  <2>3. /\ Len(Append(s, e)) = m + 1 /\ Append(s, e)[m + 1] = e
        /\ \A i \in 1 .. m : Append(s, e)[i] = s[i]
    BY ONLY <2>2, AppendItems, SMTT(30)
  <2> QED
    BY <2>1, <2>2, <2>3
<1>4. parsed[c] = m + 1
  BY <1>0, <1>1, <1>2, ParsedStay
<1> DEFINE T == Taken(c, m)
           U == Taken(c, m + 1)
           f == [i \in T |-> IF sent[c][i][1] = "DEL" THEN answers[c][i].reply.int ELSE 0]
           g == [i \in U |-> IF sent[c][i][1] = "DEL" THEN answers'[c][i].reply.int ELSE 0]
<1>5. Claims[c] = Total(f)
  BY <1>2 DEF Claims, Claimed
<1>6. Claims'[c] = Total(g)
  <2>1. Claimed(c)' = Total(g)
    <3>1. Taken(c, Len(answers[c]))' = U
      BY <1>1, <1>3 DEF Taken
    <3>2. Claimed(c)' = Total([i \in Taken(c, Len(answers[c]))' |->
                                IF sent'[c][i][1] = "DEL" THEN answers'[c][i].reply.int ELSE 0])
      BY DEF Claimed
    <3> HIDE DEF U
    <3>3. [i \in U |-> IF sent'[c][i][1] = "DEL" THEN answers'[c][i].reply.int ELSE 0] = g
      BY ONLY <1>1, SMTT(30) DEF g
    <3> QED
      BY <3>1, <3>2, <3>3
  <2> QED
    BY <2>1 DEF Claims
<1>7. IsFiniteSet(T) /\ m + 1 \notin T /\ (U = T \/ U = T \union {m + 1})
  <2>1. IsFiniteSet(1 .. m) /\ m + 1 \notin 1 .. m /\ 1 .. m + 1 = (1 .. m) \union {m + 1}
    BY CountFinite, CountNext
  <2>2. T \subseteq 1 .. m
    BY DEF Taken
  <2>3. U = T \/ U = T \union {m + 1}
    BY <2>1 DEF Taken
  <2> QED
    BY <2>1, <2>2, <2>3, FS_Subset
<1>8. f \in [T -> Nat] /\ \A i \in T : g[i] = f[i]
  <2>1. f \in [T -> Nat]
    BY <1>2 DEF Numbered, Claiming
  <2>2. ASSUME NEW i \in T PROVE g[i] = f[i]
    <3>1. i \in 1 .. m
      BY DEF Taken
    <3>2. i \in U
      BY <1>7
    <3> QED
      BY <1>3, <3>1, <3>2
  <2> QED
    BY <2>1, <2>2
<1>9. g \in [U -> Nat]
  <2>1. \A i \in U : sent[c][i][1] = "DEL" => answers'[c][i].reply.int \in Nat
    BY <1>1, <1>3 DEF Numbered, Claiming, Taken
  <2> QED
    BY <2>1
<1>10. Total(f) \in Nat /\ removed[c] \in Nat
  <2> HIDE DEF f, T
  <2> QED
    BY <1>7, <1>8, TotalNat, ZenonT(30) DEF Numbered
<1>11. CASE U = T
  <2>1. g = f
    BY <1>8, <1>11
  <2> HIDE DEF f, g
  <2> QED
    BY ONLY <1>5, <1>6, <1>10, <2>1, SMTT(30)
<1>12. CASE U = T \union {m + 1} /\ m + 1 \in U
  <2>1. g[m + 1] <= removed[c]
    <3>1. sent[c][m + 1] # Malformed /\ sent[c][m + 1] # <<>>
      BY <1>12 DEF Taken
    <3>2. sent[c][m + 1][1] = "DEL" => reply[c].int = removed[c]
      BY <1>1, <1>4, <3>1 DEF Numbered, CountedReply, Args
    <3> QED
      <4>1. g[m + 1] = removed[c] \/ g[m + 1] = 0
        BY <1>1, <1>3, <1>12, <3>2
      <4> HIDE DEF g
      <4> QED
        BY ONLY <1>10, <4>1, SMTT(30)
  <2>2. g[m + 1] \in Nat
    BY <1>9, <1>12
  <2>3. Total(g) = Total(f) + g[m + 1]
    <3>1. g \in [T \union {m + 1} -> Nat]
      BY <1>9, <1>12
    <3> HIDE DEF f, g, T, U
    <3> QED
      BY ONLY <1>7, <1>8, <1>12, <3>1, TotalExtend, SMTT(30)
  <2> HIDE DEF f, g
  <2> QED
    BY ONLY <1>5, <1>6, <1>10, <2>1, <2>2, <2>3, SMTT(30)
<1> QED
  BY <1>7, <1>11, <1>12

LEMMA WriteBalanced ==
  ASSUME Steady, Steady', Indebted, Told, Numbered, Numbered', Amounts, Amounts', Balanced,
         NEW c \in Conns, Write(c)
  PROVE  Balanced'
<1>0. [Next]_vars
  BY DEF Next, TaskStep
<1>1. /\ UNCHANGED <<store, phase, call, res, parsed, calls, removed>>
      /\ pc[c] = "write" /\ pc'[c] = "end"
      /\ \A d \in Conns : d # c => pc'[d] = pc[d] /\ answers'[d] = answers[d]
  BY DEF Write, Goto, engine, stream, handler, Steady, Typed, IsFn
<1>2. \A d \in Conns \ {c} : Alike(d)
  BY <1>0, <1>1, RestsAlike
<1>3. Claims'[c] <= Claims[c] + removed[c] /\ Stores'[c] = Stores[c]
  BY <1>0, <1>1, WriteClaims, StoresStay
<1>4. Live' = Live /\ Cardinality(Live) \in Nat
  BY <1>1, FS_CardinalityType DEF Live, Balanced
<1>5. /\ Tally[c] = removed[c] /\ Tally'[c] = 0
      /\ c \notin Deleting /\ c \notin Deleting' /\ c \notin Storing /\ c \notin Storing'
  BY <1>1, Weighed, WeighedNext
<1>6. Claims[c] \in Nat /\ Claims'[c] \in Nat /\ removed[c] \in Nat /\ Stores[c] \in Nat
  BY DEF Amounts, Numbered
<1>7. Weight(c)' + Cardinality(Live)' - (Weight(c) + Cardinality(Live)) <= Stores'[c] - Stores[c]
  <2>1. /\ Weight(c) = Claims[c] + removed[c] + 0 + 0
        /\ Weight(c)' = Claims'[c] + 0 + 0 + 0
    BY <1>5 DEF Weight, In
  <2> QED
    BY ONLY <1>3, <1>4, <1>6, <2>1, SMTT(30)
<1> QED
  BY <1>2, <1>4, <1>7, ConservedMove DEF Balanced

\* The map and the count of a call, when the engine serves it.
LEMMA ServesBalance ==
  ASSUME Steady, Indebted, Told, IsFiniteSet(Live), NEW c \in Conns, EngineServes(c)
  PROVE  /\ IsFiniteSet(Live') /\ Cardinality(Live) \in Nat /\ Cardinality(Live)' \in Nat
         /\ Cardinality(Live)' + In(call[c].op = "delete" /\ res'[c] = <<"true">>)
              <= Cardinality(Live) + In(call[c].op = "set")
<1> DEFINE k == call[c].key
<1>0. /\ k \in Keys /\ IsFn(store, Keys) /\ IsFn(res, Conns)
      /\ Cardinality(Live) \in Nat
  <2>1. phase[c] = "called"
    BY DEF EngineServes, Engine!Get, Engine!Delete, Engine!Expire, Engine!Ttl,
           Engine!Set, Engine!Miss, Engine!Effect
  <2>2. pc[c] = "wait"
    BY <2>1 DEF Steady, InStep
  <2> QED
    BY <2>2, FS_CardinalityType DEF Told, Shaped, Handling, IsCall, Indebted
<1>1. CASE Engine!Set(c)
  <2>1. call[c].op = "set" /\ Live' \subseteq Live \union {k}
    BY <1>0, <1>1, ZenonT(30) DEF Engine!Set, Engine!Effect, Live, IsFn
  <2>2. /\ IsFiniteSet(Live \union {k})
        /\ Cardinality(Live \union {k}) <= Cardinality(Live) + 1
        /\ Cardinality(Live \union {k}) \in Nat
    <3>1. /\ IsFiniteSet(Live \union {k})
          /\ Cardinality(Live \union {k})
               = IF k \in Live THEN Cardinality(Live) ELSE Cardinality(Live) + 1
      BY FS_AddElement
    <3> QED
      BY ONLY <1>0, <3>1, SMTT(30)
  <2>3. IsFiniteSet(Live') /\ Cardinality(Live)' <= Cardinality(Live \union {k})
        /\ Cardinality(Live)' \in Nat
    BY <2>1, <2>2, FS_Subset, FS_CardinalityType
  <2> QED
    <3>1. /\ In(call[c].op = "delete" /\ res'[c] = <<"true">>) = 0
          /\ In(call[c].op = "set") = 1
      BY <2>1 DEF In
    <3>2. Cardinality(Live)' + 0 <= Cardinality(Live) + 1
      BY ONLY <1>0, <2>2, <2>3, SMTT(30)
    <3> QED
      BY <1>0, <2>3, <3>1, <3>2
<1>2. CASE /\ \A j \in Keys : store'[j] # Absent => store[j] # Absent
           /\ ~(call[c].op = "delete" /\ res'[c] = <<"true">>)
  <2>1. Live' \subseteq Live
    BY <1>2 DEF Live
  <2>2. IsFiniteSet(Live') /\ Cardinality(Live)' <= Cardinality(Live)
        /\ Cardinality(Live)' \in Nat
    BY <2>1, FS_Subset, FS_CardinalityType
  <2> QED
    <3>1. /\ In(call[c].op = "delete" /\ res'[c] = <<"true">>) = 0
          /\ In(call[c].op = "set") \in {0, 1}
      BY <1>2 DEF In
    <3> QED
      BY ONLY <1>0, <2>2, <3>1, SMTT(30)
<1>3. CASE store[k] # Absent /\ store' = [store EXCEPT ![k] = Absent]
  <2>1. k \in Live /\ Live' = Live \ {k}
    BY <1>0, <1>3 DEF Live, IsFn
  <2>2. IsFiniteSet(Live') /\ Cardinality(Live)' = Cardinality(Live) - 1
        /\ Cardinality(Live)' \in Nat
    BY <2>1, FS_RemoveElement, FS_CardinalityType
  <2> QED
    <3>1. /\ In(call[c].op = "delete" /\ res'[c] = <<"true">>) \in {0, 1}
          /\ In(call[c].op = "set") \in {0, 1}
      BY DEF In
    <3> QED
      BY ONLY <1>0, <2>2, <3>1, SMTT(30)
<1>4. ASSUME NEW n, Engine!Delete(c, n)
      PROVE  \/ /\ \A j \in Keys : store'[j] # Absent => store[j] # Absent
                /\ ~(call[c].op = "delete" /\ res'[c] = <<"true">>)
             \/ store[k] # Absent /\ store' = [store EXCEPT ![k] = Absent]
  <2>1. CASE Engine!Miss(c, n, <<"false">>)
    <3>1. store' = [store EXCEPT ![k] = Absent] /\ res' = [res EXCEPT ![c] = <<"false">>]
      BY <2>1 DEF Engine!Miss, Engine!Effect
    <3>2. res'[c] = <<"false">> /\ <<"false">> # <<"true">>
      BY <1>0, <3>1 DEF IsFn
    <3> QED
      BY <1>0, <3>1, <3>2 DEF IsFn
  <2>2. CASE Engine!Present(k, n) /\ store' = [store EXCEPT ![k] = Absent]
    BY <2>2 DEF Engine!Present
  <2> QED
    BY <1>4, <2>1, <2>2 DEF Engine!Delete, Engine!Effect
<1>5. ASSUME NEW n, Engine!Get(c, n) \/ Engine!Ttl(c, n)
      PROVE  /\ \A j \in Keys : store'[j] # Absent => store[j] # Absent
             /\ call[c].op # "delete"
  BY <1>0, <1>5 DEF Engine!Get, Engine!Ttl, Engine!Miss, Engine!Effect, IsFn
<1>6. ASSUME NEW n, Engine!Expire(c, n)
      PROVE  /\ \A j \in Keys : store'[j] # Absent => store[j] # Absent
             /\ call[c].op # "delete"
  BY <1>0, <1>6 DEF Engine!Expire, Engine!Miss, Engine!Effect, Engine!Present, IsFn
<1> QED
  BY <1>1, <1>2, <1>3, <1>4, <1>5, <1>6 DEF EngineServes

LEMMA ServesBalanced ==
  ASSUME Steady, Indebted, Told, Numbered, Amounts, Amounts', Balanced,
         NEW c \in Conns, EngineServes(c)
  PROVE  Balanced'
<1>0. [Next]_vars
  BY DEF Next
<1>1. /\ phase[c] = "called" /\ phase' = [phase EXCEPT ![c] = "done"]
      /\ UNCHANGED <<call, pc, calls, sent, parsed, removed, answers>>
  BY DEF EngineServes, Engine!Get, Engine!Delete, Engine!Expire, Engine!Ttl, Engine!Set,
         Engine!Miss, Engine!Effect, handler, stream
<1>2. pc[c] = "wait" /\ phase'[c] = "done" /\ \A d \in Conns : d # c => phase'[d] = phase[d]
  BY <1>1 DEF Steady, Typed, InStep
<1>3. \A d \in Conns \ {c} : Alike(d)
  BY <1>0, <1>1, <1>2, RestsAlike, EngineAnswers
<1>4. Claims'[c] = Claims[c] /\ Stores'[c] = Stores[c]
  BY <1>0, <1>1, ClaimsStay, StoresStay
<1>5. /\ IsFiniteSet(Live') /\ Cardinality(Live) \in Nat /\ Cardinality(Live)' \in Nat
      /\ Cardinality(Live)' + In(call[c].op = "delete" /\ res'[c] = <<"true">>)
           <= Cardinality(Live) + In(call[c].op = "set")
  BY ServesBalance DEF Balanced
<1>6. /\ Tally'[c] = Tally[c] /\ c \notin Deleting /\ c \notin Storing'
      /\ c \in Storing <=> call[c].op = "set"
      /\ c \in Deleting' <=> call[c].op = "delete" /\ res'[c] = <<"true">>
  <2>1. Tally'[c] = Tally[c]
    BY <1>1 DEF Tally
  <2>2. c \notin Deleting /\ c \notin Storing'
    BY <1>1, <1>2 DEF Deleting, Storing
  <2>3. c \in Storing <=> call[c].op = "set"
    BY <1>1, <1>2 DEF Storing
  <2>4. c \in Deleting' <=> call[c].op = "delete" /\ res'[c] = <<"true">>
    BY <1>1, <1>2 DEF Deleting
  <2> QED
    BY <2>1, <2>2, <2>3, <2>4
<1>7. Claims[c] \in Nat /\ Tally[c] \in Nat /\ Stores[c] \in Nat
  BY DEF Amounts
<1>8. Weight(c)' + Cardinality(Live)' - (Weight(c) + Cardinality(Live)) <= Stores'[c] - Stores[c]
  <2>1. PICK i \in {0, 1} : i = In(c \in Storing) /\ i = In(call[c].op = "set")
    BY <1>6 DEF In
  <2>2. PICK j \in {0, 1} : /\ j = In(c \in Deleting')
                           /\ j = In(call[c].op = "delete" /\ res'[c] = <<"true">>)
    BY <1>6 DEF In
  <2>3. Cardinality(Live)' + j <= Cardinality(Live) + i
    BY <1>5, <2>1, <2>2
  <2>4. /\ Weight(c) = Claims[c] + Tally[c] + 0 + i
        /\ Weight(c)' = Claims[c] + Tally[c] + j + 0
    BY <1>4, <1>6, <2>1, <2>2 DEF Weight, In
  <2> QED
    BY ONLY i \in {0, 1}, j \in {0, 1}, <1>4, <1>5, <1>7, <2>3, <2>4, SMTT(30)
<1> QED
  BY <1>3, <1>5, <1>8, ConservedMove DEF Balanced

LEMMA BalancedNext ==
  Steady /\ Steady' /\ Indebted /\ Told /\ Numbered /\ Numbered' /\ Balanced /\ [Next]_vars
  => Balanced'
<1> SUFFICES ASSUME Steady, Steady', Indebted, Told, Numbered, Numbered', Balanced, [Next]_vars
             PROVE  Balanced'
  OBVIOUS
<1>1. Amounts
  BY AmountsTyped
<1>2. Amounts'
  BY AmountsTyped, PTL
<1> QED
  BY <1>1, <1>2, TaskBalanced, IdleBalanced, ParseBalanced, CallBalanced, ReturnBalanced,
     WriteBalanced, ServesBalanced DEF Next, TaskStep

\* However deletes race, name a key twice or meet an expiry, the keys that DEL
\* responses claim, with those that handlers under way have counted, are no more
\* than the values stored: each is taken from the map once.
THEOREM DeletesCountOnce == Spec => []NoDoubleDelete
<1>1. Steady /\ Numbered /\ Balanced => NoDoubleDelete
  <2> SUFFICES ASSUME Steady, Numbered, Balanced PROVE NoDoubleDelete
    OBVIOUS
  <2>1. Amounts
    BY AmountsTyped
  <2>2. Total(Claims) \in Nat /\ Total(Tally) \in Nat /\ Total(Stores) \in Nat
    BY <2>1, TotalNat, ServerAssumption DEF Amounts
  <2>3. IsFiniteSet(Deleting) /\ IsFiniteSet(Storing) /\ IsFiniteSet(Live)
    BY ServerAssumption, FS_Subset DEF Deleting, Storing, Balanced
  <2>4. /\ Cardinality(Deleting) \in Nat /\ Cardinality(Storing) \in Nat
        /\ Cardinality(Live) \in Nat
    BY <2>3, FS_CardinalityType
  <2>5. Total(Claims) + Total(Tally) <= Total(Stores)
    BY <2>2, <2>4, SMTT(30) DEF Balanced, Conserved
  <2> QED
    BY <2>5 DEF NoDoubleDelete, Stored, Claims, Tally, Stores
<1> QED
  BY <1>1, SteadyInit, SteadyNext, IndebtedInit, IndebtedNext, ToldInit, ToldNext,
     NumberedInit, NumberedNext, BalancedInit, BalancedNext, PTL DEF Spec
=============================================================================

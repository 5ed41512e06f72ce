------------------------ MODULE ConnectionPoolProofs ------------------------
(***************************************************************************)
(* Proofs about ConnectionPool, for any threads and any limits.  Types,    *)
(* ownership of connections and of answers are inductive together: that a  *)
(* connection has one owner is what keeps another thread's command from    *)
(* disturbing the answers on it.  What has to be added is that a           *)
(* connection on its way back to the pool has no answer outstanding.       *)
(***************************************************************************)
EXTENDS ConnectionPool, TLAPS, FiniteSetTheorems, SequenceTheorems

\* A leaf goes to Zenon unless it names another prover.
USE Zenon

\* A connection that drop would return has had its answer read.
ReturnsClean == \A t \in At({"drop"}) : valid[t] => unread[conn[t]] = 0

Owned == TypeOK /\ OneOwner /\ OwnAnswer /\ ReturnsClean

USE DEF Places, Outcomes, Using, Slotted

-----------------------------------------------------------------------------
\* A new pool owns nothing.
LEMMA OwnedInit == Init => Owned
<1> SUFFICES ASSUME Init PROVE Owned
  OBVIOUS
<1>1. TypeOK
  BY PoolAssumption, EmptySeq, SMTT(30) DEF Init, TypeOK
<1>2. OneOwner
  BY EmptySeq, SMTT(30) DEF Init, OneOwner, Holders, At
<1>3. OwnAnswer
  BY EmptySeq, SMTT(30) DEF Init, OwnAnswer, At
<1>4. ReturnsClean
  BY DEF Init, ReturnsClean, At
<1> QED
  BY <1>1, <1>2, <1>3, <1>4 DEF Owned

\* pop_idle: the connection passes from the list to the thread.
LEMMA PopIdleOwned ==
    ASSUME Owned, NEW t \in Threads, PopIdle(t)
    PROVE  Owned'
<1> USE PoolAssumption DEF Owned
<1> DEFINE c == Head(idle)
<1>1. /\ c \in Conns
      /\ Len(idle) \in Nat
      /\ c = idle[1]
      /\ 1 \in 1 .. Len(idle)
      /\ idle' \in Seq(Conns)
      /\ Len(idle') = Len(idle) - 1
      /\ \A i \in 1 .. Len(idle') : idle'[i] = idle[i + 1] /\ i + 1 \in 1 .. Len(idle)
  <2>1. idle \in Seq(Conns) /\ idle # <<>> /\ idle' = Tail(idle)
    BY DEF PopIdle, Rest, TypeOK
  <2>2. Len(idle) \in Nat \ {0}
    BY <2>1, EmptySeq
  <2>3. c \in Conns /\ Tail(idle) \in Seq(Conns) /\ Len(Tail(idle)) = Len(idle) - 1
        /\ \A i \in 1 .. Len(Tail(idle)) : Tail(idle)[i] = idle[i + 1]
    BY <2>1, HeadTailProperties
  <2> QED
    BY <2>1, <2>2, <2>3, SMTT(30)
<1>2. /\ pc[t] = "idle"
      /\ pc' = [pc EXCEPT ![t] = "send"]
      /\ conn' = [conn EXCEPT ![t] = c]
      /\ valid' = [valid EXCEPT ![t] = TRUE]
      /\ res' = [res EXCEPT ![t] = "none"]
      /\ UNCHANGED <<total, open, unread>>
  BY DEF PopIdle, Wrap, Goto
<1> HIDE DEF c
<1>3. TypeOK'
  BY <1>1, <1>2, SMTT(30) DEF TypeOK
<1>4. Holders' = Holders \union {t} /\ t \notin Holders
  BY <1>2 DEF TypeOK, Holders, At
<1>5. /\ conn'[t] = c
      /\ \A u \in Holders : conn'[u] = conn[u]
  BY <1>2, <1>4, SMTT(30) DEF TypeOK
<1>6. OneOwner'
  <2>1. \A u \in Threads : conn'[u] # NoConn <=> u \in Holders'
    BY <1>1, <1>2, <1>4 DEF TypeOK, OneOwner
  <2>2. \A u, v \in Holders' : conn'[u] = conn'[v] => u = v
    BY <1>1, <1>4, <1>5, SMTT(30) DEF OneOwner
  <2>3. \A i, j \in 1 .. Len(idle') : idle'[i] = idle'[j] => i = j
    BY <1>1, SMTT(30) DEF OneOwner
  <2>4. \A u \in Holders', i \in 1 .. Len(idle') : idle'[i] # conn'[u]
    BY <1>1, <1>4, <1>5, SMTT(30) DEF OneOwner
  <2>5. {idle[i] : i \in 1 .. Len(idle)} = {idle'[i] : i \in 1 .. Len(idle')} \union {c}
    <3>1. ASSUME NEW i \in 1 .. Len(idle), i # 1
          PROVE  i - 1 \in 1 .. Len(idle') /\ idle'[i - 1] = idle[i]
      <4>1. i - 1 \in 1 .. Len(idle') /\ (i - 1) + 1 = i
        BY <1>1, <3>1, SMTT(30)
      <4> QED
        BY <1>1, <4>1
    <3> QED
      BY <1>1, <3>1, SMTT(30)
  <2>6. {conn'[u] : u \in Holders'} = {conn[u] : u \in Holders} \union {c}
    BY <1>4, <1>5
  <2>7. open' = {idle'[i] : i \in 1 .. Len(idle')} \union {conn'[u] : u \in Holders'}
    BY <1>2, <2>5, <2>6 DEF OneOwner
  <2> QED
    BY <2>1, <2>2, <2>3, <2>4, <2>7 DEF OneOwner
<1>7. OwnAnswer'
  <2>1. \A i \in 1 .. Len(idle') : unread'[idle'[i]] = 0
    BY <1>1, <1>2 DEF OwnAnswer
  <2>2. \A u \in At({"send"})' : unread'[conn'[u]] = 0
    BY <1>1, <1>2 DEF OwnAnswer, At, TypeOK
  <2>3. \A u \in At({"read"})' : unread'[conn'[u]] = 1
    BY <1>2 DEF OwnAnswer, At, TypeOK
  <2> QED
    BY <2>1, <2>2, <2>3 DEF OwnAnswer
<1>8. ReturnsClean'
  BY <1>2 DEF ReturnsClean, At, TypeOK
<1> QED
  BY <1>3, <1>6, <1>7, <1>8

\* Steps of acquire that touch no connection.
LEMMA QuietOwned ==
    ASSUME Owned, NEW t \in Threads,
           \/ PopNone(t) \/ Reserve(t) \/ Exhausted(t)
           \/ ConnectFail(t) \/ ReleaseSlot(t)
    PROVE  Owned'
<1> USE PoolAssumption DEF Owned
<1>1. /\ pc[t] \notin Using \union {"close"}
      /\ \E p \in Places \ (Using \union {"close"}) : pc' = [pc EXCEPT ![t] = p]
      /\ \E r \in Outcomes : res' = [res EXCEPT ![t] = r] \/ res' = res
      /\ UNCHANGED <<idle, open, unread, conn, valid>>
  BY DEF PopNone, Reserve, Exhausted, ConnectFail, ReleaseSlot, Goto
<1>2. total' \in 0 .. MaxTotal
  BY SMTT(30) DEF PopNone, Reserve, Exhausted, ConnectFail, ReleaseSlot, HasRoom, Less, TypeOK
<1>3. TypeOK'
  BY <1>1, <1>2, SMTT(30) DEF TypeOK
<1>4. /\ Holders' = Holders
      /\ At({"send"})' = At({"send"})
      /\ At({"read"})' = At({"read"})
      /\ At({"drop"})' = At({"drop"})
  BY <1>1, SMTT(30) DEF Holders, At, TypeOK
<1>5. OneOwner'
  BY <1>1, <1>4, SMTT(30) DEF OneOwner
<1>6. OwnAnswer'
  BY <1>1, <1>4 DEF OwnAnswer
<1>7. ReturnsClean'
  BY <1>1, <1>4 DEF ReturnsClean
<1> QED
  BY <1>3, <1>5, <1>6, <1>7

\* A new socket belongs to the thread that connected it.
LEMMA ConnectOwned ==
    ASSUME Owned, NEW t \in Threads, Connect(t)
    PROVE  Owned'
<1> USE PoolAssumption DEF Owned
<1>1. PICK c \in Conns \ open :
        /\ open' = open \union {c}
        /\ unread' = [unread EXCEPT ![c] = 0]
        /\ conn' = [conn EXCEPT ![t] = c]
        /\ valid' = [valid EXCEPT ![t] = TRUE]
        /\ pc' = [pc EXCEPT ![t] = "send"]
  BY DEF Connect, Wrap, Goto
<1>2. pc[t] = "connect" /\ UNCHANGED <<idle, total, res>>
  BY DEF Connect
<1>3. TypeOK'
  BY <1>1, <1>2 DEF TypeOK
<1>4. Holders' = Holders \union {t} /\ t \notin Holders
  BY <1>1, <1>2 DEF TypeOK, Holders, At
<1>5. /\ conn'[t] = c
      /\ \A u \in Holders : conn'[u] = conn[u] /\ conn[u] # c
      /\ \A i \in 1 .. Len(idle) : idle[i] # c
  <2>1. conn'[t] = c /\ \A u \in Holders : conn'[u] = conn[u]
    BY <1>1, <1>4, SMTT(30) DEF TypeOK
  <2>2. \A u \in Holders : conn[u] \in open
    BY DEF OneOwner
  <2>3. \A i \in 1 .. Len(idle) : idle[i] \in open
    BY DEF OneOwner
  <2> QED
    BY <2>1, <2>2, <2>3
<1>6. OneOwner'
  <2>1. \A u \in Threads : conn'[u] # NoConn <=> u \in Holders'
    BY <1>1, <1>4 DEF TypeOK, OneOwner
  <2>2. \A u, v \in Holders' : conn'[u] = conn'[v] => u = v
    BY <1>4, <1>5, SMTT(30) DEF OneOwner
  <2>3. \A u \in Holders', i \in 1 .. Len(idle') : idle'[i] # conn'[u]
    BY <1>2, <1>4, <1>5, SMTT(30) DEF OneOwner
  <2>4. {conn'[u] : u \in Holders'} = {conn[u] : u \in Holders} \union {c}
    BY <1>4, <1>5
  <2>5. open' = {idle'[i] : i \in 1 .. Len(idle')} \union {conn'[u] : u \in Holders'}
    <3>1. idle' = idle /\ open' = open \union {c}
      BY <1>1, <1>2
    <3>2. {idle'[i] : i \in 1 .. Len(idle')} = {idle[i] : i \in 1 .. Len(idle)}
      BY <3>1
    <3>3. open = {idle[i] : i \in 1 .. Len(idle)} \union {conn[u] : u \in Holders}
      BY DEF OneOwner
    <3> HIDE DEF Owned
    <3> QED
      BY ONLY <3>1, <3>2, <3>3, <2>4
  <2> QED
    BY <1>2, <2>1, <2>2, <2>3, <2>5 DEF OneOwner
<1>7. ASSUME NEW u \in At(Using), u # t
      PROVE  unread'[conn'[u]] = unread[conn[u]]
  <2>1. u \in Holders
    BY <1>7 DEF At, Holders
  <2>2. conn'[u] = conn[u] /\ conn[u] # c
    BY <1>5, <2>1
  <2>3. conn[u] \in Conns
    BY <2>1 DEF OneOwner, TypeOK, Holders, At
  <2> QED
    BY <1>1, <2>2, <2>3 DEF TypeOK
<1>8. OwnAnswer'
  <2>1. \A i \in 1 .. Len(idle') : unread'[idle'[i]] = 0
    BY <1>1, <1>2, <1>5, ElementOfSeq DEF OwnAnswer, TypeOK
  <2>2. \A u \in At({"send"})' : unread'[conn'[u]] = 0
    <3> TAKE u \in At({"send"})'
    <3>1. CASE u = t
      BY <1>1, <1>5, <3>1 DEF TypeOK
    <3>2. CASE u # t
      BY <1>1, <1>7, <3>2 DEF OwnAnswer, At, TypeOK
    <3> QED
      BY <3>1, <3>2
  <2>3. \A u \in At({"read"})' : unread'[conn'[u]] = 1
    BY <1>1, <1>7 DEF OwnAnswer, At, TypeOK
  <2> QED
    BY <2>1, <2>2, <2>3 DEF OwnAnswer
<1>9. ReturnsClean'
  BY <1>1, <1>7 DEF ReturnsClean, At, TypeOK
<1> QED
  BY <1>3, <1>6, <1>8, <1>9

\* exec: only the answers on the thread's own connection change.
LEMMA ExecOwned ==
    ASSUME Owned, NEW t \in Threads, Send(t) \/ Read(t) \/ ExecFail(t)
    PROVE  Owned'
<1> USE PoolAssumption DEF Owned
<1> DEFINE c == conn[t]
<1>1. /\ pc[t] \in {"send", "read"}
      /\ UNCHANGED <<idle, total, open, conn>>
  BY DEF Send, Read, ExecFail
<1>2. t \in Holders /\ c \in Conns
  BY <1>1 DEF TypeOK, OneOwner, Holders, At
<1>3. pc[t] = "send" => unread[c] = 0
  BY DEF OwnAnswer, At
<1>4. pc[t] = "read" => unread[c] = 1
  BY DEF OwnAnswer, At
<1>5. PICK n \in Nat, p \in {"read", "drop"} :
        /\ unread' = [unread EXCEPT ![c] = n]
        /\ pc' = [pc EXCEPT ![t] = p]
        /\ p = "read" => n = 1
        /\ p = "drop" => n = 0 \/ ~valid'[t]
  <2>1. CASE Send(t)
    <3>1. unread' = [unread EXCEPT ![c] = 1] /\ pc' = [pc EXCEPT ![t] = "read"]
      BY <1>2, <1>3, <2>1, SMTT(30) DEF Send, Goto, TypeOK
    <3> HIDE DEF c
    <3> QED
      BY <3>1
  <2>2. CASE Read(t)
    <3>1. unread' = [unread EXCEPT ![c] = 0] /\ pc' = [pc EXCEPT ![t] = "drop"]
      BY <1>2, <1>4, <2>2, SMTT(30) DEF Read, Goto, TypeOK
    <3> HIDE DEF c
    <3> QED
      BY <3>1
  <2>3. CASE ExecFail(t)
    <3>1. /\ \E n \in {0, 1} : unread' = [unread EXCEPT ![c] = n]
          /\ pc' = [pc EXCEPT ![t] = "drop"]
          /\ ~valid'[t]
      BY <2>3 DEF ExecFail, Goto, Invalidate, TypeOK
    <3> HIDE DEF c
    <3> QED
      BY <3>1
  <2> QED
    BY <2>1, <2>2, <2>3
<1>6. /\ valid' \in [Threads -> BOOLEAN]
      /\ res' \in [Threads -> Outcomes]
  BY DEF Send, Read, ExecFail, Invalidate, TypeOK
<1>7. TypeOK'
  BY <1>1, <1>2, <1>5, <1>6 DEF TypeOK
<1>8. Holders' = Holders
  BY <1>1, <1>5 DEF Holders, At, TypeOK
<1>9. OneOwner'
  BY <1>1, <1>8, SMTT(30) DEF OneOwner
<1>10. ASSUME NEW u \in At(Using), u # t
       PROVE  unread'[conn'[u]] = unread[conn[u]] /\ pc'[u] = pc[u] /\ valid'[u] = valid[u]
  <2>1. u \in Holders /\ u \in Threads
    BY <1>10 DEF At, Holders
  <2>2. conn[u] # c /\ conn[u] \in Conns
    BY <1>2, <1>10, <2>1 DEF OneOwner, TypeOK
  <2>3. valid'[u] = valid[u]
    BY <1>10, <2>1 DEF Send, Read, ExecFail, Invalidate, TypeOK
  <2> QED
    BY <1>1, <1>5, <1>10, <2>1, <2>2, <2>3 DEF TypeOK
<1>11. unread'[conn'[t]] = n /\ pc'[t] = p
  BY <1>1, <1>2, <1>5 DEF TypeOK
<1>12. OwnAnswer'
  <2>1. \A i \in 1 .. Len(idle') : unread'[idle'[i]] = 0
    BY <1>1, <1>2, <1>5, ElementOfSeq, SMTT(30) DEF OwnAnswer, OneOwner, TypeOK
  <2>2. \A u \in At({"send"})' : unread'[conn'[u]] = 0
    BY <1>5, <1>10, <1>11 DEF OwnAnswer, At, TypeOK
  <2>3. \A u \in At({"read"})' : unread'[conn'[u]] = 1
    BY <1>5, <1>10, <1>11 DEF OwnAnswer, At, TypeOK
  <2> QED
    BY <2>1, <2>2, <2>3 DEF OwnAnswer
<1>13. ReturnsClean'
  BY <1>5, <1>10, <1>11 DEF ReturnsClean, At, TypeOK
<1> QED
  BY <1>7, <1>9, <1>12, <1>13

\* return_connection: the connection passes from the thread to the list.
LEMMA ReturnOwned ==
    ASSUME Owned, NEW t \in Threads, Return(t)
    PROVE  Owned'
<1> USE PoolAssumption DEF Owned
<1> DEFINE c == conn[t]
<1>1. /\ pc[t] = "drop" /\ valid[t]
      /\ pc' = [pc EXCEPT ![t] = "idle"]
      /\ conn' = [conn EXCEPT ![t] = NoConn]
      /\ UNCHANGED <<total, open, unread, valid, res>>
  BY DEF Return, Goto
<1>2. t \in Holders /\ c \in Conns /\ unread[c] = 0
  BY <1>1 DEF TypeOK, OneOwner, Holders, At, ReturnsClean
<1>3. /\ Len(idle) \in Nat
      /\ idle' \in Seq(Conns)
      /\ Len(idle') = Len(idle) + 1
      /\ Len(idle') <= MaxIdle
      /\ \A i \in 1 .. Len(idle) : idle'[i] = idle[i]
      /\ idle'[Len(idle) + 1] = c
  <2>1. idle \in Seq(Conns) /\ idle' = Append(idle, c) /\ Len(idle) < MaxIdle
    BY DEF Return, HasIdleRoom, TypeOK
  <2>2. Len(idle) \in Nat
    BY <2>1, LenProperties
  <2> QED
    BY <1>2, <2>1, <2>2, AppendProperties, SMTT(30)
<1> HIDE DEF c
<1>4. TypeOK'
  BY <1>1, <1>3 DEF TypeOK
<1>5. /\ Holders' = Holders \ {t}
      /\ \A u \in Holders' : u \in Holders /\ u # t /\ conn'[u] = conn[u] /\ conn[u] # c
  <2>1. Holders' = Holders \ {t}
    BY <1>1 DEF Holders, At, TypeOK
  <2> QED
    BY <1>1, <1>2, <2>1, SMTT(30) DEF OneOwner, TypeOK, c
<1>6. OneOwner'
  <2>1. \A u \in Threads : conn'[u] # NoConn <=> u \in Holders'
    BY <1>1, <1>5 DEF TypeOK, OneOwner
  <2>2. \A u, v \in Holders' : conn'[u] = conn'[v] => u = v
    BY <1>5, SMTT(30) DEF OneOwner
  <2>3. \A i \in 1 .. Len(idle) : idle[i] # c
    BY <1>2 DEF OneOwner, c
  <2>4. \A i \in 1 .. Len(idle') : i \in 1 .. Len(idle) \/ i = Len(idle) + 1
    BY <1>3, SMTT(30)
  <2>5. \A i, j \in 1 .. Len(idle') : idle'[i] = idle'[j] => i = j
    BY <1>3, <2>3, <2>4 DEF OneOwner
  <2>6. \A u \in Holders', i \in 1 .. Len(idle') : idle'[i] # conn'[u]
    BY <1>3, <1>5, <2>4 DEF OneOwner
  <2>7. {idle'[i] : i \in 1 .. Len(idle')} = {idle[i] : i \in 1 .. Len(idle)} \union {c}
    BY <1>3, <2>4, SMTT(30)
  <2>8. {conn[u] : u \in Holders} = {conn'[u] : u \in Holders'} \union {c}
    BY <1>2, <1>5 DEF c
  <2>9. open' = {idle'[i] : i \in 1 .. Len(idle')} \union {conn'[u] : u \in Holders'}
    <3>1. open' = {idle[i] : i \in 1 .. Len(idle)} \union {conn[u] : u \in Holders}
      BY <1>1 DEF OneOwner
    <3> QED
      BY ONLY <3>1, <2>7, <2>8, ZenonT(30)
  <2> QED
    BY <2>1, <2>2, <2>5, <2>6, <2>9 DEF OneOwner
<1>7. OwnAnswer'
  <2>1. \A i \in 1 .. Len(idle') : unread'[idle'[i]] = 0
    <3>1. \A i \in 1 .. Len(idle') : i \in 1 .. Len(idle) \/ i = Len(idle) + 1
      BY <1>3, SMTT(30)
    <3> QED
      BY <1>1, <1>2, <1>3, <3>1, SMTT(30) DEF OwnAnswer
  <2>2. \A u \in At({"send"})' : unread'[conn'[u]] = 0
    BY <1>1 DEF OwnAnswer, At, TypeOK
  <2>3. \A u \in At({"read"})' : unread'[conn'[u]] = 1
    BY <1>1 DEF OwnAnswer, At, TypeOK
  <2> QED
    BY <2>1, <2>2, <2>3 DEF OwnAnswer
<1>8. ReturnsClean'
  BY <1>1 DEF ReturnsClean, At, TypeOK
<1> QED
  BY <1>4, <1>6, <1>7, <1>8

\* drop without return: the connection stays with its thread to be closed.
LEMMA DiscardOwned ==
    ASSUME Owned, NEW t \in Threads, Discard(t)
    PROVE  Owned'
<1> USE PoolAssumption DEF Owned
<1>1. /\ pc[t] = "drop"
      /\ total' = Less(total)
      /\ pc' = [pc EXCEPT ![t] = "close"]
      /\ UNCHANGED <<idle, open, unread, conn, valid, res>>
  BY DEF Discard, Goto
<1>2. TypeOK'
  BY <1>1, SMTT(30) DEF TypeOK, Less
<1>3. Holders' = Holders
  BY <1>1 DEF Holders, At, TypeOK
<1>4. OneOwner'
  BY <1>1, <1>3, SMTT(30) DEF OneOwner
<1>5. OwnAnswer' /\ ReturnsClean'
  BY <1>1 DEF OwnAnswer, ReturnsClean, At, TypeOK
<1> QED
  BY <1>2, <1>4, <1>5

\* The socket is closed: nobody has it.
LEMMA CloseOwned ==
    ASSUME Owned, NEW t \in Threads, Close(t)
    PROVE  Owned'
<1> USE PoolAssumption DEF Owned
<1> DEFINE c == conn[t]
<1>1. /\ pc[t] = "close"
      /\ open' = open \ {c}
      /\ conn' = [conn EXCEPT ![t] = NoConn]
      /\ pc' = [pc EXCEPT ![t] = "idle"]
      /\ UNCHANGED <<idle, total, unread, valid, res>>
  BY DEF Close, Goto
<1>2. t \in Holders /\ c \in Conns
  BY <1>1 DEF TypeOK, OneOwner, Holders, At
<1> HIDE DEF c
<1>3. TypeOK'
  BY <1>1 DEF TypeOK
<1>4. /\ Holders' = Holders \ {t}
      /\ \A u \in Holders' : u \in Holders /\ conn'[u] = conn[u] /\ conn[u] # c
  <2>1. Holders' = Holders \ {t}
    BY <1>1 DEF Holders, At, TypeOK
  <2> QED
    BY <1>1, <1>2, <2>1, SMTT(30) DEF OneOwner, TypeOK, c
<1>5. OneOwner'
  <2>1. \A u \in Threads : conn'[u] # NoConn <=> u \in Holders'
    BY <1>1, <1>4 DEF TypeOK, OneOwner
  <2>2. \A u, v \in Holders' : conn'[u] = conn'[v] => u = v
    BY <1>4, SMTT(30) DEF OneOwner
  <2>3. \A u \in Holders', i \in 1 .. Len(idle') : idle'[i] # conn'[u]
    BY <1>1, <1>4, SMTT(30) DEF OneOwner
  <2>4. {conn[u] : u \in Holders} = {conn'[u] : u \in Holders'} \union {c}
    BY <1>2, <1>4 DEF c
  <2>5. c \notin {conn'[u] : u \in Holders'}
    BY <1>4
  <2>6. c \notin {idle[i] : i \in 1 .. Len(idle)}
    BY <1>2 DEF OneOwner, c
  <2>7. {idle'[i] : i \in 1 .. Len(idle')} = {idle[i] : i \in 1 .. Len(idle)}
    BY <1>1
  <2>8. open' = {idle'[i] : i \in 1 .. Len(idle')} \union {conn'[u] : u \in Holders'}
    <3>1. open = {idle[i] : i \in 1 .. Len(idle)} \union {conn[u] : u \in Holders}
      BY DEF OneOwner
    <3>2. open' = open \ {c}
      BY <1>1
    <3> QED
      BY ONLY <3>1, <3>2, <2>4, <2>5, <2>6, <2>7, ZenonT(30)
  <2> QED
    BY <1>1, <2>1, <2>2, <2>3, <2>8 DEF OneOwner
<1>6. OwnAnswer' /\ ReturnsClean'
  BY <1>1 DEF OwnAnswer, ReturnsClean, At, TypeOK
<1> QED
  BY <1>3, <1>5, <1>6

-----------------------------------------------------------------------------
\* Every step of the pool, and every stutter, keeps ownership.
LEMMA OwnedNext == Owned /\ [Next]_vars => Owned'
<1> SUFFICES ASSUME Owned, [Next]_vars PROVE Owned'
  OBVIOUS
<1>1. CASE UNCHANGED vars
  BY <1>1, SMTT(30) DEF vars, Owned, TypeOK, OneOwner, OwnAnswer, ReturnsClean, Holders, At
<1>2. ASSUME NEW t \in Threads, Step(t) PROVE Owned'
  BY <1>2, PopIdleOwned, QuietOwned, ConnectOwned, ExecOwned, ReturnOwned,
     DiscardOwned, CloseOwned DEF Step
<1> QED
  BY <1>1, <1>2 DEF Next

\* The variables of the pool keep their types.
THEOREM PoolTyped == Spec => []TypeOK
<1>1. Owned => TypeOK
  BY DEF Owned
<1> QED
  BY <1>1, OwnedInit, OwnedNext, PTL DEF Spec

\* A connection has one owner and no open socket is forgotten, whatever fails and
\* whoever else uses the pool.
THEOREM ConnectionsOwned == Spec => []OneOwner
<1>1. Owned => OneOwner
  BY DEF Owned
<1> QED
  BY <1>1, OwnedInit, OwnedNext, PTL DEF Spec

\* A command reads its own answer and no other: a connection on which a command
\* failed is never used again.
THEOREM AnswersOwned == Spec => []OwnAnswer
<1>1. Owned => OwnAnswer
  BY DEF Owned
<1> QED
  BY <1>1, OwnedInit, OwnedNext, PTL DEF Spec

-----------------------------------------------------------------------------
(* Slots. *)

\* Threads that have a slot form a finite set, before and after a step.
SlotsFinite == IsFiniteSet(At(Slotted)) /\ Cardinality(At(Slotted)) \in Nat

LEMMA SlotsAreFinite == SlotsFinite
  BY PoolAssumption, FS_Subset, FS_CardinalityType DEF At, SlotsFinite

\* A thread that gets a slot is counted once more.
LEMMA SlotGained ==
    ASSUME TypeOK, NEW t \in Threads, NEW p \in Slotted,
           pc[t] \notin Slotted, pc' = [pc EXCEPT ![t] = p]
    PROVE  Cardinality(At(Slotted)') = Cardinality(At(Slotted)) + 1
<1>1. At(Slotted)' = At(Slotted) \union {t} /\ t \notin At(Slotted)
  BY DEF At, TypeOK
<1> QED
  BY <1>1, SlotsAreFinite, FS_AddElement DEF SlotsFinite

\* A thread that gives up its slot was counted.
LEMMA SlotLost ==
    ASSUME TypeOK, NEW t \in Threads, NEW p \in Places \ Slotted,
           pc[t] \in Slotted, pc' = [pc EXCEPT ![t] = p]
    PROVE  /\ Cardinality(At(Slotted)') = Cardinality(At(Slotted)) - 1
           /\ Cardinality(At(Slotted)) > 0
<1>1. At(Slotted)' = At(Slotted) \ {t} /\ t \in At(Slotted)
  BY DEF At, TypeOK
<1>2. Cardinality(At(Slotted)') = Cardinality(At(Slotted)) - 1
  BY <1>1, SlotsAreFinite, FS_RemoveElement, SMTT(30) DEF SlotsFinite
<1>3. Cardinality(At(Slotted)) # 0
  BY <1>1, SlotsAreFinite, FS_EmptySet DEF SlotsFinite
<1> QED
  BY <1>2, <1>3, SlotsAreFinite, SMTT(30) DEF SlotsFinite

\* Any other step leaves the count alone.
LEMMA SlotKept ==
    ASSUME TypeOK, NEW t \in Threads, NEW p \in Places,
           pc[t] \in Slotted <=> p \in Slotted, pc' = [pc EXCEPT ![t] = p]
    PROVE  At(Slotted)' = At(Slotted)
  BY DEF At, TypeOK

LEMMA SlotsInit == Init => SlotsAccounted
<1> SUFFICES ASSUME Init PROVE SlotsAccounted
  OBVIOUS
<1>1. At(Slotted) = {}
  BY DEF Init, At
<1>2. Cardinality(At(Slotted)) = 0
  BY <1>1, FS_EmptySet
<1>3. Len(idle) = 0 /\ total = 0
  BY EmptySeq DEF Init
<1> QED
  BY <1>2, <1>3, SMTT(30) DEF SlotsAccounted

\* Each step moves the idle list, the threads with a slot and total together.
LEMMA SlotsNext ==
    Owned /\ SlotsAccounted /\ [Next]_vars => SlotsAccounted'
<1> SUFFICES ASSUME Owned, SlotsAccounted, [Next]_vars PROVE SlotsAccounted'
  OBVIOUS
<1> USE PoolAssumption
<1>1. TypeOK /\ Len(idle) \in Nat /\ total \in Nat /\ Cardinality(At(Slotted)) \in Nat
  BY SlotsAreFinite, LenProperties, SMTT(30) DEF Owned, TypeOK, SlotsFinite
<1>2. CASE UNCHANGED vars
  BY <1>2 DEF vars, SlotsAccounted, At
<1>3. ASSUME NEW t \in Threads, Step(t) PROVE SlotsAccounted'
  <2>1. CASE PopIdle(t)
    <3>1. pc[t] = "idle" /\ pc' = [pc EXCEPT ![t] = "send"] /\ total' = total
      BY <2>1 DEF PopIdle, Wrap, Goto
    <3>2. Len(idle') = Len(idle) - 1
      BY <1>1, <2>1, HeadTailProperties DEF PopIdle, Rest, TypeOK
    <3>3. Cardinality(At(Slotted)') = Cardinality(At(Slotted)) + 1
      BY <1>1, <3>1, SlotGained
    <3> QED
      BY <1>1, <3>1, <3>2, <3>3, SMTT(30) DEF SlotsAccounted
  <2>2. CASE Reserve(t)
    <3>1. /\ pc[t] = "reserve" /\ pc' = [pc EXCEPT ![t] = "connect"]
          /\ total' = total + 1 /\ idle' = idle
      BY <2>2 DEF Reserve, Goto
    <3>2. Cardinality(At(Slotted)') = Cardinality(At(Slotted)) + 1
      BY <1>1, <3>1, SlotGained
    <3> QED
      BY <1>1, <3>1, <3>2, SMTT(30) DEF SlotsAccounted
  <2>3. CASE ReleaseSlot(t) \/ Discard(t)
    <3>1. PICK p \in Places \ Slotted :
            /\ pc[t] \in Slotted /\ pc' = [pc EXCEPT ![t] = p]
            /\ total' = Less(total) /\ idle' = idle
      BY <2>3 DEF ReleaseSlot, Discard, Goto
    <3>2. /\ Cardinality(At(Slotted)') = Cardinality(At(Slotted)) - 1
          /\ Cardinality(At(Slotted)) > 0
      BY <1>1, <3>1, SlotLost
    <3> QED
      BY <1>1, <3>1, <3>2, SMTT(30) DEF SlotsAccounted, Less
  <2>4. CASE Return(t)
    <3>1. pc[t] = "drop" /\ pc' = [pc EXCEPT ![t] = "idle"] /\ total' = total
      BY <2>4 DEF Return, Goto
    <3>2. conn[t] \in Conns
      BY <1>1, <3>1 DEF Owned, OneOwner, Holders, At, TypeOK
    <3>3. Len(idle') = Len(idle) + 1
      BY <1>1, <2>4, <3>2, AppendProperties, SMTT(30) DEF Return, TypeOK
    <3>4. Cardinality(At(Slotted)') = Cardinality(At(Slotted)) - 1
      BY <1>1, <3>1, SlotLost
    <3> QED
      BY <1>1, <3>1, <3>3, <3>4, SMTT(30) DEF SlotsAccounted
  <2>5. CASE \/ PopNone(t) \/ Exhausted(t) \/ Connect(t) \/ ConnectFail(t)
             \/ Send(t) \/ Read(t) \/ ExecFail(t) \/ Close(t)
    <3>1. PICK p \in Places :
            /\ pc[t] \in Slotted <=> p \in Slotted
            /\ pc' = [pc EXCEPT ![t] = p]
            /\ total' = total /\ idle' = idle
      BY <2>5 DEF PopNone, Exhausted, Connect, ConnectFail, Send, Read, ExecFail,
                  Close, Wrap, Goto
    <3>2. At(Slotted)' = At(Slotted)
      BY <1>1, <3>1, SlotKept
    <3> QED
      BY <3>1, <3>2 DEF SlotsAccounted
  <2> QED
    BY <1>3, <2>1, <2>2, <2>3, <2>4, <2>5 DEF Step
<1> QED
  BY <1>2, <1>3 DEF Next

\* Every slot that try_reserve takes is given back once, on every path; the
\* saturating_sub never saturates.
THEOREM SlotsKept == Spec => []SlotsAccounted
  BY OwnedInit, OwnedNext, SlotsInit, SlotsNext, PTL DEF Spec

-----------------------------------------------------------------------------
\* An idle connection or a thread that uses one has a slot, so a socket without
\* a slot is with a thread that closes it.
LEMMA SocketsFromSlots == Owned /\ SlotsAccounted => SocketsBounded
<1> SUFFICES ASSUME Owned, SlotsAccounted PROVE SocketsBounded
  OBVIOUS
<1> USE PoolAssumption
<1> DEFINE Kept == {idle[i] : i \in 1 .. Len(idle)}
           Held == {conn[t] : t \in Holders}
           Closing == At({"close"})
<1>1. /\ Len(idle) \in Nat /\ total \in 0 .. MaxTotal
      /\ idle \in [1 .. Len(idle) -> Conns]
  BY LenProperties DEF Owned, TypeOK
<1>2. IsFiniteSet(Kept) /\ Cardinality(Kept) <= Len(idle)
  <2>1. IsFiniteSet(1 .. Len(idle)) /\ Cardinality(1 .. Len(idle)) = Len(idle)
    BY <1>1, FS_Interval, SMTT(30)
  <2>2. idle \in Surjection(1 .. Len(idle), Kept)
    BY <1>1 DEF Surjection
  <2> HIDE DEF Kept
  <2> QED
    BY <2>1, <2>2, FS_Surjection, SMTT(30)
<1>3. /\ IsFiniteSet(Holders) /\ IsFiniteSet(At(Using)) /\ IsFiniteSet(Closing)
      /\ IsFiniteSet(At(Slotted))
  BY FS_Subset DEF Holders, At
<1>4. IsFiniteSet(Held) /\ Cardinality(Held) <= Cardinality(Holders)
  <2> DEFINE f == [t \in Holders |-> conn[t]]
  <2>1. f \in Surjection(Holders, Held)
    BY DEF Surjection
  <2> HIDE DEF f, Held
  <2> QED
    BY <1>3, <2>1, FS_Surjection
<1>5. Cardinality(Holders) <= Cardinality(At(Slotted)) + Cardinality(Closing)
  <2>1. /\ Holders \subseteq At(Slotted) \union Closing
        /\ At(Slotted) \intersect Closing = {}
    BY DEF Holders, At
  <2>2. /\ IsFiniteSet(At(Slotted) \union Closing)
        /\ Cardinality(At(Slotted) \union Closing)
             = Cardinality(At(Slotted)) + Cardinality(Closing)
               - Cardinality(At(Slotted) \intersect Closing)
    BY <1>3, FS_Union
  <2>3. Cardinality(At(Slotted) \intersect Closing) = 0
    BY <2>1, FS_EmptySet
  <2>4. Cardinality(Holders) <= Cardinality(At(Slotted) \union Closing)
    BY <2>1, <2>2, FS_Subset
  <2>5. Cardinality(At(Slotted)) \in Nat /\ Cardinality(Closing) \in Nat
    BY <1>3, FS_CardinalityType
  <2> HIDE DEF Closing
  <2> QED
    BY <2>2, <2>3, <2>4, <2>5, SMTT(30)
<1>6. open = Kept \union Held
  BY DEF Owned, OneOwner
<1> HIDE DEF Kept, Held
<1>7. Cardinality(open) = Cardinality(Kept) + Cardinality(Held) - Cardinality(Kept \intersect Held)
  BY <1>2, <1>4, <1>6, FS_Union
<1>8. /\ Cardinality(Kept) \in Nat /\ Cardinality(Held) \in Nat
      /\ Cardinality(Kept \intersect Held) \in Nat
      /\ Cardinality(Holders) \in Nat
      /\ Cardinality(At(Slotted)) \in Nat /\ Cardinality(Closing) \in Nat
  <2>1. IsFiniteSet(Kept \intersect Held)
    BY <1>2, FS_Subset
  <2> QED
    BY <1>2, <1>3, <1>4, <2>1, FS_CardinalityType
<1>9. total = Len(idle) + Cardinality(At(Slotted))
  BY DEF SlotsAccounted
<1>10. Cardinality(open) <= MaxTotal + Cardinality(Closing)
  <2> HIDE DEF Closing
  <2> QED
    BY <1>1, <1>2, <1>4, <1>5, <1>7, <1>8, <1>9, SMTT(30)
<1> QED
  BY <1>10 DEF SocketsBounded

\* The client never has more than max_total sockets open besides those that a
\* thread has already given up and is closing.
THEOREM SocketsWithinLimit == Spec => []SocketsBounded
  BY OwnedInit, OwnedNext, SlotsInit, SlotsNext, SocketsFromSlots, PTL DEF Spec

=============================================================================

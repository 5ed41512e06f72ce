-------------------------- MODULE ShardInnerProofs --------------------------
(***************************************************************************)
(* Proofs about a shard, for any keys, values and TTLs: the map, the arena  *)
(* and the free list agree, and the links follow the order of last use.     *)
(***************************************************************************)
EXTENDS ShardInner, FiniteSetTheorems, SequenceTheorems, TLAPS

\* A leaf goes to Zenon unless it names another prover.
USE Zenon

-----------------------------------------------------------------------------
(* Orders of last use.                                                     *)

\* Sets of the same pairs are equal.
LEMMA SamePairs ==
  ASSUME NEW L, NEW A \in SUBSET (L \X L), NEW B \in SUBSET (L \X L),
         \A a, b : <<a, b>> \in A <=> <<a, b>> \in B
  PROVE  A = B
BY SMTT(30)

\* The pairs of an order without k.
LEMMA InWithout ==
  ASSUME NEW o, NEW k, NEW a, NEW b
  PROVE  <<a, b>> \in Without(o, k) <=> <<a, b>> \in o /\ a # k /\ b # k
BY DEF Without

\* The pairs of an order with k the newest.
LEMMA InWithNewest ==
  ASSUME NEW o, NEW live, NEW k, NEW a, NEW b
  PROVE  <<a, b>> \in WithNewest(o, live, k) <=>
           \/ <<a, b>> \in o /\ a # k /\ b # k
           \/ a \in live /\ a # k /\ b = k
<1>1. <<a, b>> \in (live \ {k}) \X {k} <=> a \in live /\ a # k /\ b = k
  OBVIOUS
<1> QED
  BY <1>1, InWithout DEF WithNewest

\* The pairs once k was removed and is the newest again.
LEMMA InRenewed ==
  ASSUME NEW o, NEW live, NEW k, NEW a, NEW b
  PROVE  <<a, b>> \in WithNewest(Without(o, k), live \ {k}, k) <=>
           \/ <<a, b>> \in o /\ a # k /\ b # k
           \/ a \in live /\ a # k /\ b = k
<1> DEFINE w == Without(o, k)
           M == live \ {k}
<1>1. <<a, b>> \in w <=> <<a, b>> \in o /\ a # k /\ b # k
  BY InWithout
<1> HIDE DEF w, M
<1>2. <<a, b>> \in WithNewest(w, M, k) <=>
           \/ <<a, b>> \in w /\ a # k /\ b # k
           \/ a \in M /\ a # k /\ b = k
  BY InWithNewest
<1> QED
  BY <1>1, <1>2 DEF w, M

\* Removing a member leaves a total order of the others.
LEMMA WithoutTotal ==
  ASSUME NEW L, NEW o, TotalOrder(o, L), NEW k
  PROVE  TotalOrder(Without(o, k), L \ {k})
<1>1. o \in SUBSET (L \X L)
  BY DEF TotalOrder
<1>2. \A a, b : <<a, b>> \in Without(o, k) <=> <<a, b>> \in o /\ a # k /\ b # k
  BY InWithout
<1>3. Without(o, k) \subseteq (L \ {k}) \X (L \ {k})
  BY <1>1 DEF Without
<1> QED
  BY <1>2, <1>3 DEF TotalOrder

\* A newcomer behind all others makes a total order again.
LEMMA WithNewestTotal ==
  ASSUME NEW L, NEW o, TotalOrder(o, L), NEW k, k \notin L
  PROVE  TotalOrder(WithNewest(o, L, k), L \cup {k})
<1>1. o \in SUBSET (L \X L)
  BY DEF TotalOrder
<1>2. \A a, b : <<a, b>> \in WithNewest(o, L, k) <=>
                  \/ <<a, b>> \in o /\ a # k /\ b # k
                  \/ a \in L /\ a # k /\ b = k
  BY InWithNewest
<1>3. WithNewest(o, L, k) \subseteq (L \cup {k}) \X (L \cup {k})
  BY <1>1 DEF WithNewest, Without
<1>4. \A a, b : <<a, b>> \in o => a \in L /\ b \in L
  BY <1>1
<1> QED
  BY <1>2, <1>3, <1>4 DEF TotalOrder

-----------------------------------------------------------------------------
(* The list in the nodes of a shard.                                       *)

\* The links of s lead through the slots L in the order o.
Chain(s, L, o) ==
  /\ TotalOrder(o, L)
  /\ s.head = None <=> L = {}
  /\ s.tail = None <=> L = {}
  /\ s.head # None => Oldest(o, L, s.head)
  /\ s.tail # None => Newest(o, L, s.tail)
  /\ \A i \in L :
       /\ s.nodes[i].next = None <=> s.tail = i
       /\ s.nodes[i].prev = None <=> s.head = i
       /\ s.nodes[i].next # None =>
            /\ s.nodes[i].next \in L
            /\ s.nodes[s.nodes[i].next].prev = i
            /\ NextUsed(o, L, i, s.nodes[i].next)
       /\ s.nodes[i].prev # None =>
            /\ s.nodes[i].prev \in L
            /\ s.nodes[s.nodes[i].prev].next = i

\* The slots in use.
LiveIn(s) == {i \in DOMAIN s.nodes : s.nodes[i] # None}

\* Two shards hold the same keys in the same slots.
SameKeys(r, s) ==
  /\ r \in Shard
  /\ r.map = s.map
  /\ r.free = s.free
  /\ DOMAIN r.nodes = DOMAIN s.nodes
  /\ Len(r.nodes) = Len(s.nodes)
  /\ \A j \in DOMAIN s.nodes :
       /\ r.nodes[j] = None <=> s.nodes[j] = None
       /\ s.nodes[j] # None => r.nodes[j].key = s.nodes[j].key

\* None is no node.
LEMMA NoneIsNoNode == None \notin Node /\ None \notin Nat
BY ShardInnerAssumption DEF Node, Option

\* What a shard's type says of its parts.
LEMMA ShardParts ==
  ASSUME NEW s \in Shard
  PROVE  /\ s.map \in [Keys -> Option(Nat)]
         /\ s.nodes \in Seq(Option(Node)) /\ DOMAIN s.nodes = 1 .. Len(s.nodes)
         /\ Len(s.nodes) \in Nat
         /\ s.free \in Seq(Nat) /\ DOMAIN s.free = 1 .. Len(s.free)
         /\ Len(s.free) \in Nat
         /\ s.head \in Option(Nat) /\ s.tail \in Option(Nat)
         /\ s = [map |-> s.map, nodes |-> s.nodes, free |-> s.free,
                 head |-> s.head, tail |-> s.tail]
         /\ \A i \in LiveIn(s) : i \in 1 .. Len(s.nodes) /\ s.nodes[i] \in Node
<1>1. /\ s.map \in [Keys -> Option(Nat)] /\ s.nodes \in Seq(Option(Node))
      /\ s.free \in Seq(Nat) /\ s.head \in Option(Nat) /\ s.tail \in Option(Nat)
      /\ s = [map |-> s.map, nodes |-> s.nodes, free |-> s.free,
              head |-> s.head, tail |-> s.tail]
  BY DEF Shard
<1>2. /\ Len(s.nodes) \in Nat /\ DOMAIN s.nodes = 1 .. Len(s.nodes)
      /\ Len(s.free) \in Nat /\ DOMAIN s.free = 1 .. Len(s.free)
  BY <1>1, LenProperties
<1>3. \A i \in LiveIn(s) : i \in 1 .. Len(s.nodes) /\ s.nodes[i] \in Node
  BY <1>1, <1>2, ElementOfSeq, SMTT(30) DEF LiveIn, Option
<1> QED
  BY <1>1, <1>2, <1>3

\* s with m in slot i.
PutNode(s, i, m) == [s EXCEPT !.nodes = [s.nodes EXCEPT ![i] = m]]

\* s with a link of slot i written.
PutNext(s, i, n) == [s EXCEPT !.nodes[i].next = n]
PutPrev(s, i, p) == [s EXCEPT !.nodes[i].prev = p]

\* Writing a node in use changes nothing else.
LEMMA WriteNode ==
  ASSUME NEW s \in Shard, NEW i \in LiveIn(s), NEW m \in Node,
         NEW r, PutNode(s, i, m) = r
  PROVE  /\ r \in Shard
         /\ r.map = s.map /\ r.free = s.free /\ r.head = s.head /\ r.tail = s.tail
         /\ Len(r.nodes) = Len(s.nodes) /\ DOMAIN r.nodes = DOMAIN s.nodes
         /\ \A j \in DOMAIN s.nodes : r.nodes[j] = IF j = i THEN m ELSE s.nodes[j]
         /\ LiveIn(r) = LiveIn(s)
<1> DEFINE nodes == [s.nodes EXCEPT ![i] = m]
<1>1. /\ nodes \in Seq(Option(Node)) /\ Len(nodes) = Len(s.nodes)
      /\ \A j \in 1 .. Len(s.nodes) : nodes[j] = IF j = i THEN m ELSE s.nodes[j]
  <2>1. m \in Option(Node) /\ i \in 1 .. Len(s.nodes) /\ s.nodes \in Seq(Option(Node))
    BY ShardParts DEF Option
  <2> QED
    BY <2>1, ExceptSeq, SMTT(30)
<1>2. r = [map |-> s.map, nodes |-> nodes, free |-> s.free, head |-> s.head, tail |-> s.tail]
  BY DEF PutNode, Shard
<1>3. r \in Shard
  BY <1>1, <1>2, ShardParts DEF Shard
<1>4. DOMAIN nodes = DOMAIN s.nodes /\ DOMAIN s.nodes = 1 .. Len(s.nodes)
  BY ShardParts
<1>5. LiveIn(r) = LiveIn(s)
  BY <1>1, <1>2, <1>4, NoneIsNoNode, SMTT(30) DEF LiveIn
<1> QED
  BY <1>1, <1>2, <1>3, <1>4, <1>5, SMTT(30)

\* Writing one link of a node in use.
LEMMA WriteNext ==
  ASSUME NEW s \in Shard, NEW i \in LiveIn(s), NEW n \in Option(Nat),
         NEW r, PutNext(s, i, n) = r
  PROVE  /\ SameKeys(r, s) /\ LiveIn(r) = LiveIn(s)
         /\ r.head = s.head /\ r.tail = s.tail
         /\ \A j \in LiveIn(s) : /\ r.nodes[j].next = IF j = i THEN n ELSE s.nodes[j].next
                                 /\ r.nodes[j].prev = s.nodes[j].prev
<1> DEFINE m == [s.nodes[i] EXCEPT !.next = n]
<1>1. s.nodes[i] \in Node
  BY ShardParts
<1>2. /\ m \in Node /\ m.key = s.nodes[i].key /\ m.next = n /\ m.prev = s.nodes[i].prev
  BY <1>1 DEF Node
<1>3. r = PutNode(s, i, m)
  BY DEF PutNode, PutNext
<1> HIDE DEF m
<1>4. /\ r \in Shard
      /\ r.map = s.map /\ r.free = s.free /\ r.head = s.head /\ r.tail = s.tail
      /\ Len(r.nodes) = Len(s.nodes) /\ DOMAIN r.nodes = DOMAIN s.nodes
      /\ \A j \in DOMAIN s.nodes : r.nodes[j] = IF j = i THEN m ELSE s.nodes[j]
      /\ LiveIn(r) = LiveIn(s)
  BY <1>2, <1>3, WriteNode, SMTT(30)
<1>5. i \in DOMAIN s.nodes /\ s.nodes[i] # None /\ m # None
  BY <1>2, NoneIsNoNode DEF LiveIn
<1> QED
  BY <1>2, <1>4, <1>5 DEF SameKeys, LiveIn

\* The same for the other link.
LEMMA WritePrev ==
  ASSUME NEW s \in Shard, NEW i \in LiveIn(s), NEW p \in Option(Nat),
         NEW r, PutPrev(s, i, p) = r
  PROVE  /\ SameKeys(r, s) /\ LiveIn(r) = LiveIn(s)
         /\ r.head = s.head /\ r.tail = s.tail
         /\ \A j \in LiveIn(s) : /\ r.nodes[j].prev = IF j = i THEN p ELSE s.nodes[j].prev
                                 /\ r.nodes[j].next = s.nodes[j].next
<1> DEFINE m == [s.nodes[i] EXCEPT !.prev = p]
<1>1. s.nodes[i] \in Node
  BY ShardParts
<1>2. /\ m \in Node /\ m.key = s.nodes[i].key /\ m.prev = p /\ m.next = s.nodes[i].next
  BY <1>1 DEF Node
<1>3. r = PutNode(s, i, m)
  BY DEF PutNode, PutPrev
<1> HIDE DEF m
<1>4. /\ r \in Shard
      /\ r.map = s.map /\ r.free = s.free /\ r.head = s.head /\ r.tail = s.tail
      /\ Len(r.nodes) = Len(s.nodes) /\ DOMAIN r.nodes = DOMAIN s.nodes
      /\ \A j \in DOMAIN s.nodes : r.nodes[j] = IF j = i THEN m ELSE s.nodes[j]
      /\ LiveIn(r) = LiveIn(s)
  BY <1>2, <1>3, WriteNode, SMTT(30)
<1>5. i \in DOMAIN s.nodes /\ s.nodes[i] # None /\ m # None
  BY <1>2, NoneIsNoNode DEF LiveIn
<1> QED
  BY <1>2, <1>4, <1>5 DEF SameKeys, LiveIn

\* s with an end of the list written.
PutHead(s, n) == [s EXCEPT !.head = n]
PutTail(s, p) == [s EXCEPT !.tail = p]

\* Writing an end of the list.
LEMMA WriteEnds ==
  ASSUME NEW s \in Shard, NEW n \in Option(Nat)
  PROVE  /\ SameKeys(PutHead(s, n), s) /\ LiveIn(PutHead(s, n)) = LiveIn(s)
         /\ PutHead(s, n).head = n /\ PutHead(s, n).tail = s.tail
         /\ PutHead(s, n).nodes = s.nodes
         /\ SameKeys(PutTail(s, n), s) /\ LiveIn(PutTail(s, n)) = LiveIn(s)
         /\ PutTail(s, n).tail = n /\ PutTail(s, n).head = s.head
         /\ PutTail(s, n).nodes = s.nodes
BY DEF PutHead, PutTail, SameKeys, LiveIn, Shard

\* Having the same keys carries over from one shard to the next.
LEMMA SameKeysTransitive ==
  ASSUME NEW q, NEW r, NEW s, SameKeys(q, r), SameKeys(r, s)
  PROVE  SameKeys(q, s)
BY DEF SameKeys

\* lru_remove joins the neighbours of slot i, or moves the ends, and clears the
\* links of i.
LEMMA LruRemoveEffect ==
  ASSUME NEW s \in Shard, NEW i \in LiveIn(s),
         NEW p \in Option(LiveIn(s)), p = s.nodes[i].prev,
         NEW n \in Option(LiveIn(s)), n = s.nodes[i].next
  PROVE  LET r == LruRemove(s, i) IN
         /\ SameKeys(r, s) /\ LiveIn(r) = LiveIn(s)
         /\ r.head = IF p = None THEN n ELSE s.head
         /\ r.tail = IF n = None THEN p ELSE s.tail
         /\ \A j \in LiveIn(s) :
              /\ r.nodes[j].next = IF j = i THEN None ELSE IF j = p THEN n ELSE s.nodes[j].next
              /\ r.nodes[j].prev = IF j = i THEN None ELSE IF j = n THEN p ELSE s.nodes[j].prev
<1> DEFINE s1 == IF p = None THEN PutHead(s, n) ELSE PutNext(s, p, n)
           s2 == IF n = None THEN PutTail(s1, p) ELSE PutPrev(s1, n, p)
           s3 == PutPrev(s2, i, None)
           r  == PutNext(s3, i, None)
<1>0. /\ p \in Option(Nat) /\ n \in Option(Nat) /\ None \in Option(Nat)
      /\ \A j \in LiveIn(s) : j # None
  BY ShardParts, NoneIsNoNode, SMTT(30) DEF Option
<1>1. LruRemove(s, i) = r
  BY SMTT(30) DEF LruRemove, PutHead, PutTail, PutNext, PutPrev
<1>2. /\ SameKeys(s1, s) /\ LiveIn(s1) = LiveIn(s)
      /\ s1.head = IF p = None THEN n ELSE s.head
      /\ s1.tail = s.tail
      /\ \A j \in LiveIn(s) : /\ s1.nodes[j].next = IF j = p THEN n ELSE s.nodes[j].next
                              /\ s1.nodes[j].prev = s.nodes[j].prev
  <2>1. CASE p = None
    BY <1>0, <2>1, WriteEnds
  <2>2. CASE p # None
    <3>1. p \in LiveIn(s)
      BY <2>2 DEF Option
    <3> QED
      BY <1>0, <2>2, <3>1, WriteNext, SMTT(30)
  <2> QED
    BY <2>1, <2>2
<1>3. s1 \in Shard
  BY <1>2 DEF SameKeys
<1> HIDE DEF s1
<1>4. /\ SameKeys(s2, s1) /\ LiveIn(s2) = LiveIn(s)
      /\ s2.head = s1.head
      /\ s2.tail = IF n = None THEN p ELSE s1.tail
      /\ \A j \in LiveIn(s) : /\ s2.nodes[j].prev = IF j = n THEN p ELSE s1.nodes[j].prev
                              /\ s2.nodes[j].next = s1.nodes[j].next
  <2>1. CASE n = None
    BY <1>0, <1>2, <1>3, <2>1, WriteEnds, SMTT(30)
  <2>2. CASE n # None
    <3>1. n \in LiveIn(s1)
      BY <1>2, <2>2 DEF Option
    <3> QED
      BY <1>0, <1>2, <1>3, <2>2, <3>1, WritePrev, SMTT(30)
  <2> QED
    BY <2>1, <2>2
<1>5. s2 \in Shard
  BY <1>4 DEF SameKeys
<1> HIDE DEF s2
<1>6. /\ SameKeys(s3, s2) /\ LiveIn(s3) = LiveIn(s)
      /\ s3.head = s2.head /\ s3.tail = s2.tail
      /\ \A j \in LiveIn(s) : /\ s3.nodes[j].prev = IF j = i THEN None ELSE s2.nodes[j].prev
                              /\ s3.nodes[j].next = s2.nodes[j].next
  BY <1>0, <1>4, <1>5, WritePrev, SMTT(30)
<1>7. s3 \in Shard
  BY <1>6 DEF SameKeys
<1> HIDE DEF s3
<1>8. /\ SameKeys(r, s3) /\ LiveIn(r) = LiveIn(s)
      /\ r.head = s3.head /\ r.tail = s3.tail
      /\ \A j \in LiveIn(s) : /\ r.nodes[j].next = IF j = i THEN None ELSE s3.nodes[j].next
                              /\ r.nodes[j].prev = s3.nodes[j].prev
  BY <1>0, <1>6, <1>7, WriteNext, SMTT(30)
<1> HIDE DEF r
<1>9. SameKeys(r, s)
  BY <1>2, <1>4, <1>6, <1>8, SameKeysTransitive
<1> QED
  BY <1>1, <1>2, <1>4, <1>6, <1>8, <1>9, SMTT(30)

\* lru_push_back links slot i behind the tail, and it is the tail then.
LEMMA LruPushBackEffect ==
  ASSUME NEW s \in Shard, NEW i \in LiveIn(s),
         NEW t \in Option(LiveIn(s)), t = s.tail, t # i
  PROVE  LET r == LruPushBack(s, i) IN
         /\ SameKeys(r, s) /\ LiveIn(r) = LiveIn(s)
         /\ r.head = IF t = None THEN i ELSE s.head
         /\ r.tail = i
         /\ \A j \in LiveIn(s) :
              /\ r.nodes[j].next = IF j = i THEN None ELSE IF j = t THEN i ELSE s.nodes[j].next
              /\ r.nodes[j].prev = IF j = i THEN t ELSE s.nodes[j].prev
<1> DEFINE s0 == PutPrev(s, i, t)
           s1 == PutNext(s0, i, None)
           s2 == IF t = None THEN PutHead(s1, i) ELSE PutNext(s1, t, i)
           r  == PutTail(s2, i)
<1>0. /\ t \in Option(Nat) /\ i \in Option(Nat) /\ None \in Option(Nat)
      /\ \A j \in LiveIn(s) : j # None
  BY ShardParts, NoneIsNoNode, SMTT(30) DEF Option
<1>1. LruPushBack(s, i) = r
  BY SMTT(30) DEF LruPushBack, PutHead, PutTail, PutNext, PutPrev
<1>2. /\ SameKeys(s0, s) /\ LiveIn(s0) = LiveIn(s)
      /\ s0.head = s.head /\ s0.tail = s.tail
      /\ \A j \in LiveIn(s) : /\ s0.nodes[j].prev = IF j = i THEN t ELSE s.nodes[j].prev
                              /\ s0.nodes[j].next = s.nodes[j].next
  BY <1>0, WritePrev, SMTT(30)
<1>3. s0 \in Shard
  BY <1>2 DEF SameKeys
<1> HIDE DEF s0
<1>4. /\ SameKeys(s1, s0) /\ LiveIn(s1) = LiveIn(s)
      /\ s1.head = s.head /\ s1.tail = s.tail
      /\ \A j \in LiveIn(s) : /\ s1.nodes[j].next = IF j = i THEN None ELSE s.nodes[j].next
                              /\ s1.nodes[j].prev = s0.nodes[j].prev
  BY <1>0, <1>2, <1>3, WriteNext, SMTT(30)
<1>5. s1 \in Shard
  BY <1>4 DEF SameKeys
<1> HIDE DEF s1
<1>6. /\ SameKeys(s2, s1) /\ LiveIn(s2) = LiveIn(s)
      /\ s2.head = IF t = None THEN i ELSE s1.head
      /\ \A j \in LiveIn(s) : /\ s2.nodes[j].next = IF j = t THEN i ELSE s1.nodes[j].next
                              /\ s2.nodes[j].prev = s1.nodes[j].prev
  <2>1. CASE t = None
    BY <1>0, <1>4, <1>5, <2>1, WriteEnds
  <2>2. CASE t # None
    <3>1. t \in LiveIn(s1)
      BY <1>4, <2>2 DEF Option
    <3> QED
      BY <1>0, <1>4, <1>5, <2>2, <3>1, WriteNext, SMTT(30)
  <2> QED
    BY <2>1, <2>2
<1>7. s2 \in Shard
  BY <1>6 DEF SameKeys
<1> HIDE DEF s2
<1>8. /\ SameKeys(r, s2) /\ LiveIn(r) = LiveIn(s)
      /\ r.head = s2.head /\ r.tail = i /\ r.nodes = s2.nodes
  BY <1>0, <1>6, <1>7, WriteEnds
<1> HIDE DEF r
<1>9. SameKeys(r, s)
  BY <1>2, <1>4, <1>6, <1>8, SameKeysTransitive
<1> QED
  BY <1>1, <1>2, <1>4, <1>6, <1>8, <1>9, SMTT(30)

\* Unlinking a slot leaves a list of the others in their order.
LEMMA UnlinkChain ==
  ASSUME NEW s \in Shard, NEW L \in SUBSET LiveIn(s), NEW o, Chain(s, L, o), NEW i \in L
  PROVE  /\ Chain(LruRemove(s, i), L \ {i}, Without(o, i))
         /\ SameKeys(LruRemove(s, i), s)
         /\ LiveIn(LruRemove(s, i)) = LiveIn(s)
<1> DEFINE r == LruRemove(s, i)
           p == s.nodes[i].prev
           n == s.nodes[i].next
           w == Without(o, i)
           M == L \ {i}
<1>0. /\ TotalOrder(o, L) /\ o \in SUBSET (L \X L)
      /\ \A j \in L : j # None
  BY ShardParts, NoneIsNoNode, SMTT(30) DEF Chain, TotalOrder
<1>1. /\ p = None <=> s.head = i
      /\ n = None <=> s.tail = i
      /\ p # None => p \in L /\ s.nodes[p].next = i /\ NextUsed(o, L, p, i)
      /\ n # None => n \in L /\ s.nodes[n].prev = i /\ NextUsed(o, L, i, n)
  BY <1>0, SMTT(30) DEF Chain
<1>2. p # i /\ n # i
  BY <1>0, <1>1 DEF NextUsed, TotalOrder
<1>3. /\ SameKeys(r, s) /\ LiveIn(r) = LiveIn(s)
      /\ r.head = IF p = None THEN n ELSE s.head
      /\ r.tail = IF n = None THEN p ELSE s.tail
      /\ \A j \in LiveIn(s) :
           /\ r.nodes[j].next = IF j = i THEN None ELSE IF j = p THEN n ELSE s.nodes[j].next
           /\ r.nodes[j].prev = IF j = i THEN None ELSE IF j = n THEN p ELSE s.nodes[j].prev
  <2>1. p \in Option(LiveIn(s)) /\ n \in Option(LiveIn(s))
    BY <1>1 DEF Option
  <2> QED
    BY <2>1, LruRemoveEffect, SMTT(30)
<1>4. TotalOrder(w, M)
  BY <1>0, WithoutTotal
<1>5. \A a, b : <<a, b>> \in w <=> <<a, b>> \in o /\ a # i /\ b # i
  BY InWithout
<1> HIDE DEF r, p, n, w
<1>6. r.head = None <=> M = {}
  <2>1. CASE p = None
    <3>1. Oldest(o, L, i)
      BY <1>0, <1>1, <2>1 DEF Chain
    <3>2. n = None => M = {}
      <4> SUFFICES ASSUME n = None PROVE M = {}
        OBVIOUS
      <4>1. Newest(o, L, i)
        BY <1>0, <1>1 DEF Chain
      <4> QED
        BY <1>0, <3>1, <4>1 DEF Oldest, Newest, TotalOrder
    <3>3. n # None => n \in M
      BY <1>1, <1>2
    <3> QED
      BY <1>3, <2>1, <3>2, <3>3
  <2>2. CASE p # None
    BY <1>1, <1>2, <1>3, <2>2 DEF Chain
  <2> QED
    BY <2>1, <2>2
<1>7. r.tail = None <=> M = {}
  <2>1. CASE n = None
    <3>1. Newest(o, L, i)
      BY <1>0, <1>1, <2>1 DEF Chain
    <3>2. p = None => M = {}
      <4> SUFFICES ASSUME p = None PROVE M = {}
        OBVIOUS
      <4>1. Oldest(o, L, i)
        BY <1>0, <1>1 DEF Chain
      <4> QED
        BY <1>0, <3>1, <4>1 DEF Oldest, Newest, TotalOrder
    <3>3. p # None => p \in M
      BY <1>1, <1>2
    <3> QED
      BY <1>3, <2>1, <3>2, <3>3
  <2>2. CASE n # None
    BY <1>1, <1>2, <1>3, <2>2 DEF Chain
  <2> QED
    BY <2>1, <2>2
<1>8. r.head # None => Oldest(w, M, r.head)
  <2> SUFFICES ASSUME r.head # None PROVE Oldest(w, M, r.head)
    OBVIOUS
  <2>1. CASE p = None
    <3>1. Oldest(o, L, i) /\ n # None /\ r.head = n
      BY <1>0, <1>1, <1>3, <2>1 DEF Chain
    <3> QED
      BY <1>0, <1>1, <1>2, <1>5, <3>1 DEF Oldest, NextUsed, TotalOrder
  <2>2. CASE p # None
    BY <1>1, <1>3, <1>5, <2>2 DEF Chain, Oldest
  <2> QED
    BY <2>1, <2>2
<1>9. r.tail # None => Newest(w, M, r.tail)
  <2> SUFFICES ASSUME r.tail # None PROVE Newest(w, M, r.tail)
    OBVIOUS
  <2>1. CASE n = None
    <3>1. Newest(o, L, i) /\ p # None /\ r.tail = p
      BY <1>0, <1>1, <1>3, <2>1 DEF Chain
    <3> QED
      BY <1>0, <1>1, <1>2, <1>5, <3>1 DEF Newest, NextUsed, TotalOrder
  <2>2. CASE n # None
    BY <1>1, <1>3, <1>5, <2>2 DEF Chain, Newest
  <2> QED
    BY <2>1, <2>2
<1>10. ASSUME NEW j \in M
       PROVE  /\ r.nodes[j].next = None <=> r.tail = j
              /\ r.nodes[j].prev = None <=> r.head = j
              /\ r.nodes[j].next # None =>
                   /\ r.nodes[j].next \in M
                   /\ r.nodes[r.nodes[j].next].prev = j
                   /\ NextUsed(w, M, j, r.nodes[j].next)
              /\ r.nodes[j].prev # None =>
                   /\ r.nodes[j].prev \in M
                   /\ r.nodes[r.nodes[j].prev].next = j
  <2>0. j \in L /\ j # i /\ j \in LiveIn(s)
    OBVIOUS
  <2>1. r.nodes[j].next = None <=> r.tail = j
    BY <1>0, <1>1, <1>2, <1>3, <2>0, SMTT(30) DEF Chain
  <2>2. r.nodes[j].prev = None <=> r.head = j
    BY <1>0, <1>1, <1>2, <1>3, <2>0, SMTT(30) DEF Chain
  <2>3. ASSUME r.nodes[j].next # None
        PROVE  /\ r.nodes[j].next \in M
               /\ r.nodes[r.nodes[j].next].prev = j
               /\ NextUsed(w, M, j, r.nodes[j].next)
    <3>1. CASE j = p
      <4>1. r.nodes[j].next = n /\ n # None /\ n \in M
        BY <1>1, <1>2, <1>3, <2>0, <2>3, <3>1
      <4>2. r.nodes[n].prev = j
        BY <1>3, <3>1, <4>1
      <4>3. NextUsed(w, M, j, n)
        <5>1. NextUsed(o, L, j, i) /\ NextUsed(o, L, i, n) /\ n \in L /\ n # i
          BY <1>0, <1>1, <2>0, <3>1, <4>1
        <5>2. <<j, n>> \in w
          BY <1>0, <1>5, <2>0, <5>1 DEF NextUsed, TotalOrder
        <5>3. ASSUME NEW k \in M, <<j, k>> \in w, <<k, n>> \in w PROVE FALSE
          <6>1. <<k, i>> \in o \/ <<i, k>> \in o
            BY <1>0 DEF TotalOrder
          <6> QED
            BY <1>5, <5>1, <5>3, <6>1 DEF NextUsed
        <5> QED
          BY <5>2, <5>3 DEF NextUsed
      <4> QED
        BY <4>1, <4>2, <4>3
    <3>2. CASE j # p
      <4> DEFINE m == s.nodes[j].next
      <4>1. /\ r.nodes[j].next = m /\ m # None /\ m \in L
            /\ s.nodes[m].prev = j /\ NextUsed(o, L, j, m)
        BY <1>3, <2>0, <2>3, <3>2, SMTT(30) DEF Chain
      <4> HIDE DEF m
      <4>2. m # i
        BY <3>2, <4>1 DEF p
      <4>3. m # n
        BY <1>1, <2>0, <4>1
      <4>4. r.nodes[m].prev = j
        BY <1>3, <4>1, <4>2, <4>3
      <4>5. NextUsed(w, M, j, m)
        BY <1>5, <2>0, <4>1, <4>2 DEF NextUsed
      <4> QED
        BY <4>1, <4>2, <4>4, <4>5
    <3> QED
      BY <3>1, <3>2
  <2>4. ASSUME r.nodes[j].prev # None
        PROVE  /\ r.nodes[j].prev \in M
               /\ r.nodes[r.nodes[j].prev].next = j
    <3>1. CASE j = n
      BY <1>1, <1>2, <1>3, <2>0, <2>4, <3>1
    <3>2. CASE j # n
      <4> DEFINE m == s.nodes[j].prev
      <4>1. /\ r.nodes[j].prev = m /\ m # None /\ m \in L /\ s.nodes[m].next = j
        BY <1>3, <2>0, <2>4, <3>2, SMTT(30) DEF Chain
      <4> HIDE DEF m
      <4>2. m # i
        BY <3>2, <4>1 DEF n
      <4>3. m # p
        BY <1>1, <2>0, <4>1
      <4> QED
        BY <1>3, <4>1, <4>2, <4>3
    <3> QED
      BY <3>1, <3>2
  <2> QED
    BY <2>1, <2>2, <2>3, <2>4
<1> QED
  BY <1>3, <1>4, <1>6, <1>7, <1>8, <1>9, <1>10 DEF Chain, r, w

\* Linking a slot behind the tail makes it the newest of the list.
LEMMA LinkChain ==
  ASSUME NEW s \in Shard, NEW L \in SUBSET LiveIn(s), NEW o, Chain(s, L, o),
         NEW i \in LiveIn(s) \ L
  PROVE  /\ Chain(LruPushBack(s, i), L \cup {i}, WithNewest(o, L, i))
         /\ SameKeys(LruPushBack(s, i), s)
         /\ LiveIn(LruPushBack(s, i)) = LiveIn(s)
<1> DEFINE r == LruPushBack(s, i)
           t == s.tail
           w == WithNewest(o, L, i)
           M == L \cup {i}
<1>0. /\ TotalOrder(o, L) /\ o \in SUBSET (L \X L)
      /\ \A j \in LiveIn(s) : j # None
      /\ \A a, b : <<a, b>> \in o => a \in L /\ b \in L
  BY ShardParts, NoneIsNoNode, SMTT(30) DEF Chain, TotalOrder
<1>1. /\ t = None <=> L = {}
      /\ t # None => t \in L /\ Newest(o, L, t)
  BY DEF Chain, Newest
<1>2. t # i
  BY <1>0, <1>1
<1>3. /\ SameKeys(r, s) /\ LiveIn(r) = LiveIn(s)
      /\ r.head = IF t = None THEN i ELSE s.head
      /\ r.tail = i
      /\ \A j \in LiveIn(s) :
           /\ r.nodes[j].next = IF j = i THEN None ELSE IF j = t THEN i ELSE s.nodes[j].next
           /\ r.nodes[j].prev = IF j = i THEN t ELSE s.nodes[j].prev
  <2>1. t \in Option(LiveIn(s))
    BY <1>1 DEF Option
  <2> QED
    BY <1>2, <2>1, LruPushBackEffect, SMTT(30)
<1>4. TotalOrder(w, M)
  BY <1>0, WithNewestTotal
<1>5. \A a, b : <<a, b>> \in w <=>
                  \/ <<a, b>> \in o /\ a # i /\ b # i
                  \/ a \in L /\ a # i /\ b = i
  BY InWithNewest
<1> HIDE DEF r, t, w
<1>6. r.head # None /\ Oldest(w, M, r.head)
  <2>1. CASE t = None
    BY <1>0, <1>1, <1>3, <1>5, <2>1 DEF Oldest
  <2>2. CASE t # None
    <3>1. s.head # None /\ Oldest(o, L, s.head) /\ r.head = s.head
      BY <1>1, <1>3, <2>2 DEF Chain
    <3> QED
      BY <1>0, <1>5, <3>1 DEF Oldest
  <2> QED
    BY <2>1, <2>2
<1>7. r.tail # None /\ Newest(w, M, r.tail)
  BY <1>0, <1>3, <1>5 DEF Newest
<1>8. ASSUME NEW j \in M
      PROVE  /\ r.nodes[j].next = None <=> r.tail = j
             /\ r.nodes[j].prev = None <=> r.head = j
             /\ r.nodes[j].next # None =>
                  /\ r.nodes[j].next \in M
                  /\ r.nodes[r.nodes[j].next].prev = j
                  /\ NextUsed(w, M, j, r.nodes[j].next)
             /\ r.nodes[j].prev # None =>
                  /\ r.nodes[j].prev \in M
                  /\ r.nodes[r.nodes[j].prev].next = j
  <2>0. j \in LiveIn(s)
    OBVIOUS
  <2>1. CASE j = i
    <3>1. r.nodes[j].next = None /\ r.tail = j /\ r.nodes[j].prev = t
      BY <1>3, <2>0, <2>1
    <3>2. t = None <=> r.head = j
      BY <1>0, <1>1, <1>3, <2>1 DEF Chain, Oldest
    <3>3. t # None => t \in M /\ r.nodes[t].next = j
      BY <1>1, <1>2, <1>3, <2>1
    <3> QED
      BY <3>1, <3>2, <3>3
  <2>2. CASE j # i
    <3>0. /\ j \in L /\ r.nodes[j].prev = s.nodes[j].prev
          /\ r.nodes[j].next = IF j = t THEN i ELSE s.nodes[j].next
      BY <1>3, <2>0, <2>2
    <3>1. r.nodes[j].next # None /\ r.tail # j
      BY <1>0, <1>3, <2>2, <3>0 DEF Chain, t
    <3>2. r.nodes[j].prev = None <=> r.head = j
      BY <1>1, <1>3, <2>2, <3>0 DEF Chain
    <3>3. /\ r.nodes[j].next \in M
          /\ r.nodes[r.nodes[j].next].prev = j
          /\ NextUsed(w, M, j, r.nodes[j].next)
      <4>1. CASE j = t
        <5>1. r.nodes[j].next = i /\ r.nodes[i].prev = j
          BY <1>3, <3>0, <4>1
        <5>2. NextUsed(w, M, j, i)
          BY <1>0, <1>1, <1>5, <3>0, <4>1 DEF NextUsed, Newest
        <5> QED
          BY <5>1, <5>2
      <4>2. CASE j # t
        <5> DEFINE m == s.nodes[j].next
        <5>1. /\ r.nodes[j].next = m /\ m \in L /\ m # i
              /\ s.nodes[m].prev = j /\ NextUsed(o, L, j, m)
          BY <3>0, <4>2 DEF Chain, t
        <5> HIDE DEF m
        <5>2. r.nodes[m].prev = j
          BY <1>3, <5>1
        <5>3. NextUsed(w, M, j, m)
          BY <1>0, <1>5, <3>0, <5>1, <2>2 DEF NextUsed
        <5> QED
          BY <5>1, <5>2, <5>3
      <4> QED
        BY <4>1, <4>2
    <3>4. ASSUME r.nodes[j].prev # None
          PROVE  /\ r.nodes[j].prev \in M
                 /\ r.nodes[r.nodes[j].prev].next = j
      <4> DEFINE m == s.nodes[j].prev
      <4>1. r.nodes[j].prev = m /\ m \in L /\ s.nodes[m].next = j /\ m # i
        BY <3>0, <3>4 DEF Chain
      <4> HIDE DEF m
      <4>2. m # t
        BY <1>0, <3>0, <4>1 DEF Chain, t
      <4> QED
        BY <1>3, <4>1, <4>2
    <3> QED
      BY <3>1, <3>2, <3>3, <3>4
  <2> QED
    BY <2>1, <2>2
<1>9. M # {}
  OBVIOUS
<1> QED
  BY <1>3, <1>4, <1>6, <1>7, <1>8, <1>9 DEF Chain, r, w

\* A list depends only on the ends and the links.
LEMMA ChainSame ==
  ASSUME NEW s, NEW r, NEW L, NEW o, Chain(s, L, o),
         r.head = s.head, r.tail = s.tail,
         \A j \in L : /\ r.nodes[j].next = s.nodes[j].next
                      /\ r.nodes[j].prev = s.nodes[j].prev
  PROVE  Chain(r, L, o)
BY SMTT(30) DEF Chain

-----------------------------------------------------------------------------
(* The shard.                                                              *)

\* The keys in the map.
KeysIn(s) == {k \in Keys : s.map[k] # None}

\* MapMatchesArena of the shard s.
MapMatches(s) ==
  /\ \A k \in Keys : s.map[k] # None =>
       s.map[k] \in LiveIn(s) /\ s.nodes[s.map[k]].key = k
  /\ \A i \in LiveIn(s) : s.map[s.nodes[i].key] = i

\* FreeListExact of the shard s.
FreeExact(s) ==
  /\ \A m, n \in DOMAIN s.free : s.free[m] = s.free[n] => m = n
  /\ \A i \in DOMAIN s.nodes : s.nodes[i] = None <=> \E m \in DOMAIN s.free : s.free[m] = i
  /\ \A m \in DOMAIN s.free : s.free[m] \in DOMAIN s.nodes

\* The order of the slots whose keys have the order o.
SlotOrder(s, o) ==
  {ij \in LiveIn(s) \X LiveIn(s) : <<s.nodes[ij[1]].key, s.nodes[ij[2]].key>> \in o}

\* A shard in order, whose keys were used in the order o.
Sound(s, o) ==
  /\ s \in Shard
  /\ MapMatches(s)
  /\ FreeExact(s)
  /\ o \in SUBSET (KeysIn(s) \X KeysIn(s))
  /\ Chain(s, LiveIn(s), SlotOrder(s, o))

\* Pairs of slots.
LEMMA InSlotOrder ==
  ASSUME NEW s, NEW o, NEW i, NEW j
  PROVE  <<i, j>> \in SlotOrder(s, o) <=>
           /\ i \in LiveIn(s) /\ j \in LiveIn(s)
           /\ <<s.nodes[i].key, s.nodes[j].key>> \in o
BY DEF SlotOrder

\* A key in the map has a slot of its own.
LEMMA SlotOfKey ==
  ASSUME NEW s \in Shard, MapMatches(s), NEW k \in KeysIn(s)
  PROVE  /\ s.map[k] \in LiveIn(s) /\ s.nodes[s.map[k]].key = k
         /\ \A j \in LiveIn(s) : /\ s.nodes[j].key = k <=> j = s.map[k]
                                 /\ s.nodes[j].key \in KeysIn(s)
<1>1. \A j \in LiveIn(s) : s.nodes[j].key \in Keys /\ j # None
  BY ShardParts, NoneIsNoNode, SMTT(30) DEF Node
<1> QED
  BY <1>1 DEF MapMatches, KeysIn

\* remove_idx, written field by field.
LEMMA RemoveIdxEffect ==
  ASSUME NEW s \in Shard, NEW i \in LiveIn(s), NEW k \in Keys, s.nodes[i].key = k,
         NEW q \in Shard, SameKeys(q, s), q = LruRemove(s, i)
  PROVE  LET r == RemoveIdx(s, i) IN
         /\ r \in Shard
         /\ r.map = [s.map EXCEPT ![k] = None]
         /\ r.free = Append(s.free, i)
         /\ r.head = q.head /\ r.tail = q.tail
         /\ DOMAIN r.nodes = DOMAIN s.nodes /\ Len(r.nodes) = Len(s.nodes)
         /\ \A j \in DOMAIN s.nodes : r.nodes[j] = IF j = i THEN None ELSE q.nodes[j]
         /\ LiveIn(r) = LiveIn(s) \ {i}
<1> DEFINE r == RemoveIdx(s, i)
           nodes == [q.nodes EXCEPT ![i] = None]
<1>0. q.map = s.map /\ q.free = s.free /\ DOMAIN q.nodes = DOMAIN s.nodes /\ Len(q.nodes) = Len(s.nodes)
  BY DEF SameKeys
<1>1. r = [map |-> [s.map EXCEPT ![k] = None], nodes |-> nodes, free |-> Append(s.free, i),
           head |-> q.head, tail |-> q.tail]
  <2>1. r = [q EXCEPT !.nodes[i] = None, !.map[k] = None, !.free = Append(@, i)]
    BY DEF RemoveIdx
  <2>2. q = [map |-> q.map, nodes |-> q.nodes, free |-> q.free,
             head |-> q.head, tail |-> q.tail]
    BY ShardParts
  <2> HIDE DEF r
  <2> QED
    BY <1>0, <2>1, <2>2
<1>2. /\ nodes \in Seq(Option(Node)) /\ Len(nodes) = Len(q.nodes)
      /\ \A j \in 1 .. Len(q.nodes) : nodes[j] = IF j = i THEN None ELSE q.nodes[j]
  <2>1. /\ None \in Option(Node) /\ i \in 1 .. Len(q.nodes) /\ q.nodes \in Seq(Option(Node))
    BY <1>0, ShardParts DEF Option
  <2> QED
    BY <2>1, ExceptSeq, SMTT(30)
<1>3. DOMAIN nodes = DOMAIN s.nodes /\ DOMAIN s.nodes = 1 .. Len(q.nodes)
  BY <1>0, ShardParts
<1>4. Append(s.free, i) \in Seq(Nat)
  BY ShardParts, SMTT(30)
<1>5. [s.map EXCEPT ![k] = None] \in [Keys -> Option(Nat)]
  BY ShardParts DEF Option
<1> HIDE DEF r, nodes
<1>6. r \in Shard
  BY <1>1, <1>2, <1>4, <1>5, ShardParts DEF Shard
<1>7. LiveIn(r) = LiveIn(s) \ {i}
  BY <1>1, <1>2, <1>3, SMTT(30) DEF LiveIn, SameKeys
<1>8. /\ r.map = [s.map EXCEPT ![k] = None] /\ r.free = Append(s.free, i)
      /\ r.head = q.head /\ r.tail = q.tail /\ r.nodes = nodes
  BY <1>1
<1>9. /\ DOMAIN r.nodes = DOMAIN s.nodes /\ Len(r.nodes) = Len(s.nodes)
      /\ \A j \in DOMAIN s.nodes : r.nodes[j] = IF j = i THEN None ELSE q.nodes[j]
  BY <1>0, <1>2, <1>3, <1>8
<1> QED
  BY <1>6, <1>7, <1>8, <1>9 DEF r

\* remove_idx of a key's slot leaves a shard in order without the key.
LEMMA RemoveSound ==
  ASSUME NEW s, NEW o, Sound(s, o), NEW k \in KeysIn(s)
  PROVE  /\ Sound(RemoveIdx(s, s.map[k]), Without(o, k))
         /\ KeysIn(RemoveIdx(s, s.map[k])) = KeysIn(s) \ {k}
         /\ Len(RemoveIdx(s, s.map[k]).nodes) = Len(s.nodes)
<1> DEFINE i == s.map[k]
           L == LiveIn(s)
           q == LruRemove(s, i)
           r == RemoveIdx(s, i)
<1>0. /\ s \in Shard /\ MapMatches(s) /\ FreeExact(s) /\ k \in Keys
      /\ o \in SUBSET (KeysIn(s) \X KeysIn(s)) /\ Chain(s, L, SlotOrder(s, o))
  BY DEF Sound, KeysIn
<1>1. /\ i \in L /\ s.nodes[i].key = k
      /\ \A j \in L : (s.nodes[j].key = k <=> j = i) /\ s.nodes[j].key \in KeysIn(s)
  BY <1>0, SlotOfKey
<1>2. /\ Chain(q, L \ {i}, Without(SlotOrder(s, o), i)) /\ SameKeys(q, s)
  BY <1>0, <1>1, UnlinkChain
<1>3. /\ r \in Shard
      /\ r.map = [s.map EXCEPT ![k] = None]
      /\ r.free = Append(s.free, i)
      /\ r.head = q.head /\ r.tail = q.tail
      /\ DOMAIN r.nodes = DOMAIN s.nodes /\ Len(r.nodes) = Len(s.nodes)
      /\ \A j \in DOMAIN s.nodes : r.nodes[j] = IF j = i THEN None ELSE q.nodes[j]
      /\ LiveIn(r) = L \ {i}
  <2>1. q \in Shard
    BY <1>2 DEF SameKeys
  <2> QED
    BY <1>0, <1>1, <1>2, <2>1, RemoveIdxEffect, SMTT(30)
<1>4. \A j \in L \ {i} : r.nodes[j] = q.nodes[j] /\ r.nodes[j].key = s.nodes[j].key
  BY <1>2, <1>3 DEF SameKeys, LiveIn
<1> HIDE DEF r, q
<1>5. /\ s.map \in [Keys -> Option(Nat)] /\ s.free \in Seq(Nat) /\ i \in Nat
      /\ DOMAIN s.free = 1 .. Len(s.free) /\ Len(s.free) \in Nat
      /\ DOMAIN s.nodes = 1 .. Len(s.nodes)
      /\ \A j \in L : s.nodes[j].key \in Keys
  BY <1>0, <1>1, ShardParts, SMTT(30) DEF KeysIn
<1> HIDE DEF i
<1>6. KeysIn(r) = KeysIn(s) \ {k}
  BY <1>3, <1>5, <1>0 DEF KeysIn
<1>7. MapMatches(r)
  <2>1. \A j \in Keys \ {k} : r.map[j] = s.map[j]
    BY <1>3, <1>5
  <2>2. r.map[k] = None
    BY <1>0, <1>3, <1>5
  <2>3. ASSUME NEW j \in Keys, r.map[j] # None
        PROVE  r.map[j] \in LiveIn(r) /\ r.nodes[r.map[j]].key = j
    <3>1. j # k /\ r.map[j] = s.map[j]
      BY <2>1, <2>2, <2>3
    <3>2. s.map[j] \in L /\ s.nodes[s.map[j]].key = j
      BY <1>0, <2>3, <3>1 DEF MapMatches
    <3> QED
      BY <1>1, <1>3, <1>4, <3>1, <3>2
  <2>4. ASSUME NEW j \in LiveIn(r) PROVE r.map[r.nodes[j].key] = j
    <3>1. j \in L /\ j # i /\ r.nodes[j].key = s.nodes[j].key
      BY <1>3, <1>4
    <3>2. s.nodes[j].key \in Keys \ {k} /\ s.map[s.nodes[j].key] = j
      BY <1>0, <1>1, <1>5, <3>1 DEF MapMatches
    <3> QED
      BY <2>1, <3>1, <3>2
  <2> QED
    BY <2>3, <2>4 DEF MapMatches
<1>8. FreeExact(r)
  <2>1. /\ Len(r.free) = Len(s.free) + 1 /\ DOMAIN r.free = 1 .. Len(s.free) + 1
        /\ \A m \in 1 .. Len(s.free) : r.free[m] = s.free[m]
        /\ r.free[Len(s.free) + 1] = i
    BY <1>3, <1>5, SMTT(30)
  <2>2. /\ i \in DOMAIN s.nodes /\ s.nodes[i] # None
    BY <1>1 DEF LiveIn
  <2>3. \A m \in DOMAIN s.free : s.free[m] \in DOMAIN s.nodes /\ s.free[m] # i
    BY <1>0, <2>2 DEF FreeExact
  <2>4. \A m : m \in DOMAIN r.free <=> m \in DOMAIN s.free \/ m = Len(s.free) + 1
    BY <1>5, <2>1, SMTT(30)
  <2>5. \A m, n \in DOMAIN r.free : r.free[m] = r.free[n] => m = n
    <3>1. \A m \in DOMAIN s.free : r.free[m] = s.free[m] /\ r.free[m] # i
      BY <1>5, <2>1, <2>3
    <3>2. \A m, n \in DOMAIN s.free : s.free[m] = s.free[n] => m = n
      BY <1>0 DEF FreeExact
    <3> QED
      BY <2>1, <2>4, <3>1, <3>2
  <2>6. \A m \in DOMAIN r.free : r.free[m] \in DOMAIN r.nodes
    BY <1>3, <1>5, <2>1, <2>2, <2>3, SMTT(30)
  <2>7. ASSUME NEW j \in DOMAIN r.nodes
        PROVE  r.nodes[j] = None <=> \E m \in DOMAIN r.free : r.free[m] = j
    <3>1. CASE j = i
      <4>1. Len(s.free) + 1 \in DOMAIN r.free
        BY <1>5, <2>1, SMTT(30)
      <4> QED
        BY <1>3, <2>1, <3>1, <4>1
    <3>2. CASE j # i
      <4>1. r.nodes[j] = None <=> s.nodes[j] = None
        BY <1>2, <1>3, <3>2 DEF SameKeys
      <4>2. (\E m \in DOMAIN r.free : r.free[m] = j) <=> (\E m \in DOMAIN s.free : s.free[m] = j)
        BY <1>5, <2>1, <2>4, <3>2
      <4> QED
        BY <1>0, <1>3, <4>1, <4>2 DEF FreeExact
    <3> QED
      BY <3>1, <3>2
  <2> QED
    BY <2>5, <2>6, <2>7 DEF FreeExact
<1>9. SlotOrder(r, Without(o, k)) = Without(SlotOrder(s, o), i)
  <2>1. \A a, b : <<a, b>> \in SlotOrder(r, Without(o, k)) <=> <<a, b>> \in Without(SlotOrder(s, o), i)
    <3> TAKE a, b
    <3>1. SlotOrder(s, o) \in SUBSET (L \X L)
      BY DEF SlotOrder
    <3>2. <<a, b>> \in Without(SlotOrder(s, o), i) <=> <<a, b>> \in SlotOrder(s, o) /\ a # i /\ b # i
      BY InWithout
    <3>3. <<a, b>> \in SlotOrder(s, o) <=> a \in L /\ b \in L /\ <<s.nodes[a].key, s.nodes[b].key>> \in o
      BY InSlotOrder
    <3>4. <<a, b>> \in SlotOrder(r, Without(o, k)) <=>
            a \in L \ {i} /\ b \in L \ {i} /\ <<r.nodes[a].key, r.nodes[b].key>> \in Without(o, k)
      BY <1>3, InSlotOrder
    <3>5. <<r.nodes[a].key, r.nodes[b].key>> \in Without(o, k) <=>
            <<r.nodes[a].key, r.nodes[b].key>> \in o /\ r.nodes[a].key # k /\ r.nodes[b].key # k
      <4>1. \A x, y : <<x, y>> \in Without(o, k) <=> <<x, y>> \in o /\ x # k /\ y # k
        BY InWithout
      <4> QED
        BY <4>1
    <3> QED
      BY <1>1, <1>4, <3>2, <3>3, <3>4, <3>5
  <2>2. SlotOrder(r, Without(o, k)) \subseteq L \X L /\ Without(SlotOrder(s, o), i) \subseteq L \X L
    BY <1>3 DEF SlotOrder, Without
  <2> QED
    BY <2>1, <2>2, SMTT(30)
<1>10. Chain(r, LiveIn(r), SlotOrder(r, Without(o, k)))
  <2>1. Chain(r, L \ {i}, Without(SlotOrder(s, o), i))
    BY <1>2, <1>3, <1>4, ChainSame, SMTT(30)
  <2> QED
    BY <1>3, <1>9, <2>1
<1>11. Without(o, k) \in SUBSET (KeysIn(r) \X KeysIn(r))
  BY <1>0, <1>6 DEF Without
<1> QED
  BY <1>3, <1>6, <1>7, <1>8, <1>10, <1>11 DEF Sound, r, i

\* What does not depend on links carries over between shards with the same keys.
LEMMA SameKeysSound ==
  ASSUME NEW s \in Shard, NEW r, SameKeys(r, s)
  PROVE  /\ LiveIn(r) = LiveIn(s) /\ KeysIn(r) = KeysIn(s)
         /\ MapMatches(s) => MapMatches(r)
         /\ FreeExact(s) => FreeExact(r)
         /\ \A o : SlotOrder(r, o) = SlotOrder(s, o)
<1>1. LiveIn(r) = LiveIn(s) /\ KeysIn(r) = KeysIn(s)
  BY DEF SameKeys, LiveIn, KeysIn
<1>2. \A j \in LiveIn(s) : r.nodes[j].key = s.nodes[j].key
  BY DEF SameKeys, LiveIn
<1>3. MapMatches(s) => MapMatches(r)
  BY <1>1, <1>2, SMTT(30) DEF SameKeys, MapMatches
<1>4. FreeExact(s) => FreeExact(r)
  BY DEF SameKeys, FreeExact
<1>5. ASSUME NEW o PROVE SlotOrder(r, o) = SlotOrder(s, o)
  BY <1>1, <1>2 DEF SlotOrder
<1> QED
  BY <1>1, <1>3, <1>4, <1>5

\* In an order of which k is the newest already, nothing moves.
LEMMA NewestStays ==
  ASSUME NEW live, NEW o, TotalOrder(o, live), NEW k, Newest(o, live, k)
  PROVE  WithNewest(o, live, k) = o
<1>1. o \in SUBSET (live \X live)
  BY DEF TotalOrder
<1>2. \A a, b : <<a, b>> \in WithNewest(o, live, k) <=> <<a, b>> \in o
  <2>1. \A a, b : <<a, b>> \in WithNewest(o, live, k) <=>
                    \/ <<a, b>> \in o /\ a # k /\ b # k
                    \/ a \in live /\ a # k /\ b = k
    BY InWithNewest
  <2>2. \A a, b : <<a, b>> \in o => a \in live /\ b \in live
    BY <1>1
  <2> QED
    BY <2>1, <2>2 DEF Newest, TotalOrder
<1>3. WithNewest(o, live, k) \subseteq live \X live
  BY <1>1 DEF WithNewest, Without, Newest
<1> QED
  BY <1>1, <1>2, <1>3, SMTT(30)

\* Making a key the newest makes its slot the newest.
LEMMA SlotNewest ==
  ASSUME NEW s \in Shard, MapMatches(s), NEW o \in SUBSET (KeysIn(s) \X KeysIn(s)),
         NEW k \in KeysIn(s)
  PROVE  SlotOrder(s, WithNewest(o, KeysIn(s), k)) =
           WithNewest(Without(SlotOrder(s, o), s.map[k]), LiveIn(s) \ {s.map[k]}, s.map[k])
<1> DEFINE i == s.map[k]
           L == LiveIn(s)
           w == Without(SlotOrder(s, o), i)
<1>1. /\ i \in L
      /\ \A j \in L : (s.nodes[j].key = k <=> j = i) /\ s.nodes[j].key \in KeysIn(s)
  BY SlotOfKey
<1> HIDE DEF i
<1>2. \A x, y : <<x, y>> \in WithNewest(o, KeysIn(s), k) <=>
                  \/ <<x, y>> \in o /\ x # k /\ y # k
                  \/ x \in KeysIn(s) /\ x # k /\ y = k
  BY InWithNewest
<1>3. SlotOrder(s, o) \in SUBSET (L \X L) /\ w \in SUBSET (L \X L)
  BY DEF SlotOrder, Without
<1>4. ASSUME NEW a, NEW b
      PROVE  <<a, b>> \in SlotOrder(s, WithNewest(o, KeysIn(s), k)) <=>
               <<a, b>> \in WithNewest(w, L \ {i}, i)
  <2>1. <<a, b>> \in WithNewest(w, L \ {i}, i) <=>
           \/ <<a, b>> \in SlotOrder(s, o) /\ a # i /\ b # i
           \/ a \in L /\ a # i /\ b = i
    BY InRenewed
  <2>3. <<a, b>> \in SlotOrder(s, o) <=>
          a \in L /\ b \in L /\ <<s.nodes[a].key, s.nodes[b].key>> \in o
    BY InSlotOrder
  <2>4. <<a, b>> \in SlotOrder(s, WithNewest(o, KeysIn(s), k)) <=>
          /\ a \in L /\ b \in L
          /\ <<s.nodes[a].key, s.nodes[b].key>> \in WithNewest(o, KeysIn(s), k)
    BY InSlotOrder
  <2> HIDE DEF w, L
  <2>5. <<s.nodes[a].key, s.nodes[b].key>> \in WithNewest(o, KeysIn(s), k) <=>
           \/ <<s.nodes[a].key, s.nodes[b].key>> \in o /\ s.nodes[a].key # k /\ s.nodes[b].key # k
           \/ s.nodes[a].key \in KeysIn(s) /\ s.nodes[a].key # k /\ s.nodes[b].key = k
    BY <1>2
  <2> QED
    BY <1>1, <2>1, <2>3, <2>4, <2>5
<1>5. /\ SlotOrder(s, WithNewest(o, KeysIn(s), k)) \subseteq L \X L
      /\ WithNewest(w, L \ {i}, i) \subseteq L \X L
  BY <1>1, <1>3 DEF SlotOrder, WithNewest, Without
<1>6. SlotOrder(s, WithNewest(o, KeysIn(s), k)) = WithNewest(w, L \ {i}, i)
  <2> DEFINE A == SlotOrder(s, WithNewest(o, KeysIn(s), k))
             B == WithNewest(w, L \ {i}, i)
  <2>1. A \in SUBSET (L \X L) /\ B \in SUBSET (L \X L)
    BY <1>5
  <2>2. \A a, b : <<a, b>> \in A <=> <<a, b>> \in B
    BY <1>4
  <2> HIDE DEF A, B
  <2>3. A = B
    BY <2>1, <2>2, SamePairs
  <2> QED
    BY <2>3 DEF A, B
<1> QED
  BY <1>6 DEF i

\* touch makes the key the most recently used one.
LEMMA TouchSound ==
  ASSUME NEW s, NEW o, Sound(s, o), NEW k \in KeysIn(s)
  PROVE  /\ Sound(Touch(s, s.map[k]), WithNewest(o, KeysIn(s), k))
         /\ KeysIn(Touch(s, s.map[k])) = KeysIn(s)
         /\ Len(Touch(s, s.map[k]).nodes) = Len(s.nodes)
<1> DEFINE i == s.map[k]
           L == LiveIn(s)
           w == WithNewest(o, KeysIn(s), k)
           v == Without(SlotOrder(s, o), i)
           q == LruRemove(s, i)
           r == LruPushBack(q, i)
<1>0. /\ s \in Shard /\ MapMatches(s) /\ FreeExact(s)
      /\ o \in SUBSET (KeysIn(s) \X KeysIn(s)) /\ Chain(s, L, SlotOrder(s, o))
  BY DEF Sound
<1>1. i \in L
  BY <1>0, SlotOfKey
<1>2. SlotOrder(s, w) = WithNewest(v, L \ {i}, i)
  BY <1>0, SlotNewest
<1>3. w \in SUBSET (KeysIn(s) \X KeysIn(s))
  BY <1>0 DEF WithNewest, Without
<1>4. CASE s.tail = i
  <2>1. TotalOrder(SlotOrder(s, o), L) /\ Newest(SlotOrder(s, o), L, i)
    BY <1>0, <1>1, <1>4, ShardParts, NoneIsNoNode DEF Chain
  <2>2. WithNewest(SlotOrder(s, o), L, i) = SlotOrder(s, o)
    BY <2>1, NewestStays
  <2>3. WithNewest(v, L \ {i}, i) = WithNewest(SlotOrder(s, o), L, i)
    BY DEF WithNewest, Without
  <2>4. Touch(s, i) = s
    BY <1>4 DEF Touch
  <2> QED
    BY <1>0, <1>2, <1>3, <2>2, <2>3, <2>4 DEF Sound
<1>5. CASE s.tail # i
  <2>1. Touch(s, i) = r
    BY <1>5 DEF Touch
  <2>2. Chain(q, L \ {i}, v) /\ SameKeys(q, s) /\ LiveIn(q) = L
    BY <1>0, <1>1, UnlinkChain
  <2>3. q \in Shard
    BY <2>2 DEF SameKeys
  <2>4. /\ Chain(r, (L \ {i}) \cup {i}, WithNewest(v, L \ {i}, i))
        /\ SameKeys(r, q)
    BY <1>1, <2>2, <2>3, LinkChain, SMTT(30)
  <2>5. SameKeys(r, s) /\ r \in Shard /\ Len(r.nodes) = Len(s.nodes)
    BY <2>2, <2>4, SameKeysTransitive DEF SameKeys
  <2> HIDE DEF r, q, w, v, i
  <2>6. /\ LiveIn(r) = L /\ KeysIn(r) = KeysIn(s) /\ MapMatches(r) /\ FreeExact(r)
        /\ SlotOrder(r, w) = SlotOrder(s, w)
    BY <1>0, <2>5, SameKeysSound
  <2>7. (L \ {i}) \cup {i} = L
    BY <1>1
  <2>8. Sound(r, w)
    BY <1>2, <1>3, <2>4, <2>5, <2>6, <2>7 DEF Sound
  <2> QED
    BY <2>1, <2>5, <2>6, <2>8 DEF i, w
<1> QED
  BY <1>4, <1>5

\* The node insert_new makes, and the shard with it in its slot, not yet linked.
NewNode(k, v) ==
  [key |-> k, value |-> v, expires_at |-> None, prev |-> None, next |-> None]
Filled(s, node) ==
  IF s.free = <<>>
  THEN [s EXCEPT !.nodes = Append(@, node)]
  ELSE [s EXCEPT !.nodes[s.free[Len(s.free)]] = node,
                 !.free = SubSeq(@, 1, Len(@) - 1)]

\* A sequence without its last element.
LEMMA WithoutLast ==
  ASSUME NEW S, NEW t \in Seq(S), Len(t) > 0
  PROVE  /\ SubSeq(t, 1, Len(t) - 1) \in Seq(S)
         /\ Len(SubSeq(t, 1, Len(t) - 1)) = Len(t) - 1
         /\ \A m \in 1 .. Len(t) - 1 : SubSeq(t, 1, Len(t) - 1)[m] = t[m]
<1>1. ASSUME NEW n \in Nat, Len(t) = n, n > 0
      PROVE  /\ SubSeq(t, 1, n - 1) \in Seq(S)
             /\ Len(SubSeq(t, 1, n - 1)) = n - 1
             /\ \A m \in 1 .. n - 1 : SubSeq(t, 1, n - 1)[m] = t[m]
  BY <1>1, SMTT(30)
<1> QED
  BY <1>1, LenProperties

\* The slot insert_new fills was not in use and is no longer free.
LEMMA FilledEffect ==
  ASSUME NEW s \in Shard, FreeExact(s), NEW node \in Node
  PROVE  LET r == Filled(s, node)
             i == NewSlot(s)
         IN /\ r \in Shard
            /\ r.map = s.map /\ r.head = s.head /\ r.tail = s.tail
            /\ i \in DOMAIN r.nodes /\ i \notin LiveIn(s) /\ r.nodes[i] = node
            /\ \A j \in LiveIn(s) : r.nodes[j] = s.nodes[j]
            /\ LiveIn(r) = LiveIn(s) \cup {i}
            /\ FreeExact(r)
            /\ Len(r.nodes) = Len(s.nodes) \/ r.free = <<>>
<1> DEFINE r == Filled(s, node)
           i == NewSlot(s)
           len == Len(s.free)
<1>0. /\ s.map \in [Keys -> Option(Nat)] /\ s.head \in Option(Nat) /\ s.tail \in Option(Nat)
      /\ s.nodes \in Seq(Option(Node)) /\ Len(s.nodes) \in Nat
      /\ DOMAIN s.nodes = 1 .. Len(s.nodes)
      /\ s.free \in Seq(Nat) /\ len \in Nat /\ DOMAIN s.free = 1 .. len
      /\ s = [map |-> s.map, nodes |-> s.nodes, free |-> s.free,
              head |-> s.head, tail |-> s.tail]
      /\ node \in Option(Node) /\ node # None
  BY ShardParts, NoneIsNoNode DEF Option
<1>1. CASE s.free = <<>>
  <2> DEFINE nodes == Append(s.nodes, node)
  <2>1. i = Len(s.nodes) + 1
    BY <1>1 DEF NewSlot
  <2>2. /\ nodes \in Seq(Option(Node)) /\ Len(nodes) = Len(s.nodes) + 1
        /\ \A j \in 1 .. Len(s.nodes) : nodes[j] = s.nodes[j]
        /\ nodes[i] = node
    BY <1>0, <2>1, SMTT(30)
  <2>3. DOMAIN nodes = 1 .. Len(s.nodes) + 1
    BY <2>2, LenProperties
  <2>4. r = [map |-> s.map, nodes |-> nodes, free |-> <<>>, head |-> s.head, tail |-> s.tail]
    BY <1>0, <1>1 DEF Filled
  <2> HIDE DEF nodes, r, i
  <2>5. /\ r.map = s.map /\ r.head = s.head /\ r.tail = s.tail /\ r.nodes = nodes
        /\ r.free = <<>>
    BY <2>4
  <2>6. r \in Shard
    BY <1>0, <2>2, <2>4, EmptySeq DEF Shard
  <2>7. i \in DOMAIN nodes /\ i \notin DOMAIN s.nodes /\ DOMAIN nodes = DOMAIN s.nodes \cup {i}
    BY <1>0, <2>1, <2>3, SMTT(30)
  <2>8. \A j \in DOMAIN s.nodes : r.nodes[j] = s.nodes[j] /\ s.nodes[j] # None
    BY <1>0, <1>1, <2>2, <2>5, SMTT(30) DEF FreeExact
  <2>9. LiveIn(r) = LiveIn(s) \cup {i}
    BY <1>0, <2>2, <2>5, <2>7, <2>8 DEF LiveIn
  <2>10. FreeExact(r)
    <3>1. DOMAIN r.free = {}
      BY <2>5, SMTT(30)
    <3>2. \A j \in DOMAIN r.nodes : r.nodes[j] # None
      BY <1>0, <2>2, <2>5, <2>7, <2>8
    <3> QED
      BY <3>1, <3>2 DEF FreeExact
  <2> QED
    BY <2>2, <2>5, <2>6, <2>7, <2>8, <2>9, <2>10 DEF LiveIn, r, i
<1>2. CASE s.free # <<>>
  <2> DEFINE nodes == [s.nodes EXCEPT ![i] = node]
             free == SubSeq(s.free, 1, len - 1)
  <2>1. i = s.free[len] /\ len \in 1 .. len /\ len > 0
    BY <1>0, <1>2, EmptySeq, SMTT(30) DEF NewSlot
  <2>2. /\ i \in DOMAIN s.nodes /\ s.nodes[i] = None
    BY <1>0, <2>1, SMTT(30) DEF FreeExact
  <2>3. r = [map |-> s.map, nodes |-> nodes, free |-> free, head |-> s.head, tail |-> s.tail]
    BY <1>0, <1>2, <2>1 DEF Filled
  <2>4. /\ nodes \in Seq(Option(Node)) /\ Len(nodes) = Len(s.nodes)
        /\ \A j \in 1 .. Len(s.nodes) : nodes[j] = IF j = i THEN node ELSE s.nodes[j]
    BY <1>0, <2>2, ExceptSeq, SMTT(30)
  <2>5. DOMAIN nodes = DOMAIN s.nodes
    BY <1>0
  <2>6. /\ free \in Seq(Nat) /\ Len(free) = len - 1
        /\ \A m \in 1 .. len - 1 : free[m] = s.free[m]
    BY <1>0, <2>1, WithoutLast
  <2>7. DOMAIN free = 1 .. len - 1
    BY <2>6, LenProperties
  <2> HIDE DEF nodes, free, r, i, len
  <2>8. /\ r.map = s.map /\ r.head = s.head /\ r.tail = s.tail /\ r.nodes = nodes
        /\ r.free = free
    BY <2>3
  <2>9. r \in Shard
    BY <1>0, <2>3, <2>4, <2>6 DEF Shard
  <2>10. \A j \in DOMAIN s.nodes : r.nodes[j] = IF j = i THEN node ELSE s.nodes[j]
    BY <1>0, <2>4, <2>8
  <2>11. LiveIn(r) = LiveIn(s) \cup {i}
    BY <1>0, <2>2, <2>5, <2>8, <2>10 DEF LiveIn
  <2>12. \A m : m \in DOMAIN s.free <=> m \in DOMAIN free \/ m = len
    BY <1>0, <2>1, <2>7, SMTT(30)
  <2>13. \A m \in DOMAIN free : free[m] = s.free[m] /\ m # len
    BY <1>0, <2>6, <2>7, SMTT(30)
  <2>14. \A m \in DOMAIN free : free[m] # i
    BY <2>1, <2>12, <2>13 DEF FreeExact
  <2>15. FreeExact(r)
    <3>1. \A m, n \in DOMAIN free : free[m] = free[n] => m = n
      BY <2>12, <2>13 DEF FreeExact
    <3>2. \A m \in DOMAIN free : free[m] \in DOMAIN r.nodes
      BY <2>5, <2>8, <2>12, <2>13 DEF FreeExact
    <3>3. ASSUME NEW j \in DOMAIN r.nodes
          PROVE  r.nodes[j] = None <=> \E m \in DOMAIN free : free[m] = j
      <4>1. CASE j = i
        BY <1>0, <2>2, <2>10, <2>14, <4>1
      <4>2. CASE j # i
        <5>1. (\E m \in DOMAIN free : free[m] = j) <=> (\E m \in DOMAIN s.free : s.free[m] = j)
          BY <2>1, <2>12, <2>13, <4>2
        <5>2. r.nodes[j] = s.nodes[j] /\ j \in DOMAIN s.nodes
          BY <2>5, <2>8, <2>10, <4>2
        <5> QED
          BY <5>1, <5>2 DEF FreeExact
      <4> QED
        BY <4>1, <4>2
    <3> QED
      BY <2>8, <3>1, <3>2, <3>3 DEF FreeExact
  <2> QED
    BY <2>2, <2>4, <2>5, <2>8, <2>9, <2>10, <2>11, <2>15 DEF LiveIn, r, i
<1> QED
  BY <1>1, <1>2

\* insert_new of a new key makes it the most recently used one.
LEMMA InsertSound ==
  ASSUME NEW s, NEW o, Sound(s, o), NEW k \in Keys \ KeysIn(s), NEW v \in Values
  PROVE  /\ Sound(InsertNew(s, k, v), WithNewest(o, KeysIn(s), k))
         /\ \/ Len(InsertNew(s, k, v).nodes) = Len(s.nodes)
            \/ InsertNew(s, k, v).free = <<>>
<1> DEFINE i == NewSlot(s)
           node == NewNode(k, v)
           L == LiveIn(s)
           s1 == Filled(s, node)
           s2 == LruPushBack(s1, i)
           r == InsertNew(s, k, v)
           w == WithNewest(o, KeysIn(s), k)
           so == SlotOrder(s, o)
<1>0. /\ s \in Shard /\ MapMatches(s) /\ FreeExact(s) /\ k \in Keys
      /\ o \in SUBSET (KeysIn(s) \X KeysIn(s)) /\ Chain(s, L, so)
  BY DEF Sound
<1>1. node \in Node /\ node.key = k
  BY DEF NewNode, Node, Option
<1>2. r = [s2 EXCEPT !.map[k] = i]
  BY DEF InsertNew, Filled, NewNode, NewSlot
<1> HIDE DEF node, r
<1>3. /\ s1 \in Shard
      /\ s1.map = s.map /\ s1.head = s.head /\ s1.tail = s.tail
      /\ i \in DOMAIN s1.nodes /\ i \notin L /\ s1.nodes[i] = node
      /\ \A j \in L : s1.nodes[j] = s.nodes[j]
      /\ LiveIn(s1) = L \cup {i}
      /\ FreeExact(s1)
      /\ Len(s1.nodes) = Len(s.nodes) \/ s1.free = <<>>
  BY <1>0, <1>1, FilledEffect
<1> HIDE DEF s1, i
<1>4. Chain(s1, L, so)
  BY <1>0, <1>3, ChainSame
<1>5. Chain(s2, L \cup {i}, WithNewest(so, L, i)) /\ SameKeys(s2, s1)
  BY <1>3, <1>4, LinkChain
<1> HIDE DEF s2
<1>6. /\ s2 \in Shard /\ s2.map = s.map /\ s2.free = s1.free /\ Len(s2.nodes) = Len(s1.nodes)
      /\ LiveIn(s2) = L \cup {i} /\ FreeExact(s2)
      /\ \A j \in L : s2.nodes[j].key = s.nodes[j].key
      /\ s2.nodes[i].key = k
  <2>1. LiveIn(s2) = L \cup {i} /\ FreeExact(s2)
    BY <1>3, <1>5, SameKeysSound
  <2>2. \A j \in LiveIn(s1) : s2.nodes[j].key = s1.nodes[j].key
    BY <1>5 DEF SameKeys, LiveIn
  <2> QED
    BY <1>1, <1>3, <1>5, <2>1, <2>2 DEF SameKeys
<1>7. /\ s.map \in [Keys -> Option(Nat)] /\ i \in Nat /\ i # None
      /\ \A j \in L : j # i /\ j # None /\ s.nodes[j].key \in Keys
      /\ s.map[k] = None
  <2>1. i \in 1 .. Len(s1.nodes)
    BY <1>3, ShardParts
  <2>2. \A j \in L : s.nodes[j] \in Node /\ j \in Nat
    BY <1>0, ShardParts, SMTT(30)
  <2> QED
    BY <1>0, <1>3, <2>1, <2>2, ShardParts, NoneIsNoNode, SMTT(30) DEF KeysIn, Node
<1>8. /\ r = [map |-> [s.map EXCEPT ![k] = i], nodes |-> s2.nodes, free |-> s2.free,
              head |-> s2.head, tail |-> s2.tail]
  <2>1. s2 = [map |-> s2.map, nodes |-> s2.nodes, free |-> s2.free,
              head |-> s2.head, tail |-> s2.tail]
    BY <1>6, ShardParts
  <2> QED
    BY <1>2, <1>6, <2>1
<1>9. /\ r.map = [s.map EXCEPT ![k] = i] /\ r.nodes = s2.nodes /\ r.free = s2.free
      /\ r.head = s2.head /\ r.tail = s2.tail /\ LiveIn(r) = L \cup {i}
  BY <1>6, <1>8 DEF LiveIn
<1>10. r \in Shard
  <2>1. [s.map EXCEPT ![k] = i] \in [Keys -> Option(Nat)]
    BY <1>7 DEF Option
  <2> QED
    BY <1>6, <1>8, <2>1, ShardParts DEF Shard
<1>11. r.map[k] = i /\ \A j \in Keys \ {k} : r.map[j] = s.map[j]
  BY <1>0, <1>7, <1>9
<1>12. KeysIn(r) = KeysIn(s) \cup {k}
  BY <1>0, <1>7, <1>11 DEF KeysIn
<1>13. \A j \in L : s.nodes[j].key \in KeysIn(s) /\ s.nodes[j].key # k
  BY <1>0, <1>7 DEF MapMatches, KeysIn
<1>14. MapMatches(r)
  <2>1. ASSUME NEW j \in Keys, r.map[j] # None
        PROVE  r.map[j] \in LiveIn(r) /\ r.nodes[r.map[j]].key = j
    BY <1>0, <1>6, <1>9, <1>11, <2>1, SMTT(30) DEF MapMatches
  <2>2. ASSUME NEW j \in LiveIn(r) PROVE r.map[r.nodes[j].key] = j
    BY <1>0, <1>6, <1>7, <1>9, <1>11, <1>13, <2>2, SMTT(30) DEF MapMatches
  <2> QED
    BY <2>1, <2>2 DEF MapMatches
<1>15. FreeExact(r)
  BY <1>6, <1>9, SMTT(30) DEF FreeExact
<1>16. w \in SUBSET (KeysIn(r) \X KeysIn(r))
  BY <1>0, <1>12 DEF WithNewest, Without
<1>17. SlotOrder(r, w) = WithNewest(so, L, i)
  <2> DEFINE A == SlotOrder(r, w)
             B == WithNewest(so, L, i)
             M == L \cup {i}
  <2>1. A \in SUBSET (M \X M) /\ B \in SUBSET (M \X M)
    BY <1>9 DEF SlotOrder, WithNewest, Without
  <2>2. ASSUME NEW a, NEW b PROVE <<a, b>> \in A <=> <<a, b>> \in B
    <3>1. <<a, b>> \in A <=> /\ a \in M /\ b \in M
                             /\ <<r.nodes[a].key, r.nodes[b].key>> \in w
      BY <1>9, InSlotOrder
    <3>2. \A x, y : <<x, y>> \in w <=>
                      \/ <<x, y>> \in o /\ x # k /\ y # k
                      \/ x \in KeysIn(s) /\ x # k /\ y = k
      BY InWithNewest
    <3>3. <<r.nodes[a].key, r.nodes[b].key>> \in w <=>
             \/ <<r.nodes[a].key, r.nodes[b].key>> \in o /\ r.nodes[a].key # k /\ r.nodes[b].key # k
             \/ r.nodes[a].key \in KeysIn(s) /\ r.nodes[a].key # k /\ r.nodes[b].key = k
      BY <3>2
    <3> HIDE DEF so
    <3>4. <<a, b>> \in B <=> \/ <<a, b>> \in so /\ a # i /\ b # i
                             \/ a \in L /\ a # i /\ b = i
      BY InWithNewest, SMTT(30)
    <3>5. <<a, b>> \in so <=> a \in L /\ b \in L /\ <<s.nodes[a].key, s.nodes[b].key>> \in o
      BY InSlotOrder DEF so
    <3>6. /\ r.nodes[i].key = k
          /\ \A j \in L : r.nodes[j].key = s.nodes[j].key
      BY <1>6, <1>9
    <3> HIDE DEF A, B, w
    <3> QED
      BY <1>3, <1>13, <3>1, <3>3, <3>4, <3>5, <3>6
  <2> HIDE DEF A, B, M
  <2>3. A = B
    BY <2>1, <2>2, SamePairs
  <2> QED
    BY <2>3 DEF A, B
<1>18. Chain(r, LiveIn(r), SlotOrder(r, w))
  <2>1. Chain(r, L \cup {i}, WithNewest(so, L, i))
    BY <1>5, <1>9, ChainSame
  <2> QED
    BY <1>9, <1>17, <2>1
<1>19. Sound(r, w)
  BY <1>10, <1>14, <1>15, <1>16, <1>18 DEF Sound
<1>20. Len(r.nodes) = Len(s.nodes) \/ r.free = <<>>
  BY <1>3, <1>6, <1>9
<1> QED
  BY <1>19, <1>20 DEF r

\* Writing a node's value or deadline leaves the shard in order.
LEMMA EditSound ==
  ASSUME NEW s, NEW o, Sound(s, o), NEW i \in LiveIn(s), NEW m \in Node,
         m.key = s.nodes[i].key, m.prev = s.nodes[i].prev, m.next = s.nodes[i].next
  PROVE  /\ Sound(PutNode(s, i, m), o)
         /\ PutNode(s, i, m).map = s.map /\ KeysIn(PutNode(s, i, m)) = KeysIn(s)
         /\ Len(PutNode(s, i, m).nodes) = Len(s.nodes)
<1> DEFINE r == PutNode(s, i, m)
<1>0. /\ s \in Shard /\ MapMatches(s) /\ FreeExact(s)
      /\ o \in SUBSET (KeysIn(s) \X KeysIn(s)) /\ Chain(s, LiveIn(s), SlotOrder(s, o))
  BY DEF Sound
<1>1. /\ r \in Shard
      /\ r.map = s.map /\ r.free = s.free /\ r.head = s.head /\ r.tail = s.tail
      /\ Len(r.nodes) = Len(s.nodes) /\ DOMAIN r.nodes = DOMAIN s.nodes
      /\ \A j \in DOMAIN s.nodes : r.nodes[j] = IF j = i THEN m ELSE s.nodes[j]
  BY <1>0, WriteNode, SMTT(30)
<1> HIDE DEF r
<1>2. SameKeys(r, s)
  BY <1>1, NoneIsNoNode DEF SameKeys, LiveIn
<1>3. /\ LiveIn(r) = LiveIn(s) /\ KeysIn(r) = KeysIn(s) /\ MapMatches(r) /\ FreeExact(r)
      /\ SlotOrder(r, o) = SlotOrder(s, o)
  BY <1>0, <1>2, SameKeysSound
<1>4. \A j \in LiveIn(s) : /\ r.nodes[j].next = s.nodes[j].next
                           /\ r.nodes[j].prev = s.nodes[j].prev
  BY <1>1 DEF LiveIn
<1>5. Chain(r, LiveIn(s), SlotOrder(s, o))
  BY <1>0, <1>1, <1>4, ChainSame
<1>6. Sound(r, o)
  BY <1>0, <1>1, <1>3, <1>5 DEF Sound
<1> QED
  BY <1>1, <1>3, <1>6 DEF r

\* When no slot is free every slot belongs to a key of its own.
LEMMA FullArena ==
  ASSUME NEW s, NEW o, Sound(s, o), s.free = <<>>
  PROVE  Len(s.nodes) <= Cardinality(Keys)
<1>0. /\ s \in Shard /\ MapMatches(s) /\ FreeExact(s)
      /\ DOMAIN s.nodes = 1 .. Len(s.nodes) /\ Len(s.nodes) \in Nat
  BY ShardParts DEF Sound
<1>1. DOMAIN s.free = {}
  BY SMTT(30)
<1>2. LiveIn(s) = 1 .. Len(s.nodes)
  BY <1>0, <1>1 DEF FreeExact, LiveIn
<1>3. \A j \in 1 .. Len(s.nodes) : s.nodes[j].key \in Keys /\ s.map[s.nodes[j].key] = j
  BY <1>0, <1>2, ShardParts DEF MapMatches, Node
<1> DEFINE f == [j \in 1 .. Len(s.nodes) |-> s.nodes[j].key]
<1>4. f \in Injection(1 .. Len(s.nodes), Keys)
  BY <1>3 DEF Injection, IsInjective
<1>5. Cardinality(1 .. Len(s.nodes)) <= Cardinality(Keys)
  BY <1>4, FS_Injection, ShardInnerAssumption
<1>6. Cardinality(1 .. Len(s.nodes)) = Len(s.nodes)
  BY <1>0, FS_Interval, SMTT(30)
<1> QED
  BY <1>5, <1>6

-----------------------------------------------------------------------------
(* The invariant.                                                          *)

\* The shard is in order for the order of last use, and the arena bounded.
ShardInv ==
  /\ Sound(sh, older)
  /\ ArenaBounded
  /\ sweep \in Option(Nat)
  /\ clock \in Nat

\* ShardInner::new makes a shard in order.
LEMMA InitShard == Init => ShardInv
<1> SUFFICES ASSUME Init PROVE ShardInv
  OBVIOUS
<1>1. /\ sh.map = [k \in Keys |-> None] /\ sh.nodes = <<>> /\ sh.free = <<>>
      /\ sh.head = None /\ sh.tail = None /\ older = {} /\ sweep = None /\ clock = 0
      /\ sh = New
  BY DEF Init, New
<1>2. sh \in Shard
  <2>1. <<>> \in Seq(Option(Node)) /\ <<>> \in Seq(Nat)
    BY EmptySeq
  <2> QED
    BY <1>1, <2>1 DEF New, Shard, Option
<1>3. LiveIn(sh) = {} /\ KeysIn(sh) = {} /\ DOMAIN sh.nodes = {} /\ DOMAIN sh.free = {}
  BY <1>1, SMTT(30) DEF LiveIn, KeysIn
<1>4. MapMatches(sh) /\ FreeExact(sh)
  BY <1>1, <1>3 DEF MapMatches, FreeExact
<1>5. SlotOrder(sh, older) = {}
  BY <1>3 DEF SlotOrder
<1>6. Chain(sh, {}, {})
  BY <1>1 DEF Chain, TotalOrder
<1>7. ArenaBounded
  <2>1. Cardinality(Keys) \in Nat
    BY FS_CardinalityType, ShardInnerAssumption
  <2> QED
    BY <1>1, <2>1, SMTT(30) DEF ArenaBounded
<1> QED
  BY <1>1, <1>2, <1>3, <1>4, <1>5, <1>6, <1>7 DEF ShardInv, Sound, Option

\* Dropping a key in the map keeps the invariant.
LEMMA DropKeeps ==
  ASSUME ShardInv, NEW k \in Keys, sh.map[k] # None,
         sh' = RemoveIdx(sh, sh.map[k]), older' = Without(older, k),
         sweep' \in Option(Nat), clock' \in Nat
  PROVE  ShardInv'
<1>1. k \in KeysIn(sh)
  BY DEF KeysIn
<1>2. /\ Sound(RemoveIdx(sh, sh.map[k]), Without(older, k))
      /\ Len(RemoveIdx(sh, sh.map[k]).nodes) = Len(sh.nodes)
  BY <1>1, RemoveSound DEF ShardInv
<1>3. Sound(sh', older') /\ Len(sh'.nodes) = Len(sh.nodes)
  BY <1>2
<1> QED
  BY <1>3 DEF ShardInv, ArenaBounded

\* A step to another shard in order, of the same length or without free slots.
LEMMA SoundKeeps ==
  ASSUME ShardInv, Sound(sh', older'), Len(sh'.nodes) = Len(sh.nodes) \/ sh'.free = <<>>,
         sweep' \in Option(Nat), clock' \in Nat
  PROVE  ShardInv'
<1>1. sh'.free = <<>> => Len(sh'.nodes) <= Cardinality(Keys)
  BY FullArena
<1> QED
  BY <1>1 DEF ShardInv, ArenaBounded

\* What a caller under the lock finds under a key.
LEMMA FoundSlot ==
  ASSUME ShardInv, NEW k \in Keys, Found(k)
  PROVE  k \in KeysIn(sh) /\ sh.map[k] \in LiveIn(sh) /\ sh.nodes[sh.map[k]] \in Node
<1>1. k \in KeysIn(sh) /\ sh \in Shard /\ MapMatches(sh)
  BY DEF ShardInv, Sound, Found, KeysIn
<1>2. sh.map[k] \in LiveIn(sh)
  BY <1>1, SlotOfKey
<1> QED
  BY <1>1, <1>2, ShardParts

\* get drops an expired entry or touches a fresh one.
LEMMA GetKeeps ==
  ASSUME ShardInv, NEW k \in Keys, NEW n \in 0 .. clock, Get(k, n)
  PROVE  ShardInv'
<1>0. sweep' \in Option(Nat) /\ clock' \in Nat
  BY DEF ShardInv, Get
<1>1. CASE Expired(k, n) /\ Drop(k)
  BY <1>0, <1>1, DropKeeps DEF Expired, Found, Drop
<1>2. CASE /\ Fresh(k, n) /\ sh' = Touch(sh, sh.map[k])
           /\ older' = WithNewest(older, LiveKeys, k)
  <2>1. k \in KeysIn(sh) /\ KeysIn(sh) = LiveKeys
    BY <1>2, FoundSlot DEF Fresh, LiveKeys, KeysIn
  <2>2. /\ Sound(Touch(sh, sh.map[k]), WithNewest(older, KeysIn(sh), k))
        /\ Len(Touch(sh, sh.map[k]).nodes) = Len(sh.nodes)
    BY <2>1, TouchSound DEF ShardInv
  <2>3. Sound(sh', older') /\ Len(sh'.nodes) = Len(sh.nodes)
    BY <1>2, <2>1, <2>2
  <2> QED
    BY <1>0, <2>3, SoundKeeps
<1> QED
  BY <1>1, <1>2 DEF Get

\* expire drops an expired entry or gives a fresh one a deadline.
LEMMA ExpireKeeps ==
  ASSUME ShardInv, NEW k \in Keys, NEW n \in 0 .. clock, NEW d \in Ttls, Expire(k, n, d)
  PROVE  ShardInv'
<1>0. sweep' \in Option(Nat) /\ clock' \in Nat
  BY DEF ShardInv, Expire
<1>1. CASE Expired(k, n) /\ Drop(k)
  BY <1>0, <1>1, DropKeeps DEF Expired, Found, Drop
<1>2. CASE /\ Fresh(k, n)
           /\ sh' = [sh EXCEPT !.nodes[sh.map[k]].expires_at = n + d]
           /\ older' = older
  <2> DEFINE m == [sh.nodes[sh.map[k]] EXCEPT !.expires_at = n + d]
  <2>1. sh.map[k] \in LiveIn(sh) /\ sh.nodes[sh.map[k]] \in Node
    BY <1>2, FoundSlot DEF Fresh
  <2>2. n + d \in Option(Nat)
    BY ShardInnerAssumption, SMTT(30) DEF ShardInv, Option
  <2>3. /\ m \in Node /\ m.key = sh.nodes[sh.map[k]].key
        /\ m.prev = sh.nodes[sh.map[k]].prev /\ m.next = sh.nodes[sh.map[k]].next
    BY <2>1, <2>2 DEF Node
  <2>4. sh' = PutNode(sh, sh.map[k], m)
    BY <1>2 DEF PutNode
  <2> HIDE DEF m
  <2>5. /\ Sound(PutNode(sh, sh.map[k], m), older)
        /\ Len(PutNode(sh, sh.map[k], m).nodes) = Len(sh.nodes)
    BY <2>1, <2>3, EditSound DEF ShardInv
  <2>6. Sound(sh', older') /\ Len(sh'.nodes) = Len(sh.nodes)
    BY <1>2, <2>4, <2>5
  <2> QED
    BY <1>0, <2>6, SoundKeeps
<1> QED
  BY <1>1, <1>2 DEF Expire

\* set overwrites and touches a fresh entry, reuses the slot of an expired one, or
\* inserts a new key.
LEMMA SetKeeps ==
  ASSUME ShardInv, NEW k \in Keys, NEW v \in Values, Set(k, v)
  PROVE  ShardInv'
<1>0. /\ sweep' \in Option(Nat) /\ clock' \in Nat
      /\ older' = WithNewest(older, KeysIn(sh), k)
  BY DEF ShardInv, Set, LiveKeys, KeysIn
<1>1. CASE Fresh(k, clock)
  <2> DEFINE i == sh.map[k]
             m == [sh.nodes[i] EXCEPT !.value = v, !.expires_at = None]
             e == PutNode(sh, i, m)
  <2>1. k \in KeysIn(sh) /\ i \in LiveIn(sh) /\ sh.nodes[i] \in Node
    BY <1>1, FoundSlot DEF Fresh
  <2>2. /\ m \in Node /\ m.key = sh.nodes[i].key
        /\ m.prev = sh.nodes[i].prev /\ m.next = sh.nodes[i].next
    BY <2>1 DEF Node, Option
  <2>3. [sh EXCEPT !.nodes[i].value = v, !.nodes[i].expires_at = None] = e
    <3>1. sh \in Shard /\ sh.nodes \in Seq(Option(Node)) /\ i \in DOMAIN sh.nodes
      BY <2>1, ShardParts DEF ShardInv, Sound, LiveIn
    <3> QED
      BY <2>1, <3>1 DEF PutNode
  <2>4. sh' = Touch(e, i)
    BY <1>1, <2>3 DEF Set
  <2> HIDE DEF m
  <2>5. /\ Sound(e, older) /\ e.map = sh.map /\ KeysIn(e) = KeysIn(sh)
        /\ Len(e.nodes) = Len(sh.nodes)
    BY <2>1, <2>2, EditSound DEF ShardInv
  <2> HIDE DEF e
  <2>6. /\ Sound(Touch(e, e.map[k]), WithNewest(older, KeysIn(e), k))
        /\ Len(Touch(e, e.map[k]).nodes) = Len(e.nodes)
    BY <2>1, <2>5, TouchSound
  <2>7. Sound(sh', older') /\ Len(sh'.nodes) = Len(sh.nodes)
    BY <1>0, <2>4, <2>5, <2>6
  <2> QED
    BY <1>0, <2>7, SoundKeeps
<1>2. CASE ~Fresh(k, clock) /\ Found(k)
  <2> DEFINE q == RemoveIdx(sh, sh.map[k])
             w == Without(older, k)
  <2>1. k \in KeysIn(sh)
    BY <1>2, FoundSlot
  <2>2. Sound(q, w) /\ KeysIn(q) = KeysIn(sh) \ {k} /\ Len(q.nodes) = Len(sh.nodes)
    BY <2>1, RemoveSound DEF ShardInv
  <2>3. sh' = InsertNew(q, k, v)
    BY <1>2 DEF Set
  <2>4. WithNewest(w, KeysIn(sh) \ {k}, k) = older'
    BY <1>0 DEF WithNewest, Without
  <2> HIDE DEF q, w
  <2>5. /\ Sound(InsertNew(q, k, v), WithNewest(w, KeysIn(q), k))
        /\ \/ Len(InsertNew(q, k, v).nodes) = Len(q.nodes)
           \/ InsertNew(q, k, v).free = <<>>
    BY <2>2, InsertSound
  <2>6. Sound(sh', older') /\ (Len(sh'.nodes) = Len(sh.nodes) \/ sh'.free = <<>>)
    BY <2>2, <2>3, <2>4, <2>5
  <2> QED
    BY <1>0, <2>6, SoundKeeps
<1>3. CASE ~Fresh(k, clock) /\ ~Found(k)
  <2>1. k \in Keys \ KeysIn(sh) /\ sh' = InsertNew(sh, k, v)
    BY <1>3 DEF Set, Found, KeysIn
  <2>2. /\ Sound(InsertNew(sh, k, v), WithNewest(older, KeysIn(sh), k))
        /\ \/ Len(InsertNew(sh, k, v).nodes) = Len(sh.nodes)
           \/ InsertNew(sh, k, v).free = <<>>
    BY <2>1, InsertSound DEF ShardInv
  <2>3. Sound(sh', older') /\ (Len(sh'.nodes) = Len(sh.nodes) \/ sh'.free = <<>>)
    BY <1>0, <2>1, <2>2
  <2> QED
    BY <1>0, <2>3, SoundKeeps
<1> QED
  BY <1>1, <1>2, <1>3

\* pop_lru removes the slot of the key that its node names.
LEMMA PopLruKeeps ==
  ASSUME ShardInv, PopLru
  PROVE  ShardInv'
<1> DEFINE k == sh.nodes[sh.head].key
<1>1. sh.head \in LiveIn(sh) /\ sh \in Shard /\ MapMatches(sh)
  BY DEF PopLru, ShardInv, Sound, Chain, Oldest
<1>2. k \in Keys /\ sh.map[k] = sh.head /\ sh.map[k] # None
  BY <1>1, ShardParts, NoneIsNoNode, SMTT(30) DEF MapMatches, Node
<1>3. /\ sh' = RemoveIdx(sh, sh.map[k]) /\ older' = Without(older, k)
      /\ sweep' \in Option(Nat) /\ clock' \in Nat
  BY <1>2 DEF PopLru, ShardInv
<1> HIDE DEF k
<1> QED
  BY <1>2, <1>3, DropKeeps

\* Every step keeps the invariant.
LEMMA ShardNext == ShardInv /\ [Next]_vars => ShardInv'
<1> SUFFICES ASSUME ShardInv, [Next]_vars PROVE ShardInv'
  OBVIOUS
<1>1. ASSUME NEW k \in Keys, NEW n \in 0 .. clock, Get(k, n) PROVE ShardInv'
  BY <1>1, GetKeeps
<1>2. ASSUME NEW k \in Keys, NEW n \in 0 .. clock, Ttl(k, n) PROVE ShardInv'
  BY <1>2, DropKeeps DEF Ttl, Expired, Found, Drop, ShardInv
<1>3. ASSUME NEW k \in Keys, NEW n \in 0 .. clock, NEW d \in Ttls, Expire(k, n, d)
      PROVE  ShardInv'
  BY <1>3, ExpireKeeps
<1>4. ASSUME NEW k \in Keys, Delete(k) PROVE ShardInv'
  BY <1>4, DropKeeps DEF Delete, Found, Drop, ShardInv
<1>5. ASSUME NEW k \in Keys, NEW v \in Values, Set(k, v) PROVE ShardInv'
  BY <1>5, SetKeeps
<1>6. ASSUME NEW k \in Keys, PurgeOne(k) PROVE ShardInv'
  BY <1>6, DropKeeps DEF PurgeOne, Expired, Found, Drop, ShardInv
<1>7. CASE PopLru
  BY <1>7, PopLruKeeps
<1>8. ASSUME NEW n \in 0 .. clock, PurgeStart(n) PROVE ShardInv'
  BY <1>8, SMTT(30) DEF PurgeStart, ShardInv, ArenaBounded, Option
<1>9. CASE PurgeEnd
  BY <1>9 DEF PurgeEnd, ShardInv, ArenaBounded, Option
<1>10. CASE Tick
  BY <1>10, SMTT(30) DEF Tick, ShardInv, ArenaBounded
<1>11. CASE UNCHANGED vars
  BY <1>11 DEF vars, ShardInv, ArenaBounded
<1> QED
  BY <1>1, <1>2, <1>3, <1>4, <1>5, <1>6, <1>7, <1>8, <1>9, <1>10, <1>11 DEF Next

\* A list of slots in the order of their keys is what LinksFollowUse describes.
LEMMA SoundLinks == Sound(sh, older) => LinksFollowUse
<1> SUFFICES ASSUME Sound(sh, older) PROVE LinksFollowUse
  OBVIOUS
<1> DEFINE L == LiveIn(sh)
           so == SlotOrder(sh, older)
           keyAt(i) == sh.nodes[i].key
<1>0. /\ sh \in Shard /\ MapMatches(sh) /\ Chain(sh, L, so)
      /\ older \in SUBSET (KeysIn(sh) \X KeysIn(sh))
      /\ LiveKeys = KeysIn(sh) /\ LiveSlots = L
  BY DEF Sound, LiveKeys, KeysIn, LiveSlots, Slots, LiveIn
<1>1. /\ \A k \in LiveKeys : sh.map[k] \in L /\ keyAt(sh.map[k]) = k
      /\ \A i \in L : keyAt(i) \in LiveKeys /\ sh.map[keyAt(i)] = i
  <2>1. \A i \in L : keyAt(i) \in Keys /\ i # None
    BY <1>0, ShardParts, NoneIsNoNode, SMTT(30) DEF Node
  <2> QED
    BY <1>0, <2>1 DEF MapMatches, KeysIn
<1>2. \A i, j \in L : <<i, j>> \in so <=> <<keyAt(i), keyAt(j)>> \in older
  BY InSlotOrder
<1>3. \A k, l \in LiveKeys : <<k, l>> \in older <=> <<sh.map[k], sh.map[l]>> \in so
  BY <1>1, <1>2
<1> HIDE DEF L, so
<1>4. L = {} <=> LiveKeys = {}
  BY <1>1
<1>5. TotalOrder(older, LiveKeys)
  <2>1. /\ \A a, b \in L : <<a, b>> \in so => <<b, a>> \notin so
        /\ \A a, b, c \in L : <<a, b>> \in so /\ <<b, c>> \in so => <<a, c>> \in so
        /\ \A a, b \in L : a = b \/ <<a, b>> \in so \/ <<b, a>> \in so
    BY <1>0 DEF Chain, TotalOrder
  <2>2. \A a, b \in LiveKeys : <<a, b>> \in older => <<b, a>> \notin older
    BY <1>1, <1>3, <2>1
  <2>3. ASSUME NEW a \in LiveKeys, NEW b \in LiveKeys, NEW c \in LiveKeys,
               <<a, b>> \in older, <<b, c>> \in older
        PROVE  <<a, c>> \in older
    <3>1. sh.map[a] \in L /\ sh.map[b] \in L /\ sh.map[c] \in L
      BY <1>1
    <3>2. <<sh.map[a], sh.map[b]>> \in so /\ <<sh.map[b], sh.map[c]>> \in so
      BY <1>3, <2>3
    <3>3. <<sh.map[a], sh.map[c]>> \in so
      BY <2>1, <3>1, <3>2
    <3> QED
      BY <1>3, <3>3
  <2>4. \A a, b \in LiveKeys : a = b \/ <<a, b>> \in older \/ <<b, a>> \in older
    BY <1>1, <1>3, <2>1
  <2> QED
    BY <1>0, <2>2, <2>3, <2>4 DEF TotalOrder
<1>6. sh.head # None => sh.head \in LiveSlots /\ Oldest(older, LiveKeys, keyAt(sh.head))
  BY <1>0, <1>1, <1>3 DEF Chain, Oldest
<1>7. sh.tail # None => sh.tail \in LiveSlots /\ Newest(older, LiveKeys, keyAt(sh.tail))
  <2> SUFFICES ASSUME sh.tail # None
               PROVE  sh.tail \in LiveSlots /\ Newest(older, LiveKeys, keyAt(sh.tail))
    OBVIOUS
  <2>1. sh.tail \in L /\ \A j \in L : <<sh.tail, j>> \notin so
    BY <1>0 DEF Chain, Newest
  <2>2. \A k \in LiveKeys : <<keyAt(sh.tail), k>> \notin older
    <3> TAKE k \in LiveKeys
    <3>1. keyAt(sh.tail) \in LiveKeys /\ sh.map[keyAt(sh.tail)] = sh.tail /\ sh.map[k] \in L
      BY <1>1, <2>1
    <3>2. <<keyAt(sh.tail), k>> \in older <=> <<sh.tail, sh.map[k]>> \in so
      BY <1>3, <3>1
    <3> QED
      BY <2>1, <3>1, <3>2
  <2> QED
    BY <1>0, <1>1, <2>1, <2>2 DEF Newest
<1>8. \A i, j \in L : NextUsed(so, L, i, j) => NextUsed(older, LiveKeys, keyAt(i), keyAt(j))
  BY <1>1, <1>2, <1>3 DEF NextUsed
<1>9. ASSUME NEW i \in L
      PROVE  /\ sh.nodes[i].next = None <=> sh.tail = i
             /\ sh.nodes[i].prev = None <=> sh.head = i
             /\ sh.nodes[i].next # None =>
                  /\ sh.nodes[i].next \in L
                  /\ sh.nodes[sh.nodes[i].next].prev = i
                  /\ NextUsed(older, LiveKeys, keyAt(i), keyAt(sh.nodes[i].next))
             /\ sh.nodes[i].prev # None =>
                  /\ sh.nodes[i].prev \in L
                  /\ sh.nodes[sh.nodes[i].prev].next = i
  BY <1>0, <1>8 DEF Chain
<1>10. (sh.head = None <=> LiveKeys = {}) /\ (sh.tail = None <=> LiveKeys = {})
  BY <1>0, <1>4 DEF Chain
<1> QED
  BY <1>0, <1>5, <1>6, <1>7, <1>9, <1>10 DEF LinksFollowUse

\* The invariant holds in every state.
LEMMA ShardAlways == Spec => []ShardInv
  BY InitShard, ShardNext, PTL DEF Spec

\* The shard, the sweep, the clock and the order have their types in every state.
THEOREM ShardTyped == Spec => []TypeOK
<1>1. ShardInv => TypeOK
  BY DEF ShardInv, Sound, TypeOK, KeysIn
<1> QED
  BY <1>1, ShardAlways, PTL

\* Whatever the callers do, a lookup in the map finds a slot in use with the key's own
\* node, and every slot in use is found (map and nodes of ShardInner).
THEOREM MapAndArenaAgree == Spec => []MapMatchesArena
<1>1. ShardInv => MapMatchesArena
  BY DEF ShardInv, Sound, MapMatches, MapMatchesArena, LiveSlots, Slots, LiveIn, Found, NodeOf
<1> QED
  BY <1>1, ShardAlways, PTL

\* insert_new and remove_idx neither leak a slot nor hand one out twice.
THEOREM FreeListKept == Spec => []FreeListExact
<1>1. ShardInv => FreeListExact
  BY DEF ShardInv, Sound, FreeExact, FreeListExact, Slots
<1> QED
  BY <1>1, ShardAlways, PTL

\* The arena grows to one slot for each key and no further, because insert_new
\* extends it only when every slot is in use.
THEOREM ArenaStaysBounded == Spec => []ArenaBounded
<1>1. ShardInv => ArenaBounded
  BY DEF ShardInv
<1> QED
  BY <1>1, ShardAlways, PTL

\* Following the links of lru_push_back and lru_remove is following the order of
\* last use, so pop_lru takes the least recently used key, for any number of keys.
THEOREM LinksAreLru == Spec => []LinksFollowUse
<1>1. ShardInv => LinksFollowUse
  BY SoundLinks DEF ShardInv
<1> QED
  BY <1>1, ShardAlways, PTL
=============================================================================

----------------------------- MODULE ShardInner -----------------------------
(***************************************************************************)
(* One shard of the engine, hkv-engine/src/memory.rs: the hash map, the     *)
(* arena of nodes with its free list, and the LRU list threaded through the *)
(* nodes by slot numbers.  An action is what a caller does to the shard     *)
(* while it holds the shard's write lock.  Slots are numbered from 1.       *)
(*                                                                         *)
(* The history variable older records the order of last use as the callers  *)
(* see it; the links are right when they follow it.                         *)
(***************************************************************************)
EXTENDS Integers, Sequences, FiniteSets, LruOrder

CONSTANTS Keys, Values, Ttls,
          MaxTime,  \* bound on the clock
          None      \* Option::None

ASSUME ShardInnerAssumption ==
  /\ IsFiniteSet(Keys)
  /\ Ttls \subseteq Nat
  /\ MaxTime \in Nat
  /\ None \notin Nat
  /\ None \notin [key : Keys, value : Values, expires_at : Nat \cup {None},
                  prev : Nat \cup {None}, next : Nat \cup {None}]

VARIABLES
  sh,     \* the ShardInner: [map, nodes, free, head, tail]
  sweep,  \* the instant purge_expired sweeps the shard for, or None
  clock,
  older   \* history: the order of last use of the keys present

vars == <<sh, sweep, clock, older>>

Option(S) == S \cup {None}
Node  == [key : Keys, value : Values, expires_at : Option(Nat),
          prev : Option(Nat), next : Option(Nat)]
Shard == [map : [Keys -> Option(Nat)], nodes : Seq(Option(Node)),
          free : Seq(Nat), head : Option(Nat), tail : Option(Nat)]

\* ShardInner::new
New == [map |-> [k \in Keys |-> None], nodes |-> <<>>, free |-> <<>>,
        head |-> None, tail |-> None]

\* Node::is_expired
IsExpired(node, n) == node.expires_at # None /\ n >= node.expires_at

-----------------------------------------------------------------------------
(* The methods of ShardInner: the shard after the call.                    *)

\* lru_remove: the neighbours (or head and tail) are joined around slot i.
LruRemove(s, i) ==
  LET p  == s.nodes[i].prev
      n  == s.nodes[i].next
      s1 == IF p = None THEN [s EXCEPT !.head = n]
                        ELSE [s EXCEPT !.nodes[p].next = n]
      s2 == IF n = None THEN [s1 EXCEPT !.tail = p]
                        ELSE [s1 EXCEPT !.nodes[n].prev = p]
  IN [s2 EXCEPT !.nodes[i].prev = None, !.nodes[i].next = None]

\* lru_push_back: slot i is linked behind the tail.
LruPushBack(s, i) ==
  LET s1 == [s EXCEPT !.nodes[i].prev = s.tail, !.nodes[i].next = None]
      s2 == IF s.tail = None THEN [s1 EXCEPT !.head = i]
                             ELSE [s1 EXCEPT !.nodes[s.tail].next = i]
  IN [s2 EXCEPT !.tail = i]

\* Mutant of Touch: the node is linked at the tail without being unlinked first.
TouchWithoutRemove(s, i) == IF s.tail = i THEN s ELSE LruPushBack(s, i)

\* touch: nothing to do when slot i is the tail already.
Touch(s, i) == IF s.tail = i THEN s ELSE LruPushBack(LruRemove(s, i), i)

\* The slot insert_new fills: the free slot freed last, else a new one.
NewSlot(s) == IF s.free = <<>> THEN Len(s.nodes) + 1 ELSE s.free[Len(s.free)]

\* Mutant of InsertNew: free slots are never reused.
InsertNewAppends(s, k, v) ==
  LET node == [key |-> k, value |-> v, expires_at |-> None,
               prev |-> None, next |-> None]
      i    == Len(s.nodes) + 1
  IN [LruPushBack([s EXCEPT !.nodes = Append(@, node)], i) EXCEPT !.map[k] = i]

\* insert_new
InsertNew(s, k, v) ==
  LET i    == NewSlot(s)
      node == [key |-> k, value |-> v, expires_at |-> None,
               prev |-> None, next |-> None]
      s1   == IF s.free = <<>>
              THEN [s EXCEPT !.nodes = Append(@, node)]
              ELSE [s EXCEPT !.nodes[i] = node,
                             !.free = SubSeq(@, 1, Len(@) - 1)]
  IN [LruPushBack(s1, i) EXCEPT !.map[k] = i]

\* Mutant of RemoveIdx: the map keeps the key.
RemoveIdxKeepsKey(s, i) ==
  [LruRemove(s, i) EXCEPT !.nodes[i] = None,
                          !.free     = Append(@, i)]

\* Mutant of RemoveIdx: the slot is not given back.
RemoveIdxLeaksSlot(s, i) ==
  LET k == s.nodes[i].key
  IN [LruRemove(s, i) EXCEPT !.nodes[i] = None,
                             !.map[k]   = None]

\* remove_idx
RemoveIdx(s, i) ==
  LET k == s.nodes[i].key
  IN [LruRemove(s, i) EXCEPT !.nodes[i] = None,
                             !.map[k]   = None,
                             !.free     = Append(@, i)]

-----------------------------------------------------------------------------
(* What the callers do under the lock.                                     *)

LiveKeys == {k \in Keys : sh.map[k] # None}

Found(k)        == sh.map[k] # None
NodeOf(k)       == sh.nodes[sh.map[k]]
Expired(k, n)   == Found(k) /\ IsExpired(NodeOf(k), n)
Fresh(k, n)     == Found(k) /\ ~IsExpired(NodeOf(k), n)

Init ==
  /\ sh = New
  /\ sweep = None
  /\ clock = 0
  /\ older = {}

\* Drop the entry under k.
Drop(k) ==
  /\ sh' = RemoveIdx(sh, sh.map[k])
  /\ older' = Without(older, k)

\* MemoryEngine::get.  n is the instant read before the lock was granted.
Get(k, n) ==
  /\ sweep = None
  /\ \/ Expired(k, n) /\ Drop(k)
     \/ /\ Fresh(k, n)
        /\ sh' = Touch(sh, sh.map[k])
        /\ older' = WithNewest(older, LiveKeys, k)
  /\ UNCHANGED <<sweep, clock>>

\* MemoryEngine::delete
Delete(k) ==
  /\ sweep = None
  /\ Found(k)
  /\ Drop(k)
  /\ UNCHANGED <<sweep, clock>>

\* MemoryEngine::expire
Expire(k, n, d) ==
  /\ sweep = None
  /\ \/ Expired(k, n) /\ Drop(k)
     \/ /\ Fresh(k, n)
        /\ sh' = [sh EXCEPT !.nodes[sh.map[k]].expires_at = n + d]
        /\ UNCHANGED older
  /\ UNCHANGED <<sweep, clock>>

\* MemoryEngine::ttl changes the shard only by dropping an expired entry.
Ttl(k, n) ==
  /\ sweep = None
  /\ Expired(k, n)
  /\ Drop(k)
  /\ UNCHANGED <<sweep, clock>>

\* MemoryEngine::set.  An entry expired at the current instant is removed and
\* its slot reused; a fresh one is overwritten in place, without TTL.
Set(k, v) ==
  /\ sweep = None
  /\ sh' = IF Fresh(k, clock)
           THEN Touch([sh EXCEPT !.nodes[sh.map[k]].value = v,
                                 !.nodes[sh.map[k]].expires_at = None], sh.map[k])
           ELSE InsertNew(IF Found(k) THEN RemoveIdx(sh, sh.map[k]) ELSE sh, k, v)
  /\ older' = WithNewest(older, LiveKeys, k)
  /\ UNCHANGED <<sweep, clock>>

\* evict_one_from_shard: pop_lru removes the node at the head.
PopLru ==
  /\ sweep = None
  /\ sh.head # None
  /\ sh' = RemoveIdx(sh, sh.head)
  /\ older' = Without(older, sh.nodes[sh.head].key)
  /\ UNCHANGED <<sweep, clock>>

\* purge_expired takes the lock, removes every entry expired at the instant n
\* in the order the map yields them, and drops the lock.
PurgeStart(n) ==
  /\ sweep = None
  /\ sweep' = n
  /\ UNCHANGED <<sh, clock, older>>

PurgeOne(k) ==
  /\ sweep # None
  /\ Expired(k, sweep)
  /\ Drop(k)
  /\ UNCHANGED <<sweep, clock>>

PurgeEnd ==
  /\ sweep # None
  /\ \A k \in Keys : ~Expired(k, sweep)
  /\ sweep' = None
  /\ UNCHANGED <<sh, clock, older>>

Tick ==
  /\ clock < MaxTime
  /\ clock' = clock + 1
  /\ UNCHANGED <<sh, sweep, older>>

Next ==
  \/ \E k \in Keys :
        \/ \E n \in 0 .. clock :
              Get(k, n) \/ Ttl(k, n) \/ \E d \in Ttls : Expire(k, n, d)
        \/ Delete(k)
        \/ \E v \in Values : Set(k, v)
        \/ PurgeOne(k)
  \/ \E n \in 0 .. clock : PurgeStart(n)
  \/ PurgeEnd
  \/ PopLru
  \/ Tick

Spec == Init /\ [][Next]_vars

-----------------------------------------------------------------------------
(* Properties.                                                             *)

Slots     == DOMAIN sh.nodes
LiveSlots == {i \in Slots : sh.nodes[i] # None}

\* Every variable has its type.
TypeOK ==
  /\ sh \in Shard
  /\ sweep \in Option(Nat)
  /\ clock \in Nat
  /\ older \subseteq Keys \X Keys

\* The map and the live slots of the arena are inverse to each other, so a
\* lookup never finds an emptied slot or another key's node.
MapMatchesArena ==
  /\ \A k \in Keys : Found(k) => sh.map[k] \in LiveSlots /\ NodeOf(k).key = k
  /\ \A i \in LiveSlots : sh.map[sh.nodes[i].key] = i

\* The free list holds every empty slot exactly once: no slot is leaked, and
\* none is handed out twice.
FreeListExact ==
  /\ \A m, n \in DOMAIN sh.free : sh.free[m] = sh.free[n] => m = n
  /\ \A i \in Slots : sh.nodes[i] = None <=> \E m \in DOMAIN sh.free : sh.free[m] = i
  /\ \A m \in DOMAIN sh.free : sh.free[m] \in Slots

\* Recycling slots keeps the arena no larger than the number of keys.
ArenaBounded == Len(sh.nodes) <= Cardinality(Keys)

\* The links lead through the live nodes in the order of last use: head is the
\* least recently used key, tail the most recent, and prev and next are each
\* other's inverse, whatever get, set, delete, expiry and eviction did.
LinksFollowUse ==
  LET keyAt(i) == sh.nodes[i].key IN
  /\ TotalOrder(older, LiveKeys)
  /\ sh.head = None <=> LiveKeys = {}
  /\ sh.tail = None <=> LiveKeys = {}
  /\ sh.head # None => sh.head \in LiveSlots /\ Oldest(older, LiveKeys, keyAt(sh.head))
  /\ sh.tail # None => sh.tail \in LiveSlots /\ Newest(older, LiveKeys, keyAt(sh.tail))
  /\ \A i \in LiveSlots :
       /\ sh.nodes[i].next = None <=> sh.tail = i
       /\ sh.nodes[i].prev = None <=> sh.head = i
       /\ sh.nodes[i].next # None =>
            /\ sh.nodes[i].next \in LiveSlots
            /\ sh.nodes[sh.nodes[i].next].prev = i
            /\ NextUsed(older, LiveKeys, keyAt(i), keyAt(sh.nodes[i].next))
       /\ sh.nodes[i].prev # None =>
            /\ sh.nodes[i].prev \in LiveSlots
            /\ sh.nodes[sh.nodes[i].prev].next = i
=============================================================================

------------------------------ MODULE LruOrder ------------------------------
(***************************************************************************)
(* The order of last use of a set of keys, as the set of pairs <<a, b>> in  *)
(* which a was used before b.                                               *)
(***************************************************************************)

\* The order once k is gone.
Without(order, k) == {ab \in order : ab[1] # k /\ ab[2] # k}

\* The order once k, a member of live or a new key, was used last.
WithNewest(order, live, k) == Without(order, k) \cup ((live \ {k}) \X {k})

\* k was used before every other member of live.
Oldest(order, live, k) == k \in live /\ \A j \in live : <<j, k>> \notin order

\* k was used after every other member of live.
Newest(order, live, k) == k \in live /\ \A j \in live : <<k, j>> \notin order

\* b is the key used next after a.
NextUsed(order, live, a, b) ==
  /\ <<a, b>> \in order
  /\ \A j \in live : ~(<<a, j>> \in order /\ <<j, b>> \in order)

\* The order is a strict total order of exactly the members of live.
TotalOrder(order, live) ==
  /\ order \subseteq live \X live
  /\ \A a, b \in live : <<a, b>> \in order => <<b, a>> \notin order
  /\ \A a, b, c \in live :
        <<a, b>> \in order /\ <<b, c>> \in order => <<a, c>> \in order
  /\ \A a, b \in live : a = b \/ <<a, b>> \in order \/ <<b, a>> \in order
=============================================================================

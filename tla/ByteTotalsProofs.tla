-------------------------- MODULE ByteTotalsProofs --------------------------
(***************************************************************************)
(* What the proofs about byte accounting need of sums: that they are        *)
(* natural numbers, that changing one summand changes the sum by as much,   *)
(* that they are monotone, and that a positive sum has a positive summand.  *)
(***************************************************************************)
EXTENDS ByteTotals, FiniteSetTheorems, FunctionTheorems, TLAPS

\* A leaf goes to Zenon unless it names another prover.
USE Zenon

\* The bytes of a function of natural numbers on a finite set are finitely many.
LEMMA BytesFinite ==
  ASSUME NEW S, IsFiniteSet(S), NEW f \in [S -> Nat]
  PROVE  IsFiniteSet(BytesOf(f))
<1> DEFINE part == [x \in S |-> {x} \X (1 .. f[x])]
<1>1. part \in Surjection(S, Range(part))
  <2>1. part \in [S -> {part[x] : x \in S}]
    OBVIOUS
  <2> QED
    BY <2>1, Fun_RangeProperties
<1>2. IsFiniteSet(Range(part))
  BY <1>1, FS_Surjection, Fun_ExistsSurj
<1>3. \A B \in Range(part) : IsFiniteSet(B)
  <2> SUFFICES ASSUME NEW x \in S PROVE IsFiniteSet({x} \X (1 .. f[x]))
    BY DEF Range
  <2>1. IsFiniteSet({x})
    BY FS_Singleton
  <2>2. IsFiniteSet(1 .. f[x])
    BY FS_Interval, SMTT(30)
  <2> QED
    BY <2>1, <2>2, FS_Product
<1>4. BytesOf(f) = UNION Range(part)
  BY DEF BytesOf, Range
<1> QED
  BY <1>2, <1>3, <1>4, FS_UNION

\* The total is a natural number.
LEMMA TotalNat ==
  ASSUME NEW S, IsFiniteSet(S), NEW f \in [S -> Nat]
  PROVE  Total(f) \in Nat
BY BytesFinite, FS_CardinalityType DEF Total

\* Splitting off one summand.
LEMMA TotalSplit ==
  ASSUME NEW S, IsFiniteSet(S), NEW f \in [S -> Nat], NEW x \in S
  PROVE  Total(f) = Total([f EXCEPT ![x] = 0]) + f[x]
<1> DEFINE g    == [f EXCEPT ![x] = 0]
           mine == {x} \X (1 .. f[x])
<1>1. g \in [S -> Nat] /\ IsFiniteSet(BytesOf(f)) /\ IsFiniteSet(BytesOf(g))
  BY BytesFinite
<1>2. IsFiniteSet(mine) /\ Cardinality(mine) = f[x]
  <2>1. IsFiniteSet({x}) /\ Cardinality({x}) = 1
    BY FS_Singleton
  <2>2. IsFiniteSet(1 .. f[x]) /\ Cardinality(1 .. f[x]) = f[x]
    BY FS_Interval, SMTT(30)
  <2>3. IsFiniteSet(mine) /\ Cardinality(mine) = Cardinality({x}) * Cardinality(1 .. f[x])
    BY <2>1, <2>2, FS_Product
  <2> QED
    BY <2>1, <2>2, <2>3, SMTT(30)
<1>3. \A y, i : <<y, i>> \in BytesOf(f) <=> y \in S /\ i \in 1 .. f[y]
  BY SMTT(30) DEF BytesOf
<1>4. \A y, i : <<y, i>> \in BytesOf(g) <=> y \in S /\ y # x /\ i \in 1 .. f[y]
  <2>1. \A y, i : <<y, i>> \in BytesOf(g) <=> y \in S /\ i \in 1 .. g[y]
    BY SMTT(30) DEF BytesOf
  <2>2. \A y \in S : g[y] = IF y = x THEN 0 ELSE f[y]
    OBVIOUS
  <2>3. \A i : i \notin 1 .. 0
    BY SMTT(30)
  <2> QED
    BY <2>1, <2>2, <2>3
<1>5. \A c \in BytesOf(f) : \E y, i : c = <<y, i>>
  BY SMTT(30) DEF BytesOf
<1>6. \A c \in BytesOf(g) : \E y, i : c = <<y, i>>
  BY SMTT(30) DEF BytesOf
<1>7. \A c \in mine : \E y, i : c = <<y, i>>
  BY SMTT(30)
<1>8. \A y, i : <<y, i>> \in mine <=> y = x /\ i \in 1 .. f[x]
  OBVIOUS
<1> HIDE DEF g, mine
<1>9. BytesOf(f) = BytesOf(g) \cup mine
  BY <1>3, <1>4, <1>5, <1>6, <1>7, <1>8, SMTT(30)
<1>10. BytesOf(g) \cap mine = {}
  BY <1>4, <1>6, <1>8, SMTT(30)
<1>11. Cardinality(BytesOf(f)) = Cardinality(BytesOf(g)) + Cardinality(mine)
                                   - Cardinality(BytesOf(g) \cap mine)
  BY <1>1, <1>2, <1>9, FS_Union
<1>12. Cardinality(BytesOf(g)) \in Nat
  BY <1>1, FS_CardinalityType
<1>13. Cardinality(BytesOf(f)) = Cardinality(BytesOf(g)) + f[x]
  BY <1>2, <1>10, <1>11, <1>12, FS_EmptySet, SMTT(30)
<1> QED
  BY <1>13 DEF Total, g

\* Replacing one summand changes the total by the difference.
LEMMA TotalUpdate ==
  ASSUME NEW S, IsFiniteSet(S), NEW f \in [S -> Nat], NEW x \in S, NEW n \in Nat
  PROVE  Total([f EXCEPT ![x] = n]) = Total(f) - f[x] + n
<1> DEFINE g == [f EXCEPT ![x] = n]
<1>1. g \in [S -> Nat] /\ g[x] = n
  OBVIOUS
<1>2. [g EXCEPT ![x] = 0] = [f EXCEPT ![x] = 0]
  OBVIOUS
<1>3. Total(g) = Total([f EXCEPT ![x] = 0]) + n
  BY <1>1, <1>2, TotalSplit
<1>4. Total(f) = Total([f EXCEPT ![x] = 0]) + f[x]
  BY TotalSplit
<1>5. Total([f EXCEPT ![x] = 0]) \in Nat
  <2>1. [f EXCEPT ![x] = 0] \in [S -> Nat]
    OBVIOUS
  <2> QED
    BY <2>1, TotalNat
<1> QED
  BY <1>3, <1>4, <1>5, SMTT(30)

\* A smaller function has a smaller total.
LEMMA TotalMonotone ==
  ASSUME NEW S, IsFiniteSet(S), NEW f \in [S -> Nat], NEW g \in [S -> Nat],
         \A x \in S : f[x] <= g[x]
  PROVE  Total(f) <= Total(g)
<1>1. IsFiniteSet(BytesOf(g))
  BY BytesFinite
<1>2. \A x \in S : 1 .. f[x] \subseteq 1 .. g[x]
  BY SMTT(30)
<1>3. BytesOf(f) \subseteq BytesOf(g)
  BY <1>2, SMTT(30) DEF BytesOf
<1> QED
  BY <1>1, <1>3, FS_Subset DEF Total

\* The total of zeros is zero.
LEMMA TotalZero ==
  ASSUME NEW S, NEW f \in [S -> Nat], \A x \in S : f[x] = 0
  PROVE  Total(f) = 0
<1>1. \A x \in S : 1 .. f[x] = {}
  BY SMTT(30)
<1>2. BytesOf(f) = {}
  BY <1>1, SMTT(30) DEF BytesOf
<1> QED
  BY <1>2, FS_EmptySet DEF Total

\* The members of a function's bytes.
LEMMA BytesMembers ==
  ASSUME NEW S, NEW f \in [S -> Nat]
  PROVE  /\ \A x, i : <<x, i>> \in BytesOf(f) <=> x \in S /\ i \in 1 .. f[x]
         /\ \A c \in BytesOf(f) : c = <<c[1], c[2]>>
BY SMTT(30) DEF BytesOf

\* When each summand is covered by one of two functions, the total is covered by
\* both together.
LEMMA TotalParts ==
  ASSUME NEW S, IsFiniteSet(S), NEW f \in [S -> Nat], NEW g \in [S -> Nat], NEW h \in [S -> Nat],
         \A x \in S : f[x] <= g[x] \/ f[x] <= h[x]
  PROVE  Total(f) <= Total(g) + Total(h)
<1>1. IsFiniteSet(BytesOf(g)) /\ IsFiniteSet(BytesOf(h))
  BY BytesFinite
<1>2. \A x \in S : 1 .. f[x] \subseteq (1 .. g[x]) \cup (1 .. h[x])
  BY SMTT(30)
<1>3. BytesOf(f) \subseteq BytesOf(g) \cup BytesOf(h)
  BY <1>2, SMTT(30) DEF BytesOf
<1>4. /\ IsFiniteSet(BytesOf(g) \cup BytesOf(h))
      /\ Cardinality(BytesOf(f)) <= Cardinality(BytesOf(g) \cup BytesOf(h))
  BY <1>1, <1>3, FS_Union, FS_Subset
<1>5. /\ Cardinality(BytesOf(g) \cup BytesOf(h)) = Cardinality(BytesOf(g)) + Cardinality(BytesOf(h))
                                     - Cardinality(BytesOf(g) \cap BytesOf(h))
      /\ Cardinality(BytesOf(g) \cap BytesOf(h)) \in Nat
  BY <1>1, FS_Union, FS_Intersection, FS_CardinalityType
<1>6. /\ Cardinality(BytesOf(f)) \in Nat
      /\ Cardinality(BytesOf(g)) \in Nat /\ Cardinality(BytesOf(h)) \in Nat
  BY <1>1, BytesFinite, FS_CardinalityType
<1> QED
  BY <1>4, <1>5, <1>6, SMTT(30) DEF Total

\* When every positive summand has an owner of its own that brings at least as
\* much, the total is at most what the owners bring together.
LEMMA TotalOwned ==
  ASSUME NEW S, NEW T, IsFiniteSet(T), IsFiniteSet(S),
         NEW f \in [S -> Nat], NEW g \in [T -> Nat], NEW tag,
         \A x \in S : f[x] = 0 \/ \E y \in T : tag[y] = x /\ f[x] <= g[y]
  PROVE  Total(f) <= Total(g)
<1> DEFINE Owner(x) == CHOOSE y \in T : tag[y] = x /\ f[x] <= g[y]
           m == [c \in BytesOf(f) |-> <<Owner(c[1]), c[2]>>]
<1>1. IsFiniteSet(BytesOf(f)) /\ IsFiniteSet(BytesOf(g))
  BY BytesFinite
<1>2. ASSUME NEW c \in BytesOf(f)
      PROVE  /\ Owner(c[1]) \in T /\ tag[Owner(c[1])] = c[1]
             /\ <<Owner(c[1]), c[2]>> \in BytesOf(g)
  <2>1. c[1] \in S /\ c[2] \in 1 .. f[c[1]]
    BY BytesMembers, SMTT(30)
  <2>2. f[c[1]] # 0
    BY <2>1, SMTT(30)
  <2>3. Owner(c[1]) \in T /\ tag[Owner(c[1])] = c[1] /\ f[c[1]] <= g[Owner(c[1])]
    BY <2>1, <2>2
  <2>4. c[2] \in 1 .. g[Owner(c[1])]
    BY <2>1, <2>3, SMTT(30)
  <2> QED
    BY <2>3, <2>4, BytesMembers, SMTT(30)
<1> HIDE DEF Owner
<1>3. m \in [BytesOf(f) -> BytesOf(g)]
  BY <1>2
<1>4. \A b, c \in BytesOf(f) : m[b] = m[c] => b = c
  <2> SUFFICES ASSUME NEW b \in BytesOf(f), NEW c \in BytesOf(f), m[b] = m[c] PROVE b = c
    OBVIOUS
  <2>1. Owner(b[1]) = Owner(c[1]) /\ b[2] = c[2]
    OBVIOUS
  <2>2. b[1] = c[1]
    BY <1>2, <2>1, SMTT(30)
  <2> QED
    BY <2>1, <2>2, BytesMembers, ZenonT(30)
<1>5. m \in Injection(BytesOf(f), BytesOf(g))
  BY <1>3, <1>4 DEF Injection, IsInjective
<1> QED
  BY <1>1, <1>5, FS_Injection, Fun_ExistsInj DEF Total

\* One more summand.
LEMMA TotalExtend ==
  ASSUME NEW S, IsFiniteSet(S), NEW x, x \notin S, NEW f \in [S -> Nat],
         NEW g \in [S \union {x} -> Nat], \A y \in S : g[y] = f[y]
  PROVE  Total(g) = Total(f) + g[x]
<1> DEFINE h == [g EXCEPT ![x] = 0]
<1>1. IsFiniteSet(S \union {x})
  BY FS_AddElement
<1>2. Total(g) = Total(h) + g[x]
  <2>1. PICK T : T = S \union {x}
    OBVIOUS
  <2>2. IsFiniteSet(T) /\ g \in [T -> Nat] /\ x \in T
    BY <1>1, <2>1
  <2> QED
    BY <2>2, TotalSplit
<1>3. h \in [S \union {x} -> Nat] /\ h[x] = 0 /\ \A y \in S : h[y] = f[y]
  OBVIOUS
<1> HIDE DEF h
<1>4. BytesOf(h) = BytesOf(f)
  <2>1. \A y \in S \union {x} : \A n : n \in 1 .. h[y] <=> y \in S /\ n \in 1 .. f[y]
    BY <1>3, SMTT(30)
  <2> QED
    BY <1>3, <2>1, BytesMembers, SMTT(30)
<1> QED
  BY <1>2, <1>4 DEF Total

\* Adding one to f[x] adds one to the sum over every set that holds x.
LEMMA TotalOn ==
  ASSUME NEW D, NEW S \in SUBSET D, IsFiniteSet(S), NEW f \in [D -> Nat], NEW x \in D,
         NEW h, h = [f EXCEPT ![x] = f[x] + 1]
  PROVE  /\ Total([i \in S |-> f[i]]) \in Nat
         /\ x \in S => Total([i \in S |-> h[i]]) = Total([i \in S |-> f[i]]) + 1
         /\ x \notin S => Total([i \in S |-> h[i]]) = Total([i \in S |-> f[i]])
<1> DEFINE g == [i \in S |-> f[i]]
<1>1. g \in [S -> Nat] /\ Total(g) \in Nat
  <2>1. g \in [S -> Nat]
    OBVIOUS
  <2> QED
    BY <2>1, TotalNat
<1>2. ASSUME x \in S PROVE Total([i \in S |-> h[i]]) = Total(g) + 1
  <2>1. [i \in S |-> h[i]] = [g EXCEPT ![x] = f[x] + 1] /\ g[x] = f[x]
    BY <1>2
  <2>2. f[x] \in Nat /\ f[x] + 1 \in Nat
    BY SMTT(30)
  <2> HIDE DEF g
  <2>3. Total([g EXCEPT ![x] = f[x] + 1]) = Total(g) - g[x] + (f[x] + 1)
    BY <1>1, <1>2, <2>2, TotalUpdate, ZenonT(30)
  <2> QED
    BY <1>1, <2>1, <2>2, <2>3, SMTT(30)
<1>3. ASSUME x \notin S PROVE [i \in S |-> h[i]] = g
  BY <1>3
<1> QED
  BY <1>1, <1>2, <1>3

\* The sum over a smaller set is smaller.
LEMMA TotalSubset ==
  ASSUME NEW T, IsFiniteSet(T), NEW S \in SUBSET T, NEW f \in [T -> Nat]
  PROVE  Total([i \in S |-> f[i]]) <= Total([i \in T |-> f[i]])
<1> DEFINE g == [i \in S |-> f[i]]
           h == [i \in T |-> f[i]]
<1>1. IsFiniteSet(BytesOf(h)) /\ h \in [T -> Nat] /\ g \in [S -> Nat]
  <2>1. h \in [T -> Nat] /\ g \in [S -> Nat]
    OBVIOUS
  <2> QED
    BY <2>1, BytesFinite
<1>2. BytesOf(g) \subseteq BytesOf(h)
  BY DEF BytesOf
<1> QED
  BY <1>1, <1>2, FS_Subset DEF Total

=============================================================================

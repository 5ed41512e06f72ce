----------------------------- MODULE ByteTotals -----------------------------
(***************************************************************************)
(* The sum of a function of counts: of bytes, commands or answers.          *)
(*                                                                         *)
(* A byte of f is a pair <<x, i>> with i \in 1 .. f[x]; the total is the    *)
(* number of such pairs.  Counting a set, rather than folding addition over *)
(* the domain, keeps the sum within reach of the cardinality theorems.      *)
(***************************************************************************)
EXTENDS Integers, FiniteSets

\* The bytes that f assigns to the members of its domain.
BytesOf(f) == UNION { {x} \X (1 .. f[x]) : x \in DOMAIN f }

\* The sum of f[x] over its domain.
Total(f) == Cardinality(BytesOf(f))
=============================================================================

----------------------------- MODULE Selections -----------------------------
(***************************************************************************)
(* Elements picked out of a sequence, and counted.  Written with sets of   *)
(* positions and their cardinalities, because the provers know nothing of  *)
(* SelectSeq.                                                              *)
(***************************************************************************)
EXTENDS Naturals, Sequences, FiniteSets

(* The k-th of a finite set of numbers, from below                          *)
Nth(I, k) == CHOOSE i \in I : Cardinality({j \in I : j <= i}) = k

(* The elements at the positions I, in their order                          *)
Picked(seq, I) == [k \in 1 .. Cardinality(I) |-> seq[Nth(I, k)]]

Number(seq, Test(_)) == Cardinality({i \in DOMAIN seq : Test(seq[i])})

(* A finite set in the order given                                          *)
Position(S, Before(_, _), x) == Cardinality({y \in S : Before(y, x)}) + 1

Sorted(S, Before(_, _)) ==
  [k \in 1 .. Cardinality(S) |-> CHOOSE x \in S : Position(S, Before, x) = k]

(* The sum of a sequence of numbers                                         *)
Ones(values)  == UNION {{i} \X (1 .. values[i]) : i \in DOMAIN values}
SumOf(values) == Cardinality(Ones(values))
=============================================================================

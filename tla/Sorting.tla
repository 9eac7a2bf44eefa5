------------------------------- MODULE Sorting -------------------------------
(***************************************************************************)
(* What sorting leaves.  sort.Slice of the Go library: one of the orders   *)
(* of a slice in which no element stands before a lesser one, and any of   *)
(* them where two elements are equal.                                      *)
(***************************************************************************)
EXTENDS Integers, Sequences, FiniteSets

(* The permutations of 1 .. n.                                             *)
Orders(n) ==
  {p \in [1 .. n -> 1 .. n] :
    /\ \A j, k \in 1 .. n : p[j] = p[k] => j = k
    /\ \A j \in 1 .. n : \E k \in 1 .. n : p[k] = j}

Sorted(s, Less(_, _)) ==
  {t \in {[k \in 1 .. Len(s) |-> s[p[k]]] : p \in Orders(Len(s))} :
    \A j, k \in 1 .. Len(s) : j < k => ~Less(t[k], t[j])}

(* What the merge sort of levels.go makes of distinct elements: so many of *)
(* them stand before each as are less.                                     *)
InOrder(S, Less(_, _)) ==
  [k \in 1 .. Cardinality(S) |->
     CHOOSE x \in S : Cardinality({y \in S : Less(y, x)}) = k - 1]

(* Numbers, and symbols that numbers stand for.                            *)
Ascending(s) == Sorted(s, LAMBDA a, b : a < b)
=============================================================================

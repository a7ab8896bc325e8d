------------------------------- MODULE Arrays -------------------------------
(***************************************************************************)
(* filter and sort of an array, which keep the order of what they leave, in *)
(* definitions that can be reasoned about.                                  *)
(***************************************************************************)
EXTENDS Integers, Sequences, FiniteSets

(* s.filter: what of s is in keep.                                          *)
Filtered(s, keep) ==
  LET kept[i \in 0..Len(s)] ==
        IF i = 0 THEN <<>>
        ELSE IF s[i] \in keep THEN Append(kept[i - 1], s[i]) ELSE kept[i - 1]
  IN kept[Len(s)]

(* s.sort: by numbers that are given for the positions 1..n of s, where     *)
(* equal ones stay in their order. An entry goes to its place.              *)
PlaceAmong(n, number, i) ==
  Cardinality({j \in 1..n : number[j] < number[i] \/ (number[j] = number[i] /\ j <= i)})
Sorted(s, number) ==
  [r \in 1..Len(s) |-> s[CHOOSE i \in 1..Len(s) : PlaceAmong(Len(s), number, i) = r]]
=============================================================================

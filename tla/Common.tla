--------------------------------- MODULE Common ---------------------------------
(***************************************************************************)
(* What modules that are extended together share.                          *)
(***************************************************************************)
EXTENDS Integers, FiniteSets

CONSTANT None   \* null, undefined, no row, no key

(* The sides of a match. *)
Sides == {"home", "away"}
Other(side) == CHOOSE s \in Sides : s # side

(* The n-th of some numbers: n - 1 of them are smaller. *)
Nth(numbers, n) == CHOOSE k \in numbers : Cardinality({j \in numbers : j < k}) = n - 1

(* The elements of a finite set in an order of them: the n-th has n - 1 before it. *)
InOrder(S, Before(_, _)) ==
    [n \in 1 .. Cardinality(S) |->
        CHOOSE x \in S : Cardinality({y \in S : Before(y, x)}) = n - 1]

(* The elements of a sequence at some of its places, in their order. *)
Picked(list, places) == [n \in 1 .. Cardinality(places) |-> list[Nth(places, n)]]
===============================================================================

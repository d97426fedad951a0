---------------------------- MODULE MCResultsImport ----------------------------
(***************************************************************************)
(* ResultsImport for TLC: the exports of a few nights.                     *)
(***************************************************************************)
EXTENDS ResultsImport, TLC

CONSTANTS r1, r2, r3, a, b, x, y, tournament, championship

Of == (a :> x) @@ (b :> y)

L(r, v) == [row |-> r, value |-> v, type |-> championship]
T(r, v) == [row |-> r, value |-> v, type |-> tournament]

First     == [date |-> 1, lines |-> <<L(r1, a), L(r2, a)>>]
Corrected == [date |-> 2, lines |-> <<L(r1, b), L(r2, a)>>]
Longer(d) == [date |-> d, lines |-> <<L(r1, a), L(r2, a), L(r3, b), L(r3, a)>>]
Retyped(d) == [date |-> d, lines |-> <<T(r1, a), T(r2, a), L(r3, b), T(r3, a)>>]

(* A correction; the old export served once more; an export that only      *)
(* appends to the old one, which withdraws the correction, and has a row   *)
(* twice; and one that says of a competition that it is a tournament.      *)
Nights == <<First, Corrected, First, Longer(3), Retyped(4)>>
===============================================================================

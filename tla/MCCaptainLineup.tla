-------------------------- MODULE MCCaptainLineup --------------------------
(***************************************************************************)
(* Two women's teams of a club (three starters each) and their matches.    *)
(***************************************************************************)
EXTENDS CaptainLineup, TLC

CONSTANTS p1, p2, p3, p4, p5, away, mA, mB

Slot(p, pos) == [player |-> p, pos |-> pos, role |-> "TITULAIRE"]
Bench(p) == [player |-> p, pos |-> 101, role |-> "BANC"]
Three(a, b, c) == {Slot(a, 1), Slot(b, 2), Slot(c, 3)}

MCTeams == << [id |-> "A", rank |-> 1, size |-> 3, category |-> "WOMEN",
               division |-> "one"],
              [id |-> "B", rank |-> 2, size |-> 3, category |-> "WOMEN",
               division |-> "two"] >>
MCForceList == [WOMEN |-> [p \in {p1, p2, p3, p4, p5} |->
              CASE p = p1 -> 2 [] p = p4 -> 5 [] OTHER -> 6]]

MCWeek == [m \in {mA, mB} |-> "w1"]
MCDivision == [m \in {mA, mB} |-> IF m = mB THEN "two" ELSE "one"]
\* For A a legal line-up, and one in the wrong order; for B one below its
\* place, and one that shares a player with the first of A (away is a player
\* of the club's men, whom the women's list does not have).
MCDrafts == [m \in {mA, mB} |->
  CASE m = mA -> {Three(p1, p2, p3), Three(p2, p1, p5)}
    [] m = mB -> {Three(p5, away, p4), Three(p4, p3, away) \cup {Bench(p1)}}]

\* A plain validation, an override with a justification, one without.
MCAsks == {<<FALSE, "absent">>, <<TRUE, "given">>, <<TRUE, "empty">>}
MCSymmetry == Permutations(Requests)
=============================================================================

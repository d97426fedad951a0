--------------------------- MODULE ChallengePromise ---------------------------
(***************************************************************************)
(* What the weekly challenge promises the press and the public, with no    *)
(* workers, locks, attempts in flight, crashes or database in sight.       *)
(*                                                                         *)
(* For one championship week the press receives at most one provisional    *)
(* ("sunday") and at most one final ("monday") e-mail.  The public sees    *)
(* nothing until the Thursday publication, which shows the very run the    *)
(* press received as final, announces it with one outbox event in the same *)
(* step, and is never replaced or withdrawn.                               *)
(***************************************************************************)
EXTENDS Naturals, Sequences

CONSTANTS Weeks,        \* championship weeks
          MaxAttempts   \* runs of one type and week are numbered 1..MaxAttempts

VARIABLES mails,        \* per week and type: the runs whose e-mail the press got
          published,    \* per week: the run the public sees, 0 for none
          announced     \* weeks with a CHALLENGE_PUBLISHED event in the outbox

promiseVars == <<mails, published, announced>>

PressTypes == {"sunday", "monday"}

PromiseInit ==
    /\ mails = [w \in Weeks |-> [t \in PressTypes |-> << >>]]
    /\ published = [w \in Weeks |-> 0]
    /\ announced = {}

(* The first, and only, press e-mail of a type for a week. *)
PressReceives(w, t, a) ==
    /\ mails[w][t] = << >>
    /\ mails' = [mails EXCEPT ![w][t] = <<a>>]
    /\ UNCHANGED <<published, announced>>

(* The publication: only what the press already has as final. *)
PublicSees(w) ==
    /\ published[w] = 0
    /\ mails[w]["monday"] # << >>
    /\ published' = [published EXCEPT ![w] = mails[w]["monday"][1]]
    /\ announced' = announced \cup {w}
    /\ UNCHANGED mails

PromiseNext ==
    \E w \in Weeks :
        \/ \E t \in PressTypes, a \in 1..MaxAttempts : PressReceives(w, t, a)
        \/ PublicSees(w)

PromiseSpec == PromiseInit /\ [][PromiseNext]_promiseVars
===============================================================================

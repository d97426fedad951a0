----------------------------- MODULE CachePromise -----------------------------
(***************************************************************************)
(* What readers of the shared cache are promised, whatever goes on between *)
(* the API processes and Redis: every answer belongs to the request it     *)
(* answers, it is never older than the oldest copy alive when it is given, *)
(* and the copies alive only get younger.                                  *)
(***************************************************************************)
EXTENDS Naturals

CONSTANTS
    Calls,      \* the calls of the API
    Subjects,   \* what a call may be about
    Unanswered  \* the answer of a call that has none

VARIABLES
    version,    \* what the sources hold now
    oldest,     \* of each subject, the version of the oldest copy alive
    subject,    \* of each call, what it is about
    answer      \* of each call, the last answer it got

vars == <<version, oldest, subject, answer>>

Init ==
    /\ oldest = [s \in Subjects |-> version]
    /\ answer = [c \in Calls |-> Unanswered]

(* Copies are dropped and made; no copy is older than one there was. *)
CopiesGetYounger ==
    \A s \in Subjects : oldest[s] <= oldest'[s] /\ oldest'[s] <= version'

(* A call gets a copy that is alive, of what it has asked for. *)
Answered(c) ==
    \E n \in oldest[subject[c]] .. version :
        answer'[c] = [of |-> subject[c], version |-> n]

Step ==
    /\ version <= version'
    /\ CopiesGetYounger
    /\ \A c \in Calls : answer'[c] \in {answer[c], Unanswered} \/ Answered(c)

Spec == Init /\ [][Step]_vars
===============================================================================

----------------------------- MODULE PublicationTimes -----------------------------
(***************************************************************************)
(* When the next ranking of a challenge is to be published, as the public  *)
(* list of challenges says                                                 *)
(* (apps/tabt-rest/src/api/challenges/challenge.service.ts).  The dates    *)
(* are days in Brussels, the answer is an instant.  Times are in hours,    *)
(* days are numbered from hour 0 on.                                       *)
(***************************************************************************)
EXTENDS Integers, Sequences, SequencesExt, FiniteSetsExt, Common

(* In Brussels it is offset[t] hours later than t. *)
DateInBrussels(t, offset) == (t + offset[t]) \div 24

(* The offset is that of the hour that the local time would be in UTC. *)
BrusselsScheduledAt(date, hour, offset) ==
    LET guess == 24 * date + hour IN guess - offset[guess]

(* The first two of the active weeks from today on; of those the first     *)
(* whose time is to come.                                                  *)
NextPublicationAt(dates, hour, now, offset) ==
    LET coming == SelectSeq(SortSeq(dates, <), LAMBDA d : d >= DateInBrussels(now, offset))
        taken == SubSeq(coming, 1, Min({2, Len(coming)}))
        times == {BrusselsScheduledAt(taken[i], hour, offset) : i \in DOMAIN taken}
        later == {t \in times : t > now}
    IN  IF later = {} THEN None ELSE Min(later)
===============================================================================

------------------------ MODULE ChallengeCycleInvariant ------------------------
(***************************************************************************)
(* The inductive invariant of ChallengeCycle when the advisory lock lives  *)
(* as long as its worker and the mail provider reports honestly, and what  *)
(* is left of it when neither is so.                                       *)
(***************************************************************************)
EXTENDS ChallengeCycle

(* Exactly the workers inside withLock hold a lock, and no two hold the    *)
(* same one.  A run belongs to a press job, a publication to Thursday's.   *)
LockInv ==
    /\ \A p \in Workers : held[p] <=> pc[p] \in Critical
    /\ \A p, q \in Workers :
        held[p] /\ held[q] /\ week[p] = week[q] /\ job[p] = job[q] => p = q
    /\ \A p \in Workers :
        /\ pc[p] \in InRun \cup {"compute", "create"} => job[p] \in Types
        /\ pc[p] \in {"publish", "commit"} => job[p] = "thursday"

(* A run that will not be retried for want of trouble, or must not be. *)
Closed(r) == status[r] \in Settled \/ Uncertain(r)

(* The two status columns of a run fit together. *)
ColumnsAgree(r) ==
    /\ status[r] \in {"ABSENT", "RUNNING"} => delivery[r] = "ABSENT"
    /\ status[r] = "COMPUTED" => delivery[r] \in {"ABSENT", "PENDING"}
    /\ status[r] \in Settled => delivery[r] = "SENT"
    /\ status[r] = "DELIVERY_UNKNOWN" => delivery[r] = "UNKNOWN"
    /\ status[r] = "FAILED" => delivery[r] \in {"ABSENT", "FAILED"}

(* Rows exist exactly up to the attempt counter, and only the latest       *)
(* attempt can be closed: an attempt that was followed by another is one   *)
(* the press never got.                                                    *)
RunAt(w, t, a) ==
    /\ ColumnsAgree(<<w, t, a>>)
    /\ status[<<w, t, a>>] = "ABSENT" <=> a > attempts[w][t]
    /\ Closed(<<w, t, a>>) => a = attempts[w][t]

RunInv == \A w \in Weeks, t \in Types, a \in 1..MaxAttempts : RunAt(w, t, a)

(* The press has nothing, or has the latest attempt, which is closed; a    *)
(* settled attempt is one the press has.                                   *)
MailAt(w, t) ==
    /\ \/ mails[w][t] = << >>
       \/ /\ attempts[w][t] > 0
          /\ mails[w][t] = <<attempts[w][t]>>
          /\ Closed(<<w, t, attempts[w][t]>>)
    /\ \A a \in 1..MaxAttempts :
            status[<<w, t, a>>] \in Settled => mails[w][t] = <<a>>

MailInv == \A w \in Weeks, t \in Types : MailAt(w, t)

(* Where a worker stands fixes the state of the run it works on. *)
WorkerAt(p) ==
    /\ pc[p] = "create" =>
          /\ cur[p] = attempts[week[p]][job[p]] + 1
          /\ ~NoRetry(week[p], job[p])
    /\ pc[p] \in InRun =>
          /\ cur[p] = attempts[week[p]][job[p]]
          /\ cur[p] > 0
    /\ pc[p] = "calculate" => status[RunOf(p)] = "RUNNING"
    /\ pc[p] = "deliver" =>
          status[RunOf(p)] = "COMPUTED" /\ delivery[RunOf(p)] = "ABSENT"
    /\ pc[p] \in {"send", "record"} =>
          status[RunOf(p)] = "COMPUTED" /\ delivery[RunOf(p)] = "PENDING"
    /\ pc[p] = "send" => mails[week[p]][job[p]] = << >>
    /\ pc[p] = "record" =>
          /\ answer[p] = "SENT" => mails[week[p]][job[p]] = <<cur[p]>>
          /\ answer[p] = "FAILED" => mails[week[p]][job[p]] = << >>
    /\ pc[p] = "commit" => cur[p] \in Publishable(week[p])

WorkerInv == \A p \in Workers : WorkerAt(p)

(* A week is public with its latest, published Monday run, and announced. *)
PublicAt(w) ==
    /\ w \in announced <=> published[w] # 0
    /\ published[w] # 0 =>
        /\ published[w] = attempts[w]["monday"]
        /\ status[<<w, "monday", published[w]>>] = "PUBLISHED"

PublicInv == \A w \in Weeks : PublicAt(w)

IInv == TypeOK /\ LockInv /\ RunInv /\ MailInv /\ WorkerInv /\ PublicInv

-------------------------------------------------------------------------------
(* Without the lock, what keeps workers apart is the unique key of a run:  *)
(* whoever has created it is alone with it, sends it once, and nobody      *)
(* writes a run any more that the press has received.                      *)

(* Where a worker stands fixes its kind of job and its run. *)
Placed ==
    \A p \in Workers :
        /\ pc[p] \in InRun \cup {"compute", "create"} => job[p] \in Types
        /\ pc[p] \in InRun =>
              cur[p] > 0 /\ cur[p] <= attempts[week[p]][job[p]]
        /\ pc[p] = "commit" => cur[p] \in Publishable(week[p])

OwnRun ==
    \A p, q \in Workers :
        pc[p] \in InRun /\ pc[q] \in InRun /\ RunOf(p) = RunOf(q) => p = q

OpenRun ==
    \A p \in Workers :
        /\ pc[p] = "calculate" => status[RunOf(p)] = "RUNNING"
        /\ pc[p] \in {"deliver", "send", "record"} => status[RunOf(p)] = "COMPUTED"
        /\ pc[p] \in {"calculate", "deliver", "send"} =>
              cur[p] \notin Received(week[p], job[p])
        /\ pc[p] = "record" /\ answer[p] = "SENT" =>
              cur[p] \in Received(week[p], job[p])

SettledRun ==
    \A w \in Weeks, t \in Types, a \in 1..MaxAttempts :
        /\ a > attempts[w][t] => status[<<w, t, a>>] = "ABSENT"
        /\ status[<<w, t, a>>] \in Settled =>
              delivery[<<w, t, a>>] = "SENT" /\ a \in Received(w, t)

SentInv ==
    \A w \in Weeks, t \in Types : \A a \in Received(w, t) : a <= attempts[w][t]

PublishedInv ==
    \A w \in Weeks : published[w] # 0 =>
        status[<<w, "monday", published[w]>>] = "PUBLISHED"

LooseInv ==
    /\ TypeOK /\ Placed /\ OwnRun /\ OpenRun
    /\ SettledRun /\ SentInv /\ PublishedInv /\ NoRunMailedTwice
===============================================================================

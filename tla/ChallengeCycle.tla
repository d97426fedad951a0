---------------------------- MODULE ChallengeCycle ----------------------------
(***************************************************************************)
(* The orchestrator of the weekly community challenge                      *)
(* (apps/challenge-worker/src/challenge-orchestrator.service.ts).          *)
(*                                                                         *)
(* Short-lived worker processes run the jobs "sunday", "monday" and        *)
(* "thursday".  A job walks over the championship weeks its date selects;  *)
(* for each it takes a PostgreSQL session advisory lock on (week, job) and *)
(* either computes a ranking and e-mails it to the press (sunday, monday)  *)
(* or publishes Monday's run (thursday).  A worker may crash between any   *)
(* two steps, every database statement may fail, also after it committed,  *)
(* and the mail provider may answer, refuse or fall silent.                *)
(*                                                                         *)
(* The type of a run is named by the job that makes it: "sunday" is        *)
(* SUNDAY_PRESS_DRAFT, "monday" is MONDAY_PRESS_FINAL.                     *)
(***************************************************************************)
EXTENDS Naturals, Sequences

CONSTANTS
    Weeks,                \* ChallengeChampionshipWeek rows
    Workers,              \* worker processes that may overlap
    Schedule,             \* the jobs that are started, of the three there are
    MaxAttempts,          \* bound: ChallengeRun rows of one type and week
    LockMayDrop,          \* may the lock's session end while its worker goes on?
    ProviderMayMisreport  \* may an error status come back for accepted mail?

ASSUME MaxAttemptsAssumption == MaxAttempts \in Nat \ {0}
ASSUME ScheduleAssumption == Schedule \subseteq {"sunday", "monday", "thursday"}
ASSUME SwitchesAssumption ==
    LockMayDrop \in BOOLEAN /\ ProviderMayMisreport \in BOOLEAN

VARIABLES
    attempts,   \* per week and type: the number of ChallengeRun rows
    status,     \* ChallengeRun.status of a run, "ABSENT" before its row exists
    delivery,   \* ChallengePressDelivery.status of a run, "ABSENT" before
    published,  \* ChallengePublication.runId of a week (Monday attempt; 0: none)
    announced,  \* weeks whose CHALLENGE_PUBLISHED row is in the outbox
    pc,         \* where each worker stands
    job,        \* the job it runs
    todo,       \* the weeks of its loop it has not reached
    week,       \* the week it works on
    cur,        \* the run it computes, or the one it will publish
    answer,     \* what press.send returned
    held,       \* does it hold the advisory lock on (week, job)?
    mails       \* history: per week and type, the runs the press received

database == <<attempts, status, delivery, published, announced>>
worker   == <<pc, job, todo, week, cur, answer, held>>
vars     == <<database, worker, mails>>

Types == {"sunday", "monday"}
Jobs  == Types \cup {"thursday"}
Runs  == Weeks \X Types \X (1..MaxAttempts)

RunStatus == {"ABSENT", "RUNNING", "COMPUTED", "PRESS_SENT",
              "READY_FOR_PUBLICATION", "PUBLISHED", "DELIVERY_UNKNOWN", "FAILED"}
Answers == {"SENT", "FAILED", "UNKNOWN"}
DeliveryStatus == {"ABSENT", "PENDING"} \cup Answers

InRun    == {"calculate", "deliver", "send", "record", "caught"}
Critical == InRun \cup {"compute", "create", "publish", "commit", "unlock"}
Control  == Critical \cup {"idle", "pick"}

TypeOK ==
    /\ attempts \in [Weeks -> [Types -> 0..MaxAttempts]]
    /\ status \in [Runs -> RunStatus]
    /\ delivery \in [Runs -> DeliveryStatus]
    /\ published \in [Weeks -> 0..MaxAttempts]
    /\ announced \in SUBSET Weeks
    /\ pc \in [Workers -> Control]
    /\ job \in [Workers -> Jobs]
    /\ todo \in [Workers -> SUBSET Weeks]
    /\ week \in [Workers -> Weeks]
    /\ cur \in [Workers -> 0..MaxAttempts + 1]
    /\ answer \in [Workers -> Answers]
    /\ held \in [Workers -> BOOLEAN]
    /\ mails \in [Weeks -> [Types -> Seq(1..MaxAttempts)]]

Init ==
    /\ attempts = [w \in Weeks |-> [t \in Types |-> 0]]
    /\ status = [r \in Runs |-> "ABSENT"]
    /\ delivery = [r \in Runs |-> "ABSENT"]
    /\ published = [w \in Weeks |-> 0]
    /\ announced = {}
    /\ pc = [p \in Workers |-> "idle"]
    /\ job = [p \in Workers |-> "sunday"]
    /\ todo = [p \in Workers |-> {}]
    /\ \E w \in Weeks : week = [p \in Workers |-> w]
    /\ cur = [p \in Workers |-> 0]
    /\ answer = [p \in Workers |-> "UNKNOWN"]
    /\ held = [p \in Workers |-> FALSE]
    /\ mails = [w \in Weeks |-> [t \in Types |-> << >>]]

-------------------------------------------------------------------------------
(* Control of one worker.                                                  *)

Goto(p, where) == pc' = [pc EXCEPT ![p] = where]

At(p, where) == pc[p] = where

RunOf(p) == <<week[p], job[p], cur[p]>>

(* The locals of a finished week are out of scope. *)
Forget(p) ==
    /\ cur' = [cur EXCEPT ![p] = 0]
    /\ answer' = [answer EXCEPT ![p] = "UNKNOWN"]

(* The process is gone, its session and its locks with it. *)
Exit(p) ==
    /\ Goto(p, "idle")
    /\ job' = [job EXCEPT ![p] = "sunday"]
    /\ todo' = [todo EXCEPT ![p] = {}]
    /\ held' = [held EXCEPT ![p] = FALSE]
    /\ Forget(p)
    /\ UNCHANGED <<database, week, mails>>

LockFree(w, j) == \A q \in Workers : ~(held[q] /\ week[q] = w /\ job[q] = j)

(* The weeks the loop has still to reach after w.  Mutant: a week that is   *)
(* worked on is not taken off the list.                                    *)
RemainingStuck(p, w) == todo[p]
Remaining(p, w) == todo[p] \ {w}

(* run(job, date): the active weeks the date selects, never none. *)
Start(p, j, selected) ==
    /\ At(p, "idle")
    /\ selected # {}
    /\ job' = [job EXCEPT ![p] = j]
    /\ todo' = [todo EXCEPT ![p] = selected]
    /\ Goto(p, "pick")
    /\ UNCHANGED <<database, week, cur, answer, held, mails>>

(* assertSeasonValid throws, the pool gives no connection, or the lock is  *)
(* taken: this week FAILED, the loop goes on.                              *)
SkipWeek(p, w) ==
    /\ At(p, "pick")
    /\ w \in todo[p]
    /\ todo' = [todo EXCEPT ![p] = Remaining(p, w)]
    /\ UNCHANGED <<database, pc, job, week, cur, answer, held, mails>>

(* withLock acquires and calls publish or compute. *)
TakeLock(p, w) ==
    /\ At(p, "pick")
    /\ w \in todo[p]
    /\ LockFree(w, job[p])
    /\ todo' = [todo EXCEPT ![p] = Remaining(p, w)]
    /\ week' = [week EXCEPT ![p] = w]
    /\ held' = [held EXCEPT ![p] = TRUE]
    /\ Goto(p, IF job[p] = "thursday" THEN "publish" ELSE "compute")
    /\ UNCHANGED <<database, job, cur, answer, mails>>

(* withLock's finally: give the lock back and go on with the next week. *)
Unlock(p) ==
    /\ At(p, "unlock")
    /\ held[p]
    /\ held' = [held EXCEPT ![p] = FALSE]
    /\ Goto(p, "pick")
    /\ Forget(p)
    /\ UNCHANGED <<database, job, todo, week, mails>>

(* The same when the lock's session is gone: the unlock statement fails    *)
(* and the connection's unhandled error event ends the process.            *)
UnlockFails(p) == At(p, "unlock") /\ ~held[p] /\ Exit(p)

Finish(p) == At(p, "pick") /\ todo[p] = {} /\ Exit(p)

Crash(p) == ~At(p, "idle") /\ Exit(p)

(* The lock's own connection ends unnoticed, the worker goes on. *)
DropLock(p) ==
    /\ LockMayDrop
    /\ held[p]
    /\ held' = [held EXCEPT ![p] = FALSE]
    /\ UNCHANGED <<database, pc, job, todo, week, cur, answer, mails>>

-------------------------------------------------------------------------------
(* compute(week, type)                                                     *)

Settled == {"PRESS_SENT", "READY_FOR_PUBLICATION", "PUBLISHED"}

\* Mutant: only the uncertainty of a lost worker counts.
UncertainOnlyPending(r) == status[r] = "COMPUTED" /\ delivery[r] = "PENDING"
Uncertain(r) ==
    \/ status[r] = "DELIVERY_UNKNOWN"
    \/ status[r] = "COMPUTED" /\ delivery[r] = "PENDING"

(* The latest attempt is done, or its delivery is uncertain. *)
NoRetry(w, t) ==
    LET last == <<w, t, attempts[w][t]>>
    IN  attempts[w][t] > 0 /\ (status[last] \in Settled \/ Uncertain(last))

(* Reads the latest attempt: return it, throw, or go on to the next one. *)
ReadLast(p) ==
    /\ At(p, "compute")
    /\ IF NoRetry(week[p], job[p])
       THEN Goto(p, "unlock") /\ UNCHANGED cur
       ELSE /\ cur' = [cur EXCEPT ![p] = attempts[week[p]][job[p]] + 1]
            /\ Goto(p, "create")
    /\ UNCHANGED <<database, job, todo, week, answer, held, mails>>

(* (week, type, attempt) is unique.  Mutant: no such constraint. *)
AttemptReused(p) == attempts[week[p]][job[p]] >= cur[p] - 1
AttemptFree(p) == attempts[week[p]][job[p]] = cur[p] - 1

(* Inserts the RUNNING run.  The insert stands before the try block, so    *)
(* its errors leave no handler to run.                                     *)
CreateRun(p) ==
    /\ At(p, "create")
    /\ cur[p] <= MaxAttempts
    /\ AttemptFree(p)
    /\ attempts' = [attempts EXCEPT ![week[p]][job[p]] = cur[p]]
    /\ status' = [status EXCEPT ![RunOf(p)] = "RUNNING"]
    /\ Goto(p, "calculate") \/ Goto(p, "unlock")
    /\ UNCHANGED <<delivery, published, announced>>
    /\ UNCHANGED <<job, todo, week, cur, answer, held, mails>>

CreateRefused(p) ==
    /\ At(p, "create")
    /\ Goto(p, "unlock")
    /\ UNCHANGED <<database, job, todo, week, cur, answer, held, mails>>

(* The ranking is calculated and stored, with its checksum, in one         *)
(* transaction that also marks the run COMPUTED.                           *)
StoreRanking(p) ==
    /\ At(p, "calculate")
    /\ status' = [status EXCEPT ![RunOf(p)] = "COMPUTED"]
    /\ Goto(p, "deliver") \/ Goto(p, "caught")
    /\ UNCHANGED <<attempts, delivery, published, announced>>
    /\ UNCHANGED <<job, todo, week, cur, answer, held, mails>>

(* The delivery row is committed as PENDING before anything is sent. *)
OpenDelivery(p) ==
    /\ At(p, "deliver")
    /\ delivery' = [delivery EXCEPT ![RunOf(p)] = "PENDING"]
    /\ Goto(p, "send") \/ Goto(p, "caught")
    /\ UNCHANGED <<attempts, status, published, announced>>
    /\ UNCHANGED <<job, todo, week, cur, answer, held, mails>>

(* press.send: SENT on a 2xx answer; FAILED when nothing could be sent or  *)
(* on an error status; UNKNOWN on a timeout or a broken connection, whether *)
(* the provider took the e-mail or not.                                    *)
Send(p, taken, result) ==
    /\ At(p, "send")
    /\ result = "SENT" => taken
    /\ result = "FAILED" => ~taken \/ ProviderMayMisreport
    /\ mails' = IF taken
                THEN [mails EXCEPT ![week[p]][job[p]] = Append(@, cur[p])]
                ELSE mails
    /\ answer' = [answer EXCEPT ![p] = result]
    /\ Goto(p, "record")
    /\ UNCHANGED <<database, job, todo, week, cur, held>>

(* The status a run gets for the answer of the press. *)
RunStatusFor(t, result) ==
    IF result = "SENT"
    THEN IF t = "monday" THEN "READY_FOR_PUBLICATION" ELSE "PRESS_SENT"
    ELSE IF result = "UNKNOWN" THEN "DELIVERY_UNKNOWN" ELSE "FAILED"

RecordAnswer(p) ==
    /\ At(p, "record")
    /\ delivery' = [delivery EXCEPT ![RunOf(p)] = answer[p]]
    /\ status' = [status EXCEPT ![RunOf(p)] = RunStatusFor(job[p], answer[p])]
    /\ Goto(p, "unlock") \/ Goto(p, "caught")
    /\ UNCHANGED <<attempts, published, announced>>
    /\ UNCHANGED <<job, todo, week, cur, answer, held, mails>>

(* Whatever the try block does may throw without having taken effect: the  *)
(* calculation, reading the press configuration, a transaction.            *)
StepFails(p) ==
    /\ pc[p] \in {"calculate", "deliver", "send", "record"}
    /\ Goto(p, "caught")
    /\ UNCHANGED <<database, job, todo, week, cur, answer, held, mails>>

(* The catch block: reread the run, and close what is still open.  Nobody  *)
(* else writes a run in these states, so reading and writing are one step. *)
Handle(p) ==
    LET r == RunOf(p) IN
    /\ At(p, "caught")
    /\ \/ /\ status[r] = "COMPUTED" /\ delivery[r] = "PENDING"
          /\ delivery' = [delivery EXCEPT ![r] = "UNKNOWN"]
          /\ status' = [status EXCEPT ![r] = "DELIVERY_UNKNOWN"]
       \/ /\ status[r] \in {"RUNNING", "COMPUTED"} /\ delivery[r] # "PENDING"
          /\ status' = [status EXCEPT ![r] = "FAILED"]
          /\ UNCHANGED delivery
       \/ UNCHANGED <<status, delivery>>    \* closed already, or the handler fails
    /\ Goto(p, "unlock")
    /\ UNCHANGED <<attempts, published, announced>>
    /\ UNCHANGED <<job, todo, week, cur, answer, held, mails>>

-------------------------------------------------------------------------------
(* publish(week)                                                           *)

\* Mutant: any computed Monday run will do.
PublishableUnsent(w) ==
    {a \in 1..MaxAttempts :
        status[<<w, "monday", a>>] \in {"COMPUTED", "READY_FOR_PUBLICATION", "PUBLISHED"}}
Publishable(w) ==
    {a \in 1..MaxAttempts :
        /\ status[<<w, "monday", a>>] \in {"READY_FOR_PUBLICATION", "PUBLISHED"}
        /\ delivery[<<w, "monday", a>>] = "SENT"}

(* Chooses the latest run the press has received as final. *)
ChooseRun(p, a) ==
    /\ At(p, "publish")
    /\ a \in Publishable(week[p])
    /\ \A b \in Publishable(week[p]) : b <= a
    /\ cur' = [cur EXCEPT ![p] = a]
    /\ Goto(p, "commit")
    /\ UNCHANGED <<database, job, todo, week, answer, held, mails>>

(* Nothing publishable, a checksum mismatch, or a failed statement: the    *)
(* previous publication is kept.                                           *)
PublishRefused(p) ==
    /\ pc[p] \in {"publish", "commit"}
    /\ Goto(p, "unlock")
    /\ UNCHANGED <<database, job, todo, week, cur, answer, held, mails>>

(* One transaction: the publication, the run's status, the outbox row      *)
(* (upserted under the week's deduplication key).                          *)
CommitPublication(p) ==
    /\ At(p, "commit")
    /\ published' = [published EXCEPT ![week[p]] = cur[p]]
    /\ status' = [status EXCEPT ![<<week[p], "monday", cur[p]>>] = "PUBLISHED"]
    /\ announced' = announced \cup {week[p]}
    /\ Goto(p, "unlock")
    /\ UNCHANGED <<attempts, delivery, job, todo, week, cur, answer, held, mails>>

-------------------------------------------------------------------------------
Compute(p) ==
    \/ ReadLast(p) \/ CreateRun(p) \/ CreateRefused(p) \/ StoreRanking(p)
    \/ OpenDelivery(p) \/ RecordAnswer(p) \/ StepFails(p) \/ Handle(p)
    \/ \E taken \in BOOLEAN, result \in Answers : Send(p, taken, result)

Publish(p) ==
    \/ \E a \in 1..MaxAttempts : ChooseRun(p, a)
    \/ PublishRefused(p)
    \/ CommitPublication(p)

Loop(p) ==
    \/ \E w \in Weeks : TakeLock(p, w) \/ SkipWeek(p, w)
    \/ Unlock(p) \/ UnlockFails(p)
    \/ Finish(p)

Work(p) == Loop(p) \/ Compute(p) \/ Publish(p)

Next ==
    \E p \in Workers :
        \/ \E j \in Schedule, selected \in SUBSET Weeks : Start(p, j, selected)
        \/ Work(p)
        \/ Crash(p)
        \/ DropLock(p)

Spec == Init /\ [][Next]_vars

(* A live process executes its next statement: every call the job awaits   *)
(* has a timeout or is answered.  Nothing makes a job start.               *)
FairSpec == Spec /\ \A p \in Workers : WF_vars(Work(p))

-------------------------------------------------------------------------------
(* Properties.                                                             *)

Received(w, t) == {mails[w][t][i] : i \in 1..Len(mails[w][t])}

(* The press gets at most one e-mail of a type for a week, over all jobs,  *)
(* retries and crashes: a run whose delivery was interrupted is never      *)
(* retried, a run that is retried was never delivered (the PENDING row     *)
(* written before press.send, the checks at the top of compute).  Needs    *)
(* the lock and a provider that reports honestly.                          *)
AtMostOneMail == \A w \in Weeks, t \in Types : Len(mails[w][t]) <= 1

(* What the public sees is a run the press received as final: publish      *)
(* selects by status and by delivery, and neither is ever taken back once  *)
(* the run is public.  Holds even when the lock is lost.                   *)
PublicIsPress ==
    \A w \in Weeks : published[w] # 0 =>
        /\ published[w] \in Received(w, "monday")
        /\ status[<<w, "monday", published[w]>>] = "PUBLISHED"
        /\ delivery[<<w, "monday", published[w]>>] = "SENT"

(* No run is e-mailed twice, whatever happens to its worker, its lock or   *)
(* its statements: only the run's creator sends it, once.                  *)
NoRunMailedTwice ==
    \A w \in Weeks, t \in Types : \A i, k \in 1..Len(mails[w][t]) :
        mails[w][t][i] = mails[w][t][k] => i = k

(* A publication is final: a later Monday or Thursday job neither replaces *)
(* nor withdraws it (compute returns the PUBLISHED run, publish selects    *)
(* the same run again).                                                    *)
PublicationFinal ==
    [][\A w \in Weeks : published[w] # 0 => published'[w] = published[w]]_vars

(* An uncertain delivery blocks every later attempt of its type, and one   *)
(* of Monday's blocks the Thursday publication (worker README, lines       *)
(* 41-43), whichever jobs run afterwards.                                  *)
UncertaintyBlocks ==
    [][\A w \in Weeks, t \in Types :
        (\E a \in 1..MaxAttempts : status[<<w, t, a>>] = "DELIVERY_UNKNOWN") =>
            /\ attempts'[w][t] = attempts[w][t]
            /\ t = "monday" => published'[w] = published[w]]_vars

(* Every job ends, with its lock given back, although weeks fail, locks    *)
(* are taken and statements throw: one week's failure never holds the loop.*)
JobsEnd == \A p \in Workers : pc[p] # "idle" ~> pc[p] = "idle" /\ ~held[p]

(* The orchestrator implements what the challenge promises. *)
Promise == INSTANCE ChallengePromise
KeepsPromise == Promise!PromiseSpec
===============================================================================

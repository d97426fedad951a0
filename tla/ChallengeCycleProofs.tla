------------------------- MODULE ChallengeCycleProofs -------------------------
EXTENDS ChallengeCycleInvariant, TLAPS

(***************************************************************************)
(* ChallengeCycle, proved: the inductive invariant IInv of                 *)
(* ChallengeCycleInvariant holds of the specification for every value of   *)
(* the constants with LockMayDrop and ProviderMayMisreport false, and with *)
(* it the refinement of ChallengePromise; LooseInv holds for every value   *)
(* of the constants, and with it what survives a lost lock.                *)
(***************************************************************************)

(* Types are preserved by every step, a lost lock and a misreporting       *)
(* provider included.                                                      *)
LEMMA TypeStep ==
    ASSUME TypeOK, Placed, [Next]_vars
    PROVE  TypeOK'
<1> USE MaxAttemptsAssumption, ScheduleAssumption
<1> USE DEF TypeOK, Goto, At, Runs, Types, Jobs, Control, Critical, InRun, database, worker, vars
<1>1. ASSUME NEW p \in Workers, NEW j \in Schedule, NEW S \in SUBSET Weeks, Start(p, j, S)
      PROVE  TypeOK'
  BY <1>1 DEF Start
<1>2. ASSUME NEW p \in Workers, NEW w \in Weeks, TakeLock(p, w)
      PROVE  TypeOK'
  <2>1. /\ todo' \in [Workers -> SUBSET Weeks] /\ week' \in [Workers -> Weeks]
        /\ held' \in [Workers -> BOOLEAN]
    BY <1>2 DEF TakeLock, Remaining
  <2>2. pc' \in [Workers -> Control]
    BY <1>2 DEF TakeLock
  <2>3. QED  BY <1>2, <2>1, <2>2 DEF TakeLock
<1>3. ASSUME NEW p \in Workers, NEW w \in Weeks, SkipWeek(p, w)
      PROVE  TypeOK'
  BY <1>3 DEF SkipWeek, Remaining
<1>4. ASSUME NEW p \in Workers, Exit(p)
      PROVE  TypeOK'
  <2>1. /\ pc' = [pc EXCEPT ![p] = "idle"] /\ job' = [job EXCEPT ![p] = "sunday"]
        /\ todo' = [todo EXCEPT ![p] = {}] /\ held' = [held EXCEPT ![p] = FALSE]
        /\ cur' = [cur EXCEPT ![p] = 0] /\ answer' = [answer EXCEPT ![p] = "UNKNOWN"]
        /\ UNCHANGED <<attempts, status, delivery, published, announced, week, mails>>
    BY <1>4 DEF Exit, Forget
  <2>2. pc' \in [Workers -> Control] /\ job' \in [Workers -> Jobs]
    BY <2>1
  <2>3. todo' \in [Workers -> SUBSET Weeks] /\ held' \in [Workers -> BOOLEAN]
    BY <2>1
  <2>4. cur' \in [Workers -> 0..MaxAttempts + 1] /\ answer' \in [Workers -> Answers]
    BY <2>1 DEF Answers
  <2>5. QED  BY <2>1, <2>2, <2>3, <2>4
<1>5. ASSUME NEW p \in Workers, Unlock(p)
      PROVE  TypeOK'
  <2>1. pc' \in [Workers -> Control] /\ held' \in [Workers -> BOOLEAN]
    BY <1>5 DEF Unlock
  <2>2. cur' \in [Workers -> 0..MaxAttempts + 1] /\ answer' \in [Workers -> Answers]
    BY <1>5 DEF Unlock, Forget, Answers
  <2>3. QED  BY <1>5, <2>1, <2>2 DEF Unlock
<1>6. ASSUME NEW p \in Workers, DropLock(p)
      PROVE  TypeOK'
  BY <1>6 DEF DropLock
<1>7. ASSUME NEW p \in Workers, ReadLast(p)
      PROVE  TypeOK'
  <2>1. job[p] \in Types
    BY <1>7 DEF ReadLast, Placed
  <2>2. attempts[week[p]][job[p]] \in 0..MaxAttempts
    BY <2>1
  <2>3. cur' \in [Workers -> 0..MaxAttempts + 1]
    <3>1. CASE UNCHANGED cur  BY <3>1
    <3>2. CASE cur' = [cur EXCEPT ![p] = attempts[week[p]][job[p]] + 1]
      <4> DEFINE n == attempts[week[p]][job[p]]
      <4>1. n + 1 \in 0..MaxAttempts + 1  BY <2>2
      <4> HIDE DEF n
      <4>2. cur' = [cur EXCEPT ![p] = n + 1]  BY <3>2 DEF n
      <4>3. QED  BY <4>1, <4>2
    <3>3. QED  BY <1>7, <3>1, <3>2 DEF ReadLast
  <2>4. QED  BY <1>7, <2>3 DEF ReadLast
<1>8. ASSUME NEW p \in Workers, CreateRun(p)
      PROVE  TypeOK'
  <2>1. attempts' \in [Weeks -> [Types -> 0..MaxAttempts]]
    <3>1. cur[p] \in 0..MaxAttempts  BY <1>8 DEF CreateRun
    <3>2. QED  BY <1>8, <3>1 DEF CreateRun
  <2>2. status' \in [Runs -> RunStatus]
    BY <1>8 DEF CreateRun, RunOf, RunStatus
  <2>3. QED  BY <1>8, <2>1, <2>2 DEF CreateRun
<1>9. ASSUME NEW p \in Workers, NEW taken \in BOOLEAN, NEW result \in Answers, Send(p, taken, result)
      PROVE  TypeOK'
  <2>1. job[p] \in Types /\ cur[p] > 0 /\ cur[p] <= attempts[week[p]][job[p]]
    BY <1>9 DEF Send, Placed
  <2>4. cur[p] \in 1..MaxAttempts
    BY <2>1
  <2>2. Append(mails[week[p]][job[p]], cur[p]) \in Seq(1..MaxAttempts)
    BY <2>1, <2>4
  <2>3. mails' \in [Weeks -> [Types -> Seq(1..MaxAttempts)]]
    BY <1>9, <2>2 DEF Send
  <2>5. QED  BY <1>9, <2>3 DEF Send
<1>10. ASSUME NEW p \in Workers, RecordAnswer(p)
      PROVE  TypeOK'
  <2>1. pc' \in [Workers -> Control]
    BY <1>10 DEF RecordAnswer
  <2>2. RunStatusFor(job[p], answer[p]) \in RunStatus /\ answer[p] \in DeliveryStatus
    BY DEF RunStatusFor, RunStatus, DeliveryStatus
  <2>3. status' \in [Runs -> RunStatus]
    BY <1>10, <2>2 DEF RecordAnswer
  <2>4. delivery' \in [Runs -> DeliveryStatus]
    BY <1>10, <2>2 DEF RecordAnswer
  <2>5. QED  BY <1>10, <2>1, <2>3, <2>4 DEF RecordAnswer
<1>11. ASSUME NEW p \in Workers, Handle(p)
      PROVE  TypeOK'
  <2>1. pc' \in [Workers -> Control]
    BY <1>11 DEF Handle
  <2>2. /\ "UNKNOWN" \in DeliveryStatus
        /\ "DELIVERY_UNKNOWN" \in RunStatus /\ "FAILED" \in RunStatus
    BY DEF DeliveryStatus, Answers, RunStatus
  <2>3. /\ \/ status' = [status EXCEPT ![RunOf(p)] = "DELIVERY_UNKNOWN"]
           \/ status' = [status EXCEPT ![RunOf(p)] = "FAILED"]
           \/ status' = status
        /\ delivery' = [delivery EXCEPT ![RunOf(p)] = "UNKNOWN"] \/ delivery' = delivery
    BY <1>11 DEF Handle
  <2>4. status' \in [Runs -> RunStatus]
    <3>1. CASE status' = [status EXCEPT ![RunOf(p)] = "DELIVERY_UNKNOWN"]
      BY <2>2, <3>1
    <3>2. CASE status' = [status EXCEPT ![RunOf(p)] = "FAILED"]
      BY <2>2, <3>2
    <3>3. QED  BY <2>3, <3>1, <3>2
  <2>5. delivery' \in [Runs -> DeliveryStatus]
    <3>1. CASE delivery' = [delivery EXCEPT ![RunOf(p)] = "UNKNOWN"]
      BY <2>2, <3>1
    <3>2. QED  BY <2>3, <3>1
  <2>6. QED  BY <1>11, <2>1, <2>4, <2>5 DEF Handle
<1>12. ASSUME NEW p \in Workers, CommitPublication(p)
      PROVE  TypeOK'
  <2>1. cur[p] \in 1..MaxAttempts
    BY <1>12 DEF CommitPublication, Placed, Publishable
  <2>2. status' \in [Runs -> RunStatus]
    BY <1>12 DEF CommitPublication, RunStatus
  <2>3. QED  BY <1>12, <2>1, <2>2 DEF CommitPublication
<1>13. ASSUME NEW p \in Workers, NEW a \in 1..MaxAttempts, ChooseRun(p, a)
      PROVE  TypeOK'
  <2>1. pc' \in [Workers -> Control] /\ cur' \in [Workers -> 0..MaxAttempts + 1]
    BY <1>13 DEF ChooseRun
  <2>2. QED  BY <1>13, <2>1 DEF ChooseRun
<1>14. ASSUME NEW p \in Workers,
              CreateRefused(p) \/ StepFails(p) \/ PublishRefused(p)
      PROVE  TypeOK'
  <2>1. /\ pc' = [pc EXCEPT ![p] = "unlock"] \/ pc' = [pc EXCEPT ![p] = "caught"]
        /\ UNCHANGED <<attempts, status, delivery, published, announced>>
        /\ UNCHANGED <<job, todo, week, cur, answer, held, mails>>
    BY <1>14 DEF CreateRefused, StepFails, PublishRefused
  <2>2. pc' \in [Workers -> Control]
    BY <2>1
  <2>3. QED  BY <2>1, <2>2
<1>15. ASSUME NEW p \in Workers, StoreRanking(p) \/ OpenDelivery(p)
      PROVE  TypeOK'
  <2>1. /\ status' \in [Runs -> RunStatus] /\ delivery' \in [Runs -> DeliveryStatus]
        /\ pc' \in [Workers -> Control]
    BY <1>15 DEF StoreRanking, OpenDelivery, RunStatus, DeliveryStatus
  <2>2. QED  BY <1>15, <2>1 DEF StoreRanking, OpenDelivery
<1>16. CASE UNCHANGED vars
  BY <1>16
<1>17. QED
  BY <1>1, <1>2, <1>3, <1>4, <1>5, <1>6, <1>7, <1>8, <1>9, <1>10, <1>11,
     <1>12, <1>13, <1>14, <1>15, <1>16
  DEF Next, Work, Loop, Compute, Publish, Crash, Finish, UnlockFails

(* Lock ownership follows control, as long as no lock is dropped. *)
LEMMA LockStep ==
    ASSUME TypeOK, LockInv, ~LockMayDrop, [Next]_vars
    PROVE  LockInv'
<1> USE DEF TypeOK, LockInv, Goto, At, Types, Jobs, Control, Critical, InRun,
            database, worker, vars
<1>1. ASSUME NEW p \in Workers, NEW j \in Schedule, NEW S \in SUBSET Weeks,
             Start(p, j, S)
      PROVE  LockInv'
  BY <1>1 DEF Start
<1>2. ASSUME NEW p \in Workers, NEW w \in Weeks, TakeLock(p, w)
      PROVE  LockInv'
  <2> DEFINE where == IF job[p] = "thursday" THEN "publish" ELSE "compute"
  <2>1. /\ pc' = [pc EXCEPT ![p] = where] /\ where \in {"publish", "compute"}
        /\ where = "compute" => job[p] \in Types
        /\ where = "publish" => job[p] = "thursday"
    BY <1>2 DEF TakeLock
  <2> HIDE DEF where
  <2>2. /\ held' = [held EXCEPT ![p] = TRUE]
        /\ week' = [week EXCEPT ![p] = w]
        /\ job' = job
        /\ \A q \in Workers : ~(held[q] /\ week[q] = w /\ job[q] = job[p])
    BY <1>2 DEF TakeLock, LockFree
  <2>3. \A q \in Workers : held'[q] <=> pc'[q] \in Critical
    BY <2>1, <2>2
  <2>4. \A q, r \in Workers :
            held'[q] /\ held'[r] /\ week'[q] = week'[r] /\ job'[q] = job'[r] => q = r
    <3> SUFFICES ASSUME NEW q \in Workers, NEW r \in Workers,
                        held'[q], held'[r], week'[q] = week'[r], job'[q] = job'[r]
                 PROVE  q = r
      OBVIOUS
    <3>1. CASE q = p /\ r # p  BY <2>2, <3>1
    <3>2. CASE q # p /\ r = p  BY <2>2, <3>2
    <3>3. CASE q # p /\ r # p  BY <2>2, <3>3
    <3>4. QED  BY <3>1, <3>2, <3>3
  <2>5. \A q \in Workers :
            /\ pc'[q] \in InRun \cup {"compute", "create"} => job'[q] \in Types
            /\ pc'[q] \in {"publish", "commit"} => job'[q] = "thursday"
    BY <2>1, <2>2
  <2>6. QED  BY <2>3, <2>4, <2>5
<1>3. ASSUME NEW p \in Workers, NEW w \in Weeks, SkipWeek(p, w)
      PROVE  LockInv'
  BY <1>3 DEF SkipWeek
<1>4. ASSUME NEW p \in Workers, Exit(p)
      PROVE  LockInv'
  BY <1>4 DEF Exit
<1>5. ASSUME NEW p \in Workers, Unlock(p)
      PROVE  LockInv'
  BY <1>5 DEF Unlock
<1>6. ASSUME NEW p \in Workers,
             \/ ReadLast(p) \/ CreateRun(p) \/ CreateRefused(p)
             \/ StoreRanking(p) \/ OpenDelivery(p) \/ RecordAnswer(p)
             \/ StepFails(p) \/ Handle(p)
      PROVE  LockInv'
  <2>1. /\ pc[p] \in InRun \cup {"compute", "create"}
        /\ UNCHANGED <<job, week, held>>
        /\ \E new \in InRun \cup {"create", "unlock"} : pc' = [pc EXCEPT ![p] = new]
    BY <1>6 DEF ReadLast, CreateRun, CreateRefused, StoreRanking, OpenDelivery,
                RecordAnswer, StepFails, Handle
  <2>2. QED  BY <2>1
<1>7. ASSUME NEW p \in Workers, NEW taken \in BOOLEAN, NEW result \in Answers,
             Send(p, taken, result)
      PROVE  LockInv'
  BY <1>7 DEF Send
<1>8. ASSUME NEW p \in Workers, NEW a \in 1..MaxAttempts, ChooseRun(p, a)
      PROVE  LockInv'
  BY <1>8 DEF ChooseRun
<1>9. ASSUME NEW p \in Workers, PublishRefused(p) \/ CommitPublication(p)
      PROVE  LockInv'
  <2>1. /\ pc[p] \in {"publish", "commit"}
        /\ UNCHANGED <<job, week, held>>
        /\ pc' = [pc EXCEPT ![p] = "unlock"]
    BY <1>9 DEF PublishRefused, CommitPublication
  <2>2. QED  BY <2>1
<1>10. CASE UNCHANGED vars
  BY <1>10
<1>11. ASSUME NEW p \in Workers, Loop(p)
       PROVE  LockInv'
  BY <1>2, <1>3, <1>4, <1>5, <1>11 DEF Loop, Finish, UnlockFails
<1>12. ASSUME NEW p \in Workers, Compute(p)
       PROVE  LockInv'
  BY <1>6, <1>7, <1>12 DEF Compute
<1>13. ASSUME NEW p \in Workers, Publish(p)
       PROVE  LockInv'
  BY <1>8, <1>9, <1>13 DEF Publish
<1>14. QED
  BY <1>1, <1>4, <1>10, <1>11, <1>12, <1>13 DEF Next, Work, Crash, DropLock

(* Two workers inside withLock never have the same week and job. *)
LEMMA Exclusive ==
    ASSUME TypeOK, LockInv, NEW p \in Workers, NEW q \in Workers, p # q,
           pc[p] \in Critical, pc[q] \in Critical
    PROVE  week[p] # week[q] \/ job[p] # job[q]
BY DEF TypeOK, LockInv

(* What the data invariants say does not depend on the workers. *)
LEMMA DataFrame ==
    ASSUME RunInv, MailInv, PublicInv, UNCHANGED <<database, mails>>
    PROVE  RunInv' /\ MailInv' /\ PublicInv'
BY DEF RunInv, MailInv, PublicInv, RunAt, MailAt, PublicAt, ColumnsAgree, Closed,
       Uncertain, database

(* A worker that did not move keeps its place when its run, or the run it  *)
(* is about to publish, was not touched.                                   *)
LEMMA WorkerFrame ==
    ASSUME TypeOK, LockInv, NEW q \in Workers, WorkerAt(q),
           pc'[q] = pc[q], cur'[q] = cur[q], week'[q] = week[q],
           job'[q] = job[q], answer'[q] = answer[q],
           pc[q] = "commit" => cur[q] \in Publishable(week[q])',
           pc[q] \in InRun \cup {"create"} =>
               /\ attempts'[week[q]][job[q]] = attempts[week[q]][job[q]]
               /\ mails'[week[q]][job[q]] = mails[week[q]][job[q]]
               /\ \A a \in 1..MaxAttempts :
                     /\ status'[<<week[q], job[q], a>>] = status[<<week[q], job[q], a>>]
                     /\ delivery'[<<week[q], job[q], a>>] = delivery[<<week[q], job[q], a>>]
    PROVE  WorkerAt(q)'
<1> USE MaxAttemptsAssumption
<1>1. CASE pc[q] = "create"
  <2>1. job[q] \in Types /\ attempts[week[q]][job[q]] \in 0..MaxAttempts
    BY <1>1 DEF LockInv, TypeOK
  <2>2. NoRetry(week[q], job[q])' <=> NoRetry(week[q], job[q])
    BY <1>1, <2>1 DEF NoRetry, Uncertain
  <2>3. QED  BY <1>1, <2>1, <2>2 DEF WorkerAt, InRun
<1>2. CASE pc[q] \in InRun
  <2>1. job[q] \in Types /\ attempts[week[q]][job[q]] \in 0..MaxAttempts
    BY <1>2 DEF LockInv, TypeOK
  <2>2. cur[q] \in 1..MaxAttempts
    BY <1>2, <2>1 DEF WorkerAt
  <2>3. status'[RunOf(q)'] = status[RunOf(q)] /\ delivery'[RunOf(q)'] = delivery[RunOf(q)]
    BY <1>2, <2>2 DEF RunOf
  <2>4. QED  BY <1>2, <2>2, <2>3 DEF WorkerAt, InRun
<1>3. CASE pc[q] \notin InRun \cup {"create"}
  BY <1>3 DEF WorkerAt, InRun
<1>4. QED  BY <1>1, <1>2, <1>3

(* Steps of p that touch neither the database nor the press. *)
LEMMA ControlStep ==
    ASSUME TypeOK, LockInv, WorkerInv, NEW p \in Workers,
           \/ \E j \in Schedule, S \in SUBSET Weeks : Start(p, j, S)
           \/ \E w \in Weeks : TakeLock(p, w) \/ SkipWeek(p, w)
           \/ \E a \in 1..MaxAttempts : ChooseRun(p, a)
           \/ Exit(p) \/ Unlock(p) \/ ReadLast(p) \/ CreateRefused(p)
           \/ StepFails(p) \/ PublishRefused(p)
    PROVE  WorkerInv' /\ UNCHANGED <<database, mails>>
<1> USE DEF At, Goto
<1>1. UNCHANGED <<database, mails>>
  BY DEF Start, TakeLock, SkipWeek, ChooseRun, Exit, Unlock, ReadLast,
         CreateRefused, StepFails, PublishRefused
<1>2. ASSUME NEW q \in Workers, q # p PROVE WorkerAt(q)'
  <2>1. /\ pc'[q] = pc[q] /\ cur'[q] = cur[q] /\ week'[q] = week[q]
        /\ job'[q] = job[q] /\ answer'[q] = answer[q]
    BY <1>2 DEF TypeOK, Start, TakeLock, SkipWeek, ChooseRun, Exit, Unlock,
                ReadLast, CreateRefused, StepFails, PublishRefused, Forget
  <2>2. Publishable(week[q])' = Publishable(week[q])
    BY <1>1, <2>1 DEF Publishable, database
  <2>3. pc[q] = "commit" => cur[q] \in Publishable(week[q])'
    BY <2>2 DEF WorkerInv, WorkerAt
  <2>4. QED  BY <1>1, <2>1, <2>3, WorkerFrame DEF WorkerInv, database
<1>3. WorkerAt(p)'
  <2>1. CASE pc'[p] \notin InRun \cup {"create", "commit"}
    BY <2>1 DEF WorkerAt, InRun
  <2>2. CASE ReadLast(p) /\ pc'[p] # "unlock"
    <3>1. /\ pc'[p] = "create" /\ UNCHANGED <<week, job>>
          /\ cur'[p] = attempts[week[p]][job[p]] + 1
          /\ ~NoRetry(week[p], job[p])
      BY <2>2 DEF ReadLast, TypeOK
    <3>2. NoRetry(week[p], job[p])' <=> NoRetry(week[p], job[p])
      BY <1>1, <3>1 DEF NoRetry, Uncertain, database
    <3>3. QED  BY <1>1, <3>1, <3>2 DEF WorkerAt, InRun, database
  <2>3. CASE StepFails(p)
    BY <1>1, <2>3 DEF StepFails, WorkerInv, WorkerAt, TypeOK, InRun, database
  <2>4. CASE \E a \in 1..MaxAttempts : ChooseRun(p, a)
    <3>1. PICK a \in 1..MaxAttempts : ChooseRun(p, a)
      BY <2>4
    <3>2. pc'[p] = "commit" /\ cur'[p] = a /\ week' = week /\ a \in Publishable(week[p])
      BY <3>1 DEF ChooseRun, TypeOK
    <3>3. cur'[p] \in Publishable(week[p])'
      BY <1>1, <3>2 DEF Publishable, database
    <3>4. QED  BY <3>2, <3>3 DEF WorkerAt, InRun
  <2>5. QED
    BY <2>1, <2>2, <2>3, <2>4
    DEF TypeOK, InRun, Start, TakeLock, SkipWeek, Exit, Unlock, ReadLast,
        CreateRefused, PublishRefused
<1>4. QED  BY <1>1, <1>2, <1>3 DEF WorkerInv

(* What p writes about its own week and type disturbs no other worker, if  *)
(* it leaves settled runs alone.                                           *)
LEMMA OthersFrame ==
    ASSUME TypeOK, LockInv, WorkerInv,
           NEW p \in Workers, NEW q \in Workers, q # p, pc[p] \in Critical,
           pc'[q] = pc[q], cur'[q] = cur[q], week'[q] = week[q],
           job'[q] = job[q], answer'[q] = answer[q],
           \A w \in Weeks, t \in Types : w # week[p] \/ t # job[p] =>
               /\ attempts'[w][t] = attempts[w][t]
               /\ mails'[w][t] = mails[w][t]
               /\ \A a \in 1..MaxAttempts :
                     /\ status'[<<w, t, a>>] = status[<<w, t, a>>]
                     /\ delivery'[<<w, t, a>>] = delivery[<<w, t, a>>],
           \A r \in Runs : status[r] \in Settled =>
               status'[r] = status[r] /\ delivery'[r] = delivery[r]
    PROVE  WorkerAt(q)'
<1>1. pc[q] = "commit" => cur[q] \in Publishable(week[q])'
  <2> SUFFICES ASSUME pc[q] = "commit" PROVE cur[q] \in Publishable(week[q])'
    OBVIOUS
  <2>1. cur[q] \in Publishable(week[q]) /\ week[q] \in Weeks
    BY DEF WorkerInv, WorkerAt, TypeOK
  <2>2. <<week[q], "monday", cur[q]>> \in Runs
    BY <2>1 DEF Publishable, Runs, Types
  <2>3. QED  BY <2>1, <2>2 DEF Publishable, Settled
<1>2. ASSUME pc[q] \in InRun \cup {"create"}
      PROVE  /\ attempts'[week[q]][job[q]] = attempts[week[q]][job[q]]
             /\ mails'[week[q]][job[q]] = mails[week[q]][job[q]]
             /\ \A a \in 1..MaxAttempts :
                   /\ status'[<<week[q], job[q], a>>] = status[<<week[q], job[q], a>>]
                   /\ delivery'[<<week[q], job[q], a>>] = delivery[<<week[q], job[q], a>>]
  <2>1. week[q] \in Weeks /\ job[q] \in Types /\ pc[q] \in Critical
    BY <1>2 DEF LockInv, TypeOK, Critical
  <2>2. week[q] # week[p] \/ job[q] # job[p]
    BY <2>1, Exclusive
  <2>3. QED  BY <2>1, <2>2
<1>3. QED  BY <1>1, <1>2, WorkerFrame DEF WorkerInv

LEMMA CreateStep ==
    ASSUME IInv, NEW p \in Workers, CreateRun(p)
    PROVE  RunInv' /\ MailInv' /\ WorkerInv' /\ PublicInv'
<1> DEFINE w0 == week[p]
           t0 == job[p]
           a0 == cur[p]
<1> USE MaxAttemptsAssumption
<1>1. /\ w0 \in Weeks /\ t0 \in Types /\ a0 \in 1..MaxAttempts
      /\ a0 = attempts[w0][t0] + 1 /\ attempts[w0][t0] \in 0..MaxAttempts
      /\ ~NoRetry(w0, t0)
      /\ pc[p] = "create" /\ pc[p] \in Critical
  <2>1. pc[p] = "create" /\ a0 <= MaxAttempts  BY DEF CreateRun, At
  <2>2. w0 \in Weeks /\ t0 \in Types  BY <2>1 DEF IInv, TypeOK, LockInv
  <2>3. attempts[w0][t0] \in 0..MaxAttempts  BY <2>2 DEF IInv, TypeOK
  <2>4. a0 = attempts[w0][t0] + 1 /\ ~NoRetry(w0, t0)
    BY <2>1 DEF IInv, WorkerInv, WorkerAt
  <2>5. QED  BY <2>1, <2>2, <2>3, <2>4 DEF Critical
<1>2. /\ attempts' = [attempts EXCEPT ![w0][t0] = a0]
      /\ status' = [status EXCEPT ![<<w0, t0, a0>>] = "RUNNING"]
      /\ UNCHANGED <<delivery, published, announced, job, todo, week, cur, answer, held, mails>>
      /\ pc' = [pc EXCEPT ![p] = "calculate"] \/ pc' = [pc EXCEPT ![p] = "unlock"]
  BY DEF CreateRun, RunOf, Goto
<1> HIDE DEF w0, t0, a0
<1>3. \A w \in Weeks, t \in Types : attempts'[w][t] =
          IF w = w0 /\ t = t0 THEN a0 ELSE attempts[w][t]
  BY <1>1, <1>2 DEF IInv, TypeOK
<1>4. \A w \in Weeks, t \in Types, a \in 1..MaxAttempts : status'[<<w, t, a>>] =
          IF w = w0 /\ t = t0 /\ a = a0 THEN "RUNNING" ELSE status[<<w, t, a>>]
  BY <1>1, <1>2 DEF IInv, TypeOK, Runs
<1>5. status[<<w0, t0, a0>>] = "ABSENT"
  BY <1>1 DEF IInv, RunInv, RunAt
<1>6. \A a \in 1..MaxAttempts : ~Closed(<<w0, t0, a>>)
  BY <1>1 DEF IInv, RunInv, RunAt, NoRetry, Closed
<1>7. mails[w0][t0] = << >>
  <2>1. ~(attempts[w0][t0] > 0 /\ Closed(<<w0, t0, attempts[w0][t0]>>))
    BY <1>1, <1>6
  <2>2. QED  BY <1>1, <2>1 DEF IInv, MailInv, MailAt
<1>8. ASSUME NEW w \in Weeks, NEW t \in Types, NEW a \in 1..MaxAttempts
      PROVE  RunAt(w, t, a)'
  <2>1. RunAt(w, t, a) /\ delivery'[<<w, t, a>>] = delivery[<<w, t, a>>]
    BY <1>2 DEF IInv, RunInv
  <2>2. CASE w = w0 /\ t = t0 /\ a = a0
    <3>1. status'[<<w, t, a>>] = "RUNNING" /\ delivery'[<<w, t, a>>] = "ABSENT"
      BY <1>4, <1>5, <2>1, <2>2 DEF RunAt, ColumnsAgree
    <3>2. QED
      BY <1>1, <1>3, <2>2, <3>1 DEF RunAt, ColumnsAgree, Closed, Uncertain, Settled
  <2>3. CASE ~(w = w0 /\ t = t0 /\ a = a0)
    <3>1. status'[<<w, t, a>>] = status[<<w, t, a>>]
      BY <1>4, <2>3
    <3>2. /\ ColumnsAgree(<<w, t, a>>)' <=> ColumnsAgree(<<w, t, a>>)
          /\ Closed(<<w, t, a>>)' <=> Closed(<<w, t, a>>)
      BY <2>1, <3>1 DEF ColumnsAgree, Closed, Uncertain
    <3>3. CASE w = w0 /\ t = t0
      BY <1>1, <1>3, <1>6, <2>1, <2>3, <3>1, <3>2, <3>3 DEF RunAt
    <3>4. CASE ~(w = w0 /\ t = t0)
      BY <1>3, <2>1, <3>1, <3>2, <3>4 DEF RunAt
    <3>5. QED  BY <3>3, <3>4
  <2>4. QED  BY <2>2, <2>3
<1>9. ASSUME NEW w \in Weeks, NEW t \in Types
      PROVE  MailAt(w, t)'
  <2>1. MailAt(w, t) /\ mails'[w][t] = mails[w][t]
    BY <1>2 DEF IInv, MailInv
  <2>2. CASE w = w0 /\ t = t0
    BY <1>4, <1>6, <1>7, <2>1, <2>2 DEF MailAt, Closed, Settled
  <2>3. CASE ~(w = w0 /\ t = t0)
    <3>1. attempts'[w][t] = attempts[w][t] /\ attempts[w][t] \in 0..MaxAttempts
      BY <1>3, <2>3 DEF IInv, TypeOK
    <3>2. \A a \in 1..MaxAttempts :
              /\ status'[<<w, t, a>>] = status[<<w, t, a>>]
              /\ Closed(<<w, t, a>>)' <=> Closed(<<w, t, a>>)
      BY <1>2, <1>4, <2>3 DEF Closed, Uncertain
    <3>3. QED  BY <2>1, <3>1, <3>2 DEF MailAt
  <2>4. QED  BY <2>2, <2>3
<1>10. ASSUME NEW q \in Workers PROVE WorkerAt(q)'
  <2>1. CASE q = p
    <3>1. CASE pc'[p] = "calculate"
      BY <1>1, <1>2, <1>3, <1>4, <2>1, <3>1 DEF WorkerAt, RunOf, InRun, w0, t0, a0
    <3>2. CASE pc'[p] = "unlock"
      BY <2>1, <3>2 DEF WorkerAt, InRun
    <3>3. QED  BY <1>2, <3>1, <3>2 DEF IInv, TypeOK
  <2>2. CASE q # p
    <3>1. \A w \in Weeks, t \in Types : w # week[p] \/ t # job[p] =>
             /\ attempts'[w][t] = attempts[w][t]
             /\ \A a \in 1..MaxAttempts : status'[<<w, t, a>>] = status[<<w, t, a>>]
      BY <1>3, <1>4 DEF w0, t0
    <3>2. \A r \in Runs : status[r] \in Settled => status'[r] = status[r]
      BY <1>2, <1>5 DEF IInv, TypeOK, Settled
    <3>3. /\ pc'[q] = pc[q] /\ cur'[q] = cur[q] /\ week'[q] = week[q]
          /\ job'[q] = job[q] /\ answer'[q] = answer[q]
      BY <1>2, <2>2 DEF IInv, TypeOK
    <3>4. QED
      BY <1>1, <1>2, <2>2, <3>1, <3>2, <3>3, OthersFrame DEF IInv
  <2>3. QED  BY <2>1, <2>2
<1>11. ASSUME NEW w \in Weeks PROVE PublicAt(w)'
  <2>1. PublicAt(w) /\ published' = published /\ announced' = announced
    BY <1>2 DEF IInv, PublicInv
  <2>2. CASE published[w] # 0
    <3>1. /\ published[w] = attempts[w]["monday"] /\ published[w] \in 1..MaxAttempts
          /\ status[<<w, "monday", published[w]>>] = "PUBLISHED"
      BY <2>1, <2>2 DEF PublicAt, IInv, TypeOK
    <3>2. Closed(<<w, "monday", published[w]>>)
      BY <3>1 DEF Closed, Settled
    <3>3. ~(w = w0 /\ "monday" = t0)
      BY <1>6, <3>1, <3>2
    <3>4. "monday" \in Types  BY DEF Types
    <3>5. QED  BY <1>3, <1>4, <2>1, <3>1, <3>3, <3>4 DEF PublicAt
  <2>3. CASE published[w] = 0
    BY <2>1, <2>3 DEF PublicAt
  <2>4. QED  BY <2>2, <2>3
<1>12. QED  BY <1>8, <1>9, <1>10, <1>11 DEF RunInv, MailInv, WorkerInv, PublicInv

(* Where a worker works on its run, the run is the latest of its kind. *)
LEMMA InRunFacts ==
    ASSUME IInv, NEW p \in Workers, pc[p] \in InRun
    PROVE  /\ week[p] \in Weeks /\ job[p] \in Types /\ cur[p] \in 1..MaxAttempts
           /\ cur[p] = attempts[week[p]][job[p]]
           /\ pc[p] \in Critical
           /\ RunOf(p) \in Runs
<1> USE MaxAttemptsAssumption
<1>1. week[p] \in Weeks /\ job[p] \in Types /\ pc[p] \in Critical
  BY DEF IInv, TypeOK, LockInv, Critical
<1>2. cur[p] = attempts[week[p]][job[p]] /\ cur[p] > 0
  BY DEF IInv, WorkerInv, WorkerAt
<1>3. cur[p] \in 1..MaxAttempts
  BY <1>1, <1>2 DEF IInv, TypeOK
<1>4. QED  BY <1>1, <1>2, <1>3 DEF RunOf, Runs

(* A worker writes the status columns of its own open run.  The data       *)
(* invariants and the other workers' places survive if the new columns     *)
(* agree, a settled run is one the press has, and what the press has is    *)
(* closed.                                                                 *)
LEMMA RunWrite ==
    ASSUME IInv, NEW p \in Workers, pc[p] \in InRun,
           NEW w0 \in Weeks, NEW t0 \in Types, NEW a0 \in 1..MaxAttempts,
           week[p] = w0, job[p] = t0, cur[p] = a0,
           status[<<w0, t0, a0>>] \in {"RUNNING", "COMPUTED"},
           \A r \in Runs : r # <<w0, t0, a0>> =>
               status'[r] = status[r] /\ delivery'[r] = delivery[r],
           status'[<<w0, t0, a0>>] # "ABSENT", ColumnsAgree(<<w0, t0, a0>>)',
           UNCHANGED <<attempts, published, announced, mails, job, week, cur, answer>>,
           NEW here, pc' = [pc EXCEPT ![p] = here],
           status'[<<w0, t0, a0>>] \in Settled => mails[w0][t0] = <<a0>>,
           mails[w0][t0] # << >> => Closed(<<w0, t0, a0>>)'
    PROVE  /\ RunInv' /\ MailInv' /\ PublicInv'
           /\ \A q \in Workers : q # p => WorkerAt(q)'
<1> USE MaxAttemptsAssumption
<1>1. a0 = attempts[w0][t0] /\ pc[p] \in Critical
  BY InRunFacts
<1>2. \A w \in Weeks, t \in Types, a \in 1..MaxAttempts :
          w # w0 \/ t # t0 \/ a # a0 =>
              /\ status'[<<w, t, a>>] = status[<<w, t, a>>]
              /\ delivery'[<<w, t, a>>] = delivery[<<w, t, a>>]
  BY DEF Runs
<1>3. status[<<w0, t0, a0>>] \in {"RUNNING", "COMPUTED"}
  OBVIOUS
<1>4. ASSUME NEW w \in Weeks, NEW t \in Types, NEW a \in 1..MaxAttempts,
             w # w0 \/ t # t0 \/ a # a0
      PROVE  /\ ColumnsAgree(<<w, t, a>>)' <=> ColumnsAgree(<<w, t, a>>)
             /\ Closed(<<w, t, a>>)' <=> Closed(<<w, t, a>>)
  BY <1>2, <1>4 DEF ColumnsAgree, Closed, Uncertain
<1>5. ASSUME NEW w \in Weeks, NEW t \in Types, NEW a \in 1..MaxAttempts
      PROVE  RunAt(w, t, a)'
  <2>1. RunAt(w, t, a) /\ attempts'[w][t] = attempts[w][t]
    BY DEF IInv, RunInv
  <2>2. CASE w = w0 /\ t = t0 /\ a = a0
    BY <1>1, <1>3, <2>1, <2>2 DEF RunAt
  <2>3. CASE w # w0 \/ t # t0 \/ a # a0
    BY <1>2, <1>4, <2>1, <2>3 DEF RunAt
  <2>4. QED  BY <2>2, <2>3
<1>6. ASSUME NEW w \in Weeks, NEW t \in Types
      PROVE  MailAt(w, t)'
  <2>1. MailAt(w, t) /\ mails'[w][t] = mails[w][t] /\ attempts'[w][t] = attempts[w][t]
    BY DEF IInv, MailInv
  <2>2. attempts[w][t] \in 0..MaxAttempts
    BY DEF IInv, TypeOK
  <2>3. CASE w = w0 /\ t = t0
    <3>1. \A a \in 1..MaxAttempts : status'[<<w, t, a>>] \in Settled => mails[w][t] = <<a>>
      BY <1>1, <1>2, <2>1, <2>3 DEF MailAt
    <3>2. mails[w][t] # << >> => Closed(<<w0, t0, a0>>)'
      BY <1>1, <2>3
    <3>3. QED  BY <1>1, <2>1, <2>3, <3>1, <3>2 DEF MailAt
  <2>4. CASE ~(w = w0 /\ t = t0)
    BY <1>2, <1>4, <2>1, <2>2, <2>4 DEF MailAt
  <2>5. QED  BY <2>3, <2>4
<1>7. ASSUME NEW w \in Weeks
      PROVE  PublicAt(w)'
  <2>1. PublicAt(w) /\ published[w] \in 0..MaxAttempts /\ "monday" \in Types
    BY DEF IInv, PublicInv, TypeOK, Types
  <2>2. CASE published[w] # 0
    BY <1>2, <1>3, <2>1, <2>2 DEF PublicAt
  <2>3. CASE published[w] = 0
    BY <2>1, <2>3 DEF PublicAt
  <2>4. QED  BY <2>2, <2>3
<1>8. ASSUME NEW q \in Workers, q # p
      PROVE  WorkerAt(q)'
  <2>1. \A w \in Weeks, t \in Types : w # week[p] \/ t # job[p] =>
            /\ attempts'[w][t] = attempts[w][t]
            /\ mails'[w][t] = mails[w][t]
            /\ \A a \in 1..MaxAttempts :
                  /\ status'[<<w, t, a>>] = status[<<w, t, a>>]
                  /\ delivery'[<<w, t, a>>] = delivery[<<w, t, a>>]
    BY <1>2
  <2>2. \A r \in Runs : status[r] \in Settled =>
            status'[r] = status[r] /\ delivery'[r] = delivery[r]
    BY DEF Settled
  <2>3. pc'[q] = pc[q]
    BY <1>8 DEF IInv, TypeOK
  <2>4. QED  BY <1>1, <1>8, <2>1, <2>2, <2>3, OthersFrame DEF IInv
<1>9. QED  BY <1>5, <1>6, <1>7, <1>8 DEF RunInv, MailInv, PublicInv

LEMMA StoreStep ==
    ASSUME IInv, NEW p \in Workers, StoreRanking(p)
    PROVE  RunInv' /\ MailInv' /\ WorkerInv' /\ PublicInv'
<1>1. pc[p] = "calculate" /\ pc[p] \in InRun
  BY DEF StoreRanking, At, InRun
<1>2. PICK w0 \in Weeks, t0 \in Types, a0 \in 1..MaxAttempts :
          week[p] = w0 /\ job[p] = t0 /\ cur[p] = a0
  BY <1>1, InRunFacts
<1>3. RunOf(p) = <<w0, t0, a0>> /\ RunOf(p)' = <<w0, t0, a0>>
  BY <1>2 DEF StoreRanking, RunOf
<1>4. PICK here \in {"deliver", "caught"} : pc' = [pc EXCEPT ![p] = here]
  BY DEF StoreRanking, Goto
<1>5. status[<<w0, t0, a0>>] = "RUNNING" /\ delivery[<<w0, t0, a0>>] = "ABSENT"
  BY <1>1, <1>2, <1>3 DEF IInv, WorkerInv, WorkerAt, RunInv, RunAt, ColumnsAgree
<1>6. /\ status'[<<w0, t0, a0>>] = "COMPUTED" /\ delivery' = delivery
      /\ \A r \in Runs : r # <<w0, t0, a0>> => status'[r] = status[r]
  BY <1>2, <1>3 DEF StoreRanking, IInv, TypeOK, Runs
<1>7. mails[w0][t0] = << >>
  BY <1>1, <1>2, <1>5, InRunFacts DEF IInv, MailInv, MailAt, Closed, Uncertain, Settled
<1>8. RunInv' /\ MailInv' /\ PublicInv' /\ \A q \in Workers : q # p => WorkerAt(q)'
  <2>1. ColumnsAgree(<<w0, t0, a0>>)'
    BY <1>5, <1>6 DEF ColumnsAgree, Settled
  <2>2. status'[<<w0, t0, a0>>] \notin Settled
    BY <1>6 DEF Settled
  <2>3. UNCHANGED <<attempts, published, announced, mails, job, week, cur, answer>>
    BY DEF StoreRanking
  <2>4. QED
    BY <1>1, <1>2, <1>4, <1>5, <1>6, <1>7, <2>1, <2>2, <2>3, RunWrite
<1>9. WorkerAt(p)'
  BY <1>1, <1>2, <1>3, <1>4, <1>5, <1>6, InRunFacts
  DEF StoreRanking, WorkerAt, IInv, TypeOK, InRun
<1>10. QED  BY <1>8, <1>9 DEF WorkerInv

LEMMA OpenStep ==
    ASSUME IInv, NEW p \in Workers, OpenDelivery(p)
    PROVE  RunInv' /\ MailInv' /\ WorkerInv' /\ PublicInv'
<1>1. pc[p] = "deliver" /\ pc[p] \in InRun
  BY DEF OpenDelivery, At, InRun
<1>2. PICK w0 \in Weeks, t0 \in Types, a0 \in 1..MaxAttempts :
          week[p] = w0 /\ job[p] = t0 /\ cur[p] = a0
  BY <1>1, InRunFacts
<1>3. RunOf(p) = <<w0, t0, a0>> /\ RunOf(p)' = <<w0, t0, a0>>
  BY <1>2 DEF OpenDelivery, RunOf
<1>4. PICK here \in {"send", "caught"} : pc' = [pc EXCEPT ![p] = here]
  BY DEF OpenDelivery, Goto
<1>5. status[<<w0, t0, a0>>] = "COMPUTED" /\ delivery[<<w0, t0, a0>>] = "ABSENT"
  BY <1>1, <1>2, <1>3 DEF IInv, WorkerInv, WorkerAt
<1>6. /\ delivery'[<<w0, t0, a0>>] = "PENDING" /\ status' = status
      /\ \A r \in Runs : r # <<w0, t0, a0>> => delivery'[r] = delivery[r]
  BY <1>2, <1>3 DEF OpenDelivery, IInv, TypeOK, Runs
<1>7. mails[w0][t0] = << >>
  BY <1>1, <1>2, <1>5, InRunFacts DEF IInv, MailInv, MailAt, Closed, Uncertain, Settled
<1>8. RunInv' /\ MailInv' /\ PublicInv' /\ \A q \in Workers : q # p => WorkerAt(q)'
  <2>1. ColumnsAgree(<<w0, t0, a0>>)'
    BY <1>5, <1>6 DEF ColumnsAgree, Settled
  <2>2. status'[<<w0, t0, a0>>] \notin Settled
    BY <1>5, <1>6 DEF Settled
  <2>3. UNCHANGED <<attempts, published, announced, mails, job, week, cur, answer>>
    BY DEF OpenDelivery
  <2>4. QED
    BY <1>1, <1>2, <1>4, <1>5, <1>6, <1>7, <2>1, <2>2, <2>3, RunWrite
<1>9. WorkerAt(p)'
  BY <1>1, <1>2, <1>3, <1>4, <1>5, <1>6, <1>7, InRunFacts
  DEF OpenDelivery, WorkerAt, IInv, TypeOK, InRun
<1>10. QED  BY <1>8, <1>9 DEF WorkerInv

LEMMA RecordStep ==
    ASSUME IInv, NEW p \in Workers, RecordAnswer(p)
    PROVE  RunInv' /\ MailInv' /\ WorkerInv' /\ PublicInv'
<1>1. pc[p] = "record" /\ pc[p] \in InRun
  BY DEF RecordAnswer, At, InRun
<1>2. PICK w0 \in Weeks, t0 \in Types, a0 \in 1..MaxAttempts :
          week[p] = w0 /\ job[p] = t0 /\ cur[p] = a0
  BY <1>1, InRunFacts
<1>3. RunOf(p) = <<w0, t0, a0>> /\ RunOf(p)' = <<w0, t0, a0>>
  BY <1>2 DEF RecordAnswer, RunOf
<1>4. PICK here \in {"unlock", "caught"} : pc' = [pc EXCEPT ![p] = here]
  BY DEF RecordAnswer, Goto
<1>5. /\ status[<<w0, t0, a0>>] = "COMPUTED" /\ answer[p] \in Answers
      /\ answer[p] = "SENT" => mails[w0][t0] = <<a0>>
      /\ answer[p] = "FAILED" => mails[w0][t0] = << >>
  BY <1>1, <1>2, <1>3 DEF IInv, WorkerInv, WorkerAt, TypeOK
<1>6. /\ delivery'[<<w0, t0, a0>>] = answer[p]
      /\ status'[<<w0, t0, a0>>] = RunStatusFor(t0, answer[p])
      /\ \A r \in Runs : r # <<w0, t0, a0>> =>
            status'[r] = status[r] /\ delivery'[r] = delivery[r]
  BY <1>2, <1>3 DEF RecordAnswer, IInv, TypeOK, Runs
<1>7. /\ ColumnsAgree(<<w0, t0, a0>>)'
      /\ status'[<<w0, t0, a0>>] # "ABSENT"
      /\ status'[<<w0, t0, a0>>] \in Settled => mails[w0][t0] = <<a0>>
      /\ mails[w0][t0] # << >> => Closed(<<w0, t0, a0>>)'
  <2>1. CASE answer[p] = "SENT"
    BY <1>5, <1>6, <2>1 DEF RunStatusFor, ColumnsAgree, Closed, Settled
  <2>2. CASE answer[p] = "UNKNOWN"
    BY <1>6, <2>2 DEF RunStatusFor, ColumnsAgree, Closed, Uncertain, Settled
  <2>3. CASE answer[p] = "FAILED"
    BY <1>5, <1>6, <2>3 DEF RunStatusFor, ColumnsAgree, Settled
  <2>4. QED  BY <1>5, <2>1, <2>2, <2>3 DEF Answers
<1>8. RunInv' /\ MailInv' /\ PublicInv' /\ \A q \in Workers : q # p => WorkerAt(q)'
  <2>1. UNCHANGED <<attempts, published, announced, mails, job, week, cur, answer>>
    BY DEF RecordAnswer
  <2>2. QED
    BY <1>1, <1>2, <1>4, <1>5, <1>6, <1>7, <2>1, RunWrite
<1>9. WorkerAt(p)'
  BY <1>1, <1>2, <1>4, InRunFacts DEF RecordAnswer, WorkerAt, IInv, TypeOK, InRun
<1>10. QED  BY <1>8, <1>9 DEF WorkerInv

LEMMA HandleStep ==
    ASSUME IInv, NEW p \in Workers, Handle(p)
    PROVE  RunInv' /\ MailInv' /\ WorkerInv' /\ PublicInv'
<1>1. pc[p] = "caught" /\ pc[p] \in InRun
  BY DEF Handle, At, InRun
<1>2. PICK w0 \in Weeks, t0 \in Types, a0 \in 1..MaxAttempts :
          week[p] = w0 /\ job[p] = t0 /\ cur[p] = a0
  BY <1>1, InRunFacts
<1>3. RunOf(p) = <<w0, t0, a0>> /\ <<w0, t0, a0>> \in Runs
  BY <1>2 DEF RunOf, Runs
<1>4. /\ pc' = [pc EXCEPT ![p] = "unlock"]
      /\ UNCHANGED <<attempts, published, announced, mails, job, week, cur, answer>>
  BY DEF Handle, Goto
<1>5. WorkerAt(p)'
  BY <1>4 DEF WorkerAt, InRun, IInv, TypeOK
<1>6. CASE UNCHANGED <<status, delivery>>
  <2>1. ASSUME NEW q \in Workers, q # p PROVE WorkerAt(q)'
    <3>1. /\ pc'[q] = pc[q] /\ cur'[q] = cur[q] /\ week'[q] = week[q]
          /\ job'[q] = job[q] /\ answer'[q] = answer[q]
      BY <1>4, <2>1 DEF Handle, IInv, TypeOK
    <3>2. pc[p] \in Critical  BY <1>1, InRunFacts
    <3>3. UNCHANGED <<attempts, mails, status, delivery>>
      BY <1>6 DEF Handle
    <3>4. QED  BY <2>1, <3>1, <3>2, <3>3, OthersFrame DEF IInv
  <2>2. RunInv' /\ MailInv' /\ PublicInv'
    BY <1>6, DataFrame DEF Handle, IInv, database
  <2>3. QED  BY <1>5, <2>1, <2>2 DEF WorkerInv
<1>7. CASE /\ status[<<w0, t0, a0>>] = "COMPUTED" /\ delivery[<<w0, t0, a0>>] = "PENDING"
           /\ delivery' = [delivery EXCEPT ![<<w0, t0, a0>>] = "UNKNOWN"]
           /\ status' = [status EXCEPT ![<<w0, t0, a0>>] = "DELIVERY_UNKNOWN"]
  <2>1. /\ status'[<<w0, t0, a0>>] = "DELIVERY_UNKNOWN"
        /\ delivery'[<<w0, t0, a0>>] = "UNKNOWN"
        /\ \A r \in Runs : r # <<w0, t0, a0>> =>
              status'[r] = status[r] /\ delivery'[r] = delivery[r]
    BY <1>3, <1>7 DEF IInv, TypeOK
  <2>2. /\ ColumnsAgree(<<w0, t0, a0>>)' /\ Closed(<<w0, t0, a0>>)'
        /\ status'[<<w0, t0, a0>>] \notin Settled
    BY <2>1 DEF ColumnsAgree, Closed, Uncertain, Settled
  <2>3. QED
    <3>1. /\ status'[<<w0, t0, a0>>] # "ABSENT"
          /\ status'[<<w0, t0, a0>>] \in Settled => mails[w0][t0] = <<a0>>
          /\ mails[w0][t0] # << >> => Closed(<<w0, t0, a0>>)'
          /\ status[<<w0, t0, a0>>] \in {"RUNNING", "COMPUTED"}
      BY <1>7, <2>1, <2>2
    <3>2. RunInv' /\ MailInv' /\ PublicInv' /\ \A q \in Workers : q # p => WorkerAt(q)'
      BY <1>1, <1>2, <1>4, <2>1, <2>2, <3>1, RunWrite
    <3>3. QED  BY <1>5, <3>2 DEF WorkerInv
<1>8. CASE /\ status[<<w0, t0, a0>>] \in {"RUNNING", "COMPUTED"}
           /\ delivery[<<w0, t0, a0>>] # "PENDING"
           /\ status' = [status EXCEPT ![<<w0, t0, a0>>] = "FAILED"]
           /\ UNCHANGED delivery
  <2>1. /\ status'[<<w0, t0, a0>>] = "FAILED"
        /\ \A r \in Runs : r # <<w0, t0, a0>> =>
              status'[r] = status[r] /\ delivery'[r] = delivery[r]
    BY <1>3, <1>8 DEF IInv, TypeOK
  <2>2. ColumnsAgree(<<w0, t0, a0>>) /\ a0 = attempts[w0][t0]
    BY <1>1, <1>2, InRunFacts DEF IInv, RunInv, RunAt
  <2>3. /\ ColumnsAgree(<<w0, t0, a0>>)' /\ status'[<<w0, t0, a0>>] \notin Settled
    BY <1>8, <2>1, <2>2 DEF ColumnsAgree, Settled
  <2>4. mails[w0][t0] = << >>
    BY <1>8, <2>2 DEF IInv, MailInv, MailAt, Closed, Uncertain, Settled
  <2>5. /\ status'[<<w0, t0, a0>>] # "ABSENT"
        /\ status'[<<w0, t0, a0>>] \in Settled => mails[w0][t0] = <<a0>>
        /\ mails[w0][t0] # << >> => Closed(<<w0, t0, a0>>)'
        /\ status[<<w0, t0, a0>>] \in {"RUNNING", "COMPUTED"}
    BY <1>8, <2>1, <2>3, <2>4
  <2>6. RunInv' /\ MailInv' /\ PublicInv' /\ \A q \in Workers : q # p => WorkerAt(q)'
    BY <1>1, <1>2, <1>4, <2>1, <2>3, <2>5, RunWrite
  <2>7. QED  BY <1>5, <2>6 DEF WorkerInv
<1>9. QED  BY <1>3, <1>6, <1>7, <1>8 DEF Handle

(* The press takes the e-mail, or does not: the only step that changes     *)
(* what the press has.                                                     *)
LEMMA SendStep ==
    ASSUME IInv, ~ProviderMayMisreport, NEW p \in Workers,
           NEW taken \in BOOLEAN, NEW result \in Answers, Send(p, taken, result)
    PROVE  RunInv' /\ MailInv' /\ WorkerInv' /\ PublicInv'
<1>1. pc[p] = "send" /\ pc[p] \in InRun
  BY DEF Send, At, InRun
<1>2. PICK w0 \in Weeks, t0 \in Types, a0 \in 1..MaxAttempts :
          week[p] = w0 /\ job[p] = t0 /\ cur[p] = a0
  BY <1>1, InRunFacts
<1>3. RunOf(p) = <<w0, t0, a0>> /\ RunOf(p)' = <<w0, t0, a0>>
  BY <1>2 DEF Send, RunOf
<1>4. /\ status[<<w0, t0, a0>>] = "COMPUTED" /\ delivery[<<w0, t0, a0>>] = "PENDING"
      /\ mails[w0][t0] = << >> /\ a0 = attempts[w0][t0]
  BY <1>1, <1>2, <1>3, InRunFacts DEF IInv, WorkerInv, WorkerAt
<1>5. /\ UNCHANGED <<attempts, status, delivery, published, announced, job, week, cur>>
      /\ pc' = [pc EXCEPT ![p] = "record"]
      /\ answer' = [answer EXCEPT ![p] = result]
      /\ result = "SENT" => taken
      /\ result = "FAILED" => ~taken
  BY DEF Send, Goto, database
<1>6. mails'[w0][t0] = IF taken THEN <<a0>> ELSE << >>
  <2>1. Append(<< >>, a0) = <<a0>>
    OBVIOUS
  <2>2. CASE taken
    BY <1>2, <1>4, <2>1, <2>2 DEF Send, IInv, TypeOK
  <2>3. CASE ~taken
    BY <1>4, <2>3 DEF Send
  <2>4. QED  BY <2>2, <2>3
<1>7. \A w \in Weeks, t \in Types : w # w0 \/ t # t0 => mails'[w][t] = mails[w][t]
  <2>1. CASE taken
    BY <1>2, <2>1 DEF Send, IInv, TypeOK
  <2>2. CASE ~taken
    BY <2>2 DEF Send
  <2>3. QED  BY <2>1, <2>2
<1>8. RunInv'
  <2>1. UNCHANGED <<attempts, status, delivery>>
    BY <1>5
  <2>2. ASSUME NEW w \in Weeks, NEW t \in Types, NEW a \in 1..MaxAttempts
        PROVE  RunAt(w, t, a)'
    <3>1. RunAt(w, t, a)
      BY DEF IInv, RunInv
    <3>2. QED
      BY <2>1, <3>1 DEF RunAt, ColumnsAgree, Closed, Uncertain, Settled
  <2>3. QED  BY <2>2 DEF RunInv
<1>9. PublicInv'
  BY <1>5 DEF IInv, PublicInv, PublicAt
<1>10. ASSUME NEW w \in Weeks, NEW t \in Types
       PROVE  MailAt(w, t)'
  <2>1. MailAt(w, t)
    BY DEF IInv, MailInv
  <2>2. \A a \in 0..MaxAttempts : Closed(<<w, t, a>>)' <=> Closed(<<w, t, a>>)
    BY <1>5 DEF Closed, Uncertain, Settled
  <2>3. attempts[w][t] \in 0..MaxAttempts
    BY DEF IInv, TypeOK
  <2>4. CASE w = w0 /\ t = t0
    <3>1. Closed(<<w0, t0, a0>>)
      BY <1>4 DEF Closed, Uncertain
    <3>2. \A a \in 1..MaxAttempts : status[<<w, t, a>>] \notin Settled
      <4>1. \A a \in 1..MaxAttempts : << >> # <<a>>  OBVIOUS
      <4>2. QED  BY <1>4, <2>1, <2>4, <4>1 DEF MailAt
    <3>3. Closed(<<w, t, a0>>)' /\ attempts'[w][t] = a0
      BY <1>4, <1>5, <2>2, <2>4, <3>1
    <3>4. \A a \in 1..MaxAttempts : status'[<<w, t, a>>] \notin Settled
      BY <1>5, <3>2
    <3>5. CASE taken
      BY <1>6, <2>4, <3>3, <3>4, <3>5 DEF MailAt
    <3>6. CASE ~taken
      BY <1>6, <2>4, <3>4, <3>6 DEF MailAt
    <3>7. QED  BY <3>5, <3>6
  <2>5. CASE ~(w = w0 /\ t = t0)
    BY <1>5, <1>7, <2>1, <2>2, <2>3, <2>5 DEF MailAt
  <2>6. QED  BY <2>4, <2>5
<1>11. ASSUME NEW q \in Workers, q # p
       PROVE  WorkerAt(q)'
  <2>1. /\ pc'[q] = pc[q] /\ cur'[q] = cur[q] /\ week'[q] = week[q]
        /\ job'[q] = job[q] /\ answer'[q] = answer[q]
    BY <1>5, <1>11 DEF IInv, TypeOK
  <2>2. pc[p] \in Critical
    BY <1>1, InRunFacts
  <2>3. QED
    BY <1>2, <1>5, <1>7, <1>11, <2>1, <2>2, OthersFrame DEF IInv
<1>12. WorkerAt(p)'
  BY <1>2, <1>3, <1>4, <1>5, <1>6 DEF WorkerAt, IInv, TypeOK, InRun, Answers
<1>13. QED  BY <1>8, <1>9, <1>10, <1>11, <1>12 DEF MailInv, WorkerInv

(* The publication rewrites a run that was settled and stays settled. *)
LEMMA PublishStep ==
    ASSUME IInv, NEW p \in Workers, CommitPublication(p)
    PROVE  /\ RunInv' /\ MailInv' /\ WorkerInv' /\ PublicInv'
           /\ cur[p] = attempts[week[p]]["monday"]
           /\ mails[week[p]]["monday"] = <<cur[p]>>
<1>1. pc[p] = "commit" /\ week[p] \in Weeks /\ cur[p] \in Publishable(week[p])
  BY DEF CommitPublication, At, IInv, TypeOK, WorkerInv, WorkerAt
<1>2. PICK w0 \in Weeks, a0 \in 1..MaxAttempts :
          /\ week[p] = w0 /\ cur[p] = a0
          /\ status[<<w0, "monday", a0>>] \in {"READY_FOR_PUBLICATION", "PUBLISHED"}
  BY <1>1 DEF Publishable
<1>3. /\ status' = [status EXCEPT ![<<w0, "monday", a0>>] = "PUBLISHED"]
      /\ published' = [published EXCEPT ![w0] = a0]
      /\ announced' = announced \cup {w0}
      /\ pc' = [pc EXCEPT ![p] = "unlock"]
      /\ UNCHANGED <<attempts, delivery, job, week, cur, answer, mails>>
  BY <1>2 DEF CommitPublication, Goto
<1>4. "monday" \in Types
  BY DEF Types
<1>5. /\ status'[<<w0, "monday", a0>>] = "PUBLISHED"
      /\ \A r \in Runs : r # <<w0, "monday", a0>> => status'[r] = status[r]
  BY <1>2, <1>3, <1>4 DEF IInv, TypeOK, Runs
<1>6. a0 = attempts[w0]["monday"] /\ mails[w0]["monday"] = <<a0>>
  BY <1>2, <1>4
  DEF IInv, RunInv, RunAt, MailInv, MailAt, Closed, Settled
<1>7. ASSUME NEW w \in Weeks, NEW t \in Types, NEW a \in 1..MaxAttempts
      PROVE  /\ status'[<<w, t, a>>] \in Settled <=> status[<<w, t, a>>] \in Settled
             /\ Closed(<<w, t, a>>)' <=> Closed(<<w, t, a>>)
             /\ status[<<w, t, a>>] \notin Settled => status'[<<w, t, a>>] = status[<<w, t, a>>]
             /\ ColumnsAgree(<<w, t, a>>)' <=> ColumnsAgree(<<w, t, a>>)
             /\ status'[<<w, t, a>>] = "ABSENT" <=> status[<<w, t, a>>] = "ABSENT"
  <2>1. CASE <<w, t, a>> = <<w0, "monday", a0>>
    BY <1>2, <1>3, <1>5, <2>1 DEF Closed, Uncertain, ColumnsAgree, Settled
  <2>2. CASE <<w, t, a>> # <<w0, "monday", a0>>
    BY <1>3, <1>5, <2>2 DEF Closed, Uncertain, ColumnsAgree, Settled, Runs
  <2>3. QED  BY <2>1, <2>2
<1>8. RunInv'
  <2>1. attempts' = attempts
    BY <1>3
  <2>2. ASSUME NEW w \in Weeks, NEW t \in Types, NEW a \in 1..MaxAttempts
        PROVE  RunAt(w, t, a)'
    <3>1. RunAt(w, t, a)
      BY DEF IInv, RunInv
    <3>2. QED  BY <1>7, <2>1, <3>1 DEF RunAt
  <2>3. QED  BY <2>2 DEF RunInv
<1>9. ASSUME NEW w \in Weeks, NEW t \in Types PROVE MailAt(w, t)'
  <2>1. MailAt(w, t) /\ attempts[w][t] \in 0..MaxAttempts
    BY DEF IInv, MailInv, TypeOK
  <2>2. mails' = mails /\ attempts' = attempts
    BY <1>3
  <2>3. QED  BY <1>7, <2>1, <2>2 DEF MailAt
<1>10. ASSUME NEW w \in Weeks PROVE PublicAt(w)'
  <2>1. PublicAt(w) /\ published[w] \in 0..MaxAttempts
    BY DEF IInv, PublicInv, TypeOK
  <2>2. CASE w = w0
    BY <1>2, <1>3, <1>5, <1>6, <2>2 DEF PublicAt, IInv, TypeOK
  <2>3. CASE w # w0
    BY <1>3, <1>4, <1>5, <2>1, <2>3 DEF PublicAt, IInv, TypeOK, Runs
  <2>4. QED  BY <2>2, <2>3
<1>11. ASSUME NEW q \in Workers, q # p PROVE WorkerAt(q)'
  <2>1. /\ WorkerAt(q)
        /\ pc'[q] = pc[q] /\ cur'[q] = cur[q] /\ week'[q] = week[q]
        /\ job'[q] = job[q] /\ answer'[q] = answer[q]
        /\ week[q] \in Weeks /\ RunOf(q)' = RunOf(q)
    BY <1>3, <1>11 DEF IInv, WorkerInv, TypeOK, RunOf
  <2>2. CASE pc[q] = "create"
    <3>1. job[q] \in Types /\ attempts[week[q]][job[q]] \in 0..MaxAttempts
      BY <2>1, <2>2 DEF IInv, LockInv, TypeOK
    <3>2. PICK w1 \in Weeks, t1 \in Types, n1 \in 0..MaxAttempts :
              w1 = week[q] /\ t1 = job[q] /\ n1 = attempts[w1][t1]
      BY <2>1, <3>1
    <3>3. (NoRetry(w1, t1))' <=> NoRetry(w1, t1)
      <4>1. NoRetry(w1, t1) <=> n1 > 0 /\ Closed(<<w1, t1, n1>>)
        BY <3>2 DEF NoRetry, Closed
      <4>2. attempts'[w1][t1] = n1
        BY <1>3, <3>2
      <4>3. (NoRetry(w1, t1))' <=> n1 > 0 /\ Closed(<<w1, t1, n1>>)'
        BY <4>2 DEF NoRetry, Closed, Uncertain, Settled
      <4>4. QED  BY <1>7, <4>1, <4>3
    <3>4. ~(NoRetry(week[q], job[q]))'
      <4>1. ~NoRetry(w1, t1) /\ week'[q] = w1 /\ job'[q] = t1
        BY <2>1, <2>2, <3>2 DEF WorkerAt
      <4>2. QED  BY <3>3, <4>1
    <3>5. QED  BY <1>3, <2>1, <2>2, <3>4 DEF WorkerAt, InRun
  <2>3. CASE pc[q] \in InRun
    <3>1. /\ RunOf(q) = <<week[q], job[q], cur[q]>> /\ job[q] \in Types
          /\ cur[q] \in 1..MaxAttempts
      BY <2>3, InRunFacts DEF RunOf
    <3>2. /\ pc[q] # "caught" => status[RunOf(q)] \notin Settled
      BY <2>1, <2>3 DEF WorkerAt, InRun, Settled
    <3>3. pc[q] # "caught" => status'[RunOf(q)] = status[RunOf(q)]
      BY <1>7, <2>1, <3>1, <3>2
    <3>4. QED  BY <1>3, <2>1, <2>3, <3>3 DEF WorkerAt, InRun
  <2>4. CASE pc[q] = "commit"
    <3>1. cur[q] \in Publishable(week[q]) /\ cur[q] \in 1..MaxAttempts
      BY <2>1, <2>4 DEF WorkerAt, Publishable
    <3>2. status'[<<week[q], "monday", cur[q]>>] \in {"READY_FOR_PUBLICATION", "PUBLISHED"}
      BY <1>4, <1>5, <2>1, <3>1 DEF Publishable, Runs
    <3>3. cur'[q] \in Publishable(week[q])'
      BY <1>3, <2>1, <3>1, <3>2 DEF Publishable
    <3>4. QED  BY <2>1, <2>4, <3>3 DEF WorkerAt, InRun
  <2>5. CASE pc[q] \notin InRun \cup {"create", "commit"}
    BY <2>1, <2>5 DEF WorkerAt, InRun
  <2>6. QED  BY <2>2, <2>3, <2>4, <2>5
<1>12. WorkerAt(p)'
  BY <1>3 DEF WorkerAt, InRun, IInv, TypeOK
<1>13. QED
  BY <1>2, <1>6, <1>8, <1>9, <1>10, <1>11, <1>12 DEF MailInv, WorkerInv, PublicInv

-------------------------------------------------------------------------------
(* No row, no mail, no worker inside a lock: the invariant holds.          *)
LEMMA InitInv == Init => IInv
<1> SUFFICES ASSUME Init PROVE IInv
  OBVIOUS
<1> USE MaxAttemptsAssumption
<1>1. TypeOK
  <2>1. \A w \in Weeks, t \in Types : mails[w][t] = << >>
    BY DEF Init
  <2>2. << >> \in Seq(1..MaxAttempts)
    OBVIOUS
  <2>3. mails \in [Weeks -> [Types -> Seq(1..MaxAttempts)]]
    BY <2>2 DEF Init
  <2>4. QED
    BY <2>3 DEF Init, TypeOK, RunStatus, DeliveryStatus, Answers, Control, Critical,
                InRun, Jobs, Types
<1>2. \A p \in Workers : pc[p] = "idle" /\ ~held[p]
  BY DEF Init
<1>3. LockInv
  BY <1>2 DEF LockInv, Critical, InRun
<1>4. /\ \A w \in Weeks : published[w] = 0 /\ w \notin announced
      /\ \A w \in Weeks, t \in Types : attempts[w][t] = 0 /\ mails[w][t] = << >>
      /\ \A w \in Weeks, t \in Types, a \in 1..MaxAttempts :
            status[<<w, t, a>>] = "ABSENT" /\ delivery[<<w, t, a>>] = "ABSENT"
  BY DEF Init, Runs
<1>5. RunInv
  <2>1. ASSUME NEW w \in Weeks, NEW t \in Types, NEW a \in 1..MaxAttempts
        PROVE  RunAt(w, t, a)
    <3>1. /\ status[<<w, t, a>>] = "ABSENT" /\ delivery[<<w, t, a>>] = "ABSENT"
          /\ attempts[w][t] = 0 /\ a > 0
      BY <1>4
    <3>2. QED  BY <3>1 DEF RunAt, ColumnsAgree, Closed, Uncertain, Settled
  <2>2. QED  BY <2>1 DEF RunInv
<1>6. MailInv
  BY <1>4 DEF MailInv, MailAt, Settled
<1>7. WorkerInv
  BY <1>2 DEF WorkerInv, WorkerAt, InRun
<1>8. PublicInv
  BY <1>4 DEF PublicInv, PublicAt
<1>9. QED  BY <1>1, <1>3, <1>5, <1>6, <1>7, <1>8 DEF IInv

(* Every step preserves the invariant: one lemma above per action that     *)
(* writes, one for all that only move a worker.                            *)
LEMMA Inductive ==
    ASSUME ~LockMayDrop, ~ProviderMayMisreport, IInv, [Next]_vars
    PROVE  IInv'
<1>1. TypeOK'
  <2>1. ASSUME NEW p \in Workers
        PROVE  /\ pc[p] \in InRun \cup {"compute", "create"} => job[p] \in Types
               /\ pc[p] \in InRun => cur[p] > 0 /\ cur[p] <= attempts[week[p]][job[p]]
               /\ pc[p] = "commit" => cur[p] \in Publishable(week[p])
    BY InRunFacts DEF IInv, LockInv, WorkerInv, WorkerAt
  <2>2. Placed  BY <2>1 DEF Placed
  <2>3. QED  BY <2>2, TypeStep DEF IInv
<1>2. LockInv'
  BY LockStep DEF IInv
<1>3. RunInv' /\ MailInv' /\ WorkerInv' /\ PublicInv'
  <2>1. CASE UNCHANGED vars
    <3>1. UNCHANGED <<database, mails, pc, job, week, cur, answer>>
      BY <2>1 DEF vars, worker
    <3>2. ASSUME NEW p \in Workers PROVE WorkerAt(p)'
      BY <3>1 DEF IInv, WorkerInv, WorkerAt, NoRetry, Uncertain, Settled, RunOf,
                  Publishable, database
    <3>3. QED  BY <3>1, <3>2, DataFrame DEF IInv, WorkerInv
  <2>2. CASE Next
    <3>1. PICK p \in Workers :
              \/ \E j \in Schedule, selected \in SUBSET Weeks : Start(p, j, selected)
              \/ Work(p) \/ Crash(p) \/ DropLock(p)
      BY <2>2 DEF Next
    <3>2. ~DropLock(p)
      BY DEF DropLock
    <3>3. CASE \/ \E j \in Schedule, selected \in SUBSET Weeks : Start(p, j, selected)
               \/ Loop(p) \/ Crash(p) \/ ReadLast(p) \/ CreateRefused(p)
               \/ StepFails(p) \/ PublishRefused(p)
               \/ \E a \in 1..MaxAttempts : ChooseRun(p, a)
      <4>1. \/ \E j \in Schedule, S \in SUBSET Weeks : Start(p, j, S)
            \/ \E w \in Weeks : TakeLock(p, w) \/ SkipWeek(p, w)
            \/ \E a \in 1..MaxAttempts : ChooseRun(p, a)
            \/ Exit(p) \/ Unlock(p) \/ ReadLast(p) \/ CreateRefused(p)
            \/ StepFails(p) \/ PublishRefused(p)
        BY <3>3 DEF Loop, Crash, Finish, UnlockFails
      <4>2. WorkerInv' /\ UNCHANGED <<database, mails>>
        BY <4>1, ControlStep DEF IInv
      <4>3. QED  BY <4>2, DataFrame DEF IInv
    <3>4. CASE \E taken \in BOOLEAN, result \in Answers : Send(p, taken, result)
      BY <3>4, SendStep
    <3>5. CASE CreateRun(p)
      BY <3>5, CreateStep
    <3>6. CASE StoreRanking(p)
      BY <3>6, StoreStep
    <3>7. CASE OpenDelivery(p)
      BY <3>7, OpenStep
    <3>8. CASE RecordAnswer(p)
      BY <3>8, RecordStep
    <3>9. CASE Handle(p)
      BY <3>9, HandleStep
    <3>10. CASE CommitPublication(p)
      BY <3>10, PublishStep
    <3>11. QED
      BY <3>1, <3>2, <3>3, <3>4, <3>5, <3>6, <3>7, <3>8, <3>9, <3>10
      DEF Work, Compute, Publish
  <2>3. QED  BY <2>1, <2>2
<1>4. QED  BY <1>1, <1>2, <1>3 DEF IInv

(* The inductive invariant holds in every reachable state, for any number  *)
(* of weeks, workers and attempts and any schedule: locks exclude, the     *)
(* columns of a run agree, only the latest attempt is closed, and the      *)
(* press has at most that one.                                             *)
THEOREM InvariantHolds ==
    ASSUME ~LockMayDrop, ~ProviderMayMisreport
    PROVE  Spec => []IInv
<1>1. IInv /\ [Next]_vars => IInv'
  BY Inductive
<1>2. QED  BY InitInv, <1>1, PTL DEF Spec

(* The press gets at most one e-mail per week and type, whatever crashes,  *)
(* failed statements, silent providers and repeated jobs there are.        *)
THEOREM OneMail ==
    ASSUME ~LockMayDrop, ~ProviderMayMisreport
    PROVE  Spec => []AtMostOneMail
<1>1. ASSUME IInv PROVE AtMostOneMail
  <2>1. ASSUME NEW w \in Weeks, NEW t \in Types PROVE Len(mails[w][t]) <= 1
    <3>1. mails[w][t] = << >> \/ mails[w][t] = <<attempts[w][t]>>
      BY <1>1 DEF IInv, MailInv, MailAt
    <3>2. PICK n \in 0..MaxAttempts : n = attempts[w][t]
      BY <1>1 DEF IInv, TypeOK
    <3>3. Len(<< >>) = 0 /\ Len(<<n>>) = 1
      OBVIOUS
    <3>4. CASE mails[w][t] = << >>
      BY <3>3, <3>4
    <3>5. CASE mails[w][t] = <<n>>
      <4>1. Len(mails[w][t]) = Len(<<n>>)
        BY <3>5
      <4>2. QED  BY <3>3, <4>1
    <3>6. QED  BY <3>1, <3>2, <3>4, <3>5
  <2>2. QED  BY <2>1 DEF AtMostOneMail
<1>2. QED  BY InvariantHolds, <1>1, PTL

(* Which step may touch what: publications and attempts have one writer.   *)
LEMMA Writers ==
    ASSUME [Next]_vars
    PROVE  /\ \/ UNCHANGED <<published, announced>>
              \/ \E p \in Workers : CommitPublication(p)
           /\ UNCHANGED attempts \/ \E p \in Workers : CreateRun(p)
           /\ \/ UNCHANGED mails
              \/ \E p \in Workers, taken \in BOOLEAN, result \in Answers :
                    Send(p, taken, result)
<1> DEFINE Written == /\ \/ UNCHANGED <<published, announced>>
                         \/ \E p \in Workers : CommitPublication(p)
                      /\ UNCHANGED attempts \/ \E p \in Workers : CreateRun(p)
                      /\ \/ UNCHANGED mails
                         \/ \E p \in Workers, taken \in BOOLEAN, result \in Answers :
                               Send(p, taken, result)
<1>1. ASSUME NEW p \in Workers, Loop(p) PROVE Written
  BY <1>1 DEF Loop, SkipWeek, TakeLock, Unlock, UnlockFails, Finish, Exit, Forget, Goto,
              database, worker
<1>2. ASSUME NEW p \in Workers, Compute(p) PROVE Written
  BY <1>2 DEF Compute, ReadLast, CreateRun, CreateRefused, StoreRanking, OpenDelivery, Send,
              RecordAnswer, StepFails, Handle, Goto, database, worker
<1>3. ASSUME NEW p \in Workers, Publish(p) PROVE Written
  BY <1>3 DEF Publish, ChooseRun, PublishRefused, CommitPublication, Goto, database, worker
<1>4. ASSUME NEW p \in Workers,
             \/ \E j \in Schedule, selected \in SUBSET Weeks : Start(p, j, selected)
             \/ Crash(p) \/ DropLock(p)
      PROVE  Written
  BY <1>4 DEF Start, Crash, DropLock, Exit, Forget, Goto, database, worker
<1>5. ASSUME UNCHANGED vars PROVE Written
  BY <1>5 DEF vars, database
<1> HIDE DEF Written
<1>6. Written BY <1>1, <1>2, <1>3, <1>4, <1>5 DEF Next, Work
<1> QED BY <1>6 DEF Written

(* A published week keeps its run: Thursday chooses the same one again. *)
THEOREM PublicationStays ==
    ASSUME ~LockMayDrop, ~ProviderMayMisreport
    PROVE  Spec => PublicationFinal
<1>1. ASSUME IInv, [Next]_vars
      PROVE  \A w \in Weeks : published[w] # 0 => published'[w] = published[w]
  <2>1. ASSUME NEW w \in Weeks, published[w] # 0, NEW p \in Workers, CommitPublication(p)
        PROVE  published'[w] = published[w]
    <3>1. cur[p] = attempts[week[p]]["monday"]
      BY <1>1, <2>1, PublishStep
    <3>2. published[w] = attempts[w]["monday"]
      BY <1>1, <2>1 DEF IInv, PublicInv, PublicAt
    <3>3. QED  BY <1>1, <2>1, <3>1, <3>2 DEF CommitPublication, IInv, TypeOK
  <2>2. QED  BY <1>1, <2>1, Writers
<1>2. QED  BY InvariantHolds, <1>1, PTL DEF Spec, PublicationFinal

(* Once a delivery is uncertain, no attempt of its type follows, and with  *)
(* an uncertain Monday delivery nothing is published.                      *)
THEOREM UncertaintyStops ==
    ASSUME ~LockMayDrop, ~ProviderMayMisreport
    PROVE  Spec => UncertaintyBlocks
<1>1. ASSUME IInv, [Next]_vars, NEW w \in Weeks, NEW t \in Types,
             NEW a \in 1..MaxAttempts, status[<<w, t, a>>] = "DELIVERY_UNKNOWN"
      PROVE  /\ attempts'[w][t] = attempts[w][t]
             /\ t = "monday" => published'[w] = published[w]
  <2>1. a = attempts[w][t]
    BY <1>1 DEF IInv, RunInv, RunAt, Closed, Uncertain
  <2>2. ASSUME NEW p \in Workers, CreateRun(p)
        PROVE  attempts'[w][t] = attempts[w][t]
    <3>1. ~NoRetry(week[p], job[p])
      BY <1>1, <2>2 DEF IInv, WorkerInv, WorkerAt, CreateRun, At
    <3>2. NoRetry(w, t)
      BY <1>1, <2>1 DEF NoRetry, Uncertain
    <3>3. week[p] # w \/ job[p] # t
      BY <3>1, <3>2
    <3>4. QED  BY <1>1, <2>2, <3>3 DEF CreateRun, IInv, TypeOK
  <2>3. ASSUME NEW p \in Workers, CommitPublication(p), t = "monday"
        PROVE  published'[w] = published[w]
    <3>1. /\ cur[p] = attempts[week[p]]["monday"] /\ week[p] \in Weeks
          /\ cur[p] \in Publishable(week[p])
      BY <1>1, <2>3, PublishStep
      DEF IInv, TypeOK, WorkerInv, WorkerAt, CommitPublication, At
    <3>2. week[p] # w
      BY <1>1, <2>1, <2>3, <3>1 DEF Publishable
    <3>3. QED  BY <1>1, <2>3, <3>2 DEF CommitPublication, IInv, TypeOK
  <2>4. QED  BY <1>1, <2>2, <2>3, Writers
<1>2. IInv /\ [Next]_vars =>
        \A w \in Weeks, t \in Types :
            (\E a \in 1..MaxAttempts : status[<<w, t, a>>] = "DELIVERY_UNKNOWN") =>
                /\ attempts'[w][t] = attempts[w][t]
                /\ t = "monday" => published'[w] = published[w]
  BY <1>1
<1>3. QED  BY InvariantHolds, <1>2, PTL DEF Spec, UncertaintyBlocks

(* The orchestrator implements the promise: an accepted e-mail is the one  *)
(* PressReceives of its week and type, a first publication is PublicSees,  *)
(* and every other step leaves what the press and the public see alone.    *)
THEOREM Implements ==
    ASSUME ~LockMayDrop, ~ProviderMayMisreport
    PROVE  Spec => KeepsPromise
<1>1. Init => Promise!PromiseInit
  BY DEF Init, Promise!PromiseInit, Types, Promise!PressTypes
<1>2. ASSUME IInv, [Next]_vars
      PROVE  [Promise!PromiseNext]_(Promise!promiseVars)
  <2>1. CASE UNCHANGED <<published, announced, mails>>
    BY <2>1 DEF Promise!promiseVars
  <2>2. ASSUME NEW p \in Workers, CommitPublication(p)
        PROVE  \/ \E w \in Weeks : Promise!PublicSees(w)
               \/ UNCHANGED <<published, announced, mails>>
    <3>1. PICK w0 \in Weeks, a0 \in 1..MaxAttempts :
              /\ w0 = week[p] /\ a0 = cur[p]
              /\ mails[w0]["monday"] = <<a0>> /\ a0 = attempts[w0]["monday"]
      <4>1. pc[p] = "commit" /\ week[p] \in Weeks
        BY <1>2, <2>2 DEF CommitPublication, At, IInv, TypeOK
      <4>2. cur[p] \in Publishable(week[p])
        BY <1>2, <4>1 DEF IInv, WorkerInv, WorkerAt
      <4>3. cur[p] \in 1..MaxAttempts
        BY <4>2 DEF Publishable
      <4>4. mails[week[p]]["monday"] = <<cur[p]>> /\ cur[p] = attempts[week[p]]["monday"]
        BY <1>2, <2>2, PublishStep
      <4>5. QED  BY <4>1, <4>3, <4>4
    <3>2. /\ published' = [published EXCEPT ![w0] = a0]
          /\ announced' = announced \cup {w0} /\ mails' = mails
      BY <2>2, <3>1 DEF CommitPublication
    <3>3. CASE published[w0] = 0
      <4>1. mails[w0]["monday"][1] = a0 /\ mails[w0]["monday"] # << >>
        BY <3>1
      <4>2. Promise!PublicSees(w0)
        BY <3>2, <3>3, <4>1 DEF Promise!PublicSees
      <4>3. QED  BY <4>2
    <3>4. CASE published[w0] # 0
      <4>1. published[w0] = a0 /\ w0 \in announced
        BY <1>2, <3>1, <3>4 DEF IInv, PublicInv, PublicAt
      <4>2. published' = published /\ announced' = announced
        BY <1>2, <3>2, <4>1 DEF IInv, TypeOK
      <4>3. QED  BY <3>2, <4>2
    <3>5. QED  BY <3>3, <3>4
  <2>3. ASSUME NEW p \in Workers, NEW taken \in BOOLEAN, NEW result \in Answers,
               Send(p, taken, result)
        PROVE  \/ \E w \in Weeks, t \in Types, a \in 1..MaxAttempts :
                      Promise!PressReceives(w, t, a)
               \/ UNCHANGED <<published, announced, mails>>
    <3>1. pc[p] = "send" /\ pc[p] \in InRun
      BY <2>3 DEF Send, At, InRun
    <3>2. PICK w0 \in Weeks, t0 \in Types, a0 \in 1..MaxAttempts :
              w0 = week[p] /\ t0 = job[p] /\ a0 = cur[p]
      BY <1>2, <3>1, InRunFacts
    <3>3. mails[w0][t0] = << >>
      BY <1>2, <3>1, <3>2 DEF IInv, WorkerInv, WorkerAt
    <3>4. UNCHANGED <<published, announced>>
      BY <2>3 DEF Send, database
    <3>5. CASE taken
      <4>1. Append(<< >>, a0) = <<a0>>
        OBVIOUS
      <4>2. mails' = [mails EXCEPT ![w0][t0] = <<a0>>]
        BY <2>3, <3>2, <3>3, <3>5, <4>1 DEF Send
      <4>3. QED  BY <3>3, <3>4, <4>2 DEF Promise!PressReceives
    <3>6. CASE ~taken
      BY <2>3, <3>4, <3>6 DEF Send
    <3>7. QED  BY <3>5, <3>6
  <2>4. \/ UNCHANGED <<published, announced, mails>>
        \/ \E p \in Workers : CommitPublication(p)
        \/ \E p \in Workers, taken \in BOOLEAN, result \in Answers :
              Send(p, taken, result)
    BY <1>2, Writers DEF CommitPublication, Send, database
  <2>5. QED
    BY <2>1, <2>2, <2>3, <2>4
    DEF Promise!PromiseNext, Promise!promiseVars, Types, Promise!PressTypes
<1>3. QED
  BY InvariantHolds, <1>1, <1>2, PTL DEF Spec, KeepsPromise, Promise!PromiseSpec

-------------------------------------------------------------------------------
(* Without the lock, and with a provider that may misreport.               *)

(* The invariant but for the types, which have a lemma of their own.       *)
LooseRest ==
    /\ Placed /\ OwnRun /\ OpenRun
    /\ SettledRun /\ SentInv /\ PublishedInv /\ NoRunMailedTwice

LEMMA LooseFacts ==
    ASSUME LooseInv, NEW p \in Workers
    PROVE  /\ week[p] \in Weeks
           /\ pc[p] \in InRun => job[p] \in Types /\ cur[p] \in 1..MaxAttempts
           /\ \A w \in Weeks, t \in Types :
                 /\ attempts[w][t] \in 0..MaxAttempts
                 /\ mails[w][t] \in Seq(1..MaxAttempts)
                 /\ Received(w, t) \subseteq 1..MaxAttempts
<1> USE MaxAttemptsAssumption
<1>1. week[p] \in Weeks /\ cur[p] \in 0..MaxAttempts + 1
  BY DEF LooseInv, TypeOK
<1>2. \A w \in Weeks, t \in Types :
         attempts[w][t] \in 0..MaxAttempts /\ mails[w][t] \in Seq(1..MaxAttempts)
  BY DEF LooseInv, TypeOK
<1>3. \A w \in Weeks, t \in Types : Received(w, t) \subseteq 1..MaxAttempts
  BY <1>2 DEF Received
<1>4. pc[p] \in InRun =>
         job[p] \in Types /\ cur[p] > 0 /\ cur[p] <= attempts[week[p]][job[p]]
  BY DEF LooseInv, Placed
<1>5. QED  BY <1>1, <1>2, <1>3, <1>4

(* A worker that moves without writing anything: out of its run, into the  *)
(* catch block, or up to the insert or the publication.                    *)
LEMMA LooseMove ==
    ASSUME LooseInv, UNCHANGED <<database, mails>>, NEW p \in Workers,
           \A q \in Workers : q # p =>
               /\ pc'[q] = pc[q] /\ cur'[q] = cur[q] /\ week'[q] = week[q]
               /\ job'[q] = job[q] /\ answer'[q] = answer[q],
           pc'[p] \in InRun \cup {"compute", "create"} => job'[p] \in Types,
           pc'[p] \in InRun => /\ pc'[p] = "caught" /\ pc[p] \in InRun
                               /\ cur'[p] = cur[p] /\ week'[p] = week[p] /\ job'[p] = job[p],
           pc'[p] = "commit" => cur'[p] \in Publishable(week'[p])
    PROVE  LooseRest'
<1> USE DEF LooseInv, database
<1>0. /\ attempts' = attempts /\ status' = status /\ delivery' = delivery
      /\ published' = published /\ mails' = mails
      /\ \A w, t : Received(w, t)' = Received(w, t)
      /\ \A w : Publishable(w)' = Publishable(w)
  BY DEF Received, Publishable
<1>1. SettledRun' /\ SentInv' /\ PublishedInv' /\ NoRunMailedTwice'
  <2>1. ASSUME NEW w \in Weeks, NEW t \in Types, NEW a \in 1..MaxAttempts
        PROVE  /\ a > attempts'[w][t] => status'[<<w, t, a>>] = "ABSENT"
               /\ status'[<<w, t, a>>] \in Settled =>
                     delivery'[<<w, t, a>>] = "SENT" /\ a \in Received(w, t)'
    BY <1>0 DEF SettledRun
  <2>2. SentInv'  BY <1>0 DEF SentInv
  <2>3. PublishedInv'  BY <1>0 DEF PublishedInv
  <2>4. NoRunMailedTwice'  BY <1>0 DEF NoRunMailedTwice
  <2>5. QED  BY <2>1, <2>2, <2>3, <2>4 DEF SettledRun
<1>2. ASSUME NEW q \in Workers
      PROVE  /\ pc'[q] \in InRun \cup {"compute", "create"} => job'[q] \in Types
             /\ pc'[q] \in InRun => cur'[q] > 0 /\ cur'[q] <= attempts'[week'[q]][job'[q]]
             /\ pc'[q] = "commit" => cur'[q] \in Publishable(week[q])'
  <2>1. Publishable(week[q])' = Publishable(week'[q])
    BY DEF Publishable
  <2>2. CASE q = p  BY <2>1, <2>2 DEF Placed
  <2>3. CASE q # p  BY <2>1, <2>3 DEF Placed
  <2>4. QED  BY <2>2, <2>3
<1>3. Placed'  BY <1>2 DEF Placed
<1>4. \A q \in Workers : pc'[q] \in InRun => pc[q] \in InRun /\ RunOf(q)' = RunOf(q)
  BY DEF RunOf
<1>5. OwnRun'  BY <1>4 DEF OwnRun
<1>6. ASSUME NEW q \in Workers, pc'[q] \in {"calculate", "deliver", "send", "record"}
      PROVE  /\ q # p /\ pc'[q] = pc[q] /\ RunOf(q)' = RunOf(q)
             /\ cur'[q] = cur[q] /\ week'[q] = week[q] /\ job'[q] = job[q]
             /\ answer'[q] = answer[q]
  BY <1>6 DEF InRun, RunOf
<1>7. OpenRun'  BY <1>6 DEF OpenRun, Received
<1>8. QED  BY <1>1, <1>3, <1>5, <1>7 DEF LooseRest

(* A worker writes the run it has just created, or the one it works on.    *)
OwnsAndWrites(p, w0, t0, a0, here) ==
    LET r0 == <<w0, t0, a0>> IN
    /\ pc[p] \in InRun \cup {"create"}
    /\ week[p] = w0 /\ job[p] = t0 /\ cur[p] = a0
    /\ status[r0] \notin Settled
    /\ UNCHANGED <<published, mails, job, week, cur, answer>>
    /\ pc[p] = "create" => attempts[w0][t0] = a0 - 1
    /\ \A w \in Weeks, t \in Types :
          attempts'[w][t] = IF pc[p] = "create" /\ w = w0 /\ t = t0
                            THEN a0 ELSE attempts[w][t]
    /\ \A r \in Runs : r # r0 => status'[r] = status[r] /\ delivery'[r] = delivery[r]
    /\ status'[r0] \in Settled => delivery'[r0] = "SENT" /\ a0 \in Received(w0, t0)
    /\ pc' = [pc EXCEPT ![p] = here]
    /\ here = "calculate" => status'[r0] = "RUNNING"
    /\ here \in {"deliver", "send"} => status'[r0] = "COMPUTED"
    /\ here \in {"calculate", "deliver", "send"} => a0 \notin Received(w0, t0)

LEMMA OwnWrite ==
    ASSUME LooseInv, NEW p \in Workers, NEW w0 \in Weeks, NEW t0 \in Types,
           NEW a0 \in 1..MaxAttempts,
           NEW here \in {"calculate", "deliver", "send", "caught", "unlock"},
           OwnsAndWrites(p, w0, t0, a0, here)
    PROVE  LooseRest'
<1> USE DEF OwnsAndWrites
<1> USE MaxAttemptsAssumption
<1> DEFINE r0 == <<w0, t0, a0>>
<1>1. /\ r0 \in Runs /\ RunOf(p) = r0 /\ a0 > 0
      /\ \A w \in Weeks, t \in Types, a \in 1..MaxAttempts : <<w, t, a>> \in Runs
      /\ \A w \in Weeks, t \in Types :
            /\ attempts[w][t] \in 0..MaxAttempts /\ attempts'[w][t] \in 0..MaxAttempts
            /\ attempts[w][t] <= attempts'[w][t]
            /\ Received(w, t)' = Received(w, t) /\ Received(w, t) \subseteq 1..MaxAttempts
  <2>1. RunOf(p) = r0 /\ a0 > 0  BY DEF RunOf
  <2>2. \A w \in Weeks, t \in Types, a \in 1..MaxAttempts : <<w, t, a>> \in Runs  BY DEF Runs
  <2>3. \A w, t : Received(w, t)' = Received(w, t)  BY DEF Received
  <2>4. \A w \in Weeks, t \in Types :
           attempts[w][t] \in 0..MaxAttempts /\ Received(w, t) \subseteq 1..MaxAttempts
    BY LooseFacts
  <2>5. \A w \in Weeks, t \in Types :
           attempts'[w][t] \in 0..MaxAttempts /\ attempts[w][t] <= attempts'[w][t]
    BY <2>4
  <2>6. QED  BY <2>1, <2>2, <2>3, <2>4, <2>5
<1>2. a0 <= attempts'[w0][t0]
  BY LooseFacts DEF LooseInv, Placed
<1>3. \A q \in Workers : pc'[q] = IF q = p THEN here ELSE pc[q]
  BY DEF LooseInv, TypeOK
<1>4. ASSUME NEW q \in Workers, q # p, pc[q] \in InRun
      PROVE  RunOf(q) # r0 /\ RunOf(q) \in Runs /\ RunOf(q)' = RunOf(q)
  <2>1. /\ week[q] \in Weeks /\ job[q] \in Types /\ cur[q] \in 1..MaxAttempts
        /\ cur[q] <= attempts[week[q]][job[q]]
    BY <1>4, LooseFacts DEF LooseInv, Placed
  <2>2. CASE pc[p] \in InRun
    BY <1>1, <1>4, <2>1, <2>2 DEF LooseInv, OwnRun, RunOf
  <2>3. CASE pc[p] = "create"
    <3>1. RunOf(q) = r0 => cur[q] = a0 /\ cur[q] <= a0 - 1
      BY <2>1, <2>3 DEF RunOf
    <3>2. QED  BY <1>1, <2>1, <3>1 DEF RunOf
  <2>4. QED  BY <1>1, <2>1, <2>2, <2>3 DEF RunOf
<1>5. \A w \in Weeks, a \in 1..MaxAttempts :
         status[<<w, "monday", a>>] \in Settled =>
             /\ status'[<<w, "monday", a>>] = status[<<w, "monday", a>>]
             /\ delivery'[<<w, "monday", a>>] = delivery[<<w, "monday", a>>]
  BY <1>1 DEF Types
<1>6. Placed'
  <2>1. ASSUME NEW q \in Workers
        PROVE  /\ pc'[q] \in InRun \cup {"compute", "create"} => job'[q] \in Types
               /\ pc'[q] \in InRun => cur'[q] > 0 /\ cur'[q] <= attempts'[week'[q]][job'[q]]
               /\ pc'[q] = "commit" => cur'[q] \in Publishable(week[q])'
    <3>1. CASE q = p
      BY <1>1, <1>2, <1>3, <3>1 DEF InRun
    <3>2. CASE q # p
      <4>1. pc[q] = "commit" => cur[q] \in Publishable(week[q])'
        <5>1. week[q] \in Weeks  BY LooseFacts
        <5>2. Publishable(week[q]) \subseteq Publishable(week[q])'
          BY <1>5, <5>1 DEF Publishable, Settled
        <5>3. QED  BY <5>2 DEF LooseInv, Placed
      <4>2. pc[q] \in InRun => cur[q] > 0 /\ cur[q] <= attempts'[week[q]][job[q]]
        <5>1. ASSUME pc[q] \in InRun
              PROVE  cur[q] > 0 /\ cur[q] <= attempts'[week[q]][job[q]]
          <6>1. /\ week[q] \in Weeks /\ job[q] \in Types /\ cur[q] \in 1..MaxAttempts
                /\ cur[q] <= attempts[week[q]][job[q]]
            BY <5>1, LooseFacts DEF LooseInv, Placed
          <6>2. QED  BY <1>1, <6>1
        <5>2. QED  BY <5>1
      <4>3. QED  BY <1>3, <3>2, <4>1, <4>2 DEF LooseInv, Placed
    <3>3. QED  BY <3>1, <3>2
  <2>2. QED  BY <2>1 DEF Placed
<1>7. OwnRun'
  <2>1. RunOf(p)' = r0  BY <1>1 DEF RunOf
  <2>2. \A q \in Workers : q # p /\ pc'[q] \in InRun =>
           pc[q] \in InRun /\ RunOf(q)' = RunOf(q) /\ RunOf(q) # r0
    BY <1>3, <1>4
  <2>3. QED  BY <2>1, <2>2 DEF LooseInv, OwnRun
<1>8. OpenRun'
  <2>1. ASSUME NEW q \in Workers
        PROVE  /\ pc'[q] = "calculate" => status'[RunOf(q)'] = "RUNNING"
               /\ pc'[q] \in {"deliver", "send", "record"} => status'[RunOf(q)'] = "COMPUTED"
               /\ pc'[q] \in {"calculate", "deliver", "send"} =>
                     cur'[q] \notin Received(week[q], job[q])'
               /\ pc'[q] = "record" /\ answer'[q] = "SENT" =>
                     cur'[q] \in Received(week[q], job[q])'
    <3>1. CASE q = p
      BY <1>1, <1>3, <3>1 DEF RunOf
    <3>2. CASE q # p
      <4>1. CASE pc[q] \in InRun
        <5>1. /\ status'[RunOf(q)'] = status[RunOf(q)]
              /\ week[q] \in Weeks /\ job[q] \in Types
          BY <1>4, <3>2, <4>1, LooseFacts
        <5>2. Received(week[q], job[q])' = Received(week[q], job[q])
          BY <1>1, <5>1
        <5>3. QED  BY <1>3, <3>2, <5>1, <5>2 DEF LooseInv, OpenRun
      <4>2. CASE pc[q] \notin InRun
        BY <1>3, <3>2, <4>2 DEF InRun
      <4>3. QED  BY <4>1, <4>2
    <3>3. QED  BY <3>1, <3>2
  <2>2. QED  BY <2>1 DEF OpenRun
<1>9. SettledRun'
  <2>1. ASSUME NEW w \in Weeks, NEW t \in Types, NEW a \in 1..MaxAttempts
        PROVE  /\ a > attempts'[w][t] => status'[<<w, t, a>>] = "ABSENT"
               /\ status'[<<w, t, a>>] \in Settled =>
                     delivery'[<<w, t, a>>] = "SENT" /\ a \in Received(w, t)'
    <3>1. CASE w = w0 /\ t = t0 /\ a = a0  BY <1>1, <1>2, <3>1
    <3>2. CASE ~(w = w0 /\ t = t0 /\ a = a0)
      <4>1. /\ status'[<<w, t, a>>] = status[<<w, t, a>>]
            /\ delivery'[<<w, t, a>>] = delivery[<<w, t, a>>]
        BY <1>1, <3>2
      <4>2. a > attempts'[w][t] => a > attempts[w][t]  BY <1>1
      <4>3. QED  BY <1>1, <4>1, <4>2 DEF LooseInv, SettledRun
    <3>3. QED  BY <3>1, <3>2
  <2>2. QED  BY <2>1 DEF SettledRun
<1>10. SentInv'
  <2>1. ASSUME NEW w \in Weeks, NEW t \in Types, NEW a \in Received(w, t)'
        PROVE  a <= attempts'[w][t]
    <3>1. a \in 1..MaxAttempts /\ a <= attempts[w][t]
      BY <1>1 DEF LooseInv, SentInv
    <3>2. QED  BY <1>1, <3>1
  <2>2. QED  BY <2>1 DEF SentInv
<1>11. PublishedInv'
  <2>1. ASSUME NEW w \in Weeks, published[w] # 0
        PROVE  status'[<<w, "monday", published[w]>>] = "PUBLISHED"
    <3>1. published[w] \in 1..MaxAttempts
      BY <2>1 DEF LooseInv, TypeOK
    <3>2. QED  BY <1>5, <2>1, <3>1 DEF LooseInv, PublishedInv, Settled
  <2>2. QED  BY <2>1 DEF PublishedInv
<1>12. NoRunMailedTwice'
  BY DEF LooseInv, NoRunMailedTwice
<1>13. QED  BY <1>6, <1>7, <1>8, <1>9, <1>10, <1>11, <1>12 DEF LooseRest

(* A sequence that is extended by what it does not contain.                *)
LEMMA AppendFresh ==
    ASSUME NEW S, NEW s \in Seq(S), NEW x \in S,
           x \notin {s[i] : i \in 1..Len(s)},
           \A i, k \in 1..Len(s) : s[i] = s[k] => i = k
    PROVE  /\ {Append(s, x)[i] : i \in 1..Len(Append(s, x))}
                  = {s[i] : i \in 1..Len(s)} \cup {x}
           /\ \A i, k \in 1..Len(Append(s, x)) :
                  Append(s, x)[i] = Append(s, x)[k] => i = k
<1> DEFINE u == Append(s, x)
<1>1. /\ Len(s) \in Nat /\ Len(u) = Len(s) + 1 /\ u[Len(s) + 1] = x
      /\ \A i \in 1..Len(s) : u[i] = s[i]
  OBVIOUS
<1> HIDE DEF u
<1>2. \A i \in 1..Len(u) : i \in 1..Len(s) \/ i = Len(s) + 1
  BY <1>1
<1>3. {u[i] : i \in 1..Len(u)} \subseteq {s[i] : i \in 1..Len(s)} \cup {x}
  BY <1>1, <1>2
<1>4. {s[i] : i \in 1..Len(s)} \cup {x} \subseteq {u[i] : i \in 1..Len(u)}
  <2>1. \A i \in 1..Len(s) : i \in 1..Len(u) /\ s[i] = u[i]
    BY <1>1
  <2>2. Len(s) + 1 \in 1..Len(u) /\ u[Len(s) + 1] = x
    BY <1>1
  <2>3. QED  BY <2>1, <2>2
<1>5. ASSUME NEW i \in 1..Len(u), NEW k \in 1..Len(u), u[i] = u[k]
      PROVE  i = k
  <2>1. CASE i \in 1..Len(s) /\ k \in 1..Len(s)  BY <1>1, <1>5, <2>1
  <2>2. CASE i = Len(s) + 1 /\ k \in 1..Len(s)  BY <1>1, <1>5, <2>2
  <2>3. CASE i \in 1..Len(s) /\ k = Len(s) + 1  BY <1>1, <1>5, <2>3
  <2>4. QED  BY <1>2, <1>5, <2>1, <2>2, <2>3
<1>6. QED  BY <1>3, <1>4, <1>5 DEF u

(* The press receives a run: nobody else is at it, and it was not there.   *)
LEMMA LooseSend ==
    ASSUME LooseInv, NEW p \in Workers, NEW taken \in BOOLEAN, NEW result \in Answers,
           Send(p, taken, result)
    PROVE  LooseRest'
<1> USE MaxAttemptsAssumption
<1> DEFINE w0 == week[p]
           t0 == job[p]
           a0 == cur[p]
<1>1. /\ pc[p] = "send" /\ pc[p] \in InRun
      /\ w0 \in Weeks /\ t0 \in Types /\ a0 \in 1..MaxAttempts
      /\ UNCHANGED <<attempts, status, delivery, published, job, week, cur>>
      /\ pc' = [pc EXCEPT ![p] = "record"]
      /\ answer' = [answer EXCEPT ![p] = result]
      /\ result = "SENT" => taken
  BY LooseFacts DEF Send, At, Goto, InRun, database
<1>2. a0 \notin Received(w0, t0) /\ a0 <= attempts[w0][t0]
  BY <1>1 DEF LooseInv, OpenRun, Placed
<1>3. \A w \in Weeks, t \in Types :
         mails'[w][t] = IF taken /\ w = w0 /\ t = t0
                        THEN Append(mails[w][t], a0) ELSE mails[w][t]
  BY <1>1 DEF Send, LooseInv, TypeOK
<1>4. ASSUME NEW w \in Weeks, NEW t \in Types
      PROVE  /\ Received(w, t)' = Received(w, t)
                    \cup (IF taken /\ w = w0 /\ t = t0 THEN {a0} ELSE {})
             /\ \A i, k \in 1..Len(mails'[w][t]) : mails'[w][t][i] = mails'[w][t][k] => i = k
  <2>1. /\ mails[w][t] \in Seq(1..MaxAttempts)
        /\ \A i, k \in 1..Len(mails[w][t]) : mails[w][t][i] = mails[w][t][k] => i = k
    BY LooseFacts DEF LooseInv, NoRunMailedTwice
  <2>2. CASE taken /\ w = w0 /\ t = t0
    <3>1. mails'[w][t] = Append(mails[w][t], a0)
      BY <1>3, <2>2
    <3>2. a0 \notin {mails[w][t][i] : i \in 1..Len(mails[w][t])}
      BY <1>2, <2>2 DEF Received
    <3> DEFINE s == mails[w][t]
               u == Append(s, a0)
    <3>3. s \in Seq(1..MaxAttempts) /\ a0 \in 1..MaxAttempts
          /\ \A i, k \in 1..Len(s) : s[i] = s[k] => i = k
      BY <1>1, <2>1
    <3> HIDE DEF a0, s
    <3>4. /\ {u[i] : i \in 1..Len(u)} = {s[i] : i \in 1..Len(s)} \cup {a0}
          /\ \A i, k \in 1..Len(u) : u[i] = u[k] => i = k
      BY <3>2, <3>3, AppendFresh DEF s
    <3>5. mails'[w][t] = u  BY <3>1 DEF s
    <3> HIDE DEF u
    <3>6. /\ Received(w, t)' = {u[i] : i \in 1..Len(u)}
          /\ Received(w, t) = {s[i] : i \in 1..Len(s)}
      BY <3>5 DEF Received, s
    <3>7. Received(w, t)' = Received(w, t)
                 \cup (IF taken /\ w = w0 /\ t = t0 THEN {a0} ELSE {})
      BY <2>2, <3>4, <3>6
    <3>8. QED  BY <3>4, <3>5, <3>7
  <2>3. CASE ~(taken /\ w = w0 /\ t = t0)
    <3>1. mails'[w][t] = mails[w][t]  BY <1>3, <2>3
    <3>2. \A i, k \in 1..Len(mails'[w][t]) : mails'[w][t][i] = mails'[w][t][k] => i = k
      BY <2>1, <3>1
    <3>3. Received(w, t)' = Received(w, t)  BY <3>1 DEF Received
    <3>4. QED  BY <2>3, <3>2, <3>3
  <2>4. QED  BY <2>2, <2>3
<1>5. \A q \in Workers : /\ pc'[q] = IF q = p THEN "record" ELSE pc[q]
                         /\ answer'[q] = IF q = p THEN result ELSE answer[q]
  BY <1>1 DEF LooseInv, TypeOK
<1>6. Placed'
  <2>1. ASSUME NEW q \in Workers
        PROVE  /\ pc'[q] \in InRun \cup {"compute", "create"} => job'[q] \in Types
               /\ pc'[q] \in InRun => cur'[q] > 0 /\ cur'[q] <= attempts'[week'[q]][job'[q]]
               /\ pc'[q] = "commit" => cur'[q] \in Publishable(week[q])'
    <3>1. Publishable(week[q])' = Publishable(week[q])
      BY <1>1 DEF Publishable
    <3>2. pc'[q] \in InRun => pc[q] \in InRun
      BY <1>1, <1>5
    <3>3. QED  BY <1>1, <1>5, <3>1, <3>2 DEF LooseInv, Placed
  <2>2. QED  BY <2>1 DEF Placed
<1>7. OwnRun'
  <2>1. \A q \in Workers : pc'[q] \in InRun => pc[q] \in InRun /\ RunOf(q)' = RunOf(q)
    BY <1>1, <1>5 DEF RunOf
  <2>2. QED  BY <2>1 DEF LooseInv, OwnRun
<1>8. OpenRun'
  <2>1. ASSUME NEW q \in Workers
        PROVE  /\ pc'[q] = "calculate" => status'[RunOf(q)'] = "RUNNING"
               /\ pc'[q] \in {"deliver", "send", "record"} => status'[RunOf(q)'] = "COMPUTED"
               /\ pc'[q] \in {"calculate", "deliver", "send"} =>
                     cur'[q] \notin Received(week[q], job[q])'
               /\ pc'[q] = "record" /\ answer'[q] = "SENT" =>
                     cur'[q] \in Received(week[q], job[q])'
    <3>0. /\ RunOf(q)' = RunOf(q) /\ status' = status /\ cur' = cur
          /\ week[q]' = week[q] /\ job[q]' = job[q]
      BY <1>1 DEF RunOf
    <3>1. CASE q = p
      <4>1. Received(week[q], job[q])' = Received(w0, t0) \cup (IF taken THEN {a0} ELSE {})
        BY <1>1, <1>4, <3>0, <3>1
      <4>2. QED  BY <1>1, <1>5, <3>0, <3>1, <4>1 DEF LooseInv, OpenRun
    <3>2. CASE q # p
      <4>1. CASE pc[q] \in InRun
        <5>1. week[q] \in Weeks /\ job[q] \in Types
          BY <4>1, LooseFacts
        <5>2. RunOf(q) # RunOf(p)
          BY <1>1, <3>2, <4>1 DEF LooseInv, OwnRun
        <5>3. cur[q] \in Received(week[q], job[q])' <=> cur[q] \in Received(week[q], job[q])
          BY <1>1, <1>4, <3>0, <5>1, <5>2 DEF RunOf
        <5>4. QED  BY <1>1, <1>5, <3>0, <3>2, <5>3 DEF LooseInv, OpenRun
      <4>2. CASE pc[q] \notin InRun
        BY <1>5, <3>2, <4>2 DEF InRun
      <4>3. QED  BY <4>1, <4>2
    <3>3. QED  BY <3>1, <3>2
  <2>2. QED  BY <2>1 DEF OpenRun
<1>9. SettledRun'
  <2>1. ASSUME NEW w \in Weeks, NEW t \in Types, NEW a \in 1..MaxAttempts
        PROVE  /\ a > attempts'[w][t] => status'[<<w, t, a>>] = "ABSENT"
               /\ status'[<<w, t, a>>] \in Settled =>
                     delivery'[<<w, t, a>>] = "SENT" /\ a \in Received(w, t)'
    BY <1>1, <1>4 DEF LooseInv, SettledRun
  <2>2. QED  BY <2>1 DEF SettledRun
<1>10. SentInv'
  <2>1. ASSUME NEW w \in Weeks, NEW t \in Types, NEW a \in Received(w, t)'
        PROVE  a <= attempts'[w][t]
    BY <1>1, <1>2, <1>4 DEF LooseInv, SentInv
  <2>2. QED  BY <2>1 DEF SentInv
<1>11. PublishedInv'
  BY <1>1 DEF LooseInv, PublishedInv
<1>12. NoRunMailedTwice'
  BY <1>4 DEF NoRunMailedTwice
<1>13. QED  BY <1>6, <1>7, <1>8, <1>9, <1>10, <1>11, <1>12 DEF LooseRest

(* The public run was publishable, so nobody is at it any more.            *)
LEMMA LooseCommit ==
    ASSUME LooseInv, NEW p \in Workers, CommitPublication(p)
    PROVE  LooseRest'
<1> USE MaxAttemptsAssumption
<1> DEFINE w0 == week[p]
           a0 == cur[p]
           r0 == <<w0, "monday", a0>>
<1>1. /\ UNCHANGED <<attempts, delivery, job, week, cur, answer, mails>>
      /\ pc[p] = "commit" /\ w0 \in Weeks
      /\ status' = [status EXCEPT ![r0] = "PUBLISHED"]
      /\ published' = [published EXCEPT ![w0] = a0]
      /\ pc' = [pc EXCEPT ![p] = "unlock"]
  BY LooseFacts DEF CommitPublication, At, Goto
<1>2. /\ a0 \in 1..MaxAttempts
      /\ status[r0] \in {"READY_FOR_PUBLICATION", "PUBLISHED"} /\ status[r0] \in Settled
  BY <1>1 DEF LooseInv, Placed, Publishable, Settled
<1>3. \A w \in Weeks, t \in Types, a \in 1..MaxAttempts :
         /\ <<w, t, a>> \in Runs
         /\ status'[<<w, t, a>>] =
               IF <<w, t, a>> = r0 THEN "PUBLISHED" ELSE status[<<w, t, a>>]
  BY <1>1 DEF LooseInv, TypeOK, Runs
<1>4. \A q \in Workers : pc'[q] = IF q = p THEN "unlock" ELSE pc[q]
  BY <1>1 DEF LooseInv, TypeOK
<1>5. \A w \in Weeks, t \in Types, a \in 1..MaxAttempts :
         status'[<<w, t, a>>] \in Settled <=> status[<<w, t, a>>] \in Settled
  <2>1. "PUBLISHED" \in Settled  BY DEF Settled
  <2>2. status[r0] \in Settled  BY <1>2
  <2> HIDE DEF r0
  <2>3. ASSUME NEW w \in Weeks, NEW t \in Types, NEW a \in 1..MaxAttempts
        PROVE  status'[<<w, t, a>>] \in Settled <=> status[<<w, t, a>>] \in Settled
    <3>1. CASE <<w, t, a>> = r0
      <4>1. status'[<<w, t, a>>] = "PUBLISHED"  BY <1>3, <3>1
      <4>2. QED  BY <2>1, <2>2, <3>1, <4>1
    <3>2. CASE <<w, t, a>> # r0
      <4>1. status'[<<w, t, a>>] = status[<<w, t, a>>]  BY <1>3, <3>2
      <4>2. QED  BY <4>1
    <3>3. QED  BY <3>1, <3>2
  <2>4. QED  BY <2>3
<1>6. \A w, t : Received(w, t)' = Received(w, t)
  BY <1>1 DEF Received
<1>7. \A q \in Workers : pc'[q] \in InRun =>
         q # p /\ pc[q] = pc'[q] /\ pc[q] \in InRun /\ RunOf(q)' = RunOf(q)
  BY <1>1, <1>4 DEF InRun, RunOf
<1>8. Placed'
  <2>1. ASSUME NEW q \in Workers
        PROVE  /\ pc'[q] \in InRun \cup {"compute", "create"} => job'[q] \in Types
               /\ pc'[q] \in InRun => cur'[q] > 0 /\ cur'[q] <= attempts'[week'[q]][job'[q]]
               /\ pc'[q] = "commit" => cur'[q] \in Publishable(week[q])'
    <3>1. week[q] \in Weeks  BY LooseFacts
    <3>2. Publishable(week[q]) \subseteq Publishable(week[q])'
      BY <1>1, <1>3, <3>1 DEF Publishable, Types
    <3>3. pc'[q] \in InRun \cup {"compute", "create", "commit"} => pc[q] = pc'[q]
      BY <1>4 DEF InRun
    <3>4. QED  BY <1>1, <3>2, <3>3 DEF LooseInv, Placed
  <2>2. QED  BY <2>1 DEF Placed
<1>9. OwnRun'
  BY <1>7 DEF LooseInv, OwnRun
<1>10. OpenRun'
  <2>1. ASSUME NEW q \in Workers, pc'[q] \in {"calculate", "deliver", "send", "record"}
        PROVE  status'[RunOf(q)'] = status[RunOf(q)] /\ RunOf(q)' = RunOf(q) /\ pc'[q] = pc[q]
    <3>1. pc[q] = pc'[q] /\ pc[q] \in InRun /\ RunOf(q)' = RunOf(q)
      BY <1>7, <2>1 DEF InRun
    <3>2. week[q] \in Weeks /\ job[q] \in Types /\ cur[q] \in 1..MaxAttempts
      BY <3>1, LooseFacts
    <3>3. status[RunOf(q)] \in {"RUNNING", "COMPUTED"}
      BY <2>1, <3>1 DEF LooseInv, OpenRun
    <3>4. RunOf(q) # r0
      BY <1>2, <3>3
    <3>5. QED  BY <1>3, <3>1, <3>2, <3>4 DEF RunOf
  <2>2. ASSUME NEW q \in Workers
        PROVE  /\ pc'[q] = "calculate" => status'[RunOf(q)'] = "RUNNING"
               /\ pc'[q] \in {"deliver", "send", "record"} => status'[RunOf(q)'] = "COMPUTED"
               /\ pc'[q] \in {"calculate", "deliver", "send"} =>
                     cur'[q] \notin Received(week[q], job[q])'
               /\ pc'[q] = "record" /\ answer'[q] = "SENT" =>
                     cur'[q] \in Received(week[q], job[q])'
    BY <1>1, <1>6, <2>1 DEF LooseInv, OpenRun
  <2>3. QED  BY <2>2 DEF OpenRun
<1>11. SettledRun'
  <2>1. ASSUME NEW w \in Weeks, NEW t \in Types, NEW a \in 1..MaxAttempts
        PROVE  /\ a > attempts'[w][t] => status'[<<w, t, a>>] = "ABSENT"
               /\ status'[<<w, t, a>>] \in Settled =>
                     delivery'[<<w, t, a>>] = "SENT" /\ a \in Received(w, t)'
    <3>1. a > attempts[w][t] => <<w, t, a>> # r0
      BY <1>2 DEF LooseInv, SettledRun
    <3>2. QED  BY <1>1, <1>3, <1>5, <1>6, <3>1 DEF LooseInv, SettledRun
  <2>2. QED  BY <2>1 DEF SettledRun
<1>12. SentInv'
  BY <1>1, <1>6 DEF LooseInv, SentInv
<1>13. PublishedInv'
  <2>1. ASSUME NEW w \in Weeks, published'[w] # 0
        PROVE  status'[<<w, "monday", published'[w]>>] = "PUBLISHED"
    <3>1. published'[w] = IF w = w0 THEN a0 ELSE published[w]
      BY <1>1 DEF LooseInv, TypeOK
    <3>2. CASE w = w0
      BY <1>2, <1>3, <3>1, <3>2 DEF Types
    <3>3. CASE w # w0
      <4>1. published[w] \in 1..MaxAttempts /\ published'[w] = published[w]
        BY <2>1, <3>1, <3>3 DEF LooseInv, TypeOK
      <4>2. QED  BY <1>3, <2>1, <3>3, <4>1 DEF LooseInv, PublishedInv, Types
    <3>4. QED  BY <3>2, <3>3
  <2>2. QED  BY <2>1 DEF PublishedInv
<1>14. NoRunMailedTwice'
  BY <1>1 DEF LooseInv, NoRunMailedTwice
<1>15. QED  BY <1>8, <1>9, <1>10, <1>11, <1>12, <1>13, <1>14 DEF LooseRest

(* The insert: its key was free, so nobody is at the run and the press     *)
(* cannot have it.                                                         *)
LEMMA LooseCreate ==
    ASSUME LooseInv, NEW p \in Workers, CreateRun(p)
    PROVE  LooseRest'
<1> USE MaxAttemptsAssumption
<1>1. /\ pc[p] = "create" /\ cur[p] <= MaxAttempts
      /\ attempts[week[p]][job[p]] = cur[p] - 1
      /\ attempts' = [attempts EXCEPT ![week[p]][job[p]] = cur[p]]
      /\ status' = [status EXCEPT ![RunOf(p)] = "RUNNING"]
      /\ UNCHANGED <<delivery, published, job, week, cur, answer, mails>>
  BY DEF CreateRun, At, AttemptFree
<1>2. job[p] \in Types /\ week[p] \in Weeks /\ cur[p] \in Nat
  BY <1>1, LooseFacts DEF LooseInv, Placed, TypeOK
<1>3. cur[p] \in 1..MaxAttempts
  BY <1>1, <1>2, LooseFacts
<1>4. PICK w0 \in Weeks, t0 \in Types, a0 \in 1..MaxAttempts :
          w0 = week[p] /\ t0 = job[p] /\ a0 = cur[p]
  BY <1>2, <1>3
<1>5. /\ RunOf(p) = <<w0, t0, a0>> /\ <<w0, t0, a0>> \in Runs
      /\ attempts[w0][t0] = a0 - 1
  BY <1>1, <1>4 DEF RunOf, Runs
<1>6. status[<<w0, t0, a0>>] = "ABSENT" /\ a0 \notin Received(w0, t0)
  BY <1>5 DEF LooseInv, SettledRun, SentInv
<1>7. \A w \in Weeks, t \in Types :
         attempts'[w][t] = IF w = w0 /\ t = t0 THEN a0 ELSE attempts[w][t]
  BY <1>1, <1>4 DEF LooseInv, TypeOK
<1>8. /\ status'[<<w0, t0, a0>>] = "RUNNING"
      /\ \A r \in Runs : r # <<w0, t0, a0>> => status'[r] = status[r]
  BY <1>1, <1>5 DEF LooseInv, TypeOK
<1>9. PICK here \in {"calculate", "unlock"} : pc' = [pc EXCEPT ![p] = here]
  BY DEF CreateRun, Goto
<1>10. QED
  <2>1. UNCHANGED <<published, mails, job, week, cur, answer>>
    BY <1>1
  <2>2. /\ pc[p] = "create" /\ pc[p] \in InRun \cup {"create"}
        /\ here \in {"calculate", "deliver", "send", "caught", "unlock"}
        /\ status[<<w0, t0, a0>>] \notin Settled
        /\ status'[<<w0, t0, a0>>] \notin Settled
    BY <1>1, <1>6, <1>8 DEF Settled
  <2>3. \A w \in Weeks, t \in Types :
            attempts'[w][t] = IF pc[p] = "create" /\ w = w0 /\ t = t0
                              THEN a0 ELSE attempts[w][t]
    BY <1>7, <2>2
  <2>4. \A r \in Runs : r # <<w0, t0, a0>> =>
            status'[r] = status[r] /\ delivery'[r] = delivery[r]
    BY <1>1, <1>8
  <2>5. QED
    <3>1. OwnsAndWrites(p, w0, t0, a0, here)
      BY <1>4, <1>5, <1>6, <1>8, <1>9, <2>1, <2>2, <2>3, <2>4 DEF OwnsAndWrites
    <3>2. QED  BY <2>2, <3>1, OwnWrite

(* The statements of a worker about its own open run.                      *)
LEMMA LooseRecord ==
    ASSUME LooseInv, NEW p \in Workers,
           StoreRanking(p) \/ OpenDelivery(p) \/ RecordAnswer(p)
    PROVE  LooseRest'
<1>1. /\ pc[p] \in {"calculate", "deliver", "record"} /\ pc[p] \in InRun
      /\ UNCHANGED <<attempts, published, job, week, cur, answer, mails>>
  BY DEF StoreRanking, OpenDelivery, RecordAnswer, At, InRun
<1>2. PICK w0 \in Weeks, t0 \in Types, a0 \in 1..MaxAttempts :
          w0 = week[p] /\ t0 = job[p] /\ a0 = cur[p]
  BY <1>1, LooseFacts
<1> DEFINE r0 == <<w0, t0, a0>>
<1>3. RunOf(p) = r0 /\ r0 \in Runs
  BY <1>2 DEF RunOf, Runs
<1>4. /\ status[r0] \notin Settled
      /\ pc[p] \in {"calculate", "deliver"} => a0 \notin Received(w0, t0)
      /\ pc[p] = "record" /\ answer[p] = "SENT" => a0 \in Received(w0, t0)
      /\ pc[p] = "deliver" => status[r0] = "COMPUTED"
  BY <1>1, <1>2, <1>3 DEF LooseInv, OpenRun, Settled
<1>5. /\ \A r \in Runs : r # r0 => status'[r] = status[r] /\ delivery'[r] = delivery[r]
      /\ pc[p] = "calculate" => status'[r0] = "COMPUTED"
      /\ pc[p] = "deliver" => status'[r0] = "COMPUTED"
      /\ pc[p] = "record" => status'[r0] = RunStatusFor(t0, answer[p])
                             /\ delivery'[r0] = answer[p]
  BY <1>2, <1>3, <1>4
  DEF StoreRanking, OpenDelivery, RecordAnswer, At, LooseInv, TypeOK
<1>6. /\ status'[r0] \in Settled => delivery'[r0] = "SENT" /\ a0 \in Received(w0, t0)
  <2>1. pc[p] \in {"calculate", "deliver"} => status'[r0] \notin Settled
    BY <1>5 DEF Settled
  <2>2. RunStatusFor(t0, answer[p]) \in Settled => answer[p] = "SENT"
    BY DEF RunStatusFor, Settled
  <2>3. QED  BY <1>1, <1>4, <1>5, <2>1, <2>2
<1>7. PICK here \in {"deliver", "send", "caught", "unlock"} :
          /\ pc' = [pc EXCEPT ![p] = here]
          /\ here = "deliver" => pc[p] = "calculate"
          /\ here = "send" => pc[p] = "deliver"
  BY DEF StoreRanking, OpenDelivery, RecordAnswer, Goto, At
<1>8. QED
  <2>1. here \in {"deliver", "send"} =>
            status'[r0] = "COMPUTED" /\ a0 \notin Received(w0, t0)
    BY <1>4, <1>5, <1>7
  <2>2. /\ pc[p] # "create" /\ pc[p] \in InRun \cup {"create"}
        /\ here \in {"calculate", "deliver", "send", "caught", "unlock"}
        /\ here # "calculate"
        /\ UNCHANGED <<published, mails, job, week, cur, answer>>
    BY <1>1, <1>7
  <2>3. \A w \in Weeks, t \in Types :
            attempts'[w][t] = IF pc[p] = "create" /\ w = w0 /\ t = t0
                              THEN a0 ELSE attempts[w][t]
    BY <1>1, <2>2
  <2>4. QED
    <3>1. OwnsAndWrites(p, w0, t0, a0, here)
      BY <1>2, <1>4, <1>5, <1>6, <1>7, <2>1, <2>2, <2>3 DEF OwnsAndWrites
    <3>2. QED  BY <2>2, <3>1, OwnWrite

(* The catch block closes its run, or leaves it as it is.                  *)
LEMMA LooseHandle ==
    ASSUME LooseInv, NEW p \in Workers, Handle(p)
    PROVE  LooseRest'
<1>1. /\ pc[p] = "caught" /\ pc[p] \in InRun
      /\ UNCHANGED <<attempts, published, announced, job, week, cur, answer, mails>>
      /\ pc' = [pc EXCEPT ![p] = "unlock"]
  BY DEF Handle, At, InRun, Goto
<1>2. PICK w0 \in Weeks, t0 \in Types, a0 \in 1..MaxAttempts :
          w0 = week[p] /\ t0 = job[p] /\ a0 = cur[p]
  BY <1>1, LooseFacts
<1> DEFINE r0 == <<w0, t0, a0>>
<1>3. RunOf(p) = r0 /\ r0 \in Runs
  BY <1>2 DEF RunOf, Runs
<1>4. CASE UNCHANGED <<status, delivery>>
  <2>1. \A q \in Workers : q # p => pc'[q] = pc[q]
    BY <1>1 DEF LooseInv, TypeOK
  <2>2. pc'[p] = "unlock"
    BY <1>1 DEF LooseInv, TypeOK
  <2>3. QED  BY <1>1, <1>4, <2>1, <2>2, LooseMove DEF database, InRun
<1>5. CASE ~UNCHANGED <<status, delivery>>
  <2>1. /\ status[r0] \in {"RUNNING", "COMPUTED"}
        /\ \A r \in Runs : r # r0 => status'[r] = status[r] /\ delivery'[r] = delivery[r]
        /\ status'[r0] \in {"FAILED", "DELIVERY_UNKNOWN"}
    BY <1>3, <1>5 DEF Handle, LooseInv, TypeOK
  <2>2. status[r0] \notin Settled /\ status'[r0] \notin Settled
    BY <2>1 DEF Settled
  <2>3. /\ pc[p] # "create" /\ pc[p] \in InRun \cup {"create"}
        /\ "unlock" \in {"calculate", "deliver", "send", "caught", "unlock"}
        /\ UNCHANGED <<published, mails, job, week, cur, answer>>
    BY <1>1
  <2>4. \A w \in Weeks, t \in Types :
            attempts'[w][t] = IF pc[p] = "create" /\ w = w0 /\ t = t0
                              THEN a0 ELSE attempts[w][t]
    BY <1>1, <2>3
  <2>5. QED
    <3>1. OwnsAndWrites(p, w0, t0, a0, "unlock")
      BY <1>1, <1>2, <2>1, <2>2, <2>3, <2>4 DEF OwnsAndWrites
    <3>2. QED  BY <2>3, <3>1, OwnWrite
<1>6. QED  BY <1>4, <1>5

(* Only a lock, or a worker's list of weeks, changes.                      *)
LEMMA LooseStays ==
    ASSUME LooseInv,
           UNCHANGED <<attempts, status, delivery, published, mails>>,
           UNCHANGED <<pc, job, week, cur, answer>>
    PROVE  LooseRest'
<1>1. /\ attempts' = attempts /\ status' = status /\ delivery' = delivery
      /\ published' = published /\ mails' = mails /\ pc' = pc /\ job' = job
      /\ week' = week /\ cur' = cur /\ answer' = answer
  OBVIOUS
<1>2. /\ \A w, t : Received(w, t)' = Received(w, t)
      /\ \A w : Publishable(w)' = Publishable(w)
      /\ \A p : RunOf(p)' = RunOf(p)
  BY <1>1 DEF Received, Publishable, RunOf
<1>3. Placed'
  <2>1. ASSUME NEW p \in Workers PROVE Publishable(week[p])' = Publishable(week[p])
    BY <1>1 DEF Publishable
  <2>2. QED  BY <1>1, <2>1 DEF LooseInv, Placed
<1>4. OwnRun'  BY <1>1, <1>2 DEF LooseInv, OwnRun
<1>5. OpenRun'
  <2>1. ASSUME NEW p \in Workers
        PROVE Received(week[p], job[p])' = Received(week[p], job[p])
    BY <1>1 DEF Received
  <2>2. QED  BY <1>1, <1>2, <2>1 DEF LooseInv, OpenRun
<1>6. SettledRun'
  <2>1. ASSUME NEW w \in Weeks, NEW t \in Types, NEW a \in 1..MaxAttempts
        PROVE  /\ a > attempts'[w][t] => status'[<<w, t, a>>] = "ABSENT"
               /\ status'[<<w, t, a>>] \in Settled =>
                     delivery'[<<w, t, a>>] = "SENT" /\ a \in Received(w, t)'
    BY <1>1, <1>2 DEF LooseInv, SettledRun
  <2>2. QED  BY <2>1 DEF SettledRun
<1>7. SentInv' /\ PublishedInv'
  BY <1>1, <1>2 DEF LooseInv, SentInv, PublishedInv
<1>8. NoRunMailedTwice'  BY <1>1 DEF LooseInv, NoRunMailedTwice
<1>9. QED  BY <1>3, <1>4, <1>5, <1>6, <1>7, <1>8 DEF LooseRest

(* Every step that writes nothing.                                         *)
LEMMA LooseControl ==
    ASSUME LooseInv, NEW p \in Workers,
           \/ \E j \in Schedule, selected \in SUBSET Weeks : Start(p, j, selected)
           \/ Loop(p) \/ ReadLast(p) \/ CreateRefused(p) \/ StepFails(p)
           \/ \E a \in 1..MaxAttempts : ChooseRun(p, a)
           \/ PublishRefused(p) \/ Crash(p) \/ DropLock(p)
    PROVE  LooseRest'
<1> USE DEF Goto, At
<1>1. CASE \/ \E w \in Weeks : SkipWeek(p, w)
           \/ DropLock(p)
  BY <1>1, LooseStays DEF SkipWeek, DropLock, database
<1>2. CASE ~(\/ \E w \in Weeks : SkipWeek(p, w)
             \/ DropLock(p))
  <2>1. UNCHANGED <<database, mails>>
    BY <1>2 DEF Start, Loop, TakeLock, Unlock, UnlockFails, Finish, Exit, ReadLast,
           CreateRefused, StepFails, ChooseRun, PublishRefused, Crash
  <2>2. \A q \in Workers : q # p =>
           /\ pc'[q] = pc[q] /\ cur'[q] = cur[q] /\ week'[q] = week[q]
           /\ job'[q] = job[q] /\ answer'[q] = answer[q]
    BY <1>2 DEF LooseInv, TypeOK, Start, Loop, TakeLock, Unlock, UnlockFails, Finish,
           Exit, Forget, ReadLast, CreateRefused, StepFails, ChooseRun, PublishRefused, Crash
  <2>3. \/ pc'[p] \in {"idle", "pick", "unlock", "publish"}
        \/ pc'[p] = "compute" /\ job[p] # "thursday" /\ job'[p] = job[p]
        \/ pc[p] = "compute" /\ pc'[p] = "create" /\ job'[p] = job[p]
        \/ /\ pc[p] \in InRun /\ pc'[p] = "caught" /\ cur'[p] = cur[p]
           /\ week'[p] = week[p] /\ job'[p] = job[p]
        \/ pc'[p] = "commit" /\ cur'[p] \in Publishable(week'[p])
    BY <1>2 DEF LooseInv, TypeOK, Start, Loop, TakeLock, Unlock, UnlockFails, Finish,
           Exit, Forget, ReadLast, CreateRefused, StepFails, ChooseRun, PublishRefused, Crash,
           InRun
  <2>4. /\ pc'[p] = "compute" /\ job[p] # "thursday" /\ job'[p] = job[p] => job'[p] \in Types
        /\ pc[p] = "compute" => job[p] \in Types
        /\ pc[p] \in InRun => job[p] \in Types
    BY DEF LooseInv, TypeOK, Placed, Jobs
  <2>5. /\ pc'[p] \in InRun \cup {"compute", "create"} => job'[p] \in Types
        /\ pc'[p] \in InRun => /\ pc'[p] = "caught" /\ pc[p] \in InRun
                               /\ cur'[p] = cur[p] /\ week'[p] = week[p] /\ job'[p] = job[p]
        /\ pc'[p] = "commit" => cur'[p] \in Publishable(week'[p])
    BY <2>3, <2>4 DEF InRun
  <2>6. QED  BY <2>1, <2>2, <2>5, LooseMove
<1>3. QED  BY <1>1, <1>2

LEMMA LooseStep ==
    ASSUME LooseInv, [Next]_vars
    PROVE  LooseInv'
<1>1. TypeOK'  BY TypeStep DEF LooseInv
<1>2. LooseRest'
  <2>1. CASE UNCHANGED vars
    BY <2>1, LooseStays DEF vars, database, worker
  <2>2. CASE Next
    BY <2>2, LooseControl, LooseCreate, LooseRecord, LooseHandle, LooseSend, LooseCommit
    DEF Next, Work, Compute, Publish
  <2>3. QED  BY <2>1, <2>2
<1>3. QED  BY <1>1, <1>2 DEF LooseInv, LooseRest

LEMMA InitLoose == Init => LooseInv
<1> USE MaxAttemptsAssumption
<1>1. ASSUME Init PROVE TypeOK
  BY <1>1, InitInv DEF IInv
<1>2. ASSUME Init PROVE Placed /\ OwnRun /\ OpenRun
  BY <1>2 DEF Init, Placed, OwnRun, OpenRun, InRun
<1>3. ASSUME Init PROVE SettledRun
  <2>1. ASSUME NEW w \in Weeks, NEW t \in Types, NEW a \in 1..MaxAttempts
        PROVE  status[<<w, t, a>>] = "ABSENT"
    BY <1>3 DEF Init, Runs
  <2>2. QED  BY <2>1 DEF SettledRun, Settled
<1>4. ASSUME Init PROVE SentInv /\ PublishedInv /\ NoRunMailedTwice
  <2>1. ASSUME NEW w \in Weeks, NEW t \in Types
        PROVE  mails[w][t] = << >> /\ Len(mails[w][t]) = 0 /\ Received(w, t) = {}
    BY <1>4 DEF Init, Received
  <2>2. QED  BY <1>4, <2>1 DEF Init, SentInv, PublishedInv, NoRunMailedTwice
<1>5. QED  BY <1>1, <1>2, <1>3, <1>4 DEF LooseInv

(* Whatever becomes of the lock and whatever the provider reports, the     *)
(* part of the invariant that rests on the unique key of a run holds.      *)
THEOREM LooseHolds == Spec => []LooseInv
<1>1. LooseInv /\ [Next]_vars => LooseInv'
  BY LooseStep
<1>2. QED  BY InitLoose, <1>1, PTL DEF Spec

(* No run is e-mailed twice, with or without the lock.                     *)
THEOREM NobodyMailsTwice == Spec => []NoRunMailedTwice
<1>1. LooseInv => NoRunMailedTwice
  BY DEF LooseInv
<1>2. QED  BY LooseHolds, <1>1, PTL

(* The variables keep their types. *)
THEOREM TypeCorrect == Spec => []TypeOK
<1>1. LooseInv => TypeOK
  BY DEF LooseInv
<1>2. QED  BY LooseHolds, <1>1, PTL

(* What the public sees is a run that the press received as final, even if *)
(* the lock was lost on the way to it.                                     *)
THEOREM PublicRunIsPressRun == Spec => []PublicIsPress
<1>1. ASSUME LooseInv PROVE PublicIsPress
  <2>1. ASSUME NEW w \in Weeks, published[w] # 0
        PROVE  /\ published[w] \in Received(w, "monday")
               /\ status[<<w, "monday", published[w]>>] = "PUBLISHED"
               /\ delivery[<<w, "monday", published[w]>>] = "SENT"
    <3>1. published[w] \in 1..MaxAttempts /\ "monday" \in Types
      BY <1>1, <2>1 DEF LooseInv, TypeOK, Types
    <3>2. status[<<w, "monday", published[w]>>] = "PUBLISHED"
      BY <1>1, <2>1 DEF LooseInv, PublishedInv
    <3>3. QED  BY <1>1, <3>1, <3>2 DEF LooseInv, SettledRun, Settled
  <2>2. QED  BY <2>1 DEF PublicIsPress
<1>2. QED  BY LooseHolds, <1>1, PTL
===============================================================================

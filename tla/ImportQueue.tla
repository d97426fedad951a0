------------------------------ MODULE ImportQueue ------------------------------
(***************************************************************************)
(* The scheduling of the imports (apps/data-aftt-importer/src): two cron   *)
(* services that add jobs to two BullMQ queues, one worker for each queue, *)
(* and the chain of promises by which the one importer process runs one    *)
(* import at a time.                                                       *)
(*                                                                         *)
(* BullMQ keeps a job until it has completed or failed, whatever happens   *)
(* to the process: a job whose process died is stalled and runs again.     *)
(* It is modelled from how the services use it.                            *)
(***************************************************************************)
EXTENDS Naturals, SequencesExt

CONSTANTS
    Kinds,      \* the queues: "members" and "results"
    Categories,
    First,      \* the category whose job is added without a delay
    Batches,    \* of each kind, the batches that ask for capacity
    Attempts,   \* attempts of a job (3)
    MaxStalled, \* times a job may stall (1)
    MaxPauses,  \* times a batch asks for capacity (IMPORT_PRESSURE_MAX_ATTEMPTS)
    MaxNights,  \* bound: nights
    MaxFailures \* bound: attempts that throw and processes that die

Nights == 1 .. MaxNights
Jobs == [kind : Kinds, category : Categories, day : Nights]
Resting == [at |-> "idle"]

ASSUME CategoriesAssumption == First \in Categories
ASSUME BatchesAssumption == Batches \in [Kinds -> Nat]
ASSUME QueueAssumption ==
    /\ {Attempts, MaxPauses, MaxNights} \subseteq Nat \ {0}
    /\ {MaxStalled, MaxFailures} \subseteq Nat

VARIABLES
    night,      \* of the cron's clock
    state,      \* BullMQ: of each job, its state, or "none"
    left,       \* of each job, the attempts it has left
    stalls,     \* of each job, how often it stalled
    worker,     \* of each queue, its job, its place and what it has left to do
    chain,      \* the jobs whose promises are not released, oldest first
    sync,       \* of each queue, its cron service: what it reads, or adds
    moved,      \* history: the crons during whose reads a job went back to waiting
    slipped,    \* history: those of them that have added jobs
    failures    \* history: what has failed so far

queue  == <<state, left, stalls>>
causes == <<moved, slipped>>
queueVars == <<night, queue, worker, chain, sync, causes, failures>>

States == {"none", "waiting", "active", "delayed", "completed", "failed"}
Pending(j) == state[j] \in {"waiting", "active", "delayed"}
WorkerPlaces == {"idle", "queued", "running"}
Reads  == <<"waiting", "active", "delayed">>

(* What a worker and a cron service have to do. *)
Working(k) == [at : {"queued", "running"}, job : {j \in Jobs : j.kind = k},
               batches : 0 .. Batches[k], pauses : 0 .. MaxPauses]
Syncing == [at : 1 .. Len(Reads) + 1, todo : SUBSET Categories]

QueueTypeOK ==
    /\ night \in Nights
    /\ state \in [Jobs -> States]
    /\ left \in [Jobs -> 1 .. Attempts]
    /\ stalls \in [Jobs -> 0 .. MaxStalled]
    /\ worker \in [Kinds -> (UNION {Working(k) : k \in Kinds}) \cup {Resting}]
    /\ \A k \in Kinds : worker[k] \in Working(k) \cup {Resting}
    /\ sync \in [Kinds -> Syncing \cup {Resting}]
    /\ chain \in Seq(Jobs)
    /\ moved \in SUBSET Kinds /\ slipped \in SUBSET Kinds
    /\ failures \in 0 .. MaxFailures

QueueInit ==
    /\ night = 1
    /\ state = [j \in Jobs |-> "none"]
    /\ left = [j \in Jobs |-> Attempts]
    /\ stalls = [j \in Jobs |-> 0]
    /\ worker = [k \in Kinds |-> Resting]
    /\ chain = <<>>
    /\ sync = [k \in Kinds |-> Resting]
    /\ moved = {} /\ slipped = {} /\ failures = 0

-------------------------------------------------------------------------------
(* The cron services.                                                      *)

NextNight ==
    /\ night < MaxNights
    /\ night' = night + 1
    /\ UNCHANGED <<queue, worker, chain, sync, causes, failures>>

(* syncMembers, syncResults: by night, and when the process starts. *)
Fire(k) ==
    /\ sync[k] = Resting
    /\ sync' = [sync EXCEPT ![k] = [at |-> 1, todo |-> Categories]]
    /\ moved' = moved \ {k}
    /\ UNCHANGED <<night, queue, worker, chain, slipped, failures>>

(* getStatus: the counts of both queues are read one after the other; any  *)
(* that is not zero ends the night.  Mutant: delayed jobs are not asked    *)
(* for, as in triggerSyncForCategory.                                      *)
CountedRunning(read) == read # "delayed" /\ \E j \in Jobs : state[j] = read
Counted(read) == \E j \in Jobs : state[j] = read

ReadCount(k) ==
    /\ sync[k] # Resting /\ sync[k].at <= Len(Reads)
    /\ sync' = [sync EXCEPT ![k] =
           IF Counted(Reads[@.at]) THEN Resting ELSE [sync[k] EXCEPT !.at = @ + 1]]
    /\ moved' = IF Counted(Reads[sync[k].at]) THEN moved \ {k} ELSE moved
    /\ UNCHANGED <<night, queue, worker, chain, slipped, failures>>

(* addJobForCategory: a job that BullMQ knows by its id is not added again. *)
(* The first category starts at once, the other one later.                  *)
AddJob(k, c) ==
    LET j == [kind |-> k, category |-> c, day |-> night]
    IN  /\ sync[k] # Resting /\ sync[k].at > Len(Reads)
        /\ c \in sync[k].todo /\ (First \in sync[k].todo => c = First)
        /\ sync' = [sync EXCEPT ![k] =
               IF @.todo = {c} THEN Resting ELSE [sync[k] EXCEPT !.todo = @ \ {c}]]
        /\ state' = IF state[j] # "none" THEN state
                    ELSE [state EXCEPT ![j] = IF c = First THEN "waiting" ELSE "delayed"]
        /\ slipped' = slipped \cup (moved \cap {k})
        /\ moved' = IF sync'[k] = Resting THEN moved \ {k} ELSE moved
        /\ UNCHANGED <<night, left, stalls, worker, chain, failures>>

Reading == {k \in Kinds : sync[k] # Resting /\ sync[k].at \in 2 .. Len(Reads)}

(* A delay or a backoff is over. *)
Promote(j) ==
    /\ state[j] = "delayed"
    /\ state' = [state EXCEPT ![j] = "waiting"]
    /\ moved' = moved \cup Reading
    /\ UNCHANGED <<night, left, stalls, worker, chain, sync, slipped, failures>>

-------------------------------------------------------------------------------
(* The workers and the chain.                                              *)

(* A worker takes one job at a time; runExclusive puts it at the tail. *)
Take(j) ==
    /\ state[j] = "waiting" /\ worker[j.kind] = Resting
    /\ state' = [state EXCEPT ![j] = "active"]
    /\ worker' = [worker EXCEPT ![j.kind] =
           [at |-> "queued", job |-> j, batches |-> Batches[j.kind], pauses |-> 0]]
    /\ chain' = Append(chain, j)
    /\ UNCHANGED <<night, left, stalls, sync, causes, failures>>

(* await previous.  Mutant: it is not awaited. *)
TurnAtOnce(j) == TRUE
Turn(j) == Head(chain) = j

Enter(k) ==
    /\ worker[k].at = "queued" /\ Turn(worker[k].job)
    /\ worker' = [worker EXCEPT ![k].at = "running"]
    /\ UNCHANGED <<night, queue, chain, sync, causes, failures>>

(* finally release().  Mutant: only of a task that succeeds. *)
ReleasedDone(j, threw) == IF threw THEN chain ELSE RemoveFirst(chain, j)
Released(j, threw) == RemoveFirst(chain, j)

Running(k) == worker[k].at = "running"

(* waitForCapacity: the API answers in time, or not, and is asked again.   *)
Proceed(k) ==
    /\ Running(k) /\ worker[k].batches > 0
    /\ worker' = [worker EXCEPT ![k].batches = @ - 1, ![k].pauses = 0]
    /\ UNCHANGED <<night, queue, chain, sync, causes, failures>>

AskedEnough(k) == worker[k].pauses < MaxPauses
Pauses(k)      == [worker[k] EXCEPT !.pauses = Min({@ + 1, MaxPauses})]

Pause(k) ==
    /\ Running(k) /\ worker[k].batches > 0 /\ AskedEnough(k)
    /\ worker' = [worker EXCEPT ![k] = Pauses(k)]
    /\ UNCHANGED <<night, queue, chain, sync, causes, failures>>

(* A job that has ended needs no counts any more. *)
End(j, how) ==
    /\ state' = [state EXCEPT ![j] = how]
    /\ left' = [left EXCEPT ![j] = Attempts]
    /\ stalls' = [stalls EXCEPT ![j] = 0]

(* The task ends well. *)
Complete(k) ==
    /\ Running(k) /\ worker[k].batches = 0
    /\ End(worker[k].job, "completed")
    /\ chain' = Released(worker[k].job, FALSE)
    /\ worker' = [worker EXCEPT ![k] = Resting]
    /\ UNCHANGED <<night, sync, causes, failures>>

(* The task throws: the job is tried again after a while, or has failed. *)
Retry(j) == left[j] > 1

Throws(k) ==
    LET j == worker[k].job
    IN  /\ IF Retry(j)
           THEN /\ state' = [state EXCEPT ![j] = "delayed"]
                /\ left' = [left EXCEPT ![j] = Max({@ - 1, 1})]
                /\ UNCHANGED stalls
           ELSE End(j, "failed")
        /\ chain' = Released(j, TRUE)
        /\ worker' = [worker EXCEPT ![k] = Resting]
        /\ UNCHANGED <<night, sync, causes>>

Throw(k) ==
    /\ Running(k) /\ failures < MaxFailures
    /\ failures' = failures + 1
    /\ Throws(k)

PausedTooLong(k) ==
    /\ Running(k) /\ worker[k].batches > 0 /\ ~AskedEnough(k)
    /\ Throws(k)
    /\ UNCHANGED failures

-------------------------------------------------------------------------------
(* The process.                                                            *)

(* The process dies, and with it the chain and what the crons were doing.  *)
Crash ==
    /\ failures < MaxFailures
    /\ failures' = failures + 1
    /\ worker' = [k \in Kinds |-> Resting]
    /\ chain' = <<>>
    /\ sync' = [k \in Kinds |-> Resting]
    /\ moved' = {}
    /\ UNCHANGED <<night, queue, slipped>>

(* BullMQ finds an active job that no worker renews. *)
Held == {worker[k].job : k \in {l \in Kinds : worker[l] # Resting}}
Orphan(j) == state[j] = "active" /\ j \notin Held

Stall(j) ==
    /\ Orphan(j)
    /\ IF stalls[j] < MaxStalled
       THEN /\ state' = [state EXCEPT ![j] = "waiting"]
            /\ stalls' = [stalls EXCEPT ![j] = @ + 1]
            /\ moved' = moved \cup Reading
            /\ UNCHANGED left
       ELSE End(j, "failed") /\ UNCHANGED moved
    /\ UNCHANGED <<night, worker, chain, sync, slipped, failures>>

-------------------------------------------------------------------------------
Work(k) == Enter(k) \/ Proceed(k) \/ Pause(k) \/ Complete(k) \/ PausedTooLong(k)

QueueNext ==
    \/ NextNight \/ Crash
    \/ \E k \in Kinds :
        \/ Fire(k) \/ ReadCount(k) \/ \E c \in Categories : AddJob(k, c)
        \/ Work(k) \/ Throw(k)
    \/ \E j \in Jobs : Promote(j) \/ Take(j) \/ Stall(j)

QueueSpec == QueueInit /\ [][QueueNext]_queueVars

(* Imports end or throw, BullMQ hands out what is due.  Nothing is assumed *)
(* of the crons, or of how fast the API answers.                           *)
QueueFairness ==
    /\ \A k \in Kinds : WF_queueVars(Work(k))
    /\ WF_queueVars(\E j \in Jobs : Take(j))
    /\ WF_queueVars(\E j \in Jobs : Promote(j) \/ Stall(j))

FairQueueSpec == QueueSpec /\ QueueFairness

-------------------------------------------------------------------------------
(* Properties.                                                             *)

(* One import runs at a time, of either queue; whoever waits, waits for    *)
(* one that will be released; and jobs that run are jobs BullMQ counts as  *)
(* active.                                                                 *)
OneImport ==
    /\ \A k, l \in Kinds : Running(k) /\ Running(l) => k = l
    /\ \A n \in DOMAIN chain : worker[chain[n].kind] # Resting
                            /\ worker[chain[n].kind].job = chain[n]
    /\ \A k \in Kinds : worker[k] # Resting => state[worker[k].job] = "active"

(* A category has two pending jobs of a queue only if a job went from      *)
(* delayed, or from a process that died, back to waiting while the cron    *)
(* read the counts that led to the second one.                             *)
DuplicatesHaveACause ==
    \A i, j \in Jobs :
        i # j /\ i.kind = j.kind /\ i.category = j.category /\ Pending(i) /\ Pending(j) =>
            i.kind \in slipped

(* The queues run empty between the days: every job that is added          *)
(* completes or fails, whatever threw, died or kept the API busy.          *)
JobsEnd == []<>(\A j \in Jobs : ~Pending(j))
===============================================================================

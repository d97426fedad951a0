--------------------------- MODULE ImportQueueProofs ---------------------------
(***************************************************************************)
(* For any number of queues, categories, batches and days, and whatever    *)
(* throws, stalls or dies: imports run one at a time and in the order they *)
(* joined the chain, and a category has two pending jobs only where a job  *)
(* went back to waiting under a cron service that counted.  The second     *)
(* part is about what such a job does in MembersImport: the tables follow  *)
(* the list, and changes of standing are announced.                        *)
(***************************************************************************)
EXTENDS ImportQueue, MembersImport, FiniteSetTheorems, SequenceTheorems, WellFoundedInduction, TLAPS

-------------------------------------------------------------------------------
(* The inductive invariant.                                                *)

\* The chain holds the jobs of the workers, each of them once, and the one
\* that runs is the oldest.
ChainInv ==
    /\ \A n \in 1 .. Len(chain) :
        worker[chain[n].kind] # Resting /\ worker[chain[n].kind].job = chain[n]
    /\ \A m, n \in 1 .. Len(chain) : chain[m] = chain[n] => m = n
    /\ \A k \in Kinds : worker[k] # Resting =>
        /\ \E n \in 1 .. Len(chain) : chain[n] = worker[k].job
        /\ state[worker[k].job] = "active"
        /\ Running(k) => Head(chain) = worker[k].job

\* What a cron service has counted stays away from its queue, unless a job
\* moved back meanwhile; only the jobs it has added itself are pending.
Seen(k, j) == \E n \in 1 .. Len(Reads) : n < sync[k].at /\ state[j] = Reads[n]
SyncInv ==
    \A k \in Kinds, j \in Jobs :
        sync[k] # Resting /\ k \notin moved /\ j.kind = k /\ Seen(k, j) =>
            sync[k].at > Len(Reads) /\ j.category \notin sync[k].todo

IInv == QueueTypeOK /\ ChainInv /\ SyncInv /\ DuplicatesHaveACause

-------------------------------------------------------------------------------
(* Sequences, jobs and workers.                                            *)

LEMMA ReadsAre ==
    /\ Len(Reads) = 3
    /\ Reads[1] = "waiting" /\ Reads[2] = "active" /\ Reads[3] = "delayed"
BY DEF Reads

\* What has been counted before the n-th count, state by state.
LEMMA SeenIs ==
    ASSUME QueueTypeOK, NEW k \in Kinds, sync[k] # Resting, NEW j \in Jobs
    PROVE  /\ sync[k] \in Syncing /\ sync[k].at \in {1, 2, 3, 4}
           /\ sync[k].todo \in SUBSET Categories
           /\ Seen(k, j) <=> \/ sync[k].at > 1 /\ state[j] = "waiting"
                             \/ sync[k].at > 2 /\ state[j] = "active"
                             \/ sync[k].at > 3 /\ state[j] = "delayed"
<1>1. sync[k] \in Syncing BY DEF QueueTypeOK
<1>2. sync[k].at \in 1 .. 4 /\ sync[k].todo \in SUBSET Categories
    BY <1>1, ReadsAre DEF Syncing
<1>3. 1 .. Len(Reads) = {1, 2, 3} BY ReadsAre
<1> QED BY <1>1, <1>2, <1>3, ReadsAre DEF Seen

LEMMA JobFields ==
    ASSUME NEW j \in Jobs
    PROVE  j.kind \in Kinds /\ j.category \in Categories /\ j.day \in Nights
BY DEF Jobs

LEMMA Workers ==
    ASSUME QueueTypeOK, NEW k \in Kinds, worker[k] # Resting
    PROVE  /\ worker[k] \in Working(k) /\ worker[k].job \in Jobs
           /\ worker[k].job.kind = k
           /\ worker[k].at \in {"queued", "running"}
           /\ worker[k].batches \in 0 .. Batches[k]
           /\ worker[k].pauses \in 0 .. MaxPauses
BY DEF QueueTypeOK, Working

LEMMA IdleIs == Resting.at = "idle" /\ \A k \in Kinds : Resting \notin Working(k)
<1>1. Resting.at = "idle" BY DEF Resting
<1>2. \A k \in Kinds : \A w \in Working(k) : w.at # "idle" BY DEF Working
<1> QED BY <1>1, <1>2

LEMMA TwoNumbers ==
    ASSUME NEW a \in Nat, NEW b \in Nat
    PROVE  Min({a, b}) \in {a, b} /\ Max({a, b}) \in {a, b}
BY DEF Min, Max

\* The first of a sequence is removed: the others move up.
LEMMA FirstRemoved ==
    ASSUME NEW S, NEW s \in Seq(S), s # <<>>
    PROVE  RemoveFirst(s, Head(s)) = Tail(s)
<1>1. Len(s) \in Nat \ {0} /\ s[1] = Head(s) /\ 1 \in 1 .. Len(s) OBVIOUS
<1> DEFINE I == {i \in 1 .. Len(s) : s[i] = Head(s)}
<1>2. 1 \in I /\ I \subseteq Nat /\ \A i \in I : 1 <= i BY <1>1
<1>3. Min(I) = 1 BY <1>2 DEF Min
<1>4. SelectInSeq(s, LAMBDA v : v = Head(s)) = 1
    BY <1>2, <1>3 DEF SelectInSeq
<1>5. RemoveFirst(s, Head(s)) = RemoveAt(s, 1)
    BY <1>1, <1>4 DEF RemoveFirst
<1>6. RemoveAt(s, 1) = SubSeq(s, 1, 0) \o SubSeq(s, 2, Len(s))
    BY DEF RemoveAt
<1>7. SubSeq(s, 1, 0) = <<>> BY <1>1
<1>8. SubSeq(s, 2, Len(s)) = Tail(s) /\ Tail(s) \in Seq(S) BY <1>1
<1>9. <<>> \o Tail(s) = Tail(s) BY <1>8
<1> QED BY <1>5, <1>6, <1>7, <1>8, <1>9

-------------------------------------------------------------------------------
(* The chain.                                                              *)

\* A task that runs leaves the chain: it was the oldest, and it was there once.
LEMMA Leaves ==
    ASSUME QueueTypeOK, ChainInv, NEW k \in Kinds, Running(k), NEW threw,
           chain' = Released(worker[k].job, threw),
           worker' = [worker EXCEPT ![k] = Resting],
           \A j \in Jobs : j # worker[k].job => state'[j] = state[j]
    PROVE  chain' \in Seq(Jobs) /\ ChainInv'
<1> DEFINE j == worker[k].job
<1>1. worker[k] # Resting BY IdleIs DEF Running
<1>2. j \in Jobs /\ j.kind = k BY <1>1, Workers
<1>3. chain \in Seq(Jobs) /\ chain # <<>> /\ Head(chain) = j
    BY <1>1 DEF QueueTypeOK, ChainInv
<1>4. chain' = Tail(chain) BY <1>3, FirstRemoved DEF Released
<1>5. /\ Len(chain) \in Nat \ {0} /\ chain[1] = j
      /\ chain' \in Seq(Jobs) /\ Len(chain') = Len(chain) - 1
      /\ \A n \in 1 .. Len(chain') : chain'[n] = chain[n + 1]
    BY <1>3, <1>4
<1>6. \A l \in Kinds : worker'[l] = IF l = k THEN Resting ELSE worker[l]
    BY DEF QueueTypeOK
<1> HIDE DEF j
<1>7. \A n \in 1 .. Len(chain') :
        /\ n + 1 \in 1 .. Len(chain) /\ n + 1 # 1
        /\ chain[n + 1] \in Jobs
    BY <1>3, <1>5
<1>8. \A n \in 1 .. Len(chain') :
        worker'[chain'[n].kind] # Resting /\ worker'[chain'[n].kind].job = chain'[n]
    <2> SUFFICES ASSUME NEW n \in 1 .. Len(chain')
                 PROVE  worker'[chain'[n].kind] # Resting /\ worker'[chain'[n].kind].job = chain'[n]
        OBVIOUS
    <2> DEFINE i == chain[n + 1]
    <2>1. i \in Jobs /\ i.kind \in Kinds /\ chain'[n] = i BY <1>5, <1>7, JobFields
    <2>2. worker[i.kind] # Resting /\ worker[i.kind].job = i BY <1>7 DEF ChainInv
    <2>3. i # j
        BY <1>5, <1>7 DEF ChainInv
    <2>4. i.kind # k BY <2>2, <2>3 DEF j
    <2> QED BY <1>6, <2>1, <2>2, <2>4
<1>9. \A m, n \in 1 .. Len(chain') : chain'[m] = chain'[n] => m = n
    BY <1>5, <1>7 DEF ChainInv
<1>10. ASSUME NEW l \in Kinds, worker'[l] # Resting
       PROVE  /\ \E n \in 1 .. Len(chain') : chain'[n] = worker'[l].job
              /\ state'[worker'[l].job] = "active"
              /\ Running(l)' => Head(chain') = worker'[l].job
    <2>1. l # k /\ worker'[l] = worker[l] /\ worker[l] # Resting BY <1>6, <1>10
    <2>2. worker[l].job \in Jobs /\ worker[l].job.kind = l BY <2>1, Workers
    <2>3. worker[l].job # j BY <1>2, <2>1, <2>2
    <2>4. PICK n \in 1 .. Len(chain) : chain[n] = worker[l].job BY <2>1 DEF ChainInv
    <2>5. n # 1 BY <1>5, <2>3, <2>4
    <2>6. n - 1 \in 1 .. Len(chain') /\ chain'[n - 1] = chain[n] BY <1>5, <2>5
    <2>7. ~Running(l)' BY <1>3, <2>1, <2>3 DEF ChainInv, Running
    <2>8. state'[worker[l].job] = "active"
        BY <2>1, <2>2, <2>3 DEF ChainInv, j
    <2> QED BY <2>1, <2>4, <2>6, <2>7, <2>8
<1> QED BY <1>5, <1>8, <1>9, <1>10 DEF ChainInv

\* Jobs of no worker change their state, and the chain stays.
LEMMA ChainSame ==
    ASSUME QueueTypeOK, ChainInv, chain' = chain,
           \A k \in Kinds : /\ worker'[k] # Resting <=> worker[k] # Resting
                            /\ worker[k] # Resting => worker'[k].job = worker[k].job
                            /\ Running(k)' => Running(k) \/ Head(chain) = worker[k].job,
           \A k \in Kinds : worker[k] # Resting => state'[worker[k].job] = state[worker[k].job]
    PROVE  ChainInv'
<1>1. \A n \in 1 .. Len(chain) : chain[n] \in Jobs /\ chain[n].kind \in Kinds
    BY JobFields DEF QueueTypeOK
<1> QED BY <1>1 DEF ChainInv

LEMMA TakeChain ==
    ASSUME QueueTypeOK, ChainInv, NEW j \in Jobs, Take(j)
    PROVE  ChainInv'
<1> DEFINE k == j.kind
           w == [at |-> "queued", job |-> j, batches |-> Batches[k], pauses |-> 0]
<1>1. k \in Kinds BY JobFields
<1>2. /\ state[j] = "waiting" /\ worker[k] = Resting
      /\ \A l \in Kinds : worker'[l] = IF l = k THEN w ELSE worker[l]
      /\ \A i \in Jobs : state'[i] = IF i = j THEN "active" ELSE state[i]
    BY <1>1 DEF Take, QueueTypeOK
<1>3. w.at = "queued" /\ w.job = j /\ w # Resting BY DEF Resting
<1>4. /\ chain \in Seq(Jobs) /\ chain' = Append(chain, j) /\ Len(chain) \in Nat
      /\ Len(chain') = Len(chain) + 1 /\ chain'[Len(chain) + 1] = j
      /\ \A n \in 1 .. Len(chain) : chain'[n] = chain[n]
    BY DEF Take, QueueTypeOK
<1> HIDE DEF w, k
<1>5. \A n \in 1 .. Len(chain) : chain[n] \in Jobs /\ chain[n].kind \in Kinds /\ chain[n].kind # k
    BY <1>2, <1>4, JobFields DEF ChainInv
<1>6. \A n \in 1 .. Len(chain') : n \in 1 .. Len(chain) \/ n = Len(chain) + 1
    BY <1>4
<1>7. \A n \in 1 .. Len(chain') :
        worker'[chain'[n].kind] # Resting /\ worker'[chain'[n].kind].job = chain'[n]
    <2> SUFFICES ASSUME NEW n \in 1 .. Len(chain')
                 PROVE  worker'[chain'[n].kind] # Resting /\ worker'[chain'[n].kind].job = chain'[n]
        OBVIOUS
    <2>1. CASE n \in 1 .. Len(chain) BY <1>2, <1>4, <1>5, <2>1 DEF ChainInv
    <2>2. CASE n = Len(chain) + 1 BY <1>1, <1>2, <1>3, <1>4, <2>2 DEF k
    <2> QED BY <1>6, <2>1, <2>2
<1>8. \A m, n \in 1 .. Len(chain') : chain'[m] = chain'[n] => m = n
    <2>1. \A n \in 1 .. Len(chain) : chain[n] # j BY <1>5 DEF k
    <2> QED BY <1>4, <1>6, <2>1 DEF ChainInv
<1>9. ASSUME NEW l \in Kinds, worker'[l] # Resting
      PROVE  /\ \E n \in 1 .. Len(chain') : chain'[n] = worker'[l].job
             /\ state'[worker'[l].job] = "active"
             /\ Running(l)' => Head(chain') = worker'[l].job
    <2>1. CASE l = k
        <3>1. worker'[l].job = j /\ ~Running(l)' BY <1>1, <1>2, <1>3, <2>1 DEF Running
        <3> QED BY <1>2, <1>4, <3>1
    <2>2. CASE l # k
        <3>1. worker'[l] = worker[l] /\ worker[l] # Resting BY <1>2, <1>9, <2>2
        <3>2. worker[l].job \in Jobs BY <3>1, Workers
        <3>3. PICK n \in 1 .. Len(chain) : chain[n] = worker[l].job BY <3>1 DEF ChainInv
        <3>4. n \in 1 .. Len(chain') /\ chain'[n] = worker[l].job BY <1>4, <3>3
        <3>5. Head(chain') = Head(chain)
            <4>1. 1 \in 1 .. Len(chain) BY <1>4, <3>3
            <4> QED BY <1>4, <4>1
        <3> QED BY <1>2, <3>1, <3>2, <3>4, <3>5 DEF ChainInv, Running
    <2> QED BY <2>1, <2>2
<1> QED BY <1>7, <1>8, <1>9 DEF ChainInv

-------------------------------------------------------------------------------
(* What the steps do to jobs.                                              *)

\* A task that throws is delayed, or has failed.
LEMMA ThrowsDoes ==
    ASSUME QueueTypeOK, ChainInv, NEW k \in Kinds, Running(k), Throws(k)
    PROVE  /\ worker[k].job \in Jobs /\ state[worker[k].job] = "active"
           /\ state' \in [Jobs -> States] /\ left' \in [Jobs -> 1 .. Attempts]
           /\ stalls' \in [Jobs -> 0 .. MaxStalled]
           /\ state'[worker[k].job] \in {"delayed", "failed"}
           /\ \A i \in Jobs : i # worker[k].job => state'[i] = state[i]
           /\ chain' \in Seq(Jobs) /\ ChainInv'
           /\ UNCHANGED <<night, sync, moved, slipped>>
<1> DEFINE j == worker[k].job
<1>1. worker[k] # Resting BY IdleIs DEF Running
<1>2. j \in Jobs /\ state[j] = "active" BY <1>1, Workers DEF ChainInv
<1>3. Attempts \in Nat \ {0} /\ MaxStalled \in Nat /\ left[j] \in 1 .. Attempts
    BY <1>2, QueueAssumption DEF QueueTypeOK
<1>4. /\ state' \in [Jobs -> States] /\ left' \in [Jobs -> 1 .. Attempts]
      /\ stalls' \in [Jobs -> 0 .. MaxStalled]
      /\ state'[j] \in {"delayed", "failed"}
      /\ \A i \in Jobs : i # j => state'[i] = state[i]
    <2>1. CASE Retry(j)
        <3>1. /\ state' = [state EXCEPT ![j] = "delayed"] /\ stalls' = stalls
              /\ left' = [left EXCEPT ![j] = Max({left[j] - 1, 1})]
            BY <2>1 DEF Throws
        <3>2. left[j] - 1 \in 1 .. Attempts BY <1>3, <2>1 DEF Retry
        <3>3. left[j] - 1 \in Nat /\ 1 \in Nat /\ 1 \in 1 .. Attempts BY <1>3, <3>2
        <3>4. Max({left[j] - 1, 1}) \in {left[j] - 1, 1} BY <3>3, TwoNumbers
        <3>5. Max({left[j] - 1, 1}) \in 1 .. Attempts BY <3>2, <3>3, <3>4
        <3> HIDE DEF j
        <3> QED BY <1>2, <3>1, <3>5 DEF QueueTypeOK, States
    <2>2. CASE ~Retry(j)
        <3>1. End(j, "failed") BY <2>2 DEF Throws
        <3> HIDE DEF j
        <3> QED BY <1>2, <1>3, <3>1 DEF End, QueueTypeOK, States
    <2> QED BY <2>1, <2>2
<1>5. /\ chain' = Released(j, TRUE) /\ worker' = [worker EXCEPT ![k] = Resting]
      /\ UNCHANGED <<night, sync, moved, slipped>>
    BY DEF Throws, causes
<1>6. chain' \in Seq(Jobs) /\ ChainInv' BY <1>4, <1>5, Leaves
<1> QED BY <1>2, <1>4, <1>5, <1>6

LEMMA CompleteDoes ==
    ASSUME QueueTypeOK, ChainInv, NEW k \in Kinds, Complete(k)
    PROVE  /\ worker[k].job \in Jobs /\ state[worker[k].job] = "active"
           /\ state' \in [Jobs -> States] /\ left' \in [Jobs -> 1 .. Attempts]
           /\ stalls' \in [Jobs -> 0 .. MaxStalled]
           /\ state'[worker[k].job] = "completed"
           /\ \A i \in Jobs : i # worker[k].job => state'[i] = state[i]
           /\ chain' \in Seq(Jobs) /\ ChainInv'
           /\ UNCHANGED <<night, sync, moved, slipped>>
<1> DEFINE j == worker[k].job
<1>1. worker[k] # Resting /\ Running(k) BY IdleIs DEF Running, Complete
<1>2. j \in Jobs /\ state[j] = "active" BY <1>1, Workers DEF ChainInv
<1>3. /\ End(j, "completed") /\ chain' = Released(j, FALSE)
      /\ worker' = [worker EXCEPT ![k] = Resting] /\ UNCHANGED <<night, sync, moved, slipped>>
    BY DEF Complete, causes
<1>4. Attempts \in Nat \ {0} /\ MaxStalled \in Nat BY QueueAssumption
<1> HIDE DEF j
<1>5. /\ state' \in [Jobs -> States] /\ left' \in [Jobs -> 1 .. Attempts]
      /\ stalls' \in [Jobs -> 0 .. MaxStalled]
      /\ state'[j] = "completed" /\ \A i \in Jobs : i # j => state'[i] = state[i]
    BY <1>2, <1>3, <1>4 DEF End, QueueTypeOK, States
<1>6. chain' \in Seq(Jobs) /\ ChainInv' BY <1>1, <1>3, <1>5, Leaves DEF j
<1> QED BY <1>2, <1>3, <1>5, <1>6 DEF j

\* A job that stalls waits again, or has failed; no worker had it.
LEMMA StallDoes ==
    ASSUME QueueTypeOK, ChainInv, NEW j \in Jobs, Stall(j)
    PROVE  /\ state[j] = "active"
           /\ state' \in [Jobs -> States] /\ left' \in [Jobs -> 1 .. Attempts]
           /\ stalls' \in [Jobs -> 0 .. MaxStalled]
           /\ \/ state'[j] = "waiting" /\ moved' = moved \cup Reading
              \/ state'[j] = "failed" /\ moved' = moved
           /\ \A i \in Jobs : i # j => state'[i] = state[i]
           /\ ChainInv'
<1>1. state[j] = "active" /\ \A k \in Kinds : worker[k] # Resting => worker[k].job # j
    BY DEF Stall, Orphan, Held
<1>2. Attempts \in Nat \ {0} /\ MaxStalled \in Nat /\ stalls[j] \in 0 .. MaxStalled
    BY QueueAssumption DEF QueueTypeOK
<1>3. /\ state' \in [Jobs -> States] /\ left' \in [Jobs -> 1 .. Attempts]
      /\ stalls' \in [Jobs -> 0 .. MaxStalled]
      /\ \/ state'[j] = "waiting" /\ moved' = moved \cup Reading
         \/ state'[j] = "failed" /\ moved' = moved
      /\ \A i \in Jobs : i # j => state'[i] = state[i]
    <2>1. CASE stalls[j] < MaxStalled
        <3>1. stalls[j] + 1 \in 0 .. MaxStalled BY <1>2, <2>1
        <3> QED BY <2>1, <3>1 DEF Stall, QueueTypeOK, States
    <2>2. CASE ~(stalls[j] < MaxStalled)
        <3>1. End(j, "failed") /\ moved' = moved BY <2>2 DEF Stall
        <3> QED BY <1>2, <3>1 DEF End, QueueTypeOK, States
    <2> QED BY <2>1, <2>2
<1>4. chain' = chain /\ worker' = worker BY DEF Stall
<1>5. \A k \in Kinds : worker[k] # Resting => worker[k].job \in Jobs BY Workers
<1>6. ChainInv' BY <1>1, <1>3, <1>4, <1>5, ChainSame DEF Running
<1> QED BY <1>1, <1>3, <1>6

LEMMA AddJobDoes ==
    ASSUME QueueTypeOK, NEW k \in Kinds, NEW c \in Categories, AddJob(k, c)
    PROVE  LET j == [kind |-> k, category |-> c, day |-> night]
           IN  /\ j \in Jobs /\ j.kind = k /\ j.category = c
               /\ sync[k] # Resting /\ sync[k].at = 4 /\ c \in sync[k].todo
               /\ state' \in [Jobs -> States]
               /\ \A i \in Jobs : i # j => state'[i] = state[i]
               /\ state[j] # "none" => state'[j] = state[j]
               /\ sync' \in [Kinds -> Syncing \cup {Resting}]
               /\ \A l \in Kinds : l # k => sync'[l] = sync[l]
               /\ sync'[k] # Resting =>
                    sync'[k].at = 4 /\ sync'[k].todo = sync[k].todo \ {c} /\ moved' = moved
               /\ moved \ {k} \subseteq moved' /\ moved' \subseteq moved
               /\ slipped' = slipped \cup (moved \cap {k})
<1> DEFINE j == [kind |-> k, category |-> c, day |-> night]
           s == [sync[k] EXCEPT !.todo = @ \ {c}]
<1>1. j \in Jobs /\ j.kind = k /\ j.category = c BY DEF Jobs, QueueTypeOK
<1>2. sync[k] # Resting /\ c \in sync[k].todo /\ sync[k].at > Len(Reads) BY DEF AddJob
<1>3. sync[k].at = 4 /\ sync[k] \in Syncing BY <1>1, <1>2, SeenIs, ReadsAre
<1>4. s \in Syncing /\ s.at = 4 /\ s.todo = sync[k].todo \ {c}
    BY <1>3 DEF Syncing
<1>5. sync' = [sync EXCEPT ![k] = IF sync[k].todo = {c} THEN Resting ELSE s]
    BY DEF AddJob
<1> HIDE DEF s
<1>6. /\ sync' \in [Kinds -> Syncing \cup {Resting}]
      /\ \A l \in Kinds : l # k => sync'[l] = sync[l]
      /\ sync'[k] # Resting => sync'[k] = s
    BY <1>4, <1>5 DEF QueueTypeOK
<1>7. /\ state' = IF state[j] # "none" THEN state
                  ELSE [state EXCEPT ![j] = IF c = First THEN "waiting" ELSE "delayed"]
      /\ slipped' = slipped \cup (moved \cap {k})
      /\ moved' = IF sync'[k] = Resting THEN moved \ {k} ELSE moved
    BY DEF AddJob
<1> HIDE DEF j
<1>8. /\ state' \in [Jobs -> States] /\ \A i \in Jobs : i # j => state'[i] = state[i]
      /\ state[j] # "none" => state'[j] = state[j]
    BY <1>1, <1>7 DEF QueueTypeOK, States
<1> QED BY <1>1, <1>2, <1>3, <1>4, <1>6, <1>7, <1>8 DEF j

\* A count that finds nothing lets the cron service go on.
LEMMA ReadCountDoes ==
    ASSUME QueueTypeOK, NEW k \in Kinds, ReadCount(k)
    PROVE  /\ sync[k] # Resting /\ sync[k].at \in {1, 2, 3}
           /\ sync' \in [Kinds -> Syncing \cup {Resting}]
           /\ \A l \in Kinds : l # k => sync'[l] = sync[l]
           /\ moved \ {k} \subseteq moved' /\ moved' \subseteq moved
           /\ sync'[k] # Resting =>
                /\ moved' = moved /\ sync'[k].at = sync[k].at + 1
                /\ \A j \in Jobs : state[j] # Reads[sync[k].at]
<1> DEFINE s == [sync[k] EXCEPT !.at = @ + 1]
<1>1. sync[k] # Resting /\ sync[k].at <= 3 /\ sync[k].at \in {1, 2, 3, 4}
    <2>1. sync[k] # Resting /\ sync[k].at <= Len(Reads) BY DEF ReadCount
    <2>2. sync[k] \in Syncing BY <2>1 DEF QueueTypeOK
    <2>3. sync[k].at \in 1 .. 4 BY <2>2, ReadsAre DEF Syncing
    <2> QED BY <2>1, <2>3, ReadsAre
<1>2. sync[k].at \in {1, 2, 3} /\ sync[k] \in Syncing BY <1>1 DEF QueueTypeOK
<1>3. s \in Syncing /\ s.at = sync[k].at + 1 BY <1>2, ReadsAre DEF Syncing
<1>4. /\ sync' = [sync EXCEPT ![k] = IF Counted(Reads[sync[k].at]) THEN Resting ELSE s]
      /\ moved' = IF Counted(Reads[sync[k].at]) THEN moved \ {k} ELSE moved
    BY DEF ReadCount
<1> HIDE DEF s
<1> QED BY <1>1, <1>2, <1>3, <1>4 DEF QueueTypeOK, Counted

-------------------------------------------------------------------------------
(* Types.                                                                  *)

LEMMA AnyWorking ==
    ASSUME NEW k \in Kinds, NEW w \in Working(k)
    PROVE  w \in UNION {Working(l) : l \in Kinds}
<1> DEFINE S == Working(k)
<1>1. S \in {Working(l) : l \in Kinds} /\ w \in S OBVIOUS
<1> HIDE DEF S
<1> QED BY <1>1

LEMMA WorkerTypes ==
    ASSUME QueueTypeOK, NEW k \in Kinds, NEW w \in Working(k) \cup {Resting},
           worker' = [worker EXCEPT ![k] = w]
    PROVE  /\ worker' \in [Kinds -> (UNION {Working(l) : l \in Kinds}) \cup {Resting}]
           /\ \A l \in Kinds : worker'[l] \in Working(l) \cup {Resting}
           /\ \A l \in Kinds : worker'[l] = IF l = k THEN w ELSE worker[l]
<1>1. w \in (UNION {Working(l) : l \in Kinds}) \cup {Resting}
    <2>1. CASE w \in Working(k) BY <2>1, AnyWorking
    <2>2. CASE w = Resting BY <2>2
    <2> QED BY <2>1, <2>2
<1> QED BY <1>1 DEF QueueTypeOK

\* What a worker becomes at each step of its task.
LEMMA WorkerShapes ==
    ASSUME QueueTypeOK, NEW k \in Kinds
    PROVE  /\ Enter(k) => /\ [worker[k] EXCEPT !.at = "running"] \in Working(k)
                          /\ [worker[k] EXCEPT !.at = "running"].job = worker[k].job
           /\ Proceed(k) => \E w \in Working(k) : w.job = worker[k].job /\ w.at = worker[k].at
                                /\ worker' = [worker EXCEPT ![k] = w]
           /\ Pause(k) => Pauses(k) \in Working(k) /\ Pauses(k).job = worker[k].job
                                /\ Pauses(k).at = worker[k].at
<1>1. ASSUME Running(k) \/ worker[k].at = "queued"
      PROVE  /\ worker[k] # Resting /\ worker[k] \in Working(k)
             /\ worker[k].batches \in 0 .. Batches[k] /\ worker[k].pauses \in 0 .. MaxPauses
             /\ Batches[k] \in Nat /\ MaxPauses \in Nat
    <2>1. worker[k] # Resting BY <1>1, IdleIs DEF Running
    <2> QED BY <2>1, Workers, BatchesAssumption, QueueAssumption
<1>2. Enter(k) => /\ [worker[k] EXCEPT !.at = "running"] \in Working(k)
                  /\ [worker[k] EXCEPT !.at = "running"].job = worker[k].job
    BY <1>1 DEF Enter, Working
<1>3. ASSUME Proceed(k)
      PROVE  \E w \in Working(k) : w.job = worker[k].job /\ w.at = worker[k].at
                                /\ worker' = [worker EXCEPT ![k] = w]
    <2> DEFINE b == worker[k].batches - 1
               v == [worker[k] EXCEPT !.batches = b]
               w == [v EXCEPT !.pauses = 0]
               f == [worker EXCEPT ![k] = v]
    <2>1. /\ worker[k] \in Working(k) /\ b \in 0 .. Batches[k]
          /\ 0 \in 0 .. MaxPauses
        BY <1>1, <1>3 DEF Proceed
    <2>2. v \in Working(k) /\ v.job = worker[k].job /\ v.at = worker[k].at
        BY <2>1 DEF Working
    <2> HIDE DEF v
    <2>3. w \in Working(k) /\ w.job = worker[k].job /\ w.at = worker[k].at
        BY <2>1, <2>2 DEF Working
    <2>4. worker' = [f EXCEPT ![k].pauses = 0] BY <1>3 DEF Proceed, v
    <2>5. f[k] = v /\ f = [l \in Kinds |-> IF l = k THEN v ELSE worker[l]] BY DEF QueueTypeOK
    <2>6. [f EXCEPT ![k].pauses = 0] = [l \in Kinds |-> IF l = k THEN w ELSE worker[l]]
        BY <2>5
    <2>7. [worker EXCEPT ![k] = w] = [l \in Kinds |-> IF l = k THEN w ELSE worker[l]]
        BY DEF QueueTypeOK
    <2>8. worker' = [worker EXCEPT ![k] = w] BY <2>4, <2>6, <2>7
    <2> HIDE DEF w
    <2> QED BY <2>3, <2>8
<1>4. ASSUME Pause(k)
      PROVE  Pauses(k) \in Working(k) /\ Pauses(k).job = worker[k].job
                                /\ Pauses(k).at = worker[k].at
    <2>1. /\ worker[k].pauses + 1 \in Nat /\ MaxPauses \in Nat
          /\ worker[k].pauses + 1 \in 0 .. MaxPauses
        BY <1>1, <1>4 DEF Pause, AskedEnough
    <2>2. Min({worker[k].pauses + 1, MaxPauses}) \in {worker[k].pauses + 1, MaxPauses}
        BY <2>1, TwoNumbers
    <2>3. Min({worker[k].pauses + 1, MaxPauses}) \in 0 .. MaxPauses BY <2>1, <2>2
    <2>4. worker[k] \in Working(k) BY <1>1, <1>4 DEF Pause
    <2> DEFINE p == Min({worker[k].pauses + 1, MaxPauses})
    <2>5. Pauses(k) = [worker[k] EXCEPT !.pauses = p] BY DEF Pauses
    <2> HIDE DEF p
    <2> QED BY <2>3, <2>4, <2>5 DEF Working, p
<1> QED BY <1>2, <1>3, <1>4

LEMMA InitTypes == ASSUME QueueInit PROVE QueueTypeOK
<1>1. 1 \in Nights /\ Attempts \in 1 .. Attempts /\ 0 \in 0 .. MaxStalled /\ 0 \in 0 .. MaxFailures
    BY QueueAssumption DEF QueueInit, Nights
<1>2. <<>> \in Seq(Jobs) OBVIOUS
<1>3. /\ worker = [k \in Kinds |-> Resting] /\ sync = [k \in Kinds |-> Resting] /\ chain = <<>>
      /\ night = 1 /\ moved = {} /\ slipped = {} /\ failures = 0
    BY DEF QueueInit
<1>5. /\ worker \in [Kinds -> (UNION {Working(k) : k \in Kinds}) \cup {Resting}]
      /\ sync \in [Kinds -> Syncing \cup {Resting}]
      /\ \A k \in Kinds : worker[k] \in Working(k) \cup {Resting}
    BY <1>3
<1>6. moved \in SUBSET Kinds /\ slipped \in SUBSET Kinds BY <1>3
<1>4. /\ state \in [Jobs -> States] /\ left \in [Jobs -> 1 .. Attempts]
      /\ stalls \in [Jobs -> 0 .. MaxStalled]
    BY <1>1 DEF QueueInit, States
<1> QED BY <1>1, <1>2, <1>3, <1>4, <1>5, <1>6 DEF QueueTypeOK

\* What a step leaves alone keeps its type.
LEMMA StepTypes == ASSUME QueueTypeOK, ChainInv, QueueNext PROVE QueueTypeOK'
<1>0. Resting \in (UNION {Working(l) : l \in Kinds}) \cup {Resting} OBVIOUS
<1>1. CASE NextNight
    <2>1. night + 1 \in Nights BY <1>1, QueueAssumption DEF NextNight, Nights, QueueTypeOK
    <2> QED BY <1>1, <2>1 DEF NextNight, QueueTypeOK, queue, causes
<1>2. CASE Crash
    <2>1. failures + 1 \in 0 .. MaxFailures BY <1>2, QueueAssumption DEF Crash, QueueTypeOK
    <2>2. <<>> \in Seq(Jobs) OBVIOUS
    <2>3. /\ worker' \in [Kinds -> (UNION {Working(k) : k \in Kinds}) \cup {Resting}]
          /\ \A k \in Kinds : worker'[k] \in Working(k) \cup {Resting}
          /\ sync' \in [Kinds -> Syncing \cup {Resting}]
        BY <1>2, <1>0 DEF Crash
    <2> QED BY <1>2, <2>1, <2>2, <2>3 DEF Crash, QueueTypeOK, queue
<1>3. ASSUME NEW k \in Kinds, Fire(k) PROVE QueueTypeOK'
    <2>1. [at |-> 1, todo |-> Categories] \in Syncing BY ReadsAre DEF Syncing
    <2> QED BY <1>3, <2>1 DEF Fire, QueueTypeOK, queue
<1>4. ASSUME NEW k \in Kinds, ReadCount(k) PROVE QueueTypeOK'
    <2>1. sync' \in [Kinds -> Syncing \cup {Resting}] /\ moved' \subseteq moved
        BY <1>4, ReadCountDoes
    <2> QED BY <1>4, <2>1 DEF ReadCount, QueueTypeOK, queue
<1>5. ASSUME NEW k \in Kinds, NEW c \in Categories, AddJob(k, c) PROVE QueueTypeOK'
    <2>1. /\ sync' \in [Kinds -> Syncing \cup {Resting}] /\ moved' \subseteq moved
          /\ state' \in [Jobs -> States] /\ slipped' = slipped \cup (moved \cap {k})
        BY <1>5, AddJobDoes
    <2>2. slipped' \in SUBSET Kinds /\ moved' \in SUBSET Kinds BY <2>1 DEF QueueTypeOK
    <2> QED BY <1>5, <2>1, <2>2 DEF AddJob, QueueTypeOK
<1>6. ASSUME NEW k \in Kinds, Work(k) PROVE QueueTypeOK'
    <2>1. CASE Enter(k)
        <3>1. [worker[k] EXCEPT !.at = "running"] \in Working(k) BY <2>1, WorkerShapes
        <3>2. worker' = [worker EXCEPT ![k] = [worker[k] EXCEPT !.at = "running"]]
            BY <2>1 DEF Enter, QueueTypeOK
        <3> DEFINE w == [worker[k] EXCEPT !.at = "running"]
        <3> HIDE DEF w
        <3>3. /\ worker' \in [Kinds -> (UNION {Working(l) : l \in Kinds}) \cup {Resting}]
              /\ \A l \in Kinds : worker'[l] \in Working(l) \cup {Resting}
            BY <3>1, <3>2, WorkerTypes DEF w
        <3> QED BY <2>1, <3>3 DEF Enter, QueueTypeOK, queue, causes
    <2>2. CASE Proceed(k)
        <3>1. PICK w \in Working(k) : worker' = [worker EXCEPT ![k] = w]
            BY <2>2, WorkerShapes
        <3>2. /\ worker' \in [Kinds -> (UNION {Working(l) : l \in Kinds}) \cup {Resting}]
              /\ \A l \in Kinds : worker'[l] \in Working(l) \cup {Resting}
            BY <3>1, WorkerTypes
        <3> QED BY <2>2, <3>2 DEF Proceed, QueueTypeOK, queue, causes
    <2>3. CASE Pause(k)
        <3>1. Pauses(k) \in Working(k) BY <2>3, WorkerShapes
        <3>2. worker' = [worker EXCEPT ![k] = Pauses(k)] BY <2>3 DEF Pause
        <3>3. /\ worker' \in [Kinds -> (UNION {Working(l) : l \in Kinds}) \cup {Resting}]
              /\ \A l \in Kinds : worker'[l] \in Working(l) \cup {Resting}
            BY <3>1, <3>2, WorkerTypes
        <3> QED BY <2>3, <3>3 DEF Pause, QueueTypeOK, queue, causes
    <2>4. CASE Complete(k)
        <3>1. /\ worker' \in [Kinds -> (UNION {Working(l) : l \in Kinds}) \cup {Resting}]
              /\ \A l \in Kinds : worker'[l] \in Working(l) \cup {Resting}
            BY <2>4, WorkerTypes DEF Complete
        <3> QED BY <2>4, <3>1, CompleteDoes DEF Complete, QueueTypeOK, causes
    <2>5. CASE PausedTooLong(k)
        <3>1. /\ worker' \in [Kinds -> (UNION {Working(l) : l \in Kinds}) \cup {Resting}]
              /\ \A l \in Kinds : worker'[l] \in Working(l) \cup {Resting}
            BY <2>5, WorkerTypes DEF PausedTooLong, Throws
        <3>2. Running(k) /\ Throws(k) /\ failures' = failures BY <2>5 DEF PausedTooLong
        <3> QED BY <3>1, <3>2, ThrowsDoes DEF QueueTypeOK
    <2> QED BY <1>6, <2>1, <2>2, <2>3, <2>4, <2>5 DEF Work
<1>7. ASSUME NEW k \in Kinds, Throw(k) PROVE QueueTypeOK'
    <2>1. /\ worker' \in [Kinds -> (UNION {Working(l) : l \in Kinds}) \cup {Resting}]
          /\ \A l \in Kinds : worker'[l] \in Working(l) \cup {Resting}
        BY <1>7, WorkerTypes DEF Throw, Throws
    <2>2. Running(k) /\ Throws(k) /\ failures' \in 0 .. MaxFailures
        BY <1>7, QueueAssumption DEF Throw, QueueTypeOK
    <2> QED BY <2>1, <2>2, ThrowsDoes DEF QueueTypeOK
<1>8. ASSUME NEW j \in Jobs, Promote(j) PROVE QueueTypeOK'
    <2>1. state' \in [Jobs -> States] BY <1>8 DEF Promote, QueueTypeOK, States
    <2>2. moved' \in SUBSET Kinds BY <1>8 DEF Promote, QueueTypeOK, Reading
    <2> QED BY <1>8, <2>1, <2>2 DEF Promote, QueueTypeOK
<1>9. ASSUME NEW j \in Jobs, Take(j) PROVE QueueTypeOK'
    <2> DEFINE w == [at |-> "queued", job |-> j, batches |-> Batches[j.kind], pauses |-> 0]
    <2>1. j.kind \in Kinds /\ Batches[j.kind] \in Nat /\ MaxPauses \in Nat
        BY JobFields, BatchesAssumption, QueueAssumption
    <2>2. w \in Working(j.kind) BY <2>1 DEF Working
    <2>3. worker' = [worker EXCEPT ![j.kind] = w] BY <1>9 DEF Take
    <2> HIDE DEF w
    <2>4. /\ worker' \in [Kinds -> (UNION {Working(l) : l \in Kinds}) \cup {Resting}]
          /\ \A l \in Kinds : worker'[l] \in Working(l) \cup {Resting}
        BY <2>1, <2>2, <2>3, WorkerTypes
    <2>5. state' \in [Jobs -> States] BY <1>9 DEF Take, QueueTypeOK, States
    <2>6. chain' \in Seq(Jobs) BY <1>9 DEF Take, QueueTypeOK
    <2> QED BY <1>9, <2>4, <2>5, <2>6 DEF Take, QueueTypeOK, causes
<1>10. ASSUME NEW j \in Jobs, Stall(j) PROVE QueueTypeOK'
    <2>1. moved' \in SUBSET Kinds BY <1>10, StallDoes DEF QueueTypeOK, Reading
    <2> QED BY <1>10, <2>1, StallDoes DEF Stall, QueueTypeOK
<1> QED BY <1>1, <1>2, <1>3, <1>4, <1>5, <1>6, <1>7, <1>8, <1>9, <1>10 DEF QueueNext

-------------------------------------------------------------------------------
(* The chain holds what the workers do.                                    *)

LEMMA StepChain == ASSUME QueueTypeOK, ChainInv, QueueNext PROVE ChainInv'
<1>0. \A k \in Kinds : worker[k] # Resting => worker[k].job \in Jobs /\ state[worker[k].job] = "active"
    BY Workers DEF ChainInv
<1>1. CASE NextNight \/ \E k \in Kinds : Fire(k) \/ ReadCount(k)
    BY <1>1, ChainSame DEF NextNight, Fire, ReadCount, queue, Running
<1>2. CASE Crash
    <2>1. Len(chain') = 0 BY <1>2 DEF Crash
    <2>2. \A k \in Kinds : worker'[k] = Resting BY <1>2 DEF Crash
    <2> QED BY <2>1, <2>2 DEF ChainInv
<1>3. ASSUME NEW k \in Kinds, NEW c \in Categories, AddJob(k, c) PROVE ChainInv'
    <2>1. \A j \in Jobs : state[j] = "active" => state'[j] = "active"
        <3> DEFINE i == [kind |-> k, category |-> c, day |-> night]
        <3>1. /\ \A j \in Jobs : j # i => state'[j] = state[j]
              /\ state[i] # "none" => state'[i] = state[i]
            BY <1>3, AddJobDoes
        <3> HIDE DEF i
        <3> QED BY <3>1
    <2>2. worker' = worker /\ chain' = chain BY <1>3 DEF AddJob
    <2> QED BY <1>0, <2>1, <2>2, ChainSame DEF Running
<1>4. ASSUME NEW k \in Kinds, NEW w \in Working(k), worker[k] # Resting, w.job = worker[k].job,
             worker' = [worker EXCEPT ![k] = w], chain' = chain, state' = state,
             w.at = "running" => Running(k) \/ Head(chain) = worker[k].job
      PROVE  ChainInv'
    <2>1. \A l \in Kinds : worker'[l] = IF l = k THEN w ELSE worker[l] BY <1>4 DEF QueueTypeOK
    <2>2. w # Resting BY IdleIs
    <2> QED BY <1>4, <2>1, <2>2, ChainSame DEF Running
<1>5. ASSUME NEW k \in Kinds, Work(k) PROVE ChainInv'
    <2>1. CASE Enter(k)
        <3> DEFINE w == [worker[k] EXCEPT !.at = "running"]
        <3>1. w \in Working(k) /\ w.job = worker[k].job BY <2>1, WorkerShapes
        <3>2. worker' = [worker EXCEPT ![k] = w] BY <2>1 DEF Enter, QueueTypeOK
        <3>3. worker[k] # Resting /\ Head(chain) = worker[k].job /\ chain' = chain /\ state' = state
            BY <2>1, IdleIs DEF Enter, Turn, queue
        <3> HIDE DEF w
        <3> QED BY <1>4, <3>1, <3>2, <3>3
    <2>2. CASE Proceed(k)
        <3>1. PICK w \in Working(k) : w.job = worker[k].job /\ w.at = worker[k].at
                                /\ worker' = [worker EXCEPT ![k] = w]
            BY <2>2, WorkerShapes
        <3>2. worker[k] # Resting /\ Running(k) /\ chain' = chain /\ state' = state
            BY <2>2, IdleIs DEF Proceed, Running, queue
        <3> QED BY <1>4, <3>1, <3>2
    <2>3. CASE Pause(k)
        <3>1. Pauses(k) \in Working(k) /\ Pauses(k).job = worker[k].job BY <2>3, WorkerShapes
        <3>2. /\ worker[k] # Resting /\ Running(k) /\ chain' = chain /\ state' = state
              /\ worker' = [worker EXCEPT ![k] = Pauses(k)]
            BY <2>3, IdleIs DEF Pause, Running, queue
        <3> QED BY <1>4, <3>1, <3>2
    <2>4. CASE Complete(k) BY <2>4, CompleteDoes
    <2>5. CASE PausedTooLong(k) BY <2>5, ThrowsDoes DEF PausedTooLong
    <2> QED BY <1>5, <2>1, <2>2, <2>3, <2>4, <2>5 DEF Work
<1>6. ASSUME NEW k \in Kinds, Throw(k) PROVE ChainInv' BY <1>6, ThrowsDoes DEF Throw
<1>7. ASSUME NEW j \in Jobs, Promote(j) PROVE ChainInv'
    <2>1. \A i \in Jobs : state[i] = "active" => state'[i] = "active"
        BY <1>7 DEF Promote, QueueTypeOK
    <2>2. worker' = worker /\ chain' = chain BY <1>7 DEF Promote
    <2> QED BY <1>0, <2>1, <2>2, ChainSame DEF Running
<1>8. ASSUME NEW j \in Jobs, Take(j) \/ Stall(j) PROVE ChainInv' BY <1>8, TakeChain, StallDoes
<1> QED BY <1>1, <1>2, <1>3, <1>5, <1>6, <1>7, <1>8 DEF QueueNext

-------------------------------------------------------------------------------
(* What the crons have seen.                                               *)

\* A cron service that goes on as it was, and whose jobs are in no state it
\* counted that they were not in before, keeps its view.
LEMMA ViewKept ==
    ASSUME SyncInv, NEW k \in Kinds,
           sync'[k] = sync[k], k \notin moved' => k \notin moved,
           NEW j \in Jobs, j.kind = k, Seen(k, j)' /\ k \notin moved' => Seen(k, j)
    PROVE  sync'[k] # Resting /\ k \notin moved' /\ Seen(k, j)' =>
               sync'[k].at > Len(Reads) /\ j.category \notin sync'[k].todo
BY DEF SyncInv

\* Where no state changes but for the better.
LEMMA SyncSame ==
    ASSUME QueueTypeOK, QueueTypeOK', SyncInv, sync' = sync, moved \subseteq moved',
           \A j \in Jobs : \/ state'[j] = state[j]
                           \/ state'[j] \in {"none", "completed", "failed"}
                           \/ state[j] = "waiting" /\ state'[j] = "active"
                           \/ state[j] = "active" /\ state'[j] = "delayed"
                           \/ state'[j] = "waiting" /\ state[j] \in {"active", "delayed"}
                                /\ Reading \subseteq moved'
    PROVE  SyncInv'
<1> SUFFICES ASSUME NEW k \in Kinds, NEW j \in Jobs, sync'[k] # Resting, k \notin moved',
                    j.kind = k, Seen(k, j)'
             PROVE  sync'[k].at > Len(Reads) /\ j.category \notin sync'[k].todo
    BY DEF SyncInv
<1>1. sync[k] # Resting /\ sync'[k] = sync[k] /\ k \notin moved OBVIOUS
<1>2. /\ sync[k].at \in {1, 2, 3, 4}
      /\ Seen(k, j) <=> \/ sync[k].at > 1 /\ state[j] = "waiting"
                        \/ sync[k].at > 2 /\ state[j] = "active"
                        \/ sync[k].at > 3 /\ state[j] = "delayed"
    BY <1>1, SeenIs
<1>3. \/ sync[k].at > 1 /\ state'[j] = "waiting"
      \/ sync[k].at > 2 /\ state'[j] = "active"
      \/ sync[k].at > 3 /\ state'[j] = "delayed"
    <2> USE DEF Seen
    <2>1. PICK n \in 1 .. 3 : n < sync[k].at /\ state'[j] = Reads[n] BY <1>1, ReadsAre
    <2>2. n \in {1, 2, 3} OBVIOUS
    <2> QED BY <1>2, <2>1, <2>2, ReadsAre
<1>4. k \notin Reading \/ ~(Reading \subseteq moved') OBVIOUS
<1>5. k \notin Reading => sync[k].at \in {1, 4} BY <1>1, <1>2, ReadsAre DEF Reading
<1>6. Seen(k, j) BY <1>2, <1>3, <1>4, <1>5
<1> QED BY <1>1, <1>6 DEF SyncInv

\* Of one cron service the place changes, of no job the state.
LEMMA SeenLater ==
    ASSUME QueueTypeOK', NEW k \in Kinds, sync'[k] # Resting, NEW j \in Jobs
    PROVE  /\ sync'[k].at \in {1, 2, 3, 4}
           /\ Seen(k, j)' <=> \/ sync'[k].at > 1 /\ state'[j] = "waiting"
                              \/ sync'[k].at > 2 /\ state'[j] = "active"
                              \/ sync'[k].at > 3 /\ state'[j] = "delayed"
<1>1. sync'[k] \in Syncing BY DEF QueueTypeOK
<1>2. sync'[k].at \in 1 .. 4 BY <1>1, ReadsAre DEF Syncing
<1>3. 1 .. Len(Reads) = {1, 2, 3} BY ReadsAre
<1> QED BY <1>2, <1>3, ReadsAre DEF Seen

LEMMA StepSync == ASSUME QueueTypeOK, QueueTypeOK', ChainInv, SyncInv, QueueNext PROVE SyncInv'
<1>1. CASE NextNight BY <1>1, SyncSame DEF NextNight, queue, causes
<1>2. CASE Crash BY <1>2 DEF Crash, SyncInv
<1>3. ASSUME NEW k \in Kinds, Fire(k) PROVE SyncInv'
    <2> SUFFICES ASSUME NEW l \in Kinds, NEW j \in Jobs, sync'[l] # Resting, l \notin moved',
                        j.kind = l, Seen(l, j)'
                 PROVE  sync'[l].at > Len(Reads) /\ j.category \notin sync'[l].todo
        BY DEF SyncInv
    <2>1. l # k
        <3>1. sync'[k] = [at |-> 1, todo |-> Categories] BY <1>3 DEF Fire, QueueTypeOK
        <3>2. sync'[k].at = 1 BY <3>1
        <3> QED BY <3>2, SeenLater
    <2>2. sync'[l] = sync[l] /\ l \notin moved /\ state' = state
        BY <1>3, <2>1 DEF Fire, QueueTypeOK, queue
    <2> QED BY <2>2 DEF SyncInv, Seen
<1>4. ASSUME NEW k \in Kinds, ReadCount(k) PROVE SyncInv'
    <2> SUFFICES ASSUME NEW l \in Kinds, NEW j \in Jobs, sync'[l] # Resting, l \notin moved',
                        j.kind = l, Seen(l, j)'
                 PROVE  sync'[l].at > Len(Reads) /\ j.category \notin sync'[l].todo
        BY DEF SyncInv
    <2>1. state' = state BY <1>4 DEF ReadCount, queue
    <2>2. CASE l # k
        <3>1. sync'[l] = sync[l] /\ l \notin moved BY <1>4, <2>2, ReadCountDoes
        <3> QED BY <2>1, <3>1 DEF SyncInv, Seen
    <2>3. CASE l = k
        <3>1. /\ sync[k] # Resting /\ sync[k].at \in {1, 2, 3} /\ k \notin moved
              /\ sync'[k].at = sync[k].at + 1 /\ state[j] # Reads[sync[k].at]
            BY <1>4, <2>3, ReadCountDoes
        <3>2. ~Seen(k, j) BY <2>3, <3>1, ReadsAre DEF SyncInv
        <3>3. ~Seen(k, j)'
            BY <2>1, <2>3, <3>1, <3>2, SeenIs, SeenLater, ReadsAre
        <3> QED BY <2>3, <3>3
    <2> QED BY <2>2, <2>3
<1>5. ASSUME NEW k \in Kinds, NEW c \in Categories, AddJob(k, c) PROVE SyncInv'
    <2> DEFINE i == [kind |-> k, category |-> c, day |-> night]
    <2>1. /\ i \in Jobs /\ i.kind = k /\ i.category = c
          /\ sync[k] # Resting /\ sync[k].at = 4 /\ c \in sync[k].todo
          /\ \A j \in Jobs : j # i => state'[j] = state[j]
          /\ \A l \in Kinds : l # k => sync'[l] = sync[l]
          /\ sync'[k] # Resting =>
               sync'[k].at = 4 /\ sync'[k].todo = sync[k].todo \ {c} /\ moved' = moved
          /\ moved \ {k} \subseteq moved'
        BY <1>5, AddJobDoes
    <2> HIDE DEF i
    <2> SUFFICES ASSUME NEW l \in Kinds, NEW j \in Jobs, sync'[l] # Resting, l \notin moved',
                        j.kind = l, Seen(l, j)'
                 PROVE  sync'[l].at > Len(Reads) /\ j.category \notin sync'[l].todo
        BY DEF SyncInv
    <2>2. CASE l # k
        <3>1. sync'[l] = sync[l] /\ l \notin moved /\ state'[j] = state[j] BY <2>1, <2>2
        <3> QED BY <3>1 DEF SyncInv, Seen
    <2>3. CASE l = k /\ j = i BY <2>1, <2>3, ReadsAre
    <2>4. CASE l = k /\ j # i
        <3>1. state'[j] = state[j] /\ k \notin moved BY <2>1, <2>4
        <3>2. Seen(k, j) BY <2>1, <2>4, <3>1, SeenIs, SeenLater
        <3>3. j.category \notin sync[k].todo BY <2>1, <2>4, <3>1, <3>2 DEF SyncInv
        <3> QED BY <2>1, <2>4, <3>3, ReadsAre
    <2> QED BY <2>2, <2>3, <2>4
<1>6. ASSUME NEW k \in Kinds, Work(k) \/ Throw(k) PROVE SyncInv'
    <2>1. CASE Enter(k) \/ Proceed(k) \/ Pause(k)
        BY <2>1, SyncSame DEF Enter, Proceed, Pause, queue, causes
    <2>2. CASE Complete(k)
        <3>1. /\ sync' = sync /\ moved' = moved
              /\ \A j \in Jobs : state'[j] = state[j] \/ state'[j] = "completed"
            BY <2>2, CompleteDoes
        <3> QED BY <3>1, SyncSame
    <2>3. CASE PausedTooLong(k) \/ Throw(k)
        <3>1. Running(k) /\ Throws(k) BY <2>3 DEF PausedTooLong, Throw
        <3>2. /\ sync' = sync /\ moved' = moved
              /\ \A j \in Jobs : \/ state'[j] = state[j] \/ state'[j] = "failed"
                                 \/ state[j] = "active" /\ state'[j] = "delayed"
            BY <3>1, ThrowsDoes
        <3> QED BY <3>2, SyncSame
    <2> QED BY <1>6, <2>1, <2>2, <2>3 DEF Work
<1>7. ASSUME NEW j \in Jobs, Promote(j) PROVE SyncInv'
    <2>1. /\ sync' = sync /\ moved' = moved \cup Reading
          /\ \A i \in Jobs : \/ state'[i] = state[i]
                             \/ state'[i] = "waiting" /\ state[i] = "delayed"
        BY <1>7 DEF Promote, QueueTypeOK
    <2> QED BY <2>1, SyncSame
<1>8. ASSUME NEW j \in Jobs, Take(j) PROVE SyncInv'
    <2>1. /\ sync' = sync /\ moved' = moved
          /\ \A i \in Jobs : \/ state'[i] = state[i]
                             \/ state[i] = "waiting" /\ state'[i] = "active"
        BY <1>8 DEF Take, QueueTypeOK, causes
    <2> QED BY <2>1, SyncSame
<1>9. ASSUME NEW j \in Jobs, Stall(j) PROVE SyncInv'
    <2>1. /\ sync' = sync /\ moved \subseteq moved'
          /\ \A i \in Jobs : \/ state'[i] = state[i] \/ state'[i] = "failed"
                             \/ state'[i] = "waiting" /\ state[i] = "active"
                                    /\ Reading \subseteq moved'
        BY <1>9, StallDoes DEF Stall
    <2> QED BY <2>1, SyncSame
<1> QED BY <1>1, <1>2, <1>3, <1>4, <1>5, <1>6, <1>7, <1>8, <1>9 DEF QueueNext

-------------------------------------------------------------------------------
(* Duplicates.                                                             *)

LEMMA StepDuplicates ==
    ASSUME QueueTypeOK, ChainInv, SyncInv, DuplicatesHaveACause, QueueNext
    PROVE  DuplicatesHaveACause'
<1>1. ASSUME slipped \subseteq slipped', \A j \in Jobs : Pending(j)' => Pending(j)
      PROVE  DuplicatesHaveACause'
    BY <1>1 DEF DuplicatesHaveACause
<1>2. ASSUME NEW k \in Kinds, NEW c \in Categories, AddJob(k, c) PROVE DuplicatesHaveACause'
    <2> DEFINE n == [kind |-> k, category |-> c, day |-> night]
    <2>1. /\ n \in Jobs /\ n.kind = k /\ n.category = c
          /\ sync[k] # Resting /\ sync[k].at = 4 /\ c \in sync[k].todo
          /\ \A j \in Jobs : j # n => state'[j] = state[j]
          /\ state[n] # "none" => state'[n] = state[n]
          /\ slipped' = slipped \cup (moved \cap {k})
        BY <1>2, AddJobDoes
    <2> HIDE DEF n
    <2>2. CASE k \in moved
        <3>1. k \in slipped' BY <2>1, <2>2
        <3>2. \A j \in Jobs : j.kind # k => (Pending(j)' => Pending(j)) BY <2>1 DEF Pending
        <3> QED BY <2>1, <3>1, <3>2 DEF DuplicatesHaveACause
    <2>3. CASE k \notin moved
        <3>1. ASSUME NEW j \in Jobs, j.kind = k, j.category = c PROVE ~Pending(j)
            <4>1. Pending(j) => Seen(k, j) BY <2>1, SeenIs DEF Pending
            <4> QED BY <2>1, <2>3, <3>1, <4>1 DEF SyncInv
        <3>2. \A j \in Jobs : j # n => (Pending(j)' => Pending(j)) BY <2>1 DEF Pending
        <3> QED BY <2>1, <3>1, <3>2 DEF DuplicatesHaveACause
    <2> QED BY <2>2, <2>3
<1>3. CASE NextNight \/ Crash
    BY <1>1, <1>3 DEF NextNight, Crash, queue, causes, Pending
<1>4. ASSUME NEW k \in Kinds, Fire(k) \/ ReadCount(k) PROVE DuplicatesHaveACause'
    BY <1>1, <1>4 DEF Fire, ReadCount, queue, Pending
<1>5. ASSUME NEW k \in Kinds, Work(k) \/ Throw(k) PROVE DuplicatesHaveACause'
    <2>1. CASE Enter(k) \/ Proceed(k) \/ Pause(k)
        BY <1>1, <2>1 DEF Enter, Proceed, Pause, queue, causes, Pending
    <2>2. CASE Complete(k)
        <3>1. /\ slipped' = slipped
              /\ \A j \in Jobs : state'[j] = state[j] \/ state'[j] = "completed"
            BY <2>2, CompleteDoes
        <3> QED BY <1>1, <3>1 DEF Pending
    <2>3. CASE PausedTooLong(k) \/ Throw(k)
        <3>1. Running(k) /\ Throws(k) BY <2>3 DEF PausedTooLong, Throw
        <3>2. /\ slipped' = slipped
              /\ \A j \in Jobs : \/ state'[j] = state[j] \/ state'[j] = "failed"
                                 \/ state[j] = "active" /\ state'[j] = "delayed"
            BY <3>1, ThrowsDoes
        <3> QED BY <1>1, <3>2 DEF Pending
    <2> QED BY <1>5, <2>1, <2>2, <2>3 DEF Work
<1>6. ASSUME NEW j \in Jobs, Promote(j) PROVE DuplicatesHaveACause'
    <2>1. /\ slipped' = slipped
          /\ \A i \in Jobs : state'[i] = state[i] \/ state[i] = "delayed"
        BY <1>6 DEF Promote, QueueTypeOK
    <2> QED BY <1>1, <2>1 DEF Pending
<1>7. ASSUME NEW j \in Jobs, Take(j) PROVE DuplicatesHaveACause'
    <2>1. /\ slipped' = slipped
          /\ \A i \in Jobs : state'[i] = state[i] \/ state[i] = "waiting"
        BY <1>7 DEF Take, QueueTypeOK, causes
    <2> QED BY <1>1, <2>1 DEF Pending
<1>8. ASSUME NEW j \in Jobs, Stall(j) PROVE DuplicatesHaveACause'
    <2>1. /\ slipped' = slipped
          /\ \A i \in Jobs : state'[i] = state[i] \/ state[i] = "active"
        BY <1>8, StallDoes DEF Stall
    <2> QED BY <1>1, <2>1 DEF Pending
<1> QED BY <1>2, <1>3, <1>4, <1>5, <1>6, <1>7, <1>8 DEF QueueNext

-------------------------------------------------------------------------------
(* The theorems.                                                           *)

LEMMA InitHolds == ASSUME QueueInit PROVE IInv
<1>1. QueueTypeOK BY InitTypes
<1>2. Len(chain) = 0 /\ (\A k \in Kinds : worker[k] = Resting /\ sync[k] = Resting)
      /\ (\A j \in Jobs : state[j] = "none")
    BY DEF QueueInit
<1>3. ChainInv BY <1>2 DEF ChainInv
<1>4. SyncInv BY <1>2 DEF SyncInv
<1>5. DuplicatesHaveACause BY <1>2 DEF DuplicatesHaveACause, Pending
<1> QED BY <1>1, <1>3, <1>4, <1>5 DEF IInv

LEMMA StutterHolds == ASSUME IInv, UNCHANGED queueVars PROVE IInv'
BY DEF IInv, queueVars, queue, causes, QueueTypeOK, ChainInv, Running, SyncInv, Seen,
       DuplicatesHaveACause, Pending

LEMMA InvariantHolds == QueueSpec => []IInv
<1>1. QueueInit => IInv BY InitHolds
<1>2. IInv /\ [QueueNext]_queueVars => IInv'
    <2>1. ASSUME IInv, QueueNext PROVE IInv'
        <3>1. QueueTypeOK' BY <2>1, StepTypes DEF IInv
        <3>2. ChainInv' BY <2>1, StepChain DEF IInv
        <3>3. SyncInv' BY <2>1, <3>1, StepSync DEF IInv
        <3>4. DuplicatesHaveACause' BY <2>1, StepDuplicates DEF IInv
        <3> QED BY <3>1, <3>2, <3>3, <3>4 DEF IInv
    <2> QED BY <2>1, StutterHolds
<1> QED BY <1>1, <1>2, PTL DEF QueueSpec

\* Every job has its attempts, its stalls and its state, every worker a job of
\* its own queue, and every cron service a count or a category to go on with:
\* the bookkeeping of import-mutex and of the two queues.
THEOREM Typing == QueueSpec => []QueueTypeOK
<1>1. IInv => QueueTypeOK BY DEF IInv
<1> QED BY <1>1, InvariantHolds, PTL

\* The chain that runExclusive builds lets one import run at a time, of either
\* queue; whoever waits in it waits for a worker; and the job of a worker is
\* active, so that a cron service which counts sees it.
THEOREM OneAtATime == QueueSpec => []OneImport
<1>1. ASSUME IInv PROVE OneImport
    <2>1. QueueTypeOK /\ ChainInv BY <1>1 DEF IInv
    <2>2. ASSUME NEW k \in Kinds, NEW l \in Kinds, Running(k), Running(l) PROVE k = l
        <3>1. worker[k] # Resting /\ worker[l] # Resting BY <2>2, IdleIs DEF Running
        <3>2. worker[k].job = worker[l].job BY <2>1, <2>2, <3>1 DEF ChainInv
        <3> QED BY <2>1, <3>1, <3>2, Workers
    <2>3. DOMAIN chain = 1 .. Len(chain) BY <2>1 DEF QueueTypeOK
    <2> QED BY <2>1, <2>2, <2>3 DEF OneImport, ChainInv
<1> QED BY <1>1, InvariantHolds, PTL

\* The count that getStatus takes keeps a category from having two pending
\* jobs, unless a job went back to waiting behind the counting.
THEOREM Duplicates == QueueSpec => []DuplicatesHaveACause
<1>1. IInv => DuplicatesHaveACause BY DEF IInv
<1> QED BY <1>1, InvariantHolds, PTL

-------------------------------------------------------------------------------
(* The import of the members, one of those that the queues run.            *)

\* What an attempt has done by the place it is at: it has merged the
\* profiles of its list, then their standings.
Listed(m)     == LinesOf(m, attempt.list.lines)
WithPoints(m) == PointsOf(m, attempt.list.lines)
Profiled(lines, of) ==
    \A m \in Members : LinesOf(m, lines) # {} =>
        of[m] = lines[Max(LinesOf(m, lines))].profile
PlaceInv ==
    /\ attempt.at \in {"points", "clean", "log"} => Profiled(attempt.list.lines, profile)
    /\ attempt.at = "points" => done = None
    /\ attempt.at \in {"clean", "log"} => HoldsList(attempt.list, attempt.day)

MembersInv == TypeOK /\ PlaceInv /\ Current

(* Days, lines and notifications. *)

LEMMA LargestIs ==
    ASSUME NEW N \in Nat, NEW S \in SUBSET (1 .. N), S # {}
    PROVE  Max(S) \in S /\ \A y \in S : y <= Max(S)
<1> DEFINE U == {u \in Nat : \A y \in S : y <= u}
<1>1. N \in U OBVIOUS
<1>2. IsWellFoundedOn(OpToRel(<, Nat), Nat) BY NatLessThanWellFounded
<1>3. PICK x \in U : \A u \in U : <<u, x>> \notin OpToRel(<, Nat) BY <1>1, <1>2, WFMin
<1>4. x \in Nat /\ \A y \in S : y <= x OBVIOUS
<1>5. \A u \in U : ~(u < x) BY <1>3 DEF OpToRel
<1>6. x \in S
    <2>1. SUFFICES ASSUME x \notin S PROVE FALSE OBVIOUS
    <2>2. \A y \in S : y \in Nat /\ y >= 1 /\ y < x BY <1>4, <2>1
    <2>3. x >= 1
        <3>1. PICK y \in S : TRUE OBVIOUS
        <3>2. y \in Nat /\ y >= 1 /\ y < x BY <2>2
        <3> QED BY <1>4, <3>2
    <2>4. x - 1 \in U BY <1>4, <2>2, <2>3
    <2> QED BY <1>4, <1>5, <2>4
<1>7. \A y \in S : x >= y BY <1>4
<1>8. Max(S) \in S /\ \A y \in S : Max(S) >= y BY <1>6, <1>7 DEF Max
<1> QED BY <1>8

LEMMA LaterIs ==
    ASSUME NEW a \in 0 .. MaxDay, NEW b \in 0 .. MaxDay
    PROVE  Max({a, b}) \in 0 .. MaxDay
<1>1. MaxDay \in Nat BY BoundsAssumption
<1>2. \E x \in {a, b} : \A y \in {a, b} : x >= y
    <2>1. CASE a >= b BY <2>1, <1>1
    <2>2. CASE b >= a BY <2>2, <1>1
    <2> QED BY <2>1, <2>2, <1>1
<1> QED BY <1>2 DEF Max

LEMMA DaysAreNumbers == Days \subseteq Int
BY BoundsAssumption DEF Days

LEMMA LatestIs ==
    ASSUME NEW of \in [Days -> Standings \cup {None}]
    PROVE  /\ DaysIn(of) = {} => LatestIn(of) = None
           /\ DaysIn(of) # {} =>
                  /\ Max(DaysIn(of)) \in DaysIn(of)
                  /\ \A d \in DaysIn(of) : d <= Max(DaysIn(of))
                  /\ LatestIn(of) = of[Max(DaysIn(of))]
                  /\ LatestIn(of) \in Standings
<1>1. DaysIn(of) \in SUBSET (1 .. MaxDay) /\ MaxDay \in Nat
    BY BoundsAssumption DEF DaysIn, Days
<1>2. CASE DaysIn(of) = {} BY <1>2 DEF LatestIn
<1>3. CASE DaysIn(of) # {}
    <2>1. /\ Max(DaysIn(of)) \in DaysIn(of)
          /\ \A d \in DaysIn(of) : d <= Max(DaysIn(of))
        BY <1>1, <1>3, LargestIs
    <2>2. LatestIn(of) = of[Max(DaysIn(of))]
        BY <1>3 DEF LatestIn
    <2>3. of[Max(DaysIn(of))] \in Standings
        BY <2>1 DEF DaysIn
    <2> QED BY <1>3, <2>1, <2>2, <2>3
<1> QED BY <1>2, <1>3

\* A standing that is stored under a day is the latest one, or a later day
\* has one, and then the latest one stays.
LEMMA LatestStored ==
    ASSUME NEW of \in [Days -> Standings \cup {None}], NEW day \in Days, NEW s \in Standings,
           None \notin Standings
    PROVE  LET as == [of EXCEPT ![day] = s]
           IN  \/ LatestIn(as) = s
               \/ Backdated(as, day) /\ LatestIn(as) = LatestIn(of)
<1> DEFINE as == [of EXCEPT ![day] = s]
           latest == Max(DaysIn(as))
<1>1. /\ as \in [Days -> Standings \cup {None}] /\ as[day] = s
      /\ \A d \in Days \ {day} : as[d] = of[d]
    OBVIOUS
<1> HIDE DEF as
<1>2. day \in DaysIn(as) BY <1>1 DEF DaysIn
<1>3. /\ latest \in DaysIn(as) /\ \A d \in DaysIn(as) : d <= latest
      /\ LatestIn(as) = as[latest]
    BY <1>1, <1>2, LatestIs
<1>4. CASE latest = day BY <1>1, <1>3, <1>4
<1>5. CASE latest # day
    <2>1. latest \in Days /\ latest > day
        <3>1. latest \in Days /\ day <= latest BY <1>2, <1>3 DEF DaysIn
        <3>2. PICK l \in Int : l = latest BY <3>1, DaysAreNumbers
        <3>3. day \in Int /\ day <= l /\ l # day BY <1>5, <3>1, <3>2, DaysAreNumbers
        <3>4. l > day BY <3>3
        <3> QED BY <3>1, <3>2, <3>4
    <2>2. Backdated(as, day) BY <1>3, <2>1 DEF Backdated
    <2>3. latest \in DaysIn(of) BY <1>1, <1>3, <1>5, <2>1 DEF DaysIn
    <2>4. /\ Max(DaysIn(of)) \in DaysIn(of) /\ latest <= Max(DaysIn(of))
          /\ LatestIn(of) = of[Max(DaysIn(of))]
        BY <2>3, LatestIs
    <2>5. Max(DaysIn(of)) # day BY <2>1, <2>4 DEF DaysIn, Days
    <2>6. Max(DaysIn(of)) \in DaysIn(as) BY <1>1, <2>4, <2>5 DEF DaysIn
    <2>7. Max(DaysIn(of)) = latest
        <3>1. Max(DaysIn(of)) <= latest BY <1>3, <2>6
        <3>2. Max(DaysIn(of)) \in Days BY <2>4 DEF DaysIn
        <3>3. PICK a \in Int, b \in Int : a = Max(DaysIn(of)) /\ b = latest
            BY <2>1, <3>2, DaysAreNumbers
        <3>4. a <= b /\ b <= a BY <2>4, <3>1, <3>3
        <3>5. a = b BY <3>4
        <3> QED BY <3>3, <3>5
    <2>8. LatestIn(as) = LatestIn(of) BY <1>1, <1>3, <1>5, <2>1, <2>4, <2>7
    <2> QED BY <2>2, <2>8 DEF as
<1> QED BY <1>4, <1>5 DEF as

\* One notification after the other, each once.
LEMMA QueuedInSequence ==
    ASSUME NEW S, IsFiniteSet(S)
    PROVE  /\ SetToSeq(S) \in Seq(S)
           /\ \A x \in S : \E n \in 1 .. Len(SetToSeq(S)) : SetToSeq(S)[n] = x
<1> DEFINE c == Cardinality(S)
<1>1. c \in Nat /\ ExistsBijection(1 .. c, S) BY FS_CardinalityType
<1>2. PICK f \in Bijection(1 .. c, S) : TRUE BY <1>1 DEF ExistsBijection
<1>3. f \in [1 .. c -> S] /\ IsInjective(f)
    BY <1>2 DEF Bijection, Injection, IsInjective, IsInjective
<1>4. \E g \in [1 .. c -> S] : IsInjective(g) BY <1>3
<1> DEFINE g == SetToSeq(S)
<1>5. g = CHOOSE h \in [1 .. c -> S] : IsInjective(h)
    <2>1. Cardinality(S) = Cardinality(S) BY DEF Cardinality, Cardinality
    <2> QED BY <2>1 DEF SetToSeq
<1> HIDE DEF g
<1>6. g \in [1 .. c -> S] /\ IsInjective(g) BY <1>4, <1>5
<1>7. g \in Injection(1 .. c, S) BY <1>6 DEF Injection, IsInjective, IsInjective
<1>8. IsFiniteSet(1 .. c) /\ Cardinality(1 .. c) = c
    <2>1. PICK n \in Nat : n = c BY <1>1
    <2>2. IsFiniteSet(1 .. n) /\ Cardinality(1 .. n) = IF 1 > n THEN 0 ELSE n - 1 + 1
        BY FS_Interval
    <2> QED BY <2>1, <2>2
<1>9. g \in Surjection(1 .. c, S) BY <1>7, <1>8, FS_Injection
<1>10. \A x \in S : \E n \in 1 .. c : g[n] = x BY <1>9 DEF Surjection
<1>11. g \in Seq(S) /\ Len(g) = c BY <1>1, <1>6
<1> QED BY <1>10, <1>11 DEF g

\* What an attempt reads of its list.
LEMMA LineRead ==
    ASSUME NEW lines \in Seq(Line), NEW S \in SUBSET DOMAIN lines, S # {}
    PROVE  Max(S) \in S /\ lines[Max(S)] \in Line
<1>1. Len(lines) \in Nat /\ DOMAIN lines = 1 .. Len(lines) BY LenProperties
<1>2. Max(S) \in S BY <1>1, LargestIs
<1> QED BY <1>1, <1>2, ElementOfSeq

LEMMA LinesRead ==
    ASSUME TypeOK, NEW m \in Members
    PROVE  /\ attempt.list.lines \in Seq(Line) /\ attempt.day \in Days
           /\ Listed(m) # {} => Deduped(Listed(m)).profile \in Profiles
           /\ WithPoints(m) # {} => Deduped(WithPoints(m)).standing \in Standings
<1>1. attempt.list.lines \in Seq(Line) /\ attempt.day \in Days
    BY ListsAssumption DEF TypeOK, List
<1>2. Listed(m) \in SUBSET DOMAIN attempt.list.lines BY DEF Listed, LinesOf
<1>3. WithPoints(m) \in SUBSET DOMAIN attempt.list.lines
    BY DEF WithPoints, PointsOf, LinesOf
<1>4. ASSUME Listed(m) # {} PROVE Deduped(Listed(m)).profile \in Profiles
    BY <1>1, <1>2, <1>4, LineRead DEF Deduped, Line
<1>5. ASSUME WithPoints(m) # {} PROVE Deduped(WithPoints(m)).standing \in Standings
    <2> DEFINE n == Max(WithPoints(m))
    <2>1. n \in WithPoints(m) /\ attempt.list.lines[n] \in Line
        BY <1>1, <1>3, <1>5, LineRead
    <2>2. attempt.list.lines[n].standing # None
        BY <2>1 DEF WithPoints, PointsOf
    <2> QED BY <2>1, <2>2 DEF Deduped, Line
<1> QED BY <1>1, <1>4, <1>5

\* What the statement that merges standings leaves of a member.
Told(m) == Deduped(WithPoints(m)).standing
LEMMA StandingsMerged ==
    ASSUME MembersInv, MergePoints, NEW m \in Members
    PROVE  /\ points'[m] \in [Days -> Standings \cup {None}]
           /\ m \in Stored =>
                  /\ WithPoints(m) # {} /\ Told(m) \in Standings
                  /\ \/ LatestIn(points'[m]) = Told(m)
                     \/ /\ Backdated(points'[m], attempt.day)
                        /\ LatestIn(points'[m]) = Latest(m)
           /\ m \notin Stored => points'[m] = points[m]
           /\ WithPoints(m) # {} =>
                  \/ LatestIn(points'[m]) = Told(m)
                  \/ Backdated(points'[m], attempt.day)
<1>1. /\ points[m] \in [Days -> Standings \cup {None}] /\ attempt.day \in Days
      /\ None \notin Standings
    BY LinesRead, NoneAssumption DEF MembersInv, TypeOK
<1>2. CASE m \in Stored
    <2>1. WithPoints(m) # {} BY <1>2 DEF Stored, Candidates, StagedPoints, WithPoints
    <2>2. Told(m) \in Standings BY <2>1, LinesRead DEF Told, MembersInv
    <2>3. points'[m] = [points[m] EXCEPT ![attempt.day] = Told(m)]
        BY <1>2 DEF MergePoints, Told, StagedPoints, WithPoints
    <2> QED BY <1>1, <1>2, <2>1, <2>2, <2>3, LatestStored DEF Latest
<1>3. CASE m \notin Stored
    <2>1. points'[m] = points[m] BY <1>3 DEF MergePoints
    <2>2. ASSUME WithPoints(m) # {}, Latest(m) # Told(m)
          PROVE  Backdated(points[m], attempt.day)
        <3> DEFINE latest == Max(DaysIn(points[m]))
        <3>1. points[m][attempt.day] = Told(m)
            BY <1>3, <2>2 DEF Stored, Candidates, Previous, StagedPoints, WithPoints, Told
        <3>2. Told(m) # None BY <1>1, <2>2, LinesRead DEF Told, MembersInv
        <3>3. attempt.day \in DaysIn(points[m]) BY <1>1, <3>1, <3>2 DEF DaysIn
        <3>4. /\ latest \in DaysIn(points[m]) /\ attempt.day <= latest
              /\ Latest(m) = points[m][latest]
            BY <1>1, <3>3, LatestIs DEF Latest
        <3>5. latest # attempt.day BY <2>2, <3>1, <3>4
        <3>6. latest > attempt.day
            <4>1. PICK l \in Int : l = latest BY <3>4, DaysAreNumbers DEF DaysIn
            <4>2. attempt.day \in Int /\ attempt.day <= l /\ l # attempt.day
                BY <1>1, <3>4, <3>5, <4>1, DaysAreNumbers
            <4>3. l > attempt.day BY <4>2
            <4> QED BY <4>1, <4>3
        <3> QED BY <3>4, <3>6 DEF Backdated
    <2> QED BY <1>1, <1>3, <2>1, <2>2 DEF Latest
<1> QED BY <1>2, <1>3

\* The table of standings decides whether it holds a list, with the profiles.
LEMMA HoldingStays ==
    ASSUME NEW list, NEW day, HoldsList(list, day),
           profile' = profile, points' = points
    PROVE  HoldsList(list, day)'
BY DEF HoldsList, Latest, LatestIn, DaysIn, Backdated

LEMMA ListHeld ==
    ASSUME MembersInv, MergePoints
    PROVE  HoldsList(attempt.list, attempt.day)'
<1>1. /\ profile' = profile /\ attempt'.list = attempt.list /\ attempt'.day = attempt.day
    BY DEF MergePoints, MembersInv, TypeOK
<1>2. ASSUME NEW m \in Members, Listed(m) # {}
      PROVE  profile[m] = attempt.list.lines[Max(Listed(m))].profile
    BY <1>2 DEF MergePoints, At, MembersInv, PlaceInv, Profiled, Listed
<1>3. ASSUME NEW m \in Members, WithPoints(m) # {}
      PROVE  \/ LatestIn(points'[m]) = attempt.list.lines[Max(WithPoints(m))].standing
             \/ Backdated(points'[m], attempt.day)
    BY <1>3, StandingsMerged DEF Told, Deduped
<1> DEFINE list == attempt.list
<1>4. ASSUME NEW m \in Members
      PROVE  /\ LinesOf(m, list.lines) # {} =>
                    profile'[m] = list.lines[Max(LinesOf(m, list.lines))].profile
             /\ PointsOf(m, list.lines) # {} =>
                    \/ LatestIn(points'[m])
                            = list.lines[Max(PointsOf(m, list.lines))].standing
                    \/ Backdated(points'[m], attempt.day)
    BY <1>1, <1>2, <1>3 DEF Listed, WithPoints
<1>5. attempt'.list = list /\ attempt'.day = attempt.day BY <1>1
<1> HIDE DEF list
<1> QED BY <1>4, <1>5 DEF HoldsList, Latest, LatestIn, DaysIn, Backdated, LinesOf, PointsOf

\* Every notification that is queued tells a standing that is stored.
LEMMA QueuedIs ==
    ASSUME MembersInv, MergePoints
    PROVE  /\ IsFiniteSet({Notification(m) : m \in Queued})
           /\ {Notification(m) : m \in Queued} \subseteq Event
           /\ Queued \subseteq Notified /\ Notified \subseteq Stored
           /\ Stored \subseteq Members
           /\ \A m \in Queued :
                  /\ Notification(m).member = m /\ Notification(m).day = attempt.day
                  /\ Notification(m).new = Told(m)
<1>1. Queued \subseteq Notified /\ Notified \subseteq Stored /\ Stored \subseteq Members
    BY DEF Queued, Notified, Stored, Candidates
<1>2. IsFiniteSet(Queued) BY <1>1, FS_Subset, MembersAssumption
<1>3. IsFiniteSet({Notification(m) : m \in Queued})
    <2> DEFINE T == {Notification(m) : m \in Queued}
               f == [m \in Queued |-> Notification(m)]
    <2>1. f \in Surjection(Queued, T) BY DEF Surjection
    <2> HIDE DEF f, T
    <2>2. IsFiniteSet(T) BY <1>2, <2>1, FS_Surjection
    <2> QED BY <2>2 DEF T
<1>4. ASSUME NEW m \in Queued
      PROVE  /\ Notification(m) \in Event
             /\ Notification(m).member = m /\ Notification(m).day = attempt.day
             /\ Notification(m).new = Told(m)
    <2>1. m \in Members /\ m \in Stored /\ m \in Notified BY <1>1
    <2>2. Notification(m) = [member |-> m, day |-> attempt.day, old |-> Previous(m),
                               new |-> Told(m)]
        BY DEF Notification, Told, StagedPoints, WithPoints
    <2>3. Told(m) \in Standings BY <2>1, StandingsMerged
    <2>4. Previous(m) \in Standings
        <3>1. Previous(m) # None BY <2>1 DEF Notified
        <3>2. points[m] \in [Days -> Standings \cup {None}]
            BY <2>1 DEF MembersInv, TypeOK
        <3> QED BY <3>1, <3>2, LatestIs DEF Previous, Latest
    <2>5. attempt.day \in Days BY <2>1, LinesRead DEF MembersInv
    <2> QED BY <2>1, <2>2, <2>3, <2>4, <2>5 DEF Event
<1> QED BY <1>1, <1>3, <1>4

\* The outbox grows at its end.
LEMMA OutboxGrown ==
    ASSUME MembersInv, MergePoints
    PROVE  /\ outbox' \in Seq(Event)
           /\ \A n \in DOMAIN outbox : n \in DOMAIN outbox' /\ outbox'[n] = outbox[n]
           /\ \A m \in Queued : \E n \in DOMAIN outbox' : outbox'[n] = Notification(m)
           /\ \A n \in DOMAIN outbox' \ DOMAIN outbox :
                  \E m \in Queued : outbox'[n] = Notification(m)
<1> DEFINE S == {Notification(m) : m \in Queued}
           q == SetToSeq(S)
<1>1. S \subseteq Event /\ IsFiniteSet(S) BY QueuedIs
<1>2. q \in Seq(S) /\ \A x \in S : \E n \in 1 .. Len(q) : q[n] = x BY <1>1, QueuedInSequence
<1>3. outbox \in Seq(Event) /\ q \in Seq(Event)
    BY <1>1, <1>2, SeqMonotonic DEF MembersInv, TypeOK
<1>4. outbox' = outbox \o q BY DEF MergePoints
<1>5. \A m \in Queued : Notification(m) \in S OBVIOUS
<1>6. \A x \in S : \E m \in Queued : x = Notification(m) OBVIOUS
<1> HIDE DEF S, q
<1>7. /\ outbox' \in Seq(Event) /\ Len(outbox') = Len(outbox) + Len(q)
      /\ \A i \in 1 .. Len(outbox) + Len(q) :
             outbox'[i] = IF i <= Len(outbox) THEN outbox[i] ELSE q[i - Len(outbox)]
    BY <1>3, <1>4, ConcatProperties
<1>8. /\ Len(outbox) \in Nat /\ DOMAIN outbox = 1 .. Len(outbox)
      /\ Len(q) \in Nat /\ DOMAIN outbox' = 1 .. Len(outbox) + Len(q)
    BY <1>3, <1>7, LenProperties
<1>9. \A n \in DOMAIN outbox : n \in DOMAIN outbox' /\ outbox'[n] = outbox[n]
    BY <1>7, <1>8
<1>10. ASSUME NEW m \in Queued
       PROVE  \E n \in DOMAIN outbox' : outbox'[n] = Notification(m)
    <2>1. PICK n \in 1 .. Len(q) : q[n] = Notification(m) BY <1>2, <1>5
    <2>2. /\ Len(outbox) + n \in 1 .. Len(outbox) + Len(q)
          /\ ~(Len(outbox) + n <= Len(outbox)) /\ Len(outbox) + n - Len(outbox) = n
        BY <1>8, <2>1
    <2> QED BY <1>7, <1>8, <2>1, <2>2
<1>11. ASSUME NEW n \in DOMAIN outbox' \ DOMAIN outbox
       PROVE  \E m \in Queued : outbox'[n] = Notification(m)
    <2>1. /\ n \in 1 .. Len(outbox) + Len(q) /\ ~(n <= Len(outbox))
          /\ n - Len(outbox) \in 1 .. Len(q)
        BY <1>8
    <2>2. outbox'[n] = q[n - Len(outbox)] BY <1>7, <2>1
    <2>3. outbox'[n] \in S BY <1>2, <2>1, <2>2, ElementOfSeq
    <2> QED BY <1>6, <2>3
<1> QED BY <1>7, <1>9, <1>10, <1>11

(* One lemma for each action. *)

\* An attempt that is started over has not touched what it has not reached.
LEMMA NoAttempt ==
    /\ Idle \in [at : Places, list : List, day : Days, changed : BOOLEAN]
    /\ Idle.at = "idle"
<1>1. 1 \in Days BY BoundsAssumption DEF Days
<1>2. (CHOOSE l \in Lists : TRUE) \in Lists BY ListsAssumption
<1> QED BY <1>1, <1>2 DEF Idle, List, Places

\* Nothing of the import moves.
LEMMA AttemptStands ==
    ASSUME MembersInv, UNCHANGED <<profile, points, attempt, done>>
    PROVE  PlaceInv' /\ Current'
<1>1. PlaceInv'
    BY DEF MembersInv, PlaceInv, HoldsList, Latest
<1>2. Current'
    BY DEF MembersInv, Current, HoldsList, Latest
<1> QED BY <1>1, <1>2

\* What has been imported stays, and the attempt starts over.
LEMMA AttemptEnds ==
    ASSUME MembersInv, attempt' = Idle,
           UNCHANGED <<profile, points, done>>
    PROVE  PlaceInv' /\ Current'
<1>1. PlaceInv' BY NoAttempt DEF PlaceInv
<1>2. Current' BY DEF MembersInv, Current, HoldsList, Latest
<1> QED BY <1>1, <1>2

LEMMA WorldMoves ==
    ASSUME MembersInv,
           \/ NextDay
           \/ \E list \in [date : Days \cup {None}, lines : Lists] : Publish(list)
           \/ \E m \in Members : Answer(m) \/ Expire(m)
    PROVE  MembersInv'
<1>1. CASE NextDay
    <2>1. today' \in Days BY <1>1, BoundsAssumption DEF NextDay, MembersInv, TypeOK, Days
    <2> QED BY <1>1, <2>1, AttemptStands DEF NextDay, tables, MembersInv, TypeOK
<1>2. ASSUME NEW list \in [date : Days \cup {None}, lines : Lists], Publish(list)
      PROVE  MembersInv'
    <2>1. Day(list.date) \in 0 .. MaxDay
        <3>1. MaxDay \in Nat BY BoundsAssumption
        <3> QED BY <3>1 DEF Day, Days
    <2>2. newest' \in 0 .. MaxDay
        BY <1>2, <2>1, LaterIs DEF Publish, MembersInv, TypeOK
    <2>3. lists' \in 0 .. MaxLists
        BY <1>2, BoundsAssumption DEF Publish, MembersInv, TypeOK
    <2> QED BY <1>2, <2>2, <2>3, AttemptStands
            DEF Publish, tables, MembersInv, TypeOK, List
<1>3. ASSUME NEW m \in Members, Answer(m)
      PROVE  MembersInv'
    <2>1. Latest(m) \in Standings \cup {None}
        BY LatestIs DEF MembersInv, TypeOK, Latest
    <2>2. <<profile[m], Latest(m)>> \in Profiles \X (Standings \cup {None})
        BY <1>3, <2>1 DEF Answer, MembersInv, TypeOK
    <2> QED BY <1>3, <2>2, AttemptStands
            DEF Answer, world, tables, MembersInv, TypeOK
<1>4. ASSUME NEW m \in Members, Expire(m)
      PROVE  MembersInv'
    BY <1>4, AttemptStands DEF Expire, world, tables, MembersInv, TypeOK
<1> QED BY <1>1, <1>2, <1>3, <1>4

LEMMA AttemptBegins ==
    ASSUME MembersInv, Start \/ Download \/ Decide
    PROVE  MembersInv'
<1>1. /\ UNCHANGED <<today, published, lists, newest, fresh, profile, points, outbox, logged, cached,
                     done, faults>>
      /\ attempt'.at \in {"download", "decide", "members", "skip"}
      /\ attempt' \in [at : Places, list : List, day : Days, changed : BOOLEAN]
    <2>1. ImportDay(attempt.list.date) \in Days
        BY DEF MembersInv, TypeOK, List, ImportDay
    <2>2. CASE Start \/ Download
        BY <2>2 DEF Start, Download, world, tables, MembersInv, TypeOK, Places
    <2>3. CASE Decide
        BY <2>1, <2>3 DEF Decide, world, tables, MembersInv, TypeOK, Places
    <2> QED BY <2>2, <2>3
<1>2. TypeOK' BY <1>1 DEF MembersInv, TypeOK
<1>3. PlaceInv' BY <1>1 DEF PlaceInv
<1>4. Current' BY <1>1 DEF MembersInv, Current, HoldsList, Latest
<1> QED BY <1>2, <1>3, <1>4 DEF MembersInv

LEMMA MembersMerged ==
    ASSUME MembersInv, MergeMembers
    PROVE  MembersInv'
<1>1. /\ UNCHANGED <<today, published, lists, newest, fresh, points, outbox, logged, cached, faults>>
      /\ attempt'.at = "points" /\ attempt'.list = attempt.list /\ done' = None
      /\ attempt' \in [at : Places, list : List, day : Days, changed : BOOLEAN]
    BY DEF MergeMembers, world, MembersInv, TypeOK, Places
<1>2. ASSUME NEW m \in Members
      PROVE  /\ Listed(m) # {} => profile'[m] = Deduped(Listed(m)).profile
             /\ Listed(m) = {} => profile'[m] = profile[m]
    BY DEF MergeMembers, Staged, Listed
<1>3. profile' \in [Members -> Profiles \cup {None}]
    <2>1. \A m \in Members : profile'[m] \in Profiles \cup {None}
        BY <1>2, LinesRead DEF MembersInv, TypeOK
    <2>2. \E f : profile' = [m \in Members |-> f[m]]
        <3>1. profile' = [m \in Members |-> profile'[m]] BY DEF MergeMembers
        <3> QED BY <3>1
    <2> QED BY <2>1, <2>2
<1>4. TypeOK' BY <1>1, <1>3 DEF MembersInv, TypeOK
<1>5. Profiled(attempt'.list.lines, profile')
    BY <1>1, <1>2 DEF Profiled, Listed, Deduped
<1>6. PlaceInv' BY <1>1, <1>5 DEF PlaceInv
<1>7. Current' BY <1>1 DEF Current
<1> QED BY <1>4, <1>6, <1>7 DEF MembersInv

LEMMA PointsMerged ==
    ASSUME MembersInv, MergePoints
    PROVE  MembersInv'
<1>1. /\ UNCHANGED <<today, published, lists, newest, fresh, profile, logged, cached, done, faults>>
      /\ attempt.at = "points"
      /\ attempt'.at \in {"clean", "log"} /\ attempt'.list = attempt.list
      /\ attempt'.day = attempt.day
      /\ attempt' \in [at : Places, list : List, day : Days, changed : BOOLEAN]
    BY DEF MergePoints, At, world, MembersInv, TypeOK, Places, Dirty
<1>2. points' \in [Members -> [Days -> Standings \cup {None}]]
    <2>1. \A m \in Members : points'[m] \in [Days -> Standings \cup {None}]
        BY StandingsMerged
    <2>2. points' = [m \in Members |-> points'[m]] BY DEF MergePoints
    <2> QED BY <2>1, <2>2
<1>3. TypeOK' BY <1>1, <1>2, OutboxGrown DEF MembersInv, TypeOK
<1>4. Profiled(attempt'.list.lines, profile')
    BY <1>1 DEF MembersInv, PlaceInv
<1>5. HoldsList(attempt.list, attempt.day)' BY ListHeld
<1>6. PlaceInv' BY <1>1, <1>4, <1>5 DEF PlaceInv
<1>7. done = None BY <1>1 DEF MembersInv, PlaceInv
<1>8. Current' BY <1>1, <1>7 DEF Current
<1> QED BY <1>3, <1>6, <1>8 DEF MembersInv

LEMMA CachesCleaned ==
    ASSUME MembersInv, Clean \/ CleanSwallowed
    PROVE  MembersInv'
<1>1. /\ UNCHANGED <<today, published, lists, newest, fresh, profile, points, outbox, logged, done>>
      /\ attempt.at = "clean" /\ attempt'.at = "log"
      /\ attempt'.list = attempt.list /\ attempt'.day = attempt.day
      /\ attempt' \in [at : Places, list : List, day : Days, changed : BOOLEAN]
    BY DEF Clean, CleanSwallowed, At, world, tables, MembersInv, TypeOK, Places
<1>2. /\ cached' \in [Members -> (Profiles \X (Standings \cup {None})) \cup {None}]
      /\ faults' \in 0 .. MaxFaults
    BY BoundsAssumption DEF Clean, CleanSwallowed, MembersInv, TypeOK
<1>3. TypeOK' BY <1>1, <1>2 DEF MembersInv, TypeOK
<1>4. Profiled(attempt'.list.lines, profile')
    BY <1>1 DEF MembersInv, PlaceInv
<1>5. HoldsList(attempt.list, attempt.day)'
    BY <1>1 DEF MembersInv, PlaceInv, HoldsList, Latest
<1>6. PlaceInv' BY <1>1, <1>4, <1>5 DEF PlaceInv
<1>7. Current' BY <1>1 DEF MembersInv, Current, HoldsList, Latest
<1> QED BY <1>3, <1>6, <1>7 DEF MembersInv

LEMMA ImportLogged ==
    ASSUME MembersInv, Log
    PROVE  MembersInv'
<1>1. /\ UNCHANGED <<today, published, lists, newest, fresh, profile, points, outbox, cached, faults>>
      /\ attempt.at \in {"log", "skip"} /\ attempt' = Idle /\ logged' = attempt.list.date
      /\ done' = IF attempt.at = "log" THEN [list |-> attempt.list, day |-> attempt.day] ELSE done
    BY DEF Log, At, world
<1>2. /\ logged' \in Days \cup {None}
      /\ done' \in [list : List, day : Days] \cup {None}
    BY <1>1 DEF MembersInv, TypeOK, List
<1>3. TypeOK' BY <1>1, <1>2, NoAttempt DEF MembersInv, TypeOK
<1>4. PlaceInv' BY <1>1, NoAttempt DEF PlaceInv
<1>5. Current'
    <2>1. CASE attempt.at = "log"
        <3>1. done'.list = attempt.list /\ done'.day = attempt.day BY <1>1, <2>1
        <3>2. HoldsList(attempt.list, attempt.day) BY <2>1 DEF MembersInv, PlaceInv
        <3> QED BY <1>1, <3>1, <3>2 DEF Current, HoldsList, Latest
    <2>2. CASE attempt.at = "skip"
        BY <1>1, <2>2 DEF MembersInv, Current, HoldsList, Latest
    <2> QED BY <1>1, <2>1, <2>2
<1> QED BY <1>3, <1>4, <1>5 DEF MembersInv

LEMMA AttemptFails ==
    ASSUME MembersInv, Fail
    PROVE  MembersInv'
<1>1. faults' \in 0 .. MaxFaults
    BY BoundsAssumption DEF Fail, MembersInv, TypeOK
<1>2. TypeOK'
    BY <1>1, NoAttempt DEF Fail, world, tables, MembersInv, TypeOK
<1>3. PlaceInv' /\ Current'
    BY AttemptEnds DEF Fail, tables
<1> QED BY <1>2, <1>3 DEF MembersInv

LEMMA MembersBegin ==
    ASSUME Init
    PROVE  MembersInv
<1>1. 1 \in Days /\ 0 \in 0 .. MaxDay /\ 1 \in 0 .. MaxDay /\ 0 \in 0 .. MaxLists
      /\ 0 \in 0 .. MaxFaults
    BY BoundsAssumption DEF Days
<1>2. published \in List /\ Day(published.date) \in 0 .. MaxDay
    BY <1>1 DEF Init, List, Day
<1>3. outbox \in Seq(Event) BY DEF Init
<1>4. /\ profile \in [Members -> Profiles \cup {None}]
      /\ points \in [Members -> [Days -> Standings \cup {None}]]
      /\ cached \in [Members -> (Profiles \X (Standings \cup {None})) \cup {None}]
    BY DEF Init
<1>5. TypeOK BY <1>1, <1>2, <1>3, <1>4, NoAttempt DEF Init, TypeOK
<1>6. PlaceInv BY NoAttempt DEF Init, PlaceInv
<1>7. Current BY DEF Init, Current
<1> QED BY <1>5, <1>6, <1>7 DEF MembersInv

LEMMA MembersHold == Spec => []MembersInv
<1>1. Init => MembersInv BY MembersBegin
<1>2. MembersInv /\ [Next]_vars => MembersInv'
    <2>1. CASE UNCHANGED vars
        BY <2>1, AttemptStands DEF vars, world, tables, MembersInv, TypeOK
    <2> QED BY <2>1, WorldMoves, AttemptBegins, MembersMerged, PointsMerged, CachesCleaned,
            ImportLogged, AttemptFails DEF Next, Attempt
<1> QED BY <1>1, <1>2, PTL DEF Spec

\* The statement that stores a standing that shows a change queues what tells
\* it, or the outbox has it, and queues nothing else.
LEMMA MergeAnnounces ==
    ASSUME MembersInv, MergePoints
    PROVE  ChangesAreTold /\ NotificationsAreTrue
<1>1. ASSUME NEW m \in Members, Latest(m) # None,
             Shows[LatestIn(points'[m])] # Shows[Latest(m)]
      PROVE  \E n \in DOMAIN outbox' :
                 /\ outbox'[n].member = m /\ outbox'[n].day = attempt.day
                 /\ Tells(outbox'[n], LatestIn(points'[m]))
    <2>1. m \in Stored
        BY <1>1, StandingsMerged DEF Latest
    <2>2. LatestIn(points'[m]) = Told(m)
        BY <1>1, <2>1, StandingsMerged
    <2>3. /\ Notification(m).old = Latest(m) /\ Notification(m).new = Told(m)
          /\ Notification(m).member = m /\ Notification(m).day = attempt.day
        BY DEF Notification, Previous, Told, StagedPoints, WithPoints
    <2>4. m \in Notified
        BY <1>1, <2>1, <2>2, <2>3 DEF Notified, Previous
    <2>5. CASE m \in Queued
        BY <2>2, <2>3, <2>5, OutboxGrown DEF Tells
    <2>6. CASE m \notin Queued
        <3>1. PICK n \in DOMAIN outbox :
                  DeduplicationKey(outbox[n]) = DeduplicationKey(Notification(m))
            BY <2>4, <2>6 DEF Queued
        <3>2. /\ outbox[n].member = m /\ outbox[n].day = attempt.day
              /\ Shows[outbox[n].new] = Shows[Told(m)]
            BY <2>3, <3>1 DEF DeduplicationKey
        <3>3. n \in DOMAIN outbox' /\ outbox'[n] = outbox[n] BY OutboxGrown
        <3> QED BY <2>2, <3>2, <3>3 DEF Tells
    <2> QED BY <2>5, <2>6
<1>2. ASSUME NEW n \in DOMAIN outbox' \ DOMAIN outbox
      PROVE  \/ Tells(outbox'[n], LatestIn(points'[outbox'[n].member]))
             \/ Backdated(points'[outbox'[n].member], outbox'[n].day)
    <2>1. PICK m \in Queued : outbox'[n] = Notification(m) BY OutboxGrown
    <2>2. /\ m \in Members /\ m \in Stored
          /\ outbox'[n].member = m /\ outbox'[n].day = attempt.day /\ outbox'[n].new = Told(m)
        BY <2>1, QueuedIs
    <2>3. LatestIn(points'[m]) = Told(m) \/ Backdated(points'[m], attempt.day)
        BY <2>2, StandingsMerged
    <2> QED BY <2>2, <2>3 DEF Tells
<1> QED BY <1>1, <1>2 DEF ChangesAreTold, NotificationsAreTrue

\* The tables, the outbox, the caches and the attempt keep their types, for any
\* list of members and any sequence of exports (MembersImport).
THEOREM MembersTyped == Spec => []TypeOK
<1>1. MembersInv => TypeOK BY DEF MembersInv
<1> QED BY <1>1, MembersHold, PTL

\* Whatever attempts failed before it, at whichever step, an import that ends
\* leaves the tables with its list: the last line of every member, and its
\* standing unless a later day has one, for any members and any lists
\* (mergeMembersFromStage, mergeNumericPointsFromStage).
THEOREM TablesFollowTheList == Spec => []Current
<1>1. MembersInv => Current BY DEF MembersInv
<1> QED BY <1>1, MembersHold, PTL

\* Every change of what is shown of a member is told in the outbox, by
\* whichever attempt stores it, and whatever is written there is what the
\* member shows unless a later day has a standing
\* (queued_notifications, deduplication_source).
THEOREM ChangesAreAnnounced == Spec => Announced
<1>1. ASSUME MembersInv, [Next]_vars
      PROVE  [ChangesAreTold /\ NotificationsAreTrue]_<<points, outbox>>
    <2>1. CASE MergePoints BY <1>1, <2>1, MergeAnnounces
    <2>2. CASE ~MergePoints
        BY <1>1, <2>2 DEF Next, Attempt, NextDay, Publish, Answer, Expire, Start,
            Download, Decide, MergeMembers, Clean, CleanSwallowed, Log, Fail,
            vars, tables
    <2> QED BY <2>1, <2>2
<1>2. MembersInv /\ [Next]_vars =>
          [ChangesAreTold /\ NotificationsAreTrue]_<<points, outbox>>
    BY <1>1
<1> QED BY <1>2, MembersHold, PTL DEF Spec, Announced
===============================================================================

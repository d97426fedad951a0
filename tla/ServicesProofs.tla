----------------------------- MODULE ServicesProofs -----------------------------
(***************************************************************************)
(* Proofs about the configuration of the challenge (ChallengeConfig) and   *)
(* about the services of the API: the pages of the challenge               *)
(* (ChallengeApi), the duels of two players (HeadToHead), and those that   *)
(* compute an answer and keep nothing (Computations).  What is known of    *)
(* finite sets, of sums over them and of their order comes before it is    *)
(* needed.                                                                 *)
(***************************************************************************)
EXTENDS ChallengeConfig, Computations, ChallengeApi, HeadToHead, FiniteSetTheorems,
        WellFoundedInduction, TLAPS

-------------------------------------------------------------------------------
(* Why no run and no mail mixes two configurations.  The row of the week   *)
(* stands for the configuration it came with: it is new with each import,  *)
(* so a job that still finds the row it loaded has checked the present     *)
(* configuration.  An import takes every run with it that was created      *)
(* since it counted them; later ones wait for it and then fail.            *)

CheckedPCs == {"checked", "created", "calculated", "stored", "sent"}

\* A job that checked the week that is still there checked the configuration
\* that is still there.
CheckInv ==
  \A w \in Workers :
    worker[w].pc # "idle" =>
      /\ worker[w].week <= season.week
      /\ worker[w].pc \in CheckedPCs /\ worker[w].week = season.week
           => worker[w].config = season.config /\ season.config \in Valid

\* An import that has deleted the week has deleted every run.
CascadeInv ==
  \A i \in Replacing : Runs \subseteq import[i].deleted

\* A job past its insert whose run is still there works on that run.
OwnRunInv ==
  \A w \in Runs :
    worker[w].pc \in CheckedPCs \ {"checked"} =>
      /\ worker[w].config = run[w]
      /\ worker[w].pc = "calculated" => worker[w].ranking = run[w]

StoredInv ==
  \A w \in Workers :
    worker[w].pc \in {"stored", "sent"} =>
      worker[w].ranking = worker[w].config /\ worker[w].ranking \in Valid

\* What a job has checked, its run has, and the mail it sends has, until an
\* import takes the run away (assertSeasonValid, then compute).
IInv ==
  /\ TypeOK
  /\ CheckInv
  /\ CascadeInv
  /\ RunsMatchConfig
  /\ OwnRunInv
  /\ StoredInv
  /\ RankingWasChecked

-------------------------------------------------------------------------------
\* The definitions that the conjuncts of the invariant are stated with.
USE DEF Runs, Replacing, Transactions, CheckedPCs, NoRun, Absent

\* Nothing that the invariant speaks of changes when an import begins, counts
\* or is rolled back (importFile).
LEMMA ImportPreserves ==
  ASSUME IInv, NEW i \in Importers,
         (\E c \in Configs : Begin(i, c)) \/ CountRuns(i) \/ Rollback(i)
  PROVE  IInv'
<1>1. /\ UNCHANGED <<challenge, season, run, activation, worker, mails>>
      /\ import' \in [Importers -> ImportType \cup {Idle}]
      /\ \A j \in Importers : import'[j].pc = "deleted" => import'[j] = import[j]
  <2>1. CASE \E c \in Configs : Begin(i, c)
    BY <2>1 DEF Begin, IInv, TypeOK, ImportType, Idle
  <2>2. CASE CountRuns(i)
    BY <2>2 DEF CountRuns, IInv, TypeOK, ImportType, Idle
  <2>3. CASE Rollback(i)
    BY <2>3 DEF Rollback, IInv, TypeOK, ImportType, Idle
  <2>4. QED
    BY <2>1, <2>2, <2>3
<1>2. TypeOK'
  BY <1>1 DEF IInv, TypeOK
<1>3. CascadeInv'
  BY <1>1 DEF IInv, CascadeInv
<1>4. CheckInv' /\ RunsMatchConfig' /\ OwnRunInv' /\ StoredInv'
        /\ RankingWasChecked'
  BY <1>1 DEF IInv, CheckInv, RunsMatchConfig, OwnRunInv, StoredInv,
              RankingWasChecked
<1>5. QED
  BY <1>2, <1>3, <1>4 DEF IInv

\* All runs that were created since the count are among those that the
\* cascade deletes (deleteMany of the weeks).
LEMMA DeletePreserves ==
  ASSUME IInv, NEW i \in Importers, DeleteWeek(i)
  PROVE  IInv'
<1>1. TypeOK'
  <2>1. import[i] \in ImportType /\ Cascade \in SUBSET Workers
    BY DEF DeleteWeek, IInv, TypeOK, Idle, Cascade
  <2>2. import'[i] \in ImportType
    BY <2>1 DEF DeleteWeek, IInv, TypeOK, ImportType
  <2>3. import' \in [Importers -> ImportType \cup {Idle}]
    BY <2>2 DEF DeleteWeek, IInv, TypeOK
  <2>4. QED
    BY <2>3 DEF DeleteWeek, IInv, TypeOK
<1>2. CascadeInv'
  BY DEF DeleteWeek, IInv, CascadeInv, Cascade, TypeOK
<1>3. CheckInv' /\ RunsMatchConfig' /\ OwnRunInv' /\ StoredInv'
        /\ RankingWasChecked'
  BY DEF DeleteWeek, IInv, CheckInv, RunsMatchConfig, OwnRunInv, StoredInv,
         RankingWasChecked
<1>4. QED
  BY <1>1, <1>2, <1>3 DEF IInv

\* With the new configuration comes a new row for the week, and no run is
\* left (the commit of importFile's transaction).
LEMMA CommitPreserves ==
  ASSUME IInv, NEW i \in Importers, Commit(i)
  PROVE  IInv'
<1>1. i \in Replacing /\ Runs \subseteq import[i].deleted
  BY DEF Commit, IInv, CascadeInv
<1>2. Runs' = {}
  BY <1>1 DEF Commit
<1>3. season.week \in Nat /\ season'.week = season.week + 1
  BY DEF Commit, NewWeek, IInv, TypeOK
<1>4. TypeOK'
  <2>1. import[i].config \in ConfigsOrNone
    BY DEF Commit, IInv, TypeOK, ImportType, ConfigsOrNone, Idle
  <2>2. season' \in [active : BOOLEAN, config : ConfigsOrNone, week : Nat]
    BY <1>3, <2>1 DEF Commit, NewWeek
  <2>3. run' \in [Workers -> ConfigsOrNone]
    BY DEF Commit, IInv, TypeOK, ConfigsOrNone
  <2>4. import' \in [Importers -> ImportType \cup {Idle}]
    BY DEF Commit, IInv, TypeOK
  <2>5. QED
    BY <2>2, <2>3, <2>4 DEF Commit, IInv, TypeOK
<1>5. CheckInv'
  <2>1. ASSUME NEW w \in Workers, worker[w].pc # "idle"
        PROVE  worker[w].week \in Nat /\ worker[w].week <= season.week
    BY <2>1 DEF IInv, TypeOK, CheckInv, WorkerType, Idle
  <2>2. QED
    BY <1>3, <2>1 DEF Commit, CheckInv
<1>6. CascadeInv' /\ RunsMatchConfig' /\ OwnRunInv'
  BY <1>2 DEF CascadeInv, RunsMatchConfig, OwnRunInv
<1>7. StoredInv' /\ RankingWasChecked'
  BY DEF Commit, IInv, StoredInv, RankingWasChecked
<1>8. QED
  BY <1>4, <1>5, <1>6, <1>7 DEF IInv

\* Activation touches what no conjunct but the type speaks of
\* (activateSeason).
LEMMA ActivationPreserves ==
  ASSUME IInv, NEW a \in Activators, Examine(a) \/ ActivateSeason(a) \/ GiveUp(a)
  PROVE  IInv'
<1>1. /\ UNCHANGED <<run, import, worker, mails>>
      /\ season'.config = season.config
      /\ season'.week = season.week
  BY DEF Examine, ActivateSeason, GiveUp, IInv, TypeOK
<1>2. TypeOK'
  <2>1. challenge' \in BOOLEAN
    BY DEF Examine, ActivateSeason, GiveUp, IInv, TypeOK
  <2>2. season' \in [active : BOOLEAN, config : ConfigsOrNone, week : Nat]
    BY DEF Examine, ActivateSeason, GiveUp, IInv, TypeOK
  <2>3. activation' \in [Activators -> {"idle", "examined"}]
    BY DEF Examine, ActivateSeason, GiveUp, IInv, TypeOK
  <2>4. QED
    BY <1>1, <2>1, <2>2, <2>3 DEF IInv, TypeOK
<1>3. CheckInv' /\ CascadeInv' /\ RunsMatchConfig' /\ OwnRunInv'
        /\ StoredInv' /\ RankingWasChecked'
  BY <1>1 DEF IInv, CheckInv, CascadeInv, RunsMatchConfig, OwnRunInv,
              StoredInv, RankingWasChecked
<1>4. QED
  BY <1>2, <1>3 DEF IInv

\* A job that loads the season has not checked it yet (runDateJob).
LEMMA LoadPreserves ==
  ASSUME IInv, NEW w \in Workers, Load(w)
  PROVE  IInv'
<1>1. TypeOK'
  BY DEF Load, IInv, TypeOK, WorkerType
<1>2. CheckInv'
  BY DEF Load, IInv, TypeOK, CheckInv
<1>3. CascadeInv' /\ RunsMatchConfig' /\ RankingWasChecked'
  BY DEF Load, IInv, CascadeInv, RunsMatchConfig, RankingWasChecked
<1>4. OwnRunInv' /\ StoredInv'
  BY DEF Load, IInv, TypeOK, OwnRunInv, StoredInv
<1>5. QED
  BY <1>1, <1>2, <1>3, <1>4 DEF IInv

\* What passes the check is the configuration of now (assertSeasonValid).
LEMMA CheckPreserves ==
  ASSUME IInv, NEW w \in Workers, CheckSeason(w)
  PROVE  IInv'
<1>1. worker[w] \in WorkerType /\ worker[w].pc = "loaded"
  BY DEF CheckSeason, IInv, TypeOK, Idle
<1>2. /\ UNCHANGED <<challenge, season, run, import, activation, mails>>
      /\ \A v \in Workers \ {w} : worker'[v] = worker[v]
      /\ worker' \in [Workers -> WorkerType \cup {Idle}]
      /\ \/ worker'[w] = Idle
         \/ /\ worker'[w].pc = "checked"
            /\ worker'[w].week = worker[w].week
            /\ worker'[w].config = season.config
            /\ season.config \in Valid
  <2>1. CASE season.config \in Valid
    BY <1>1, <2>1 DEF CheckSeason, Verdict, IInv, TypeOK, WorkerType
  <2>2. CASE season.config \notin Valid
    BY <1>1, <2>2 DEF CheckSeason, Verdict, IInv, TypeOK, WorkerType
  <2>3. QED
    BY <2>1, <2>2
<1>3. TypeOK'
  BY <1>2 DEF IInv, TypeOK
<1>4. CheckInv'
  BY <1>1, <1>2 DEF IInv, CheckInv, Idle
<1>5. CascadeInv' /\ RunsMatchConfig' /\ RankingWasChecked'
  BY <1>2 DEF IInv, CascadeInv, RunsMatchConfig, RankingWasChecked
<1>6. OwnRunInv' /\ StoredInv'
  BY <1>2 DEF IInv, OwnRunInv, StoredInv, Idle
<1>7. QED
  BY <1>3, <1>4, <1>5, <1>6 DEF IInv

\* The insert finds the week that was loaded, so the check was of the present
\* configuration (challengeRun.create).
LEMMA CreatePreserves ==
  ASSUME IInv, NEW w \in Workers, CreateRun(w)
  PROVE  IInv'
<1>1. worker[w] \in WorkerType /\ worker[w].pc = "checked" /\ Replacing = {}
  BY DEF CreateRun, IInv, TypeOK, Idle
<1>2. CASE worker[w].week = season.week
  <2>1. worker[w].config = season.config /\ season.config \in Valid
    BY <1>1, <1>2 DEF IInv, CheckInv
  <2>2. /\ UNCHANGED <<challenge, season, import, activation, mails>>
        /\ run' = [run EXCEPT ![w] = worker[w].config]
        /\ worker' = [worker EXCEPT ![w].pc = "created"]
    BY <1>2 DEF CreateRun
  <2>3. TypeOK'
    BY <1>1, <2>2 DEF IInv, TypeOK, WorkerType
  <2>4. CheckInv'
    BY <1>1, <2>2 DEF IInv, TypeOK, CheckInv
  <2>5. CascadeInv'
    BY <1>1, <2>2 DEF CascadeInv
  <2>6. RunsMatchConfig' /\ RankingWasChecked'
    BY <2>1, <2>2 DEF IInv, TypeOK, RunsMatchConfig, RankingWasChecked
  <2>7. OwnRunInv' /\ StoredInv'
    BY <1>1, <2>1, <2>2 DEF IInv, TypeOK, OwnRunInv, StoredInv
  <2>8. QED
    BY <2>3, <2>4, <2>5, <2>6, <2>7 DEF IInv
<1>3. CASE worker[w].week # season.week
  <2>1. /\ UNCHANGED <<challenge, season, run, import, activation, mails>>
        /\ worker' = [worker EXCEPT ![w] = Idle]
    BY <1>3 DEF CreateRun
  <2>2. TypeOK'
    BY <2>1 DEF IInv, TypeOK
  <2>3. CheckInv' /\ OwnRunInv' /\ StoredInv'
    BY <2>1 DEF IInv, TypeOK, CheckInv, OwnRunInv, StoredInv, Idle
  <2>4. CascadeInv' /\ RunsMatchConfig' /\ RankingWasChecked'
    BY <2>1 DEF IInv, CascadeInv, RunsMatchConfig, RankingWasChecked
  <2>5. QED
    BY <2>2, <2>3, <2>4 DEF IInv
<1>4. QED
  BY <1>2, <1>3

\* As long as the run is there, the configuration read again is the one that
\* was checked (calculate).
LEMMA CalculatePreserves ==
  ASSUME IInv, NEW w \in Workers, Calculate(w)
  PROVE  IInv'
<1>1. worker[w] \in WorkerType /\ worker[w].pc = "created"
  BY DEF Calculate, IInv, TypeOK, Idle
<1>2. TypeOK'
  BY <1>1 DEF Calculate, IInv, TypeOK, WorkerType
<1>3. CheckInv'
  BY <1>1 DEF Calculate, IInv, TypeOK, CheckInv
<1>4. OwnRunInv'
  BY <1>1 DEF Calculate, IInv, TypeOK, OwnRunInv, RunsMatchConfig
<1>5. StoredInv'
  BY <1>1 DEF Calculate, IInv, TypeOK, StoredInv
<1>6. CascadeInv' /\ RunsMatchConfig' /\ RankingWasChecked'
  BY DEF Calculate, IInv, CascadeInv, RunsMatchConfig, RankingWasChecked
<1>7. QED
  BY <1>2, <1>3, <1>4, <1>5, <1>6 DEF IInv

\* A ranking is stored only beside its run (the foreign keys of rankings and
\* deliveries).
LEMMA StorePreserves ==
  ASSUME IInv, NEW w \in Workers, Store(w)
  PROVE  IInv'
<1>1. worker[w] \in WorkerType /\ worker[w].pc = "calculated"
  BY DEF Store, IInv, TypeOK, Idle
<1>2. CASE Storable(w)
  <2>1. worker[w].ranking = worker[w].config /\ worker[w].ranking \in Valid
    BY <1>1, <1>2 DEF IInv, OwnRunInv, RunsMatchConfig, Storable
  <2>2. /\ UNCHANGED <<challenge, season, run, import, activation, mails>>
        /\ worker' = [worker EXCEPT ![w].pc = "stored"]
    BY <1>2 DEF Store
  <2>3. TypeOK'
    BY <1>1, <2>2 DEF IInv, TypeOK, WorkerType
  <2>4. CheckInv' /\ OwnRunInv'
    BY <1>1, <2>2 DEF IInv, TypeOK, CheckInv, OwnRunInv
  <2>5. StoredInv'
    BY <1>1, <2>1, <2>2 DEF IInv, TypeOK, StoredInv
  <2>6. CascadeInv' /\ RunsMatchConfig' /\ RankingWasChecked'
    BY <2>2 DEF IInv, CascadeInv, RunsMatchConfig, RankingWasChecked
  <2>7. QED
    BY <2>3, <2>4, <2>5, <2>6 DEF IInv
<1>3. CASE ~Storable(w)
  <2>1. /\ UNCHANGED <<challenge, season, run, import, activation, mails>>
        /\ worker' = [worker EXCEPT ![w] = Idle]
    BY <1>3 DEF Store
  <2>2. TypeOK'
    BY <2>1 DEF IInv, TypeOK
  <2>3. CheckInv' /\ OwnRunInv' /\ StoredInv'
    BY <2>1 DEF IInv, TypeOK, CheckInv, OwnRunInv, StoredInv, Idle
  <2>4. CascadeInv' /\ RunsMatchConfig' /\ RankingWasChecked'
    BY <2>1 DEF IInv, CascadeInv, RunsMatchConfig, RankingWasChecked
  <2>5. QED
    BY <2>2, <2>3, <2>4 DEF IInv
<1>4. QED
  BY <1>2, <1>3

\* What is sent is what was stored (ChallengePressDeliveryService.send).
LEMMA SendPreserves ==
  ASSUME IInv, NEW w \in Workers, Send(w)
  PROVE  IInv'
<1>1. worker[w] \in WorkerType /\ worker[w].pc = "stored"
  BY DEF Send, IInv, TypeOK, Idle
<1>2. worker[w].ranking = worker[w].config /\ worker[w].ranking \in Valid
  BY <1>1 DEF IInv, StoredInv
<1>3. TypeOK'
  BY <1>1 DEF Send, IInv, TypeOK, WorkerType
<1>4. CheckInv' /\ OwnRunInv'
  BY <1>1 DEF Send, IInv, TypeOK, CheckInv, OwnRunInv
<1>5. StoredInv'
  BY <1>1, <1>2 DEF Send, IInv, TypeOK, StoredInv
<1>6. RankingWasChecked'
  BY <1>2 DEF Send, IInv, RankingWasChecked
<1>7. CascadeInv' /\ RunsMatchConfig'
  BY DEF Send, IInv, CascadeInv, RunsMatchConfig
<1>8. QED
  BY <1>3, <1>4, <1>5, <1>6, <1>7 DEF IInv

\* A job that ends asks nothing of the configuration any more.
LEMMA EndPreserves ==
  ASSUME IInv, NEW w \in Workers, Record(w) \/ Fail(w)
  PROVE  IInv'
<1>1. /\ UNCHANGED <<challenge, season, run, import, activation, mails>>
      /\ worker' = [worker EXCEPT ![w] = Idle]
  BY DEF Record, Fail
<1>2. TypeOK'
  BY <1>1 DEF IInv, TypeOK
<1>3. CheckInv' /\ OwnRunInv' /\ StoredInv'
  BY <1>1 DEF IInv, TypeOK, CheckInv, OwnRunInv, StoredInv, Idle
<1>4. CascadeInv' /\ RunsMatchConfig' /\ RankingWasChecked'
  BY <1>1 DEF IInv, CascadeInv, RunsMatchConfig, RankingWasChecked
<1>5. QED
  BY <1>2, <1>3, <1>4 DEF IInv

\* The inductive invariant holds throughout (importFile, activateSeason and
\* runDateJob in any order).
THEOREM ConfigInvariant == Spec => []IInv
<1>1. Init => IInv
  <2> SUFFICES ASSUME Init PROVE IInv
    OBVIOUS
  <2>1. TypeOK
    BY DEF Init, TypeOK, ConfigsOrNone
  <2>2. CheckInv /\ OwnRunInv /\ StoredInv
    BY DEF Init, CheckInv, OwnRunInv, StoredInv, Idle
  <2>3. CascadeInv /\ RunsMatchConfig /\ RankingWasChecked
    BY DEF Init, CascadeInv, RunsMatchConfig, RankingWasChecked, Idle
  <2>4. QED
    BY <2>1, <2>2, <2>3 DEF IInv
<1>2. IInv /\ [Next]_vars => IInv'
  <2> SUFFICES ASSUME IInv, [Next]_vars PROVE IInv'
    OBVIOUS
  <2>1. CASE \E i \in Importers : Import(i)
    BY <2>1, ImportPreserves, DeletePreserves, CommitPreserves DEF Import
  <2>2. CASE \E a \in Activators : Examine(a) \/ ActivateSeason(a) \/ GiveUp(a)
    BY <2>2, ActivationPreserves
  <2>3. CASE \E w \in Workers : Job(w)
    BY <2>3, LoadPreserves, CheckPreserves, CreatePreserves,
       CalculatePreserves, StorePreserves, SendPreserves, EndPreserves DEF Job
  <2>4. CASE UNCHANGED vars
    BY <2>4 DEF vars, IInv, TypeOK, CheckInv, CascadeInv, RunsMatchConfig,
                OwnRunInv, StoredInv, RankingWasChecked
  <2>5. QED
    BY <2>1, <2>2, <2>3, <2>4 DEF Next
<1>3. QED
  BY <1>1, <1>2, PTL DEF Spec

\* A run that exists was checked under the configuration its season has
\* (assertSeasonValid, importFile).
THEOREM CheckedRuns == Spec => []RunsMatchConfig
<1>1. IInv => RunsMatchConfig
  BY DEF IInv
<1>2. QED
  BY <1>1, ConfigInvariant, PTL

\* A ranking in a mail was calculated from the configuration that its job had
\* checked (compute reads it again).
THEOREM CheckedMails == Spec => []RankingWasChecked
<1>1. IInv => RankingWasChecked
  BY DEF IInv
<1>2. QED
  BY <1>1, ConfigInvariant, PTL

\* The rows and the processes are well formed, however many there are.
THEOREM ConfigTyped == Spec => []TypeOK
<1>1. IInv => TypeOK
  BY DEF IInv
<1>2. QED
  BY <1>1, ConfigInvariant, PTL

-------------------------------------------------------------------------------
(* Sums over finite sets.                                                  *)

\* A set with 0 that holds the successor of each number it holds.
LEMMA NatSetInduction ==
  ASSUME NEW A, 0 \in A, \A n \in Nat : n \in A => n + 1 \in A
  PROVE  Nat \subseteq A
<1> DEFINE T == {n \in Nat : n \notin A}
<1> DEFINE R == OpToRel(<, Nat)
<1>1. CASE T = {} BY <1>1
<1>2. CASE T # {}
  <2>1. PICK n \in T : \A m \in T : <<m, n>> \notin R
    BY <1>2, WFMin, NatLessThanWellFounded
  <2>2. n \in Nat /\ n \notin A OBVIOUS
  <2>3. n # 0 BY <2>2
  <2>4. n - 1 \in Nat /\ n - 1 < n /\ n - 1 + 1 = n BY <2>2, <2>3
  <2>5. n - 1 \notin T BY <2>1, <2>2, <2>4 DEF OpToRel
  <2> QED BY <2>2, <2>4, <2>5
<1> QED BY <1>1, <1>2

\* What is true of {} and stays true when an element is added.
LEMMA FiniteInduction ==
  ASSUME NEW S, IsFiniteSet(S), NEW A, {} \in A,
         \A T \in SUBSET S : \A x \in S \ T : T \in A => T \cup {x} \in A
  PROVE  S \in A
<1> DEFINE B == {n \in Nat : \A T \in SUBSET S : Cardinality(T) = n => T \in A}
<1>1. 0 \in B
  <2>1. ASSUME NEW T \in SUBSET S, Cardinality(T) = 0 PROVE T \in A
    BY <2>1, FS_Subset, FS_EmptySet
  <2> QED BY <2>1
<1>2. ASSUME NEW n \in Nat, n \in B PROVE n + 1 \in B
  <2>1. ASSUME NEW T \in SUBSET S, Cardinality(T) = n + 1 PROVE T \in A
    <3>1. IsFiniteSet(T) BY FS_Subset
    <3>2. T # {} BY <2>1, FS_EmptySet
    <3>3. PICK x \in T : TRUE BY <3>2
    <3>4. Cardinality(T \ {x}) = n /\ IsFiniteSet(T \ {x})
      <4>1. IsFiniteSet(T \ {x}) /\ Cardinality(T \ {x}) = Cardinality(T) - 1
        BY <3>1, <3>3, FS_RemoveElement
      <4> QED BY <2>1, <4>1
    <3>5. T \ {x} \in A BY <1>2, <3>4
    <3>6. T = (T \ {x}) \cup {x} OBVIOUS
    <3>7. T \ {x} \in SUBSET S /\ x \in S \ (T \ {x}) OBVIOUS
    <3> QED BY <3>5, <3>6, <3>7
  <2> QED BY <2>1
<1> HIDE DEF B
<1>3. Nat \subseteq B BY <1>1, <1>2, NatSetInduction
<1>4. Cardinality(S) \in B BY <1>3, FS_CardinalityType
<1> QED BY <1>4 DEF B

\* What is true of a finite set when it is of all that are smaller.
LEMMA SubsetInduction ==
  ASSUME NEW S, IsFiniteSet(S), NEW A,
         \A T \in SUBSET S : (\A U \in SUBSET T : U # T => U \in A) => T \in A
  PROVE  SUBSET S \subseteq A
<1> DEFINE B == {n \in Nat : \A T \in SUBSET S : Cardinality(T) < n => T \in A}
<1>1. ASSUME NEW T \in SUBSET S, NEW U \in SUBSET T, U # T
      PROVE  Cardinality(U) \in Nat /\ Cardinality(T) \in Nat /\ Cardinality(U) < Cardinality(T)
  <2>1. IsFiniteSet(T) BY FS_Subset
  <2>2. /\ IsFiniteSet(U) /\ Cardinality(U) <= Cardinality(T)
        /\ Cardinality(U) = Cardinality(T) => U = T
    BY <2>1, FS_Subset
  <2> QED BY <1>1, <2>1, <2>2, FS_CardinalityType
<1>2. ASSUME NEW T \in SUBSET S PROVE Cardinality(T) \in Nat
  BY FS_Subset, FS_CardinalityType
<1>3. 0 \in B BY <1>2
<1>4. ASSUME NEW n \in Nat, n \in B PROVE n + 1 \in B
  <2>1. ASSUME NEW T \in SUBSET S, Cardinality(T) < n + 1 PROVE T \in A
    <3>1. ASSUME NEW U \in SUBSET T, U # T PROVE U \in A
      <4>1. Cardinality(U) < n BY <1>1, <2>1, <3>1
      <4> QED BY <1>4, <4>1
    <3> QED BY <3>1
  <2> QED BY <2>1
<1> HIDE DEF B
<1>5. Nat \subseteq B BY <1>3, <1>4, NatSetInduction
<1>6. ASSUME NEW T \in SUBSET S PROVE T \in A
  <2>1. Cardinality(T) + 1 \in B BY <1>2, <1>5
  <2> QED BY <1>2, <2>1 DEF B
<1> QED BY <1>6

\* A function on the subsets of a set, by what it is of the empty set and by a
\* next that takes one element out.
Foldable(S, V, base, next, pick) ==
  \E g \in [SUBSET S -> V] : \A T \in SUBSET S :
     g[T] = IF T = {} THEN base ELSE next[pick[T]][g[T \ {pick[T]}]]

\* There is one (the SMT solver takes recursive functions as they are written).
LEMMA FoldExists ==
  ASSUME NEW S, IsFiniteSet(S), NEW V, NEW base \in V, NEW next \in [S -> [V -> V]], NEW pick,
         \A T \in SUBSET S : T # {} => pick[T] \in T
  PROVE  Foldable(S, V, base, next, pick)
<1> DEFINE Body(T, g) == IF T = {} THEN base ELSE next[pick[T]][g[T \ {pick[T]}]]
<1> DEFINE Small(n) == {T \in SUBSET S : Cardinality(T) <= n}
<1> DEFINE A == {n \in Nat : \E g \in [Small(n) -> V] : \A T \in Small(n) : g[T] = Body(T, g)}
<1>1. ASSUME NEW T \in SUBSET S
      PROVE  IsFiniteSet(T) /\ Cardinality(T) \in Nat /\ Cardinality(T) <= Cardinality(S)
  BY FS_Subset, FS_CardinalityType
<1>2. ASSUME NEW T \in SUBSET S, T # {}
      PROVE  /\ T \ {pick[T]} \in SUBSET S
             /\ Cardinality(T \ {pick[T]}) = Cardinality(T) - 1
  BY <1>1, <1>2, FS_RemoveElement
<1>3. 0 \in A
  <2> DEFINE g == [T \in Small(0) |-> base]
  <2>1. ASSUME NEW T \in Small(0) PROVE T = {}
    <3>1. T \in SUBSET S /\ Cardinality(T) <= 0 OBVIOUS
    <3>2. Cardinality(T) \in Nat BY <1>1, <3>1
    <3>3. Cardinality(T) = 0 BY <3>1, <3>2
    <3> QED BY <1>1, <3>1, <3>3, FS_EmptySet
  <2>2. g \in [Small(0) -> V] /\ \A T \in Small(0) : g[T] = Body(T, g) BY <2>1
  <2> QED BY <2>2
<1>4. ASSUME NEW n \in Nat, n \in A PROVE n + 1 \in A
  <2>1. PICK g \in [Small(n) -> V] : \A T \in Small(n) : g[T] = Body(T, g) BY <1>4
  <2> DEFINE h == [T \in Small(n + 1) |-> Body(T, g)]
  <2>2. ASSUME NEW T \in Small(n + 1), T # {}
        PROVE  pick[T] \in S /\ T \ {pick[T]} \in Small(n)
    <3>1. T \in SUBSET S /\ Cardinality(T) <= n + 1 OBVIOUS
    <3>2. /\ Cardinality(T) \in Nat /\ T \ {pick[T]} \in SUBSET S
          /\ Cardinality(T \ {pick[T]}) = Cardinality(T) - 1
      BY <1>1, <1>2, <2>2, <3>1
    <3>3. Cardinality(T \ {pick[T]}) <= n BY <3>1, <3>2
    <3> QED BY <2>2, <3>1, <3>2, <3>3
  <2>3. ASSUME NEW T \in Small(n) PROVE T \in Small(n + 1)
    <3>1. T \in SUBSET S /\ Cardinality(T) <= n OBVIOUS
    <3>2. Cardinality(T) \in Nat BY <1>1, <3>1
    <3>3. Cardinality(T) <= n + 1 BY <3>1, <3>2
    <3> QED BY <3>1, <3>3
  <2> HIDE DEF Small
  <2>4. \A T \in Small(n + 1) : Body(T, g) \in V BY <2>1, <2>2
  <2>5. h \in [Small(n + 1) -> V] BY <2>4
  <2>6. ASSUME NEW T \in Small(n) PROVE h[T] = g[T] BY <2>1, <2>3
  <2>7. ASSUME NEW T \in Small(n + 1) PROVE h[T] = Body(T, h)
    <3>1. CASE T = {} BY <3>1
    <3>2. CASE T # {}
      <4>1. h[T \ {pick[T]}] = g[T \ {pick[T]}] BY <2>2, <2>6, <3>2
      <4>2. h[T] = Body(T, g) OBVIOUS
      <4> QED BY <3>2, <4>1, <4>2
    <3> QED BY <3>1, <3>2
  <2>8. n + 1 \in Nat OBVIOUS
  <2> QED BY <2>5, <2>7, <2>8
<1> HIDE DEF A
<1>5. Nat \subseteq A BY <1>3, <1>4, NatSetInduction
<1>6. Cardinality(S) \in A BY <1>5, FS_CardinalityType
<1>7. Small(Cardinality(S)) = SUBSET S
  <2>1. ASSUME NEW T \in SUBSET S PROVE T \in Small(Cardinality(S)) BY <1>1
  <2> QED BY <2>1
<1> HIDE DEF Small
<1> QED BY <1>6, <1>7 DEF A, Foldable

\* The function whose value at S is the sum over S.
IsSum(f, S, g) ==
  /\ g \in [SUBSET S -> Int]
  /\ \A T \in SUBSET S : g[T] = IF T = {} THEN 0
        ELSE f[CHOOSE x \in T : TRUE] + g[T \ {CHOOSE x \in T : TRUE}]

\* The sum over a finite set is taken element by element.
LEMMA SumIs ==
  ASSUME NEW S, IsFiniteSet(S), NEW f, \A x \in S : f[x] \in Int
  PROVE  \E g : IsSum(f, S, g) /\ SumFunctionOnSet(f, S) = g[S]
<1> DEFINE pick == [T \in SUBSET S |-> CHOOSE x \in T : TRUE]
<1> DEFINE next == [x \in S |-> [n \in Int |-> f[x] + n]]
<1> DEFINE Body(T, h) == IF T = {} THEN 0
                 ELSE f[CHOOSE x \in T : TRUE] + h[T \ {CHOOSE x \in T : TRUE}]
<1>1. \A T \in SUBSET S : T # {} => pick[T] \in T OBVIOUS
<1>2. next \in [S -> [Int -> Int]] OBVIOUS
<1>3. PICK g \in [SUBSET S -> Int] : \A T \in SUBSET S :
         g[T] = IF T = {} THEN 0 ELSE next[pick[T]][g[T \ {pick[T]}]]
  <2> HIDE DEF pick, next
  <2>1. Foldable(S, Int, 0, next, pick) BY <1>1, <1>2, FoldExists
  <2> QED BY <2>1 DEF Foldable
<1>4. ASSUME NEW T \in SUBSET S PROVE g[T] = Body(T, g)
  <2>1. CASE T = {} BY <1>3, <2>1
  <2>2. CASE T # {}
    <3>1. pick[T] \in T /\ pick[T] = CHOOSE x \in T : TRUE BY <1>1, <2>2
    <3>2. g[T] = next[pick[T]][g[T \ {pick[T]}]] BY <1>3, <2>2
    <3>3. g[T \ {pick[T]}] \in Int OBVIOUS
    <3>4. next[pick[T]][g[T \ {pick[T]}]] = f[pick[T]] + g[T \ {pick[T]}]
      BY <3>1, <3>3
    <3> QED BY <2>2, <3>1, <3>2, <3>4
  <2> QED BY <2>1, <2>2
<1>5. g = [T \in SUBSET S |-> Body(T, g)]
  <2> HIDE DEF Body
  <2> QED BY <1>4
<1> DEFINE sum == CHOOSE h : h = [T \in SUBSET S |-> Body(T, h)]
<1>6. sum = [T \in SUBSET S |-> Body(T, sum)] BY <1>5
<1>7. SumFunctionOnSet(f, S) = sum[S]
  BY DEF SumFunctionOnSet, FoldFunctionOnSet, MapThenFoldSet
<1> HIDE DEF sum
<1> DEFINE B == {T \in SUBSET S : sum[T] \in Int}
<1>8. ASSUME NEW T \in SUBSET S, \A U \in SUBSET T : U # T => U \in B PROVE T \in B
  <2>1. CASE T = {} BY <1>6, <2>1
  <2>2. CASE T # {}
    <3> DEFINE x == CHOOSE x \in T : TRUE
    <3>1. x \in T BY <2>2
    <3>2. T \ {x} \in B BY <1>8, <3>1
    <3>3. sum[T] = f[x] + sum[T \ {x}] BY <1>6, <2>2
    <3> QED BY <3>1, <3>2, <3>3
  <2> QED BY <2>1, <2>2
<1> HIDE DEF B
<1>9. SUBSET S \subseteq B BY <1>8, SubsetInduction
<1>10. \A T \in SUBSET S : sum[T] \in Int /\ sum[T] = Body(T, sum) BY <1>6, <1>9 DEF B
<1>11. sum \in [SUBSET S -> Int] BY <1>6, <1>10
<1>12. IsSum(f, S, sum) BY <1>10, <1>11 DEF IsSum
<1> QED BY <1>7, <1>12

\* What the definition of a sum says of it.
LEMMA SumOf ==
  ASSUME NEW S, IsFiniteSet(S), NEW f, \A x \in S : f[x] \in Int
  PROVE  /\ SumFunctionOnSet(f, S) \in Int
         /\ SumFunctionOnSet(f, {}) = 0
         /\ S # {} => SumFunctionOnSet(f, S) =
              f[CHOOSE x \in S : TRUE] + SumFunctionOnSet(f, S \ {CHOOSE x \in S : TRUE})
<1>1. ASSUME NEW R \in SUBSET S
      PROVE  \E g : IsSum(f, R, g) /\ SumFunctionOnSet(f, R) = g[R]
  <2>1. IsFiniteSet(R) /\ \A x \in R : f[x] \in Int BY FS_Subset
  <2> QED BY <2>1, SumIs
<1>2. PICK g : IsSum(f, S, g) /\ SumFunctionOnSet(f, S) = g[S] BY <1>1
<1>3. PICK e : IsSum(f, {}, e) /\ SumFunctionOnSet(f, {}) = e[{}] BY <1>1
<1>4. ASSUME S # {}
      PROVE SumFunctionOnSet(f, S) =
              f[CHOOSE x \in S : TRUE] + SumFunctionOnSet(f, S \ {CHOOSE x \in S : TRUE})
  <2> DEFINE R == S \ {CHOOSE x \in S : TRUE}
  <2>1. PICK h : IsSum(f, R, h) /\ SumFunctionOnSet(f, R) = h[R] BY <1>1
  <2> DEFINE A == {T \in SUBSET R : g[T] = h[T]}
  <2>2. ASSUME NEW T \in SUBSET R, \A U \in SUBSET T : U # T => U \in A PROVE T \in A
    <3>1. CASE T = {} BY <1>2, <2>1, <3>1 DEF IsSum
    <3>2. CASE T # {}
      <4> DEFINE c == CHOOSE x \in T : TRUE
      <4>1. c \in T /\ T \in SUBSET S BY <3>2
      <4>2. g[T \ {c}] = h[T \ {c}] BY <2>2, <4>1
      <4>3. g[T] = f[c] + g[T \ {c}] BY <1>2, <3>2, <4>1 DEF IsSum
      <4>4. h[T] = f[c] + h[T \ {c}] BY <2>1, <3>2 DEF IsSum
      <4> QED BY <4>2, <4>3, <4>4
    <3> QED BY <3>1, <3>2
  <2> HIDE DEF A
  <2>3. IsFiniteSet(R) BY FS_Subset
  <2>4. SUBSET R \subseteq A BY <2>2, <2>3, SubsetInduction
  <2>5. g[R] = h[R] BY <2>4 DEF A
  <2>6. g[S] = f[CHOOSE x \in S : TRUE] + g[R] BY <1>2, <1>4 DEF IsSum
  <2> QED BY <1>2, <2>1, <2>5, <2>6
<1>5. g[S] \in Int BY <1>2 DEF IsSum
<1>6. e[{}] = 0 BY <1>3 DEF IsSum
<1> QED BY <1>2, <1>3, <1>4, <1>5, <1>6

\* The three facts that sums are used by.
LEMMA SumType ==
  ASSUME NEW S, IsFiniteSet(S), NEW f, \A x \in S : f[x] \in Int
  PROVE  SumFunctionOnSet(f, S) \in Int
BY SumOf

\* Nothing adds up to 0.
LEMMA SumEmpty == ASSUME NEW f PROVE SumFunctionOnSet(f, {}) = 0
<1>1. IsFiniteSet({}) /\ \A x \in {} : f[x] \in Int BY FS_EmptySet
<1> QED BY <1>1, SumOf

\* A sum is one of its numbers and the sum of the others.
LEMMA SumRemove ==
  ASSUME NEW S, IsFiniteSet(S), NEW f, \A x \in S : f[x] \in Int, NEW y \in S
  PROVE  SumFunctionOnSet(f, S) = f[y] + SumFunctionOnSet(f, S \ {y})
<1> DEFINE Sum(T) == SumFunctionOnSet(f, T)
<1> DEFINE A == {T \in SUBSET S : \A x \in T : Sum(T) = f[x] + Sum(T \ {x})}
<1>1. ASSUME NEW T \in SUBSET S
      PROVE  /\ Sum(T) \in Int
             /\ T # {} => Sum(T) = f[CHOOSE x \in T : TRUE] + Sum(T \ {CHOOSE x \in T : TRUE})
  BY SumOf, FS_Subset
<1> HIDE DEF Sum
<1>2. ASSUME NEW T \in SUBSET S, \A U \in SUBSET T : U # T => U \in A PROVE T \in A
  <2> DEFINE c == CHOOSE x \in T : TRUE
  <2>1. ASSUME NEW x \in T PROVE Sum(T) = f[x] + Sum(T \ {x})
    <3>1. c \in T OBVIOUS
    <3> HIDE DEF c
    <3>2. Sum(T) = f[c] + Sum(T \ {c}) BY <1>1 DEF c
    <3>3. CASE x = c BY <3>2, <3>3
    <3>4. CASE x # c
      <4>1. T \ {c} \in A /\ x \in T \ {c} BY <1>2, <3>1, <3>4
      <4>2. Sum(T \ {c}) = f[x] + Sum((T \ {c}) \ {x}) BY <4>1
      <4>3. T \ {x} \in A /\ c \in T \ {x} BY <1>2, <3>1, <3>4
      <4>4. Sum(T \ {x}) = f[c] + Sum((T \ {x}) \ {c}) BY <4>3
      <4> DEFINE U == (T \ {c}) \ {x}
      <4>5. U = (T \ {x}) \ {c} /\ U \in SUBSET S OBVIOUS
      <4> HIDE DEF A, U
      <4>6. Sum(U) \in Int /\ f[c] \in Int /\ f[x] \in Int BY <1>1, <3>1, <4>5
      <4>7. Sum(T) = f[c] + (f[x] + Sum(U)) BY <3>2, <4>2 DEF U
      <4>8. Sum(T \ {x}) = f[c] + Sum(U) BY <4>4, <4>5
      <4> QED BY <4>6, <4>7, <4>8
    <3> QED BY <3>3, <3>4
  <2> QED BY <2>1
<1> HIDE DEF A
<1>3. SUBSET S \subseteq A BY <1>2, SubsetInduction
<1> QED BY <1>3 DEF A, Sum

\* A sum grows by the number that is added.
LEMMA SumAdd ==
  ASSUME NEW S, IsFiniteSet(S), NEW y, y \notin S, NEW f, \A x \in S \cup {y} : f[x] \in Int
  PROVE  SumFunctionOnSet(f, S \cup {y}) = f[y] + SumFunctionOnSet(f, S)
<1>1. IsFiniteSet(S \cup {y}) BY FS_AddElement
<1>2. (S \cup {y}) \ {y} = S OBVIOUS
<1> QED BY <1>1, <1>2, SumRemove

\* Facts about sums, each by taking one element after the other.
LEMMA SumSame ==
  ASSUME NEW S, IsFiniteSet(S), NEW f, NEW g, \A x \in S : f[x] \in Int /\ f[x] = g[x]
  PROVE  SumFunctionOnSet(f, S) = SumFunctionOnSet(g, S)
<1> DEFINE A == {T \in SUBSET S : SumFunctionOnSet(f, T) = SumFunctionOnSet(g, T)}
<1>1. {} \in A BY SumEmpty
<1>2. ASSUME NEW T \in SUBSET S, NEW x \in S \ T, T \in A PROVE T \cup {x} \in A
  <2>1. IsFiniteSet(T) /\ \A y \in T \cup {x} : f[y] \in Int /\ g[y] \in Int BY FS_Subset
  <2>2. SumFunctionOnSet(f, T \cup {x}) = f[x] + SumFunctionOnSet(f, T) BY <2>1, SumAdd
  <2>3. SumFunctionOnSet(g, T \cup {x}) = g[x] + SumFunctionOnSet(g, T) BY <2>1, SumAdd
  <2> QED BY <1>2, <2>2, <2>3
<1> HIDE DEF A
<1>3. S \in A BY <1>1, <1>2, FiniteInduction
<1> QED BY <1>3 DEF A

\* Larger numbers have the larger sum.
LEMMA SumMonotone ==
  ASSUME NEW S, IsFiniteSet(S), NEW f, NEW g,
         \A x \in S : f[x] \in Int /\ g[x] \in Int /\ f[x] <= g[x]
  PROVE  SumFunctionOnSet(f, S) <= SumFunctionOnSet(g, S)
<1> DEFINE A == {T \in SUBSET S : SumFunctionOnSet(f, T) <= SumFunctionOnSet(g, T)}
<1>1. {} \in A BY SumEmpty
<1>2. ASSUME NEW T \in SUBSET S, NEW x \in S \ T, T \in A PROVE T \cup {x} \in A
  <2>1. IsFiniteSet(T) /\ \A y \in T \cup {x} : f[y] \in Int /\ g[y] \in Int BY FS_Subset
  <2>2. SumFunctionOnSet(f, T \cup {x}) = f[x] + SumFunctionOnSet(f, T) BY <2>1, SumAdd
  <2>3. SumFunctionOnSet(g, T \cup {x}) = g[x] + SumFunctionOnSet(g, T) BY <2>1, SumAdd
  <2>4. SumFunctionOnSet(f, T) \in Int /\ SumFunctionOnSet(g, T) \in Int BY <2>1, SumType
  <2>5. f[x] \in Int /\ g[x] \in Int /\ f[x] <= g[x] OBVIOUS
  <2>6. SumFunctionOnSet(f, T) <= SumFunctionOnSet(g, T) BY <1>2
  <2>7. SumFunctionOnSet(f, T \cup {x}) <= SumFunctionOnSet(g, T \cup {x})
    BY <2>2, <2>3, <2>4, <2>5, <2>6
  <2> QED BY <2>7
<1> HIDE DEF A
<1>3. S \in A BY <1>1, <1>2, FiniteInduction
<1> QED BY <1>3 DEF A

\* Natural numbers add up to one.
LEMMA SumNat ==
  ASSUME NEW S, IsFiniteSet(S), NEW f, \A x \in S : f[x] \in Nat
  PROVE  SumFunctionOnSet(f, S) \in Nat
<1> DEFINE A == {T \in SUBSET S : SumFunctionOnSet(f, T) \in Nat}
<1>1. {} \in A BY SumEmpty
<1>2. ASSUME NEW T \in SUBSET S, NEW x \in S \ T, T \in A PROVE T \cup {x} \in A
  <2>1. IsFiniteSet(T) /\ \A y \in T \cup {x} : f[y] \in Int BY FS_Subset
  <2>2. SumFunctionOnSet(f, T \cup {x}) = f[x] + SumFunctionOnSet(f, T) BY <2>1, SumAdd
  <2>3. SumFunctionOnSet(f, T) \in Nat /\ f[x] \in Nat BY <1>2
  <2>4. SumFunctionOnSet(f, T \cup {x}) \in Nat BY <2>2, <2>3
  <2> QED BY <2>4
<1> HIDE DEF A
<1>3. S \in A BY <1>1, <1>2, FiniteInduction
<1> QED BY <1>3 DEF A

\* Two sums add up term by term.
LEMMA SumPlus ==
  ASSUME NEW S, IsFiniteSet(S), NEW f, NEW g, NEW h,
         \A x \in S : f[x] \in Int /\ g[x] \in Int /\ h[x] = f[x] + g[x]
  PROVE  SumFunctionOnSet(h, S) = SumFunctionOnSet(f, S) + SumFunctionOnSet(g, S)
<1> DEFINE A == {T \in SUBSET S :
       SumFunctionOnSet(h, T) = SumFunctionOnSet(f, T) + SumFunctionOnSet(g, T)}
<1>1. {} \in A BY SumEmpty
<1>2. ASSUME NEW T \in SUBSET S, NEW x \in S \ T, T \in A PROVE T \cup {x} \in A
  <2>1. IsFiniteSet(T) /\ \A y \in T \cup {x} : f[y] \in Int /\ g[y] \in Int /\ h[y] \in Int
    BY FS_Subset
  <2>2. SumFunctionOnSet(f, T \cup {x}) = f[x] + SumFunctionOnSet(f, T) BY <2>1, SumAdd
  <2>3. SumFunctionOnSet(g, T \cup {x}) = g[x] + SumFunctionOnSet(g, T) BY <2>1, SumAdd
  <2>4. SumFunctionOnSet(h, T \cup {x}) = h[x] + SumFunctionOnSet(h, T) BY <2>1, SumAdd
  <2>5. SumFunctionOnSet(f, T) \in Int /\ SumFunctionOnSet(g, T) \in Int BY <2>1, SumType
  <2>6. f[x] \in Int /\ g[x] \in Int /\ h[x] = f[x] + g[x] OBVIOUS
  <2>7. SumFunctionOnSet(h, T) = SumFunctionOnSet(f, T) + SumFunctionOnSet(g, T) BY <1>2
  <2>8. SumFunctionOnSet(h, T \cup {x})
          = SumFunctionOnSet(f, T \cup {x}) + SumFunctionOnSet(g, T \cup {x})
    BY <2>2, <2>3, <2>4, <2>5, <2>6, <2>7
  <2> QED BY <2>8
<1> HIDE DEF A
<1>3. S \in A BY <1>1, <1>2, FiniteInduction
<1> QED BY <1>3 DEF A

\* What is read of each element of a finite set is finite, and no more.
LEMMA ImageFinite ==
  ASSUME NEW S, IsFiniteSet(S), NEW b
  PROVE  /\ IsFiniteSet({b[x] : x \in S})
         /\ Cardinality({b[x] : x \in S}) <= Cardinality(S)
<1> DEFINE R == {b[x] : x \in S}
           f == [x \in S |-> b[x]]
<1>1. f \in Surjection(S, R) BY DEF Surjection
<1> HIDE DEF f, R
<1> QED BY <1>1, FS_Surjection DEF R

\* The same numbers under other names.
LEMMA SumRenamed ==
  ASSUME NEW S, IsFiniteSet(S), NEW R, NEW b \in [S -> R], NEW f, NEW g,
         \A x, y \in S : b[x] = b[y] => x = y,
         \A z \in R : \E x \in S : b[x] = z,
         \A x \in S : f[x] \in Int /\ f[x] = g[b[x]]
  PROVE  SumFunctionOnSet(f, S) = SumFunctionOnSet(g, R)
<1> DEFINE Of(T) == {b[x] : x \in T}
<1> DEFINE A == {T \in SUBSET S : SumFunctionOnSet(f, T) = SumFunctionOnSet(g, Of(T))}
<1>1. {} \in A BY SumEmpty
<1>2. ASSUME NEW T \in SUBSET S, NEW x \in S \ T, T \in A PROVE T \cup {x} \in A
  <2>1. IsFiniteSet(T) /\ \A y \in T \cup {x} : f[y] \in Int BY FS_Subset
  <2>2. SumFunctionOnSet(f, T \cup {x}) = f[x] + SumFunctionOnSet(f, T) BY <2>1, SumAdd
  <2>3. IsFiniteSet(Of(T)) BY <2>1, ImageFinite
  <2>4. b[x] \notin Of(T) OBVIOUS
  <2>5. \A z \in Of(T) \cup {b[x]} : g[z] \in Int BY <2>1
  <2>6. Of(T \cup {x}) = Of(T) \cup {b[x]} OBVIOUS
  <2> HIDE DEF Of
  <2>7. SumFunctionOnSet(g, Of(T) \cup {b[x]}) = g[b[x]] + SumFunctionOnSet(g, Of(T))
    BY <2>3, <2>4, <2>5, SumAdd
  <2> QED BY <1>2, <2>2, <2>6, <2>7
<1>3. Of(S) = R OBVIOUS
<1> HIDE DEF A, Of
<1>4. S \in A BY <1>1, <1>2, FiniteInduction
<1> QED BY <1>3, <1>4 DEF A

-------------------------------------------------------------------------------
(* Finite sets in order.                                                   *)

\* In a finite set with a strict total order, given by what is below each
\* element, an element has fewer below it than those above it have, and every
\* number of elements is below one of them.
LEMMA RanksFill ==
  ASSUME NEW S, IsFiniteSet(S), NEW below \in [S -> SUBSET S],
         \A x \in S : x \notin below[x],
         \A x, y \in S : x = y \/ x \in below[y] \/ y \in below[x],
         \A x, y \in S : x \in below[y] => below[x] \subseteq below[y]
  PROVE  /\ Cardinality(S) \in Nat
         /\ \A x \in S : Cardinality(below[x]) \in 0 .. Cardinality(S) - 1
         /\ \A x, y \in S :
              x \in below[y] <=> Cardinality(below[x]) < Cardinality(below[y])
         /\ \A n \in 0 .. Cardinality(S) - 1 : \E x \in S : Cardinality(below[x]) = n
<1>1. Cardinality(S) \in Nat BY FS_CardinalityType
<1>2. ASSUME NEW x \in S PROVE IsFiniteSet(below[x]) /\ Cardinality(below[x]) \in 0 .. Cardinality(S) - 1
  <2>1. below[x] \in SUBSET S /\ below[x] # S OBVIOUS
  <2>2. /\ IsFiniteSet(below[x]) /\ Cardinality(below[x]) <= Cardinality(S)
        /\ Cardinality(below[x]) # Cardinality(S)
    BY <2>1, FS_Subset
  <2> QED BY <1>1, <2>2, FS_CardinalityType
<1>3. ASSUME NEW x \in S, NEW y \in S, x \in below[y]
      PROVE  Cardinality(below[x]) < Cardinality(below[y])
  <2>1. below[x] \in SUBSET below[y] /\ below[x] # below[y] BY <1>3
  <2>2. /\ Cardinality(below[x]) <= Cardinality(below[y])
        /\ Cardinality(below[x]) # Cardinality(below[y])
    BY <1>2, <2>1, FS_Subset
  <2> QED BY <1>2, <2>2
<1>4. ASSUME NEW x \in S, NEW y \in S, x \notin below[y]
      PROVE  ~ Cardinality(below[x]) < Cardinality(below[y])
  <2>1. CASE x = y BY <1>2, <2>1
  <2>2. CASE y \in below[x] BY <1>2, <1>3, <2>2
  <2> QED BY <1>4, <2>1, <2>2
<1>5. ASSUME NEW n \in 0 .. Cardinality(S) - 1 PROVE \E x \in S : Cardinality(below[x]) = n
  <2> DEFINE f == [x \in S |-> Cardinality(below[x])]
             T == 0 .. Cardinality(S) - 1
  <2>1. f \in [S -> T] BY <1>2
  <2>2. \A x, y \in S : f[x] = f[y] => x = y
    BY <1>2, <1>3
  <2>3. f \in Injection(S, T) BY <2>1, <2>2 DEF Injection, IsInjective
  <2>4. IsFiniteSet(T) /\ Cardinality(T) = Cardinality(S) BY <1>1, FS_Interval
  <2> HIDE DEF f, T
  <2>5. f \in Surjection(S, T) BY <2>3, <2>4, FS_Injection
  <2>6. \E x \in S : f[x] = n BY <2>5 DEF Surjection, T
  <2> QED BY <2>6 DEF f
<1> QED BY <1>1, <1>2, <1>3, <1>4, <1>5

\* How many of some numbers are smaller.
RankOf(numbers, k) == Cardinality({j \in numbers : j < k})

\* Ranks tell some numbers apart and order them as they are.
LEMMA NumbersRank ==
  ASSUME NEW numbers, IsFiniteSet(numbers), numbers \subseteq Int
  PROVE  /\ Cardinality(numbers) \in Nat
         /\ \A k \in numbers : RankOf(numbers, k) \in 0 .. Cardinality(numbers) - 1
         /\ \A j, k \in numbers : j < k <=> RankOf(numbers, j) < RankOf(numbers, k)
         /\ \A j, k \in numbers : RankOf(numbers, j) = RankOf(numbers, k) => j = k
         /\ \A n \in 0 .. Cardinality(numbers) - 1 :
              \E k \in numbers : RankOf(numbers, k) = n
<1> DEFINE below == [k \in numbers |-> {j \in numbers : j < k}]
<1>1. below \in [numbers -> SUBSET numbers] OBVIOUS
<1>2. \A j, k \in numbers : j \in below[k] <=> j < k OBVIOUS
<1>3. \A k \in numbers : RankOf(numbers, k) = Cardinality(below[k]) BY DEF RankOf
<1> HIDE DEF below
<1>4. \A k \in numbers : k \notin below[k] BY <1>2
<1>5. \A j, k \in numbers : j = k \/ j \in below[k] \/ k \in below[j] BY <1>2
<1>6. \A j, k \in numbers : j \in below[k] => below[j] \subseteq below[k]
  <2> SUFFICES ASSUME NEW j \in numbers, NEW k \in numbers, j \in below[k], NEW i \in below[j]
               PROVE  i \in below[k]
    OBVIOUS
  <2>1. i \in numbers BY <1>1
  <2>2. i < j /\ j < k BY <1>2, <2>1
  <2>3. i < k BY <2>1, <2>2
  <2> QED BY <1>2, <2>1, <2>3
<1>7. /\ Cardinality(numbers) \in Nat
      /\ \A k \in numbers : Cardinality(below[k]) \in 0 .. Cardinality(numbers) - 1
      /\ \A j, k \in numbers : j \in below[k] <=> Cardinality(below[j]) < Cardinality(below[k])
      /\ \A n \in 0 .. Cardinality(numbers) - 1 : \E k \in numbers : Cardinality(below[k]) = n
  BY <1>1, <1>4, <1>5, <1>6, RanksFill
<1>8. \A j, k \in numbers : j < k <=> RankOf(numbers, j) < RankOf(numbers, k)
  BY <1>2, <1>3, <1>7
<1>9. \A j, k \in numbers : RankOf(numbers, j) = RankOf(numbers, k) => j = k
  <2> SUFFICES ASSUME NEW j \in numbers, NEW k \in numbers,
                      RankOf(numbers, j) = RankOf(numbers, k)
               PROVE  j = k
    OBVIOUS
  <2>1. ~ j < k /\ ~ k < j BY <1>3, <1>7, <1>8
  <2> QED BY <2>1
<1> QED BY <1>3, <1>7, <1>8, <1>9

\* Finitely many numbers have a largest one.
LEMMA LargestIs ==
  ASSUME NEW numbers, IsFiniteSet(numbers), numbers \subseteq Int, numbers # {}
  PROVE  Max(numbers) \in numbers /\ \A k \in numbers : k <= Max(numbers)
<1>1. /\ Cardinality(numbers) \in Nat
      /\ \A k \in numbers : RankOf(numbers, k) \in 0 .. Cardinality(numbers) - 1
      /\ \A j, k \in numbers : j < k <=> RankOf(numbers, j) < RankOf(numbers, k)
      /\ \A n \in 0 .. Cardinality(numbers) - 1 :
           \E k \in numbers : RankOf(numbers, k) = n
  BY NumbersRank
<1>2. Cardinality(numbers) # 0 BY FS_EmptySet
<1>3. PICK m \in numbers : RankOf(numbers, m) = Cardinality(numbers) - 1 BY <1>1, <1>2
<1>4. \A k \in numbers : ~ m < k BY <1>1, <1>3
<1>5. \A k \in numbers : m >= k BY <1>4
<1> QED BY <1>3, <1>5 DEF Max

\* Rows that the order of the ranking tells apart.
RowsOrdered(rows) ==
  /\ IsFiniteSet(rows)
  /\ \A r, s \in rows : r.id \in Int /\ r.key \in Int /\ (r.id = s.id => r = s)

Rank(rows, r) == Cardinality({s \in rows : Before(s, r)})

\* Ranks tell the rows apart and order them as the sort does.
LEMMA RowsRank ==
  ASSUME NEW rows, RowsOrdered(rows)
  PROVE  /\ Cardinality(rows) \in Nat
         /\ \A r \in rows : Rank(rows, r) \in 0 .. Cardinality(rows) - 1
         /\ \A r, s \in rows : Before(r, s) <=> Rank(rows, r) < Rank(rows, s)
         /\ \A r, s \in rows : Rank(rows, r) = Rank(rows, s) => r = s
         /\ \A n \in 0 .. Cardinality(rows) - 1 : \E r \in rows : Rank(rows, r) = n
<1> DEFINE below == [r \in rows |-> {s \in rows : Before(s, r)}]
<1>1. below \in [rows -> SUBSET rows] OBVIOUS
<1>2. IsFiniteSet(rows) BY DEF RowsOrdered
<1>3. \A r, s \in rows : r \in below[s] <=> Before(r, s) OBVIOUS
<1>4. \A r \in rows : ~ Before(r, r) BY DEF RowsOrdered, Before
<1>5. \A r, s \in rows : r = s \/ Before(r, s) \/ Before(s, r) BY DEF RowsOrdered, Before
<1>6. \A r, s, t \in rows : Before(r, s) /\ Before(s, t) => Before(r, t)
  BY DEF RowsOrdered, Before
<1>7. \A r \in rows : Rank(rows, r) = Cardinality(below[r]) BY DEF Rank
<1> HIDE DEF below
<1>8. \A r \in rows : r \notin below[r] BY <1>3, <1>4
<1>9. \A r, s \in rows : r = s \/ r \in below[s] \/ s \in below[r] BY <1>3, <1>5
<1>10. \A r, s \in rows : r \in below[s] => below[r] \subseteq below[s]
  <2> SUFFICES ASSUME NEW r \in rows, NEW s \in rows, r \in below[s], NEW t \in below[r]
               PROVE  t \in below[s]
    OBVIOUS
  <2>1. t \in rows BY <1>1
  <2> QED BY <2>1, <1>3, <1>6
<1>11. /\ Cardinality(rows) \in Nat
       /\ \A r \in rows : Cardinality(below[r]) \in 0 .. Cardinality(rows) - 1
       /\ \A r, s \in rows : r \in below[s] <=> Cardinality(below[r]) < Cardinality(below[s])
       /\ \A n \in 0 .. Cardinality(rows) - 1 : \E r \in rows : Cardinality(below[r]) = n
  BY <1>1, <1>2, <1>8, <1>9, <1>10, RanksFill
<1>12. \A r, s \in rows : Before(r, s) <=> Rank(rows, r) < Rank(rows, s)
  BY <1>3, <1>7, <1>11
<1>13. \A r, s \in rows : Rank(rows, r) = Rank(rows, s) => r = s
  BY <1>5, <1>7, <1>11, <1>12
<1> QED BY <1>7, <1>11, <1>12, <1>13

\* The n-th of the sorted rows is the one of rank n - 1.
LEMMA SortedIs ==
  ASSUME NEW rows, RowsOrdered(rows)
  PROVE  /\ Sorted(rows) \in Seq(rows) /\ Len(Sorted(rows)) = Cardinality(rows)
         /\ \A n \in 1 .. Cardinality(rows) :
              Sorted(rows)[n] \in rows /\ Rank(rows, Sorted(rows)[n]) = n - 1
         /\ \A r \in rows : Sorted(rows)[Rank(rows, r) + 1] = r
<1>1. /\ Cardinality(rows) \in Nat
      /\ \A r \in rows : Rank(rows, r) \in 0 .. Cardinality(rows) - 1
      /\ \A r, s \in rows : Rank(rows, r) = Rank(rows, s) => r = s
      /\ \A n \in 0 .. Cardinality(rows) - 1 : \E r \in rows : Rank(rows, r) = n
  BY RowsRank
<1> DEFINE N == Cardinality(rows)
<1>2. Sorted(rows) = [n \in 1 .. N |-> CHOOSE r \in rows : Rank(rows, r) = n - 1]
  BY DEF Sorted, Rank
<1>3. ASSUME NEW n \in 1 .. N
      PROVE  Sorted(rows)[n] \in rows /\ Rank(rows, Sorted(rows)[n]) = n - 1
  <2>1. \E r \in rows : Rank(rows, r) = n - 1 BY <1>1
  <2>2. Sorted(rows)[n] = CHOOSE r \in rows : Rank(rows, r) = n - 1 BY <1>2
  <2> QED BY <2>1, <2>2
<1>4. Sorted(rows) \in [1 .. N -> rows] BY <1>2, <1>3
<1>5. Sorted(rows) \in Seq(rows) /\ Len(Sorted(rows)) = N BY <1>1, <1>4
<1>6. ASSUME NEW r \in rows PROVE Sorted(rows)[Rank(rows, r) + 1] = r
  <2>1. Rank(rows, r) + 1 \in 1 .. N BY <1>1
  <2> QED BY <1>1, <1>3, <2>1
<1> QED BY <1>3, <1>5, <1>6

\* The rows from one of them on are the sorted rows from its place on.
LEMMA FromOneOn ==
  ASSUME NEW rows, RowsOrdered(rows), NEW c \in rows,
         NEW rest, rest = {r \in rows : ~ Before(r, c)}
  PROVE  /\ Rank(rows, c) \in 0 .. Cardinality(rows) - 1
         /\ RowsOrdered(rest) /\ Cardinality(rest) = Cardinality(rows) - Rank(rows, c)
         /\ \A m \in 1 .. Cardinality(rest) :
              Sorted(rest)[m] = Sorted(rows)[Rank(rows, c) + m]
<1> DEFINE under(r) == {s \in rows : Before(s, r)}
           k == Rank(rows, c)
           N == Cardinality(rows)
<1>1. /\ N \in Nat
      /\ \A r \in rows : Rank(rows, r) \in 0 .. N - 1
      /\ \A r, s \in rows : Before(r, s) <=> Rank(rows, r) < Rank(rows, s)
      /\ \A r, s \in rows : Rank(rows, r) = Rank(rows, s) => r = s
  BY RowsRank
<1>2. IsFiniteSet(rows) BY DEF RowsOrdered
<1>3. \A r \in rows : IsFiniteSet(under(r)) /\ Rank(rows, r) = Cardinality(under(r))
  BY <1>2, FS_Subset DEF Rank
<1>4. rest \subseteq rows /\ IsFiniteSet(rest) /\ RowsOrdered(rest)
  BY <1>2, FS_Subset DEF RowsOrdered
<1>5. rest = rows \ under(c) /\ rows \cap under(c) = under(c) OBVIOUS
<1>6. \A r \in rest : {s \in rest : Before(s, r)} = under(r) \ under(c) BY <1>4
<1>7. \A r, s \in rows : s \in under(r) <=> Before(s, r) OBVIOUS
<1>8. \A r \in rows : under(r) \subseteq rows OBVIOUS
<1> HIDE DEF under
<1>9. Cardinality(rest) = N - k
  <2>1. Cardinality(rows \ under(c)) = Cardinality(rows) - Cardinality(rows \cap under(c))
    BY <1>2, FS_Difference
  <2> QED BY <1>3, <1>5, <2>1
<1>10. ASSUME NEW r \in rest PROVE Rank(rest, r) = Rank(rows, r) - k
  <2>2. under(c) \subseteq under(r)
    <3>1. Rank(rows, c) <= Rank(rows, r) BY <1>1, <1>4
    <3>2. ASSUME NEW s \in under(c) PROVE s \in under(r)
      <4>1. s \in rows /\ r \in rows /\ Before(s, c) BY <1>4, <1>7, <1>8
      <4>2. Rank(rows, s) \in Int /\ Rank(rows, c) \in Int /\ Rank(rows, r) \in Int
        BY <1>1, <4>1
      <4>3. Rank(rows, s) < Rank(rows, c) BY <1>1, <4>1
      <4>4. Rank(rows, s) < Rank(rows, r) BY <3>1, <4>2, <4>3
      <4> QED BY <1>1, <1>7, <4>1, <4>4
    <3> QED BY <3>2
  <2>3. under(r) \cap under(c) = under(c) BY <2>2
  <2>4. Cardinality(under(r) \ under(c)) = Cardinality(under(r)) - Cardinality(under(c))
    <3>1. IsFiniteSet(under(r)) BY <1>3, <1>4
    <3>2. Cardinality(under(r) \ under(c)) =
            Cardinality(under(r)) - Cardinality(under(r) \cap under(c))
      BY <3>1, FS_Difference
    <3> QED BY <2>3, <3>2
  <2> QED BY <1>3, <1>4, <1>6, <2>4 DEF Rank
<1>11. ASSUME NEW m \in 1 .. Cardinality(rest)
      PROVE  Sorted(rest)[m] = Sorted(rows)[k + m]
  <2>1. Sorted(rest)[m] \in rest /\ Rank(rest, Sorted(rest)[m]) = m - 1
    BY <1>4, SortedIs
  <2>2. Rank(rows, Sorted(rest)[m]) = k + m - 1
    <3>1. m - 1 = Rank(rows, Sorted(rest)[m]) - k BY <1>10, <2>1
    <3>2. Rank(rows, Sorted(rest)[m]) \in Int /\ k \in Int /\ m \in Int BY <1>1, <1>4, <2>1
    <3> QED BY <3>1, <3>2
  <2>3. k + m \in 1 .. N
    <3>1. k \in Nat /\ m \in Nat /\ m >= 1 /\ m <= N - k BY <1>1, <1>9
    <3> QED BY <1>1, <3>1
  <2>4. Sorted(rows)[k + m] \in rows /\ Rank(rows, Sorted(rows)[k + m]) = k + m - 1
    <3>1. \A n \in 1 .. N : Sorted(rows)[n] \in rows /\ Rank(rows, Sorted(rows)[n]) = n - 1
      BY SortedIs
    <3>2. PICK n \in 1 .. N : n = k + m BY <2>3
    <3>3. k \in Int BY <1>1
    <3>4. n - 1 = k + m - 1 BY <3>2, <3>3
    <3> QED BY <3>1, <3>2, <3>4
  <2> QED BY <1>1, <1>4, <2>1, <2>2, <2>4
<1> QED BY <1>1, <1>4, <1>9, <1>11

\* The rows that follow the cursor are those that follow its place.
LEMMA RowsFollow ==
  ASSUME NEW rows, RowsOrdered(rows), NEW k \in 0 .. Cardinality(rows),
         k = 0 <=> cursor = None, k > 0 => cursor = Sorted(rows)[k]
  PROVE  /\ FromCursor(rows) \in Seq(rows)
         /\ Len(FromCursor(rows)) = Cardinality(rows) - k
         /\ \A m \in 1 .. Cardinality(rows) - k : FromCursor(rows)[m] = Sorted(rows)[k + m]
<1>1. Cardinality(rows) \in Nat BY RowsRank
<1>2. CASE k = 0
  <2>1. FromCursor(rows) = Sorted(rows) BY <1>2 DEF FromCursor
  <2>2. Sorted(rows) \in Seq(rows) /\ Len(Sorted(rows)) = Cardinality(rows) BY SortedIs
  <2> QED BY <1>1, <1>2, <2>1, <2>2
<1>3. CASE k > 0
  <2>1. cursor # None /\ cursor \in rows /\ Rank(rows, cursor) = k - 1
    <3>1. k \in 1 .. Cardinality(rows) BY <1>1, <1>3
    <3>2. Sorted(rows)[k] \in rows /\ Rank(rows, Sorted(rows)[k]) = k - 1 BY <3>1, SortedIs
    <3> QED BY <1>3, <3>2
  <2> DEFINE rest == {r \in rows : ~ Before(r, cursor)}
             C == Cardinality(rest)
  <2>2. /\ RowsOrdered(rest) /\ C = Cardinality(rows) - (k - 1)
        /\ \A m \in 1 .. C : Sorted(rest)[m] = Sorted(rows)[k - 1 + m]
    BY <2>1, FromOneOn
  <2>3. Sorted(rest) \in Seq(rest) /\ Len(Sorted(rest)) = C
    BY <2>2, SortedIs
  <2>4. FromCursor(rows) = SubSeq(Sorted(rest), 2, C)
    BY <2>1, <2>3 DEF FromCursor
  <2> HIDE DEF rest
  <2>5. C \in Nat /\ C >= 1 /\ C - 1 = Cardinality(rows) - k BY <1>1, <1>3, <2>2
  <2>6. /\ SubSeq(Sorted(rest), 2, C) \in Seq(rest)
        /\ Len(SubSeq(Sorted(rest), 2, C)) = C - 1
        /\ \A m \in 1 .. C - 1 : SubSeq(Sorted(rest), 2, C)[m] = Sorted(rest)[m + 1]
    BY <2>3, <2>5
  <2>7. rest \subseteq rows BY DEF rest
  <2>8. ASSUME NEW m \in 1 .. C - 1 PROVE FromCursor(rows)[m] = Sorted(rows)[k + m]
    <3>1. m + 1 \in 1 .. C BY <2>5
    <3>2. Sorted(rest)[m + 1] = Sorted(rows)[k - 1 + (m + 1)] BY <2>2, <3>1
    <3> QED BY <2>4, <2>6, <3>2
  <2>9. FromCursor(rows) \in Seq(rows) BY <2>4, <2>6, <2>7
  <2> QED BY <2>4, <2>5, <2>6, <2>8, <2>9
<1> QED BY <1>2, <1>3

\* What follows the first of a sequence is one.
LEMMA WithoutFirst ==
  ASSUME NEW S, NEW s \in Seq(S)
  PROVE  SubSeq(s, 2, Len(s)) \in Seq(S)
OBVIOUS

\* A page of the rows is one of Sorted from the first on.
LEMMA FromCursorTyped ==
  ASSUME NEW rows, RowsOrdered(rows)
  PROVE  FromCursor(rows) \in Seq(rows) /\ Len(FromCursor(rows)) \in Nat
<1> DEFINE rest == {r \in rows : ~ Before(r, cursor)}
<1>1. Sorted(rows) \in Seq(rows) BY SortedIs
<1>2. rest \subseteq rows /\ RowsOrdered(rest) BY FS_Subset DEF RowsOrdered
<1>3. Sorted(rest) \in Seq(rest) BY <1>2, SortedIs
<1>4. SubSeq(Sorted(rest), 2, Len(Sorted(rest))) \in Seq(rest) BY <1>3, WithoutFirst
<1>5. Seq(rest) \subseteq Seq(rows) BY <1>2
<1>6. FromCursor(rows) \in Seq(rows)
  <2>1. CASE cursor = None BY <1>1, <2>1 DEF FromCursor
  <2>2. CASE cursor # None BY <1>4, <1>5, <2>2 DEF FromCursor
  <2> QED BY <2>1, <2>2
<1> QED BY <1>6

-------------------------------------------------------------------------------
(* The pages of a client.                                                  *)

PageType == [week : Weeks \cup {None}, items : Seq(AllRows)]

RequestInv ==
  /\ published \in Seq(Weeks) /\ pages \in Seq(PageType)
  /\ step # "idle" => client \in Clients
  /\ client \in Clients \cup {None}
  /\ step = "rows" => chosen \in Range(published)
  /\ \A n \in DOMAIN pages : pages[n].week \in Range(published) \cup {None}

\* Only a page with more to come has a cursor, and only with one is another
\* asked for.
CursorInv ==
  /\ pages = <<>> => cursor = None
  /\ step # "idle" /\ pages # <<>> => cursor # None

\* Pages of one run are the slices of it, and the cursor is the last row.
SlicesInv ==
  \A w \in Weeks :
    /\ client \in Clients /\ pages # <<>>
    /\ \A n \in DOMAIN pages : pages[n].week = w
    =>
    /\ \A n \in DOMAIN pages : pages[n].items = Slice(Sorted(Wanted(w)), n)
    /\ cursor = None => Cardinality(Wanted(w)) <= Len(pages) * client.limit
    /\ cursor # None => /\ Len(pages) * client.limit < Cardinality(Wanted(w))
                        /\ cursor = Sorted(Wanted(w))[Len(pages) * client.limit]

PagesInv == RequestInv /\ CursorInv /\ SlicesInv

\* The rows that a client asks for are in an order.
LEMMA WantedOrdered ==
  ASSUME NEW w \in Weeks, NEW keys
  PROVE  LET rows == {r \in Rows[w] : r.key \in keys}
         IN  RowsOrdered(rows) /\ rows \subseteq AllRows /\ \A r \in rows : r # None
<1>1. /\ IsFiniteSet(Rows[w])
      /\ \A r, s \in Rows[w] :
           r.id \in Int /\ r.key \in Int /\ r # None /\ (r.id = s.id => r = s)
  BY PagesAssumption
<1> QED BY <1>1, FS_Subset DEF RowsOrdered, AllRows

\* The first n numbers are n.
LEMMA FirstNumbers == ASSUME NEW n \in Nat PROVE IsFiniteSet(1 .. n) /\ Cardinality(1 .. n) = n
<1>1. PICK k \in Nat : k = n OBVIOUS
<1>2. IsFiniteSet(1 .. k) /\ Cardinality(1 .. k) = IF 1 > k THEN 0 ELSE k - 1 + 1
  BY FS_Interval
<1> QED BY <1>1, <1>2

\* The smaller of two numbers.
LEMMA Least ==
  ASSUME NEW a \in Int, NEW b \in Int
  PROVE  Min({a, b}) = IF a <= b THEN a ELSE b
BY DEF Min

\* So many full pages hold so many rows.
LEMMA Pages == \A n, l \in Nat : n * l \in Nat /\ (n + 1) * l = n * l + l
OBVIOUS

\* A slice of a sequence begins behind what it skips.
LEMMA SliceIs ==
  ASSUME NEW S, NEW s \in Seq(S), NEW k \in Nat, NEW e \in Nat, k + e <= Len(s)
  PROVE  SubSeq(s, k + 1, k + e) = [m \in 1 .. e |-> s[k + m]]
OBVIOUS

\* The first of a sequence.
LEMMA FirstOnes ==
  ASSUME NEW S, NEW s \in Seq(S), NEW e \in Nat, e <= Len(s)
  PROVE  SubSeq(s, 1, e) = [m \in 1 .. e |-> s[m]] /\ Len(SubSeq(s, 1, e)) = e
OBVIOUS

\* The cursor stands at the last of the rows that fill n pages.
CursorAt(rows, n) ==
  /\ n = 0 <=> cursor = None
  /\ n # 0 => /\ n * client.limit < Cardinality(rows)
              /\ cursor = Sorted(rows)[n * client.limit]

\* What is read then is the next page, and its last row the cursor of the one after.
FollowsPages(rows, n) ==
  LET next == FromCursor(rows)
      part == SubSeq(next, 1, Min({client.limit, Len(next)}))
  IN  /\ part = Slice(Sorted(rows), n + 1)
      /\ Len(next) > client.limit =>
           /\ (n + 1) * client.limit < Cardinality(rows)
           /\ part[Len(part)] = Sorted(rows)[(n + 1) * client.limit]
      /\ ~ Len(next) > client.limit => Cardinality(rows) <= (n + 1) * client.limit

\* After n full pages the next one is the next slice, and its last row the
\* cursor if there are more (getRankings).
LEMMA NextSlice ==
  ASSUME NEW rows, RowsOrdered(rows), NEW n \in Nat, client.limit \in Nat \ {0},
         CursorAt(rows, n)
  PROVE  FollowsPages(rows, n)
<1> SUFFICES ASSUME NEW next, next = FromCursor(rows),
                    NEW part, part = SubSeq(next, 1, Min({client.limit, Len(next)}))
             PROVE  /\ part = Slice(Sorted(rows), n + 1)
                    /\ Len(next) > client.limit =>
                         /\ (n + 1) * client.limit < Cardinality(rows)
                         /\ part[Len(part)] = Sorted(rows)[(n + 1) * client.limit]
                    /\ ~ Len(next) > client.limit =>
                         Cardinality(rows) <= (n + 1) * client.limit
  BY DEF FollowsPages
<1> DEFINE L == client.limit
           k == n * L
           C == Cardinality(rows)
           e == Min({L, Len(next)})
           all == Sorted(rows)
<1>1. C \in Nat /\ L \in Nat /\ L > 0 BY RowsRank
<1>2. k \in Nat /\ (n + 1) * L = k + L BY <1>1, Pages
<1>3. n # 0 => k > 0
  <2>1. CASE n # 0
    <3>1. PICK m \in Nat : n = m + 1 BY <2>1
    <3>2. (m + 1) * L = m * L + L /\ m * L \in Nat BY <1>1, Pages
    <3> QED BY <1>1, <3>1, <3>2
  <2> QED BY <2>1
<1>4. k = 0 <=> n = 0
  <2>1. 0 * L = 0 BY <1>1
  <2> QED BY <1>2, <1>3, <2>1
<1>5. k \in 0 .. C
  <2>1. CASE n = 0 BY <1>1, <1>4, <2>1
  <2>2. CASE n # 0
    <3>1. k < C BY <2>2 DEF CursorAt
    <3> QED BY <1>1, <1>2, <3>1
  <2> QED BY <2>1, <2>2
<1>6. k > 0 => cursor = all[k] BY <1>4 DEF CursorAt
<1>7. all \in Seq(rows) /\ Len(all) = C BY SortedIs
<1> HIDE DEF k, C, L, all
<1>8. (k = 0 <=> cursor = None) BY <1>4 DEF CursorAt
<1>9. /\ next \in Seq(rows) /\ Len(next) = C - k
      /\ \A m \in 1 .. C - k : next[m] = all[k + m]
  BY <1>5, <1>6, <1>8, RowsFollow DEF C, all
<1>10. e = IF L <= C - k THEN L ELSE C - k
  <2>1. PICK d \in Int : d = C - k /\ d = Len(next) BY <1>1, <1>2, <1>9
  <2>2. Min({L, d}) = IF L <= d THEN L ELSE d BY <1>1, Least
  <2>3. e = Min({L, d}) BY <2>1
  <2> HIDE DEF e
  <2> QED BY <2>1, <2>2, <2>3
<1>11. Min({(n + 1) * L, Len(all)}) = k + e
  <2>1. Min({k + L, C}) = IF k + L <= C THEN k + L ELSE C BY <1>1, <1>2, Least
  <2>2. L <= C - k <=> k + L <= C BY <1>1, <1>2
  <2>3. k + e = IF k + L <= C THEN k + L ELSE C BY <1>1, <1>2, <1>10, <2>2
  <2> QED BY <1>2, <1>7, <2>1, <2>3
<1> HIDE DEF e
<1>12. e \in 0 .. C - k BY <1>1, <1>2, <1>5, <1>10
<1>13. /\ part = [m \in 1 .. e |-> next[m]] /\ Len(part) = e
  <2>1. part = SubSeq(next, 1, e) BY DEF e, L
  <2>2. e \in Nat /\ e <= Len(next) BY <1>1, <1>2, <1>9, <1>12
  <2>3. next \in Seq(rows) BY <1>9
  <2>4. SubSeq(next, 1, e) = [m \in 1 .. e |-> next[m]] /\ Len(SubSeq(next, 1, e)) = e
    BY <2>2, <2>3, FirstOnes
  <2> QED BY <2>1, <2>4
<1>14. Slice(all, n + 1) = SubSeq(all, k + 1, k + e)
  <2>1. ((n + 1) - 1) * L = k BY DEF k
  <2> QED BY <1>11, <2>1 DEF Slice, L
<1>15. SubSeq(all, k + 1, k + e) = [m \in 1 .. e |-> all[k + m]]
  <2>1. k \in Nat /\ e \in Nat /\ k + e <= Len(all) BY <1>1, <1>2, <1>7, <1>12
  <2> QED BY <1>7, <2>1, SliceIs
<1>16. \A m \in 1 .. e : next[m] = all[k + m] BY <1>1, <1>2, <1>9, <1>12
<1>17. part = Slice(all, n + 1) BY <1>13, <1>14, <1>15, <1>16
<1>18. ASSUME Len(next) > L
       PROVE  (n + 1) * L < C /\ part[Len(part)] = all[(n + 1) * L]
  <2>1. L < C - k BY <1>9, <1>18
  <2>2. e = L /\ k + L < C BY <1>1, <1>2, <1>10, <2>1
  <2>3. e \in 1 .. e BY <1>1, <2>2
  <2>4. part[e] = all[k + e] BY <1>13, <1>16, <2>3
  <2> QED BY <1>2, <1>13, <2>2, <2>4
<1>19. ASSUME ~ Len(next) > L PROVE C <= (n + 1) * L
  BY <1>1, <1>2, <1>5, <1>9, <1>19
<1> QED BY <1>17, <1>18, <1>19 DEF C, L, all

\* A page more leaves the others where they are.
LEMMA AppendIs ==
  ASSUME NEW S, NEW s \in Seq(S), NEW x \in S, NEW t, t = Append(s, x)
  PROVE  /\ t \in Seq(S) /\ Len(t) = Len(s) + 1 /\ t # <<>>
         /\ \A n \in DOMAIN t : (t[n] = x /\ n = Len(t)) \/ (n \in DOMAIN s /\ t[n] = s[n])
         /\ \A n \in DOMAIN s : n \in DOMAIN t /\ t[n] = s[n]
         /\ Len(t) \in DOMAIN t /\ t[Len(t)] = x
<1>1. t \in Seq(S) OBVIOUS
<1>2. Len(t) = Len(s) + 1 /\ Len(s) \in Nat OBVIOUS
<1>3. t[Len(s) + 1] = x OBVIOUS
<1>4. \A n \in 1 .. Len(s) : t[n] = s[n] OBVIOUS
<1>5. DOMAIN t = 1 .. Len(s) + 1 /\ DOMAIN s = 1 .. Len(s) BY <1>1, <1>2
<1>6. t # <<>>
  <2>1. Len(t) # 0 BY <1>2
  <2> QED BY <2>1
<1>7. ASSUME NEW n \in DOMAIN t
      PROVE  (t[n] = x /\ n = Len(t)) \/ (n \in DOMAIN s /\ t[n] = s[n])
  <2>1. CASE n = Len(s) + 1 BY <1>2, <1>3, <2>1
  <2>2. CASE n # Len(s) + 1
    <3>1. n \in 1 .. Len(s) BY <1>2, <1>5, <2>2
    <3> QED BY <1>4, <1>5, <3>1
  <2> QED BY <2>1, <2>2
<1>8. \A n \in DOMAIN s : n \in DOMAIN t /\ t[n] = s[n] BY <1>2, <1>4, <1>5
<1>9. Len(t) \in DOMAIN t /\ t[Len(t)] = x BY <1>2, <1>3, <1>5
<1> QED BY <1>1, <1>2, <1>6, <1>7, <1>8, <1>9

\* No page has been read at first.
LEMMA PagesBegin == PagesInit => PagesInv
<1> SUFFICES ASSUME PagesInit PROVE PagesInv
  OBVIOUS
<1>1. RequestInv BY DEF PagesInit, RequestInv
<1>2. CursorInv BY DEF PagesInit, CursorInv
<1>3. SlicesInv BY DEF PagesInit, SlicesInv
<1> QED BY <1>1, <1>2, <1>3 DEF PagesInv

\* What the slices speak of stays as it is.
LEMMA SlicesStand ==
  ASSUME SlicesInv, UNCHANGED <<client, pages, cursor>>
  PROVE  SlicesInv'
<1>1. \A w : Wanted(w)' = Wanted(w) BY DEF Wanted
<1>2. \A w, n : Slice(Sorted(Wanted(w)), n)' = Slice(Sorted(Wanted(w)), n)
  BY <1>1 DEF Slice
<1>3. \A w : Sorted(Wanted(w))' = Sorted(Wanted(w)) BY <1>1
<1> QED BY <1>1, <1>2, <1>3 DEF SlicesInv

\* Publishing a week changes no page.
LEMMA PublishedGrows ==
  ASSUME PagesInv, NEW w \in Weeks, Publish(w)
  PROVE  PagesInv'
<1>1. published \in Seq(Weeks) /\ published' = Append(published, w)
  BY DEF PagesInv, RequestInv, Publish
<1>2. published' \in Seq(Weeks) BY <1>1
<1>3. Range(published) \subseteq Range(published')
  BY <1>1 DEF Range
<1>4. UNCHANGED <<client, pages, cursor, step, chosen>> BY DEF Publish
<1>5. RequestInv' BY <1>2, <1>3, <1>4 DEF PagesInv, RequestInv, Clients, PageType, AllRows
<1>6. CursorInv' BY <1>4 DEF PagesInv, CursorInv
<1> QED BY <1>4, <1>5, <1>6, SlicesStand DEF PagesInv

\* Nor does opening or closing the season.
LEMMA SeasonSet ==
  ASSUME PagesInv, SetSeason
  PROVE  PagesInv'
<1>1. UNCHANGED <<published, client, pages, cursor, step, chosen>> BY DEF SetSeason
<1>2. RequestInv' BY <1>1 DEF PagesInv, RequestInv, Clients, PageType, AllRows
<1>3. CursorInv' BY <1>1 DEF PagesInv, CursorInv
<1> QED BY <1>1, <1>2, <1>3, SlicesStand DEF PagesInv

\* A client that comes has no page.
LEMMA ClientComes ==
  ASSUME PagesInv, NEW c \in Clients, FindPublicSeason(c)
  PROVE  PagesInv'
<1>1. /\ client' = c /\ pages' = <<>> /\ cursor' = None /\ published' = published
      /\ step' \in {"publication", "idle"}
  BY DEF FindPublicSeason
<1>2. RequestInv' BY <1>1 DEF PagesInv, RequestInv, Clients
<1>3. CursorInv' BY <1>1 DEF CursorInv
<1>4. SlicesInv' BY <1>1 DEF SlicesInv
<1> QED BY <1>2, <1>3, <1>4 DEF PagesInv

\* Asking for the next page changes none.
LEMMA PageAsked ==
  ASSUME PagesInv, NextPage
  PROVE  PagesInv'
<1>1. /\ UNCHANGED <<published, client, cursor, pages>> /\ client # None /\ cursor # None
      /\ step' \in {"publication", "idle"}
  BY DEF NextPage
<1>2. RequestInv' BY <1>1 DEF PagesInv, RequestInv, Clients
<1>3. CursorInv' BY <1>1 DEF PagesInv, CursorInv
<1> QED BY <1>1, <1>2, <1>3, SlicesStand DEF PagesInv

\* A client that leaves takes its pages along.
LEMMA ClientLeaves ==
  ASSUME PagesInv, Leave
  PROVE  PagesInv'
<1>1. /\ pages' = <<>> /\ cursor' = None /\ client' = None /\ step' = "idle"
      /\ published' = published
  BY DEF Leave
<1>2. RequestInv' BY <1>1 DEF PagesInv, RequestInv, Clients
<1>3. CursorInv' BY <1>1 DEF CursorInv
<1>4. SlicesInv' BY <1>1 DEF SlicesInv
<1> QED BY <1>2, <1>3, <1>4 DEF PagesInv

\* No publication: the client is told that there are no rows, and no more.
LEMMA PublicationSought ==
  ASSUME PagesInv, FindPublicationForSeason
  PROVE  PagesInv'
<1>1. /\ step = "publication" /\ UNCHANGED <<published, client>> /\ client \in Clients
      /\ published \in Seq(Weeks) /\ pages \in Seq(PageType)
      /\ \A n \in DOMAIN pages : pages[n].week \in Range(published) \cup {None}
  BY DEF FindPublicationForSeason, PagesInv, RequestInv
<1>2. CASE Matching(client) = {}
  <2> DEFINE last == [week |-> None, items |-> <<>>]
  <2>1. /\ step' = "idle" /\ cursor' = None /\ chosen' = None
        /\ pages' = Append(pages, last)
    BY <1>2 DEF FindPublicationForSeason
  <2>2. last \in PageType BY DEF PageType
  <2>3. /\ pages' \in Seq(PageType) /\ Len(pages') = Len(pages) + 1
        /\ \A n \in DOMAIN pages' : pages'[n] = last \/ (n \in DOMAIN pages /\ pages'[n] = pages[n])
        /\ Len(pages') \in DOMAIN pages' /\ pages'[Len(pages')] = last
    BY <1>1, <2>1, <2>2, AppendIs
  <2>4. pages' # <<>> BY <1>1, <2>3
  <2>5. RequestInv'
    BY <1>1, <2>1, <2>3 DEF RequestInv, Clients, PageType, AllRows
  <2>6. CursorInv' BY <2>1, <2>4 DEF CursorInv
  <2>7. \A w \in Weeks : pages'[Len(pages')].week # w BY <2>3, PagesAssumption
  <2>8. SlicesInv' BY <2>3, <2>7 DEF SlicesInv
  <2> QED BY <2>5, <2>6, <2>8 DEF PagesInv
<1>3. CASE Matching(client) # {}
  <2>1. /\ step' = "rows" /\ chosen' = published[Max(Matching(client))]
        /\ UNCHANGED <<cursor, pages>>
    BY <1>3 DEF FindPublicationForSeason
  <2>2. Max(Matching(client)) \in Matching(client)
    <3>1. Matching(client) \subseteq 1 .. Len(published) BY <1>1 DEF Matching
    <3>2. IsFiniteSet(Matching(client))
      <4>1. Len(published) \in Nat BY <1>1
      <4>2. IsFiniteSet(1 .. Len(published)) BY <4>1, FirstNumbers
      <4> QED BY <3>1, <4>2, FS_Subset
    <3> QED BY <1>1, <1>3, <3>1, <3>2, LargestIs
  <2>3. chosen' \in Range(published) BY <2>1, <2>2 DEF Matching, Range
  <2>4. RequestInv'
    BY <1>1, <2>1, <2>3 DEF RequestInv, Clients, PageType, AllRows
  <2>5. CursorInv' BY <1>1, <2>1 DEF PagesInv, CursorInv
  <2> QED BY <1>1, <2>1, <2>4, <2>5, SlicesStand DEF PagesInv
<1> QED BY <1>2, <1>3

\* The page that is read is the next slice of its publication.
LEMMA RankingsRead ==
  ASSUME PagesInv, GetRankings
  PROVE  PagesInv'
<1> DEFINE rows == {r \in Rows[chosen] : r.key \in client.keys}
           next == FromCursor(rows)
           part == SubSeq(next, 1, Min({client.limit, Len(next)}))
           last == [week |-> chosen, items |-> part]
           N == Len(pages)
           L == client.limit
<1>1. /\ UNCHANGED <<published, client, chosen>> /\ step' = "idle"
      /\ pages' = Append(pages, last)
      /\ cursor' = IF Len(next) > L THEN part[Len(part)] ELSE None
  BY DEF GetRankings
<1>2. /\ client \in Clients /\ published \in Seq(Weeks) /\ pages \in Seq(PageType)
      /\ chosen \in Range(published) /\ chosen \in Weeks
      /\ \A n \in DOMAIN pages : pages[n].week \in Range(published) \cup {None}
      /\ pages = <<>> <=> cursor = None
  <2>1. step = "rows" BY DEF GetRankings
  <2>2. published \in Seq(Weeks) /\ chosen \in Range(published)
    BY <2>1 DEF PagesInv, RequestInv
  <2>3. chosen \in Weeks BY <2>2 DEF Range
  <2> QED BY <2>1, <2>2, <2>3 DEF PagesInv, RequestInv, CursorInv
<1>3. /\ RowsOrdered(rows) /\ rows \subseteq AllRows /\ \A r \in rows : r # None
  BY <1>2, WantedOrdered
<1>4. L \in Nat \ {0} BY <1>2, PagesAssumption DEF Clients
<1>5. next \in Seq(rows) /\ Len(next) \in Nat BY <1>3, FromCursorTyped
<1>6. part \in Seq(AllRows)
  <2> DEFINE e == Min({L, Len(next)})
  <2>1. e \in Nat /\ e <= Len(next) BY <1>4, <1>5, Least
  <2>2. SubSeq(next, 1, e) = [m \in 1 .. e |-> next[m]] BY <1>5, <2>1, FirstOnes
  <2>3. \A m \in 1 .. e : next[m] \in AllRows BY <1>3, <1>5, <2>1
  <2> HIDE DEF e
  <2>4. [m \in 1 .. e |-> next[m]] \in Seq(AllRows) BY <2>1, <2>3
  <2> QED BY <2>2, <2>4 DEF e
<1>7. last \in PageType BY <1>2, <1>6 DEF PageType
<1> HIDE DEF last
<1>8. /\ pages' \in Seq(PageType) /\ Len(pages') = N + 1 /\ pages' # <<>>
      /\ \A n \in DOMAIN pages' : (pages'[n] = last /\ n = N + 1)
                                  \/ (n \in DOMAIN pages /\ pages'[n] = pages[n])
      /\ \A n \in DOMAIN pages : n \in DOMAIN pages' /\ pages'[n] = pages[n]
      /\ Len(pages') \in DOMAIN pages' /\ pages'[Len(pages')] = last
  <2>1. /\ pages' \in Seq(PageType) /\ Len(pages') = N + 1 /\ pages' # <<>>
        /\ \A n \in DOMAIN pages' : (pages'[n] = last /\ n = Len(pages'))
                                    \/ (n \in DOMAIN pages /\ pages'[n] = pages[n])
        /\ \A n \in DOMAIN pages : n \in DOMAIN pages' /\ pages'[n] = pages[n]
        /\ Len(pages') \in DOMAIN pages' /\ pages'[Len(pages')] = last
    BY <1>1, <1>2, <1>7, AppendIs
  <2> QED BY <2>1
<1>9. last.week = chosen /\ last.items = part BY DEF last
<1>10. RequestInv'
  <2>1. \A n \in DOMAIN pages' : pages'[n].week \in Range(published) \cup {None}
    BY <1>2, <1>8, <1>9
  <2>2. client' \in Clients' BY <1>1, <1>2 DEF Clients
  <2>3. pages' \in Seq(PageType)' BY <1>8 DEF PageType, AllRows
  <2> QED BY <1>1, <1>2, <2>1, <2>2, <2>3 DEF RequestInv
<1>11. CursorInv' BY <1>1, <1>8 DEF CursorInv
<1>12. SlicesInv'
  <2> SUFFICES ASSUME NEW w \in Weeks, \A n \in DOMAIN pages' : pages'[n].week = w
               PROVE  /\ \A n \in DOMAIN pages' : pages'[n].items = Slice(Sorted(Wanted(w)), n)
                      /\ cursor' = None => Cardinality(Wanted(w)) <= Len(pages') * L
                      /\ cursor' # None =>
                           /\ Len(pages') * L < Cardinality(Wanted(w))
                           /\ cursor' = Sorted(Wanted(w))[Len(pages') * L]
    <3>1. \A w, n : Slice(Sorted(Wanted(w)), n)' = Slice(Sorted(Wanted(w)), n)
      BY <1>1 DEF Slice, Wanted
    <3>2. \A w : Wanted(w)' = Wanted(w) /\ Sorted(Wanted(w))' = Sorted(Wanted(w))
      BY <1>1 DEF Wanted
    <3>3. ASSUME NEW w \in Weeks, \A n \in DOMAIN pages' : pages'[n].week = w
          PROVE  /\ \A n \in DOMAIN pages' : pages'[n].items = Slice(Sorted(Wanted(w)), n)'
                 /\ cursor' = None => Cardinality(Wanted(w)') <= Len(pages') * client'.limit
                 /\ cursor' # None =>
                      /\ Len(pages') * client'.limit < Cardinality(Wanted(w)')
                      /\ cursor' = Sorted(Wanted(w))'[Len(pages') * client'.limit]
      <4>1. /\ \A n \in DOMAIN pages' : pages'[n].items = Slice(Sorted(Wanted(w)), n)
            /\ cursor' = None => Cardinality(Wanted(w)) <= Len(pages') * L
            /\ cursor' # None =>
                 /\ Len(pages') * L < Cardinality(Wanted(w))
                 /\ cursor' = Sorted(Wanted(w))[Len(pages') * L]
        BY <3>3
      <4> QED BY <1>1, <3>1, <3>2, <4>1
    <3> QED BY <3>3 DEF SlicesInv
  <2>1. w = chosen /\ \A n \in DOMAIN pages : pages[n].week = w BY <1>8, <1>9
  <2>2. Wanted(w) = rows BY <2>1 DEF Wanted
  <2>3. N \in Nat /\ (N = 0 <=> pages = <<>>) BY <1>2
  <2>4. pages # <<>> =>
          /\ \A n \in DOMAIN pages : pages[n].items = Slice(Sorted(rows), n)
          /\ cursor # None => /\ N * L < Cardinality(rows)
                              /\ cursor = Sorted(rows)[N * L]
    BY <1>2, <2>1, <2>2 DEF PagesInv, SlicesInv
  <2>5. /\ N = 0 <=> cursor = None
        /\ N # 0 => /\ N * L < Cardinality(rows)
                    /\ cursor = Sorted(rows)[N * L]
    BY <1>2, <2>3, <2>4
  <2> HIDE DEF rows
  <2>6. /\ part = Slice(Sorted(rows), N + 1)
        /\ Len(next) > L => /\ (N + 1) * L < Cardinality(rows)
                            /\ part[Len(part)] = Sorted(rows)[(N + 1) * L]
        /\ ~ Len(next) > L => Cardinality(rows) <= (N + 1) * L
    <3>1. RowsOrdered(rows) BY <1>3
    <3>2. client.limit \in Nat \ {0} BY <1>4
    <3>3. CursorAt(rows, N) BY <2>5 DEF CursorAt
    <3> HIDE DEF N
    <3>4. FollowsPages(rows, N) BY <2>3, <3>1, <3>2, <3>3, NextSlice
    <3> QED BY <3>4 DEF FollowsPages
  <2>7. \A n \in DOMAIN pages' : pages'[n].items = Slice(Sorted(rows), n)
    <3>1. \A n \in DOMAIN pages : pages[n].items = Slice(Sorted(rows), n)
      <4>1. CASE pages = <<>> BY <4>1
      <4>2. CASE pages # <<>> BY <2>4, <4>2
      <4> QED BY <4>1, <4>2
    <3> HIDE DEF part
    <3> QED BY <1>8, <1>9, <2>6, <3>1
  <2>8. CASE Len(next) > L
    <3>1. cursor' = Sorted(rows)[(N + 1) * L] /\ (N + 1) * L < Cardinality(rows)
      BY <1>1, <2>6, <2>8
    <3>2. Len(next) \in Nat /\ part[Len(part)] \in rows
      <4> DEFINE e == Min({L, Len(next)})
      <4>1. e \in Nat /\ e <= Len(next) /\ e # 0 BY <1>4, <1>5, <2>8, Least
      <4>2. SubSeq(next, 1, e) = [m \in 1 .. e |-> next[m]] /\ Len(SubSeq(next, 1, e)) = e
        BY <1>5, <4>1, FirstOnes
      <4>3. part[Len(part)] = next[e] /\ e \in 1 .. Len(next) BY <1>5, <4>1, <4>2
      <4> QED BY <1>5, <4>3
    <3>3. cursor' # None
      <4> HIDE DEF part, next
      <4> QED BY <1>1, <1>3, <2>8, <3>2
    <3> QED BY <1>8, <2>2, <2>7, <3>1, <3>3
  <2>9. CASE ~ Len(next) > L
    <3>1. cursor' = None BY <1>1, <2>9
    <3> QED BY <1>8, <2>2, <2>6, <2>7, <2>9, <3>1
  <2> QED BY <2>8, <2>9
<1> QED BY <1>10, <1>11, <1>12 DEF PagesInv

\* What is known of the pages holds in every state.
LEMMA PagesHold == PagesSpec => []PagesInv
<1>1. PagesInit => PagesInv BY PagesBegin
<1>2. PagesInv /\ [PagesNext]_pageVars => PagesInv'
  <2> SUFFICES ASSUME PagesInv, [PagesNext]_pageVars PROVE PagesInv'
    OBVIOUS
  <2>1. CASE UNCHANGED pageVars
    <3>1. UNCHANGED <<published, client, pages, cursor, step, chosen>> BY <2>1 DEF pageVars
    <3>2. RequestInv' BY <3>1 DEF PagesInv, RequestInv, Clients, PageType, AllRows
    <3>3. CursorInv' BY <3>1 DEF PagesInv, CursorInv
    <3> QED BY <3>1, <3>2, <3>3, SlicesStand DEF PagesInv
  <2> QED BY <2>1, PublishedGrows, SeasonSet, ClientComes, PageAsked, PublicationSought,
          RankingsRead, ClientLeaves DEF PagesNext
<1> QED BY <1>1, <1>2, PTL DEF PagesSpec

\* Full pages up to one of them hold every place up to their number of rows.
LEMMA PageOf ==
  ASSUME NEW l \in Nat \ {0}, NEW p \in Nat \ {0}, NEW n \in Nat, p <= n * l
  PROVE  \E q \in 1 .. n : (q - 1) * l < p /\ p <= q * l
<1> DEFINE numbers == {m \in 0 .. n : m * l < p}
<1>1. numbers \subseteq 0 .. n /\ numbers \subseteq Int OBVIOUS
<1>2. IsFiniteSet(numbers)
  <2>1. IsFiniteSet(0 .. n) BY FS_Interval
  <2> HIDE DEF numbers
  <2> QED BY <1>1, <2>1, FS_Subset
<1>3. 0 \in numbers
  <2>1. 0 * l = 0 OBVIOUS
  <2> QED BY <2>1
<1>4. Max(numbers) \in numbers /\ \A k \in numbers : k <= Max(numbers)
  BY <1>1, <1>2, <1>3, LargestIs
<1>5. PICK m \in 0 .. n : m * l < p /\ \A k \in numbers : k <= m BY <1>4
<1>6. m # n BY <1>5, Pages
<1>7. m + 1 \in 1 .. n BY <1>6
<1>8. (m + 1) * l \in Nat BY Pages
<1>9. ~ (m + 1) * l < p
  <2> SUFFICES ASSUME (m + 1) * l < p PROVE FALSE
    OBVIOUS
  <2>1. m + 1 \in numbers BY <1>7
  <2> QED BY <1>5, <2>1
<1> HIDE DEF numbers
<1>10. p <= (m + 1) * l BY <1>8, <1>9
<1>11. (m + 1) - 1 = m OBVIOUS
<1> QED BY <1>5, <1>7, <1>10, <1>11

\* A slice has rows only, and a place's row is in the slice of its page.
LEMMA SliceHolds ==
  ASSUME NEW rows, NEW s \in Seq(rows), client.limit \in Nat \ {0}, NEW n \in Nat \ {0}
  PROVE  /\ Range(Slice(s, n)) \subseteq rows
         /\ \A p \in 1 .. Len(s) :
              (n - 1) * client.limit < p /\ p <= n * client.limit => s[p] \in Range(Slice(s, n))
<1> DEFINE L == client.limit
           k == (n - 1) * L
           e == Min({n * L, Len(s)})
<1>1. k \in Nat /\ n * L \in Nat /\ Len(s) \in Nat BY Pages
<1>2. PICK b \in Nat : b = n * L BY <1>1
<1>3. e \in Nat /\ e <= Len(s) /\ e = IF b <= Len(s) THEN b ELSE Len(s)
  <2>1. e = Min({b, Len(s)}) BY <1>2
  <2>2. Min({b, Len(s)}) = IF b <= Len(s) THEN b ELSE Len(s)
    <3>1. PICK l \in Int : l = Len(s) BY <1>1
    <3>2. Min({b, l}) = IF b <= l THEN b ELSE l BY Least
    <3> QED BY <3>1, <3>2
  <2> HIDE DEF e
  <2> QED BY <1>1, <2>1, <2>2
<1> HIDE DEF e, k
<1>4. Slice(s, n) = SubSeq(s, k + 1, e) BY DEF Slice, k, e
<1>5. CASE k > e
  <2>1. SubSeq(s, k + 1, e) = <<>> BY <1>1, <1>3, <1>5
  <2>2. Range(SubSeq(s, k + 1, e)) = {}
    <3>1. DOMAIN SubSeq(s, k + 1, e) = {}
      <4>1. DOMAIN <<>> = {} OBVIOUS
      <4> QED BY <2>1, <4>1
    <3> QED BY <3>1 DEF Range
  <2>3. \A p \in 1 .. Len(s) : ~ (k < p /\ p <= n * L) BY <1>1, <1>2, <1>3, <1>5
  <2> QED BY <1>4, <2>2, <2>3 DEF k
<1>6. CASE k <= e
  <2>1. PICK d \in Nat : e = k + d
    <3>1. k \in Int /\ e \in Int /\ e - k \in Nat /\ e = k + (e - k) BY <1>1, <1>3, <1>6
    <3> QED BY <3>1
  <2>2. Slice(s, n) = [m \in 1 .. d |-> s[k + m]] BY <1>1, <1>3, <1>4, <2>1, SliceIs
  <2>3. \A m \in 1 .. d : s[k + m] \in rows BY <1>1, <1>3, <2>1
  <2>4. Range(Slice(s, n)) \subseteq rows BY <2>2, <2>3 DEF Range
  <2>5. ASSUME NEW p \in 1 .. Len(s), k < p, p <= n * L
        PROVE  s[p] \in Range(Slice(s, n))
    <3>1. p <= e BY <1>1, <1>2, <1>3, <2>5
    <3>2. p - k \in 1 .. d /\ k + (p - k) = p BY <1>1, <1>3, <2>1, <2>5, <3>1
    <3>3. Slice(s, n)[p - k] = s[p] BY <2>2, <3>2
    <3> QED BY <2>2, <3>2, <3>3 DEF Range
  <2> QED BY <2>4, <2>5 DEF k
<1> QED BY <1>1, <1>3, <1>5, <1>6

\* What is picked first is the first.
LEMMA PickedFirst ==
  ASSUME NEW n \in Nat, NEW list, NEW places, places \subseteq 1 .. n, 1 \in places
  PROVE  Picked(list, places)[1] = list[1]
<1>1. IsFiniteSet(places)
  <2>1. IsFiniteSet(1 .. n) BY FS_Interval
  <2> QED BY <2>1, FS_Subset
<1>2. Cardinality(places) \in Nat /\ Cardinality(places) # 0
  BY <1>1, FS_EmptySet, FS_CardinalityType
<1>3. ASSUME NEW j \in places PROVE ~ j < 1
  <2>1. j \in 1 .. n OBVIOUS
  <2> QED BY <2>1
<1>4. RankOf(places, 1) = 0
  <2>1. {j \in places : j < 1} = {} BY <1>3
  <2> QED BY <2>1, FS_EmptySet DEF RankOf
<1>5. \A k \in places : RankOf(places, k) = 0 => k = 1
  <2>1. places \subseteq Int OBVIOUS
  <2>2. \A j, k \in places : RankOf(places, j) = RankOf(places, k) => j = k
    BY <1>1, <2>1, NumbersRank
  <2> QED BY <1>4, <2>2
<1>6. Nth(places, 1) = CHOOSE k \in places : RankOf(places, k) = 0
  BY DEF Nth, RankOf
<1>7. Nth(places, 1) = 1 BY <1>4, <1>5, <1>6
<1> QED BY <1>2, <1>7 DEF Picked

\* Any client whose pages name one publication and who is told that there are
\* no more has every row it asked for once and in the order of the ranking,
\* page after page, for any runs, filters and sizes of a page, and while the
\* other pages show the publication they agree (getRankings,
\* findPublicationForSeason, getRegionSummary).
THEOREM PagesFollow == PagesSpec => []PagesAgree
<1>1. PagesInv => PagesAgree
  <2> SUFFICES ASSUME PagesInv, NEW w \in Weeks, Complete(w)
               PROVE  /\ \A n \in DOMAIN pages : pages[n].items = Slice(Sorted(Wanted(w)), n)
                      /\ Len(pages) * client.limit >= Cardinality(Wanted(w))
                      /\ w = published[Len(published)] /\ seasonOpen =>
                           /\ GetRegionSummary(client.keys) =
                                UNION {Range(pages[n].items) : n \in DOMAIN pages}
                           /\ \A r \in AllRows : LET p == r.player IN
                                r.key \in client.keys /\ r \in Rows[w] =>
                                  /\ GetMemberChallengeRankings(p) = {w}
                                  /\ GetChallengePlayerRankings(p).rankings[1] = w
    BY DEF PagesAgree
  <2> DEFINE rows == Wanted(w)
             s == Sorted(rows)
             N == Len(pages)
             L == client.limit
             newest == published[Len(published)]
  <2>1. /\ client \in Clients /\ cursor = None /\ pages # <<>> /\ pages \in Seq(PageType)
        /\ published \in Seq(Weeks)
        /\ \A n \in DOMAIN pages : pages[n].week = w /\ w \in Range(published) \cup {None}
    BY DEF Complete, PagesInv, RequestInv
  <2>2. /\ \A n \in DOMAIN pages : pages[n].items = Slice(s, n)
        /\ Cardinality(rows) <= N * L
    BY <2>1 DEF PagesInv, SlicesInv
  <2>3. N \in Nat \ {0} /\ DOMAIN pages = 1 .. N /\ L \in Nat \ {0}
    <3>1. N \in Nat \ {0} /\ DOMAIN pages = 1 .. N BY <2>1
    <3>2. L \in Limits BY <2>1 DEF Clients
    <3> HIDE DEF L
    <3> QED BY <3>1, <3>2, PagesAssumption
  <2>4. RowsOrdered(rows) BY WantedOrdered DEF Wanted
  <2>5. /\ Cardinality(rows) \in Nat /\ s \in Seq(rows) /\ Len(s) = Cardinality(rows)
        /\ \A r \in rows : Rank(rows, r) \in 0 .. Cardinality(rows) - 1
        /\ \A r \in rows : s[Rank(rows, r) + 1] = r
    BY <2>4, RowsRank, SortedIs
  <2>6. published # <<>> /\ Len(published) \in Nat \ {0}
    <3>1. 1 \in DOMAIN pages BY <2>3
    <3>2. w \in Range(published) BY <2>1, <3>1, PagesAssumption
    <3>3. DOMAIN published # {} BY <3>2 DEF Range
    <3> QED BY <2>1, <3>3
  <2>7. UNION {Range(pages[n].items) : n \in DOMAIN pages} = rows
    <3> HIDE DEF rows, s, L
    <3>1. ASSUME NEW n \in DOMAIN pages PROVE Range(pages[n].items) \subseteq rows
      BY <2>2, <2>3, <2>5, SliceHolds DEF L
    <3>2. ASSUME NEW r \in rows PROVE \E n \in DOMAIN pages : r \in Range(pages[n].items)
      <4> DEFINE p == Rank(rows, r) + 1
      <4>1. p \in 1 .. Len(s) /\ s[p] = r BY <2>5
      <4>2. p \in Nat \ {0} /\ p <= N * L BY <2>2, <2>3, <2>5, <4>1, Pages
      <4> HIDE DEF p
      <4>3. PICK q \in 1 .. N : (q - 1) * L < p /\ p <= q * L BY <2>3, <4>2, PageOf
      <4>4. s[p] \in Range(Slice(s, q)) BY <2>3, <2>5, <4>1, <4>3, SliceHolds DEF L
      <4> QED BY <2>2, <2>3, <4>1, <4>4
    <3> QED BY <3>1, <3>2
  <2>8. ASSUME w = newest, seasonOpen PROVE GetRegionSummary(client.keys) = rows
    BY <2>6, <2>8 DEF GetRegionSummary, Wanted
  <2>9. ASSUME w = newest, seasonOpen, NEW r \in Rows[w]
        PROVE  /\ GetMemberChallengeRankings(r.player) = {w}
               /\ GetChallengePlayerRankings(r.player).rankings[1] = w
    <3>1. RankedIn(w, r.player) BY <2>9 DEF RankedIn
    <3>2. GetMemberChallengeRankings(r.player) = {w}
      BY <2>6, <2>9, <3>1 DEF GetMemberChallengeRankings
    <3> DEFINE list == Reverse(published)
               places == {i \in DOMAIN list : RankedIn(list[i], r.player)}
    <3>3. DOMAIN list = 1 .. Len(published) /\ list[1] = w
      <4>1. list = [i \in 1 .. Len(published) |-> published[(Len(published) - i) + 1]]
        BY DEF Reverse
      <4>2. 1 \in 1 .. Len(published) /\ (Len(published) - 1) + 1 = Len(published) BY <2>6
      <4> QED BY <2>9, <4>1, <4>2
    <3> HIDE DEF list
    <3>4. 1 \in places /\ places \subseteq 1 .. Len(published) BY <2>6, <3>1, <3>3
    <3> HIDE DEF places
    <3>5. Picked(list, places)[1] = list[1] BY <2>6, <3>4, PickedFirst
    <3>6. GetChallengePlayerRankings(r.player).rankings = Picked(list, places)
      BY DEF GetChallengePlayerRankings, list, places
    <3> QED BY <3>2, <3>3, <3>5, <3>6
  <2>10. Len(pages) * client.limit >= Cardinality(rows)
    BY <2>2, <2>3, <2>5, Pages
  <2> QED BY <2>2, <2>7, <2>8, <2>9, <2>10
<1> QED BY <1>1, PagesHold, PTL

-------------------------------------------------------------------------------
(* The duels of two players.                                               *)

Pairs == {<<1, 2>>, <<2, 1>>}

\* Each of some places is one of them.
LEMMA PickedFrom ==
  ASSUME NEW n \in Nat, NEW places, places \subseteq 1 .. n
  PROVE  /\ Cardinality(places) \in Nat
         /\ \A i \in 1 .. Cardinality(places) : Nth(places, i) \in places
<1>1. IsFiniteSet(places) /\ places \subseteq Int
  <2>1. IsFiniteSet(1 .. n) BY FS_Interval
  <2>2. IsFiniteSet(places) BY <2>1, FS_Subset
  <2>3. places \subseteq Int OBVIOUS
  <2> QED BY <2>2, <2>3
<1>2. Cardinality(places) \in Nat BY <1>1, FS_CardinalityType
<1>3. ASSUME NEW i \in 1 .. Cardinality(places) PROVE Nth(places, i) \in places
  <2>1. i - 1 \in 0 .. Cardinality(places) - 1 BY <1>2
  <2>2. \E k \in places : RankOf(places, k) = i - 1 BY <1>1, <2>1, NumbersRank
  <2> QED BY <2>2 DEF Nth, RankOf
<1> QED BY <1>2, <1>3

\* Nothing is picked from no places.
LEMMA NonePicked == ASSUME NEW list PROVE Picked(list, {}) = <<>>
<1>1. Cardinality({}) = 0 BY FS_EmptySet
<1>2. 1 .. 0 = {} OBVIOUS
<1>3. Picked(list, {}) = [i \in {} |-> list[Nth({}, i)]] BY <1>1, <1>2 DEF Picked
<1> QED BY <1>3

\* A duel is one for both, on opposite sides (findPlayer).
LEMMA DuelForBoth ==
  ASSUME NEW m, IsMatch(m)
  PROVE  /\ IsDuel(m, <<1, 2>>) <=> IsDuel(m, <<2, 1>>)
         /\ IsDuel(m, <<1, 2>>) => SideOf(m, <<2, 1>>) = Other(SideOf(m, <<1, 2>>))
         /\ SideOf(m, <<1, 2>>) \in Sides
<1>1. Other("home") = "away" /\ Other("away") = "home" BY DEF Other, Sides
<1>2. m.team["home"] \cap m.team["away"] = {} BY DEF IsMatch
<1>3. /\ SideOf(m, <<1, 2>>) = IF 1 \in m.team["home"] THEN "home" ELSE "away"
      /\ SideOf(m, <<2, 1>>) = IF 2 \in m.team["home"] THEN "home" ELSE "away"
  BY DEF SideOf
<1> QED BY <1>1, <1>2, <1>3 DEF IsDuel, FindPlayer, Sides

\* The score of a duel from the other side is the score turned round, and
\* one side's victory is the other's defeat (calculateScore).
LEMMA ScoreForBoth ==
  ASSUME NEW m, IsMatch(m), NEW side \in Sides
  PROVE  LET mine   == CalculateScore(m, side)
             theirs == CalculateScore(m, Other(side))
         IN  /\ theirs = ReverseScore(mine)
             /\ IsVictory(theirs) <=> IsDefeat(mine)
             /\ IsDefeat(theirs) <=> IsVictory(mine)
<1>1. Other(side) \in Sides /\ Other(Other(side)) = side BY DEF Other, Sides
<1>2. Len(<<>>) = 0 /\ Len(<<"forfait">>) = 1 OBVIOUS
<1>3. CASE m.sets = None
  BY <1>1, <1>2, <1>3 DEF CalculateScore, ReverseScore, IsScore, IsVictory, IsDefeat
<1>4. CASE m.sets # None /\ (m.forfeited \/ \E s \in Sides : m.sets[s] = None)
  BY <1>1, <1>2, <1>4 DEF CalculateScore, ReverseScore, IsScore, IsVictory, IsDefeat
<1>5. CASE m.sets # None /\ ~ m.forfeited /\ ~ \E s \in Sides : m.sets[s] = None
  <2>1. \A s \in Sides : m.sets[s] \in Int BY <1>5 DEF IsMatch
  <2>2. PICK a \in Int, b \in Int : a = m.sets[side] /\ b = m.sets[Other(side)] BY <1>1, <2>1
  <2>3. CalculateScore(m, side) = <<a, b>> /\ CalculateScore(m, Other(side)) = <<b, a>>
    BY <1>1, <1>5, <2>2 DEF CalculateScore
  <2>4. Len(<<a, b>>) = 2 /\ Len(<<b, a>>) = 2 OBVIOUS
  <2> QED BY <2>3, <2>4 DEF ReverseScore, IsScore, IsVictory, IsDefeat
<1> QED BY <1>3, <1>4, <1>5

\* The entry of a duel from the other side is the entry turned round.
LEMMA EntryForBoth ==
  ASSUME NEW m, IsMatch(m), IsDuel(m, <<1, 2>>), NEW links
  PROVE  LET mine   == DuelEntry(links, m, <<1, 2>>)
             theirs == DuelEntry(links, m, <<2, 1>>)
         IN  /\ theirs = ReverseEntry(mine)
             /\ theirs.date = mine.date
             /\ IsVictory(theirs.score) <=> IsDefeat(mine.score)
             /\ IsDefeat(theirs.score) <=> IsVictory(mine.score)
<1>1. PICK side \in Sides : SideOf(m, <<1, 2>>) = side /\ SideOf(m, <<2, 1>>) = Other(side)
  BY DuelForBoth
<1>2. LET mine   == CalculateScore(m, side)
          theirs == CalculateScore(m, Other(side))
      IN  /\ theirs = ReverseScore(mine)
          /\ IsVictory(theirs) <=> IsDefeat(mine)
          /\ IsDefeat(theirs) <=> IsVictory(mine)
  BY ScoreForBoth
<1> DEFINE year == LinkedSeason(links, m)
           mine == CalculateScore(m, side)
           theirs == CalculateScore(m, Other(side))
<1>3. DuelEntry(links, m, <<1, 2>>) =
        [season |-> year, date |-> m.date, match |-> m.id,
         playerRanking |-> m.ranking[1], opponentRanking |-> m.ranking[2], score |-> mine]
  BY <1>1 DEF DuelEntry
<1>4. DuelEntry(links, m, <<2, 1>>) =
        [season |-> year, date |-> m.date, match |-> m.id,
         playerRanking |-> m.ranking[2], opponentRanking |-> m.ranking[1], score |-> theirs]
  BY <1>1 DEF DuelEntry
<1>5. theirs = ReverseScore(mine) BY <1>2
<1>6. /\ IsVictory(theirs) <=> IsDefeat(mine)
      /\ IsDefeat(theirs) <=> IsVictory(mine)
  BY <1>2
<1>7. ReverseEntry(DuelEntry(links, m, <<1, 2>>)) =
        [season |-> year, date |-> m.date, match |-> m.id,
         playerRanking |-> m.ranking[2], opponentRanking |-> m.ranking[1],
         score |-> ReverseScore(mine)]
  <2> HIDE DEF year, mine, theirs
  <2> QED BY <1>3 DEF ReverseEntry
<1> HIDE DEF year, mine, theirs
<1> QED BY <1>3, <1>4, <1>5, <1>6, <1>7

\* The data for one player, turned round, is the data for the other
\* (calculateHead2Head and reversePerspective).
LEMMA DataForBoth ==
  ASSUME NEW n \in Nat, NEW matches, NEW links
  PROVE  DOMAIN matches = 1 .. n /\ (\A i \in 1 .. n : IsMatch(matches[i])) =>
           ReversePerspective(CalculateHead2Head(matches, links, <<1, 2>>))
             = CalculateHead2Head(matches, links, <<2, 1>>)
<1>0. SUFFICES ASSUME DOMAIN matches = 1 .. n, \A i \in 1 .. n : IsMatch(matches[i])
               PROVE  ReversePerspective(CalculateHead2Head(matches, links, <<1, 2>>))
                        = CalculateHead2Head(matches, links, <<2, 1>>)
  OBVIOUS
<1> DEFINE places == {i \in DOMAIN matches : IsDuel(matches[i], <<1, 2>>)}
           shown == Picked(matches, places)
           mine == [i \in DOMAIN shown |-> DuelEntry(links, shown[i], <<1, 2>>)]
           theirs == [i \in DOMAIN shown |-> DuelEntry(links, shown[i], <<2, 1>>)]
<1>1. {i \in DOMAIN matches : IsDuel(matches[i], <<2, 1>>)} = places BY <1>0, DuelForBoth
<1>2. places \subseteq 1 .. n BY <1>0
<1>3. \A i \in DOMAIN shown : IsMatch(shown[i]) /\ IsDuel(shown[i], <<1, 2>>)
  <2>1. \A k \in places : IsMatch(matches[k]) /\ IsDuel(matches[k], <<1, 2>>) BY <1>0
  <2> HIDE DEF places
  <2>2. \A i \in 1 .. Cardinality(places) : Nth(places, i) \in places BY <1>2, PickedFrom
  <2> QED BY <2>1, <2>2 DEF Picked
<1>4. CalculateHead2Head(matches, links, <<1, 2>>) =
        [count |-> Len(matches),
         victories |-> Counted(mine, IsVictory), defeats |-> Counted(mine, IsDefeat),
         lastVictory |-> Latest(Dates(mine, IsVictory)),
         firstVictory |-> Earliest(Dates(mine, IsVictory)),
         lastDefeat |-> Latest(Dates(mine, IsDefeat)),
         history |-> mine, pair |-> <<1, 2>>]
  BY DEF CalculateHead2Head
<1>5. CalculateHead2Head(matches, links, <<2, 1>>) =
        [count |-> Len(matches),
         victories |-> Counted(theirs, IsVictory), defeats |-> Counted(theirs, IsDefeat),
         lastVictory |-> Latest(Dates(theirs, IsVictory)),
         firstVictory |-> Earliest(Dates(theirs, IsVictory)),
         lastDefeat |-> Latest(Dates(theirs, IsDefeat)),
         history |-> theirs, pair |-> <<2, 1>>]
  <2> HIDE DEF places
  <2> QED BY <1>1 DEF CalculateHead2Head
<1>6. \A i \in DOMAIN shown :
        /\ theirs[i] = ReverseEntry(mine[i])
        /\ theirs[i].date = mine[i].date
        /\ IsVictory(theirs[i].score) <=> IsDefeat(mine[i].score)
        /\ IsDefeat(theirs[i].score) <=> IsVictory(mine[i].score)
  <2> HIDE DEF shown
  <2>1. SUFFICES ASSUME NEW i \in DOMAIN shown
                 PROVE  /\ theirs[i] = ReverseEntry(mine[i])
                        /\ theirs[i].date = mine[i].date
                        /\ IsVictory(theirs[i].score) <=> IsDefeat(mine[i].score)
                        /\ IsDefeat(theirs[i].score) <=> IsVictory(mine[i].score)
    OBVIOUS
  <2>2. /\ mine[i] = DuelEntry(links, shown[i], <<1, 2>>)
        /\ theirs[i] = DuelEntry(links, shown[i], <<2, 1>>)
    OBVIOUS
  <2>3. IsMatch(shown[i]) /\ IsDuel(shown[i], <<1, 2>>) BY <1>3
  <2> HIDE DEF mine, theirs
  <2> QED BY <2>2, <2>3, EntryForBoth
<1>7. DOMAIN mine = DOMAIN shown /\ DOMAIN theirs = DOMAIN shown OBVIOUS
<1>8. theirs = [i \in DOMAIN mine |-> ReverseEntry(mine[i])]
  <2> HIDE DEF shown
  <2>1. \A i \in DOMAIN shown : theirs[i] = ReverseEntry(mine[i]) BY <1>6
  <2> QED BY <2>1
<1> HIDE DEF shown, mine, theirs
<1>9. /\ Counted(theirs, IsVictory) = Counted(mine, IsDefeat)
      /\ Counted(theirs, IsDefeat) = Counted(mine, IsVictory)
  <2>1. {i \in DOMAIN theirs : IsVictory(theirs[i].score)}
          = {i \in DOMAIN mine : IsDefeat(mine[i].score)}
    BY <1>6, <1>7
  <2>2. {i \in DOMAIN theirs : IsDefeat(theirs[i].score)}
          = {i \in DOMAIN mine : IsVictory(mine[i].score)}
    BY <1>6, <1>7
  <2> QED BY <2>1, <2>2 DEF Counted
<1>10. /\ Dates(theirs, IsVictory) = Dates(mine, IsDefeat)
       /\ Dates(theirs, IsDefeat) = Dates(mine, IsVictory)
  BY <1>6, <1>7 DEF Dates
<1> DEFINE data == CalculateHead2Head(matches, links, <<1, 2>>)
<1>11. ReversePerspective(data) =
         [count |-> Len(matches),
          victories |-> Counted(mine, IsDefeat), defeats |-> Counted(mine, IsVictory),
          lastVictory |-> Latest(Dates(mine, IsDefeat)),
          firstVictory |-> Earliest(Dates(mine, IsDefeat)),
          lastDefeat |-> Latest(Dates(mine, IsVictory)),
          history |-> theirs, pair |-> <<2, 1>>]
  <2>1. /\ data.count = Len(matches) /\ data.history = mine /\ data.pair = <<1, 2>>
        /\ data.victories = Counted(mine, IsVictory) /\ data.defeats = Counted(mine, IsDefeat)
        /\ data.lastVictory = Latest(Dates(mine, IsVictory))
        /\ data.lastDefeat = Latest(Dates(mine, IsDefeat))
    BY <1>4
  <2> HIDE DEF data
  <2>2. <<data.pair[2], data.pair[1]>> = <<2, 1>> BY <2>1
  <2> QED BY <1>8, <2>1, <2>2 DEF ReversePerspective
<1> QED BY <1>5, <1>9, <1>10, <1>11

\* What either of the two should be told.
Truth(pair) ==
    IF Existing = <<>> THEN EmptyData(pair) ELSE CalculateHead2Head(Existing, page, pair)

\* Links that lead to matches, or nowhere, and workers at some of them.
LinksInv ==
    /\ Len(page) \in Nat /\ DOMAIN page = 1 .. Len(page)
    /\ \A i \in DOMAIN page : site[i] = None \/ IsMatch(site[i])
    /\ working \in [Fetchers -> Nat] /\ nextIndex \in Nat \ {0}
    /\ DOMAIN details = DOMAIN page

\* Every link before the next is answered as the federation would, or failed,
\* or a worker is at it.
ReadInv ==
    \A i \in DOMAIN page : i < nextIndex =>
        \/ \E w \in Fetchers : working[w] = i
        \/ details[i] = "failed"
        \/ details[i] = IF site[i] = None THEN "missing" ELSE "found"

\* What is kept is the lower number's data, and what is answered the asking
\* player's.
KeptInv ==
    /\ at # "idle" => asked \in Pairs
    /\ cached # None => cached = Truth(Canonical)
    /\ at = "idle" /\ answer \notin {None, Failed} => answer = Truth(asked)

DuelsInv == LinksInv /\ ReadInv /\ KeptInv

\* What two players have played is what the site says.
LEMMA TruthStands ==
  ASSUME UNCHANGED <<page, site>> PROVE \A pair : Truth(pair)' = Truth(pair)
<1>1. Existing' = Existing BY DEF Existing
<1> QED BY <1>1 DEF Truth

\* The data kept is shown to either as that player's (getHead2HeadResults).
LEMMA TruthForBoth ==
  ASSUME LinksInv, NEW pair \in Pairs
  PROVE  Shown(Truth(Canonical), pair) = Truth(pair)
<1>1. CASE pair = <<1, 2>> BY <1>1 DEF Shown, Canonical
<1>2. CASE pair = <<2, 1>>
  <2>1. pair # Canonical BY <1>2 DEF Canonical
  <2>2. CASE Existing = <<>>
    <3>1. DOMAIN <<>> = {} OBVIOUS
    <3>2. /\ Dates(<<>>, IsDefeat) = {}
          /\ [i \in DOMAIN <<>> |-> ReverseEntry(<<>>[i])] = <<>>
      BY <3>1 DEF Dates
    <3>3. Earliest({}) = None BY DEF Earliest
    <3> DEFINE data == EmptyData(<<1, 2>>)
    <3>4. /\ data.count = 0 /\ data.victories = 0 /\ data.defeats = 0
          /\ data.lastVictory = None /\ data.lastDefeat = None
          /\ data.history = <<>> /\ data.pair = <<1, 2>>
      BY DEF EmptyData
    <3> HIDE DEF data
    <3>5. <<data.pair[2], data.pair[1]>> = <<2, 1>> BY <3>4
    <3>6. ReversePerspective(data) = EmptyData(<<2, 1>>)
      BY <3>2, <3>3, <3>4, <3>5 DEF ReversePerspective, EmptyData
    <3> QED BY <1>2, <2>1, <2>2, <3>6 DEF Shown, Truth, Canonical, data
  <2>3. CASE Existing # <<>>
    <3> DEFINE places == {i \in DOMAIN page : site[i] # None}
    <3>1. places \subseteq 1 .. Len(page) /\ \A k \in places : IsMatch(site[k])
      BY DEF LinksInv
    <3> HIDE DEF places
    <3>2. /\ Cardinality(places) \in Nat
          /\ \A i \in 1 .. Cardinality(places) : Nth(places, i) \in places
      BY <3>1, PickedFrom DEF LinksInv
    <3>3. Existing = [i \in 1 .. Cardinality(places) |-> site[Nth(places, i)]]
      BY DEF Existing, Picked, places
    <3>4. /\ DOMAIN Existing = 1 .. Cardinality(places)
          /\ \A i \in 1 .. Cardinality(places) : IsMatch(Existing[i])
      BY <3>1, <3>2, <3>3
    <3>5. ReversePerspective(CalculateHead2Head(Existing, page, <<1, 2>>))
            = CalculateHead2Head(Existing, page, <<2, 1>>)
      BY <3>2, <3>4, DataForBoth
    <3> QED BY <1>2, <2>1, <2>3, <3>5 DEF Shown, Truth, Canonical
  <2> QED BY <2>2, <2>3
<1> QED BY <1>1, <1>2 DEF Pairs

\* When every link is read and none has failed, what is gathered is what
\* the federation has (extractMatchesFromDetails).
LEMMA AllGathered ==
  ASSUME DuelsInv, Finish
  PROVE  Gather = Failed \/ Gather = Truth(Canonical)
<1>1. CASE \E i \in DOMAIN page : details[i] = "failed" BY <1>1 DEF Gather
<1>2. CASE ~ \E i \in DOMAIN page : details[i] = "failed"
  <2>1. ASSUME NEW i \in DOMAIN page
        PROVE  details[i] = IF site[i] = None THEN "missing" ELSE "found"
    <3>1. i \in 1 .. Len(page) /\ i < nextIndex BY DEF DuelsInv, LinksInv, Finish
    <3>2. i # 0 /\ ~ \E w \in Fetchers : working[w] = i BY <3>1 DEF Finish
    <3> QED BY <1>2, <3>1, <3>2 DEF DuelsInv, ReadInv
  <2>2. {i \in DOMAIN page : details[i] = "found"} = {i \in DOMAIN page : site[i] # None}
    BY <2>1
  <2>3. Found = Existing BY <2>2 DEF Found, Existing
  <2> QED BY <1>2, <2>3 DEF Gather, Truth
<1> QED BY <1>1, <1>2

\* A request ends, and keeps what it has found.
LEMMA DuelsEnd ==
  ASSUME DuelsInv, at # "idle", NEW data, data = Failed \/ data = Truth(Canonical), End(data)
  PROVE  DuelsInv'
<1>1. UNCHANGED <<page, site, asked, working>> /\ at' = "idle" /\ nextIndex' = 1
  BY DEF End
<1>2. LinksInv' BY <1>1 DEF DuelsInv, LinksInv, End
<1>3. ReadInv'
  <2> SUFFICES ASSUME NEW i \in DOMAIN page', i < nextIndex' PROVE FALSE
    BY DEF ReadInv
  <2>1. i \in 1 .. Len(page) BY <1>1 DEF DuelsInv, LinksInv
  <2> QED BY <1>1, <2>1
<1>4. KeptInv'
  <2>1. \A pair : Truth(pair)' = Truth(pair) BY <1>1, TruthStands
  <2>2. asked \in Pairs BY DEF DuelsInv, KeptInv
  <2>3. CASE data = Failed
    <3>1. cached' = None /\ answer' = Failed BY <2>3 DEF End
    <3> QED BY <1>1, <3>1 DEF KeptInv
  <2>4. CASE data # Failed
    <3>1. cached' = Truth(Canonical) /\ answer' = Shown(Truth(Canonical), asked)
      BY <2>4 DEF End
    <3>2. answer' = Truth(asked) BY <2>2, <3>1, TruthForBoth DEF DuelsInv
    <3>3. Truth(Canonical)' = Truth(Canonical) /\ Truth(asked)' = Truth(asked)
      <4>1. Truth(asked') = Truth(asked) BY <1>1
      <4> QED BY <1>1, <2>1 DEF Truth, Canonical
    <3> QED BY <1>1, <3>1, <3>2, <3>3 DEF KeptInv, Canonical
  <2> QED BY <2>3, <2>4
<1> QED BY <1>2, <1>3, <1>4 DEF DuelsInv

\* A request is answered from what is kept, or begins.
LEMMA DuelsAsked ==
  ASSUME DuelsInv, NEW pair \in Pairs, AskDuels(pair)
  PROVE  DuelsInv'
<1>1. UNCHANGED <<page, site, nextIndex, working, details, cached>> /\ asked' = pair
  BY DEF AskDuels
<1>2. LinksInv' /\ ReadInv' BY <1>1 DEF DuelsInv, LinksInv, ReadInv
<1>3. \A p : Truth(p)' = Truth(p) BY <1>1, TruthStands
<1>4. Truth(Canonical)' = Truth(Canonical) /\ Truth(asked)' = Truth(pair)
  BY <1>1, <1>3 DEF Truth, Canonical
<1>5. KeptInv'
  <2>1. CASE cached = None
    <3>1. answer' = None BY <2>1 DEF AskDuels
    <3> QED BY <1>1, <2>1, <3>1 DEF KeptInv
  <2>2. CASE cached # None
    <3>1. cached = Truth(Canonical) /\ answer' = Shown(Truth(Canonical), pair)
      BY <2>2 DEF AskDuels, DuelsInv, KeptInv
    <3>2. answer' = Truth(pair) BY <3>1, TruthForBoth DEF DuelsInv
    <3> QED BY <1>1, <1>4, <2>2, <3>1, <3>2 DEF KeptInv, AskDuels
  <2> QED BY <2>1, <2>2
<1> QED BY <1>2, <1>5 DEF DuelsInv

\* A page ends the request when there is nothing on it.
LEMMA PageCame == ASSUME DuelsInv, GetPage PROVE DuelsInv'
<1>1. CASE page = <<>>
  <2>1. DOMAIN page = {} /\ {i \in DOMAIN page : site[i] # None} = {}
    <3>1. DOMAIN <<>> = {} OBVIOUS
    <3> QED BY <1>1, <3>1
  <2>2. Existing = <<>> BY <2>1, NonePicked DEF Existing
  <2>3. End(Truth(Canonical)) BY <1>1, <2>2 DEF GetPage, Truth
  <2> QED BY <2>3, DuelsEnd DEF GetPage
<1>2. CASE page # <<>>
  <2>1. UNCHANGED <<page, site, asked, nextIndex, working, details, cached, answer>>
        /\ at = "page" /\ at' = "details"
    BY <1>2 DEF GetPage
  <2>2. LinksInv' /\ ReadInv' BY <2>1 DEF DuelsInv, LinksInv, ReadInv
  <2>3. KeptInv'
    <3>1. Truth(Canonical)' = Truth(Canonical) BY <2>1, TruthStands DEF Truth, Canonical
    <3> QED BY <2>1, <3>1 DEF DuelsInv, KeptInv
  <2> QED BY <2>2, <2>3 DEF DuelsInv
<1> QED BY <1>1, <1>2

\* A worker takes the next link, and no other has it to take.
LEMMA LinkTaken == ASSUME DuelsInv, NEW w \in Fetchers, Take(w) PROVE DuelsInv'
<1>1. UNCHANGED <<page, site, asked, at, details, cached, answer>> BY DEF Take
<1>2. /\ working' = [working EXCEPT ![w] = nextIndex] /\ working[w] = 0
      /\ nextIndex' = nextIndex + 1
  BY DEF Take
<1>3. LinksInv' BY <1>1, <1>2 DEF DuelsInv, LinksInv
<1>4. ReadInv'
  <2> SUFFICES ASSUME NEW i \in DOMAIN page, i < nextIndex'
               PROVE  \/ \E v \in Fetchers : working'[v] = i
                      \/ details[i] = "failed"
                      \/ details[i] = IF site[i] = None THEN "missing" ELSE "found"
    BY <1>1 DEF ReadInv
  <2>1. i \in Nat \ {0} /\ nextIndex \in Nat BY DEF DuelsInv, LinksInv
  <2>2. CASE i = nextIndex
    <3>1. working'[w] = i BY <1>2, <2>2 DEF DuelsInv, LinksInv
    <3> QED BY <3>1
  <2>3. CASE i # nextIndex
    <3>1. i < nextIndex BY <1>2, <2>1, <2>3
    <3>2. CASE \E v \in Fetchers : working[v] = i
      <4>1. PICK v \in Fetchers : working[v] = i BY <3>2
      <4>2. v # w BY <1>2, <2>1, <4>1
      <4>3. working'[v] = i BY <1>2, <4>1, <4>2 DEF DuelsInv, LinksInv
      <4> QED BY <4>3
    <3> QED BY <3>1, <3>2 DEF DuelsInv, ReadInv
  <2> QED BY <2>2, <2>3
<1>5. KeptInv'
  <2>1. Truth(Canonical)' = Truth(Canonical) /\ Truth(asked)' = Truth(asked)
    BY <1>1, TruthStands DEF Truth, Canonical
  <2> QED BY <1>1, <2>1 DEF DuelsInv, KeptInv
<1> QED BY <1>3, <1>4, <1>5 DEF DuelsInv

\* A link is answered, whichever worker ends first (getMatchDetails).
LEMMA LinkRead == ASSUME DuelsInv, NEW w \in Fetchers, GetMatchDetails(w) PROVE DuelsInv'
<1>1. UNCHANGED <<page, site, asked, at, nextIndex, cached, answer>> BY DEF GetMatchDetails
<1>2. PICK outcome \in {IF site[working[w]] = None THEN "missing" ELSE "found", "failed"} :
        details' = [details EXCEPT ![working[w]] = outcome]
  BY DEF GetMatchDetails
<1>3. working' = [working EXCEPT ![w] = 0] BY DEF GetMatchDetails
<1>4. LinksInv' BY <1>1, <1>2, <1>3 DEF DuelsInv, LinksInv
<1>5. ReadInv'
  <2> SUFFICES ASSUME NEW i \in DOMAIN page, i < nextIndex
               PROVE  \/ \E v \in Fetchers : working'[v] = i
                      \/ details'[i] = "failed"
                      \/ details'[i] = IF site[i] = None THEN "missing" ELSE "found"
    BY <1>1 DEF ReadInv
  <2>1. i \in DOMAIN details BY DEF DuelsInv, LinksInv
  <2>2. CASE i = working[w] BY <1>2, <2>1, <2>2 DEF DuelsInv, LinksInv
  <2>3. CASE i # working[w]
    <3>1. details'[i] = details[i] BY <1>2, <2>1, <2>3 DEF DuelsInv, LinksInv
    <3>2. CASE \E v \in Fetchers : working[v] = i
      <4>1. PICK v \in Fetchers : working[v] = i BY <3>2
      <4>2. working'[v] = i BY <1>3, <2>3, <4>1 DEF DuelsInv, LinksInv
      <4> QED BY <4>2
    <3> QED BY <3>1, <3>2 DEF DuelsInv, ReadInv
  <2> QED BY <2>2, <2>3
<1>6. KeptInv'
  <2>1. Truth(Canonical)' = Truth(Canonical) /\ Truth(asked)' = Truth(asked)
    BY <1>1, TruthStands DEF Truth, Canonical
  <2> QED BY <1>1, <2>1 DEF DuelsInv, KeptInv
<1> QED BY <1>4, <1>5, <1>6 DEF DuelsInv

\* The entry is forgotten.
LEMMA DuelsForgotten == ASSUME DuelsInv, ExpireDuels PROVE DuelsInv'
<1>1. UNCHANGED <<page, site, asked, at, nextIndex, working, details, answer>> /\ cached' = None
  BY DEF ExpireDuels
<1>2. LinksInv' /\ ReadInv' BY <1>1 DEF DuelsInv, LinksInv, ReadInv
<1>3. Truth(asked)' = Truth(asked) BY <1>1, TruthStands DEF Truth
<1>4. KeptInv' BY <1>1, <1>3 DEF DuelsInv, KeptInv
<1> QED BY <1>2, <1>4 DEF DuelsInv

\* For any page of links, any matches behind them and any number of workers:
\* whoever asks, from the cache or not, and in whatever order the workers end,
\* is told what the same matches say from that player's own side, or that they
\* could not be read (getHead2HeadResults, reversePerspective).
THEOREM BothAnswered ==
  ASSUME NEW CONSTANT Links, NEW CONSTANT links \in Seq(Links), NEW CONSTANT matches
  PROVE  DuelsInit(links, matches) /\ [][DuelsNext]_duelVars => []AnswersForBoth
<1>1. DuelsInit(links, matches) => DuelsInv
  <2> SUFFICES ASSUME DuelsInit(links, matches) PROVE DuelsInv
    OBVIOUS
  <2>1. Len(page) \in Nat /\ DOMAIN page = 1 .. Len(page) BY DEF DuelsInit
  <2>2. LinksInv BY <2>1 DEF DuelsInit, LinksInv
  <2>3. ReadInv
    <3>1. \A i \in DOMAIN page : ~ i < nextIndex BY <2>1 DEF DuelsInit
    <3> QED BY <3>1 DEF ReadInv
  <2>4. KeptInv BY DEF DuelsInit, KeptInv
  <2> QED BY <2>2, <2>3, <2>4 DEF DuelsInv
<1>2. DuelsInv /\ [DuelsNext]_duelVars => DuelsInv'
  <2> SUFFICES ASSUME DuelsInv, [DuelsNext]_duelVars PROVE DuelsInv'
    OBVIOUS
  <2>1. ASSUME PageFails PROVE DuelsInv' BY <2>1, DuelsEnd DEF PageFails
  <2>2. ASSUME Finish PROVE DuelsInv'
    <3>1. Gather = Failed \/ Gather = Truth(Canonical) BY <2>2, AllGathered
    <3> QED BY <2>2, <3>1, DuelsEnd DEF Finish
  <2>3. CASE UNCHANGED duelVars
    <3>1. UNCHANGED <<page, site, asked, at, nextIndex, working, details, cached, answer>>
      BY <2>3 DEF duelVars
    <3>2. Truth(Canonical)' = Truth(Canonical) /\ Truth(asked)' = Truth(asked)
      BY <3>1, TruthStands DEF Truth, Canonical
    <3> QED BY <3>1, <3>2 DEF DuelsInv, LinksInv, ReadInv, KeptInv
  <2> QED BY <2>1, <2>2, <2>3, DuelsAsked, PageCame, LinkTaken, LinkRead, DuelsForgotten
          DEF DuelsNext, Pairs
<1>3. DuelsInv => AnswersForBoth BY DEF DuelsInv, KeptInv, AnswersForBoth, Truth
<1> QED BY <1>1, <1>2, <1>3, PTL

-------------------------------------------------------------------------------
(* The letters of the ranking.                                             *)

\* The least of some numbers.
LEMMA SmallestIs ==
  ASSUME NEW numbers, IsFiniteSet(numbers), numbers \subseteq Int, numbers # {}
  PROVE  Min(numbers) \in numbers /\ \A k \in numbers : Min(numbers) <= k
<1>1. /\ Cardinality(numbers) \in Nat
      /\ \A k \in numbers : RankOf(numbers, k) \in 0 .. Cardinality(numbers) - 1
      /\ \A j, k \in numbers : j < k <=> RankOf(numbers, j) < RankOf(numbers, k)
      /\ \A n \in 0 .. Cardinality(numbers) - 1 :
           \E k \in numbers : RankOf(numbers, k) = n
  BY NumbersRank
<1>2. Cardinality(numbers) # 0 BY FS_EmptySet
<1>3. PICK m \in numbers : RankOf(numbers, m) = 0 BY <1>1, <1>2
<1>4. \A k \in numbers : ~ k < m BY <1>1, <1>3
<1>5. \A k \in numbers : m <= k BY <1>4
<1> QED BY <1>3, <1>5 DEF Min

\* What is bounded is finite.
LEMMA BoundedOnes == ASSUME NEW n \in Nat, NEW S, S \subseteq 0 .. n PROVE IsFiniteSet(S)
<1>1. IsFiniteSet(0 .. n) BY FS_Interval
<1> QED BY <1>1, FS_Subset

\* Every table rises from letter to letter, and from table to table.
LEMMA TablesRise ==
  /\ \A n \in Sizes : \A i \in 1 .. 18 : Table(n)[i] \in Nat \ {0}
  /\ \A n \in Sizes : DOMAIN Table(n) = 1 .. 18
  /\ \A n \in Sizes : \A i \in 1 .. 17 : Table(n)[i] < Table(n)[i + 1]
  /\ \A n \in Sizes \ {20000} : \A i \in 1 .. 18 : Table(n)[i] <= Table(n + 500)[i]
BY DEF Sizes, Table, SmallTable, LargeTable

\* A letter reaches further among more players.
LEMMA TablesGrow ==
  ASSUME NEW m \in Sizes, NEW n \in Sizes, m <= n, NEW i \in 1 .. 18
  PROVE  Table(m)[i] <= Table(n)[i]
<1> DEFINE Bound == [k \in Sizes |-> Table(k)[i]]
<1>1. \A k \in Sizes : Bound[k] \in Nat BY TablesRise
<1>2. \A k \in Sizes \ {20000} : Bound[k] <= Bound[k + 500]
  <2>1. \A k \in Sizes \ {20000} : k + 500 \in Sizes BY DEF Sizes
  <2> QED BY <2>1, TablesRise
<1>3. Bound[m] = Table(m)[i] /\ Bound[n] = Table(n)[i] OBVIOUS
<1> HIDE DEF Bound
<1>4. /\ Bound[14000] <= Bound[14500] /\ Bound[14500] <= Bound[15000]
      /\ Bound[15000] <= Bound[15500] /\ Bound[15500] <= Bound[16000]
      /\ Bound[16000] <= Bound[16500] /\ Bound[16500] <= Bound[17000]
      /\ Bound[17000] <= Bound[17500] /\ Bound[17500] <= Bound[18000]
      /\ Bound[18000] <= Bound[18500] /\ Bound[18500] <= Bound[19000]
      /\ Bound[19000] <= Bound[19500] /\ Bound[19500] <= Bound[20000]
  BY <1>2 DEF Sizes
<1>5. Bound[m] <= Bound[n] BY <1>1, <1>4 DEF Sizes
<1> QED BY <1>3, <1>5

\* The table that more players have is not a smaller one.
LEMMA TableFor ==
  ASSUME NEW a \in Nat, NEW b \in Nat, a <= b, NEW category
  PROVE  \E m, n \in Sizes : /\ m <= n
                             /\ GetRankingEstimationTable(a, category) = Table(m)
                             /\ GetRankingEstimationTable(b, category) = Table(n)
<1> DEFINE Fitting(t) == {n \in Sizes : n <= t}
           Chosen(t) == IF Fitting(t) = {} THEN Min(Sizes) ELSE Max(Fitting(t))
<1>1. IsFiniteSet(Sizes) /\ Sizes \subseteq Int /\ Sizes # {}
  <2>1. PICK n \in Nat : n = 20000 OBVIOUS
  <2>2. Sizes \subseteq 0 .. n BY <2>1 DEF Sizes
  <2>3. IsFiniteSet(Sizes) BY <2>2, BoundedOnes
  <2>4. Sizes \subseteq Int /\ Sizes # {} BY DEF Sizes
  <2> QED BY <2>3, <2>4
<1>2. Min(Sizes) \in Sizes /\ \A k \in Sizes : Min(Sizes) <= k BY <1>1, SmallestIs
<1>3. ASSUME NEW t \in Nat, Fitting(t) # {}
      PROVE  Max(Fitting(t)) \in Fitting(t) /\ \A k \in Fitting(t) : k <= Max(Fitting(t))
  <2>1. PICK F : F = Fitting(t) OBVIOUS
  <2>2. F \subseteq Sizes BY <2>1
  <2>3. IsFiniteSet(F) BY <1>1, <2>2, FS_Subset
  <2>4. F \subseteq Int /\ F # {} BY <1>1, <1>3, <2>1, <2>2
  <2> HIDE DEF Fitting
  <2>5. Max(F) \in F /\ \A k \in F : k <= Max(F) BY <2>3, <2>4, LargestIs
  <2> QED BY <2>1, <2>5
<1>4. \A t : /\ WomanRankingEstimation = [n \in Sizes |-> Table(n)]
             /\ MenRankingEstimation = [n \in Sizes |-> Table(n)]
  BY DEF WomanRankingEstimation, MenRankingEstimation
<1>5. ASSUME NEW t \in Nat
      PROVE  Chosen(t) \in Sizes /\ GetRankingEstimationTable(t, category) = Table(Chosen(t))
  <2>1. Chosen(t) \in Sizes
    <3>1. CASE Fitting(t) = {} BY <1>2, <3>1
    <3>2. CASE Fitting(t) # {} BY <1>3, <3>2
    <3> QED BY <3>1, <3>2
  <2>2. GetRankingEstimationTable(t, category) = [n \in Sizes |-> Table(n)][Chosen(t)]
    BY <1>4 DEF GetRankingEstimationTable
  <2> HIDE DEF Chosen
  <2> QED BY <2>1, <2>2
<1>6. Chosen(a) <= Chosen(b)
  <2>1. CASE Fitting(a) = {} BY <1>2, <1>5, <2>1
  <2>2. CASE Fitting(a) # {}
    <3>1. Max(Fitting(a)) \in Fitting(a) BY <1>3, <2>2
    <3>2. Max(Fitting(a)) \in Fitting(b)
      <4>1. \A k \in Fitting(a) : k \in Fitting(b) BY <1>1
      <4> HIDE DEF Fitting
      <4> QED BY <3>1, <4>1
    <3> HIDE DEF Fitting
    <3>3. Chosen(a) = Max(Fitting(a)) /\ Chosen(b) = Max(Fitting(b)) BY <2>2, <3>2
    <3>4. Max(Fitting(a)) <= Max(Fitting(b)) BY <1>3, <3>2
    <3> QED BY <3>3, <3>4
  <2> QED BY <2>1, <2>2
<1> HIDE DEF Chosen
<1> QED BY <1>5, <1>6

\* Of two places, and of two numbers of players, the place further down among
\* fewer players never has the better letter (estimateLetterRanking).
THEOREM LettersDescend ==
  ASSUME None \notin Int,
         NEW position \in Nat \ {0}, NEW lower \in Nat, position <= lower,
         NEW total \in Nat, NEW more \in Nat, total <= more, NEW category
  PROVE  /\ EstimateLetterRanking(position, more, category) \in DOMAIN Letters
         /\ EstimateLetterRanking(position, more, category)
              <= EstimateLetterRanking(lower, total, category)
<1>1. PICK m \in Sizes, n \in Sizes :
        /\ m <= n
        /\ GetRankingEstimationTable(total, category) = Table(m)
        /\ GetRankingEstimationTable(more, category) = Table(n)
  BY TableFor
<1> DEFINE Within(p, k) == {i \in 1 .. 18 : p <= Table(k)[i]}
           Letter(p, k) == IF Within(p, k) = {} THEN 18 ELSE Min(Within(p, k))
<1>2. Len(Letters) = 18 /\ DOMAIN Letters = 1 .. 18 BY DEF Letters
<1>3. /\ EstimateLetterRanking(position, more, category) = Letter(position, n)
      /\ EstimateLetterRanking(lower, total, category) = Letter(lower, m)
  <2>1. position # None /\ lower # None /\ ~ position <= 0 /\ ~ lower <= 0 OBVIOUS
  <2>2. DOMAIN Table(m) = 1 .. 18 /\ DOMAIN Table(n) = 1 .. 18 BY TablesRise
  <2> QED BY <1>1, <1>2, <2>1, <2>2 DEF EstimateLetterRanking
<1>4. ASSUME NEW p \in Nat, NEW k \in Sizes, Within(p, k) # {}
      PROVE  Min(Within(p, k)) \in Within(p, k) /\ \A i \in Within(p, k) : Min(Within(p, k)) <= i
  <2>1. PICK W : W = Within(p, k) OBVIOUS
  <2>2. W \subseteq 1 .. 18 BY <2>1
  <2>3. PICK e \in Nat : e = 18 OBVIOUS
  <2>4. IsFiniteSet(W)
    <3>1. W \subseteq 0 .. e BY <2>2, <2>3
    <3> QED BY <3>1, BoundedOnes
  <2>5. W \subseteq Int /\ W # {} BY <1>4, <2>1, <2>2
  <2> HIDE DEF Within
  <2>6. Min(W) \in W /\ \A i \in W : Min(W) <= i BY <2>4, <2>5, SmallestIs
  <2> QED BY <2>1, <2>6
<1>5. Within(lower, m) \subseteq Within(position, n)
  <2> SUFFICES ASSUME NEW i \in 1 .. 18, lower <= Table(m)[i]
               PROVE  position <= Table(n)[i]
    OBVIOUS
  <2>1. Table(m)[i] <= Table(n)[i] BY <1>1, TablesGrow
  <2>2. Table(m)[i] \in Nat /\ Table(n)[i] \in Nat BY TablesRise
  <2> QED BY <2>1, <2>2
<1>6. \A p, k : Within(p, k) \subseteq 1 .. 18 OBVIOUS
<1> HIDE DEF Within
<1>7. Letter(position, n) \in 1 .. 18
  <2>1. CASE Within(position, n) = {} BY <2>1
  <2>2. CASE Within(position, n) # {} BY <1>4, <1>6, <2>2
  <2> QED BY <2>1, <2>2
<1>8. Letter(position, n) <= Letter(lower, m)
  <2>1. CASE Within(lower, m) = {} BY <1>7, <2>1
  <2>2. CASE Within(lower, m) # {}
    <3>1. Min(Within(lower, m)) \in Within(position, n) BY <1>4, <1>5, <2>2
    <3>2. Min(Within(position, n)) <= Min(Within(lower, m)) BY <1>4, <3>1
    <3> QED BY <2>2, <3>1, <3>2
  <2> QED BY <2>1, <2>2
<1> QED BY <1>2, <1>3, <1>7, <1>8

-------------------------------------------------------------------------------
(* What is known of a question that is asked and of the answer it has.     *)

\* The answer of each service to a question of its own.
RankingOf(q) == Calculator!Calculate(q.season, q.season.answers, q.matches, q.week)
StatsOf(q) == Member!GetMemberStats(q.ranking, q.history, q.entries)
TeamAnswer(q) == Member!ComputeMyTeamSummary(q.matches, q.club)
LetterOf(q) == EstimateLetterRanking(q.position, q.total, q.category)
PlayersOf(q) == ComputeRanking(q.matches, q.system, q.keepClub)
AdviceOf(q) ==
  GetIntelligence(q.team, q.slots, q.roster, q.opposing, q.rows,
                  Accepted(q.rule, Starters(q.slots, q.roster)))

\* A question is one of its service's, and what is given is its answer.
AnsweredInv ==
  \/ question = NoQuestion /\ reply = <<>>
  \/ question \in ChallengeInputs /\ reply \in {<<>>, <<RankingOf(question)>>}
  \/ question \in StatsInputs /\ reply \in {<<>>, <<StatsOf(question)>>}
  \/ question \in TeamInputs /\ reply \in {<<>>, <<TeamAnswer(question)>>}
  \/ question \in HistoryInputs
  \/ question \in LetterInputs /\ reply \in {<<>>, <<LetterOf(question)>>}
  \/ question \in RankerInputs /\ reply \in {<<>>, <<PlayersOf(question)>>}
  \/ question \in PublicationInputs
  \/ question \in AdviceInputs /\ reply \in {<<>>, <<AdviceOf(question)>>}
  \/ question \in HubInputs

\* Every step keeps it: a question has one service, and that one answers it.
LEMMA Answered == ComputationsSpec => []AnsweredInv
<1>1. ComputationsInit => AnsweredInv BY DEF ComputationsInit, AnsweredInv
<1>2. AnsweredInv /\ [ComputationsNext]_computations => AnsweredInv'
  <2> SUFFICES ASSUME AnsweredInv, [ComputationsNext]_computations PROVE AnsweredInv'
    OBVIOUS
  <2>1. ASSUME NEW inputs, Ask(inputs),
               inputs \in {ChallengeInputs, StatsInputs, TeamInputs, HistoryInputs, LetterInputs,
                           RankerInputs, PublicationInputs, AdviceInputs, HubInputs}
        PROVE  AnsweredInv'
    <3>1. question = NoQuestion /\ question' \in inputs /\ reply' = reply BY <2>1 DEF Ask
    <3>2. reply = <<>>
      BY <3>1, ServicesAssumption DEF AnsweredInv, NoQuestion
    <3> QED BY <2>1, <3>1, <3>2 DEF AnsweredInv
  <2>2. CASE GiveRanking
    <3>1. question.service = "challenge" /\ question' = question /\ reply' = <<RankingOf(question)>>
      BY <2>2 DEF GiveRanking, Give, RankingOf
    <3>2. question \in ChallengeInputs BY <3>1, ServicesAssumption DEF AnsweredInv, NoQuestion
    <3> QED BY <3>1, <3>2 DEF AnsweredInv, RankingOf
  <2>3. CASE GiveStats
    <3>1. question.service = "stats" /\ question' = question /\ reply' = <<StatsOf(question)>>
      BY <2>3 DEF GiveStats, Give, StatsOf
    <3>2. question \in StatsInputs BY <3>1, ServicesAssumption DEF AnsweredInv, NoQuestion
    <3> QED BY <3>1, <3>2 DEF AnsweredInv, StatsOf
  <2>4. CASE GiveTeam
    <3>1. question.service = "team" /\ question' = question /\ reply' = <<TeamAnswer(question)>>
      BY <2>4 DEF GiveTeam, Give, TeamAnswer
    <3>2. question \in TeamInputs BY <3>1, ServicesAssumption DEF AnsweredInv, NoQuestion
    <3> QED BY <3>1, <3>2 DEF AnsweredInv, TeamAnswer
  <2>5. CASE GiveHistory
    <3>1. question.service = "history" /\ question' = question BY <2>5 DEF GiveHistory, Give
    <3>2. question \in HistoryInputs BY <3>1, ServicesAssumption DEF AnsweredInv, NoQuestion
    <3> QED BY <3>1, <3>2 DEF AnsweredInv
  <2>6. CASE GiveLetter
    <3>1. question.service = "letter" /\ question' = question /\ reply' = <<LetterOf(question)>>
      BY <2>6 DEF GiveLetter, Give, LetterOf
    <3>2. question \in LetterInputs BY <3>1, ServicesAssumption DEF AnsweredInv, NoQuestion
    <3> QED BY <3>1, <3>2 DEF AnsweredInv, LetterOf
  <2>7. CASE GivePlayers
    <3>1. question.service = "ranker" /\ question' = question /\ reply' = <<PlayersOf(question)>>
      BY <2>7 DEF GivePlayers, Give, PlayersOf
    <3>2. question \in RankerInputs BY <3>1, ServicesAssumption DEF AnsweredInv, NoQuestion
    <3> QED BY <3>1, <3>2 DEF AnsweredInv, PlayersOf
  <2>8. CASE GivePublication
    <3>1. question.service = "publication" /\ question' = question
      BY <2>8 DEF GivePublication, Give
    <3>2. question \in PublicationInputs BY <3>1, ServicesAssumption DEF AnsweredInv, NoQuestion
    <3> QED BY <3>1, <3>2 DEF AnsweredInv
  <2>9. CASE GiveAdvice
    <3>1. question.service = "advice" /\ question' = question /\ reply' = <<AdviceOf(question)>>
      BY <2>9 DEF GiveAdvice, Give, AdviceOf
    <3>2. question \in AdviceInputs BY <3>1, ServicesAssumption DEF AnsweredInv, NoQuestion
    <3> QED BY <3>1, <3>2 DEF AnsweredInv, AdviceOf
  <2>10. CASE GiveHub
    <3>1. question.service = "hub" /\ question' = question BY <2>10 DEF GiveHub, Give
    <3>2. question \in HubInputs BY <3>1, ServicesAssumption DEF AnsweredInv, NoQuestion
    <3> QED BY <3>1, <3>2 DEF AnsweredInv
  <2>11. CASE Done BY <2>11 DEF Done, AnsweredInv
  <2>12. CASE UNCHANGED computations
    BY <2>12
      DEF computations, AnsweredInv, RankingOf, StatsOf, TeamAnswer, LetterOf, PlayersOf, AdviceOf
  <2> QED BY <2>1, <2>2, <2>3, <2>4, <2>5, <2>6, <2>7, <2>8, <2>9, <2>10, <2>11, <2>12
          DEF ComputationsNext
<1> QED BY <1>1, <1>2, PTL DEF ComputationsSpec

\* What is known once the question of a service is answered.
LEMMA AnswerOf ==
  ASSUME AnsweredInv, reply # <<>>
  PROVE  /\ question.service = "challenge" =>
              question \in ChallengeInputs /\ reply[1] = RankingOf(question)
         /\ question.service = "stats" => question \in StatsInputs /\ reply[1] = StatsOf(question)
         /\ question.service = "team" => question \in TeamInputs /\ reply[1] = TeamAnswer(question)
         /\ question.service = "letter" =>
              question \in LetterInputs /\ reply[1] = LetterOf(question)
         /\ question.service = "ranker" =>
              question \in RankerInputs /\ reply[1] = PlayersOf(question)
         /\ question.service = "advice" =>
              question \in AdviceInputs /\ reply[1] = AdviceOf(question)
BY ServicesAssumption DEF AnsweredInv, NoQuestion

\* For any positions, any numbers of players and every category: the letters
\* that are told follow the tables (estimateLetterRanking).
THEOREM LettersFollow == ComputationsSpec => []LettersFollowTables
<1>1. AnsweredInv => LettersFollowTables
  <2> SUFFICES ASSUME AnsweredInv, question.service = "letter", reply # <<>>
               PROVE  /\ EstimateLetterRanking(question.position + 1, question.total,
                                               question.category) >= Given
                      /\ \A more \in PlayerCounts : more > question.total =>
                           EstimateLetterRanking(question.position, more,
                                                 question.category) <= Given
    BY DEF LettersFollowTables, Is
  <2>1. /\ question \in LetterInputs
        /\ Given = EstimateLetterRanking(question.position, question.total, question.category)
    BY AnswerOf DEF LetterOf, Given
  <2>2. question.position \in Nat \ {0} /\ question.total \in Nat
    BY <2>1, LettersAssumption
  <2> DEFINE p == question.position
             t == question.total
  <2>3. p + 1 \in Nat /\ p <= p + 1 /\ t <= t BY <2>2
  <2>4. EstimateLetterRanking(p, t, question.category)
          <= EstimateLetterRanking(p + 1, t, question.category)
    BY <2>2, <2>3, NoneAssumption, LettersDescend
  <2>5. /\ EstimateLetterRanking(p, t, question.category) \in Int
        /\ EstimateLetterRanking(p + 1, t, question.category) \in Int
    <3>1. DOMAIN Letters \subseteq Int BY DEF Letters
    <3>2. p + 1 \in Nat \ {0} /\ p + 1 <= p + 1 BY <2>2
    <3>3. EstimateLetterRanking(p, t, question.category) \in DOMAIN Letters
      BY <2>2, <2>3, NoneAssumption, LettersDescend
    <3>4. EstimateLetterRanking(p + 1, t, question.category) \in DOMAIN Letters
      BY <2>2, <2>3, <3>2, NoneAssumption, LettersDescend
    <3> QED BY <3>1, <3>3, <3>4
  <2>6. ASSUME NEW more \in PlayerCounts, more > t
        PROVE  EstimateLetterRanking(p, more, question.category) <= Given
    <3>1. more \in Nat BY LettersAssumption DEF PlayerCounts
    <3>2. t <= more /\ p <= p /\ p \in Nat BY <2>2, <2>6, <3>1
    <3> QED BY <2>1, <2>2, <3>1, <3>2, NoneAssumption, LettersDescend
  <2> QED BY <2>1, <2>4, <2>5, <2>6
<1> QED BY <1>1, Answered, PTL

\* Sums of multiples, and of some of the numbers.
LEMMA SumTimes ==
  ASSUME NEW S, IsFiniteSet(S), NEW f, NEW g, NEW c \in Int,
         \A x \in S : f[x] \in Int /\ g[x] = f[x] * c
  PROVE  SumFunctionOnSet(g, S) = SumFunctionOnSet(f, S) * c
<1> DEFINE A == {T \in SUBSET S : SumFunctionOnSet(g, T) = SumFunctionOnSet(f, T) * c}
<1>1. {} \in A
  <2>1. 0 = 0 * c OBVIOUS
  <2> QED BY <2>1, SumEmpty
<1>2. ASSUME NEW T \in SUBSET S, NEW x \in S \ T, T \in A PROVE T \cup {x} \in A
  <2>1. \A n, m \in Int : n * m \in Int OBVIOUS
  <2>2. IsFiniteSet(T) /\ \A y \in T \cup {x} : f[y] \in Int /\ g[y] \in Int
    BY <2>1, FS_Subset
  <2>3. SumFunctionOnSet(f, T \cup {x}) = f[x] + SumFunctionOnSet(f, T) BY <2>2, SumAdd
  <2>4. SumFunctionOnSet(g, T \cup {x}) = g[x] + SumFunctionOnSet(g, T) BY <2>2, SumAdd
  <2>5. SumFunctionOnSet(f, T) \in Int /\ f[x] \in Int BY <2>2, SumType
  <2>6. \A n, m \in Int : (n + m) * c = n * c + m * c OBVIOUS
  <2>7. SumFunctionOnSet(g, T) = SumFunctionOnSet(f, T) * c /\ g[x] = f[x] * c BY <1>2
  <2> QED BY <2>3, <2>4, <2>5, <2>6, <2>7
<1> HIDE DEF A
<1>3. S \in A BY <1>1, <1>2, FiniteInduction
<1> QED BY <1>3 DEF A

\* Zeros add up to 0.
LEMMA SumZero ==
  ASSUME NEW S, IsFiniteSet(S), NEW f, \A x \in S : f[x] = 0
  PROVE  SumFunctionOnSet(f, S) = 0
<1> DEFINE A == {T \in SUBSET S : SumFunctionOnSet(f, T) = 0}
<1>1. {} \in A BY SumEmpty
<1>2. ASSUME NEW T \in SUBSET S, NEW x \in S \ T, T \in A PROVE T \cup {x} \in A
  <2>1. IsFiniteSet(T) /\ \A y \in T \cup {x} : f[y] \in Int BY FS_Subset
  <2>2. SumFunctionOnSet(f, T \cup {x}) = f[x] + SumFunctionOnSet(f, T) BY <2>1, SumAdd
  <2> QED BY <1>2, <2>2
<1> HIDE DEF A
<1>3. S \in A BY <1>1, <1>2, FiniteInduction
<1> QED BY <1>3 DEF A

\* Some of the numbers add up to no more than all.
LEMMA SumOfSome ==
  ASSUME NEW S, IsFiniteSet(S), NEW R \in SUBSET S, NEW f, \A x \in S : f[x] \in Nat
  PROVE  /\ SumFunctionOnSet(f, R) \in Nat
         /\ SumFunctionOnSet(f, R) <= SumFunctionOnSet(f, S)
<1> DEFINE A == {T \in SUBSET S : SumFunctionOnSet(f, T \cap R) <= SumFunctionOnSet(f, T)}
<1>1. {} \in A
  <2>1. {} \cap R = {} OBVIOUS
  <2> QED BY <2>1, SumEmpty
<1>2. ASSUME NEW T \in SUBSET S, NEW x \in S \ T, T \in A PROVE T \cup {x} \in A
  <2> DEFINE P == T \cap R
  <2>1. IsFiniteSet(T) /\ IsFiniteSet(P) /\ \A y \in S : f[y] \in Int BY FS_Subset
  <2>2. SumFunctionOnSet(f, T \cup {x}) = f[x] + SumFunctionOnSet(f, T) BY <2>1, SumAdd
  <2>3. SumFunctionOnSet(f, T) \in Nat /\ SumFunctionOnSet(f, P) \in Nat
    <3>1. (\A y \in T : f[y] \in Nat) /\ (\A y \in P : f[y] \in Nat) OBVIOUS
    <3> HIDE DEF P
    <3> QED BY <2>1, <3>1, SumNat
  <2>4. SumFunctionOnSet(f, P) <= SumFunctionOnSet(f, T) /\ f[x] \in Nat BY <1>2
  <2>5. CASE x \in R
    <3>1. (T \cup {x}) \cap R = P \cup {x} /\ x \notin P BY <2>5
    <3>2. SumFunctionOnSet(f, P \cup {x}) = f[x] + SumFunctionOnSet(f, P)
      BY <2>1, <3>1, SumAdd
    <3> HIDE DEF P
    <3>3. SumFunctionOnSet(f, P \cup {x}) <= SumFunctionOnSet(f, T \cup {x})
      BY <2>2, <2>3, <2>4, <3>2
    <3>4. SumFunctionOnSet(f, (T \cup {x}) \cap R) = SumFunctionOnSet(f, P \cup {x})
      BY <3>1, Zenon
    <3> QED BY <3>3, <3>4
  <2>6. CASE x \notin R
    <3>1. (T \cup {x}) \cap R = P BY <2>6
    <3>3. SumFunctionOnSet(f, (T \cup {x}) \cap R) <= SumFunctionOnSet(f, T \cup {x})
      BY <2>2, <2>3, <2>4, <3>1
    <3> QED BY <3>3
  <2> QED BY <2>5, <2>6
<1> HIDE DEF A
<1>3. S \in A BY <1>1, <1>2, FiniteInduction
<1>4. IsFiniteSet(R) /\ S \cap R = R BY FS_Subset
<1>5. SumFunctionOnSet(f, R) \in Nat BY <1>4, SumNat
<1> QED BY <1>3, <1>4, <1>5 DEF A

-------------------------------------------------------------------------------
(* The chances of a team.                                                  *)

\* The chances after each duel, when those of some are taken one by one.
Unplayed(D) == [k \in 0 .. Cardinality(D) |-> IF k = 0 THEN 1 ELSE 0]
AfterDuel(D, prob, dist) ==
  [k \in 0 .. Cardinality(D) |->
     dist[k] * (Scale - prob) + (IF k = 0 THEN 0 ELSE dist[k - 1] * prob)]

IsChances(probs, D, g) ==
  \A T \in SUBSET D : g[T] = IF T = {} THEN Unplayed(D)
       ELSE AfterDuel(D, probs[CHOOSE d \in T : TRUE], g[T \ {CHOOSE d \in T : TRUE}])

\* Products of what is counted here are natural numbers.
LEMMA Multiples ==
  /\ \A a, b \in Nat : a * b \in Nat
  /\ \A a \in Nat, p \in 0 .. Scale : a * (Scale - p) \in Nat /\ a * p \in Nat
<1>1. \A a, b \in Nat : a * b \in Nat OBVIOUS
<1>2. \A p \in 0 .. Scale : Scale - p \in Nat /\ p \in Nat BY ScaleAssumption
<1> QED BY <1>1, <1>2

\* Weights stay natural numbers over a duel.
LEMMA AfterDuelTyped ==
  ASSUME NEW D, IsFiniteSet(D), NEW prob \in 0 .. Scale,
         NEW dist \in [0 .. Cardinality(D) -> Nat]
  PROVE  AfterDuel(D, prob, dist) \in [0 .. Cardinality(D) -> Nat]
<1>1. Cardinality(D) \in Nat BY FS_CardinalityType
<1>2. ASSUME NEW k \in 0 .. Cardinality(D)
      PROVE dist[k] * (Scale - prob) + (IF k = 0 THEN 0 ELSE dist[k - 1] * prob) \in Nat
  <2>1. dist[k] * (Scale - prob) \in Nat BY Multiples
  <2>2. CASE k = 0 BY <2>1, <2>2
  <2>3. CASE k # 0
    <3>1. k - 1 \in 0 .. Cardinality(D) BY <1>1, <2>3
    <3>2. dist[k - 1] * prob \in Nat BY <3>1, Multiples
    <3> QED BY <2>1, <2>3, <3>2
  <2> QED BY <2>2, <2>3
<1> QED BY <1>2 DEF AfterDuel

\* The weights of all duels come from taking one after the other.
LEMMA SuccessesAre ==
  ASSUME NEW D, IsFiniteSet(D), NEW probs \in [D -> 0 .. Scale]
  PROVE  \E g : IsChances(probs, D, g) /\ Successes(probs) = g[D]
<1> DEFINE V == [0 .. Cardinality(D) -> Nat]
           pick == [T \in SUBSET D |-> CHOOSE d \in T : TRUE]
           next == [d \in D |-> [dist \in V |-> AfterDuel(D, probs[d], dist)]]
           Body(T, h) == IF T = {} THEN Unplayed(D)
              ELSE AfterDuel(D, probs[CHOOSE d \in T : TRUE], h[T \ {CHOOSE d \in T : TRUE}])
<1>1. \A T \in SUBSET D : T # {} => pick[T] \in T OBVIOUS
<1>2. next \in [D -> [V -> V]]
  <2>1. \A d \in D, dist \in V : AfterDuel(D, probs[d], dist) \in V BY AfterDuelTyped
  <2> QED BY <2>1
<1>3. Unplayed(D) \in V BY DEF Unplayed
<1>4. PICK g \in [SUBSET D -> V] : \A T \in SUBSET D :
         g[T] = IF T = {} THEN Unplayed(D) ELSE next[pick[T]][g[T \ {pick[T]}]]
  <2> HIDE DEF pick, next, V
  <2>1. Foldable(D, V, Unplayed(D), next, pick) BY <1>1, <1>2, <1>3, FoldExists
  <2> QED BY <2>1 DEF Foldable
<1>5. ASSUME NEW T \in SUBSET D PROVE g[T] = Body(T, g)
  <2>1. CASE T = {} BY <1>4, <2>1
  <2>2. CASE T # {}
    <3>1. pick[T] \in T /\ pick[T] = CHOOSE d \in T : TRUE BY <1>1, <2>2
    <3>2. g[T] = next[pick[T]][g[T \ {pick[T]}]] BY <1>4, <2>2
    <3>3. g[T \ {pick[T]}] \in V OBVIOUS
    <3> HIDE DEF V, pick
    <3>4. next[pick[T]][g[T \ {pick[T]}]] = AfterDuel(D, probs[pick[T]], g[T \ {pick[T]}])
      BY <3>1, <3>3
    <3> QED BY <2>2, <3>1, <3>2, <3>4
  <2> QED BY <2>1, <2>2
<1>6. g = [T \in SUBSET D |-> Body(T, g)]
  <2> HIDE DEF Body
  <2> QED BY <1>5
<1> DEFINE chances == CHOOSE h : h = [T \in SUBSET D |-> Body(T, h)]
<1>7. chances = [T \in SUBSET D |-> Body(T, chances)] BY <1>6
<1>8. Successes(probs) = chances[D]
  <2>1. DOMAIN probs = D OBVIOUS
  <2> QED BY <2>1 DEF Successes, FoldSet, MapThenFoldSet, Unplayed, AfterDuel
<1> HIDE DEF chances
<1>9. IsChances(probs, D, chances) BY <1>7 DEF IsChances
<1> QED BY <1>8, <1>9

\* Certainty, likewise.
IsCertainty(D, g) ==
  \A T \in SUBSET D : g[T] = IF T = {} THEN 1 ELSE Scale * g[T \ {CHOOSE d \in T : TRUE}]

\* Certainty comes from taking one duel after the other.
LEMMA CertaintyIs ==
  ASSUME NEW D, IsFiniteSet(D) PROVE \E g : IsCertainty(D, g) /\ Certainty(D) = g[D]
<1> DEFINE pick == [T \in SUBSET D |-> CHOOSE d \in T : TRUE]
           next == [d \in D |-> [n \in Nat |-> Scale * n]]
           Body(T, h) == IF T = {} THEN 1 ELSE Scale * h[T \ {CHOOSE d \in T : TRUE}]
<1>1. \A T \in SUBSET D : T # {} => pick[T] \in T OBVIOUS
<1>2. next \in [D -> [Nat -> Nat]] BY ScaleAssumption, Multiples
<1>3. PICK g \in [SUBSET D -> Nat] : \A T \in SUBSET D :
         g[T] = IF T = {} THEN 1 ELSE next[pick[T]][g[T \ {pick[T]}]]
  <2> HIDE DEF pick, next
  <2>1. Foldable(D, Nat, 1, next, pick) BY <1>1, <1>2, FoldExists
  <2> QED BY <2>1 DEF Foldable
<1>4. ASSUME NEW T \in SUBSET D PROVE g[T] = Body(T, g)
  <2>1. CASE T = {} BY <1>3, <2>1
  <2>2. CASE T # {}
    <3>1. pick[T] \in T /\ pick[T] = CHOOSE d \in T : TRUE BY <1>1, <2>2
    <3>2. g[T] = next[pick[T]][g[T \ {pick[T]}]] BY <1>3, <2>2
    <3>3. g[T \ {pick[T]}] \in Nat OBVIOUS
    <3> HIDE DEF pick
    <3>4. next[pick[T]][g[T \ {pick[T]}]] = Scale * g[T \ {pick[T]}] BY <3>1, <3>3
    <3> QED BY <2>2, <3>1, <3>2, <3>4
  <2> QED BY <2>1, <2>2
<1>5. g = [T \in SUBSET D |-> Body(T, g)]
  <2> HIDE DEF Body
  <2> QED BY <1>4
<1> DEFINE parts == CHOOSE h : h = [T \in SUBSET D |-> Body(T, h)]
<1>6. parts = [T \in SUBSET D |-> Body(T, parts)] BY <1>5
<1>7. Certainty(D) = parts[D] BY DEF Certainty, FoldSet, MapThenFoldSet
<1> HIDE DEF parts
<1>8. IsCertainty(D, parts) BY <1>6 DEF IsCertainty
<1> QED BY <1>7, <1>8

\* A duel shares the chances anew and loses none: there are no more victories
\* than duels.
LEMMA SharedAnew ==
  ASSUME NEW D, IsFiniteSet(D), NEW prob \in 0 .. Scale, NEW n \in Nat, n < Cardinality(D),
         NEW dist \in [0 .. Cardinality(D) -> Nat],
         \A k \in 0 .. Cardinality(D) : k > n => dist[k] = 0
  PROVE  /\ SumFunctionOnSet(AfterDuel(D, prob, dist), 0 .. Cardinality(D))
               = Scale * SumFunctionOnSet(dist, 0 .. Cardinality(D))
         /\ \A k \in 0 .. Cardinality(D) : k > n + 1 => AfterDuel(D, prob, dist)[k] = 0
<1> DEFINE N == Cardinality(D)
           lost == [k \in 0 .. N |-> dist[k] * (Scale - prob)]
           moved == [k \in 0 .. N |-> IF k = 0 THEN 0 ELSE dist[k - 1] * prob]
           new == AfterDuel(D, prob, dist)
           Sum(f) == SumFunctionOnSet(f, 0 .. N)
<1>1. N \in Nat /\ IsFiniteSet(0 .. N) /\ prob \in Nat /\ Scale - prob \in Nat /\ Scale \in Nat
  <2>1. N \in Nat BY FS_CardinalityType
  <2>2. IsFiniteSet(0 .. N) BY <2>1, FS_Interval
  <2> QED BY <2>1, <2>2, ScaleAssumption
<1>2. \A k \in 0 .. N : k # 0 => k - 1 \in 0 .. N BY <1>1
<1>3. \A k \in 0 .. N : lost[k] \in Nat /\ moved[k] \in Nat
  <2>1. \A k \in 0 .. N : dist[k] * (Scale - prob) \in Nat /\ dist[k] * prob \in Nat
    BY Multiples
  <2> QED BY <1>2, <2>1
<1>4. \A k \in 0 .. N : new[k] = lost[k] + moved[k] BY DEF AfterDuel
<1>5. Sum(new) = Sum(lost) + Sum(moved)
  <2> HIDE DEF N, lost, moved, new
  <2> QED BY <1>1, <1>3, <1>4, SumPlus
<1>6. Sum(lost) = Sum(dist) * (Scale - prob)
  <2>1. \A k \in 0 .. N : dist[k] \in Int /\ lost[k] = dist[k] * (Scale - prob) OBVIOUS
  <2> HIDE DEF N, lost
  <2>2. Scale - prob \in Int BY <1>1
  <2> QED BY <1>1, <2>1, <2>2, SumTimes
<1>7. Sum(moved) = SumFunctionOnSet(moved, 1 .. N)
  <2>1. (1 .. N) \cup {0} = 0 .. N /\ 0 \notin 1 .. N BY <1>1
  <2>2. \A k \in (1 .. N) \cup {0} : moved[k] \in Int BY <1>3, <2>1
  <2>3. IsFiniteSet(1 .. N) BY <1>1, FirstNumbers
  <2>4. moved[0] = 0 BY <1>1
  <2> HIDE DEF moved, N
  <2>5. SumFunctionOnSet(moved, (1 .. N) \cup {0}) = moved[0] + SumFunctionOnSet(moved, 1 .. N)
    BY <2>1, <2>2, <2>3, SumAdd
  <2>6. SumFunctionOnSet(moved, 1 .. N) \in Int BY <2>2, <2>3, SumType
  <2>7. Sum(moved) = SumFunctionOnSet(moved, (1 .. N) \cup {0}) BY <2>1, Zenon
  <2> HIDE DEF Sum
  <2> QED BY <2>4, <2>5, <2>6, <2>7
<1>8. SumFunctionOnSet(moved, 1 .. N) = SumFunctionOnSet(dist, 0 .. N - 1) * prob
  <2> DEFINE b == [k \in 0 .. N - 1 |-> k + 1]
             won == [k \in 0 .. N - 1 |-> dist[k] * prob]
  <2>1. b \in [0 .. N - 1 -> 1 .. N] BY <1>1
  <2>2. \A x, y \in 0 .. N - 1 : b[x] = b[y] => x = y BY <1>1
  <2>3. \A z \in 1 .. N : \E x \in 0 .. N - 1 : b[x] = z
    <3>1. ASSUME NEW z \in 1 .. N PROVE z - 1 \in 0 .. N - 1 /\ b[z - 1] = z BY <1>1
    <3> QED BY <3>1
  <2>4. \A k \in 0 .. N - 1 : dist[k] \in Int /\ won[k] = dist[k] * prob BY <1>1
  <2>5. \A k \in 0 .. N - 1 : won[k] \in Int /\ won[k] = moved[b[k]]
    <3>1. \A i, j \in Int : i * j \in Int OBVIOUS
    <3>2. ASSUME NEW k \in 0 .. N - 1 PROVE won[k] \in Int /\ won[k] = moved[b[k]]
      <4>1. b[k] = k + 1 /\ k + 1 \in 0 .. N /\ k + 1 # 0 /\ (k + 1) - 1 = k BY <1>1
      <4>2. moved[k + 1] = dist[(k + 1) - 1] * prob BY <4>1
      <4>3. won[k] \in Int BY <1>1, <2>4, <3>1
      <4> QED BY <4>1, <4>2, <4>3
    <3> QED BY <3>2
  <2>7. IsFiniteSet(0 .. N - 1) BY <1>1, FS_Interval
  <2>8. prob \in Int BY <1>1
  <2>6. PICK P, R : P = 0 .. N - 1 /\ R = 1 .. N OBVIOUS
  <2> HIDE DEF b, won, moved, N
  <2>9. SumFunctionOnSet(won, 0 .. N - 1) = SumFunctionOnSet(moved, 1 .. N)
    <3>1. /\ IsFiniteSet(P) /\ b \in [P -> R] /\ \A x, y \in P : b[x] = b[y] => x = y
          /\ \A z \in R : \E x \in P : b[x] = z
          /\ \A x \in P : won[x] \in Int /\ won[x] = moved[b[x]]
      BY <2>1, <2>2, <2>3, <2>5, <2>6, <2>7, Zenon
    <3>2. SumFunctionOnSet(won, P) = SumFunctionOnSet(moved, R) BY <3>1, SumRenamed
    <3> QED BY <2>6, <3>2, Zenon
  <2>10. SumFunctionOnSet(won, 0 .. N - 1) = SumFunctionOnSet(dist, 0 .. N - 1) * prob
    BY <2>4, <2>7, <2>8, SumTimes
  <2> QED BY <2>9, <2>10
<1>9. SumFunctionOnSet(dist, 0 .. N - 1) = Sum(dist)
  <2>1. (0 .. N - 1) \cup {N} = 0 .. N /\ N \notin 0 .. N - 1 BY <1>1
  <2>2. \A k \in (0 .. N - 1) \cup {N} : dist[k] \in Int BY <2>1
  <2>3. IsFiniteSet(0 .. N - 1) BY <1>1, FS_Interval
  <2>4. dist[N] = 0 BY <1>1
  <2> HIDE DEF N
  <2>5. SumFunctionOnSet(dist, (0 .. N - 1) \cup {N}) = dist[N] + SumFunctionOnSet(dist, 0 .. N - 1)
    BY <2>1, <2>2, <2>3, SumAdd
  <2>6. SumFunctionOnSet(dist, 0 .. N - 1) \in Int BY <2>2, <2>3, SumType
  <2>7. Sum(dist) = SumFunctionOnSet(dist, (0 .. N - 1) \cup {N}) BY <2>1, Zenon
  <2> HIDE DEF Sum
  <2> QED BY <2>4, <2>5, <2>6, <2>7
<1>10. Sum(new) = Scale * Sum(dist)
  <2>1. Sum(dist) \in Int
    <3>1. \A k \in 0 .. N : dist[k] \in Int OBVIOUS
    <3> HIDE DEF N
    <3> QED BY <1>1, <3>1, SumType
  <2>2. \A t, s, p \in Int : t * (s - p) + t * p = s * t OBVIOUS
  <2>3. prob \in Int /\ Scale \in Int BY <1>1
  <2> HIDE DEF lost, moved, new, Sum
  <2> QED BY <1>5, <1>6, <1>7, <1>8, <1>9, <2>1, <2>2, <2>3 DEF Sum
<1>11. ASSUME NEW k \in 0 .. N, k > n + 1 PROVE new[k] = 0
  <2>1. k # 0 /\ k > n /\ k - 1 > n /\ k - 1 \in 0 .. N BY <1>1, <1>11
  <2>2. dist[k] = 0 /\ dist[k - 1] = 0 BY <2>1
  <2>3. new[k] = dist[k] * (Scale - prob) + dist[k - 1] * prob BY <2>1 DEF AfterDuel
  <2>4. \A p \in Int : 0 * p = 0 OBVIOUS
  <2> QED BY <1>1, <2>2, <2>3, <2>4
<1> QED BY <1>10, <1>11

\* All the chances together are certainty.
LEMMA ChancesAre ==
  ASSUME NEW D, IsFiniteSet(D), NEW probs \in [D -> 0 .. Scale]
  PROVE  /\ Successes(probs) \in [0 .. Cardinality(D) -> Nat]
         /\ SumFunctionOnSet(Successes(probs), 0 .. Cardinality(D)) = Certainty(D)
<1> DEFINE N == Cardinality(D)
<1>1. PICK g : IsChances(probs, D, g) /\ Successes(probs) = g[D] BY SuccessesAre
<1>2. PICK c : IsCertainty(D, c) /\ Certainty(D) = c[D] BY CertaintyIs
<1> DEFINE A == {T \in SUBSET D :
                   /\ g[T] \in [0 .. N -> Nat]
                   /\ SumFunctionOnSet(g[T], 0 .. N) = c[T]
                   /\ \A k \in 0 .. N : k > Cardinality(T) => g[T][k] = 0}
<1>3. N \in Nat /\ IsFiniteSet(0 .. N) BY FS_CardinalityType, FS_Interval
<1>4. ASSUME NEW T \in SUBSET D, \A U \in SUBSET T : U # T => U \in A PROVE T \in A
  <2>1. CASE T = {}
    <3>1. g[T] = Unplayed(D) /\ c[T] = 1 BY <1>1, <1>2, <2>1 DEF IsChances, IsCertainty
    <3>2. Unplayed(D) \in [0 .. N -> Nat] BY DEF Unplayed
    <3>3. SumFunctionOnSet(Unplayed(D), 0 .. N) = 1
      <4>1. (1 .. N) \cup {0} = 0 .. N /\ 0 \notin 1 .. N BY <1>3
      <4>2. IsFiniteSet(1 .. N) BY <1>3, FirstNumbers
      <4>3. \A k \in 1 .. N : Unplayed(D)[k] = 0
        BY <1>3 DEF Unplayed
      <4>4. Unplayed(D)[0] = 1 BY <1>3 DEF Unplayed
      <4> HIDE DEF N
      <4>5. SumFunctionOnSet(Unplayed(D), 1 .. N) = 0 BY <4>2, <4>3, SumZero
      <4>6. \A k \in (1 .. N) \cup {0} : Unplayed(D)[k] \in Int BY <4>3, <4>4
      <4>7. SumFunctionOnSet(Unplayed(D), (1 .. N) \cup {0})
              = Unplayed(D)[0] + SumFunctionOnSet(Unplayed(D), 1 .. N)
        BY <4>1, <4>2, <4>6, SumAdd
      <4>8. SumFunctionOnSet(Unplayed(D), 0 .. N)
              = SumFunctionOnSet(Unplayed(D), (1 .. N) \cup {0})
        BY <4>1, Zenon
      <4> QED BY <4>4, <4>5, <4>7, <4>8
    <3>4. ASSUME NEW k \in 0 .. N, k > Cardinality(T) PROVE g[T][k] = 0
      <4>1. Cardinality(T) = 0 BY <2>1, FS_EmptySet
      <4>2. k # 0 BY <3>4, <4>1
      <4> QED BY <3>1, <4>2 DEF Unplayed
    <3> QED BY <3>1, <3>2, <3>3, <3>4
  <2>2. CASE T # {}
    <3> DEFINE d == CHOOSE x \in T : TRUE
               U == T \ {d}
    <3>1. d \in T /\ d \in D /\ U \in SUBSET T /\ U # T BY <2>2
    <3>2. g[T] = AfterDuel(D, probs[d], g[U]) /\ c[T] = Scale * c[U]
      BY <1>1, <1>2, <2>2 DEF IsChances, IsCertainty
    <3>3. U \in A BY <1>4, <3>1
    <3>4. IsFiniteSet(T) /\ Cardinality(U) = Cardinality(T) - 1 /\ Cardinality(T) \in Nat
      <4>1. IsFiniteSet(T) BY FS_Subset
      <4> QED BY <4>1, <3>1, FS_RemoveElement, FS_CardinalityType
    <3>5. Cardinality(T) <= N BY FS_Subset
    <3>6. Cardinality(U) \in Nat /\ Cardinality(U) < N /\ Cardinality(U) + 1 = Cardinality(T)
      <4>1. IsFiniteSet(U) BY <3>4, FS_Subset
      <4>2. Cardinality(U) \in Nat BY <4>1, FS_CardinalityType
      <4> HIDE DEF U, N
      <4> QED BY <1>3, <3>4, <3>5, <4>2
    <3> HIDE DEF d, U
    <3>7. probs[d] \in 0 .. Scale BY <3>1
    <3>8. /\ g[U] \in [0 .. N -> Nat]
          /\ SumFunctionOnSet(g[U], 0 .. N) = c[U]
          /\ \A k \in 0 .. N : k > Cardinality(U) => g[U][k] = 0
      BY <3>3
    <3>9. /\ SumFunctionOnSet(g[T], 0 .. N) = Scale * SumFunctionOnSet(g[U], 0 .. N)
          /\ \A k \in 0 .. N : k > Cardinality(U) + 1 => g[T][k] = 0
      BY <3>2, <3>6, <3>7, <3>8, SharedAnew
    <3>10. g[T] \in [0 .. N -> Nat] BY <3>2, <3>7, <3>8, AfterDuelTyped
    <3> QED BY <3>2, <3>6, <3>8, <3>9, <3>10
  <2> QED BY <2>1, <2>2
<1> HIDE DEF A
<1>5. SUBSET D \subseteq A BY <1>4, SubsetInduction
<1>6. D \in A BY <1>5
<1> QED BY <1>1, <1>2, <1>6 DEF A

\* So no chance exceeds it.
LEMMA NoMoreThanCertain ==
  ASSUME NEW D, IsFiniteSet(D), NEW probs \in [D -> 0 .. Scale], NEW required \in Nat
  PROVE  ProbabilityAtLeast(probs, required) \in 0 .. Certainty(D)
<1> DEFINE N == Cardinality(D)
           dist == Successes(probs)
<1>1. N \in Nat /\ IsFiniteSet(0 .. N) BY FS_CardinalityType, FS_Interval
<1>2. dist \in [0 .. N -> Nat] /\ SumFunctionOnSet(dist, 0 .. N) = Certainty(D) BY ChancesAre
<1>3. required .. N \in SUBSET (0 .. N) BY <1>1
<1>4. ProbabilityAtLeast(probs, required) = SumFunctionOnSet(dist, required .. N)
  <2>1. DOMAIN probs = D OBVIOUS
  <2> QED BY <2>1 DEF ProbabilityAtLeast
<1> HIDE DEF dist, N
<1>5. \A k \in 0 .. N : dist[k] \in Nat BY <1>2
<1>6. /\ SumFunctionOnSet(dist, required .. N) \in Nat
      /\ SumFunctionOnSet(dist, required .. N) <= SumFunctionOnSet(dist, 0 .. N)
  BY <1>1, <1>3, <1>5, SumOfSome
<1>7. SumFunctionOnSet(dist, 0 .. N) \in Nat BY <1>1, <1>5, SumNat
<1> QED BY <1>2, <1>4, <1>6, <1>7

\* The elements of a finite set in a strict total order of them, each once: the
\* n-th has n - 1 below it.
InItsOrder(S, below, e) ==
  e \in [1 .. Cardinality(S) -> S]
    /\ \A n \in 1 .. Cardinality(S) : Cardinality(below[e[n]]) = n - 1

\* Every place of a strict total order is somebody's.
LEMMA PlacesFilled ==
  ASSUME NEW S, IsFiniteSet(S), NEW below \in [S -> SUBSET S],
         \A x \in S : x \notin below[x],
         \A x, y \in S : x = y \/ x \in below[y] \/ y \in below[x],
         \A x, y \in S : x \in below[y] => below[x] \subseteq below[y]
  PROVE  /\ Cardinality(S) \in Nat
         /\ \A n \in 1 .. Cardinality(S) : \E x \in S : Cardinality(below[x]) = n - 1
<1>1. /\ Cardinality(S) \in Nat
      /\ \A m \in 0 .. Cardinality(S) - 1 : \E x \in S : Cardinality(below[x]) = m
  BY RanksFill
<1>2. \A n \in 1 .. Cardinality(S) : n - 1 \in 0 .. Cardinality(S) - 1 BY <1>1
<1> QED BY <1>1, <1>2

\* A set in its order is a sequence of all its elements.
LEMMA OrderedIs ==
  ASSUME NEW S, IsFiniteSet(S), NEW below \in [S -> SUBSET S],
         \A x \in S : x \notin below[x],
         \A x, y \in S : x = y \/ x \in below[y] \/ y \in below[x],
         \A x, y \in S : x \in below[y] => below[x] \subseteq below[y],
         NEW e, InItsOrder(S, below, e)
  PROVE  /\ e \in Seq(S) /\ Len(e) = Cardinality(S)
         /\ \A i, j \in 1 .. Cardinality(S) : i < j <=> e[i] \in below[e[j]]
         /\ \A i, j \in 1 .. Cardinality(S) : e[i] = e[j] => i = j
         /\ \A x \in S : \E i \in 1 .. Cardinality(S) : e[i] = x
<1> DEFINE N == Cardinality(S)
<1>1. /\ N \in Nat
      /\ \A x \in S : Cardinality(below[x]) \in 0 .. N - 1
      /\ \A x, y \in S : x \in below[y] <=> Cardinality(below[x]) < Cardinality(below[y])
  BY RanksFill
<1>2. /\ e \in [1 .. N -> S]
      /\ \A n \in 1 .. N : e[n] \in S /\ Cardinality(below[e[n]]) = n - 1
  BY DEF InItsOrder
<1>3. e \in Seq(S) /\ Len(e) = N
  <2> HIDE DEF N
  <2> QED BY <1>1, <1>2
<1>4. ASSUME NEW i \in 1 .. N, NEW j \in 1 .. N PROVE i < j <=> e[i] \in below[e[j]]
  <2>1. i < j <=> i - 1 < j - 1 BY <1>1
  <2> QED BY <1>1, <1>2, <2>1
<1>5. ASSUME NEW i \in 1 .. N, NEW j \in 1 .. N, e[i] = e[j] PROVE i = j
  <2>1. i - 1 = j - 1 BY <1>2, <1>5
  <2> QED BY <1>1, <2>1
<1>6. ASSUME NEW x \in S PROVE \E i \in 1 .. N : e[i] = x
  <2> DEFINE i == Cardinality(below[x]) + 1
  <2>1. i \in 1 .. N BY <1>1
  <2>2. Cardinality(below[e[i]]) = Cardinality(below[x]) BY <1>1, <1>2, <2>1
  <2>3. e[i] \in S BY <1>2, <2>1
  <2> HIDE DEF i
  <2>4. e[i] \notin below[x] /\ x \notin below[e[i]] BY <1>1, <2>2, <2>3
  <2>5. e[i] = x BY <2>3, <2>4
  <2> QED BY <2>1, <2>5
<1> QED BY <1>3, <1>4, <1>5, <1>6

-------------------------------------------------------------------------------
(* The advice of a captain.                                                *)

\* There are finitely many orders of a number of players.
LEMMA FiniteOrders == ASSUME NEW n \in Nat PROVE IsFiniteSet(Orders(n))
<1> DEFINE D == (1 .. n) \X (1 .. n)
           graph == [p \in Orders(n) |-> {<<i, p[i]>> : i \in 1 .. n}]
<1>1. IsFiniteSet(1 .. n) BY FirstNumbers
<1>2. IsFiniteSet(D) BY <1>1, FS_Product
<1>3. IsFiniteSet(SUBSET D) BY <1>2, FS_SUBSET
<1>4. Orders(n) \subseteq [1 .. n -> 1 .. n] BY DEF Orders
<1>5. graph \in [Orders(n) -> SUBSET D]
  <2>1. ASSUME NEW p \in Orders(n) PROVE {<<i, p[i]>> : i \in 1 .. n} \in SUBSET D
    <3>1. p \in [1 .. n -> 1 .. n] BY <1>4
    <3> QED BY <3>1
  <2> QED BY <2>1
<1>6. ASSUME NEW p \in Orders(n), NEW q \in Orders(n), graph[p] = graph[q] PROVE p = q
  <2>1. p \in [1 .. n -> 1 .. n] /\ q \in [1 .. n -> 1 .. n] BY <1>4
  <2>2. ASSUME NEW i \in 1 .. n PROVE p[i] = q[i]
    <3>1. <<i, p[i]>> \in graph[q] BY <1>6
    <3>2. PICK j \in 1 .. n : <<i, p[i]>> = <<j, q[j]>> BY <3>1
    <3> QED BY <3>2
  <2> QED BY <2>1, <2>2
<1> HIDE DEF graph, D
<1>7. graph \in Injection(Orders(n), SUBSET D) BY <1>5, <1>6 DEF Injection, IsInjective
<1> QED BY <1>3, <1>7, FS_Injection

\* Of two orders one is earlier, by the first place they differ at.
LEMMA OneIsEarlier ==
  ASSUME NEW n \in Nat
  PROVE  /\ \A p \in Orders(n) : ~ Earlier(p, p)
         /\ \A p, q \in Orders(n) : p = q \/ Earlier(p, q) \/ Earlier(q, p)
         /\ \A p, q, r \in Orders(n) : Earlier(p, q) /\ Earlier(q, r) => Earlier(p, r)
<1>1. \A p \in Orders(n) : p \in [1 .. n -> 1 .. n] BY DEF Orders
<1>2. ASSUME NEW p \in Orders(n) PROVE ~ Earlier(p, p)
  <2>1. \A i \in 1 .. n : p[i] \in Int BY <1>1
  <2>2. DOMAIN p = 1 .. n BY <1>1
  <2> QED BY <2>1, <2>2 DEF Earlier
<1>3. ASSUME NEW p \in Orders(n), NEW q \in Orders(n), p # q PROVE Earlier(p, q) \/ Earlier(q, p)
  <2> DEFINE D == {i \in 1 .. n : p[i] # q[i]}
  <2>1. p \in [1 .. n -> 1 .. n] /\ q \in [1 .. n -> 1 .. n] BY <1>1
  <2>2. D # {}
    <3>1. ASSUME D = {} PROVE FALSE
      <4>1. \A i \in 1 .. n : p[i] = q[i] BY <3>1
      <4> HIDE DEF D
      <4> QED BY <1>3, <2>1, <4>1
    <3> QED BY <3>1
  <2>3. IsFiniteSet(D) /\ D \subseteq Int
    <3>1. D \subseteq 0 .. n /\ D \subseteq Int OBVIOUS
    <3> HIDE DEF D
    <3>2. IsFiniteSet(D) BY <3>1, BoundedOnes
    <3> QED BY <3>1, <3>2
  <2>4. PICK m : m = Min(D) OBVIOUS
  <2>5. m \in D /\ \A j \in D : m <= j
    <3> HIDE DEF D
    <3> QED BY <2>2, <2>3, <2>4, SmallestIs
  <2>6. m \in 1 .. n /\ p[m] # q[m] /\ \A j \in 1 .. m - 1 : p[j] = q[j]
    <3>1. m \in 1 .. n BY <2>5
    <3>2. ASSUME NEW j \in 1 .. m - 1 PROVE p[j] = q[j]
      <4>1. j \in 1 .. n /\ ~ m <= j BY <3>1
      <4> QED BY <2>5, <4>1
    <3> QED BY <2>5, <3>1, <3>2
  <2>7. p[m] < q[m] \/ q[m] < p[m] BY <2>1, <2>6
  <2>8. DOMAIN p = 1 .. n /\ DOMAIN q = 1 .. n BY <2>1
  <2> QED BY <2>6, <2>7, <2>8 DEF Earlier
<1>4. ASSUME NEW p \in Orders(n), NEW q \in Orders(n), NEW r \in Orders(n),
             Earlier(p, q), Earlier(q, r)
      PROVE  Earlier(p, r)
  <2>1. /\ p \in [1 .. n -> 1 .. n] /\ q \in [1 .. n -> 1 .. n] /\ r \in [1 .. n -> 1 .. n]
        /\ DOMAIN p = 1 .. n /\ DOMAIN q = 1 .. n
    BY <1>1
  <2>2. PICK i \in 1 .. n : p[i] < q[i] /\ \A k \in 1 .. i - 1 : p[k] = q[k]
    BY <1>4, <2>1 DEF Earlier
  <2>3. PICK j \in 1 .. n : q[j] < r[j] /\ \A k \in 1 .. j - 1 : q[k] = r[k]
    BY <1>4, <2>1 DEF Earlier
  <2>4. CASE i <= j
    <3>1. p[i] < r[i]
      <4>1. CASE i = j
        <5>1. p[i] \in Int /\ q[i] \in Int /\ r[i] \in Int BY <2>1
        <5> QED BY <2>2, <2>3, <4>1, <5>1
      <4>2. CASE i < j
        <5>1. i \in 1 .. j - 1 BY <4>2
        <5> QED BY <2>2, <2>3, <5>1
      <4> QED BY <2>4, <4>1, <4>2
    <3>2. \A k \in 1 .. i - 1 : p[k] = r[k]
      <4>1. \A k \in 1 .. i - 1 : k \in 1 .. j - 1 BY <2>4
      <4> QED BY <2>2, <2>3, <4>1
    <3> QED BY <2>1, <3>1, <3>2 DEF Earlier
  <2>5. CASE j < i
    <3>1. j \in 1 .. i - 1 BY <2>5
    <3>2. p[j] < r[j] BY <2>2, <2>3, <3>1
    <3>3. \A k \in 1 .. j - 1 : p[k] = r[k]
      <4>1. \A k \in 1 .. j - 1 : k \in 1 .. i - 1 BY <2>5
      <4> QED BY <2>2, <2>3, <4>1
    <3> QED BY <2>1, <3>2, <3>3 DEF Earlier
  <2> QED BY <2>4, <2>5
<1> QED BY <1>2, <1>3, <1>4

\* The orders in turn: each of them once, that of the players as given first.
LEMMA InTurn ==
  ASSUME NEW n \in Nat, NEW perms, perms = InOrder(Orders(n), Earlier)
  PROVE  /\ Len(perms) \in Nat
         /\ \A k \in 1 .. Len(perms) : perms[k] \in Orders(n)
         /\ \A p \in Orders(n) : \E k \in 1 .. Len(perms) : perms[k] = p
         /\ 1 \in 1 .. Len(perms) /\ perms[1] = [i \in 1 .. n |-> i]
<1> DEFINE S == Orders(n)
           below == [p \in S |-> {q \in S : Earlier(q, p)}]
           N == Cardinality(S)
           id == [i \in 1 .. n |-> i]
<1>1. IsFiniteSet(S) BY FiniteOrders
<1>2. below \in [S -> SUBSET S] OBVIOUS
<1>3. /\ \A x \in S : x \notin below[x]
      /\ \A x, y \in S : x = y \/ x \in below[y] \/ y \in below[x]
      /\ \A x, y \in S : x \in below[y] => below[x] \subseteq below[y]
  BY OneIsEarlier
<1>4. /\ \A x \in S : below[x] = {y \in S : Earlier(y, x)}
      /\ perms = [m \in 1 .. N |->
                    CHOOSE x \in S : Cardinality({y \in S : Earlier(y, x)}) = m - 1]
  BY DEF InOrder
<1>5. \A x, y \in S : x \in below[y] => Earlier(x, y) OBVIOUS
<1> HIDE DEF below, S
<1>6. N \in Nat /\ \A m \in 1 .. N : \E x \in S : Cardinality(below[x]) = m - 1
  BY <1>1, <1>2, <1>3, PlacesFilled
<1>7. InItsOrder(S, below, perms)
  <2>1. ASSUME NEW m \in 1 .. N PROVE perms[m] \in S /\ Cardinality(below[perms[m]]) = m - 1
    <3>1. \E x \in S : Cardinality({y \in S : Earlier(y, x)}) = m - 1 BY <1>4, <1>6
    <3>2. perms[m] = CHOOSE x \in S : Cardinality({y \in S : Earlier(y, x)}) = m - 1
      BY <1>4
    <3>3. perms[m] \in S /\ Cardinality({y \in S : Earlier(y, perms[m])}) = m - 1
      BY <3>1, <3>2
    <3> QED BY <1>4, <3>3
  <2>2. perms = [m \in 1 .. N |-> perms[m]] BY <1>4
  <2>3. perms \in [1 .. N -> S] BY <2>1, <2>2
  <2> QED BY <2>1, <2>3 DEF InItsOrder
<1>8. /\ Len(perms) = N
      /\ \A i, j \in 1 .. N : i < j <=> perms[i] \in below[perms[j]]
      /\ \A x \in S : \E i \in 1 .. N : perms[i] = x
      /\ \A i \in 1 .. N : perms[i] \in S
  <2>1. \A i \in 1 .. N : perms[i] \in S BY <1>7 DEF InItsOrder
  <2>2. /\ perms \in Seq(S) /\ Len(perms) = Cardinality(S)
        /\ \A i, j \in 1 .. Cardinality(S) : i < j <=> perms[i] \in below[perms[j]]
        /\ \A i, j \in 1 .. Cardinality(S) : perms[i] = perms[j] => i = j
        /\ \A x \in S : \E i \in 1 .. Cardinality(S) : perms[i] = x
    <3>1. /\ \A x \in S : x \notin below[x]
          /\ \A x, y \in S : x = y \/ x \in below[y] \/ y \in below[x]
          /\ \A x, y \in S : x \in below[y] => below[x] \subseteq below[y]
      BY <1>3
    <3>2. InItsOrder(S, below, perms) BY <1>7
    <3> QED BY <1>1, <1>2, <3>1, <3>2, OrderedIs
  <2> QED BY <2>1, <2>2
<1>9. id \in S
  <2>1. id \in [1 .. n -> 1 .. n] OBVIOUS
  <2>2. IsInjective(id) BY DEF IsInjective
  <2> HIDE DEF id
  <2> QED BY <2>1, <2>2 DEF Orders, S
<1>10. PICK k \in 1 .. N : perms[k] = id BY <1>8, <1>9
<1>11. 1 \in 1 .. N
  <2>1. k \in Int /\ 1 <= k /\ k <= N BY <1>6
  <2> HIDE DEF N
  <2> QED BY <1>6, <2>1
<1>12. k = 1
  <2> SUFFICES ASSUME k # 1 PROVE FALSE
    OBVIOUS
  <2>1. 1 < k BY <1>6
  <2>2. Earlier(perms[1], id)
    <3> HIDE DEF id, N
    <3>1. perms[1] \in below[perms[k]] BY <1>8, <1>11, <2>1
    <3>2. perms[1] \in S BY <1>8, <1>11
    <3> QED BY <1>5, <1>9, <1>10, <3>1, <3>2
  <2>3. PICK p \in S : p = perms[1] BY <1>8, <1>11
  <2>4. p \in [1 .. n -> 1 .. n] /\ IsInjective(p) BY DEF S, Orders
  <2>5. PICK i \in DOMAIN p : p[i] < id[i] /\ \A j \in 1 .. i - 1 : p[j] = id[j]
    BY <2>2, <2>3 DEF Earlier
  <2>6. i \in 1 .. n /\ p[i] \in 1 .. n /\ p[i] < i BY <2>4, <2>5
  <2>7. p[i] \in 1 .. i - 1 /\ p[i] \in 1 .. n BY <2>6
  <2>8. p[p[i]] = p[i] BY <2>5, <2>7
  <2>9. \A a, b \in 1 .. n : p[a] = p[b] => a = b BY <2>4 DEF IsInjective
  <2>10. p[i] = i BY <2>6, <2>7, <2>8, <2>9
  <2> QED BY <2>6, <2>10
<1> QED BY <1>6, <1>8, <1>10, <1>11, <1>12 DEF S

\* Of some orders there is one that promises most.
LEMMA BestOrder ==
  ASSUME NEW S, IsFiniteSet(S), S # {}, NEW score \in [S -> Int]
  PROVE  \E p \in S : \A q \in S : score[q] <= score[p]
<1> DEFINE scores == {score[p] : p \in S}
<1>1. IsFiniteSet(scores) BY ImageFinite
<1>2. scores # {} /\ scores \subseteq Int OBVIOUS
<1>3. \A p \in S : score[p] \in scores OBVIOUS
<1>4. PICK p \in S : score[p] = Max(scores)
  <2>1. Max(scores) \in scores
    <3> HIDE DEF scores
    <3> QED BY <1>1, <1>2, LargestIs
  <2> QED BY <2>1
<1> HIDE DEF scores
<1>5. \A k \in scores : k <= Max(scores) BY <1>1, <1>2, LargestIs
<1> QED BY <1>3, <1>4, <1>5

\* What duels are made of.
LEMMA StrengthsInt == ASSUME NEW s \in Strengths PROVE s \in Int /\ s # None
<1>1. Strengths \subseteq Int BY AdviceAssumption, Zenon
<1>2. s \in Int BY <1>1, Zenon
<1> QED BY <1>2, NoneAssumption, Zenon

\* The points of players, and the chances of a duel.
LEMMA StrengthsAre ==
  Strengths \subseteq Int /\ \A mine, theirs \in Strengths : Duel(mine, theirs) \in 0 .. Scale
<1>1. Strengths \subseteq Int BY AdviceAssumption, Zenon
<1>2. \A mine, theirs \in Strengths : Duel(mine, theirs) \in 0 .. Scale BY AdviceAssumption, Zenon
<1> QED BY <1>1, <1>2

\* The points that are found for a player are among those that players have.
LEMMA PointsAre ==
  ASSUME NEW rows, \A r \in rows : r.date \in Int /\ r.points \in Strengths, IsFiniteSet(rows),
         NEW p, p.index \in Int, 2000 - p.rankingIndex * 40 \in Strengths
  PROVE  PointsOf(rows, p) \in Strengths
<1> DEFINE mine == {r \in rows : r.memberId = p.index}
<1>1. CASE mine = {}
  <2>1. LoadPoints(rows, p.index) = None BY <1>1 DEF LoadPoints
  <2> QED BY <2>1 DEF PointsOf
<1>2. CASE mine # {}
  <2> DEFINE date == [r \in mine |-> r.date]
  <2>1. IsFiniteSet(mine) BY FS_Subset
  <2>2. date \in [mine -> Int] OBVIOUS
  <2>3. \A r \in mine : date[r] = r.date OBVIOUS
  <2> HIDE DEF mine, date
  <2>4. \E r \in mine : \A s \in mine : date[s] <= date[r] BY <1>2, <2>1, <2>2, BestOrder
  <2>5. \E r \in mine : \A s \in mine : s.date <= r.date BY <2>3, <2>4
  <2>6. (CHOOSE r \in mine : \A s \in mine : s.date <= r.date) \in mine BY <2>5
  <2>7. LoadPoints(rows, p.index) \in Strengths BY <1>2, <2>6 DEF LoadPoints, mine
  <2>8. LoadPoints(rows, p.index) # None BY <2>7, StrengthsInt
  <2> QED BY <2>7, <2>8 DEF PointsOf
<1> QED BY <1>1, <1>2

\* A sequence of players whose points can be found.
Rated(rows, players) ==
  /\ Len(players) \in Nat /\ DOMAIN players = 1 .. Len(players)
  /\ players = [i \in 1 .. Len(players) |-> players[i]]
  /\ \A i \in DOMAIN players : PointsOf(rows, players[i]) \in Strengths

\* The sum over the tables is a natural number.
LEMMA ExpectedIs ==
  ASSUME NEW rows, NEW mine, NEW theirs, Rated(rows, mine), Rated(rows, theirs)
  PROVE  PositionalExpected(mine, theirs, rows) \in Nat
<1> DEFINE met == {i \in DOMAIN mine : i <= Len(theirs)}
           f == [i \in met |-> DuelProbability(PointsOf(rows, mine[i]), PointsOf(rows, theirs[i]))]
<1>1. IsFiniteSet(met)
  <2>1. IsFiniteSet(1 .. Len(mine))
    <3>1. Len(mine) \in Nat BY DEF Rated
    <3> QED BY <3>1, FirstNumbers
  <2>2. met \subseteq 1 .. Len(mine) BY DEF Rated
  <2> QED BY <2>1, <2>2, FS_Subset
<1>2. ASSUME NEW i \in met PROVE f[i] \in Nat
  <2>1. i \in DOMAIN mine /\ i \in DOMAIN theirs BY DEF Rated
  <2>2. PointsOf(rows, mine[i]) \in Strengths /\ PointsOf(rows, theirs[i]) \in Strengths
    BY <2>1 DEF Rated
  <2>3. Duel(PointsOf(rows, mine[i]), PointsOf(rows, theirs[i])) \in 0 .. Scale
    BY <2>2, StrengthsAre
  <2> QED BY <2>3, ScaleAssumption DEF DuelProbability
<1>3. PositionalExpected(mine, theirs, rows) = SumFunctionOnSet(f, met)
  BY DEF PositionalExpected
<1> HIDE DEF f, met
<1> QED BY <1>1, <1>2, <1>3, SumNat

\* In another order they are still players whose points can be found.
LEMMA ArrangedRated ==
  ASSUME NEW rows, NEW players, Rated(rows, players), NEW p \in Orders(Len(players))
  PROVE  Rated(rows, Arranged(players, p))
<1>1. p \in [1 .. Len(players) -> 1 .. Len(players)] BY DEF Orders
<1>2. Arranged(players, p) = [i \in 1 .. Len(players) |-> players[p[i]]] BY DEF Rated, Arranged
<1>3. Len(Arranged(players, p)) = Len(players) /\ DOMAIN Arranged(players, p) = 1 .. Len(players)
  BY <1>2 DEF Rated
<1>4. \A i \in 1 .. Len(players) : Arranged(players, p)[i] = players[p[i]] BY <1>2
<1>5. ASSUME NEW i \in 1 .. Len(players) PROVE PointsOf(rows, Arranged(players, p)[i]) \in Strengths
  <2>1. p[i] \in DOMAIN players BY <1>1 DEF Rated
  <2> QED BY <1>4, <2>1 DEF Rated
<1>6. Arranged(players, p) = [i \in 1 .. Len(players) |-> Arranged(players, p)[i]] BY <1>2
<1> QED BY <1>3, <1>5, <1>6 DEF Rated

\* What is assumed of a captain's question.
Readable(slots, roster, rows) ==
  /\ DOMAIN slots = 1 .. Len(slots) /\ Len(slots) \in Nat
  /\ \A i \in DOMAIN slots : slots[i].orderPos \in Int
  /\ IsFiniteSet(roster) /\ IsFiniteSet(rows)
  /\ \A p \in roster : /\ p.index \in Int /\ p.rankingIndex \in Int
                       /\ 2000 - p.rankingIndex * 40 \in Strengths
  /\ \A p, r \in roster : p.index = r.index => p = r
  /\ \A r \in rows : r.date \in Int /\ r.points \in Strengths

\* A question for advice is one of players and slots.
LEMMA AdviceReadable ==
  ASSUME NEW q \in AdviceInputs
  PROVE  /\ Readable(q.slots, q.roster, q.rows) /\ Readable(q.slots, q.opposing, q.rows)
         /\ q.team.size \in Nat
<1>1. /\ q.team.size \in Nat
      /\ DOMAIN q.slots = 1 .. Len(q.slots) /\ Len(q.slots) \in Nat
      /\ \A i \in DOMAIN q.slots : q.slots[i].orderPos \in Int
      /\ IsFiniteSet(q.roster) /\ IsFiniteSet(q.opposing) /\ IsFiniteSet(q.rows)
  BY AdviceAssumption
<1>2. \A r \in q.rows : r.date \in Int /\ r.points \in Strengths
  BY AdviceAssumption
<1>3. \A players \in {q.roster, q.opposing} :
        /\ \A p \in players : p.index \in Int /\ p.rankingIndex \in Int
                              /\ 2000 - p.rankingIndex * 40 \in Strengths
        /\ \A p, r \in players : p.index = r.index => p = r
  BY AdviceAssumption
<1>4. q.roster \in {q.roster, q.opposing} /\ q.opposing \in {q.roster, q.opposing} OBVIOUS
<1>5. Readable(q.slots, q.roster, q.rows) BY <1>1, <1>2, <1>3, <1>4 DEF Readable
<1>6. Readable(q.slots, q.opposing, q.rows) BY <1>1, <1>2, <1>3, <1>4 DEF Readable
<1> QED BY <1>1, <1>5, <1>6

\* The starters are players of the roster.
LEMMA StartersRated ==
  ASSUME NEW slots, NEW roster, NEW rows, Readable(slots, roster, rows)
  PROVE  Rated(rows, Starters(slots, roster))
<1> DEFINE Sooner(i, j) ==
             \/ slots[i].orderPos < slots[j].orderPos
             \/ slots[i].orderPos = slots[j].orderPos /\ i < j
           kept == {i \in DOMAIN slots :
                      /\ slots[i].role = "TITULAIRE" /\ slots[i].orderPos <= 100
                      /\ \E p \in roster : p.index = slots[i].index}
           below == [i \in kept |-> {j \in kept : Sooner(j, i)}]
           order == InOrder(kept, Sooner)
           mine == [n \in DOMAIN order |-> CHOOSE p \in roster : p.index = slots[order[n]].index]
<1>1. IsFiniteSet(kept)
  <2>1. IsFiniteSet(1 .. Len(slots))
    <3>1. Len(slots) \in Nat BY DEF Readable
    <3> QED BY <3>1, FirstNumbers
  <2>2. kept \subseteq 1 .. Len(slots) BY DEF Readable
  <2> QED BY <2>1, <2>2, FS_Subset
<1>2. \A i \in kept : i \in Int /\ slots[i].orderPos \in Int BY DEF Readable
<1>3. below \in [kept -> SUBSET kept] OBVIOUS
<1>4. \A i, j \in kept : j \in below[i] <=> Sooner(j, i) OBVIOUS
<1>5. Starters(slots, roster) = mine BY DEF Starters
<1> DEFINE N == Cardinality(kept)
<1>14. order = [n \in 1 .. N |-> CHOOSE x \in kept : Cardinality({y \in kept : Sooner(y, x)}) = n - 1]
  BY DEF InOrder
<1>15. \A x \in kept : below[x] = {y \in kept : Sooner(y, x)} OBVIOUS
<1>6. \A i \in kept : \E p \in roster : p.index = slots[i].index OBVIOUS
<1> HIDE DEF kept, below
<1>7. /\ \A x \in kept : x \notin below[x]
      /\ \A x, y \in kept : x = y \/ x \in below[y] \/ y \in below[x]
      /\ \A x, y \in kept : x \in below[y] => below[x] \subseteq below[y]
  <2>1. \A x \in kept : x \notin below[x] BY <1>2, <1>4
  <2>2. \A x, y \in kept : x = y \/ x \in below[y] \/ y \in below[x] BY <1>2, <1>4
  <2>3. ASSUME NEW x \in kept, NEW y \in kept, x \in below[y], NEW z \in below[x]
        PROVE  z \in below[y]
    <3>1. z \in kept BY <1>3
    <3> QED BY <1>2, <1>4, <2>3, <3>1
  <2> QED BY <2>1, <2>2, <2>3
<1>8. N \in Nat /\ order \in [1 .. N -> kept]
  <2>1. N \in Nat /\ \A n \in 1 .. N : \E x \in kept : Cardinality(below[x]) = n - 1
    BY <1>1, <1>3, <1>7, PlacesFilled
  <2>2. ASSUME NEW n \in 1 .. N PROVE order[n] \in kept
    <3>1. \E x \in kept : Cardinality({y \in kept : Sooner(y, x)}) = n - 1 BY <1>15, <2>1
    <3>2. order[n] = CHOOSE x \in kept : Cardinality({y \in kept : Sooner(y, x)}) = n - 1
      BY <1>14
    <3> QED BY <3>1, <3>2
  <2>3. order = [n \in 1 .. N |-> order[n]] BY <1>14
  <2> HIDE DEF order
  <2> QED BY <2>1, <2>2, <2>3
<1> HIDE DEF order
<1>9. DOMAIN order = 1 .. Cardinality(kept) BY <1>8
<1>10. mine = [n \in 1 .. Cardinality(kept) |->
                 CHOOSE p \in roster : p.index = slots[order[n]].index]
  BY <1>9
<1>11. ASSUME NEW n \in 1 .. Cardinality(kept) PROVE PointsOf(rows, mine[n]) \in Strengths
  <2>1. order[n] \in kept BY <1>8
  <2>2. \E p \in roster : p.index = slots[order[n]].index BY <1>6, <2>1
  <2>3. mine[n] = CHOOSE p \in roster : p.index = slots[order[n]].index BY <1>10
  <2> HIDE DEF mine
  <2>4. mine[n] \in roster BY <2>2, <2>3
  <2>5. mine[n].index \in Int /\ 2000 - mine[n].rankingIndex * 40 \in Strengths
    BY <2>4 DEF Readable
  <2>6. IsFiniteSet(rows) /\ \A r \in rows : r.date \in Int /\ r.points \in Strengths
    BY DEF Readable
  <2> QED BY <2>5, <2>6, PointsAre
<1>12. DOMAIN mine = 1 .. Cardinality(kept) /\ Len(mine) = Cardinality(kept)
  BY <1>8, <1>10
<1>13. mine = [n \in 1 .. Cardinality(kept) |-> mine[n]] BY <1>10
<1> HIDE DEF mine
<1> QED BY <1>5, <1>8, <1>11, <1>12, <1>13 DEF Rated

\* The opponents are players of their club.
LEMMA OpponentsRated ==
  ASSUME NEW slots, NEW roster, NEW rows, Readable(slots, roster, rows), NEW size \in Nat
  PROVE  Rated(rows, Opponents(roster, size))
<1> DEFINE Sooner(p, q) ==
             \/ p.rankingIndex < q.rankingIndex
             \/ p.rankingIndex = q.rankingIndex /\ p.index < q.index
           below == [p \in roster |-> {q \in roster : Sooner(q, p)}]
           sorted == InOrder(roster, Sooner)
           N == Cardinality(roster)
<1>1. IsFiniteSet(roster) /\ \A p \in roster : p.index \in Int /\ p.rankingIndex \in Int
  BY DEF Readable
<1>2. below \in [roster -> SUBSET roster] OBVIOUS
<1>3. \A p, q \in roster : q \in below[p] <=> Sooner(q, p) OBVIOUS
<1>4. /\ sorted = [n \in 1 .. N |->
                     CHOOSE x \in roster : Cardinality({y \in roster : Sooner(y, x)}) = n - 1]
      /\ \A x \in roster : below[x] = {y \in roster : Sooner(y, x)}
  BY DEF InOrder
<1>5. Opponents(roster, size) = SubSeq(sorted, 1, Min({size, Len(sorted)}))
  BY DEF Opponents
<1> HIDE DEF below
<1>6. /\ \A x \in roster : x \notin below[x]
      /\ \A x, y \in roster : x = y \/ x \in below[y] \/ y \in below[x]
      /\ \A x, y \in roster : x \in below[y] => below[x] \subseteq below[y]
  <2>1. \A x \in roster : x \notin below[x] BY <1>1, <1>3
  <2>2. ASSUME NEW x \in roster, NEW y \in roster PROVE x = y \/ x \in below[y] \/ y \in below[x]
    <3>1. x.index = y.index => x = y BY DEF Readable
    <3>2. /\ x.index \in Int /\ y.index \in Int /\ x.rankingIndex \in Int
          /\ y.rankingIndex \in Int
      BY <1>1
    <3>3. x.index = y.index \/ Sooner(x, y) \/ Sooner(y, x) BY <3>2
    <3> QED BY <1>3, <3>1, <3>3
  <2>3. ASSUME NEW x \in roster, NEW y \in roster, x \in below[y], NEW z \in below[x]
        PROVE  z \in below[y]
    <3>1. z \in roster BY <1>2
    <3>2. Sooner(x, y) /\ Sooner(z, x) BY <1>3, <2>3, <3>1
    <3>3. /\ x.index \in Int /\ y.index \in Int /\ x.rankingIndex \in Int
          /\ y.rankingIndex \in Int /\ z.index \in Int /\ z.rankingIndex \in Int
      BY <1>1, <3>1
    <3>4. Sooner(z, y) BY <3>2, <3>3
    <3> QED BY <1>3, <3>1, <3>4
  <2> QED BY <2>1, <2>2, <2>3
<1>7. N \in Nat /\ sorted \in Seq(roster) /\ Len(sorted) = N
  <2>1. N \in Nat /\ \A n \in 1 .. N : \E x \in roster : Cardinality(below[x]) = n - 1
    BY <1>1, <1>2, <1>6, PlacesFilled
  <2>2. ASSUME NEW n \in 1 .. N PROVE sorted[n] \in roster
    <3>1. \E x \in roster : Cardinality({y \in roster : Sooner(y, x)}) = n - 1 BY <1>4, <2>1
    <3>2. sorted[n] = CHOOSE x \in roster : Cardinality({y \in roster : Sooner(y, x)}) = n - 1
      BY <1>4
    <3> QED BY <3>1, <3>2
  <2>3. sorted = [n \in 1 .. N |-> sorted[n]] BY <1>4
  <2> HIDE DEF sorted, N
  <2>4. sorted \in [1 .. N -> roster] BY <2>2, <2>3
  <2> QED BY <2>1, <2>4
<1> DEFINE e == Min({size, N})
<1>8. e \in Nat /\ e <= N
  <2>1. {size, N} # {} /\ {size, N} \subseteq Int
    <3>1. N \in Nat BY <1>7
    <3> HIDE DEF N, sorted
    <3> QED BY <3>1
  <2>2. IsFiniteSet({size, N})
    <3>1. IsFiniteSet({size}) BY FS_Singleton
    <3>2. IsFiniteSet({size} \cup {N}) BY <3>1, FS_AddElement
    <3>3. {size, N} = {size} \cup {N} OBVIOUS
    <3> QED BY <3>2, <3>3
  <2>3. PICK P : P = {size, N} OBVIOUS
  <2>4. Min(P) \in P /\ \A k \in P : Min(P) <= k BY <2>1, <2>2, <2>3, SmallestIs
  <2>5. e \in {size, N} /\ e <= N BY <2>3, <2>4
  <2> QED BY <1>7, <2>5
<1>9. Opponents(roster, size) = SubSeq(sorted, 1, e) BY <1>5, <1>7
<1> HIDE DEF e, sorted, N
<1>10. PICK s \in Seq(roster) : s = sorted BY <1>7
<1>11. /\ Opponents(roster, size) = [m \in 1 .. e |-> s[m]]
       /\ Len(Opponents(roster, size)) = e
  BY <1>7, <1>8, <1>9, <1>10, FirstOnes
<1>12. ASSUME NEW m \in 1 .. e PROVE PointsOf(rows, Opponents(roster, size)[m]) \in Strengths
  <2>1. m \in 1 .. Len(s) BY <1>7, <1>8, <1>10
  <2>2. s[m] \in roster BY <2>1
  <2>3. Opponents(roster, size)[m] = s[m] BY <1>11
  <2>4. s[m].index \in Int /\ 2000 - s[m].rankingIndex * 40 \in Strengths
    BY <2>2 DEF Readable
  <2>5. IsFiniteSet(rows) /\ \A r \in rows : r.date \in Int /\ r.points \in Strengths
    BY DEF Readable
  <2>6. PointsOf(rows, s[m]) \in Strengths BY <2>4, <2>5, PointsAre
  <2> QED BY <2>3, <2>6
<1>13. /\ DOMAIN Opponents(roster, size) = 1 .. e
       /\ Opponents(roster, size) = [m \in 1 .. e |-> Opponents(roster, size)[m]]
  BY <1>11
<1> QED BY <1>8, <1>11, <1>12, <1>13 DEF Rated

\* A function on the first numbers, by what it is of 0 and by a step.
Scannable(N, V, base, next) ==
  \E g \in [0 .. N -> V] : \A n \in 0 .. N : g[n] = IF n = 0 THEN base ELSE next[n][g[n - 1]]

\* There is one.
LEMMA ScanExists ==
  ASSUME NEW N \in Nat, NEW V, NEW base \in V, NEW next \in [1 .. N -> [V -> V]]
  PROVE  Scannable(N, V, base, next)
<1> DEFINE Step(n, g) == g[n] = IF n = 0 THEN base ELSE next[n][g[n - 1]]
           A == {m \in Nat : m <= N => \E g \in [0 .. m -> V] : \A n \in 0 .. m : Step(n, g)}
<1>1. 0 \in A
  <2> DEFINE g == [n \in 0 .. 0 |-> base]
  <2>1. g \in [0 .. 0 -> V] OBVIOUS
  <2>2. \A n \in 0 .. 0 : Step(n, g) OBVIOUS
  <2> HIDE DEF g, Step
  <2> QED BY <2>1, <2>2
<1>2. ASSUME NEW m \in Nat, m \in A PROVE m + 1 \in A
  <2>1. ASSUME m + 1 <= N
        PROVE  \E h \in [0 .. m + 1 -> V] : \A n \in 0 .. m + 1 : Step(n, h)
    <3>1. m <= N /\ m + 1 \in 1 .. N BY <2>1
    <3>2. PICK g \in [0 .. m -> V] : \A n \in 0 .. m : Step(n, g) BY <1>2, <3>1
    <3> DEFINE h == [n \in 0 .. m + 1 |-> IF n = m + 1 THEN next[m + 1][g[m]] ELSE g[n]]
    <3>3. next[m + 1][g[m]] \in V BY <3>1
    <3>4. h \in [0 .. m + 1 -> V]
      <4>1. ASSUME NEW n \in 0 .. m + 1, n # m + 1 PROVE g[n] \in V
        <5>1. n \in 0 .. m BY <4>1
        <5> QED BY <5>1
      <4> QED BY <3>3, <4>1
    <3>5. ASSUME NEW n \in 0 .. m + 1 PROVE Step(n, h)
      <4>1. CASE n = m + 1
        <5>1. h[n] = next[n][g[m]] /\ n # 0 /\ n - 1 = m /\ m \in 0 .. m + 1 /\ m # m + 1
          BY <4>1
        <5>2. h[n - 1] = g[m] BY <5>1
        <5> QED BY <5>1, <5>2
      <4>2. CASE n # m + 1
        <5>1. n \in 0 .. m BY <4>2
        <5>2. h[n] = g[n] BY <4>2
        <5>3. Step(n, g) BY <3>2, <5>1
        <5>4. n # 0 => h[n - 1] = g[n - 1]
          <6>1. n # 0 => n - 1 \in 0 .. m + 1 /\ n - 1 # m + 1 BY <5>1
          <6> QED BY <6>1
        <5> HIDE DEF h
        <5> QED BY <5>2, <5>3, <5>4
      <4> QED BY <4>1, <4>2
    <3> HIDE DEF h, Step
    <3> QED BY <3>4, <3>5
  <2> HIDE DEF Step
  <2> QED BY <2>1
<1> HIDE DEF A
<1>3. N \in A BY <1>1, <1>2, NatSetInduction
<1> HIDE DEF Step
<1>4. \E g \in [0 .. N -> V] : \A n \in 0 .. N : Step(n, g) BY <1>3 DEF A
<1> QED BY <1>4 DEF Step, Scannable

\* After some orders the best is the first of those accepted that promise most,
\* or the given one, with less than nothing promised.
SoFar(tried, score, accepted, given, best, k) ==
  \/ /\ best = [order |-> given, expected |-> -1]
     /\ \A i \in 1 .. k : tried[i] \notin accepted
  \/ \E j \in 1 .. k :
        /\ tried[j] \in accepted /\ best = [order |-> tried[j], expected |-> score[j]]
        /\ \A i \in 1 .. k : tried[i] \in accepted => score[i] <= score[j]
        /\ \A i \in 1 .. j - 1 : tried[i] \in accepted => score[i] < score[j]

\* Another order that is tried keeps it so.
LEMMA TriedOne ==
  ASSUME NEW N \in Nat, NEW tried, NEW score, \A i \in 1 .. N : score[i] \in Nat,
         NEW accepted, NEW given, NEW before, NEW after, NEW k \in Nat, k + 1 <= N,
         SoFar(tried, score, accepted, given, before, k),
         after = TryOrder(before, tried[k + 1], score[k + 1], accepted)
  PROVE  SoFar(tried, score, accepted, given, after, k + 1)
<1> DEFINE n == k + 1
<1>1. n \in 1 .. n /\ score[n] \in Nat /\ \A i \in 1 .. n : i \in 1 .. N /\ (i = n \/ i \in 1 .. k)
  OBVIOUS
<1>2. n - 1 = k OBVIOUS
<1>3. \A i \in 1 .. k : i \in 1 .. n /\ score[i] \in Nat OBVIOUS
<1>4. after = IF tried[n] \in accepted /\ score[n] > before.expected
              THEN [order |-> tried[n], expected |-> score[n]] ELSE before
  BY DEF TryOrder
<1> HIDE DEF n
<1>5. CASE /\ before = [order |-> given, expected |-> -1]
           /\ \A i \in 1 .. k : tried[i] \notin accepted
  <2>1. before.expected = -1 BY <1>5
  <2>2. CASE tried[n] \in accepted
    <3>1. score[n] > before.expected BY <1>1, <2>1
    <3>2. after = [order |-> tried[n], expected |-> score[n]] BY <1>4, <2>2, <3>1
    <3>3. \A i \in 1 .. n : tried[i] \in accepted => score[i] <= score[n] BY <1>1, <1>5
    <3>4. \A i \in 1 .. n - 1 : tried[i] \in accepted => score[i] < score[n] BY <1>2, <1>5
    <3> QED BY <1>1, <2>2, <3>2, <3>3, <3>4 DEF SoFar, n
  <2>3. CASE tried[n] \notin accepted
    <3>1. after = before BY <1>4, <2>3
    <3>2. \A i \in 1 .. n : tried[i] \notin accepted BY <1>1, <1>5, <2>3
    <3> QED BY <1>5, <3>1, <3>2 DEF SoFar, n
  <2> QED BY <2>2, <2>3
<1>6. ASSUME NEW j \in 1 .. k,
             tried[j] \in accepted, before = [order |-> tried[j], expected |-> score[j]],
             \A i \in 1 .. k : tried[i] \in accepted => score[i] <= score[j],
             \A i \in 1 .. j - 1 : tried[i] \in accepted => score[i] < score[j]
      PROVE  SoFar(tried, score, accepted, given, after, n)
  <2>1. before.expected = score[j] BY <1>6
  <2>2. j \in 1 .. n /\ score[j] \in Nat BY <1>3
  <2>3. CASE tried[n] \in accepted /\ score[n] > score[j]
    <3>1. after = [order |-> tried[n], expected |-> score[n]] BY <1>4, <2>1, <2>3
    <3>2. ASSUME NEW i \in 1 .. k, tried[i] \in accepted PROVE score[i] < score[n]
      <4>1. score[i] <= score[j] /\ score[i] \in Nat BY <1>3, <1>6, <3>2
      <4> QED BY <1>1, <2>2, <2>3, <4>1
    <3>3. \A i \in 1 .. n : tried[i] \in accepted => score[i] <= score[n]
      <4>1. \A i \in 1 .. k : tried[i] \in accepted => score[i] <= score[n] BY <1>1, <1>3, <3>2
      <4> QED BY <1>1, <4>1
    <3>4. \A i \in 1 .. n - 1 : tried[i] \in accepted => score[i] < score[n] BY <1>2, <3>2
    <3> QED BY <1>1, <2>3, <3>1, <3>3, <3>4 DEF SoFar, n
  <2>4. CASE ~ (tried[n] \in accepted /\ score[n] > score[j])
    <3>1. after = before BY <1>4, <2>1, <2>4
    <3>2. tried[n] \in accepted => score[n] <= score[j] BY <1>1, <2>2, <2>4
    <3>3. \A i \in 1 .. n : tried[i] \in accepted => score[i] <= score[j]
      BY <1>1, <1>6, <3>2
    <3> QED BY <1>6, <2>2, <3>1, <3>3 DEF SoFar, n
  <2> QED BY <2>3, <2>4
<1>7. SoFar(tried, score, accepted, given, after, n) BY <1>5, <1>6 DEF SoFar, n
<1> QED BY <1>7 DEF n

\* So it is after all of them.
LEMMA TriedAll ==
  ASSUME NEW N \in Nat, NEW tried, NEW score, \A i \in 1 .. N : score[i] \in Nat,
         NEW accepted, NEW given, NEW best, best[0] = [order |-> given, expected |-> -1],
         \A n \in 1 .. N : best[n] = TryOrder(best[n - 1], tried[n], score[n], accepted)
  PROVE  SoFar(tried, score, accepted, given, best[N], N)
<1> DEFINE A == {k \in Nat : k <= N => SoFar(tried, score, accepted, given, best[k], k)}
<1>1. 0 \in A
  <2>1. SoFar(tried, score, accepted, given, best[0], 0)
    <3>1. \A i \in 1 .. 0 : tried[i] \notin accepted OBVIOUS
    <3> QED BY <3>1 DEF SoFar
  <2> QED BY <2>1
<1>2. ASSUME NEW k \in Nat, k \in A PROVE k + 1 \in A
  <2>1. ASSUME k + 1 <= N PROVE SoFar(tried, score, accepted, given, best[k + 1], k + 1)
    <3>1. k <= N /\ k + 1 \in 1 .. N /\ k + 1 - 1 = k BY <2>1
    <3>2. SoFar(tried, score, accepted, given, best[k], k) BY <1>2, <3>1
    <3>3. best[k + 1] = TryOrder(best[k], tried[k + 1], score[k + 1], accepted) BY <3>1
    <3> QED BY <2>1, <3>2, <3>3, TriedOne
  <2> QED BY <2>1
<1> HIDE DEF A
<1>3. N \in A BY <1>1, <1>2, NatSetInduction
<1> QED BY <1>3 DEF A

\* An order with what it promises: one of the starters', of those accepted the
\* best, and the given one when none promises more.
IsOptimal(rows, mine, theirs, accepted, optimal) ==
  /\ \E p \in Orders(Len(mine)) : optimal.order = Arranged(mine, p)
  /\ accepted # {} => optimal.order \in accepted
  /\ \A order \in accepted : PositionalExpected(order, theirs, rows)
                               <= PositionalExpected(optimal.order, theirs, rows)
  /\ optimal.expected = PositionalExpected(optimal.order, theirs, rows)
  /\ mine \in accepted /\ optimal.expected = PositionalExpected(mine, theirs, rows)
       => optimal.order = mine

\* It is found when all orders were tried.
LEMMA OptimalIs ==
  ASSUME NEW rows, NEW mine, NEW theirs, Rated(rows, mine), Rated(rows, theirs),
         NEW accepted, accepted \subseteq {Arranged(mine, p) : p \in Orders(Len(mine))},
         NEW optimal, optimal = OptimalOrder(mine, theirs, rows, accepted)
  PROVE  IsOptimal(rows, mine, theirs, accepted, optimal)
<1> DEFINE n == Len(mine)
           Score(order) == PositionalExpected(order, theirs, rows)
           perms == InOrder(Orders(n), Earlier)
           N == Len(perms)
           id == [i \in 1 .. n |-> i]
           Tried(k) == Arranged(mine, perms[k])
           given == [order |-> mine, expected |-> -1]
           Body(k, f) == IF k = 0 THEN given
                         ELSE TryOrder(f[k - 1], Tried(k), Score(Tried(k)), accepted)
           best == CHOOSE f : f = [k \in 0 .. N |-> Body(k, f)]
           found == best[N]
<1>1. n \in Nat /\ DOMAIN mine = 1 .. n /\ mine = [i \in 1 .. n |-> mine[i]] BY DEF Rated
<1>2. optimal = IF found.expected < 0 THEN [order |-> mine, expected |-> Score(mine)] ELSE found
  BY DEF OptimalOrder
<1>3. /\ N \in Nat
      /\ \A k \in 1 .. N : perms[k] \in Orders(n)
      /\ \A p \in Orders(n) : \E k \in 1 .. N : perms[k] = p
      /\ 1 \in 1 .. N /\ perms[1] = id
  <2> HIDE DEF n
  <2> QED BY <1>1, InTurn
<1>4. \A k \in 1 .. N : Rated(rows, Tried(k)) BY <1>3, ArrangedRated
<1>5. \A k \in 1 .. N : Score(Tried(k)) \in Nat BY <1>4, ExpectedIs
<1>6. Tried(1) = mine
  <2>1. \A i \in 1 .. n : id[i] = i OBVIOUS
  <2>2. Tried(1) = [i \in 1 .. n |-> mine[id[i]]] BY <1>1, <1>3 DEF Arranged
  <2> HIDE DEF id, Tried, n
  <2> QED BY <1>1, <2>1, <2>2
<1> DEFINE tried == [k \in 1 .. N |-> Tried(k)]
           score == [k \in 1 .. N |-> Score(Tried(k))]
<1> HIDE DEF perms, N, Score, id
<1>7. \E f : f = [k \in 0 .. N |-> Body(k, f)]
  <2> DEFINE O == {mine} \cup {Tried(k) : k \in 1 .. N}
             V == [order : O, expected : Int]
             next == [k \in 1 .. N |-> [v \in V |-> TryOrder(v, Tried(k), Score(Tried(k)), accepted)]]
  <2>1. given \in V OBVIOUS
  <2>2. next \in [1 .. N -> [V -> V]]
    <3>1. ASSUME NEW k \in 1 .. N, NEW v \in V
          PROVE  TryOrder(v, Tried(k), Score(Tried(k)), accepted) \in V
      <4>1. Tried(k) \in O OBVIOUS
      <4>2. Score(Tried(k)) \in Int BY <1>5
      <4> HIDE DEF O, Tried
      <4>3. [order |-> Tried(k), expected |-> Score(Tried(k))] \in V BY <4>1, <4>2
      <4> HIDE DEF V
      <4> QED BY <4>3 DEF TryOrder
    <3> HIDE DEF V, Tried
    <3> QED BY <3>1
  <2> HIDE DEF V, Tried
  <2>3. \A k \in 1 .. N, v \in V : next[k][v] = TryOrder(v, Tried(k), Score(Tried(k)), accepted)
    OBVIOUS
  <2> HIDE DEF next, given
  <2>4. PICK g \in [0 .. N -> V] : \A k \in 0 .. N :
           g[k] = IF k = 0 THEN given ELSE next[k][g[k - 1]]
    <3>1. Scannable(N, V, given, next) BY <1>3, <2>1, <2>2, ScanExists
    <3> QED BY <3>1 DEF Scannable
  <2>5. ASSUME NEW k \in 0 .. N PROVE g[k] = Body(k, g)
    <3>1. CASE k = 0 BY <2>4, <3>1
    <3>2. CASE k # 0
      <4>1. k \in 1 .. N /\ k - 1 \in 0 .. N BY <1>3, <3>2
      <4>2. g[k - 1] \in V BY <4>1
      <4> QED BY <2>3, <2>4, <3>2, <4>1, <4>2
    <3> QED BY <3>1, <3>2
  <2>6. g = [k \in 0 .. N |-> Body(k, g)]
    <3> HIDE DEF Body
    <3> QED BY <2>5
  <2> QED BY <2>6
<1>8. best = [k \in 0 .. N |-> Body(k, best)] BY <1>7
<1> HIDE DEF best
<1>9. /\ best[0] = given
      /\ \A k \in 1 .. N : best[k] = TryOrder(best[k - 1], tried[k], score[k], accepted)
  <2>1. \A k \in 0 .. N : best[k] = Body(k, best)
    <3> HIDE DEF Body
    <3> QED BY <1>8
  <2>2. 0 \in 0 .. N /\ \A k \in 1 .. N : k \in 0 .. N /\ k # 0 BY <1>3
  <2>3. \A k \in 1 .. N : tried[k] = Tried(k) /\ score[k] = Score(Tried(k)) OBVIOUS
  <2> HIDE DEF given, tried, score, Tried
  <2> QED BY <2>1, <2>2, <2>3
<1>10. /\ \A k \in 1 .. N : tried[k] = Tried(k) /\ score[k] = Score(Tried(k))
       /\ \A k \in 1 .. N : score[k] \in Nat
  BY <1>5
<1>11. \A o \in accepted : \E k \in 1 .. N : o = tried[k] BY <1>3
<1>12. tried[1] = mine /\ score[1] = Score(mine) BY <1>3, <1>6
<1>13. \A k \in 1 .. N : \E p \in Orders(n) : tried[k] = Arranged(mine, p) BY <1>3
<1> HIDE DEF tried, score, Tried, n
<1>14. SoFar(tried, score, accepted, mine, found, N) BY <1>3, <1>9, <1>10, TriedAll
<1> HIDE DEF found
<1>15. CASE /\ found = given
            /\ \A i \in 1 .. N : tried[i] \notin accepted
  <2>1. optimal = [order |-> mine, expected |-> Score(mine)] BY <1>2, <1>15
  <2>2. accepted = {} BY <1>11, <1>15
  <2>3. \E p \in Orders(n) : mine = Arranged(mine, p) BY <1>3, <1>12, <1>13
  <2> QED BY <2>1, <2>2, <2>3 DEF IsOptimal, Score, n
<1>16. ASSUME NEW j \in 1 .. N,
              tried[j] \in accepted, found = [order |-> tried[j], expected |-> score[j]],
              \A i \in 1 .. N : tried[i] \in accepted => score[i] <= score[j],
              \A i \in 1 .. j - 1 : tried[i] \in accepted => score[i] < score[j]
       PROVE  /\ \E p \in Orders(n) : optimal.order = Arranged(mine, p)
              /\ optimal.order \in accepted
              /\ \A o \in accepted : Score(o) <= Score(optimal.order)
              /\ optimal.expected = Score(optimal.order)
              /\ mine \in accepted /\ optimal.expected = Score(mine) => optimal.order = mine
  <2>1. found.expected = score[j] /\ score[j] \in Nat BY <1>10, <1>16
  <2>2. optimal = [order |-> tried[j], expected |-> score[j]] BY <1>2, <1>16, <2>1
  <2>3. score[j] = Score(tried[j]) BY <1>10
  <2>4. ASSUME NEW o \in accepted PROVE Score(o) <= Score(tried[j])
    <3>1. PICK k \in 1 .. N : o = tried[k] BY <1>11
    <3>2. score[k] = Score(o) BY <1>10, <3>1
    <3> QED BY <1>16, <2>3, <3>1, <3>2
  <2>5. ASSUME mine \in accepted, score[j] = Score(mine) PROVE tried[j] = mine
    <3>1. CASE j = 1 BY <1>12, <3>1
    <3>2. CASE j # 1
      <4>1. 1 \in 1 .. j - 1 BY <3>2
      <4>2. score[1] < score[j] BY <1>12, <1>16, <2>5, <4>1
      <4> QED BY <1>12, <2>1, <2>5, <4>2
    <3> QED BY <3>1, <3>2
  <2> QED BY <1>13, <1>16, <2>2, <2>3, <2>4, <2>5
<1>17. CASE \E j \in 1 .. N :
         /\ tried[j] \in accepted /\ found = [order |-> tried[j], expected |-> score[j]]
         /\ \A i \in 1 .. N : tried[i] \in accepted => score[i] <= score[j]
         /\ \A i \in 1 .. j - 1 : tried[i] \in accepted => score[i] < score[j]
  BY <1>16, <1>17 DEF IsOptimal, Score, n
<1> QED BY <1>14, <1>15, <1>17 DEF SoFar

\* For any rosters, points, rules and odds of a duel: the order advised is one
\* of the starters', accepted if one is, and none that is accepted promises
\* more; a line-up as good as any stays; and no chance of the team exceeds certainty (getIntelligence).
THEOREM BestAdvised == ComputationsSpec => []AdviceIsBest
<1>1. AnsweredInv => AdviceIsBest
  <2> SUFFICES ASSUME AnsweredInv, question.service = "advice", reply # <<>>
               PROVE  AdviceIsBest
    BY DEF AdviceIsBest, Is
  <2> DEFINE q == question
             mine == Starters(q.slots, q.roster)
             theirs == Opponents(q.opposing, q.team.size)
             accepted == Accepted(q.rule, mine)
             optimal == OptimalOrder(mine, theirs, q.rows, accepted)
             Expected(order) == PositionalExpected(order, theirs, q.rows)
  <2>1. q \in AdviceInputs /\ Given = AdviceOf(q) BY AnswerOf DEF Given
  <2>2. /\ Given.optimalOrder = optimal.order
        /\ Given.probabilityDelta = optimal.expected - Expected(mine)
        /\ Given.winProbability
             = TeamWinProbability(Points(q.rows, mine), Points(q.rows, theirs))
    BY <2>1 DEF AdviceOf, GetIntelligence
  <2>3. /\ Readable(q.slots, q.roster, q.rows) /\ Readable(q.slots, q.opposing, q.rows)
        /\ q.team.size \in Nat
    BY <2>1, AdviceReadable
  <2>4. Rated(q.rows, mine) BY <2>3, StartersRated
  <2>5. Rated(q.rows, theirs) BY <2>3, OpponentsRated
  <2>6. accepted \subseteq {Arranged(mine, p) : p \in Orders(Len(mine))} BY DEF Accepted
  <2> HIDE DEF mine, theirs, accepted
  <2>7. /\ \E p \in Orders(Len(mine)) : optimal.order = Arranged(mine, p)
        /\ accepted # {} => optimal.order \in accepted
        /\ \A order \in accepted : Expected(order) <= Expected(optimal.order)
        /\ optimal.expected = Expected(optimal.order)
        /\ mine \in accepted /\ optimal.expected = Expected(mine) => optimal.order = mine
    <3>1. IsOptimal(q.rows, mine, theirs, accepted, optimal)
      <4>1. optimal = OptimalOrder(mine, theirs, q.rows, accepted) OBVIOUS
      <4> HIDE DEF optimal
      <4> QED BY <2>4, <2>5, <2>6, <4>1, OptimalIs
    <3> QED BY <3>1 DEF IsOptimal
  <2>8. ASSUME mine \in accepted
        PROVE  /\ Given.probabilityDelta >= 0
               /\ Given.probabilityDelta = 0 => Given.optimalOrder = mine
    <3>1. Expected(mine) <= Expected(optimal.order) BY <2>7, <2>8
    <3>2. Expected(mine) \in Int BY <2>4, <2>5, ExpectedIs
    <3>3. Expected(optimal.order) \in Int
      <4>1. PICK p \in Orders(Len(mine)) : optimal.order = Arranged(mine, p) BY <2>7
      <4>2. Rated(q.rows, Arranged(mine, p)) BY <2>4, ArrangedRated
      <4> QED BY <2>5, <4>1, <4>2, ExpectedIs
    <3> HIDE DEF Expected, optimal
    <3>4. Given.probabilityDelta >= 0 BY <2>2, <2>7, <3>1, <3>2, <3>3
    <3>5. Given.probabilityDelta = 0 => optimal.expected = Expected(mine)
      BY <2>2, <2>7, <3>2, <3>3
    <3> QED BY <2>2, <2>7, <2>8, <3>4, <3>5
  <2>9. ASSUME Given.winProbability # None
        PROVE  Given.winProbability \in 0 .. Certainty(Duels(mine, theirs))
    <3> DEFINE D == Duels(mine, theirs)
               ours == Points(q.rows, mine)
               others == Points(q.rows, theirs)
               probs == [d \in Duels(ours, others) |-> DuelProbability(ours[d[1]], others[d[2]])]
               required == Cardinality(DOMAIN probs) \div 2 + 1
    <3>1. Duels(ours, others) = D BY DEF Duels, Points
    <3>2. IsFiniteSet(D)
      <4>1. /\ Len(mine) \in Nat /\ Len(theirs) \in Nat
            /\ D = (1 .. Len(mine)) \X (1 .. Len(theirs))
        BY <2>4, <2>5 DEF Rated, Duels
      <4>2. IsFiniteSet(1 .. Len(mine)) /\ IsFiniteSet(1 .. Len(theirs)) BY <4>1, FirstNumbers
      <4> QED BY <4>1, <4>2, FS_Product
    <3>3. probs \in [D -> 0 .. Scale]
      <4>1. ASSUME NEW d \in D PROVE DuelProbability(ours[d[1]], others[d[2]]) \in 0 .. Scale
        <5>1. d[1] \in DOMAIN mine /\ d[2] \in DOMAIN theirs BY DEF Duels
        <5>2. ours[d[1]] \in Strengths /\ others[d[2]] \in Strengths
          BY <2>4, <2>5, <5>1 DEF Rated, Points
        <5> QED BY <5>2, StrengthsAre DEF DuelProbability
      <4>2. probs = [d \in D |-> DuelProbability(ours[d[1]], others[d[2]])] BY <3>1
      <4> HIDE DEF D, ours, others, probs
      <4> QED BY <4>1, <4>2
    <3>4. Given.winProbability = ProbabilityAtLeast(probs, required)
      BY <2>2, <2>9 DEF TeamWinProbability
    <3>5. required \in Nat
      <4>1. DOMAIN probs = D BY <3>1
      <4>2. Cardinality(D) \in Nat BY <3>2, FS_CardinalityType
      <4> HIDE DEF probs, D
      <4> QED BY <4>1, <4>2
    <3> HIDE DEF probs, required, D
    <3>6. ProbabilityAtLeast(probs, required) \in 0 .. Certainty(D)
      BY <3>2, <3>3, <3>5, NoMoreThanCertain
    <3> QED BY <3>4, <3>6 DEF D
  <2> HIDE DEF optimal, Expected
  <2>10. /\ \E p \in Orders(Len(mine)) : Given.optimalOrder = Arranged(mine, p)
         /\ accepted # {} => Given.optimalOrder \in accepted
         /\ \A order \in accepted : Expected(order) <= Expected(Given.optimalOrder)
         /\ mine \in accepted =>
               /\ Given.probabilityDelta >= 0
               /\ Given.probabilityDelta = 0 => Given.optimalOrder = mine
         /\ Given.winProbability # None =>
               Given.winProbability \in 0 .. Certainty(Duels(mine, theirs))
    BY <2>2, <2>7, <2>8, <2>9
  <2> QED BY <2>10 DEF AdviceIsBest, Expected, mine, theirs, accepted
<1> QED BY <1>1, Answered, PTL

-------------------------------------------------------------------------------
(* The ranking of a division's players.                                    *)

\* Finitely many finite sets together are one.
LEMMA UnionFinite ==
  ASSUME NEW S, IsFiniteSet(S), NEW part, \A x \in S : IsFiniteSet(part[x])
  PROVE  IsFiniteSet(UNION {part[x] : x \in S})
<1>1. IsFiniteSet({part[x] : x \in S}) BY ImageFinite
<1>2. \A T \in {part[x] : x \in S} : IsFiniteSet(T) OBVIOUS
<1> QED BY <1>1, <1>2, FS_UNION

\* The sizes of the parts of a finite set are its size.
LEMMA SumOfParts ==
  ASSUME NEW R, IsFiniteSet(R), NEW S, IsFiniteSet(S), NEW part \in [R -> SUBSET S],
         \A r, t \in R : \A x \in S : x \in part[r] /\ x \in part[t] => r = t,
         \A x \in S : \E r \in R : x \in part[r],
         NEW n, \A r \in R : n[r] = Cardinality(part[r])
  PROVE  SumFunctionOnSet(n, R) = Cardinality(S)
<1> DEFINE Of(T) == UNION {part[r] : r \in T}
           A == {T \in SUBSET R : SumFunctionOnSet(n, T) = Cardinality(Of(T))}
<1>1. {} \in A
  <2>1. Of({}) = {} OBVIOUS
  <2> QED BY <2>1, SumEmpty, FS_EmptySet
<1>2. \A r \in R : IsFiniteSet(part[r]) /\ n[r] \in Nat
  <2>1. \A r \in R : IsFiniteSet(part[r]) BY FS_Subset
  <2>2. \A r \in R : Cardinality(part[r]) \in Nat BY <2>1, FS_CardinalityType
  <2> QED BY <2>1, <2>2
<1>3. ASSUME NEW T \in SUBSET R, NEW r \in R \ T, T \in A PROVE T \cup {r} \in A
  <2>1. IsFiniteSet(T) /\ \A t \in T \cup {r} : n[t] \in Int BY <1>2, FS_Subset
  <2>2. SumFunctionOnSet(n, T \cup {r}) = n[r] + SumFunctionOnSet(n, T) BY <2>1, SumAdd
  <2>3. Of(T \cup {r}) = Of(T) \cup part[r] OBVIOUS
  <2>4. Of(T) \in SUBSET S OBVIOUS
  <2>5. Of(T) \cap part[r] = {} OBVIOUS
  <2>6. SumFunctionOnSet(n, T) = Cardinality(Of(T)) BY <1>3
  <2> HIDE DEF Of
  <2>7. IsFiniteSet(Of(T)) BY <2>4, FS_Subset
  <2>8. Cardinality(Of(T) \cup part[r])
          = Cardinality(Of(T)) + Cardinality(part[r]) - Cardinality(Of(T) \cap part[r])
    BY <1>2, <2>7, FS_Union
  <2>9. Cardinality(Of(T) \cap part[r]) = 0 BY <2>5, FS_EmptySet
  <2>10. Cardinality(Of(T)) \in Nat BY <2>7, FS_CardinalityType
  <2>11. n[r] \in Nat /\ n[r] = Cardinality(part[r]) BY <1>2
  <2>12. SumFunctionOnSet(n, T \cup {r}) = Cardinality(Of(T) \cup part[r])
    BY <2>2, <2>6, <2>8, <2>9, <2>10, <2>11
  <2> QED BY <2>3, <2>12
<1>4. Of(R) = S OBVIOUS
<1> HIDE DEF A, Of
<1>5. R \in A BY <1>1, <1>3, FiniteInduction
<1> QED BY <1>4, <1>5 DEF A

\* A set whose elements one by one are those of another has as many.
LEMMA AsMany ==
  ASSUME NEW S, NEW R, IsFiniteSet(R), NEW b \in [S -> R],
         \A x, y \in S : b[x] = b[y] => x = y, \A z \in R : \E x \in S : b[x] = z
  PROVE  IsFiniteSet(S) /\ Cardinality(S) = Cardinality(R)
<1>1. b \in Injection(S, R) BY DEF Injection, IsInjective
<1>2. b \in Surjection(S, R) BY DEF Surjection
<1> QED BY <1>1, <1>2, FS_Injection

\* A share of some is a percentage.
LEMMA PercentIs ==
  ASSUME NEW n \in Nat, NEW total \in Nat, 0 < total, n <= total
  PROVE  Percent(n, total) \in 0 .. 100
<1> DEFINE a == 200 * n + total
           b == 2 * total
           q == a \div b
<1>1. a \in Nat /\ b \in Nat /\ 0 < b OBVIOUS
<1>2. q \in Int /\ b * q <= a /\ a < b * (q + 1)
  <2> HIDE DEF a, b
  <2> QED BY <1>1
<1>3. 0 <= a /\ 2 * a < 202 * b OBVIOUS
<1>4. q >= 0
  <2>1. ASSUME q + 1 <= 0 PROVE FALSE
    <3> HIDE DEF a, b, q
    <3>1. b * (q + 1) <= 0 BY <1>1, <1>2, <2>1
    <3> QED BY <1>1, <1>2, <1>3, <3>1
  <2> HIDE DEF q, a, b
  <2> QED BY <1>2, <2>1
<1>5. q <= 100
  <2>1. ASSUME q >= 101 PROVE FALSE
    <3>1. a < 101 * b OBVIOUS
    <3> HIDE DEF a, b, q
    <3>2. b * q >= b * 101 BY <1>1, <1>2, <2>1
    <3> QED BY <1>1, <1>2, <3>1, <3>2
  <2> HIDE DEF q, a, b
  <2> QED BY <1>2, <2>1
<1>6. Percent(n, total) = q BY DEF Percent
<1> HIDE DEF q, a, b
<1> QED BY <1>2, <1>4, <1>5, <1>6

\* What is assumed of the matches of a division.
Recorded(matches) ==
  /\ DOMAIN matches = 1 .. Len(matches) /\ Len(matches) \in Nat
  /\ \A i \in DOMAIN matches :
      /\ \A s \in Sides : /\ DOMAIN matches[i].players[s] = 1 .. Len(matches[i].players[s])
                          /\ Len(matches[i].players[s]) \in Nat
      /\ \A s, t \in Sides :
           \A j \in DOMAIN matches[i].players[s], k \in DOMAIN matches[i].players[t] :
             matches[i].players[s][j] = matches[i].players[t][k] => s = t /\ j = k
      /\ DOMAIN matches[i].results = 1 .. Len(matches[i].results)
      /\ Len(matches[i].results) \in Nat
      /\ \A r \in Range(matches[i].results) :
          /\ \A s \in Sides : /\ r.players[s] \subseteq Range(matches[i].players[s])
                              /\ r.sets[s] \in Int
          /\ Cardinality(r.players["home"]) = Cardinality(r.players["away"])
          /\ (\A s \in Sides : ~r.forfeited[s]) => r.sets["home"] # r.sets["away"]

\* The matches that are asked about are recorded ones.
LEMMA AllRecorded ==
  ASSUME NEW q \in RankerInputs
  PROVE  Recorded(q.matches) /\ q.system \in {"MOST_PLAYED", "BEST_PERF_PER_PCT", "BEST_PERF_PER_WIN"}
<1>1. DOMAIN q.matches = 1 .. Len(q.matches) /\ Len(q.matches) \in Nat BY RankerAssumption
<1>2. ASSUME NEW i \in DOMAIN q.matches PROVE q.matches[i] \in Range(q.matches) BY DEF Range
<1>3. q.system \in {"MOST_PLAYED", "BEST_PERF_PER_PCT", "BEST_PERF_PER_WIN"} BY RankerAssumption
<1>4. ASSUME NEW i \in DOMAIN q.matches
      PROVE  LET m == q.matches[i] IN
             /\ \A s \in Sides : DOMAIN m.players[s] = 1 .. Len(m.players[s])
                                 /\ Len(m.players[s]) \in Nat
             /\ \A s, t \in Sides : \A j \in DOMAIN m.players[s], k \in DOMAIN m.players[t] :
                  m.players[s][j] = m.players[t][k] => s = t /\ j = k
             /\ DOMAIN m.results = 1 .. Len(m.results) /\ Len(m.results) \in Nat
             /\ \A r \in Range(m.results) :
                 /\ \A s \in Sides : r.players[s] \subseteq Range(m.players[s])
                                     /\ r.sets[s] \in Int /\ r.forfeited[s] \in BOOLEAN
                 /\ Cardinality(r.players["home"]) = Cardinality(r.players["away"])
                 /\ (\A s \in Sides : ~r.forfeited[s]) => r.sets["home"] # r.sets["away"]
  BY <1>2, RankerAssumption, Zenon
<1> QED BY <1>1, <1>3, <1>4 DEF Recorded

\* A place of the lists, by what ReadBefore orders it by.
IsPlace(x) ==
  /\ x.match \in Int /\ x.side \in Sides /\ x.at \in Int
  /\ x = [match |-> x.match, side |-> x.side, at |-> x.at]

\* The places are read in one order.
LEMMA ReadInOrder ==
  /\ \A x : IsPlace(x) => ~ ReadBefore(x, x)
  /\ \A x, y : IsPlace(x) /\ IsPlace(y) => x = y \/ ReadBefore(x, y) \/ ReadBefore(y, x)
  /\ \A x, y, z : /\ IsPlace(x) /\ IsPlace(y) /\ IsPlace(z)
                  /\ ReadBefore(x, y) /\ ReadBefore(y, z)
                  => ReadBefore(x, z)
<1>1. \A x : IsPlace(x) => ~ ReadBefore(x, x) BY DEF IsPlace, ReadBefore
<1>2. ASSUME NEW x, NEW y, IsPlace(x), IsPlace(y), ~ ReadBefore(x, y), ~ ReadBefore(y, x)
      PROVE  x = y
  <2>1. x.match = y.match BY <1>2 DEF IsPlace, ReadBefore
  <2>2. x.side = y.side BY <1>2, <2>1 DEF IsPlace, ReadBefore, Sides
  <2>3. x.at = y.at BY <1>2, <2>1, <2>2 DEF IsPlace, ReadBefore
  <2> QED BY <1>2, <2>1, <2>2, <2>3, Zenon DEF IsPlace
<1>3. ASSUME NEW x, NEW y, NEW z, IsPlace(x), IsPlace(y), IsPlace(z),
             ReadBefore(x, y), ReadBefore(y, z)
      PROVE  ReadBefore(x, z)
  <2>1. /\ x.match \in Int /\ y.match \in Int /\ z.match \in Int
        /\ x.at \in Int /\ y.at \in Int /\ z.at \in Int
    BY <1>3 DEF IsPlace
  <2> QED BY <1>3, <2>1 DEF ReadBefore
<1> QED BY <1>1, <1>2, <1>3

\* Of some places there is one that is read first.
LEMMA FirstRead ==
  ASSUME NEW S, IsFiniteSet(S), S # {}, \A x \in S : IsPlace(x)
  PROVE  \E x \in S : \A y \in S \ {x} : ReadBefore(x, y)
<1> DEFINE below == [x \in S |-> {y \in S : ReadBefore(y, x)}]
<1>1. below \in [S -> SUBSET S] OBVIOUS
<1>2. /\ \A x \in S : x \notin below[x]
      /\ \A x, y \in S : x = y \/ x \in below[y] \/ y \in below[x]
      /\ \A x, y \in S : x \in below[y] => below[x] \subseteq below[y]
  BY ReadInOrder
<1>3. \A x, y \in S : x \in below[y] => ReadBefore(x, y) OBVIOUS
<1> HIDE DEF below
<1>4. /\ Cardinality(S) \in Nat
      /\ \A n \in 1 .. Cardinality(S) : \E x \in S : Cardinality(below[x]) = n - 1
  BY <1>1, <1>2, PlacesFilled
<1>5. Cardinality(S) # 0 BY FS_EmptySet
<1>6. 1 \in 1 .. Cardinality(S) /\ 1 - 1 = 0 BY <1>4, <1>5
<1>7. PICK x \in S : Cardinality(below[x]) = 0 BY <1>4, <1>6
<1>8. below[x] = {}
  <2>1. IsFiniteSet(below[x]) BY <1>1, FS_Subset
  <2> QED BY <1>7, <2>1, FS_EmptySet
<1> QED BY <1>2, <1>3, <1>8

\* The places of the lists of finitely many matches.
LEMMA ListedAre ==
  ASSUME NEW matches, Recorded(matches), NEW keepClub
  PROVE  /\ IsFiniteSet(Listed(matches, keepClub))
         /\ \A x \in Listed(matches, keepClub) :
              /\ IsPlace(x) /\ x.match \in DOMAIN matches
              /\ x.at \in DOMAIN matches[x.match].players[x.side]
              /\ matches[x.match].detailsCreated
         /\ keepClub = None =>
              \A i \in DOMAIN matches : matches[i].detailsCreated =>
                \A s \in Sides : \A j \in DOMAIN matches[i].players[s] :
                  [match |-> i, side |-> s, at |-> j] \in Listed(matches, keepClub)
<1> DEFINE Of(i, s) == [match : {i}, side : {s}, at : DOMAIN matches[i].players[s]]
           ofSide == [h \in (DOMAIN matches) \X Sides |-> Of(h[1], h[2])]
           all == UNION {ofSide[h] : h \in (DOMAIN matches) \X Sides}
<1>1. all = UNION {Of(i, s) : i \in DOMAIN matches, s \in Sides}
  <2>1. \A i \in DOMAIN matches, s \in Sides : ofSide[<<i, s>>] = Of(i, s) OBVIOUS
  <2>2. \A h \in (DOMAIN matches) \X Sides : ofSide[h] = Of(h[1], h[2]) OBVIOUS
  <2>3. \A y : y \in all <=> \E h \in (DOMAIN matches) \X Sides : y \in ofSide[h] OBVIOUS
  <2>4. \A y : y \in UNION {Of(i, s) : i \in DOMAIN matches, s \in Sides}
                 <=> \E i \in DOMAIN matches, s \in Sides : y \in Of(i, s)
    <3> HIDE DEF Of
    <3> QED OBVIOUS
  <2>5. \A h \in (DOMAIN matches) \X Sides : h[1] \in DOMAIN matches /\ h[2] \in Sides OBVIOUS
  <2>6. \A i \in DOMAIN matches, s \in Sides : <<i, s>> \in (DOMAIN matches) \X Sides OBVIOUS
  <2> HIDE DEF Of, ofSide, all
  <2>7. ASSUME NEW y \in all PROVE y \in UNION {Of(i, s) : i \in DOMAIN matches, s \in Sides}
    BY <2>2, <2>3, <2>4, <2>5
  <2>8. ASSUME NEW y \in UNION {Of(i, s) : i \in DOMAIN matches, s \in Sides} PROVE y \in all
    <3>1. PICK i \in DOMAIN matches, s \in Sides : y \in Of(i, s) BY <2>4, <2>8
    <3>2. y \in ofSide[<<i, s>>] /\ <<i, s>> \in (DOMAIN matches) \X Sides BY <2>1, <2>6, <3>1
    <3> QED BY <2>3, <3>2
  <2> QED BY <2>7, <2>8
<1>2. IsFiniteSet(DOMAIN matches)
  <2>1. DOMAIN matches = 1 .. Len(matches) /\ Len(matches) \in Nat BY DEF Recorded
  <2> QED BY <2>1, FirstNumbers
<1>3. IsFiniteSet(Sides)
  <2>1. IsFiniteSet({"home"}) BY FS_Singleton
  <2>2. IsFiniteSet({"home"} \cup {"away"}) BY <2>1, FS_AddElement
  <2>3. Sides = {"home"} \cup {"away"} BY DEF Sides
  <2> QED BY <2>2, <2>3
<1>4. ASSUME NEW i \in DOMAIN matches, NEW s \in Sides PROVE IsFiniteSet(Of(i, s))
  <2> DEFINE places == DOMAIN matches[i].players[s]
             record == [j \in places |-> [match |-> i, side |-> s, at |-> j]]
  <2>1. places = 1 .. Len(matches[i].players[s]) /\ Len(matches[i].players[s]) \in Nat
    BY DEF Recorded
  <2>2. IsFiniteSet(places)
    <3>1. IsFiniteSet(1 .. Len(matches[i].players[s])) BY <2>1, FirstNumbers
    <3> QED BY <2>1, <3>1, Zenon
  <2>3. Of(i, s) = {record[j] : j \in places}
    <3>1. \A y \in Of(i, s) : y.at \in places /\ y = [match |-> i, side |-> s, at |-> y.at]
      OBVIOUS
    <3>2. \A j \in places : record[j] \in Of(i, s) OBVIOUS
    <3>3. \A y \in Of(i, s) : y.at \in places /\ y = record[y.at] BY <3>1
    <3> HIDE DEF Of, record, places
    <3> QED BY <3>2, <3>3
  <2> HIDE DEF record, places, Of
  <2> QED BY <2>2, <2>3, ImageFinite
<1>5. IsFiniteSet(all)
  <2>1. IsFiniteSet((DOMAIN matches) \X Sides) BY <1>2, <1>3, FS_Product
  <2>2. \A h \in (DOMAIN matches) \X Sides : ofSide[h] = Of(h[1], h[2]) OBVIOUS
  <2>3. \A h \in (DOMAIN matches) \X Sides : IsFiniteSet(ofSide[h]) BY <1>4, <2>2
  <2> HIDE DEF ofSide
  <2> QED BY <2>1, <2>3, UnionFinite
<1>6. Listed(matches, keepClub) =
        {x \in all : /\ matches[x.match].detailsCreated
                     /\ keepClub \in {None, matches[x.match].club[x.side]}}
  BY <1>1 DEF Listed
<1>7. ASSUME NEW x \in all
      PROVE  /\ IsPlace(x) /\ x.match \in DOMAIN matches
             /\ x.at \in DOMAIN matches[x.match].players[x.side]
  <2>1. PICK i \in DOMAIN matches, s \in Sides : x \in Of(i, s) BY <1>1
  <2>2. /\ x = [match |-> x.match, side |-> x.side, at |-> x.at]
        /\ x.match = i /\ x.side = s /\ x.at \in DOMAIN matches[i].players[s]
    BY <2>1
  <2>3. DOMAIN matches = 1 .. Len(matches)
        /\ DOMAIN matches[i].players[s] = 1 .. Len(matches[i].players[s])
    BY DEF Recorded
  <2>4. i \in Int /\ x.at \in Int BY <2>2, <2>3
  <2> QED BY <2>2, <2>4 DEF IsPlace
<1>8. ASSUME NEW i \in DOMAIN matches, NEW s \in Sides, NEW j \in DOMAIN matches[i].players[s]
      PROVE  [match |-> i, side |-> s, at |-> j] \in all
  <2>1. [match |-> i, side |-> s, at |-> j] \in Of(i, s) OBVIOUS
  <2> HIDE DEF Of
  <2> QED BY <1>1, <2>1
<1>9. ASSUME keepClub = None, NEW i \in DOMAIN matches, matches[i].detailsCreated, NEW s \in Sides,
             NEW j \in DOMAIN matches[i].players[s]
      PROVE  [match |-> i, side |-> s, at |-> j] \in Listed(matches, keepClub)
  <2> DEFINE x == [match |-> i, side |-> s, at |-> j]
  <2>1. x.match = i /\ x \in all BY <1>8
  <2> HIDE DEF x, all
  <2> QED BY <1>6, <1>9, <2>1 DEF x
<1> HIDE DEF all
<1>10. IsFiniteSet(Listed(matches, keepClub)) BY <1>5, <1>6, FS_Subset
<1> QED BY <1>6, <1>7, <1>9, <1>10

\* The duels of those at the places: each with the place it is counted for.
PlayedAt(matches, x) == Played(matches[x.match], PlayerAt(matches, x))
WonAt(matches, x) == Won(matches[x.match], PlayerAt(matches, x))
AllPlayed(matches, listed) == UNION {{x} \X PlayedAt(matches, x) : x \in listed}
AllWon(matches, listed) == UNION {{x} \X WonAt(matches, x) : x \in listed}
OfPlayer(matches, all, player) == {w \in all : PlayerAt(matches, w[1]) = player}

\* Finitely many duels were played and won.
LEMMA AllFinite ==
  ASSUME NEW matches, Recorded(matches), NEW keepClub, NEW listed, listed = Listed(matches, keepClub)
  PROVE  /\ IsFiniteSet(AllPlayed(matches, listed)) /\ IsFiniteSet(AllWon(matches, listed))
         /\ AllWon(matches, listed) \subseteq AllPlayed(matches, listed)
         /\ \A w \in AllPlayed(matches, listed) :
              /\ w = <<w[1], w[2]>> /\ w[1] \in listed /\ w[2] \in PlayedAt(matches, w[1])
              /\ w \in AllWon(matches, listed) <=> w[2] \in WonAt(matches, w[1])
<1>1. /\ IsFiniteSet(listed)
      /\ \A x \in listed : x.match \in DOMAIN matches
  BY ListedAre
<1> DEFINE part == [x \in listed |-> {x} \X PlayedAt(matches, x)]
<1>2. ASSUME NEW x \in listed PROVE IsFiniteSet(part[x])
  <2> DEFINE results == matches[x.match].results
  <2>1. DOMAIN results = 1 .. Len(results) /\ Len(results) \in Nat BY <1>1 DEF Recorded
  <2>2. IsFiniteSet(DOMAIN results) BY <2>1, FirstNumbers
  <2>3. PlayedAt(matches, x) \subseteq DOMAIN results BY DEF PlayedAt, Played
  <2> HIDE DEF results
  <2>4. IsFiniteSet(PlayedAt(matches, x)) BY <2>2, <2>3, FS_Subset
  <2>5. IsFiniteSet({x}) BY FS_Singleton
  <2>6. IsFiniteSet({x} \X PlayedAt(matches, x)) BY <2>4, <2>5, FS_Product
  <2> QED BY <2>6
<1>3. AllPlayed(matches, listed) = UNION {part[x] : x \in listed} BY DEF AllPlayed
<1>4. IsFiniteSet(AllPlayed(matches, listed))
  <2> HIDE DEF part
  <2> QED BY <1>1, <1>2, <1>3, UnionFinite
<1>5. \A x : WonAt(matches, x) \subseteq PlayedAt(matches, x) BY DEF WonAt, PlayedAt, Won
<1>6. AllWon(matches, listed) \subseteq AllPlayed(matches, listed) BY <1>5 DEF AllWon, AllPlayed
<1>7. IsFiniteSet(AllWon(matches, listed)) BY <1>4, <1>6, FS_Subset
<1>8. ASSUME NEW w \in AllPlayed(matches, listed)
      PROVE  /\ w = <<w[1], w[2]>> /\ w[1] \in listed /\ w[2] \in PlayedAt(matches, w[1])
             /\ w \in AllWon(matches, listed) <=> w[2] \in WonAt(matches, w[1])
  <2>1. PICK x \in listed : w \in {x} \X PlayedAt(matches, x) BY DEF AllPlayed
  <2>2. w = <<w[1], w[2]>> /\ w[1] = x /\ w[2] \in PlayedAt(matches, w[1]) BY <2>1
  <2>3. w \in AllWon(matches, listed) <=> \E y \in listed : w \in {y} \X WonAt(matches, y)
    BY DEF AllWon
  <2> QED BY <2>2, <2>3
<1> QED BY <1>4, <1>6, <1>7, <1>8

\* What is counted for a player is what those at the player's places have.
LEMMA MemberIs ==
  ASSUME NEW matches, Recorded(matches), NEW keepClub, NEW listed, listed = Listed(matches, keepClub),
         NEW player \in {PlayerAt(matches, x) : x \in listed},
         NEW r, r = ProcessMatchPlayers(matches, listed, player)
  PROVE  /\ r.player = player /\ r.first \in listed /\ PlayerAt(matches, r.first) = player
         /\ r.played = Cardinality(OfPlayer(matches, AllPlayed(matches, listed), player))
         /\ r.win = Cardinality(OfPlayer(matches, AllWon(matches, listed), player))
         /\ r.lose = r.played - r.win
         /\ r.played \in Nat /\ r.win \in Nat /\ r.win <= r.played
<1> DEFINE mine == {x \in listed : PlayerAt(matches, x) = player}
           first == CHOOSE x \in mine : \A y \in mine \ {x} : ReadBefore(x, y)
           played == UNION {{x} \X Played(matches[x.match], player) : x \in mine}
           won == UNION {{x} \X Won(matches[x.match], player) : x \in mine}
<1>1. /\ r.player = player /\ r.first = first
      /\ r.played = Cardinality(played) /\ r.win = Cardinality(won)
      /\ r.lose = Cardinality(played) - Cardinality(won)
  BY DEF ProcessMatchPlayers
<1>2. first \in mine
  <2>1. IsFiniteSet(mine) /\ mine # {} /\ \A x \in mine : IsPlace(x)
    <3>1. IsFiniteSet(listed) /\ \A x \in listed : IsPlace(x) BY ListedAre
    <3>2. mine \in SUBSET listed /\ mine # {} OBVIOUS
    <3> HIDE DEF mine
    <3> QED BY <3>1, <3>2, FS_Subset
  <2> HIDE DEF mine
  <2>2. \E x \in mine : \A y \in mine \ {x} : ReadBefore(x, y) BY <2>1, FirstRead
  <2> QED BY <2>2
<1>3. played = OfPlayer(matches, AllPlayed(matches, listed), player)
  BY DEF AllPlayed, PlayedAt, OfPlayer
<1>4. won = OfPlayer(matches, AllWon(matches, listed), player)
  BY DEF AllWon, WonAt, OfPlayer
<1>5. IsFiniteSet(AllPlayed(matches, listed)) /\ AllWon(matches, listed) \subseteq AllPlayed(matches, listed)
  BY AllFinite
<1>6. played \in SUBSET AllPlayed(matches, listed) /\ won \in SUBSET played
  BY <1>3, <1>4, <1>5 DEF OfPlayer
<1>7. first \in listed /\ PlayerAt(matches, first) = player BY <1>2
<1> HIDE DEF played, won, first
<1>8. IsFiniteSet(played) BY <1>5, <1>6, FS_Subset
<1>9. Cardinality(played) \in Nat /\ IsFiniteSet(won) /\ Cardinality(won) <= Cardinality(played)
  BY <1>6, <1>8, FS_Subset, FS_CardinalityType
<1>10. Cardinality(won) \in Nat BY <1>9, FS_CardinalityType
<1> QED BY <1>1, <1>3, <1>4, <1>7, <1>9, <1>10

\* The ranking is of the players who played, each once, with what is counted for
\* them, by what the system sorts by.
Ranks(matches, listed, system, ranking) ==
  /\ \E n \in Nat : DOMAIN ranking = 1 .. n
  /\ \A i \in DOMAIN ranking :
       /\ ranking[i].played
            = Cardinality(OfPlayer(matches, AllPlayed(matches, listed), ranking[i].player))
       /\ ranking[i].win
            = Cardinality(OfPlayer(matches, AllWon(matches, listed), ranking[i].player))
       /\ ranking[i].lose = ranking[i].played - ranking[i].win
       /\ ranking[i].played \in Nat /\ ranking[i].winPourcentage \in 0 .. 100
  /\ \A i, j \in DOMAIN ranking : ranking[i].player = ranking[j].player => i = j
  /\ \A w \in AllPlayed(matches, listed) :
       \E i \in DOMAIN ranking : ranking[i].player = PlayerAt(matches, w[1])
  /\ \A i, j \in DOMAIN ranking :
       i < j => SortFunction(system, ranking[i]) >= SortFunction(system, ranking[j])

\* ComputeRanking ranks the players listed.
LEMMA RankingRanks ==
  ASSUME NEW matches, Recorded(matches), NEW keepClub, NEW listed, listed = Listed(matches, keepClub),
         NEW system \in {"MOST_PLAYED", "BEST_PERF_PER_PCT", "BEST_PERF_PER_WIN"}
  PROVE  Ranks(matches, listed, system, ComputeRanking(matches, system, keepClub))
<1> DEFINE players == {PlayerAt(matches, x) : x \in listed}
           member == [p \in players |-> ProcessMatchPlayers(matches, listed, p)]
           WithPct(p) == [player |-> p.player, club |-> p.club, first |-> p.first,
                          played |-> p.played, win |-> p.win, lose |-> p.lose,
                          winPourcentage |-> Percent(p.win, p.played),
                          losePourcentage |-> Percent(p.lose, p.played)]
           members == {ProcessMatchPlayers(matches, listed, p) : p \in players}
           shown == {WithPct(p) : p \in {m \in members : m.played > 0}}
           Sooner(a, b) ==
             \/ SortFunction(system, a) > SortFunction(system, b)
             \/ SortFunction(system, a) = SortFunction(system, b) /\ ReadBefore(a.first, b.first)
           below == [a \in shown |-> {b \in shown : Sooner(b, a)}]
           ranking == ComputeRanking(matches, system, keepClub)
           N == Cardinality(shown)
<1>1. ranking = InOrder(shown, Sooner) BY DEF ComputeRanking, ComputePctAndSort
<1>2. /\ ranking = [n \in 1 .. N |->
                      CHOOSE x \in shown : Cardinality({y \in shown : Sooner(y, x)}) = n - 1]
      /\ \A x \in shown : below[x] = {y \in shown : Sooner(y, x)}
  BY <1>1 DEF InOrder
<1>3. /\ IsFiniteSet(listed) /\ \A x \in listed : IsPlace(x) BY ListedAre
<1>4. ASSUME NEW p \in players
      PROVE  LET r == ProcessMatchPlayers(matches, listed, p) IN
             /\ r.player = p /\ r.first \in listed /\ PlayerAt(matches, r.first) = p
             /\ r.played = Cardinality(OfPlayer(matches, AllPlayed(matches, listed), p))
             /\ r.win = Cardinality(OfPlayer(matches, AllWon(matches, listed), p))
             /\ r.lose = r.played - r.win
             /\ r.played \in Nat /\ r.win \in Nat /\ r.win <= r.played
  BY MemberIs
<1>5. ASSUME NEW a \in shown
      PROVE  /\ a.player \in players /\ a.first \in listed
             /\ PlayerAt(matches, a.first) = a.player
             /\ a = WithPct(ProcessMatchPlayers(matches, listed, a.player))
             /\ a.played = Cardinality(OfPlayer(matches, AllPlayed(matches, listed), a.player))
             /\ a.win = Cardinality(OfPlayer(matches, AllWon(matches, listed), a.player))
             /\ a.lose = a.played - a.win
             /\ a.played \in Nat /\ a.win \in Nat /\ a.winPourcentage \in 0 .. 100
  <2>1. PICK p \in players : LET r == ProcessMatchPlayers(matches, listed, p)
                             IN  a = WithPct(r) /\ r.played > 0
    <3> HIDE DEF WithPct, players
    <3> QED OBVIOUS
  <2> DEFINE r == ProcessMatchPlayers(matches, listed, p)
  <2>2. /\ a.player = r.player /\ a.first = r.first /\ a.played = r.played /\ a.win = r.win
        /\ a.lose = r.lose /\ a.winPourcentage = Percent(r.win, r.played)
    BY <2>1
  <2>3. /\ r.player = p /\ r.first \in listed /\ PlayerAt(matches, r.first) = p
        /\ r.played = Cardinality(OfPlayer(matches, AllPlayed(matches, listed), p))
        /\ r.win = Cardinality(OfPlayer(matches, AllWon(matches, listed), p))
        /\ r.lose = r.played - r.win
        /\ r.played \in Nat /\ r.win \in Nat /\ r.win <= r.played /\ r.played > 0
    BY <1>4, <2>1
  <2>4. a = WithPct(r) BY <2>1
  <2> HIDE DEF r, WithPct, players, shown
  <2>5. Percent(r.win, r.played) \in 0 .. 100 BY <2>3, PercentIs
  <2>6. a.player = p /\ r = ProcessMatchPlayers(matches, listed, a.player) BY <2>2, <2>3 DEF r
  <2> QED BY <2>2, <2>3, <2>4, <2>5, <2>6
<1>6. ASSUME NEW a \in shown, NEW b \in shown, a.player = b.player PROVE a = b
  <2> HIDE DEF WithPct, shown
  <2> QED BY <1>5, <1>6
<1>7. ASSUME NEW p \in players, ProcessMatchPlayers(matches, listed, p).played > 0
      PROVE  \E a \in shown : a.player = p
  <2>1. WithPct(ProcessMatchPlayers(matches, listed, p)) \in shown BY <1>7
  <2>2. ProcessMatchPlayers(matches, listed, p).player = p BY <1>4
  <2>3. WithPct(ProcessMatchPlayers(matches, listed, p)).player = p BY <2>2
  <2> QED BY <2>1, <2>3
<1>8. IsFiniteSet(shown)
  <2>1. players = {PlayerAt(matches, x) : x \in listed} OBVIOUS
  <2> DEFINE who == [x \in listed |-> PlayerAt(matches, x)]
             rec == [p \in players |-> WithPct(ProcessMatchPlayers(matches, listed, p))]
  <2>2. players = {who[x] : x \in listed} OBVIOUS
  <2>3. shown \subseteq {rec[p] : p \in players}
    <3> HIDE DEF WithPct, players
    <3> QED OBVIOUS
  <2> HIDE DEF who, rec, players, shown
  <2>4. IsFiniteSet(players) BY <1>3, <2>2, ImageFinite
  <2>5. IsFiniteSet({rec[p] : p \in players}) BY <2>4, ImageFinite
  <2> QED BY <2>3, <2>5, FS_Subset
<1>9. below \in [shown -> SUBSET shown]
  <2> HIDE DEF shown, Sooner
  <2> QED OBVIOUS
<1>10. \A a, b \in shown : b \in below[a] <=> Sooner(b, a)
  <2> HIDE DEF shown, Sooner
  <2> QED OBVIOUS
<1> HIDE DEF below, shown, WithPct, players
<1>11. \A a \in shown : SortFunction(system, a) \in Int /\ IsPlace(a.first)
  BY <1>3, <1>5 DEF SortFunction
<1>12. /\ \A x \in shown : x \notin below[x]
       /\ \A x, y \in shown : x = y \/ x \in below[y] \/ y \in below[x]
       /\ \A x, y \in shown : x \in below[y] => below[x] \subseteq below[y]
  <2>1. \A x \in shown : x \notin below[x] BY <1>10, <1>11, ReadInOrder
  <2>2. ASSUME NEW x \in shown, NEW y \in shown PROVE x = y \/ x \in below[y] \/ y \in below[x]
    <3>1. x.first = y.first => x = y BY <1>5, <1>6
    <3>2. SortFunction(system, x) \in Int /\ SortFunction(system, y) \in Int BY <1>11
    <3>3. x.first = y.first \/ ReadBefore(x.first, y.first) \/ ReadBefore(y.first, x.first)
      BY <1>11, ReadInOrder
    <3>4. x.first = y.first \/ Sooner(x, y) \/ Sooner(y, x) BY <3>2, <3>3
    <3> HIDE DEF Sooner
    <3> QED BY <1>10, <3>1, <3>4
  <2>3. ASSUME NEW x \in shown, NEW y \in shown, x \in below[y], NEW z \in below[x]
        PROVE  z \in below[y]
    <3>1. z \in shown BY <1>9
    <3>2. Sooner(x, y) /\ Sooner(z, x) BY <1>10, <2>3, <3>1
    <3>3. /\ SortFunction(system, x) \in Int /\ SortFunction(system, y) \in Int
          /\ SortFunction(system, z) \in Int
      BY <1>11, <3>1
    <3>4. ReadBefore(z.first, x.first) /\ ReadBefore(x.first, y.first)
            => ReadBefore(z.first, y.first)
      BY <1>11, <3>1, ReadInOrder
    <3>5. Sooner(z, y) BY <3>2, <3>3, <3>4
    <3> HIDE DEF Sooner
    <3> QED BY <1>10, <3>1, <3>5
  <2> QED BY <2>1, <2>2, <2>3
<1>13. N \in Nat /\ InItsOrder(shown, below, ranking)
  <2>1. N \in Nat /\ \A n \in 1 .. N : \E x \in shown : Cardinality(below[x]) = n - 1
    BY <1>8, <1>9, <1>12, PlacesFilled
  <2>2. ASSUME NEW n \in 1 .. N PROVE ranking[n] \in shown /\ Cardinality(below[ranking[n]]) = n - 1
    <3>1. \E x \in shown : Cardinality({y \in shown : Sooner(y, x)}) = n - 1 BY <1>2, <2>1
    <3>2. ranking[n] = CHOOSE x \in shown : Cardinality({y \in shown : Sooner(y, x)}) = n - 1
      BY <1>2
    <3> HIDE DEF ranking, Sooner
    <3>3. ranking[n] \in shown /\ Cardinality({y \in shown : Sooner(y, ranking[n])}) = n - 1
      BY <3>1, <3>2
    <3> QED BY <1>2, <3>3
  <2>3. ranking = [n \in 1 .. N |-> ranking[n]] BY <1>2
  <2> HIDE DEF ranking
  <2> QED BY <2>1, <2>2, <2>3 DEF InItsOrder
<1> HIDE DEF ranking, N
<1>14. /\ ranking \in [1 .. N -> shown]
       /\ \A i, j \in 1 .. N : i < j <=> ranking[i] \in below[ranking[j]]
       /\ \A i, j \in 1 .. N : ranking[i] = ranking[j] => i = j
       /\ \A x \in shown : \E i \in 1 .. N : ranking[i] = x
  <2>1. ranking \in [1 .. N -> shown] BY <1>13 DEF InItsOrder, N
  <2>2. /\ \A i, j \in 1 .. N : i < j <=> ranking[i] \in below[ranking[j]]
        /\ \A i, j \in 1 .. N : ranking[i] = ranking[j] => i = j
        /\ \A x \in shown : \E i \in 1 .. N : ranking[i] = x
    BY <1>8, <1>9, <1>12, <1>13, OrderedIs DEF N
  <2> QED BY <2>1, <2>2
<1>15. DOMAIN ranking = 1 .. N BY <1>14
<1>16. ASSUME NEW w \in AllPlayed(matches, listed)
       PROVE  \E i \in DOMAIN ranking : ranking[i].player = PlayerAt(matches, w[1])
  <2> DEFINE p == PlayerAt(matches, w[1])
             mine == OfPlayer(matches, AllPlayed(matches, listed), p)
             r == ProcessMatchPlayers(matches, listed, p)
  <2>1. w[1] \in listed BY AllFinite
  <2>2. p \in players BY <2>1 DEF players
  <2>3. w \in mine BY DEF OfPlayer
  <2>4. r.played = Cardinality(mine) /\ r.played \in Nat BY <1>4, <2>2
  <2>5. IsFiniteSet(mine)
    <3>1. mine \in SUBSET AllPlayed(matches, listed) BY DEF OfPlayer
    <3>2. IsFiniteSet(AllPlayed(matches, listed)) BY AllFinite
    <3> QED BY <3>1, <3>2, FS_Subset
  <2> HIDE DEF mine, p
  <2>6. r.played # 0 BY <2>3, <2>4, <2>5, FS_EmptySet
  <2>7. \E a \in shown : a.player = p BY <1>7, <2>2, <2>4, <2>6
  <2> QED BY <1>14, <1>15, <2>7 DEF p
<1>17. \A i, j \in DOMAIN ranking : ranking[i].player = ranking[j].player => i = j
  BY <1>6, <1>14, <1>15
<1>18. ASSUME NEW i \in DOMAIN ranking, NEW j \in DOMAIN ranking, i < j
       PROVE  SortFunction(system, ranking[i]) >= SortFunction(system, ranking[j])
  <2>1. ranking[i] \in shown /\ ranking[j] \in shown BY <1>14
  <2>2. Sooner(ranking[i], ranking[j]) BY <1>10, <1>14, <1>15, <1>18, <2>1
  <2>3. SortFunction(system, ranking[i]) \in Int /\ SortFunction(system, ranking[j]) \in Int
    BY <1>11, <2>1
  <2> QED BY <2>2, <2>3
<1>19. \A i \in DOMAIN ranking : ranking[i] \in shown BY <1>14
<1> QED BY <1>5, <1>13, <1>15, <1>16, <1>17, <1>18, <1>19 DEF Ranks, ranking

\* The places of a match at which some of its players are, each with one duel.
AtDuel(matches, listed, i, k, some) ==
  {x \in listed : x.match = i /\ PlayerAt(matches, x) \in some} \X {k}

\* A player is listed once for a duel.
LEMMA OnePlaceEach ==
  ASSUME NEW matches, Recorded(matches), NEW listed, listed = Listed(matches, None),
         NEW i \in DOMAIN matches, matches[i].detailsCreated, NEW s \in Sides, NEW k,
         NEW some, some \subseteq Range(matches[i].players[s])
  PROVE  Cardinality(AtDuel(matches, listed, i, k, some)) = Cardinality(some)
<1> DEFINE list == matches[i].players[s]
           duels == AtDuel(matches, listed, i, k, some)
           who == [w \in duels |-> PlayerAt(matches, w[1])]
<1>1. IsFiniteSet(some)
  <2>1. DOMAIN list = 1 .. Len(list) /\ Len(list) \in Nat BY DEF Recorded
  <2> HIDE DEF list
  <2>2. IsFiniteSet(DOMAIN list)
    <3>1. IsFiniteSet(1 .. Len(list)) BY <2>1, FirstNumbers
    <3> QED BY <2>1, <3>1, Zenon
  <2>3. IsFiniteSet({list[j] : j \in DOMAIN list}) BY <2>2, ImageFinite
  <2>4. some \subseteq {list[j] : j \in DOMAIN list} BY DEF list, Range
  <2> QED BY <2>3, <2>4, FS_Subset
<1>2. \A w \in duels : /\ w = <<w[1], k>> /\ w[1] \in listed /\ w[1].match = i
                    /\ PlayerAt(matches, w[1]) \in some
  BY DEF AtDuel
<1>3. who \in [duels -> some] BY <1>2
<1>4. ASSUME NEW v \in duels, NEW w \in duels, who[v] = who[w] PROVE v = w
  <2> DEFINE x == v[1]
             y == w[1]
  <2>1. PlayerAt(matches, x) = PlayerAt(matches, y) /\ v = <<x, k>> /\ w = <<y, k>>
        /\ x.match = i /\ y.match = i /\ x \in listed /\ y \in listed
    BY <1>2, <1>4
  <2> HIDE DEF x, y, duels, who
  <2>2. /\ x.side \in Sides /\ y.side \in Sides
        /\ x.at \in DOMAIN matches[i].players[x.side] /\ y.at \in DOMAIN matches[i].players[y.side]
        /\ x = [match |-> x.match, side |-> x.side, at |-> x.at]
        /\ y = [match |-> y.match, side |-> y.side, at |-> y.at]
    BY <2>1, ListedAre DEF IsPlace
  <2>3. matches[i].players[x.side][x.at] = matches[i].players[y.side][y.at]
    BY <2>1 DEF PlayerAt
  <2>4. \A t, u \in Sides :
          \A j \in DOMAIN matches[i].players[t], n \in DOMAIN matches[i].players[u] :
            matches[i].players[t][j] = matches[i].players[u][n] => t = u /\ j = n
    BY DEF Recorded
  <2>5. x.side = y.side /\ x.at = y.at BY <2>2, <2>3, <2>4
  <2>6. x = y BY <2>1, <2>2, <2>5, Zenon
  <2> QED BY <2>1, <2>6
<1>5. ASSUME NEW p \in some PROVE \E w \in duels : who[w] = p
  <2>1. PICK j \in DOMAIN list : list[j] = p BY DEF Range
  <2> DEFINE x == [match |-> i, side |-> s, at |-> j]
  <2>2. x \in listed BY <2>1, ListedAre
  <2>3. x.match = i /\ PlayerAt(matches, x) = p BY <2>1 DEF PlayerAt
  <2> HIDE DEF x
  <2>4. <<x, k>> \in duels BY <2>2, <2>3 DEF AtDuel
  <2>5. who[<<x, k>>] = p BY <2>3, <2>4
  <2> QED BY <2>4, <2>5
<1> HIDE DEF who, duels
<1>6. Cardinality(duels) = Cardinality(some) BY <1>1, <1>3, <1>4, <1>5, AsMany
<1> QED BY <1>6 DEF duels

\* Every duel has as many who won it as who lost it.
LEMMA WonIsLost ==
  ASSUME NEW matches, Recorded(matches), NEW listed, listed = Listed(matches, None)
  PROVE  Cardinality(AllWon(matches, listed))
           = Cardinality(AllPlayed(matches, listed) \ AllWon(matches, listed))
<1> DEFINE all == AllPlayed(matches, listed)
           won == AllWon(matches, listed)
           lost == all \ won
           duels == {<<w[1].match, w[2]>> : w \in all}
           duelOf == [w \in all |-> <<w[1].match, w[2]>>]
           wonAt == [e \in duels |-> {w \in won : <<w[1].match, w[2]>> = e}]
           lostAt == [e \in duels |-> {w \in lost : <<w[1].match, w[2]>> = e}]
           n == [e \in duels |-> Cardinality(wonAt[e])]
<1>1. /\ IsFiniteSet(all) /\ won \subseteq all
      /\ \A w \in all : /\ w = <<w[1], w[2]>> /\ w[1] \in listed
                        /\ w[2] \in PlayedAt(matches, w[1])
                        /\ w \in won <=> w[2] \in WonAt(matches, w[1])
  BY AllFinite
<1>2. IsFiniteSet(won) /\ IsFiniteSet(lost) BY <1>1, FS_Subset, FS_Difference
<1>3. IsFiniteSet(duels)
  <2>1. duels = {duelOf[w] : w \in all} OBVIOUS
  <2> HIDE DEF duels, duelOf, all
  <2> QED BY <1>1, <2>1, ImageFinite
<1>4. ASSUME NEW e \in duels PROVE Cardinality(wonAt[e]) = Cardinality(lostAt[e])
  <2>1. PICK v \in all : e = <<v[1].match, v[2]>> OBVIOUS
  <2> DEFINE i == v[1].match
             k == v[2]
             m == matches[i]
             r == m.results[k]
  <2>2. /\ i \in DOMAIN matches /\ m.detailsCreated /\ k \in DOMAIN m.results
        /\ \A t \in Sides : ~ r.forfeited[t]
    <3>1. v[1] \in listed /\ k \in PlayedAt(matches, v[1]) BY <1>1
    <3>2. i \in DOMAIN matches /\ m.detailsCreated BY <3>1, ListedAre
    <3> QED BY <3>1, <3>2 DEF PlayedAt, Played
  <2>3. PICK a, b \in Sides : /\ a # b /\ Other(a) = b /\ Other(b) = a
                              /\ r.sets[a] > r.sets[b] /\ ~ r.sets[b] > r.sets[a]
    <3>1. Other("home") = "away" /\ Other("away") = "home" BY DEF Other, Sides
    <3>2. r \in Range(m.results) BY <2>2 DEF Range
    <3>3. /\ \A t \in Sides : r.sets[t] \in Int
          /\ r.sets["home"] # r.sets["away"]
      <4>1. \A q \in Range(m.results) :
              /\ \A t \in Sides : q.sets[t] \in Int
              /\ (\A t \in Sides : ~ q.forfeited[t]) => q.sets["home"] # q.sets["away"]
        BY <2>2 DEF Recorded
      <4> HIDE DEF r, m
      <4> QED BY <2>2, <3>2, <4>1
    <3>4. r.sets["home"] \in Int /\ r.sets["away"] \in Int BY <3>3 DEF Sides
    <3>5. "home" \in Sides /\ "away" \in Sides BY DEF Sides
    <3> HIDE DEF r
    <3>6. \/ r.sets["home"] > r.sets["away"] /\ ~ r.sets["away"] > r.sets["home"]
          \/ r.sets["away"] > r.sets["home"] /\ ~ r.sets["home"] > r.sets["away"]
      BY <3>3, <3>4
    <3> QED BY <3>1, <3>5, <3>6
  <2>4. /\ r.players[a] \subseteq Range(m.players[a]) /\ r.players[b] \subseteq Range(m.players[b])
        /\ Cardinality(r.players[a]) = Cardinality(r.players[b])
    <3>1. r \in Range(m.results) BY <2>2 DEF Range
    <3>2. /\ \A t \in Sides : r.players[t] \subseteq Range(m.players[t])
          /\ Cardinality(r.players["home"]) = Cardinality(r.players["away"])
      BY <2>2, <3>1 DEF Recorded
    <3> QED BY <2>3, <3>2 DEF Sides
  <2>5. \A p : ~ (p \in r.players[a] /\ p \in r.players[b])
    <3>1. ASSUME NEW p \in r.players[a], p \in r.players[b] PROVE FALSE
      <4>1. PICK j \in DOMAIN m.players[a] : m.players[a][j] = p BY <2>4 DEF Range
      <4>2. PICK h \in DOMAIN m.players[b] : m.players[b][h] = p BY <2>4, <3>1 DEF Range
      <4>3. \A s, t \in Sides : \A g \in DOMAIN m.players[s], l \in DOMAIN m.players[t] :
              m.players[s][g] = m.players[t][l] => s = t /\ g = l
        BY <2>2 DEF Recorded
      <4>4. m.players[a][j] = m.players[b][h] BY <4>1, <4>2
      <4> HIDE DEF m
      <4>5. a = b BY <4>1, <4>2, <4>3, <4>4
      <4> QED BY <2>3, <4>5
    <3> QED BY <3>1
  <2>6. \A t : t \in Sides <=> t = a \/ t = b BY <2>3 DEF Sides
  <2>7. ASSUME NEW x \in listed, x.match = i
        PROVE  /\ k \in PlayedAt(matches, x) <=>
                    PlayerAt(matches, x) \in r.players[a] \/ PlayerAt(matches, x) \in r.players[b]
               /\ k \in WonAt(matches, x) <=> PlayerAt(matches, x) \in r.players[a]
    <3> DEFINE p == PlayerAt(matches, x)
    <3>1. k \in PlayedAt(matches, x) <=> \E t \in Sides : p \in r.players[t]
      BY <2>2, <2>7 DEF PlayedAt, Played
    <3>2. k \in WonAt(matches, x) <=>
            /\ k \in PlayedAt(matches, x)
            /\ \E t \in Sides : p \in r.players[t] /\ r.sets[t] > r.sets[Other(t)]
      BY <2>7 DEF PlayedAt, WonAt, Won
    <3> HIDE DEF p, r, k
    <3>3. (\E t \in Sides : p \in r.players[t]) <=> p \in r.players[a] \/ p \in r.players[b]
      BY <2>6
    <3>4. (\E t \in Sides : p \in r.players[t] /\ r.sets[t] > r.sets[Other(t)])
            <=> p \in r.players[a]
      BY <2>3, <2>6
    <3>5. PlayerAt(matches, x) = p BY DEF p
    <3> QED BY <3>1, <3>2, <3>3, <3>4, <3>5
  <2>8. ASSUME NEW w
        PROVE  /\ w \in wonAt[e] <=> w \in AtDuel(matches, listed, i, k, r.players[a])
               /\ w \in lostAt[e] <=> w \in AtDuel(matches, listed, i, k, r.players[b])
    <3>1. wonAt[e] = {u \in won : <<u[1].match, u[2]>> = e}
          /\ lostAt[e] = {u \in lost : <<u[1].match, u[2]>> = e}
      OBVIOUS
    <3>2. \A t : w \in AtDuel(matches, listed, i, k, r.players[t]) <=>
            \E x \in listed : /\ w = <<x, k>> /\ x.match = i
                              /\ PlayerAt(matches, x) \in r.players[t]
      BY DEF AtDuel
    <3>3. w \in all <=> \E x \in listed : \E h \in PlayedAt(matches, x) : w = <<x, h>>
      BY DEF AllPlayed
    <3> HIDE DEF wonAt, lostAt, all, won, i, k, r
    <3>4. CASE w \in AtDuel(matches, listed, i, k, r.players[a])
               \/ w \in AtDuel(matches, listed, i, k, r.players[b])
      <4>1. PICK x \in listed : /\ w = <<x, k>> /\ x.match = i
                                /\ \/ PlayerAt(matches, x) \in r.players[a]
                                   \/ PlayerAt(matches, x) \in r.players[b]
        BY <3>2, <3>4
      <4>2. k \in PlayedAt(matches, x) BY <2>7, <4>1
      <4>3. w \in all BY <3>3, <4>1, <4>2
      <4>4. w[1] = x /\ w[2] = k BY <4>1
      <4>5. w \in won <=> PlayerAt(matches, x) \in r.players[a] BY <1>1, <2>7, <4>1, <4>3, <4>4
      <4>6. <<w[1].match, w[2]>> = e BY <2>1, <4>1, <4>4 DEF i, k
      <4>7. \A t : w \in AtDuel(matches, listed, i, k, r.players[t])
                     <=> PlayerAt(matches, x) \in r.players[t]
        <5>1. \A y : w = <<y, k>> => y = x BY <4>4
        <5> QED BY <3>2, <4>1, <5>1
      <4>8. w \in wonAt[e] <=> PlayerAt(matches, x) \in r.players[a] BY <3>1, <4>5, <4>6
      <4>9. w \in lostAt[e] <=> ~ PlayerAt(matches, x) \in r.players[a]
        BY <3>1, <4>3, <4>5, <4>6
      <4> QED BY <2>5, <4>1, <4>7, <4>8, <4>9
    <3>5. CASE w \notin AtDuel(matches, listed, i, k, r.players[a])
               /\ w \notin AtDuel(matches, listed, i, k, r.players[b])
      <4>1. ASSUME w \in all, <<w[1].match, w[2]>> = e PROVE FALSE
        <5>1. w[1].match = i /\ w[2] = k BY <2>1, <4>1 DEF i, k
        <5>2. w[1] \in listed /\ k \in PlayedAt(matches, w[1]) /\ w = <<w[1], k>>
          BY <1>1, <4>1, <5>1
        <5> QED BY <2>7, <3>2, <3>5, <5>1, <5>2
      <4> QED BY <1>1, <3>1, <3>5, <4>1
    <3> QED BY <3>4, <3>5
  <2>9. wonAt[e] = AtDuel(matches, listed, i, k, r.players[a])
        /\ lostAt[e] = AtDuel(matches, listed, i, k, r.players[b])
    <3> HIDE DEF wonAt, lostAt, i, k, r
    <3> QED BY <2>8
  <2>10. ASSUME NEW s \in Sides, r.players[s] \subseteq Range(m.players[s])
         PROVE  Cardinality(AtDuel(matches, listed, i, k, r.players[s])) = Cardinality(r.players[s])
    <3>1. i \in DOMAIN matches /\ matches[i].detailsCreated BY <2>2
    <3>2. PICK some : some = r.players[s] OBVIOUS
    <3>3. some \subseteq Range(matches[i].players[s]) BY <2>10, <3>2
    <3> HIDE DEF all, won, lost, duels, duelOf, wonAt, lostAt, n, i, k, m, r
    <3>4. Cardinality(AtDuel(matches, listed, i, k, some)) = Cardinality(some)
      BY <3>1, <3>3, OnePlaceEach
    <3> QED BY <3>2, <3>4
  <2>11. /\ Cardinality(AtDuel(matches, listed, i, k, r.players[a])) = Cardinality(r.players[a])
         /\ Cardinality(AtDuel(matches, listed, i, k, r.players[b])) = Cardinality(r.players[b])
    BY <2>4, <2>10
  <2> HIDE DEF wonAt, lostAt, i, k, r
  <2> QED BY <2>4, <2>9, <2>11
<1>5. SumFunctionOnSet(n, duels) = Cardinality(won)
  <2>1. /\ wonAt \in [duels -> SUBSET won]
        /\ \A e \in duels : n[e] = Cardinality(wonAt[e])
        /\ \A e, h \in duels : \A w \in won : w \in wonAt[e] /\ w \in wonAt[h] => e = h
    <3> HIDE DEF all, won, duels
    <3> QED OBVIOUS
  <2>2. ASSUME NEW w \in won PROVE \E e \in duels : w \in wonAt[e]
    <3>1. <<w[1].match, w[2]>> \in duels BY <1>1
    <3> HIDE DEF all, won, duels
    <3> QED BY <3>1
  <2> HIDE DEF all, won, duels, wonAt, n
  <2> QED BY <1>2, <1>3, <2>1, <2>2, SumOfParts
<1>6. SumFunctionOnSet(n, duels) = Cardinality(lost)
  <2>1. /\ lostAt \in [duels -> SUBSET lost]
        /\ \A e, h \in duels : \A w \in lost : w \in lostAt[e] /\ w \in lostAt[h] => e = h
    <3> HIDE DEF all, won, lost, duels
    <3> QED OBVIOUS
  <2>2. ASSUME NEW w \in lost PROVE \E e \in duels : w \in lostAt[e]
    <3>1. <<w[1].match, w[2]>> \in duels OBVIOUS
    <3> HIDE DEF all, won, lost, duels
    <3> QED BY <3>1
  <2>3. \A e \in duels : n[e] = Cardinality(lostAt[e])
    <3> HIDE DEF all, won, duels, wonAt, lostAt
    <3> QED BY <1>4
  <2> HIDE DEF all, won, lost, duels, lostAt, n
  <2> QED BY <1>2, <1>3, <2>1, <2>2, <2>3, SumOfParts
<1> HIDE DEF n, duels
<1> QED BY <1>5, <1>6

\* For any matches of a division: its players have won as often as they lost.
LEMMA WinsAreLosses ==
  ASSUME NEW matches, Recorded(matches), NEW listed, listed = Listed(matches, None),
         NEW system, NEW ranking, Ranks(matches, listed, system, ranking)
  PROVE  SumFunctionOnSet([i \in DOMAIN ranking |-> ranking[i].win], DOMAIN ranking)
           = SumFunctionOnSet([i \in DOMAIN ranking |-> ranking[i].lose], DOMAIN ranking)
<1> DEFINE all == AllPlayed(matches, listed)
           won == AllWon(matches, listed)
           places == DOMAIN ranking
           win == [i \in places |-> ranking[i].win]
           lose == [i \in places |-> ranking[i].lose]
           played == [i \in places |-> ranking[i].played]
           partWon == [i \in places |-> OfPlayer(matches, won, ranking[i].player)]
           partPlayed == [i \in places |-> OfPlayer(matches, all, ranking[i].player)]
<1>1. IsFiniteSet(all) /\ IsFiniteSet(won) /\ won \subseteq all BY AllFinite
<1>2. IsFiniteSet(places)
  <2>1. PICK n \in Nat : places = 1 .. n BY DEF Ranks
  <2>2. IsFiniteSet(1 .. n) BY FirstNumbers
  <2> QED BY <2>1, <2>2, Zenon
<1>3. \A i \in places : /\ played[i] = Cardinality(partPlayed[i])
                        /\ win[i] = Cardinality(partWon[i])
                        /\ lose[i] = played[i] - win[i]
  BY DEF Ranks
<1>4. /\ \A w \in all : \E i \in places : ranking[i].player = PlayerAt(matches, w[1])
      /\ \A i, j \in places : ranking[i].player = ranking[j].player => i = j
  BY DEF Ranks
<1>5. /\ partWon \in [places -> SUBSET won]
      /\ \A i, j \in places : \A w \in won : w \in partWon[i] /\ w \in partWon[j] => i = j
      /\ \A w \in won : \E i \in places : w \in partWon[i]
  <2>1. \A i \in places : partWon[i] = {w \in won : PlayerAt(matches, w[1]) = ranking[i].player}
    BY DEF OfPlayer
  <2>2. partWon = [i \in places |-> partWon[i]] OBVIOUS
  <2> HIDE DEF partWon, all, won, places
  <2>3. partWon \in [places -> SUBSET won] BY <2>1, <2>2
  <2> QED BY <1>1, <1>4, <2>1, <2>3
<1>6. /\ partPlayed \in [places -> SUBSET all]
      /\ \A i, j \in places : \A w \in all : w \in partPlayed[i] /\ w \in partPlayed[j] => i = j
      /\ \A w \in all : \E i \in places : w \in partPlayed[i]
  <2>1. \A i \in places :
          partPlayed[i] = {w \in all : PlayerAt(matches, w[1]) = ranking[i].player}
    BY DEF OfPlayer
  <2>2. partPlayed = [i \in places |-> partPlayed[i]] OBVIOUS
  <2> HIDE DEF partPlayed, all, won, places
  <2>3. partPlayed \in [places -> SUBSET all] BY <2>1, <2>2
  <2> QED BY <1>1, <1>4, <2>1, <2>3
<1>7. Cardinality(won) = Cardinality(all \ won) BY WonIsLost
<1> HIDE DEF all, won, places, win, lose, played, partWon, partPlayed
<1>8. SumFunctionOnSet(win, places) = Cardinality(won)
  BY <1>1, <1>2, <1>3, <1>5, SumOfParts
<1>9. SumFunctionOnSet(played, places) = Cardinality(all)
  BY <1>1, <1>2, <1>3, <1>6, SumOfParts
<1>10. Cardinality(all \ won) = Cardinality(all) - Cardinality(all \cap won)
  BY <1>1, FS_Difference
<1>11. all \cap won = won BY <1>1
<1>12. Cardinality(all) \in Nat /\ Cardinality(won) \in Nat BY <1>1, FS_CardinalityType
<1>13. \A i \in places : win[i] \in Int /\ lose[i] \in Int /\ played[i] = win[i] + lose[i]
  <2>1. ASSUME NEW i \in places PROVE win[i] \in Nat /\ played[i] \in Nat
    <3>1. IsFiniteSet(partWon[i]) /\ IsFiniteSet(partPlayed[i]) BY <1>1, <1>5, <1>6, FS_Subset
    <3>2. Cardinality(partWon[i]) \in Nat /\ Cardinality(partPlayed[i]) \in Nat
      BY <3>1, FS_CardinalityType
    <3> QED BY <1>3, <3>2
  <2> QED BY <1>3, <2>1
<1>14. SumFunctionOnSet(played, places)
         = SumFunctionOnSet(win, places) + SumFunctionOnSet(lose, places)
  BY <1>2, <1>13, SumPlus
<1>15. SumFunctionOnSet(lose, places) \in Int BY <1>2, <1>13, SumType
<1>16. SumFunctionOnSet(win, places) = SumFunctionOnSet(lose, places)
  BY <1>7, <1>8, <1>9, <1>10, <1>11, <1>12, <1>14, <1>15
<1> QED BY <1>16 DEF win, lose, places

\* What the one number that is made of two leaves to percentages.
LEMMA OneOfTwo ==
  ASSUME NEW a, NEW b, a.played \in Nat, b.played \in Nat,
         a.winPourcentage \in 0 .. 100, b.winPourcentage \in 0 .. 100,
         SortFunction("MOST_PLAYED", a) >= SortFunction("MOST_PLAYED", b)
  PROVE  \/ a.played >= b.played
         \/ a.played + 1 = b.played /\ a.winPourcentage = 100 /\ b.winPourcentage = 0
<1> DEFINE p == a.played
           q == b.played
           x == a.winPourcentage
           y == b.winPourcentage
<1>0. p * 100 + x >= q * 100 + y BY DEF SortFunction
<1>1. p \in Nat /\ q \in Nat OBVIOUS
<1>2. x \in Int /\ 0 <= x /\ x <= 100 /\ y \in Int /\ 0 <= y /\ y <= 100 OBVIOUS
<1> HIDE DEF p, q, x, y
<1>3. ASSUME p < q PROVE p + 1 = q /\ x = 100 /\ y = 0
  <2>1. q * 100 >= p * 100 + 100 BY <1>1, <1>3
  <2>2. x = 100 /\ y = 0 /\ q * 100 = p * 100 + 100 BY <1>0, <1>1, <1>2, <2>1
  <2> QED BY <1>1, <2>2
<1>4. p >= q \/ (p + 1 = q /\ x = 100 /\ y = 0) BY <1>1, <1>3
<1> QED BY <1>4 DEF p, q, x, y

\* For any matches, lists and results, and for each of the three systems: a
\* division's players have won as often as they have lost, and of two players the
\* one who played less is the first only by a percentage of 100 to none
\* (computePctAndSort).
THEOREM RankedFairly == ComputationsSpec => []RankerIsFair
<1>1. AnsweredInv => RankerIsFair
  <2> SUFFICES ASSUME AnsweredInv, question.service = "ranker", reply # <<>>
               PROVE  /\ question.keepClub = None =>
                           SumFunctionOnSet([i \in DOMAIN Given |-> Given[i].win], DOMAIN Given)
                             = SumFunctionOnSet([i \in DOMAIN Given |-> Given[i].lose],
                                                DOMAIN Given)
                      /\ question.system = "MOST_PLAYED" =>
                           \A i, j \in DOMAIN Given : i < j =>
                             \/ Given[i].played >= Given[j].played
                             \/ /\ Given[i].played + 1 = Given[j].played
                                /\ Given[i].winPourcentage = 100 /\ Given[j].winPourcentage = 0
    BY DEF RankerIsFair, Is
  <2> DEFINE matches == question.matches
             listed == Listed(matches, question.keepClub)
  <2>1. /\ question \in RankerInputs
        /\ Given = ComputeRanking(matches, question.system, question.keepClub)
    BY AnswerOf DEF PlayersOf, Given
  <2>2. /\ Recorded(matches)
        /\ question.system \in {"MOST_PLAYED", "BEST_PERF_PER_PCT", "BEST_PERF_PER_WIN"}
    BY <2>1, AllRecorded
  <2>3. Ranks(matches, listed, question.system, Given) BY <2>1, <2>2, RankingRanks
  <2>4. ASSUME question.keepClub = None
        PROVE  SumFunctionOnSet([i \in DOMAIN Given |-> Given[i].win], DOMAIN Given)
                 = SumFunctionOnSet([i \in DOMAIN Given |-> Given[i].lose], DOMAIN Given)
    <3>1. listed = Listed(matches, None) BY <2>4
    <3> HIDE DEF matches, listed
    <3> QED BY <2>2, <2>3, <3>1, WinsAreLosses
  <2>5. ASSUME question.system = "MOST_PLAYED", NEW i \in DOMAIN Given, NEW j \in DOMAIN Given, i < j
        PROVE  \/ Given[i].played >= Given[j].played
               \/ /\ Given[i].played + 1 = Given[j].played
                  /\ Given[i].winPourcentage = 100 /\ Given[j].winPourcentage = 0
    <3> DEFINE a == Given[i]
               b == Given[j]
    <3>1. SortFunction("MOST_PLAYED", a) >= SortFunction("MOST_PLAYED", b)
      BY <2>3, <2>5 DEF Ranks
    <3>2. /\ a.played \in Nat /\ b.played \in Nat
          /\ a.winPourcentage \in 0 .. 100 /\ b.winPourcentage \in 0 .. 100
      BY <2>3 DEF Ranks
    <3> HIDE DEF a, b
    <3>3. \/ a.played >= b.played
          \/ a.played + 1 = b.played /\ a.winPourcentage = 100 /\ b.winPourcentage = 0
      BY <3>1, <3>2, OneOfTwo
    <3> QED BY <3>3 DEF a, b
  <2> QED BY <2>4, <2>5
<1> QED BY <1>1, Answered, PTL

-------------------------------------------------------------------------------
(* The member's team.                                                      *)

\* What an instance of a module says of finite sets is what is said of them here.
LEMMA SameSizes ==
  ASSUME NEW A
  PROVE  Member!Cardinality(A) = Cardinality(A) /\ Member!Max(A) = Max(A) /\ Member!Min(A) = Min(A)
BY DEF Member!Cardinality, Cardinality, Member!Max, Max, Member!Min, Min

\* Matches that are dated or not, and those of a team.
Matches(m) ==
  /\ DOMAIN m = 1 .. Len(m) /\ Len(m) \in Nat
  /\ \A i \in DOMAIN m : m[i].at # None => m[i].at \in Int

MatchesOf(m, club, team) == {i \in DOMAIN m : Member!TeamOf(m[i], club) = team}

\* A time is the latest of some matches.
IsLatest(m, mine, latest) ==
  \/ latest = None /\ \A i \in mine : m[i].at = None
  \/ /\ latest \in Int /\ \E i \in mine : m[i].at = latest
     /\ \A i \in mine : m[i].at # None => m[i].at <= latest

\* What is aggregated of a team that played.
LEMMA AggregateIs ==
  ASSUME NEW m, Matches(m), NEW club, NEW team, MatchesOf(m, club, team) # {},
         NEW a, a = Member!Aggregate(m, club, team)
  PROVE  /\ a.team = team /\ a.matchCount = Cardinality(MatchesOf(m, club, team))
         /\ a.matchCount \in Nat /\ a.first \in Int
         /\ IsLatest(m, MatchesOf(m, club, team), a.latest)
         /\ \E i \in MatchesOf(m, club, team) :
              m[i].at = a.latest /\ a.divisionId = m[i].division
<1> DEFINE mine == {i \in DOMAIN m : Member!TeamOf(m[i], club) = team}
           dated == {i \in mine : m[i].at # None}
           times == {m[i].at : i \in dated}
           last == IF dated = {} THEN None ELSE Max(times)
           atLast == {i \in dated : m[i].at = last}
           shown == IF dated = {} THEN Min(mine) ELSE Min(atLast)
<1>1. /\ a.team = team /\ a.first = Min(mine) /\ a.matchCount = Cardinality(mine)
      /\ a.latest = last /\ a.divisionId = m[shown].division
  <2>1. Member!Aggregate(m, club, team) =
          [team |-> team, first |-> Min(mine), matchCount |-> Cardinality(mine),
           latest |-> last, divisionId |-> m[shown].division]
    BY SameSizes DEF Member!Aggregate
  <2> HIDE DEF mine, last, shown
  <2> QED BY <2>1
<1>2. MatchesOf(m, club, team) = mine BY DEF MatchesOf
<1>3. IsFiniteSet(mine) /\ mine \subseteq Int
  <2>1. DOMAIN m = 1 .. Len(m) /\ Len(m) \in Nat BY DEF Matches
  <2>2. IsFiniteSet(1 .. Len(m)) BY <2>1, FirstNumbers
  <2>3. mine \subseteq 1 .. Len(m) BY <2>1
  <2> HIDE DEF mine
  <2>4. IsFiniteSet(mine) BY <2>2, <2>3, FS_Subset
  <2>5. mine \subseteq Int BY <2>3
  <2> QED BY <2>4, <2>5
<1>4. \A i \in mine : m[i].at # None => m[i].at \in Int BY DEF Matches
<1>5. mine # {} BY <1>2
<1>6. dated \subseteq mine /\ \A i \in mine : i \in dated <=> m[i].at # None
  <2> HIDE DEF mine
  <2> QED OBVIOUS
<1>7. atLast \subseteq dated /\ \A i \in dated : i \in atLast <=> m[i].at = last
  <2> HIDE DEF dated, last
  <2> QED OBVIOUS
<1>8. /\ times \subseteq Int /\ IsFiniteSet(times)
      /\ \A i \in dated : m[i].at \in times
      /\ \A k \in times : \E i \in dated : m[i].at = k
  <2>1. \A i \in dated : m[i].at \in Int BY <1>4, <1>6
  <2> DEFINE played == [i \in dated |-> m[i].at]
  <2>2. times = {played[i] : i \in dated}
    <3> HIDE DEF dated
    <3> QED OBVIOUS
  <2>3. IsFiniteSet(dated) BY <1>3, <1>6, FS_Subset
  <2>4. /\ \A i \in dated : m[i].at \in times
        /\ \A k \in times : \E i \in dated : m[i].at = k
    <3> HIDE DEF dated
    <3> QED OBVIOUS
  <2> HIDE DEF played, dated, times
  <2>5. IsFiniteSet(times) BY <2>2, <2>3, ImageFinite
  <2> QED BY <2>1, <2>4, <2>5
<1>9. Min(mine) \in mine
  <2> HIDE DEF mine
  <2> QED BY <1>3, <1>5, SmallestIs
<1>10. CASE dated = {}
  <2>1. last = None /\ shown = Min(mine) BY <1>10
  <2> HIDE DEF mine, dated, times, last, shown
  <2>2. \A i \in mine : m[i].at = None BY <1>6, <1>10
  <2>3. IsFiniteSet(mine) BY <1>3
  <2>4. Cardinality(mine) \in Nat BY <2>3, FS_CardinalityType
  <2> QED BY <1>1, <1>2, <1>3, <1>9, <2>1, <2>2, <2>4 DEF IsLatest
<1>11. CASE dated # {}
  <2>1. last = Max(times) /\ shown = Min(atLast)
    <3> HIDE DEF mine, dated, times, atLast
    <3> QED BY <1>11
  <2> HIDE DEF mine, dated, times, last, atLast, shown
  <2>2. times # {} BY <1>8, <1>11
  <2>3. last \in times /\ \A k \in times : k <= last BY <1>8, <2>1, <2>2, LargestIs
  <2>4. \E i \in dated : m[i].at = last
    <3>1. PICK k \in times : k = last BY <2>3
    <3>2. \E i \in dated : m[i].at = k BY <1>8
    <3> QED BY <3>1, <3>2
  <2>5. atLast # {} /\ atLast \subseteq Int /\ IsFiniteSet(atLast)
    BY <1>3, <1>6, <1>7, <2>4, FS_Subset
  <2>6. shown \in atLast BY <2>1, <2>5, SmallestIs
  <2>7. shown \in mine /\ m[shown].at = last BY <1>6, <1>7, <2>6
  <2>8. last \in Int /\ \A j \in mine : m[j].at # None => m[j].at <= last
    BY <1>6, <1>8, <2>3
  <2>9. Cardinality(mine) \in Nat BY <1>3, FS_CardinalityType
  <2> QED BY <1>1, <1>2, <1>3, <1>9, <2>7, <2>8, <2>9 DEF IsLatest
<1> QED BY <1>10, <1>11

\* An order of some is a permutation of their places.
LEMMA OrderPermutes ==
  ASSUME NEW n \in Nat, NEW p \in Orders(n)
  PROVE  /\ p \in [1 .. n -> 1 .. n]
         /\ \A i, j \in 1 .. n : p[i] = p[j] => i = j
         /\ \A k \in 1 .. n : \E i \in 1 .. n : p[i] = k
<1>1. p \in [1 .. n -> 1 .. n] /\ IsInjective(p) BY DEF Orders
<1>2. p \in Injection(1 .. n, 1 .. n) BY <1>1 DEF Injection
<1>3. IsFiniteSet(1 .. n) BY FirstNumbers
<1>4. p \in Surjection(1 .. n, 1 .. n) BY <1>2, <1>3, FS_Injection
<1>5. \A k \in 1 .. n : \E i \in 1 .. n : p[i] = k BY <1>4 DEF Surjection
<1>6. \A i, j \in 1 .. n : p[i] = p[j] => i = j BY <1>1 DEF IsInjective
<1> QED BY <1>1, <1>5, <1>6

\* The same matches in another order have the same aggregates, but for the place
\* of the first of a team's.
LEMMA AggregateAgain ==
  ASSUME NEW m, Matches(m), NEW club, NEW team, MatchesOf(m, club, team) # {},
         NEW p \in Orders(Len(m)), NEW again, again = Arranged(m, p)
  PROVE  /\ Matches(again) /\ MatchesOf(again, club, team) # {}
         /\ Member!Aggregate(again, club, team).team = team
         /\ Member!Aggregate(again, club, team).matchCount = Member!Aggregate(m, club, team).matchCount
         /\ Member!Aggregate(again, club, team).latest = Member!Aggregate(m, club, team).latest
         /\ (\A i, j \in MatchesOf(m, club, team) :
               m[i].at = m[j].at => m[i].division = m[j].division)
            => Member!Aggregate(again, club, team).divisionId = Member!Aggregate(m, club, team).divisionId
<1> DEFINE n == Len(m)
           mine == MatchesOf(m, club, team)
           theirs == MatchesOf(again, club, team)
           a == Member!Aggregate(m, club, team)
           b == Member!Aggregate(again, club, team)
<1>1. n \in Nat /\ DOMAIN m = 1 .. n BY DEF Matches
<1>2. /\ p \in [1 .. n -> 1 .. n]
      /\ \A i, j \in 1 .. n : p[i] = p[j] => i = j
      /\ \A k \in 1 .. n : \E i \in 1 .. n : p[i] = k
  BY <1>1, OrderPermutes
<1>3. again = [i \in 1 .. n |-> m[p[i]]] BY <1>1 DEF Arranged
<1>4. DOMAIN again = 1 .. n /\ Len(again) = n /\ \A i \in 1 .. n : again[i] = m[p[i]]
  BY <1>1, <1>3
<1>5. Matches(again) BY <1>1, <1>2, <1>4 DEF Matches
<1>6. /\ \A i \in 1 .. n : i \in theirs <=> p[i] \in mine
      /\ theirs \subseteq 1 .. n /\ mine \subseteq 1 .. n
  <2>1. mine = {i \in 1 .. n : Member!TeamOf(m[i], club) = team} BY <1>1 DEF MatchesOf
  <2>2. theirs = {i \in 1 .. n : Member!TeamOf(again[i], club) = team} BY <1>4 DEF MatchesOf
  <2> HIDE DEF n, mine, theirs
  <2> QED BY <1>2, <1>4, <2>1, <2>2
<1> HIDE DEF n, mine, theirs
<1>7. theirs # {} BY <1>2, <1>6 DEF mine
<1>8. Cardinality(theirs) = Cardinality(mine)
  <2> DEFINE place == [i \in theirs |-> p[i]]
  <2>1. place \in [theirs -> mine] BY <1>6
  <2>2. \A i, j \in theirs : place[i] = place[j] => i = j BY <1>2, <1>6
  <2>3. \A k \in mine : \E i \in theirs : place[i] = k BY <1>2, <1>6
  <2>4. IsFiniteSet(mine)
    <3>1. IsFiniteSet(1 .. n) BY <1>1, FirstNumbers
    <3> QED BY <1>6, <3>1, FS_Subset
  <2> HIDE DEF place
  <2> QED BY <2>1, <2>2, <2>3, <2>4, AsMany
<1>9. /\ a.matchCount = Cardinality(mine) /\ IsLatest(m, mine, a.latest)
      /\ \E i \in mine : m[i].at = a.latest /\ a.divisionId = m[i].division
  BY AggregateIs DEF mine
<1>10. /\ b.team = team /\ b.matchCount = Cardinality(theirs) /\ IsLatest(again, theirs, b.latest)
       /\ \E i \in theirs : again[i].at = b.latest /\ b.divisionId = again[i].division
  BY <1>5, <1>7, AggregateIs DEF theirs
<1> HIDE DEF a, b
<1>11. /\ \A i \in theirs : p[i] \in mine /\ again[i] = m[p[i]]
       /\ \A k \in mine : \E i \in theirs : p[i] = k /\ again[i] = m[k]
  <2>1. \A i \in theirs : i \in 1 .. n BY <1>6
  <2>2. \A k \in mine : k \in 1 .. n BY <1>6
  <2>3. \A i \in theirs : p[i] \in mine /\ again[i] = m[p[i]] BY <1>4, <1>6, <2>1
  <2>4. ASSUME NEW k \in mine PROVE \E i \in theirs : p[i] = k /\ again[i] = m[k]
    <3>1. PICK i \in 1 .. n : p[i] = k BY <1>2, <2>2
    <3> QED BY <1>4, <1>6, <3>1
  <2> QED BY <2>3, <2>4
<1>12. IsLatest(m, mine, b.latest)
  <2>1. CASE b.latest = None /\ \A i \in theirs : again[i].at = None
    BY <1>11, <2>1 DEF IsLatest
  <2>2. CASE /\ b.latest \in Int /\ \E i \in theirs : again[i].at = b.latest
             /\ \A i \in theirs : again[i].at # None => again[i].at <= b.latest
    <3>1. \E i \in mine : m[i].at = b.latest BY <1>11, <2>2
    <3>2. \A i \in mine : m[i].at # None => m[i].at <= b.latest BY <1>11, <2>2
    <3> QED BY <2>2, <3>1, <3>2 DEF IsLatest
  <2> QED BY <1>10, <2>1, <2>2 DEF IsLatest
<1>13. a.latest = b.latest
  <2>1. mine # {} BY DEF mine
  <2>2. CASE a.latest = None BY <1>9, <1>12, <2>2, NoneAssumption DEF IsLatest
  <2>3. CASE a.latest # None
    <3>1. a.latest \in Int /\ b.latest \in Int BY <1>9, <1>12, <2>3, NoneAssumption DEF IsLatest
    <3>2. b.latest <= a.latest /\ a.latest <= b.latest
      BY <1>9, <1>12, <3>1, NoneAssumption DEF IsLatest
    <3> QED BY <3>1, <3>2
  <2> QED BY <2>2, <2>3
<1>14. ASSUME \A i, j \in mine : m[i].at = m[j].at => m[i].division = m[j].division
       PROVE  b.divisionId = a.divisionId
  <2>1. PICK i \in mine : m[i].at = a.latest /\ a.divisionId = m[i].division BY <1>9
  <2>2. PICK j \in theirs : again[j].at = b.latest /\ b.divisionId = again[j].division
    BY <1>10
  <2>3. p[j] \in mine /\ again[j] = m[p[j]] BY <1>11
  <2> QED BY <1>13, <1>14, <2>1, <2>2, <2>3
<1> QED BY <1>5, <1>7, <1>8, <1>9, <1>10, <1>13, <1>14 DEF a, b, mine, theirs

\* Which of two aggregates is shown: never both of them, and one of them unless
\* they have as many matches and the same latest time.
LEMMA OneBeats ==
  ASSUME NEW A, \A a \in A : a.matchCount \in Nat /\ (a.latest # None => a.latest \in Int)
  PROVE  /\ \A a, b \in A : Member!Beats(a, b) => ~ Member!Beats(b, a)
         /\ \A a, b, c \in A : Member!Beats(a, b) /\ Member!Beats(b, c) => Member!Beats(a, c)
         /\ \A a, b \in A : \/ Member!Beats(a, b) \/ Member!Beats(b, a)
                            \/ a.matchCount = b.matchCount /\ a.latest = b.latest
<1>1. \A a, b \in A : Member!Beats(a, b) <=>
         \/ a.matchCount > b.matchCount
         \/ a.matchCount = b.matchCount /\ a.latest # None
              /\ (b.latest = None \/ a.latest > b.latest)
  BY DEF Member!Beats
<1>2. \A a, b \in A : Member!Beats(a, b) => ~ Member!Beats(b, a) BY <1>1
<1>3. ASSUME NEW a \in A, NEW b \in A, NEW c \in A, Member!Beats(a, b), Member!Beats(b, c)
      PROVE  Member!Beats(a, c)
  <2>1. /\ a.matchCount \in Nat /\ b.matchCount \in Nat /\ c.matchCount \in Nat
        /\ (a.latest # None => a.latest \in Int) /\ (b.latest # None => b.latest \in Int)
        /\ (c.latest # None => c.latest \in Int)
    OBVIOUS
  <2> QED BY <1>1, <1>3, <2>1
<1>4. \A a, b \in A : \/ Member!Beats(a, b) \/ Member!Beats(b, a)
                      \/ a.matchCount = b.matchCount /\ a.latest = b.latest
  BY <1>1
<1> QED BY <1>2, <1>3, <1>4

\* The teams that play in some matches, and that no two of them are alike.
TeamsOf(m, club) == {Member!TeamOf(m[i], club) : i \in DOMAIN m} \ {None}

Apart(m, club) ==
  \A t, u \in TeamsOf(m, club) :
    /\ Member!Aggregate(m, club, t).matchCount = Member!Aggregate(m, club, u).matchCount
    /\ Member!Aggregate(m, club, t).latest = Member!Aggregate(m, club, u).latest
    => t = u

\* The teams of a club, and what is told of one.
LEMMA TeamsAre ==
  ASSUME NEW m, Matches(m), NEW club
  PROVE  /\ IsFiniteSet(TeamsOf(m, club))
         /\ \A t \in TeamsOf(m, club) : MatchesOf(m, club, t) # {}
         /\ \A t \in TeamsOf(m, club) : LET a == Member!Aggregate(m, club, t) IN
              /\ a.team = t /\ a.matchCount \in Nat /\ a.first \in Int
              /\ a.latest # None => a.latest \in Int
<1>1. DOMAIN m = 1 .. Len(m) /\ Len(m) \in Nat BY DEF Matches
<1> DEFINE of == [i \in DOMAIN m |-> Member!TeamOf(m[i], club)]
           found == {of[i] : i \in DOMAIN m}
<1>2. IsFiniteSet(found)
  <2>1. IsFiniteSet(1 .. Len(m)) BY <1>1, FirstNumbers
  <2>2. IsFiniteSet(DOMAIN m) BY <1>1, <2>1, Zenon
  <2> HIDE DEF of
  <2> QED BY <2>2, ImageFinite
<1>3. TeamsOf(m, club) \in SUBSET found BY DEF TeamsOf
<1> HIDE DEF found
<1>4. IsFiniteSet(TeamsOf(m, club)) BY <1>2, <1>3, FS_Subset
<1>5. ASSUME NEW t \in TeamsOf(m, club)
      PROVE  MatchesOf(m, club, t) # {}
  BY DEF TeamsOf, MatchesOf
<1>6. ASSUME NEW t \in TeamsOf(m, club)
      PROVE  LET a == Member!Aggregate(m, club, t) IN
             /\ a.team = t /\ a.matchCount \in Nat /\ a.first \in Int
             /\ a.latest # None => a.latest \in Int
  <2> DEFINE a == Member!Aggregate(m, club, t)
  <2>1. /\ a.team = t /\ a.matchCount \in Nat /\ a.first \in Int
        /\ IsLatest(m, MatchesOf(m, club, t), a.latest)
    BY <1>5, AggregateIs
  <2> HIDE DEF a
  <2>2. a.latest # None => a.latest \in Int BY <2>1 DEF IsLatest
  <2> QED BY <2>1, <2>2 DEF a
<1> QED BY <1>4, <1>5, <1>6

\* Of teams that are apart one beats all the others.
LEMMA OneBest ==
  ASSUME NEW m, Matches(m), NEW club, TeamsOf(m, club) # {}, Apart(m, club)
  PROVE  \E t \in TeamsOf(m, club) : \A u \in TeamsOf(m, club) \ {t} :
           Member!Beats(Member!Aggregate(m, club, t), Member!Aggregate(m, club, u))
<1> DEFINE T == TeamsOf(m, club)
           agg == [t \in T |-> Member!Aggregate(m, club, t)]
           A == {agg[t] : t \in T}
           below == [t \in T |-> {u \in T : Member!Beats(agg[u], agg[t])}]
<1>1. /\ IsFiniteSet(T) /\ T # {}
      /\ \A t \in T : /\ agg[t].matchCount \in Nat
                      /\ agg[t].latest # None => agg[t].latest \in Int
  BY TeamsAre
<1>2. \A t, u \in T : agg[t].matchCount = agg[u].matchCount /\ agg[t].latest = agg[u].latest
                      => t = u
  BY DEF Apart
<1>3. \A t \in T : agg[t] = Member!Aggregate(m, club, t) OBVIOUS
<1> HIDE DEF T, agg
<1>4. /\ \A a \in A : a.matchCount \in Nat /\ (a.latest # None => a.latest \in Int)
      /\ \A t \in T : agg[t] \in A
  BY <1>1
<1>5. below \in [T -> SUBSET T] OBVIOUS
<1>6. \A t, u \in T : u \in below[t] <=> Member!Beats(agg[u], agg[t]) OBVIOUS
<1> HIDE DEF A, below
<1>7. /\ \A a, b \in A : Member!Beats(a, b) => ~ Member!Beats(b, a)
      /\ \A a, b, c \in A : Member!Beats(a, b) /\ Member!Beats(b, c) => Member!Beats(a, c)
      /\ \A a, b \in A : \/ Member!Beats(a, b) \/ Member!Beats(b, a)
                         \/ a.matchCount = b.matchCount /\ a.latest = b.latest
  BY <1>4, OneBeats
<1>8. /\ \A x \in T : x \notin below[x]
      /\ \A x, y \in T : x = y \/ x \in below[y] \/ y \in below[x]
      /\ \A x, y \in T : x \in below[y] => below[x] \subseteq below[y]
  <2>1. \A x \in T : x \notin below[x] BY <1>4, <1>6, <1>7
  <2>2. \A x, y \in T : x = y \/ x \in below[y] \/ y \in below[x] BY <1>2, <1>4, <1>6, <1>7
  <2>3. ASSUME NEW x \in T, NEW y \in T, x \in below[y], NEW z \in below[x] PROVE z \in below[y]
    <3>1. z \in T BY <1>5
    <3>2. agg[x] \in A /\ agg[y] \in A /\ agg[z] \in A BY <1>4, <3>1
    <3>3. Member!Beats(agg[x], agg[y]) /\ Member!Beats(agg[z], agg[x]) BY <1>6, <2>3, <3>1
    <3> QED BY <1>6, <1>7, <3>1, <3>2, <3>3
  <2> QED BY <2>1, <2>2, <2>3
<1>9. PICK t \in T : Cardinality(below[t]) = 0
  <2>1. /\ Cardinality(T) \in Nat
        /\ \A n \in 1 .. Cardinality(T) : \E x \in T : Cardinality(below[x]) = n - 1
    BY <1>1, <1>5, <1>8, PlacesFilled
  <2>2. Cardinality(T) # 0 BY <1>1, FS_EmptySet
  <2>3. 1 \in 1 .. Cardinality(T) /\ 1 - 1 = 0 BY <2>1, <2>2
  <2> QED BY <2>1, <2>3
<1>10. below[t] = {}
  <2>1. IsFiniteSet(below[t]) BY <1>1, <1>5, FS_Subset
  <2> QED BY <1>9, <2>1, FS_EmptySet
<1>11. \A u \in T \ {t} : Member!Beats(agg[t], agg[u]) BY <1>6, <1>8, <1>10
<1>12. \A u \in T \ {t} : Member!Beats(Member!Aggregate(m, club, t), Member!Aggregate(m, club, u))
  BY <1>3, <1>11
<1> QED BY <1>12 DEF T

\* That team is the one that is shown.
LEMMA SummaryIs ==
  ASSUME NEW m, Matches(m), NEW club, club # None, NEW best \in TeamsOf(m, club),
         \A u \in TeamsOf(m, club) \ {best} :
           Member!Beats(Member!Aggregate(m, club, best), Member!Aggregate(m, club, u)),
         NEW a, a = Member!Aggregate(m, club, best)
  PROVE  Member!ComputeMyTeamSummary(m, club)
           = [team |-> best, divisionId |-> a.divisionId, matchCount |-> a.matchCount]
<1> DEFINE T == {Member!TeamOf(m[i], club) : i \in DOMAIN m} \ {None}
           all == {Member!Aggregate(m, club, t) : t \in T}
           unbeaten == {x \in all : \A y \in all : ~ Member!Beats(y, x)}
           winner == CHOOSE x \in unbeaten : \A y \in unbeaten : x.first <= y.first
<1>1. T = TeamsOf(m, club) BY DEF TeamsOf
<1>2. T # {} BY <1>1
<1>3. Member!ComputeMyTeamSummary(m, club)
        = [team |-> winner.team, divisionId |-> winner.divisionId, matchCount |-> winner.matchCount]
  <2>1. Member!ComputeMyTeamSummary(m, club) =
          IF club = None \/ T = {} THEN None
          ELSE [team |-> winner.team, divisionId |-> winner.divisionId,
                matchCount |-> winner.matchCount]
    BY DEF Member!ComputeMyTeamSummary
  <2> HIDE DEF T, winner
  <2> QED BY <1>2, <2>1
<1> HIDE DEF T
<1>4. /\ \A x \in all : x.matchCount \in Nat /\ (x.latest # None => x.latest \in Int)
      /\ a.team = best /\ a.first \in Int
  BY <1>1, TeamsAre
<1>5. a \in all /\ \A x \in all : x = a \/ Member!Beats(a, x) BY <1>1
<1> HIDE DEF all
<1>6. \A x, y \in all : Member!Beats(x, y) => ~ Member!Beats(y, x) BY <1>4, OneBeats
<1>7. \A x \in unbeaten : x = a BY <1>5
<1>8. a \in unbeaten BY <1>5, <1>6
<1> HIDE DEF unbeaten
<1>9. \A y \in unbeaten : a.first <= y.first BY <1>4, <1>7
<1>10. winner \in unbeaten BY <1>8, <1>9
<1>11. winner = a BY <1>7, <1>10
<1> QED BY <1>3, <1>4, <1>11

\* For any matches, teams, divisions and times: the member's team, its division
\* and its number of matches are the same whatever the order of the matches,
\* where no two teams are level and a team's matches of one time are of one
\* division (computeMyTeamSummary).
THEOREM TeamStands == ComputationsSpec => []TeamFollowsTheMatches
<1>1. AnsweredInv => TeamFollowsTheMatches
  <2> DEFINE m == question.matches
             club == question.club
             Of(i) == Member!TeamOf(m[i], club)
             Rival(i, j) ==
               /\ Member!Aggregate(m, club, Of(i)).matchCount = Member!Aggregate(m, club, Of(j)).matchCount
               /\ Member!Aggregate(m, club, Of(i)).latest = Member!Aggregate(m, club, Of(j)).latest
             Level == \E i, j \in DOMAIN m :
               /\ None \notin {Of(i), Of(j)}
               /\ \/ Of(i) # Of(j) /\ Rival(i, j)
                  \/ Of(i) = Of(j) /\ m[i].at = m[j].at /\ m[i].division # m[j].division
  <2> SUFFICES ASSUME AnsweredInv, question.service = "team", reply # <<>>,
                      ~ Level, NEW p \in Orders(Len(m))
               PROVE  Member!ComputeMyTeamSummary(Arranged(m, p), club) = Given
    BY DEF TeamFollowsTheMatches, Is
  <2> DEFINE again == Arranged(m, p)
  <2>1. question \in TeamInputs /\ Given = Member!ComputeMyTeamSummary(m, club)
    BY AnswerOf DEF TeamAnswer, Given
  <2>2. Matches(m) BY <2>1, MatchesAssumption DEF Matches
  <2>3. \A t \in TeamsOf(m, club) : \E i \in DOMAIN m : Of(i) = t /\ t # None BY DEF TeamsOf
  <2>4. Apart(m, club)
    <3> SUFFICES ASSUME NEW t \in TeamsOf(m, club), NEW u \in TeamsOf(m, club), t # u,
                   Member!Aggregate(m, club, t).matchCount = Member!Aggregate(m, club, u).matchCount,
                   Member!Aggregate(m, club, t).latest = Member!Aggregate(m, club, u).latest
                 PROVE  FALSE
      BY DEF Apart
    <3>1. PICK i \in DOMAIN m : Of(i) = t /\ t # None BY <2>3
    <3>2. PICK j \in DOMAIN m : Of(j) = u /\ u # None BY <2>3
    <3>3. Rival(i, j) BY <3>1, <3>2
    <3>4. None \notin {Of(i), Of(j)} /\ Of(i) # Of(j) BY <3>1, <3>2
    <3> HIDE DEF Of, Rival, m
    <3> QED BY <3>3, <3>4
  <2>5. ASSUME NEW t \in TeamsOf(m, club)
        PROVE  \A i, j \in MatchesOf(m, club, t) : m[i].at = m[j].at => m[i].division = m[j].division
    <3> SUFFICES ASSUME NEW i \in MatchesOf(m, club, t), NEW j \in MatchesOf(m, club, t),
                        m[i].at = m[j].at, m[i].division # m[j].division
                 PROVE  FALSE
      OBVIOUS
    <3>1. i \in DOMAIN m /\ j \in DOMAIN m /\ Of(i) = t /\ Of(j) = t BY DEF MatchesOf
    <3>2. t # None BY DEF TeamsOf
    <3>3. None \notin {Of(i), Of(j)} BY <3>1, <3>2
    <3> HIDE DEF Of, Rival, m
    <3> QED BY <3>1, <3>3
  <2> HIDE DEF m, club, again, Of, Rival, Level
  <2>6. DOMAIN again = DOMAIN m /\ DOMAIN m = 1 .. Len(m) /\ Len(m) \in Nat
        /\ \A i \in 1 .. Len(m) : again[i] = m[p[i]]
    BY <2>2 DEF Matches, Arranged, again
  <2>7. /\ p \in [1 .. Len(m) -> 1 .. Len(m)]
        /\ \A k \in 1 .. Len(m) : \E i \in 1 .. Len(m) : p[i] = k
    BY <2>6, OrderPermutes
  <2>8. TeamsOf(again, club) = TeamsOf(m, club)
    <3>1. ASSUME NEW t \in TeamsOf(m, club) PROVE t \in TeamsOf(again, club)
      <4>1. PICK k \in 1 .. Len(m) : Member!TeamOf(m[k], club) = t /\ t # None
        BY <2>6 DEF TeamsOf
      <4>2. PICK i \in 1 .. Len(m) : p[i] = k BY <2>7
      <4>3. Member!TeamOf(again[i], club) = t /\ i \in DOMAIN again BY <2>6, <4>1, <4>2
      <4> QED BY <4>1, <4>3 DEF TeamsOf
    <3>2. ASSUME NEW t \in TeamsOf(again, club) PROVE t \in TeamsOf(m, club)
      <4>1. PICK i \in 1 .. Len(m) : Member!TeamOf(again[i], club) = t /\ t # None
        BY <2>6 DEF TeamsOf
      <4>2. Member!TeamOf(m[p[i]], club) = t /\ p[i] \in DOMAIN m BY <2>6, <2>7, <4>1
      <4> QED BY <4>1, <4>2 DEF TeamsOf
    <3> QED BY <3>1, <3>2
  <2>9. ASSUME NEW t \in TeamsOf(m, club)
        PROVE  /\ Matches(again)
               /\ Member!Aggregate(again, club, t).matchCount = Member!Aggregate(m, club, t).matchCount
               /\ Member!Aggregate(again, club, t).latest = Member!Aggregate(m, club, t).latest
               /\ Member!Aggregate(again, club, t).divisionId = Member!Aggregate(m, club, t).divisionId
    <3>1. MatchesOf(m, club, t) # {} BY <2>2, TeamsAre
    <3> QED BY <2>2, <2>5, <3>1, AggregateAgain DEF again
  <2>10. CASE club = None \/ TeamsOf(m, club) = {}
    <3>1. \A x : club = None \/ TeamsOf(x, club) = {} => Member!ComputeMyTeamSummary(x, club) = None
      BY DEF Member!ComputeMyTeamSummary, TeamsOf
    <3>2. Member!ComputeMyTeamSummary(m, club) = None /\ Member!ComputeMyTeamSummary(again, club) = None
      BY <2>8, <2>10, <3>1
    <3> QED BY <2>1, <3>2 DEF again
  <2>11. CASE club # None /\ TeamsOf(m, club) # {}
    <3>1. PICK best \in TeamsOf(m, club) : \A u \in TeamsOf(m, club) \ {best} :
            Member!Beats(Member!Aggregate(m, club, best), Member!Aggregate(m, club, u))
      BY <2>2, <2>4, <2>11, OneBest
    <3> DEFINE a == Member!Aggregate(m, club, best)
               b == Member!Aggregate(again, club, best)
    <3>2. Member!ComputeMyTeamSummary(m, club)
            = [team |-> best, divisionId |-> a.divisionId, matchCount |-> a.matchCount]
      BY <2>2, <2>11, <3>1, SummaryIs
    <3>3. \A u \in TeamsOf(again, club) \ {best} :
            Member!Beats(Member!Aggregate(again, club, best), Member!Aggregate(again, club, u))
      BY <2>8, <2>9, <3>1 DEF Member!Beats
    <3>4. Member!ComputeMyTeamSummary(again, club)
            = [team |-> best, divisionId |-> b.divisionId, matchCount |-> b.matchCount]
      BY <2>8, <2>9, <2>11, <3>3, SummaryIs
    <3>5. a.divisionId = b.divisionId /\ a.matchCount = b.matchCount BY <2>9
    <3> HIDE DEF a, b
    <3> QED BY <2>1, <3>2, <3>4, <3>5 DEF again
  <2> QED BY <2>10, <2>11 DEF again
<1> QED BY <1>1, Answered, PTL

-------------------------------------------------------------------------------
(* A member's statistics.                                                  *)

\* Results: each has a time, and was won or lost by some sets.
Results(e) ==
  /\ DOMAIN e = 1 .. Len(e) /\ Len(e) \in Nat
  /\ \A i \in DOMAIN e : /\ e[i].at \in Int /\ e[i].won \in BOOLEAN
                         /\ e[i].setFor \in Nat /\ e[i].setAgainst \in Nat

\* A permutation of some places, and what follows it.
Permutes(p, n) ==
  /\ n \in Nat /\ \A i \in 1 .. n : p[i] \in 1 .. n
  /\ \A i, j \in 1 .. n : p[i] = p[j] => i = j
  /\ \A k \in 1 .. n : \E i \in 1 .. n : p[i] = k

PlacesFollow(X, Y, p, n) ==
  X \subseteq 1 .. n /\ Y \subseteq 1 .. n /\ \A i \in 1 .. n : i \in Y <=> p[i] \in X

NumbersFollow(x, y, p, n) == \A i \in 1 .. n : x[i] \in Int /\ y[i] = x[p[i]]

\* Some results, and the same in another order.
Reordered(e, f, p, n) ==
  /\ Permutes(p, n) /\ Results(e) /\ Results(f)
  /\ Len(e) = n /\ DOMAIN e = 1 .. n /\ Len(f) = n /\ DOMAIN f = 1 .. n
  /\ \A i \in 1 .. n : f[i] = e[p[i]]

\* Results in another order are results.
LEMMA ResultsAgain ==
  ASSUME NEW e, Results(e), NEW p \in Orders(Len(e))
  PROVE  Reordered(e, Arranged(e, p), p, Len(e))
<1> DEFINE n == Len(e)
           f == Arranged(e, p)
<1>1. n \in Nat /\ DOMAIN e = 1 .. n BY DEF Results
<1>2. /\ p \in [1 .. n -> 1 .. n]
      /\ \A i, j \in 1 .. n : p[i] = p[j] => i = j
      /\ \A k \in 1 .. n : \E i \in 1 .. n : p[i] = k
  BY <1>1, OrderPermutes
<1>3. f = [i \in 1 .. n |-> e[p[i]]] BY <1>1 DEF Arranged
<1> HIDE DEF f
<1>4. DOMAIN f = 1 .. n /\ Len(f) = n /\ \A i \in 1 .. n : f[i] = e[p[i]]
  BY <1>1, <1>3
<1>5. Results(f) BY <1>1, <1>2, <1>4 DEF Results
<1>6. Permutes(p, n) BY <1>1, <1>2 DEF Permutes
<1>7. Reordered(e, f, p, n) BY <1>1, <1>4, <1>5, <1>6 DEF Reordered
<1> QED BY <1>7 DEF f

\* As many places lead to some places as there are.
LEMMA CountAgain ==
  ASSUME NEW n, NEW p, Permutes(p, n), NEW X, NEW Y, PlacesFollow(X, Y, p, n)
  PROVE  Cardinality(Y) = Cardinality(X)
<1> DEFINE place == [i \in Y |-> p[i]]
<1>1. place \in [Y -> X] BY DEF PlacesFollow
<1>2. \A i, j \in Y : place[i] = place[j] => i = j BY DEF PlacesFollow, Permutes
<1>3. \A k \in X : \E i \in Y : place[i] = k BY DEF PlacesFollow, Permutes
<1>4. IsFiniteSet(X)
  <2>1. n \in Nat BY DEF Permutes
  <2>2. IsFiniteSet(1 .. n) BY <2>1, FirstNumbers
  <2> QED BY <2>2, FS_Subset DEF PlacesFollow
<1> HIDE DEF place
<1> QED BY <1>1, <1>2, <1>3, <1>4, AsMany

\* Numbers in another order add up to the same.
LEMMA SumAgain ==
  ASSUME NEW n, NEW p, Permutes(p, n), NEW x, NEW y, NumbersFollow(x, y, p, n)
  PROVE  SumFunctionOnSet(y, 1 .. n) = SumFunctionOnSet(x, 1 .. n)
<1> DEFINE b == [i \in 1 .. n |-> p[i]]
<1>1. PICK N : N = 1 .. n OBVIOUS
<1>2. IsFiniteSet(N)
  <2>1. n \in Nat BY DEF Permutes
  <2> QED BY <1>1, <2>1, FirstNumbers
<1>3. b \in [N -> N] BY <1>1 DEF Permutes
<1>4. \A i, j \in N : b[i] = b[j] => i = j BY <1>1 DEF Permutes
<1>5. \A k \in N : \E i \in N : b[i] = k BY <1>1 DEF Permutes
<1>6. \A i \in N : y[i] \in Int /\ y[i] = x[b[i]] BY <1>1 DEF Permutes, NumbersFollow
<1> HIDE DEF b
<1>7. SumFunctionOnSet(y, N) = SumFunctionOnSet(x, N)
  BY <1>2, <1>3, <1>4, <1>5, <1>6, SumRenamed
<1> QED BY <1>1, <1>7

\* The sum of a module's instance is this one.
LEMMA SameSums == ASSUME NEW f, NEW A PROVE Member!SumFunctionOnSet(f, A) = SumFunctionOnSet(f, A)
BY DEF Member!SumFunctionOnSet, Member!FoldFunctionOnSet, Member!MapThenFoldSet,
       SumFunctionOnSet, FoldFunctionOnSet, MapThenFoldSet

\* What is counted of the results of a kind.
LEMMA PartAgain ==
  ASSUME NEW n, NEW p, NEW e, NEW f, Reordered(e, f, p, n),
         NEW kinds, NEW again, \A i \in 1 .. n : again[i] = kinds[p[i]], NEW kind
  PROVE  Member!Part(f, again, kind) = Member!Part(e, kinds, kind)
<1> DEFINE X == {i \in DOMAIN e : kinds[i] = kind}
           Y == {i \in DOMAIN f : again[i] = kind}
           V == {i \in X : e[i].won}
           W == {i \in Y : f[i].won}
           count(A) == Cardinality(A)
<1>1. /\ Permutes(p, n) /\ Results(e) /\ DOMAIN e = 1 .. n /\ DOMAIN f = 1 .. n
      /\ \A i \in 1 .. n : p[i] \in 1 .. n /\ f[i] = e[p[i]]
  BY DEF Reordered, Permutes
<1>2. PlacesFollow(X, Y, p, n) /\ PlacesFollow(V, W, p, n) BY <1>1 DEF PlacesFollow
<1>3. /\ Member!Part(e, kinds, kind)
           = [count |-> count(X), victories |-> count(V), defeats |-> count(X) - count(V),
              victoriesPct |-> Member!PercentOr0(count(V), count(X)),
              defeatsPct |-> Member!PercentOr0(count(X) - count(V), count(X))]
      /\ Member!Part(f, again, kind)
           = [count |-> count(Y), victories |-> count(W), defeats |-> count(Y) - count(W),
              victoriesPct |-> Member!PercentOr0(count(W), count(Y)),
              defeatsPct |-> Member!PercentOr0(count(Y) - count(W), count(Y))]
  BY SameSizes DEF Member!Part
<1> HIDE DEF X, Y, V, W
<1>4. count(Y) = count(X) BY <1>1, <1>2, CountAgain
<1>5. count(W) = count(V) BY <1>1, <1>2, CountAgain
<1> QED BY <1>3, <1>4, <1>5

\* Those that ended with some sets, won or lost, and the sets.
Ended(e, for, against) == Cardinality({i \in DOMAIN e : e[i].setFor = for /\ e[i].setAgainst = against})
EndedSo(e, won, for, against) ==
  Cardinality({i \in DOMAIN e : e[i].won = won /\ e[i].setFor = for /\ e[i].setAgainst = against})

\* As many results ended that way.
LEMMA EndedAgain ==
  ASSUME NEW n, NEW p, NEW e, NEW f, Reordered(e, f, p, n),
         NEW won, NEW for, NEW against
  PROVE  /\ Ended(f, for, against) = Ended(e, for, against)
         /\ EndedSo(f, won, for, against) = EndedSo(e, won, for, against)
<1> DEFINE X == {i \in DOMAIN e : e[i].setFor = for /\ e[i].setAgainst = against}
           Y == {i \in DOMAIN f : f[i].setFor = for /\ f[i].setAgainst = against}
           V == {i \in DOMAIN e : e[i].won = won /\ e[i].setFor = for /\ e[i].setAgainst = against}
           W == {i \in DOMAIN f : f[i].won = won /\ f[i].setFor = for /\ f[i].setAgainst = against}
<1>1. /\ Permutes(p, n) /\ Results(e) /\ DOMAIN e = 1 .. n /\ DOMAIN f = 1 .. n
      /\ \A i \in 1 .. n : p[i] \in 1 .. n /\ f[i] = e[p[i]]
  BY DEF Reordered, Permutes
<1>2. PlacesFollow(X, Y, p, n) /\ PlacesFollow(V, W, p, n) BY <1>1 DEF PlacesFollow
<1>3. /\ Ended(f, for, against) = Cardinality(Y) /\ Ended(e, for, against) = Cardinality(X)
      /\ EndedSo(f, won, for, against) = Cardinality(W)
      /\ EndedSo(e, won, for, against) = Cardinality(V)
  BY DEF Ended, EndedSo
<1> HIDE DEF X, Y, V, W
<1>4. Cardinality(Y) = Cardinality(X) BY <1>1, <1>2, CountAgain
<1>5. Cardinality(W) = Cardinality(V) BY <1>1, <1>2, CountAgain
<1> QED BY <1>3, <1>4, <1>5

\* As many sets were played.
LEMMA SetsAgain ==
  ASSUME NEW n, NEW p, NEW e, NEW f, Reordered(e, f, p, n)
  PROVE  Member!SetCounts(f) = Member!SetCounts(e)
<1> DEFINE x == [i \in 1 .. n |-> e[i].setFor]
           y == [i \in 1 .. n |-> f[i].setFor]
           v == [i \in 1 .. n |-> e[i].setAgainst]
           w == [i \in 1 .. n |-> f[i].setAgainst]
           Sum(z) == SumFunctionOnSet(z, 1 .. n)
<1>1. /\ Permutes(p, n) /\ Results(e) /\ DOMAIN e = 1 .. n /\ DOMAIN f = 1 .. n
      /\ \A i \in 1 .. n : p[i] \in 1 .. n /\ f[i] = e[p[i]]
  BY DEF Reordered, Permutes
<1>2. \A i \in 1 .. n : x[i] \in Int /\ v[i] \in Int
  <2>1. \A i \in 1 .. n : e[i].setFor \in Nat /\ e[i].setAgainst \in Nat BY <1>1 DEF Results
  <2>2. \A i \in 1 .. n : x[i] = e[i].setFor /\ v[i] = e[i].setAgainst OBVIOUS
  <2> HIDE DEF x, v
  <2> QED BY <2>1, <2>2
<1>3. NumbersFollow(x, y, p, n) /\ NumbersFollow(v, w, p, n)
  BY <1>1, <1>2 DEF NumbersFollow
<1>4. Sum(y) = Sum(x)
  <2> HIDE DEF x, y
  <2> QED BY <1>1, <1>3, SumAgain
<1>5. Sum(w) = Sum(v)
  <2> HIDE DEF v, w
  <2> QED BY <1>1, <1>3, SumAgain
<1>6. /\ Member!SetCounts(e) = [total |-> Sum(x) + Sum(v), won |-> Sum(x), lost |-> Sum(v),
                           wonPct |-> Member!Percent(Sum(x), Sum(x) + Sum(v)),
                           lostPct |-> Member!Percent(Sum(v), Sum(x) + Sum(v))]
      /\ Member!SetCounts(f) = [total |-> Sum(y) + Sum(w), won |-> Sum(y), lost |-> Sum(w),
                           wonPct |-> Member!Percent(Sum(y), Sum(y) + Sum(w)),
                           lostPct |-> Member!Percent(Sum(w), Sum(y) + Sum(w))]
  BY <1>1, SameSums DEF Member!SetCounts, Member!Sets
<1> HIDE DEF Sum
<1> QED BY <1>4, <1>5, <1>6

\* The results of different times, those before one of them, and their order.
Distinct(e) == \A i, j \in DOMAIN e : e[i].at = e[j].at => i = j
Before1(e, n, i) == {j \in 1 .. n : e[j].at < e[i].at}

InTime(e, n, s) ==
  /\ s \in [1 .. n -> 1 .. n] /\ s \in Seq(1 .. n) /\ Len(s) = n /\ DOMAIN s = 1 .. n
  /\ \A k \in 1 .. n : Cardinality(Before1(e, n, s[k])) = k - 1
  /\ \A i, j \in 1 .. n : Cardinality(Before1(e, n, i)) = Cardinality(Before1(e, n, j)) => i = j
  /\ \A j, k \in 1 .. n : j < k <=> e[s[j]].at < e[s[k]].at
  /\ \A i \in 1 .. n : \E k \in 1 .. n : s[k] = i

\* Without ties the sorted places are in the order of time.
LEMMA SortedInTime ==
  ASSUME NEW e, Results(e), Distinct(e), NEW n, n = Len(e)
  PROVE  InTime(e, n, Member!SortedIndices(e))
<1> DEFINE Sooner(i, j) == e[i].at < e[j].at \/ (e[i].at = e[j].at /\ i < j)
           places == 1 .. n
           below == [i \in places |-> Before1(e, n, i)]
           s == Member!SortedIndices(e)
<1>1. n \in Nat /\ DOMAIN e = places BY DEF Results
<1>2. \A i \in places : e[i].at \in Int BY <1>1 DEF Results
<1>3. \A i, j \in places : e[i].at = e[j].at => i = j BY <1>1 DEF Distinct
<1>4. IsFiniteSet(places) /\ Cardinality(places) = n
  <2>1. n \in Nat BY <1>1
  <2> QED BY <2>1, FirstNumbers
<1>5. s = [k \in 1 .. Cardinality(DOMAIN e) |->
             CHOOSE x \in DOMAIN e : Cardinality({y \in DOMAIN e : Sooner(y, x)}) = k - 1]
  BY DEF Member!SortedIndices, Member!InOrder, Member!Cardinality, Cardinality
<1>6. \A i \in places : {j \in places : Sooner(j, i)} = below[i]
  <2>1. \A i, j \in places : Sooner(j, i) <=> e[j].at < e[i].at BY <1>2, <1>3
  <2>2. \A i \in places : below[i] = {j \in places : e[j].at < e[i].at} BY DEF Before1
  <2> HIDE DEF Sooner, below, places
  <2> QED BY <2>1, <2>2
<1>7. below \in [places -> SUBSET places] BY DEF Before1
<1>8. \A i, j \in places : j \in below[i] <=> e[j].at < e[i].at BY DEF Before1
<1>9. \A i \in places : below[i] = Before1(e, n, i) OBVIOUS
<1>10. s = [k \in 1 .. n |-> CHOOSE x \in places : Cardinality({y \in places : Sooner(y, x)}) = k - 1]
  <2> HIDE DEF Sooner, s, places
  <2> QED BY <1>1, <1>4, <1>5
<1>11. PICK P : P = places OBVIOUS
<1> HIDE DEF below, s, Sooner
<1>12. /\ \A x \in P : x \notin below[x]
       /\ \A x, y \in P : x = y \/ x \in below[y] \/ y \in below[x]
       /\ \A x, y \in P : x \in below[y] => below[x] \subseteq below[y]
  <2> HIDE DEF places
  <2>1. \A x \in P : x \notin below[x] BY <1>2, <1>8, <1>11
  <2>2. \A x, y \in P : x = y \/ x \in below[y] \/ y \in below[x] BY <1>2, <1>3, <1>8, <1>11
  <2>3. ASSUME NEW x \in P, NEW y \in P, x \in below[y], NEW z \in below[x] PROVE z \in below[y]
    <3>1. z \in P BY <1>7, <1>11
    <3>2. e[x].at \in Int /\ e[y].at \in Int /\ e[z].at \in Int BY <1>2, <1>11, <3>1
    <3> QED BY <1>8, <1>11, <2>3, <3>1, <3>2
  <2> QED BY <2>1, <2>2, <2>3
<1>13. IsFiniteSet(P) /\ Cardinality(P) = n /\ below \in [P -> SUBSET P]
  BY <1>4, <1>7, <1>11
<1>14. \A k \in 1 .. n : \E x \in P : Cardinality(below[x]) = k - 1
  BY <1>12, <1>13, PlacesFilled
<1>15. ASSUME NEW k \in 1 .. n PROVE s[k] \in P /\ Cardinality(below[s[k]]) = k - 1
  <2>1. \E x \in P : Cardinality({y \in P : Sooner(y, x)}) = k - 1 BY <1>6, <1>11, <1>14
  <2>2. s[k] = CHOOSE x \in P : Cardinality({y \in P : Sooner(y, x)}) = k - 1 BY <1>10, <1>11
  <2>3. s[k] \in P /\ Cardinality({y \in P : Sooner(y, s[k])}) = k - 1 BY <2>1, <2>2
  <2> QED BY <1>6, <1>11, <2>3
<1>16. s = [k \in 1 .. n |-> s[k]]
  <2> DEFINE G(k) == CHOOSE x \in places : Cardinality({y \in places : Sooner(y, x)}) = k - 1
  <2>1. s = [k \in 1 .. n |-> G(k)] BY <1>10
  <2> HIDE DEF G
  <2> QED BY <2>1
<1>17. InItsOrder(P, below, s)
  <2>1. s \in [1 .. n -> P] BY <1>15, <1>16
  <2> QED BY <1>13, <1>15, <2>1 DEF InItsOrder
<1>18. /\ s \in Seq(P) /\ Len(s) = n
       /\ \A i, j \in 1 .. n : i < j <=> s[i] \in below[s[j]]
       /\ \A x \in P : \E i \in 1 .. n : s[i] = x
  BY <1>12, <1>13, <1>17, OrderedIs
<1>19. \A x, y \in P : Cardinality(below[x]) = Cardinality(below[y]) => x = y
  <2>1. /\ \A x \in P : Cardinality(below[x]) \in 0 .. Cardinality(P) - 1
        /\ \A x, y \in P : x \in below[y] <=> Cardinality(below[x]) < Cardinality(below[y])
    BY <1>12, <1>13, RanksFill
  <2> QED BY <1>12, <2>1
<1>20. s \in [places -> places] /\ DOMAIN s = places
  <2>1. s \in [1 .. n -> P] BY <1>15, <1>16
  <2> QED BY <1>11, <2>1
<1>21. \A k \in places : Cardinality(Before1(e, n, s[k])) = k - 1 BY <1>9, <1>11, <1>15
<1>22. \A i, j \in places :
         Cardinality(Before1(e, n, i)) = Cardinality(Before1(e, n, j)) => i = j
  BY <1>9, <1>11, <1>19
<1>23. \A j, k \in places : j < k <=> e[s[j]].at < e[s[k]].at
  BY <1>8, <1>11, <1>15, <1>18
<1>24. InTime(e, n, s) BY <1>11, <1>18, <1>20, <1>21, <1>22, <1>23 DEF InTime
<1> QED BY <1>24 DEF s

\* The same results are sorted alike, whatever their order.
LEMMA SortedAgain ==
  ASSUME NEW n, NEW p, NEW e, NEW f, Reordered(e, f, p, n), Distinct(e),
         NEW s, s = Member!SortedIndices(e), NEW t, t = Member!SortedIndices(f)
  PROVE  InTime(e, n, s) /\ InTime(f, n, t) /\ \A k \in 1 .. n : p[t[k]] = s[k] /\ f[t[k]] = e[s[k]]
<1>1. /\ Permutes(p, n) /\ Results(e) /\ Results(f) /\ DOMAIN e = 1 .. n /\ DOMAIN f = 1 .. n
      /\ Len(e) = n /\ Len(f) = n
      /\ \A i \in 1 .. n : p[i] \in 1 .. n /\ f[i] = e[p[i]]
      /\ \A i, j \in 1 .. n : p[i] = p[j] => i = j
  BY DEF Reordered, Permutes
<1>2. Distinct(f) BY <1>1 DEF Distinct
<1>3. InTime(e, n, s) /\ InTime(f, n, t) BY <1>1, <1>2, SortedInTime
<1>4. ASSUME NEW k \in 1 .. n PROVE p[t[k]] = s[k] /\ f[t[k]] = e[s[k]]
  <2>1. t[k] \in 1 .. n /\ s[k] \in 1 .. n BY <1>3 DEF InTime
  <2>2. p[t[k]] \in 1 .. n /\ f[t[k]] = e[p[t[k]]] BY <1>1, <2>1
  <2>3. PlacesFollow(Before1(e, n, p[t[k]]), Before1(f, n, t[k]), p, n)
    BY <1>1, <2>2 DEF PlacesFollow, Before1
  <2>4. Cardinality(Before1(f, n, t[k])) = Cardinality(Before1(e, n, p[t[k]]))
    BY <1>1, <2>3, CountAgain
  <2>5. Cardinality(Before1(f, n, t[k])) = k - 1 /\ Cardinality(Before1(e, n, s[k])) = k - 1
    BY <1>3 DEF InTime
  <2>6. \A i, j \in 1 .. n :
          Cardinality(Before1(e, n, i)) = Cardinality(Before1(e, n, j)) => i = j
    BY <1>3 DEF InTime
  <2>7. p[t[k]] = s[k] BY <2>1, <2>2, <2>4, <2>5, <2>6
  <2> QED BY <2>2, <2>7
<1> QED BY <1>3, <1>4

\* What is known of the streaks after each of the results in their order.
Accs == [win : Nat, loss : Nat, best : Nat, worst : Nat]
NoStreak == [win |-> 0, loss |-> 0, best |-> 0, worst |-> 0]
Larger(a, b) == IF a < b THEN b ELSE a
Streak(acc, won) ==
  IF won THEN [win |-> acc.win + 1, loss |-> 0, best |-> Larger(acc.best, acc.win + 1),
               worst |-> acc.worst]
  ELSE [win |-> 0, loss |-> acc.loss + 1, best |-> acc.best,
        worst |-> Larger(acc.worst, acc.loss + 1)]

HasStreaks(won, n, h) ==
  /\ h \in [0 .. n -> Accs] /\ h[0] = NoStreak
  /\ \A k \in 1 .. n : h[k] = Streak(h[k - 1], won[k])

\* The last results that are alike.
LastAlike(won, n, which) == {m \in 0 .. n : \A k \in n - m + 1 .. n : won[k] = which}

\* Which of the results, in some order, were won.
WonIn(e, s, n) == [k \in 1 .. n |-> e[s[k]].won]

\* Some places in some order.
ListsPlaces(s, n) == s \in [1 .. n -> 1 .. n] /\ DOMAIN s = 1 .. n /\ Len(s) = n

\* The streaks told of results of which this is known.
StreaksFrom(won, n, h) ==
  [currentWin |-> Max(LastAlike(won, n, TRUE)), bestWin |-> h[n].best,
   currentLoss |-> Max(LastAlike(won, n, FALSE)), worstLoss |-> h[n].worst]

\* The larger of two numbers.
LEMMA LargerIs == ASSUME NEW a \in Nat, NEW b \in Nat PROVE Max({a, b}) = Larger(a, b)
<1>1. PICK A : A = {a, b} OBVIOUS
<1>2. IsFiniteSet({a}) BY FS_Singleton
<1>3. IsFiniteSet({a} \cup {b}) BY <1>2, FS_AddElement
<1>4. A = {a} \cup {b} /\ A \subseteq Int /\ A # {} BY <1>1
<1>5. IsFiniteSet(A) BY <1>3, <1>4, Zenon
<1>6. Max(A) \in A /\ \A k \in A : k <= Max(A) BY <1>4, <1>5, LargestIs
<1>7. (Max(A) = a \/ Max(A) = b) /\ a <= Max(A) /\ b <= Max(A) BY <1>1, <1>6
<1>8. Max(A) = Larger(a, b) BY <1>7 DEF Larger
<1> QED BY <1>1, <1>8

\* What is known after a result that was won.
LEMMA AfterWon ==
  ASSUME NEW acc \in Accs, NEW l
  PROVE  [acc EXCEPT !.win = acc.win + 1, !.loss = 0, !.best = l]
           = [win |-> acc.win + 1, loss |-> 0, best |-> l, worst |-> acc.worst]
<1> DEFINE r1 == [acc EXCEPT !.win = acc.win + 1]
           r2 == [r1 EXCEPT !.loss = 0]
           r3 == [r2 EXCEPT !.best = l]
<1>1. [acc EXCEPT !.win = acc.win + 1, !.loss = 0, !.best = l] = r3 OBVIOUS
<1>2. r1 = [win |-> acc.win + 1, loss |-> acc.loss, best |-> acc.best, worst |-> acc.worst]
  BY DEF Accs
<1> HIDE DEF r1
<1>3. r2 = [win |-> acc.win + 1, loss |-> 0, best |-> acc.best, worst |-> acc.worst] BY <1>2
<1> HIDE DEF r2
<1>4. r3 = [win |-> acc.win + 1, loss |-> 0, best |-> l, worst |-> acc.worst] BY <1>3
<1> QED BY <1>1, <1>4

\* What is known after one that was lost.
LEMMA AfterLost ==
  ASSUME NEW acc \in Accs, NEW l
  PROVE  [acc EXCEPT !.loss = acc.loss + 1, !.win = 0, !.worst = l]
           = [win |-> 0, loss |-> acc.loss + 1, best |-> acc.best, worst |-> l]
<1> DEFINE r1 == [acc EXCEPT !.loss = acc.loss + 1]
           r2 == [r1 EXCEPT !.win = 0]
           r3 == [r2 EXCEPT !.worst = l]
<1>1. [acc EXCEPT !.loss = acc.loss + 1, !.win = 0, !.worst = l] = r3 OBVIOUS
<1>2. r1 = [win |-> acc.win, loss |-> acc.loss + 1, best |-> acc.best, worst |-> acc.worst]
  BY DEF Accs
<1> HIDE DEF r1
<1>3. r2 = [win |-> 0, loss |-> acc.loss + 1, best |-> acc.best, worst |-> acc.worst] BY <1>2
<1> HIDE DEF r2
<1>4. r3 = [win |-> 0, loss |-> acc.loss + 1, best |-> acc.best, worst |-> l] BY <1>3
<1> QED BY <1>1, <1>4

\* The fold over the results is what is known after the last of them.
LEMMA StreaksAre ==
  ASSUME NEW e, Results(e), NEW n, n = Len(e), NEW s, ListsPlaces(s, n),
         NEW won, won = WonIn(e, s, n)
  PROVE  \E h : HasStreaks(won, n, h) /\ Member!CalculateStreaks(e, s) = StreaksFrom(won, n, h)
<1> DEFINE D == 1 .. n
           Step(acc, index) ==
             IF e[index].won
             THEN [acc EXCEPT !.win = acc.win + 1, !.loss = 0,
                              !.best = Member!Max({acc.best, acc.win + 1})]
             ELSE [acc EXCEPT !.loss = acc.loss + 1, !.win = 0,
                              !.worst = Member!Max({acc.worst, acc.loss + 1})]
           pick == [T \in SUBSET D |-> Max(T)]
           next == [k \in D |-> [acc \in Accs |-> Streak(acc, won[k])]]
           Body(T, h) == IF T = {} THEN [win |-> 0, loss |-> 0, best |-> 0, worst |-> 0]
                         ELSE Step(h[T \ {Member!Max(T)}], s[Member!Max(T)])
           all == CHOOSE h : h = [T \in SUBSET D |-> Body(T, h)]
<1>0. s \in [1 .. n -> 1 .. n] /\ DOMAIN s = 1 .. n /\ Len(s) = n BY DEF ListsPlaces
<1>1. n \in Nat /\ \A i \in D : e[i].won \in BOOLEAN BY DEF Results
<1>2. IsFiniteSet(D) /\ D \subseteq Int BY <1>1, FirstNumbers
<1>3. \A T \in SUBSET D : T # {} => pick[T] \in T
  <2>1. ASSUME NEW T \in SUBSET D, T # {} PROVE Max(T) \in T
    <3>1. IsFiniteSet(T) /\ T \subseteq Int BY <1>2, FS_Subset
    <3> QED BY <2>1, <3>1, LargestIs
  <2> QED BY <2>1
<1>4. \A acc \in Accs, w \in BOOLEAN : Streak(acc, w) \in Accs
  BY DEF Accs, Streak, Larger
<1>5. \A k \in D : won[k] = e[s[k]].won /\ won[k] \in BOOLEAN BY <1>0, <1>1 DEF WonIn
<1>6. ASSUME NEW acc \in Accs, NEW k \in D PROVE Step(acc, s[k]) = Streak(acc, won[k])
  <2>1. /\ acc.win \in Nat /\ acc.loss \in Nat /\ acc.best \in Nat /\ acc.worst \in Nat
        /\ acc = [win |-> acc.win, loss |-> acc.loss, best |-> acc.best, worst |-> acc.worst]
    BY DEF Accs
  <2>2. /\ Member!Max({acc.best, acc.win + 1}) = Larger(acc.best, acc.win + 1)
        /\ Member!Max({acc.worst, acc.loss + 1}) = Larger(acc.worst, acc.loss + 1)
    <3>1. acc.win + 1 \in Nat /\ acc.loss + 1 \in Nat BY <2>1
    <3>2. Member!Max({acc.best, acc.win + 1}) = Max({acc.best, acc.win + 1})
          /\ Member!Max({acc.worst, acc.loss + 1}) = Max({acc.worst, acc.loss + 1})
      BY SameSizes
    <3> QED BY <2>1, <3>1, <3>2, LargerIs
  <2>3. CASE e[s[k]].won
    <3>1. Step(acc, s[k]) = [acc EXCEPT !.win = acc.win + 1, !.loss = 0,
                                        !.best = Larger(acc.best, acc.win + 1)]
      BY <2>2, <2>3
    <3>2. [acc EXCEPT !.win = acc.win + 1, !.loss = 0, !.best = Larger(acc.best, acc.win + 1)]
            = [win |-> acc.win + 1, loss |-> 0, best |-> Larger(acc.best, acc.win + 1),
               worst |-> acc.worst]
      BY <2>1, AfterWon
    <3> QED BY <1>5, <2>3, <3>1, <3>2 DEF Streak
  <2>4. CASE ~ e[s[k]].won
    <3>1. Step(acc, s[k]) = [acc EXCEPT !.loss = acc.loss + 1, !.win = 0,
                                        !.worst = Larger(acc.worst, acc.loss + 1)]
      BY <2>2, <2>4
    <3>2. [acc EXCEPT !.loss = acc.loss + 1, !.win = 0, !.worst = Larger(acc.worst, acc.loss + 1)]
            = [win |-> 0, loss |-> acc.loss + 1, best |-> acc.best,
               worst |-> Larger(acc.worst, acc.loss + 1)]
      BY <2>1, AfterLost
    <3> QED BY <1>5, <2>4, <3>1, <3>2 DEF Streak
  <2> QED BY <2>3, <2>4
<1>7. next \in [D -> [Accs -> Accs]] BY <1>4, <1>5
<1>8. NoStreak \in Accs BY DEF NoStreak, Accs
<1>9. PICK g \in [SUBSET D -> Accs] : \A T \in SUBSET D :
         g[T] = IF T = {} THEN NoStreak ELSE next[pick[T]][g[T \ {pick[T]}]]
  <2> HIDE DEF pick, next, D
  <2>1. Foldable(D, Accs, NoStreak, next, pick) BY <1>2, <1>3, <1>7, <1>8, FoldExists
  <2> QED BY <2>1 DEF Foldable
<1>10. ASSUME NEW T \in SUBSET D PROVE g[T] = Body(T, g)
  <2>1. CASE T = {} BY <1>9, <2>1 DEF NoStreak
  <2>2. CASE T # {}
    <3>1. pick[T] \in T /\ pick[T] = Member!Max(T) BY <1>3, <2>2, SameSizes
    <3>2. g[T] = next[pick[T]][g[T \ {pick[T]}]] BY <1>9, <2>2
    <3>3. g[T \ {pick[T]}] \in Accs /\ pick[T] \in D BY <3>1
    <3> HIDE DEF pick, D, Step
    <3>4. next[pick[T]][g[T \ {pick[T]}]] = Streak(g[T \ {pick[T]}], won[pick[T]]) BY <3>3
    <3>5. Step(g[T \ {pick[T]}], s[pick[T]]) = Streak(g[T \ {pick[T]}], won[pick[T]])
      BY <1>6, <3>3
    <3> QED BY <2>2, <3>1, <3>2, <3>4, <3>5
  <2> QED BY <2>1, <2>2
<1>11. g = [T \in SUBSET D |-> Body(T, g)]
  <2> HIDE DEF Body, D
  <2> QED BY <1>10
<1>12. all = [T \in SUBSET D |-> Body(T, all)] BY <1>11
<1>13. Member!CalculateStreaks(e, s) =
         [currentWin |-> Member!CurrentStreak(e, s, TRUE), bestWin |-> all[D].best,
          currentLoss |-> Member!CurrentStreak(e, s, FALSE), worstLoss |-> all[D].worst]
  BY <1>0 DEF Member!CalculateStreaks, Member!FoldLeft, Member!MapThenFoldSet
<1>14. /\ Member!CurrentStreak(e, s, TRUE) = Max(LastAlike(won, n, TRUE))
       /\ Member!CurrentStreak(e, s, FALSE) = Max(LastAlike(won, n, FALSE))
  <2>1. ASSUME NEW which \in BOOLEAN
        PROVE  Member!CurrentStreak(e, s, which) = Max(LastAlike(won, n, which))
    <3>1. Member!CurrentStreak(e, s, which)
            = Member!Max({m \in 0 .. n : \A k \in n - m + 1 .. n : e[s[k]].won = which})
      BY <1>0 DEF Member!CurrentStreak
    <3>2. {m \in 0 .. n : \A k \in n - m + 1 .. n : e[s[k]].won = which} = LastAlike(won, n, which)
      <4>1. \A m \in 0 .. n : \A k \in n - m + 1 .. n : k \in 1 .. n BY <1>1
      <4> QED BY <1>5, <4>1 DEF LastAlike
    <3> QED BY <3>1, <3>2, SameSizes
  <2> QED BY <2>1
<1> DEFINE h == [k \in 0 .. n |-> all[1 .. k]]
<1>15. ASSUME NEW k \in 1 .. n PROVE all[1 .. k] = Step(all[1 .. k - 1], s[k])
  <2>0. k \in Int /\ 1 <= k /\ k <= n BY <1>1
  <2>1. 1 .. k \in SUBSET D /\ 1 .. k # {}
    <3>1. \A j \in 1 .. k : j \in D BY <1>1, <2>0
    <3>2. k \in 1 .. k BY <2>0
    <3> QED BY <3>1, <3>2
  <2>2. all[1 .. k] = Step(all[(1 .. k) \ {Member!Max(1 .. k)}], s[Member!Max(1 .. k)])
    <3> HIDE DEF all, Step
    <3> QED BY <1>12, <2>1
  <2>3. Member!Max(1 .. k) = k
    <3>1. PICK P : P = 1 .. k OBVIOUS
    <3>2. IsFiniteSet(P) /\ P \subseteq Int /\ P # {} BY <1>2, <2>1, <3>1, FS_Subset
    <3>3. Max(P) \in P /\ \A j \in P : j <= Max(P) BY <3>2, LargestIs
    <3>4. Max(P) = k BY <3>1, <3>3
    <3>5. Member!Max(P) = Max(P) BY SameSizes
    <3> QED BY <3>1, <3>4, <3>5
  <2>4. (1 .. k) \ {k} = 1 .. k - 1 BY <1>1
  <2> HIDE DEF Step, all
  <2> QED BY <2>2, <2>3, <2>4
<1>16. all[{}] = NoStreak BY <1>12 DEF NoStreak
<1>17. HasStreaks(won, n, h)
  <2> DEFINE A == {k \in Nat : k <= n => all[1 .. k] \in Accs}
  <2> HIDE DEF all, Step
  <2>1. 1 .. 0 = {} /\ all[1 .. 0] = NoStreak BY <1>16
  <2>2. 0 \in A BY <1>8, <2>1
  <2>3. ASSUME NEW k \in Nat, k \in A PROVE k + 1 \in A
    <3>1. CASE k + 1 <= n
      <4>1. k + 1 \in 1 .. n /\ k + 1 - 1 = k /\ k <= n BY <1>1, <3>1
      <4>2. all[1 .. k] \in Accs BY <2>3, <4>1
      <4>3. all[1 .. k + 1] = Step(all[1 .. k], s[k + 1]) BY <1>15, <4>1
      <4>4. all[1 .. k + 1] = Streak(all[1 .. k], won[k + 1]) BY <1>6, <4>1, <4>2, <4>3
      <4>5. all[1 .. k + 1] \in Accs BY <1>4, <1>5, <4>1, <4>2, <4>4
      <4> QED BY <4>5
    <3> QED BY <3>1
  <2> HIDE DEF A
  <2>4. Nat \subseteq A BY <2>2, <2>3, NatSetInduction
  <2>5. ASSUME NEW k \in 0 .. n PROVE all[1 .. k] \in Accs
    <3>1. k \in Nat /\ k <= n BY <1>1
    <3> QED BY <2>4, <3>1 DEF A
  <2>6. ASSUME NEW k \in 1 .. n PROVE all[1 .. k] = Streak(all[1 .. k - 1], won[k])
    <3>1. k - 1 \in 0 .. n BY <1>1
    <3> QED BY <1>6, <1>15, <2>5, <3>1
  <2>7. h[0] = NoStreak /\ \A k \in 1 .. n : h[k] = all[1 .. k] /\ h[k - 1] = all[1 .. k - 1]
    BY <1>1, <2>1
  <2>8. h \in [0 .. n -> Accs] BY <2>5
  <2> HIDE DEF h
  <2> QED BY <2>6, <2>7, <2>8 DEF HasStreaks
<1>18. h[n] = all[D] BY <1>1
<1> HIDE DEF all, h
<1> QED BY <1>13, <1>14, <1>17, <1>18 DEF StreaksFrom

\* There is one way to go through the results.
LEMMA OneWayThrough ==
  ASSUME NEW n \in Nat, NEW won, NEW h, NEW g, HasStreaks(won, n, h), HasStreaks(won, n, g)
  PROVE  h[n] = g[n]
<1> DEFINE A == {k \in Nat : k <= n => h[k] = g[k]}
<1>1. 0 \in A BY DEF HasStreaks
<1>2. ASSUME NEW k \in Nat, k \in A PROVE k + 1 \in A
  <2>1. CASE k + 1 <= n
    <3>1. k + 1 \in 1 .. n /\ (k + 1) - 1 = k /\ k <= n BY <2>1
    <3>2. h[k] = g[k] BY <1>2, <3>1
    <3>3. h[k + 1] = Streak(h[k], won[k + 1]) /\ g[k + 1] = Streak(g[k], won[k + 1])
      BY <3>1 DEF HasStreaks
    <3> QED BY <3>2, <3>3
  <2> QED BY <2>1
<1> HIDE DEF A
<1>3. Nat \subseteq A BY <1>1, <1>2, NatSetInduction
<1>4. n \in A BY <1>3
<1> QED BY <1>4 DEF A

\* Some results on end that were all won, and what is known of them after k.
WonThrough(won, a, b) == \A j \in a .. b : won[j]

StreakKnown(won, k, acc) ==
  /\ acc.win \in Nat /\ acc.best \in Nat /\ acc.win <= k /\ acc.win <= acc.best
  /\ WonThrough(won, k - acc.win + 1, k)
  /\ \A a \in 1 .. k : WonThrough(won, a, k) => k - a + 1 <= acc.win
  /\ \A a, b \in 1 .. k : a <= b /\ WonThrough(won, a, b) => b - a + 1 <= acc.best
  /\ acc.best = 0 \/ \E a, b \in 1 .. k : a <= b /\ WonThrough(won, a, b) /\ b - a + 1 = acc.best

\* One more result keeps what is known true.
LEMMA StreakGrows ==
  ASSUME NEW won, NEW k \in Nat, NEW acc \in Accs, StreakKnown(won, k, acc),
         won[k + 1] \in BOOLEAN
  PROVE  StreakKnown(won, k + 1, Streak(acc, won[k + 1]))
<1> DEFINE new == Streak(acc, won[k + 1])
<1>1. /\ acc.win \in Nat /\ acc.best \in Nat /\ acc.win <= k /\ acc.win <= acc.best
      /\ WonThrough(won, k - acc.win + 1, k)
  BY DEF StreakKnown
<1>2. \A a \in 1 .. k : WonThrough(won, a, k) => k - a + 1 <= acc.win BY DEF StreakKnown
<1>3. \A a, b \in 1 .. k : a <= b /\ WonThrough(won, a, b) => b - a + 1 <= acc.best
  BY DEF StreakKnown
<1>4. acc.best = 0 \/ \E a, b \in 1 .. k : a <= b /\ WonThrough(won, a, b) /\ b - a + 1 = acc.best
  BY DEF StreakKnown
<1>5. CASE won[k + 1]
  <2>1. new.win = acc.win + 1 /\ new.best = Larger(acc.best, acc.win + 1) BY <1>5 DEF Streak
  <2>2. /\ new.best \in Nat /\ new.best >= acc.best /\ new.best >= acc.win + 1
        /\ new.best = acc.best \/ new.best = acc.win + 1
    BY <1>1, <2>1 DEF Larger
  <2> HIDE DEF new
  <2>3. WonThrough(won, (k + 1) - new.win + 1, k + 1)
    <3>1. ASSUME NEW j \in (k + 1) - new.win + 1 .. k + 1 PROVE won[j]
      <4>1. j = k + 1 \/ j \in k - acc.win + 1 .. k BY <1>1, <2>1
      <4> QED BY <1>1, <1>5, <4>1 DEF WonThrough
    <3> QED BY <3>1 DEF WonThrough
  <2>4. ASSUME NEW a \in 1 .. k + 1, WonThrough(won, a, k + 1) PROVE (k + 1) - a + 1 <= new.win
    <3>1. CASE a = k + 1 BY <1>1, <2>1, <3>1
    <3>2. CASE a # k + 1
      <4>1. a \in 1 .. k BY <3>2
      <4>2. WonThrough(won, a, k) BY <2>4 DEF WonThrough
      <4>3. k - a + 1 <= acc.win BY <1>2, <4>1, <4>2
      <4> QED BY <1>1, <2>1, <4>3
    <3> QED BY <3>1, <3>2
  <2>5. ASSUME NEW a \in 1 .. k + 1, NEW b \in 1 .. k + 1, a <= b, WonThrough(won, a, b)
        PROVE  b - a + 1 <= new.best
    <3>1. CASE b = k + 1
      <4>1. b - a + 1 <= new.win BY <2>4, <2>5, <3>1
      <4> QED BY <1>1, <2>1, <2>2, <4>1
    <3>2. CASE b # k + 1
      <4>1. a \in 1 .. k /\ b \in 1 .. k BY <2>5, <3>2
      <4>2. b - a + 1 <= acc.best BY <1>3, <2>5, <4>1
      <4> QED BY <1>1, <2>2, <4>2
    <3> QED BY <3>1, <3>2
  <2>6. \E a, b \in 1 .. k + 1 : a <= b /\ WonThrough(won, a, b) /\ b - a + 1 = new.best
    <3>1. CASE new.best = acc.win + 1
      <4> DEFINE a == (k + 1) - new.win + 1
      <4>1. a \in 1 .. k + 1 /\ k + 1 \in 1 .. k + 1 /\ a <= k + 1 /\ (k + 1) - a + 1 = new.best
        BY <1>1, <2>1, <3>1
      <4>2. WonThrough(won, a, k + 1) BY <2>3
      <4> HIDE DEF a
      <4> QED BY <4>1, <4>2
    <3>2. CASE new.best = acc.best /\ new.best # acc.win + 1
      <4>1. acc.best # 0 BY <1>1, <2>2, <3>2
      <4>2. PICK a \in 1 .. k, b \in 1 .. k : a <= b /\ WonThrough(won, a, b) /\ b - a + 1 = acc.best
        BY <1>4, <4>1
      <4>3. a \in 1 .. k + 1 /\ b \in 1 .. k + 1 OBVIOUS
      <4> QED BY <3>2, <4>2, <4>3
    <3> QED BY <2>2, <3>1, <3>2
  <2>7. new.win \in Nat /\ new.win <= k + 1 /\ new.win <= new.best BY <1>1, <2>1, <2>2
  <2>8. StreakKnown(won, k + 1, new) BY <2>2, <2>3, <2>4, <2>5, <2>6, <2>7 DEF StreakKnown
  <2> QED BY <2>8 DEF new
<1>6. CASE ~won[k + 1]
  <2>1. new.win = 0 /\ new.best = acc.best BY <1>6 DEF Streak
  <2> HIDE DEF new
  <2>2. ASSUME NEW a \in 1 .. k + 1, WonThrough(won, a, k + 1) PROVE FALSE
    <3>1. k + 1 \in a .. k + 1 OBVIOUS
    <3> QED BY <1>6, <2>2, <3>1 DEF WonThrough
  <2>3. WonThrough(won, (k + 1) - new.win + 1, k + 1) BY <2>1 DEF WonThrough
  <2>4. ASSUME NEW a \in 1 .. k + 1, NEW b \in 1 .. k + 1, a <= b, WonThrough(won, a, b)
        PROVE  b - a + 1 <= new.best
    <3>1. b # k + 1 BY <2>2, <2>4
    <3>2. a \in 1 .. k /\ b \in 1 .. k BY <2>4, <3>1
    <3> QED BY <1>3, <2>1, <2>4, <3>2
  <2>5. new.best = 0 \/ \E a, b \in 1 .. k + 1 : a <= b /\ WonThrough(won, a, b) /\ b - a + 1 = new.best
    <3>1. CASE acc.best # 0
      <4>1. PICK a \in 1 .. k, b \in 1 .. k : a <= b /\ WonThrough(won, a, b) /\ b - a + 1 = acc.best
        BY <1>4, <3>1
      <4>2. a \in 1 .. k + 1 /\ b \in 1 .. k + 1 OBVIOUS
      <4> QED BY <2>1, <4>1, <4>2
    <3> QED BY <2>1, <3>1
  <2>6. new.win \in Nat /\ new.best \in Nat /\ new.win <= k + 1 /\ new.win <= new.best
    BY <1>1, <2>1
  <2>7. StreakKnown(won, k + 1, new) BY <2>2, <2>3, <2>4, <2>5, <2>6 DEF StreakKnown
  <2> QED BY <2>7 DEF new
<1> QED BY <1>5, <1>6

\* The best streak is the longest there is.
LEMMA LongestStreak ==
  ASSUME NEW n \in Nat, NEW won, \A k \in 1 .. n : won[k] \in BOOLEAN,
         NEW h, HasStreaks(won, n, h)
  PROVE  StreakKnown(won, n, h[n])
<1> DEFINE A == {k \in Nat : k <= n => StreakKnown(won, k, h[k])}
<1>1. h \in [0 .. n -> Accs] /\ h[0] = NoStreak BY DEF HasStreaks
<1>2. 0 \in A
  <2>1. NoStreak.win = 0 /\ NoStreak.best = 0 BY DEF NoStreak
  <2>2. StreakKnown(won, 0, NoStreak) BY <2>1 DEF StreakKnown, WonThrough
  <2> QED BY <1>1, <2>2
<1>3. ASSUME NEW k \in Nat, k \in A PROVE k + 1 \in A
  <2>1. CASE k + 1 <= n
    <3>1. k + 1 \in 1 .. n /\ (k + 1) - 1 = k /\ k <= n /\ k \in 0 .. n BY <2>1
    <3>2. StreakKnown(won, k, h[k]) /\ h[k] \in Accs BY <1>1, <1>3, <3>1
    <3>3. h[k + 1] = Streak(h[k], won[k + 1]) BY <3>1 DEF HasStreaks
    <3>4. won[k + 1] \in BOOLEAN BY <3>1
    <3>5. StreakKnown(won, k + 1, h[k + 1]) BY <3>2, <3>3, <3>4, StreakGrows
    <3> QED BY <3>5
  <2> QED BY <2>1
<1> HIDE DEF A
<1>4. Nat \subseteq A BY <1>2, <1>3, NatSetInduction
<1>5. n \in A BY <1>4
<1> QED BY <1>5 DEF A

\* The results between two, and the stretches of results that were all won.
ResultsBetween(e, i, j) == {k \in DOMAIN e : e[i].at <= e[k].at /\ e[k].at <= e[j].at}
WonStretches(e) ==
  {r \in {ResultsBetween(e, i, j) : i, j \in DOMAIN e} : \A k \in r : e[k].won}

\* Between the a-th and the b-th in time are those numbers a to b.
LEMMA BetweenIs ==
  ASSUME NEW e, Results(e), NEW n, n = Len(e), NEW s, InTime(e, n, s),
         NEW a \in 1 .. n, NEW b \in 1 .. n
  PROVE  /\ \A k \in 1 .. n : s[k] \in ResultsBetween(e, s[a], s[b]) <=> a <= k /\ k <= b
         /\ Cardinality(ResultsBetween(e, s[a], s[b])) = IF a > b THEN 0 ELSE b - a + 1
<1> DEFINE R == ResultsBetween(e, s[a], s[b])
           place == [k \in a .. b |-> s[k]]
<1>1. n \in Nat /\ DOMAIN e = 1 .. n BY DEF Results
<1>2. \A i \in 1 .. n : e[i].at \in Int BY <1>1 DEF Results
<1>3. \A k \in 1 .. n : s[k] \in 1 .. n /\ e[s[k]].at \in Int BY <1>2 DEF InTime
<1>4. \A j, k \in 1 .. n : j < k <=> e[s[j]].at < e[s[k]].at BY DEF InTime
<1>5. \A i \in 1 .. n : \E k \in 1 .. n : s[k] = i BY DEF InTime
<1>6. ASSUME NEW k \in 1 .. n PROVE s[k] \in R <=> a <= k /\ k <= b
  <2>1. s[k] \in R <=> e[s[a]].at <= e[s[k]].at /\ e[s[k]].at <= e[s[b]].at
    BY <1>1, <1>3 DEF ResultsBetween
  <2>2. ~(k < a) <=> e[s[a]].at <= e[s[k]].at BY <1>3, <1>4
  <2>3. ~(b < k) <=> e[s[k]].at <= e[s[b]].at BY <1>3, <1>4
  <2>4. a \in Int /\ b \in Int /\ k \in Int OBVIOUS
  <2> HIDE DEF R
  <2> QED BY <2>1, <2>2, <2>3, <2>4
<1>7. R \subseteq 1 .. n BY <1>1 DEF ResultsBetween
<1>8. a .. b \subseteq 1 .. n OBVIOUS
<1> HIDE DEF R
<1>9. ASSUME NEW i \in R PROVE \E k \in a .. b : s[k] = i
  <2>1. PICK k \in 1 .. n : s[k] = i BY <1>5, <1>7
  <2>2. a <= k /\ k <= b BY <1>6, <2>1
  <2> QED BY <2>1, <2>2
<1>10. \A k \in a .. b : s[k] \in R
  <2>1. \A k \in a .. b : k \in 1 .. n /\ a <= k /\ k <= b BY <1>8
  <2> QED BY <1>6, <2>1
<1>12. \A j, k \in 1 .. n : s[j] = s[k] => j = k
  <2> SUFFICES ASSUME NEW j \in 1 .. n, NEW k \in 1 .. n, s[j] = s[k] PROVE j = k OBVIOUS
  <2>1. ~(j < k) /\ ~(k < j) BY <1>3, <1>4
  <2> QED BY <2>1
<1>13. Cardinality(R) = Cardinality(a .. b)
  <2>1. PICK N : N = a .. b OBVIOUS
  <2>2. place \in [N -> R] BY <1>10, <2>1
  <2>3. \A j, k \in N : place[j] = place[k] => j = k BY <1>8, <1>12, <2>1
  <2>4. \A i \in R : \E k \in N : place[k] = i BY <1>9, <2>1
  <2>5. IsFiniteSet(R)
    <3>1. IsFiniteSet(1 .. n) BY <1>1, FirstNumbers
    <3> QED BY <1>7, <3>1, FS_Subset
  <2> HIDE DEF place
  <2>6. Cardinality(N) = Cardinality(R) BY <2>2, <2>3, <2>4, <2>5, AsMany
  <2> QED BY <2>1, <2>6
<1>14. Cardinality(a .. b) = IF a > b THEN 0 ELSE b - a + 1
  <2>1. a \in Int /\ b \in Int OBVIOUS
  <2> QED BY <2>1, FS_Interval
<1> QED BY <1>6, <1>13, <1>14 DEF R

\* The longest streak is the largest stretch of results that were all won.
LEMMA LongestStretch ==
  ASSUME NEW e, Results(e), NEW n, n = Len(e), NEW s, InTime(e, n, s),
         NEW won, won = WonIn(e, s, n), NEW acc, StreakKnown(won, n, acc)
  PROVE  Max({Cardinality(r) : r \in WonStretches(e)} \cup {0}) = acc.best
<1> DEFINE size == [r \in WonStretches(e) |-> Cardinality(r)]
           sizes == {Cardinality(r) : r \in WonStretches(e)}
           M == sizes \cup {0}
           best == acc.best
<1>1. n \in Nat /\ DOMAIN e = 1 .. n BY DEF Results
<1>2. \A k \in 1 .. n : s[k] \in 1 .. n /\ won[k] = e[s[k]].won BY DEF InTime, WonIn
<1>3. \A i \in 1 .. n : \E k \in 1 .. n : s[k] = i BY DEF InTime
<1>4. /\ best \in Nat
      /\ \A a, b \in 1 .. n : a <= b /\ WonThrough(won, a, b) => b - a + 1 <= best
      /\ best = 0 \/ \E a, b \in 1 .. n : a <= b /\ WonThrough(won, a, b) /\ b - a + 1 = best
  BY DEF StreakKnown
<1>5. ASSUME NEW r \in WonStretches(e) PROVE Cardinality(r) \in Nat /\ Cardinality(r) <= best
  <2>1. PICK i \in DOMAIN e, j \in DOMAIN e : r = ResultsBetween(e, i, j) BY DEF WonStretches
  <2>2. \A k \in r : e[k].won BY DEF WonStretches
  <2>3. PICK a \in 1 .. n : s[a] = i BY <1>1, <1>3
  <2>4. PICK b \in 1 .. n : s[b] = j BY <1>1, <1>3
  <2>5. r = ResultsBetween(e, s[a], s[b]) BY <2>1, <2>3, <2>4
  <2>6. /\ \A k \in 1 .. n : s[k] \in r <=> a <= k /\ k <= b
        /\ Cardinality(r) = IF a > b THEN 0 ELSE b - a + 1
    BY <2>5, BetweenIs
  <2>7. CASE a > b BY <1>4, <2>6, <2>7
  <2>8. CASE a <= b
    <3>1. \A k \in a .. b : k \in 1 .. n /\ a <= k /\ k <= b OBVIOUS
    <3>2. WonThrough(won, a, b) BY <1>2, <2>2, <2>6, <3>1 DEF WonThrough
    <3>3. b - a + 1 <= best BY <1>4, <2>8, <3>2
    <3>4. Cardinality(r) = b - a + 1 BY <2>6, <2>8
    <3> QED BY <2>8, <3>3, <3>4
  <2> QED BY <2>7, <2>8
<1>6. best \in M
  <2>1. CASE best # 0
    <3>1. PICK a \in 1 .. n, b \in 1 .. n : a <= b /\ WonThrough(won, a, b) /\ b - a + 1 = best
      BY <1>4, <2>1
    <3>0. PICK r : r = ResultsBetween(e, s[a], s[b]) OBVIOUS
    <3>2. /\ \A k \in 1 .. n : s[k] \in r <=> a <= k /\ k <= b
          /\ Cardinality(r) = IF a > b THEN 0 ELSE b - a + 1
      BY <3>0, <3>1, BetweenIs
    <3>3. Cardinality(r) = best BY <3>1, <3>2
    <3>4. r \in {ResultsBetween(e, i, j) : i, j \in DOMAIN e} BY <1>1, <1>2, <3>0
    <3>5. \A k \in a .. b : k \in 1 .. n /\ won[k] BY <3>1 DEF WonThrough
    <3>6. ASSUME NEW i \in r PROVE e[i].won
      <4>1. i \in 1 .. n BY <1>1, <3>0 DEF ResultsBetween
      <4>2. PICK k \in 1 .. n : s[k] = i BY <1>3, <4>1
      <4>3. k \in a .. b BY <3>2, <4>2
      <4> QED BY <1>2, <3>5, <4>2, <4>3
    <3>7. r \in WonStretches(e) BY <3>4, <3>6 DEF WonStretches
    <3> QED BY <3>3, <3>7
  <2> QED BY <2>1
<1>7. \A m \in M : m \in Nat /\ m <= best BY <1>4, <1>5
<1>8. IsFiniteSet(M)
  <2>1. IsFiniteSet(WonStretches(e))
    <3>1. IsFiniteSet(1 .. n) BY <1>1, FirstNumbers
    <3>2. IsFiniteSet(SUBSET (1 .. n)) BY <3>1, FS_SUBSET
    <3>3. WonStretches(e) \subseteq SUBSET (1 .. n)
      BY <1>1 DEF WonStretches, ResultsBetween
    <3> QED BY <3>2, <3>3, FS_Subset
  <2>2. IsFiniteSet({size[r] : r \in WonStretches(e)}) BY <2>1, ImageFinite
  <2>3. {size[r] : r \in WonStretches(e)} = sizes OBVIOUS
  <2>4. IsFiniteSet(sizes) BY <2>2, <2>3, Zenon
  <2> HIDE DEF sizes
  <2> QED BY <2>4, FS_AddElement
<1>9. M \subseteq Int /\ M # {} BY <1>6, <1>7
<1> HIDE DEF M
<1>10. Max(M) \in M /\ \A k \in M : k <= Max(M) BY <1>8, <1>9, LargestIs
<1>11. Max(M) = best
  <2>1. Max(M) <= best /\ Max(M) \in Nat BY <1>7, <1>10
  <2>2. best <= Max(M) BY <1>6, <1>10
  <2> QED BY <1>4, <2>1, <2>2
<1> QED BY <1>11 DEF M


\* Not both streaks are running.
LEMMA OneRuns ==
  ASSUME NEW e, Results(e), NEW s, s = Member!SortedIndices(e)
  PROVE  Member!CalculateStreaks(e, s).currentWin = 0 \/ Member!CalculateStreaks(e, s).currentLoss = 0
<1> DEFINE n == Len(e)
           Alike(which) == {m \in 0 .. n : \A k \in n - m + 1 .. n : e[s[k]].won = which}
<1>1. n \in Nat /\ DOMAIN e = 1 .. n BY DEF Results
<1>2. Len(s) = n
  <2> DEFINE G(k) == CHOOSE x \in DOMAIN e : Cardinality({y \in DOMAIN e :
               e[y].at < e[x].at \/ (e[y].at = e[x].at /\ y < x)}) = k - 1
  <2>1. s = [k \in 1 .. Cardinality(DOMAIN e) |-> G(k)]
    BY DEF Member!SortedIndices, Member!InOrder, Member!Cardinality, Cardinality
  <2>2. Cardinality(DOMAIN e) = n BY <1>1, FirstNumbers
  <2> HIDE DEF G, n
  <2> QED BY <1>1, <2>1, <2>2
<1>3. /\ Member!CalculateStreaks(e, s).currentWin = Member!CurrentStreak(e, s, TRUE)
      /\ Member!CalculateStreaks(e, s).currentLoss = Member!CurrentStreak(e, s, FALSE)
  BY DEF Member!CalculateStreaks
<1>4. ASSUME NEW which \in BOOLEAN
      PROVE  Member!CurrentStreak(e, s, which) \in Alike(which)
  <2> DEFINE A == Alike(which)
  <2>1. Member!CurrentStreak(e, s, which) = Member!Max(A) BY <1>2 DEF Member!CurrentStreak
  <2>2. 0 \in A BY <1>1
  <2>3. IsFiniteSet(A)
    <3>1. 0 \in Int /\ n \in Int BY <1>1
    <3>2. IsFiniteSet(0 .. n) BY <3>1, FS_Interval
    <3>3. A \subseteq 0 .. n OBVIOUS
    <3> QED BY <3>2, <3>3, FS_Subset
  <2>4. A \subseteq Int BY <1>1
  <2> HIDE DEF A
  <2>5. Max(A) \in A BY <2>2, <2>3, <2>4, LargestIs
  <2>6. Member!Max(A) = Max(A) BY SameSizes
  <2>7. Member!CurrentStreak(e, s, which) \in A BY <2>1, <2>5, <2>6
  <2> QED BY <2>7 DEF A
<1>5. ASSUME NEW which, NEW m \in Alike(which), m # 0 PROVE e[s[n]].won = which
  <2>1. n \in n - m + 1 .. n BY <1>1, <1>5
  <2> QED BY <2>1
<1> HIDE DEF Alike
<1>6. TRUE \in BOOLEAN /\ FALSE \in BOOLEAN OBVIOUS
<1>7. Member!CurrentStreak(e, s, TRUE) # 0 => e[s[n]].won = TRUE BY <1>4, <1>5
<1>8. Member!CurrentStreak(e, s, FALSE) # 0 => e[s[n]].won = FALSE BY <1>4, <1>5
<1> QED BY <1>3, <1>7, <1>8

\* The statistics but for the two dates that an index of 0 leaves out.
Undated(stats) ==
  [stats EXCEPT !.seasonExtremes.firstMatch = None, !.seasonExtremes.lastMatch = None]
Summary(a, b, c, d, e, x, g, h, i, j, k) ==
  [matches |-> a, tieBreaks |-> b, perRanking |-> c, sets |-> d, streaks |-> e,
   seasonExtremes |-> x, matchHistory |-> g, timeOfDay |-> h, dayOfWeek |-> i, monthly |-> j,
   matchDetails |-> k]
Extremes(u, v, w, x, y, z) ==
  [highestRanking |-> u, lowestRanking |-> v, highestPoints |-> w, lowestPoints |-> x,
   firstMatch |-> y, lastMatch |-> z]

\* The two dates are left out and nothing else.
LEMMA UndatedIs ==
  ASSUME NEW a, NEW b, NEW c, NEW d, NEW e, NEW g, NEW h, NEW i, NEW j, NEW k,
         NEW u, NEW v, NEW w, NEW x, NEW y, NEW z
  PROVE  Undated(Summary(a, b, c, d, e, Extremes(u, v, w, x, y, z), g, h, i, j, k))
           = Summary(a, b, c, d, e, Extremes(u, v, w, x, None, None), g, h, i, j, k)
<1> DEFINE r0 == Summary(a, b, c, d, e, Extremes(u, v, w, x, y, z), g, h, i, j, k)
           r1 == [r0 EXCEPT !.seasonExtremes.firstMatch = None]
           r2 == [r1 EXCEPT !.seasonExtremes.lastMatch = None]
<1>1. Undated(r0) = r2 BY DEF Undated
<1>2. r1 = Summary(a, b, c, d, e, [Extremes(u, v, w, x, y, z) EXCEPT !.firstMatch = None],
                   g, h, i, j, k)
  BY DEF Summary
<1>3. [Extremes(u, v, w, x, y, z) EXCEPT !.firstMatch = None] = Extremes(u, v, w, x, None, z)
  BY DEF Extremes
<1>4. r1 = Summary(a, b, c, d, e, Extremes(u, v, w, x, None, z), g, h, i, j, k) BY <1>2, <1>3
<1> HIDE DEF r1
<1>5. r2 = Summary(a, b, c, d, e, [Extremes(u, v, w, x, None, z) EXCEPT !.lastMatch = None],
                   g, h, i, j, k)
  BY <1>4 DEF Summary
<1>6. [Extremes(u, v, w, x, None, z) EXCEPT !.lastMatch = None] = Extremes(u, v, w, x, None, None)
  BY DEF Extremes
<1> QED BY <1>1, <1>5, <1>6

\* The streaks and the history of reordered results are the same.
LEMMA StreaksAgain ==
  ASSUME NEW n, NEW p, NEW e, NEW f, Reordered(e, f, p, n), Distinct(e),
         NEW s, s = Member!SortedIndices(e), NEW t, t = Member!SortedIndices(f)
  PROVE  /\ Member!CalculateStreaks(f, t) = Member!CalculateStreaks(e, s)
         /\ [k \in DOMAIN t |-> f[t[k]]] = [k \in DOMAIN s |-> e[s[k]]]
<1>0. PICK won : won = WonIn(e, s, n) OBVIOUS
<1>9. PICK wonToo : wonToo = WonIn(f, t, n) OBVIOUS
<1>1. /\ Results(e) /\ Results(f) /\ Len(e) = n /\ Len(f) = n /\ n \in Nat
  BY DEF Reordered, Results
<1>2. InTime(e, n, s) /\ InTime(f, n, t) /\ \A k \in 1 .. n : f[t[k]] = e[s[k]]
  BY SortedAgain
<1>3. wonToo = won BY <1>0, <1>2, <1>9 DEF WonIn
<1>4. /\ s \in [1 .. n -> 1 .. n] /\ DOMAIN s = 1 .. n /\ Len(s) = n
      /\ t \in [1 .. n -> 1 .. n] /\ DOMAIN t = 1 .. n /\ Len(t) = n
  BY <1>2 DEF InTime
<1>10. ListsPlaces(s, n) /\ ListsPlaces(t, n) BY <1>4 DEF ListsPlaces
<1>5. PICK h : HasStreaks(won, n, h) /\ Member!CalculateStreaks(e, s) = StreaksFrom(won, n, h)
  BY <1>0, <1>1, <1>10, StreaksAre
<1>6. PICK g : HasStreaks(wonToo, n, g) /\ Member!CalculateStreaks(f, t) = StreaksFrom(wonToo, n, g)
  BY <1>9, <1>1, <1>10, StreaksAre
<1>7. g[n] = h[n] BY <1>1, <1>3, <1>5, <1>6, OneWayThrough
<1>8. Member!CalculateStreaks(f, t) = Member!CalculateStreaks(e, s)
  BY <1>3, <1>5, <1>6, <1>7 DEF StreaksFrom
<1> QED BY <1>2, <1>4, <1>8

\* How often deciding sets were won and lost, and how results ended.
LEMMA EndsAgain ==
  ASSUME NEW n, NEW p, NEW e, NEW f, Reordered(e, f, p, n)
  PROVE  /\ Member!TieBreaks(f) = Member!TieBreaks(e)
         /\ Member!CalculateMatchDetails(f) = Member!CalculateMatchDetails(e)
<1>1. Len(f) = Len(e) BY DEF Reordered
<1>2. ASSUME NEW won, NEW for, NEW against
      PROVE  /\ Ended(f, for, against) = Ended(e, for, against)
             /\ EndedSo(f, won, for, against) = EndedSo(e, won, for, against)
  BY EndedAgain
<1>3. ASSUME NEW x
      PROVE  /\ Member!TieBreaks(x) =
                  [count |-> Ended(x, 3, 2) + Ended(x, 2, 3), victories |-> Ended(x, 3, 2),
                   defeats |-> Ended(x, 2, 3),
                   victoriesPct |-> Member!PercentOr0(Ended(x, 3, 2), Ended(x, 3, 2) + Ended(x, 2, 3)),
                   defeatsPct |-> Member!PercentOr0(Ended(x, 2, 3), Ended(x, 3, 2) + Ended(x, 2, 3))]
             /\ Member!CalculateMatchDetails(x) =
                  [averageSetsPerMatch |-> Member!Hundredths(Member!SetCounts(x).total, Len(x)),
                   cleanVictories |-> EndedSo(x, TRUE, 3, 0),
                   cleanDefeats |-> EndedSo(x, FALSE, 0, 3),
                   comebacks |-> EndedSo(x, TRUE, 3, 2), leadLost |-> EndedSo(x, FALSE, 2, 3)]
  BY SameSizes DEF Member!TieBreaks, Member!CalculateMatchDetails, Member!Some, Ended, EndedSo
<1>4. Member!SetCounts(f) = Member!SetCounts(e) BY SetsAgain
<1>5. /\ Ended(f, 3, 2) = Ended(e, 3, 2) /\ Ended(f, 2, 3) = Ended(e, 2, 3)
      /\ EndedSo(f, TRUE, 3, 0) = EndedSo(e, TRUE, 3, 0)
      /\ EndedSo(f, FALSE, 0, 3) = EndedSo(e, FALSE, 0, 3)
      /\ EndedSo(f, TRUE, 3, 2) = EndedSo(e, TRUE, 3, 2)
      /\ EndedSo(f, FALSE, 2, 3) = EndedSo(e, FALSE, 2, 3)
  BY <1>2
<1>6. Member!TieBreaks(f) = Member!TieBreaks(e) BY <1>3, <1>5
<1>7. Member!CalculateMatchDetails(f) = Member!CalculateMatchDetails(e) BY <1>1, <1>3, <1>4, <1>5
<1> QED BY <1>6, <1>7

\* What is counted by the hour, the day, the month and the opponent's letter.
LEMMA PartsAgain ==
  ASSUME NEW n, NEW p, NEW e, NEW f, Reordered(e, f, p, n)
  PROVE  /\ Member!Part(f, [i \in DOMAIN f |-> "all"], "all")
              = Member!Part(e, [i \in DOMAIN e |-> "all"], "all")
         /\ Member!PerRanking(f) = Member!PerRanking(e)
         /\ Member!BuildTimeOfDayStats(f) = Member!BuildTimeOfDayStats(e)
         /\ Member!BuildDayOfWeekStats(f) = Member!BuildDayOfWeekStats(e)
         /\ Member!BuildMonthlyStats(f) = Member!BuildMonthlyStats(e)
<1>1. /\ DOMAIN e = 1 .. n /\ DOMAIN f = 1 .. n /\ n \in Nat
      /\ \A i \in 1 .. n : p[i] \in 1 .. n /\ f[i] = e[p[i]]
      /\ \A k \in 1 .. n : \E i \in 1 .. n : p[i] = k
  BY DEF Reordered, Permutes
<1>2. ASSUME NEW kinds, NEW again, NEW kind, \A i \in 1 .. n : again[i] = kinds[p[i]]
      PROVE  Member!Part(f, again, kind) = Member!Part(e, kinds, kind)
  BY <1>2, PartAgain
<1>3. Member!Part(f, [i \in DOMAIN f |-> "all"], "all") = Member!Part(e, [i \in DOMAIN e |-> "all"], "all")
  <2>1. \A i \in 1 .. n : [j \in DOMAIN f |-> "all"][i] = [j \in DOMAIN e |-> "all"][p[i]] BY <1>1
  <2> QED BY <1>2, <2>1
<1>4. ASSUME NEW kind
      PROVE  /\ Member!Part(f, [i \in DOMAIN f |-> Member!TimeSlot(f[i])], kind)
                  = Member!Part(e, [i \in DOMAIN e |-> Member!TimeSlot(e[i])], kind)
             /\ Member!Part(f, [i \in DOMAIN f |-> f[i].day], kind)
                  = Member!Part(e, [i \in DOMAIN e |-> e[i].day], kind)
             /\ Member!Part(f, [i \in DOMAIN f |-> f[i].month], kind)
                  = Member!Part(e, [i \in DOMAIN e |-> e[i].month], kind)
             /\ Member!Part(f, [i \in DOMAIN f |-> f[i].ranking], kind)
                  = Member!Part(e, [i \in DOMAIN e |-> e[i].ranking], kind)
  <2>1. \A i \in 1 .. n : [j \in DOMAIN f |-> Member!TimeSlot(f[j])][i]
                            = [j \in DOMAIN e |-> Member!TimeSlot(e[j])][p[i]]
    BY <1>1
  <2>2. \A i \in 1 .. n : [j \in DOMAIN f |-> f[j].day][i] = [j \in DOMAIN e |-> e[j].day][p[i]]
    BY <1>1
  <2>3. \A i \in 1 .. n : [j \in DOMAIN f |-> f[j].month][i] = [j \in DOMAIN e |-> e[j].month][p[i]]
    BY <1>1
  <2>4. \A i \in 1 .. n :
          [j \in DOMAIN f |-> f[j].ranking][i] = [j \in DOMAIN e |-> e[j].ranking][p[i]]
    BY <1>1
  <2>5. Member!Part(f, [i \in DOMAIN f |-> Member!TimeSlot(f[i])], kind)
          = Member!Part(e, [i \in DOMAIN e |-> Member!TimeSlot(e[i])], kind)
    BY <1>2, <2>1
  <2>6. Member!Part(f, [i \in DOMAIN f |-> f[i].day], kind)
          = Member!Part(e, [i \in DOMAIN e |-> e[i].day], kind)
    BY <1>2, <2>2
  <2>7. Member!Part(f, [i \in DOMAIN f |-> f[i].month], kind)
          = Member!Part(e, [i \in DOMAIN e |-> e[i].month], kind)
    BY <1>2, <2>3
  <2>8. Member!Part(f, [i \in DOMAIN f |-> f[i].ranking], kind)
          = Member!Part(e, [i \in DOMAIN e |-> e[i].ranking], kind)
    BY <1>2, <2>4
  <2> QED BY <2>5, <2>6, <2>7, <2>8
<1>5. {f[i].ranking : i \in DOMAIN f} = {e[i].ranking : i \in DOMAIN e}
  <2>1. \A i \in DOMAIN f : p[i] \in DOMAIN e /\ f[i].ranking = e[p[i]].ranking BY <1>1
  <2>2. ASSUME NEW k \in DOMAIN e PROVE \E i \in DOMAIN f : f[i].ranking = e[k].ranking
    <3>1. PICK i \in 1 .. n : p[i] = k BY <1>1
    <3> QED BY <1>1, <3>1
  <2> QED BY <2>1, <2>2
<1>6. Member!PerRanking(f) = Member!PerRanking(e) BY <1>4, <1>5 DEF Member!PerRanking
<1>7. Member!BuildTimeOfDayStats(f) = Member!BuildTimeOfDayStats(e)
  BY <1>4 DEF Member!BuildTimeOfDayStats
<1>8. Member!BuildDayOfWeekStats(f) = Member!BuildDayOfWeekStats(e)
  BY <1>4 DEF Member!BuildDayOfWeekStats
<1>9. Member!BuildMonthlyStats(f) = Member!BuildMonthlyStats(e) BY <1>4 DEF Member!BuildMonthlyStats
<1> QED BY <1>3, <1>6, <1>7, <1>8, <1>9

\* The extremes but for their dates are those of the history.
LEMMA ExtremesAgain ==
  ASSUME NEW ranking, NEW history, NEW e, NEW f, NEW s, NEW t
  PROVE  \E u, v, w, x, a, b, c, d :
           /\ Member!CalculateSeasonExtremes(ranking, history, e, s) = Extremes(u, v, w, x, a, b)
           /\ Member!CalculateSeasonExtremes(ranking, history, f, t) = Extremes(u, v, w, x, c, d)
<1> DEFINE points == {history[i].points : i \in DOMAIN history}
           letters == ({history[i].letter : i \in DOMAIN history} \cup {ranking}) \ {None}
           DateOf(x, index) == IF index = 1 THEN None ELSE x[index].at
<1>1. ASSUME NEW x, NEW o
      PROVE Member!CalculateSeasonExtremes(ranking, history, x, o) =
              Extremes(IF letters = {} THEN None ELSE Member!Min(letters),
                       IF letters = {} THEN None ELSE Member!Max(letters),
                       Member!Max(points \cup {0}), IF points = {} THEN 0 ELSE Member!Min(points),
                       DateOf(x, o[1]), DateOf(x, o[Len(o)]))
  BY DEF Member!CalculateSeasonExtremes, Extremes
<1> HIDE DEF points, letters, DateOf
<1> QED BY <1>1

\* Reordered results have the same statistics.
LEMMA StatsAgain ==
  ASSUME NEW n, NEW p, NEW e, NEW f, Reordered(e, f, p, n), Distinct(e), n # 0,
         NEW ranking, NEW history
  PROVE  Undated(Member!GetMemberStats(ranking, history, f))
           = Undated(Member!GetMemberStats(ranking, history, e))
<1> DEFINE s == Member!SortedIndices(e)
           t == Member!SortedIndices(f)
           History(x, o) == [k \in DOMAIN o |-> x[o[k]]]
           All(x) == Member!Part(x, [i \in DOMAIN x |-> "all"], "all")
<1>1. ASSUME NEW x, Len(x) # 0
      PROVE  Member!GetMemberStats(ranking, history, x) =
               Summary(All(x), Member!TieBreaks(x), Member!PerRanking(x), Member!SetCounts(x),
                       Member!CalculateStreaks(x, Member!SortedIndices(x)),
                       Member!CalculateSeasonExtremes(ranking, history, x, Member!SortedIndices(x)),
                       History(x, Member!SortedIndices(x)), Member!BuildTimeOfDayStats(x),
                       Member!BuildDayOfWeekStats(x), Member!BuildMonthlyStats(x),
                       Member!CalculateMatchDetails(x))
  <2>1. x # <<>> BY <1>1
  <2> QED BY <2>1 DEF Member!GetMemberStats, Summary
<1>2. Len(e) # 0 /\ Len(f) # 0 BY DEF Reordered
<1>3. Member!CalculateStreaks(f, t) = Member!CalculateStreaks(e, s) /\ History(f, t) = History(e, s)
  BY StreaksAgain
<1>4. /\ Member!TieBreaks(f) = Member!TieBreaks(e)
      /\ Member!CalculateMatchDetails(f) = Member!CalculateMatchDetails(e)
      /\ Member!SetCounts(f) = Member!SetCounts(e)
  BY EndsAgain, SetsAgain
<1>5. /\ All(f) = All(e) /\ Member!PerRanking(f) = Member!PerRanking(e)
      /\ Member!BuildTimeOfDayStats(f) = Member!BuildTimeOfDayStats(e)
      /\ Member!BuildDayOfWeekStats(f) = Member!BuildDayOfWeekStats(e)
      /\ Member!BuildMonthlyStats(f) = Member!BuildMonthlyStats(e)
  BY PartsAgain
<1>6. PICK u, v, w, x, a, b, c, d :
        /\ Member!CalculateSeasonExtremes(ranking, history, e, s) = Extremes(u, v, w, x, a, b)
        /\ Member!CalculateSeasonExtremes(ranking, history, f, t) = Extremes(u, v, w, x, c, d)
  BY ExtremesAgain
<1> HIDE DEF s, t, History, All
<1>7. Member!GetMemberStats(ranking, history, e) =
        Summary(All(e), Member!TieBreaks(e), Member!PerRanking(e), Member!SetCounts(e),
                Member!CalculateStreaks(e, s),
                Extremes(u, v, w, x, a, b), History(e, s), Member!BuildTimeOfDayStats(e),
                Member!BuildDayOfWeekStats(e), Member!BuildMonthlyStats(e), Member!CalculateMatchDetails(e))
  BY <1>1, <1>2, <1>6 DEF s
<1>8. Member!GetMemberStats(ranking, history, f) =
        Summary(All(e), Member!TieBreaks(e), Member!PerRanking(e), Member!SetCounts(e),
                Member!CalculateStreaks(e, s),
                Extremes(u, v, w, x, c, d), History(e, s), Member!BuildTimeOfDayStats(e),
                Member!BuildDayOfWeekStats(e), Member!BuildMonthlyStats(e), Member!CalculateMatchDetails(e))
  BY <1>1, <1>2, <1>3, <1>4, <1>5, <1>6 DEF t
<1> QED BY <1>7, <1>8, UndatedIs

\* What StatsFollowTheDays asks, in these names.
StatsStand ==
  /\ Distinct(question.entries) =>
       /\ \A p \in Orders(Len(question.entries)) :
            Undated(Member!GetMemberStats(question.ranking, question.history,
                                     Arranged(question.entries, p)))
              = Undated(Given)
       /\ Given.streaks.bestWin
            = Max({Cardinality(r) : r \in WonStretches(question.entries)} \cup {0})
  /\ Given.streaks.currentWin = 0 \/ Given.streaks.currentLoss = 0

\* To show that is to show StatsFollowTheDays.
LEMMA StatsMeant ==
  ASSUME question.service = "stats" /\ reply # <<>> => StatsStand PROVE StatsFollowTheDays
<1> DEFINE
      Same == Distinct(question.entries)
      Alike == \A p \in Orders(Len(question.entries)) :
        [Member!GetMemberStats(question.ranking, question.history, Arranged(question.entries, p))
           EXCEPT !.seasonExtremes.firstMatch = None, !.seasonExtremes.lastMatch = None]
          = [Given EXCEPT !.seasonExtremes.firstMatch = None, !.seasonExtremes.lastMatch = None]
      Longest ==
        Given.streaks.bestWin =
          Max({Cardinality(r) :
                 r \in {x \in {{k \in DOMAIN question.entries :
                               /\ question.entries[i].at <= question.entries[k].at
                               /\ question.entries[k].at <= question.entries[j].at} :
                               i, j \in DOMAIN question.entries} :
                        \A k \in x : question.entries[k].won}} \cup {0})
      OneRunning == Given.streaks.currentWin = 0 \/ Given.streaks.currentLoss = 0
<1>1. StatsFollowTheDays <=>
        (question.service = "stats" /\ reply # <<>>
           => (Same => Alike /\ Longest) /\ OneRunning)
  BY DEF StatsFollowTheDays, Is, Distinct
<1>2. Alike <=> \A p \in Orders(Len(question.entries)) :
                  Undated(Member!GetMemberStats(question.ranking, question.history,
                                           Arranged(question.entries, p)))
                    = Undated(Given)
  BY DEF Undated
<1>3. Longest <=>
        Given.streaks.bestWin
          = Max({Cardinality(r) : r \in WonStretches(question.entries)} \cup {0})
  BY DEF WonStretches, ResultsBetween
<1> HIDE DEF Same, Alike, Longest
<1> QED BY <1>1, <1>2, <1>3 DEF StatsStand, Same

\* For any results of a member, whatever the order they came in: the same
\* statistics, and the best streak is the longest there is between two results,
\* as long as no two are of one time; at most one streak is running.
THEOREM StatsFollow == ComputationsSpec => []StatsFollowTheDays
<1>1. AnsweredInv => StatsFollowTheDays
  <2> SUFFICES ASSUME AnsweredInv, question.service = "stats", reply # <<>>
               PROVE  StatsStand
    BY StatsMeant
  <2> DEFINE e == question.entries
             n == Len(e)
             s == Member!SortedIndices(e)
  <2>1. /\ question \in StatsInputs
        /\ Given = Member!GetMemberStats(question.ranking, question.history, e)
    BY AnswerOf DEF StatsOf, Given
  <2>2. e \in Seq(Range(e)) BY <2>1, ResultsAssumption
  <2>3. Results(e)
    <3>1. DOMAIN e = 1 .. Len(e) /\ Len(e) \in Nat BY <2>2
    <3> QED BY <2>1, <3>1, ResultsAssumption DEF Results
  <2>4. n \in Nat /\ DOMAIN e = 1 .. n BY <2>3 DEF Results
  <2>5. CASE e = <<>>
    <3>1. n = 0 BY <2>5
    <3>2. \A p : Arranged(e, p) = e BY <2>5 DEF Arranged
    <3>3. Given.streaks = [currentWin |-> 0, bestWin |-> 0, currentLoss |-> 0, worstLoss |-> 0]
      BY <2>1, <2>5 DEF Member!GetMemberStats, Member!GetEmptyMemberStats
    <3>4. WonStretches(e) = {}
      <4>1. DOMAIN e = {} BY <2>4, <3>1
      <4> QED BY <4>1 DEF WonStretches
    <3>5. Max({Cardinality(r) : r \in WonStretches(e)} \cup {0}) = 0
      <4>1. {Cardinality(r) : r \in WonStretches(e)} \cup {0} = {0} BY <3>4
      <4>2. Max({0}) = 0
        <5>1. PICK zero : zero = {0} OBVIOUS
        <5>2. IsFiniteSet({0}) BY FS_Singleton
        <5>3. IsFiniteSet(zero) /\ zero \subseteq Int /\ zero # {} BY <5>1, <5>2
        <5>4. Max(zero) \in zero BY <5>3, LargestIs
        <5> QED BY <5>1, <5>4
      <4> QED BY <4>1, <4>2
    <3> QED BY <2>1, <3>2, <3>3, <3>5 DEF StatsStand
  <2>6. CASE e # <<>>
    <3>1. n # 0 BY <2>2, <2>6
    <3>2. Given.streaks = Member!CalculateStreaks(e, s) BY <2>1, <2>6 DEF Member!GetMemberStats
    <3>3. Member!CalculateStreaks(e, s).currentWin = 0 \/ Member!CalculateStreaks(e, s).currentLoss = 0
      BY <2>3, OneRuns
    <3>4. ASSUME Distinct(e), NEW p \in Orders(n)
          PROVE  Undated(Member!GetMemberStats(question.ranking, question.history, Arranged(e, p)))
                   = Undated(Given)
      <4>1. Reordered(e, Arranged(e, p), p, n) BY <2>3, ResultsAgain
      <4> HIDE DEF e, n
      <4> QED BY <2>1, <3>1, <3>4, <4>1, StatsAgain
    <3>5. ASSUME Distinct(e)
          PROVE  Given.streaks.bestWin
                   = Max({Cardinality(r) : r \in WonStretches(e)} \cup {0})
      <4>1. PICK seq : seq = s OBVIOUS
      <4>2. PICK won : won = WonIn(e, seq, n) OBVIOUS
      <4>3. InTime(e, n, seq) BY <2>3, <3>5, <4>1, SortedInTime
      <4>4. ListsPlaces(seq, n) BY <4>3 DEF InTime, ListsPlaces
      <4>5. PICK h : HasStreaks(won, n, h) /\ Member!CalculateStreaks(e, seq) = StreaksFrom(won, n, h)
        BY <2>3, <4>2, <4>4, StreaksAre
      <4>6. \A k \in 1 .. n : won[k] \in BOOLEAN
        BY <2>3, <2>4, <4>2, <4>4 DEF Results, ListsPlaces, WonIn
      <4>7. StreakKnown(won, n, h[n]) BY <2>4, <4>5, <4>6, LongestStreak
      <4>8. Max({Cardinality(r) : r \in WonStretches(e)} \cup {0}) = h[n].best
        BY <2>3, <4>2, <4>3, <4>7, LongestStretch
      <4>9. Given.streaks.bestWin = h[n].best BY <3>2, <4>1, <4>5 DEF StreaksFrom
      <4> QED BY <4>8, <4>9
    <3> HIDE DEF e, n
    <3> QED BY <3>2, <3>3, <3>4, <3>5 DEF e, n, StatsStand
  <2> QED BY <2>5, <2>6
<1> QED BY <1>1, Answered, PTL

\* Neither the order of the results nor that of the matches shows in a dashboard.
THEOREM DashboardStands == ComputationsSpec => []DashboardIsOrderless
BY StatsFollow, TeamStands, PTL DEF DashboardIsOrderless
===============================================================================

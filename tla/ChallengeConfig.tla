--------------------------- MODULE ChallengeConfig ---------------------------
(***************************************************************************)
(* The configuration of a challenge season beside the jobs that use it.    *)
(* import-config replaces the configuration in one transaction and leaves  *)
(* the season inactive; activate checks it and then turns it on; a job     *)
(* loads the weeks of active seasons, checks the configuration again,      *)
(* creates its run, and reads the configuration once more to calculate.    *)
(* PostgreSQL runs it all at READ COMMITTED: a statement sees what is      *)
(* committed when it starts, an insert waits for a transaction that is     *)
(* deleting the row it refers to.                                          *)
(*                                                                         *)
(* One season with one week; an import gives the week a new row.  What the *)
(* jobs do with runs, e-mails and attempts in detail is ChallengeCycle.    *)
(***************************************************************************)
EXTENDS Integers, FiniteSets

CONSTANTS
  Configs,    \* the configurations an operator may import
  Valid,      \* those that validateConfiguration accepts
  Importers,  \* processes that run import-config
  Activators, \* processes that run activate
  Workers,    \* processes that run jobs, one per type of run
  MaxWeek     \* a bound on the imports

ASSUME ValidAssumption == Valid \subseteq Configs
ASSUME MaxWeekAssumption == MaxWeek \in Nat

VARIABLES
  challenge,  \* Challenge.active
  season,     \* ChallengeSeason: active, its configuration, its week's row
  run,        \* the ChallengeRun of each type, or none
  import,     \* import-config processes
  activation, \* activate processes
  worker,     \* sunday and monday processes
  mails       \* history: the e-mails that were sent

vars == <<challenge, season, run, import, activation, worker, mails>>

NoRun == "none"
Idle == [pc |-> "idle"]
Absent == 0  \* the season was never imported

Runs == {w \in Workers : run[w] # NoRun}

(***************************************************************************)
(* import-config.  The first statements of the transaction lock the rows   *)
(* of the challenge and the season.                                        *)
(***************************************************************************)
Transactions == {i \in Importers : import[i].pc # "idle"}

\* The weeks are deleted and not yet committed: inserts that refer to them or
\* to their runs wait.
Replacing == {i \in Importers : import[i].pc = "deleted"}

Begin(i, c) ==
  /\ Transactions = {}
  /\ season.week < MaxWeek
  /\ import' = [import EXCEPT ![i] =
                  [pc |-> "begun", config |-> c, deleted |-> {}]]
  /\ UNCHANGED <<challenge, season, run, activation, worker, mails>>

\* A season with runs is refused and rolled back.
CountRuns(i) ==
  /\ import[i].pc = "begun"
  /\ import' = [import EXCEPT ![i] =
                  IF Runs = {} THEN [@ EXCEPT !.pc = "counted"] ELSE Idle]
  /\ UNCHANGED <<challenge, season, run, activation, worker, mails>>

\* The runs of the week go with it (onDelete: Cascade).
Cascade == Runs

DeleteWeek(i) ==
  /\ import[i].pc = "counted"
  /\ import' = [import EXCEPT ![i].pc = "deleted", ![i].deleted = Cascade]
  /\ UNCHANGED <<challenge, season, run, activation, worker, mails>>

\* The row that the new configuration's week gets.  Mutant: it keeps its own.
SameWeek(week) == IF week = Absent THEN 1 ELSE week

NewWeek(week) == week + 1

Commit(i) ==
  /\ import[i].pc = "deleted"
  /\ season' = [active |-> FALSE, config |-> import[i].config,
                week |-> NewWeek(season.week)]
  /\ run' = [w \in Workers |->
               IF w \in import[i].deleted THEN NoRun ELSE run[w]]
  /\ import' = [import EXCEPT ![i] = Idle]
  /\ UNCHANGED <<challenge, activation, worker, mails>>

Rollback(i) ==
  /\ import[i].pc # "idle"
  /\ import' = [import EXCEPT ![i] = Idle]
  /\ UNCHANGED <<challenge, season, run, activation, worker, mails>>

(***************************************************************************)
(* activate.                                                               *)
(***************************************************************************)
Examine(a) ==
  /\ activation[a] = "idle"
  /\ season.week # Absent
  /\ season.config \in Valid
  /\ activation' = [activation EXCEPT ![a] = "examined"]
  /\ UNCHANGED <<challenge, season, run, import, worker, mails>>

\* Waits for an import that holds the rows.
ActivateSeason(a) ==
  /\ activation[a] = "examined"
  /\ Transactions = {}
  /\ season' = [season EXCEPT !.active = TRUE]
  /\ challenge' = TRUE
  /\ activation' = [activation EXCEPT ![a] = "idle"]
  /\ UNCHANGED <<run, import, worker, mails>>

GiveUp(a) ==
  /\ activation[a] = "examined"
  /\ activation' = [activation EXCEPT ![a] = "idle"]
  /\ UNCHANGED <<challenge, season, run, import, worker, mails>>

(***************************************************************************)
(* A job.                                                                  *)
(***************************************************************************)
Load(w) ==
  /\ worker[w].pc = "idle"
  /\ challenge /\ season.active
  /\ run[w] = NoRun
  /\ worker' = [worker EXCEPT ![w] =
       [pc |-> "loaded", week |-> season.week, config |-> season.config,
        ranking |-> season.config]]
  /\ UNCHANGED <<challenge, season, run, import, activation, mails>>

\* assertSeasonValid.
Verdict(valid) == IF valid THEN "checked" ELSE "idle"

CheckSeason(w) ==
  /\ worker[w].pc = "loaded"
  /\ worker' = [worker EXCEPT
       ![w] = IF Verdict(season.config \in Valid) = "idle" THEN Idle
              ELSE [@ EXCEPT !.pc = Verdict(season.config \in Valid),
                             !.config = season.config]]
  /\ UNCHANGED <<challenge, season, run, import, activation, mails>>

\* The run refers to the week that was loaded; without it the insert fails.
CreateRun(w) ==
  /\ worker[w].pc = "checked"
  /\ Replacing = {}
  /\ IF worker[w].week = season.week
       THEN /\ run' = [run EXCEPT ![w] = worker[w].config]
            /\ worker' = [worker EXCEPT ![w].pc = "created"]
       ELSE /\ worker' = [worker EXCEPT ![w] = Idle]
            /\ UNCHANGED run
  /\ UNCHANGED <<challenge, season, import, activation, mails>>

Calculate(w) ==
  /\ worker[w].pc = "created"
  /\ worker' = [worker EXCEPT ![w].pc = "calculated",
                              ![w].ranking = season.config]
  /\ UNCHANGED <<challenge, season, run, import, activation, mails>>

\* The ranking and the delivery are inserted: both refer to the run.
Storable(w) == run[w] # NoRun

Waits(w) == \E i \in Replacing : w \in import[i].deleted

Store(w) ==
  /\ worker[w].pc = "calculated"
  /\ ~Waits(w)
  /\ worker' = [worker EXCEPT
                  ![w] = IF Storable(w) THEN [@ EXCEPT !.pc = "stored"]
                         ELSE Idle]
  /\ UNCHANGED <<challenge, season, run, import, activation, mails>>

Send(w) ==
  /\ worker[w].pc = "stored"
  /\ mails' = mails \cup {[type |-> w, ranking |-> worker[w].ranking,
                           checked |-> worker[w].config]}
  /\ worker' = [worker EXCEPT ![w].pc = "sent"]
  /\ UNCHANGED <<challenge, season, run, import, activation>>

\* The answer is recorded in the run, if it is still there.
Record(w) ==
  /\ worker[w].pc = "sent"
  /\ ~Waits(w)
  /\ worker' = [worker EXCEPT ![w] = Idle]
  /\ UNCHANGED <<challenge, season, run, import, activation, mails>>

\* A call fails or the process dies.
Fail(w) ==
  /\ worker[w].pc # "idle"
  /\ worker' = [worker EXCEPT ![w] = Idle]
  /\ UNCHANGED <<challenge, season, run, import, activation, mails>>

\* The challenge may be active from an earlier season.
Init ==
  /\ challenge \in BOOLEAN
  /\ season = [active |-> FALSE, config |-> NoRun, week |-> Absent]
  /\ run = [w \in Workers |-> NoRun]
  /\ import = [i \in Importers |-> Idle]
  /\ activation = [a \in Activators |-> "idle"]
  /\ worker = [w \in Workers |-> Idle]
  /\ mails = {}

Import(i) ==
  \/ \E c \in Configs : Begin(i, c)
  \/ CountRuns(i)
  \/ DeleteWeek(i)
  \/ Commit(i)
  \/ Rollback(i)

Job(w) ==
  \/ Load(w)
  \/ CheckSeason(w)
  \/ CreateRun(w)
  \/ Calculate(w)
  \/ Store(w)
  \/ Send(w)
  \/ Record(w)
  \/ Fail(w)

Next ==
  \/ \E i \in Importers : Import(i)
  \/ \E a \in Activators : Examine(a) \/ ActivateSeason(a) \/ GiveUp(a)
  \/ \E w \in Workers : Job(w)

Spec == Init /\ [][Next]_vars

(***************************************************************************)
(* Properties.                                                             *)
(***************************************************************************)
\* The rows and the processes are well formed.
ConfigsOrNone == Configs \cup {NoRun}

WorkerType ==
  [pc : {"loaded", "checked", "created", "calculated", "stored", "sent"},
   week : Nat, config : ConfigsOrNone, ranking : ConfigsOrNone]

ImportType ==
  [pc : {"begun", "counted", "deleted"}, config : Configs,
   deleted : SUBSET Workers]

TypeOK ==
  /\ challenge \in BOOLEAN
  /\ season \in [active : BOOLEAN, config : ConfigsOrNone, week : Nat]
  /\ run \in [Workers -> ConfigsOrNone]
  /\ import \in [Importers -> ImportType \cup {Idle}]
  /\ activation \in [Activators -> {"idle", "examined"}]
  /\ worker \in [Workers -> WorkerType \cup {Idle}]
  /\ mails \subseteq [type : Workers, ranking : ConfigsOrNone,
                      checked : ConfigsOrNone]

\* A run that exists was checked under the configuration that its season has,
\* whatever is imported and activated while the job goes from its check to
\* its insert (assertSeasonValid, then compute).
RunsMatchConfig ==
  \A w \in Runs : run[w] = season.config /\ run[w] \in Valid

\* A ranking that reaches the press was calculated from the configuration its
\* job had checked, although the calculation reads it again.
RankingWasChecked ==
  \A m \in mails : m.ranking = m.checked /\ m.ranking \in Valid

\* "Runs/publications are deliberately untouched" (importFile): a run that a
\* job is working on is still there.
RunsUntouched ==
  \A w \in Workers :
    worker[w].pc \in {"created", "calculated", "stored", "sent"}
      => run[w] # NoRun
=============================================================================

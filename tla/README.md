# BePing backends: TLA+ models, model checking and proofs

This directory holds the formal models of the BePing back-end services: a
NestJS monorepo over PostgreSQL (Prisma), Redis, BullMQ, Firebase Cloud
Messaging (FCM) and a mail provider. The models follow the code under `src/`;
`PROJECT.json` maps every definition to the lines it stands for.

## 1. Inventory of the system

| Component | State it keeps | Operations | Interacts with |
| --- | --- | --- | --- |
| **Challenge orchestrator** (`apps/challenge-worker`: orchestrator, press, main) | `ChallengeRun`, `ChallengePressDelivery`, `ChallengePublication` rows, PostgreSQL session advisory locks | the jobs `sunday`, `monday`, `thursday` run by short-lived processes | calculator, mail provider, notification outbox (one row per publication) |
| **Challenge configuration** (config importer, config validator) | seasons, weeks, rules, recipients, `active` flags | `import-config`, `validate-config`, `activate` | deletes and recreates the weeks runs hang from |
| **Challenge calculator** and checksum | none (pure) | `calculate`, `computeRankingChecksum` | BePing API |
| **Notification outbox** (`apps/app-notifications`: outbox, FCM) | `NotificationOutbox` rows, `DeviceSubscription`, `TopicSubscription` | recover, claim, deliver, settle every 10 s; register, deactivate and clean up devices | importers and orchestrator write rows, FCM delivers |
| **Importers** (`apps/data-aftt-importer`: results, members, coordinator, cron, throttle, COPY) | `DataImport` log (dates and hashes), `Member`, `IndividualResult`, queues, in-process chain | cron check, queue, download, merge in batches, invalidate caches, store the import | API caches (Redis), outbox |
| **Captain mode** (`apps/tabt-rest/captain`: line-up, rules, convocation, availability, roster, hub, auth) | `Lineup`, `LineupSlot`, `Convocation(Response)`, `AvailabilityPoll(Response)` | save/validate a line-up, send a convocation, answer, remind, poll | SOAP federation API, notifier |
| **Challenge API** (`apps/tabt-rest/api/challenges`) | none of its own | reads | only what `ChallengePublication` names |
| **Shared cache** (`libs/common/cache`) | Redis keys, an in-process map of reads in flight | read-through `getFromCacheOrGetAndCacheResult`, `cleanKeys` | all API services, importers |
| **API services** (tabt-client, member dashboard, head-to-head, rankings, search, dashboards, matches ranker, ...) | caches only | read, aggregate | SOAP federation API |
| **Plumbing** (DTOs, generated SOAP port types, modules, metrics, PostHog, health, proxies, deploy files) | none | | |

What makes them correct, and what is hard about them:

* **Orchestrator.** Worker processes overlap (a scheduled job and one started
  by hand), crash between any two statements, lose acknowledgements of
  statements that were committed, lose the session their lock lives in, and the
  mail provider may fall silent after taking the mail. Correct means: at most
  one press e-mail per week and type, the public sees exactly the run the press
  received as final, an uncertain delivery stops the machine, every job ends.
* **Outbox.** Several instances claim with `SKIP LOCKED`, a delivery may
  outlive the ten-minute recovery window, every status update goes by id
  without checking the status it replaces. Correct means: no event is lost, no
  event is delivered by two instances at once while claims are young, a settled
  event stays settled, the number of deliveries is bounded.
* **Importers.** A file is merged in batches committed one by one, caches are
  invalidated afterwards and the import is logged last; the job is retried by
  the queue. Correct means: the table converges to the newest file, no older
  file overwrites it, caches are not left with rows that changed.
* **Captain mode.** A request reads the database, awaits the federation's SOAP
  API and then writes what it decided, while other requests of the same captain
  (two devices, a double click) do the same. Correct means: a validated line-up
  was checked as it stands, no player is aligned twice in a week, an answer is
  not overwritten by an older one.
* **Cache.** One read in flight per key and process; an invalidation runs beside
  reads that have already fetched. Correct means: what is answered belongs to
  what was asked, answers never go back behind the oldest copy alive, and an
  invalidation that ends well leaves out of date only what reads under way
  bring in after it.
* **API services.** They aggregate what the federation answers, in the order it
  answers, partly failing, and cache the aggregate in layers. Correct means: the
  order does not show, a partial failure does not stay in a cache, ages do not
  add up without bound, two users see one match alike.

## 2. Plan

In the order of what would hurt most if it were wrong:

| # | Module | Abstract specification, composition | State |
| --- | --- | --- | --- |
| 1 | `ChallengeCycle` | implements `ChallengePromise` | modelled, checked, proved |
| 2 | `NotificationOutbox` | - | modelled, checked, proved |
| 3 | `ResultsImport` | - | modelled, checked, proved |
| 4 | `CaptainLineup` | - | modelled, checked, proved |
| 5 | `ChallengeConfig` | the world around `ChallengeCycle`'s jobs | modelled, checked, proved |
| 6 | `ReadThroughCache` | implements `CachePromise` | modelled, checked, proved |
| 7 | `CaptainCalls` | - | modelled, checked, proved |
| 8 | `MembersImport`, `ImportQueue` | the second importer; the queues and the chain both importers run on | modelled, checked, proved |
| 9 | `ChallengeCalculator`, `MemberStats`, `RankingTables`, `MatchesRanker`, `CaptainIntelligence`, `PublicationTimes` | pure; asked one question at a time by `Computations` | modelled, checked, proved but for the calculator and what no property is about |
| 10 | `HeadToHead`, `MemberDashboard`, `RankingDistribution`, `CaptainAccounts`, `ChallengeApi` | services that keep state between requests; side by side in `MCServices` | modelled, checked, proved |

Every safety property of a run but two is a theorem, each with the
strengthening it needs. The two are the calculator's, `RankingIsOrderless`, and
`GivenUpHasCauses` of the outbox (section 6).

## 3. The modules and the code

Modules 1 to 4, 6 and 7 have two companions each: `<M>Proofs` (the inductive
invariant and the theorems) and `MC<M>` (the instance for TLC). The invariants
of `ChallengeCycle` and `NotificationOutbox` are modules of their own,
`<M>Invariant`. The two modules of 8 are proved about in `ImportQueueProofs` and
checked in `MCImports`, one beside the other. The pure modules of 9 are asked by
`Computations`, one action for each answer; `MCComputations` has the questions
of the run, and `MCServices` puts them beside the services of 10 and beside
`ChallengeConfig`, for which `MCChallengeConfig` remains with the run that finds
a violation. What is proved of all these is a further part of the proofs of a
module they belong with: `CaptainAccounts` in `CaptainCallsProofs`,
`RankingDistribution` and `MemberDashboard`, which keep numbers and layers beside
the cache, in `ReadThroughCacheProofs`, and in `ServicesProofs`, after
`ChallengeConfig`, what counts, sorts and shows: `ChallengeApi`, `HeadToHead` and
`Computations`. A module that is extended together with others gives its
`Init`, `Next`, `Spec` and `TypeOK` a name of its own (`QueueSpec`,
`AccountsSpec`, `PagesSpec`), and they take `None`, and how sets are put in an
order, from `Common`.
Definitions carry the names of the code where they can. A definition whose
comment calls it a *mutant* is not used by the specification: it is the same
definition with a plausible bug, and replacing the one by the other makes a run
fail.

### ChallengeCycle (challenge-orchestrator, challenge-press)

A worker's program counter walks through `runDateJob`, `withLock`, `compute`
and `publish`; every statement of the code that commits on its own is one
action: `TakeLock` (pg_try_advisory_lock), `ReadLast` (the latest attempt and
the early returns), `CreateRun`/`CreateRefused` (unique key on week, type,
attempt), `StoreRanking`, `OpenDelivery` (the PENDING row), `Send`,
`RecordAnswer`, `Handle` (the catch block), `ChooseRun`, `CommitPublication`,
`Unlock`. `StepFails` throws at any of them, before or after the statement
took effect; `Crash` ends the process anywhere. `mails` is a history variable:
what the press really received, whatever was answered. A ranking is data and
does not appear.

### NotificationOutbox (notification-outbox, fcm dispatch, device registry)

Rows with status, attempts, `availableAt` (a flag: ahead or not) and claim age
(a flag: older than ten minutes or not); instances that `Tick` (recover, then
claim with SKIP LOCKED) and `Deliver` group by group and locale by locale.
`Dispatch` sends one locale of one group: the devices FCM reaches, those it no
longer knows (they are deactivated), and whether the clean-up worked. Updates
go by id and do not look at the status they replace, as in the code.
`shown` and `entitled` are history, and so is the number of faults, against
which `GivenUpHasCauses` holds every attempt of an event that was given up.

### ResultsImport (results processor, cron, queue, cache)

One nightly job with its attempts; an attempt downloads, decides (`Check`: not
newer, same hash, append or full) and merges chunk by chunk: a chunk is staged
and its competitions are written (`UpsertCompetitions`, which counts nothing),
then its results, batch by batch (`Merge`, which counts what it changes). After
the last chunk the attempt empties the caches if a *result* changed, and logs
the import. The federation serves a sequence of exports (`Versions`), members
become known at any time (`Join`, the effect of the members' import), readers
fill one cached answer, which shows results with their competition's type, and
which expires. `retyped` is history: the attempt changed a competition that is
shown. Abstracted: lines that cannot be parsed; a competition's name and
coefficient, which no answer shows; the rows of the outbox that the merge
statement inserts together with its results. The queue's own state and the
rerun of stalled jobs are in ImportQueue.

### CaptainLineup (captain-lineup service, rules, roster)

A request of `validateLineup` is read, check and write in three steps
(`Ask`, `Check`, `Accept`/`Refuse`), with `Save` and other requests between
them. The rules are operators over slots, teams and the force list:
`TeamSize`, `BelowPlace`, `DoubleAlignment`, `OutOfOrder`, `FirstTooStrong`.
The fresh teams and lists that a request fetches are constants, a line-up and
its slots are read at once, the club is one club, and the column with the
rules' verdict as JSON is left out. The rule MAX_DOUBLE_AFFILIATION is left
out because it cannot fire: the roster never carries its flag. `Drafts` and
`Asks` bound what captains may send. `stale` and
`excused` are history: the verdict was written over slots it had not seen, and
the justification kept was given for this validation, not for an earlier one.

### ChallengeConfig (config importer, config validator, the reads of a job)

`importFile` is one transaction whose statements see what is committed when
they run: `Begin` (the upserts, which lock the rows), `CountRuns`,
`DeleteWeek` (with the cascade to runs that exist at that moment), `Commit` or
`Rollback`. `activateSeason` is `Examine` and `ActivateSeason`. A job is `Load`,
`CheckSeason`, `CreateRun`, `Calculate`, `Store`, `Send`, `Record`; what it
does in detail is ChallengeCycle, so there is one run of each type. One season
with one week; a configuration is a value, `Valid` says which ones the
validator accepts. A nested read of a configuration is several statements and
may be torn by a commit; each such read is followed by an insert that refers to
the row the commit deleted, so a torn value goes nowhere a whole old or new one
would not, and the model reads at once. An activation locks the seasons before
the challenge and an import the challenge before the season; PostgreSQL ends
that deadlock by aborting one of them, which is a `Rollback` or a `GiveUp`.

### ReadThroughCache (cache.service, the keys of its callers, cleanKeys)

A read is known by its call and by the path of requests that leads to it: a
getter reads what its request is made of (`Inner`), its own sources and other
requests, these through the cache again, to any depth and one beside the other.
Each read walks through `getFromCacheOrGetAndCacheResult`: `Hit` or `Miss` in
Redis, `Join` the getter in flight or `Own` it, then `Fetch` and `ReadThrough` in
any order, `Finish`, `Store`, `Settle` (all who wait go on, with the value or the
error). `Throw` fails a getter or the write; a getter that was given an error
throws at once, and what it had begun beside goes on without it. `Restart` ends
a process. The importer `Change`s rows and then empties keys by pattern, page by
page, beside them; `cleanKeys` may swallow an error. A value is the request it
answers and the version of the oldest data it was computed from.

### CachePromise

What a caller is promised: an answer belongs to the request, as far as its key
tells requests apart, and its version is not older than the oldest copy alive of
all that it may be made of, which itself never goes back. ReadThroughCache
implements it with `oldest` computed from Redis and the reads.

### MembersImport (members-list-sync-processor, postgres-copy)

As ResultsImport, for the list of members: `Decide`, `MergeMembers`,
`MergePoints` (which writes the notifications of a changed ranking in the same
statement), `Clean`, `Log`, and attempts that fail between any two.
Lists may be undated, older, or name a member twice. Abstracted: the staging
table, chunks of a list, columns of a member other than one *profile*.

### ImportQueue (both crons, execution coordinator, throttle, queue status)

Jobs of two BullMQ queues with their states, attempts and stalls; two cron
services that read the three counts one by one and then add; two workers; the
chain of promises by which one import runs at a time in a process; the pauses
of a batch while the API is under pressure. BullMQ itself is external, modelled
from how the services configure it.

### CaptainCalls (convocation, availability, notifier)

Requests that read, write and notify in steps: `send` (read the line-up, upsert
the convocation with fresh responses, tell the starters), `respond` by token or
by public link (check, then write), `create`, `remind`, `submit` and
`override` of the poll. A process may `Crash`. A sending, a decision and a save
have numbers, which are history but for the order they are made in.

### The pure modules

* `ChallengeCalculator`: who played and won what, an attempt's fetches, points
  and overrides, the level a player is ranked at, ranking and positions.
* `MemberStats`: counts, streaks, extremes, parts of the day, the member's team.
* `RankingTables`: the 13 tables of one category (the other has the same
  numbers), the letter of a position, histories with gaps.
* `MatchesRanker`: players listed, what they won and lost, the packed sort key.
* `CaptainIntelligence`: the binomial win probability, the loop over all orders
  in their order (`TryOrder`, the best so far, replaced by a better one only),
  duels place by place, reinforcements, and the hub's view of the next matches.
  The points imported last are looked up with a player's licence among the
  *member numbers* (`memberId`), as the code does; a player without a row has
  points made from the index. Probabilities are integers, parts of `Scale`;
  `probabilityDelta` is not divided by the number of starters.
* `PublicationTimes`: the next publication and the clock change in Brussels.

### The services with state

* `HeadToHead`: a page of links, four workers that take the next index, answers
  that fail or are missing, the order of the matches, the cached data of the
  lower number and `ReversePerspective` for the other player.
* `MemberDashboard`: eleven layers of cached answers with a time to live each, from
  that of all categories down to the points, the results and the two caches of
  the federation's client, nested six deep, filled by different requests while
  sources are out. Values carry the times their parts were read at. A request
  takes no time on the model's clock; what reads of one key do beside each other
  is ReadThroughCache.
* `RankingDistribution`: the count kept for a day, the points kept until the
  next count, requests and the timer interleaved.
* `CaptainAccounts`: the operator, the federation, logins that wait between
  read and write, tokens with their ages, and the look-up of a subscription,
  several at once.
* `ChallengeApi`: publications that go on while a client walks from cursor to
  cursor, each request a look for the publication and a read of rows.

## 4. What the runs check

| Run | Properties | Bounds |
| --- | --- | --- |
| `challenge_cycle` | `UncertaintyBlocks`, `KeepsPromise` | two workers, all three jobs, one week, two attempts of each type |
| `challenge_lock_lost` | `PublicIsPress`, `NoRunMailedTwice`, `JobsEnd` | the same without Sunday, with locks that are lost and a provider that answers wrongly |
| `notification_outbox` | `OncePerClaim`, `DuplicatesHaveCauses`, `GivenUpHasCauses`, `NobodyMissed`, `ComesToRest` | two instances, two events of different kinds, two devices of two languages, two attempts, one fault |
| `results_import` | `Current`, `StaleCachesHaveACause`, `CatchesUp` | five exports of up to four lines, three results of two competitions, chunks of two lines, batches of one, two attempts per job, two faults |
| `captain_lineup` | `NoDoubleAlignment`, `ValidatedIsLegal`, `OrderedOrJustified` | two teams of three, six players, two requests at once |
| `read_through_cache` | `OneGetter`, `StaleHasACause`, `KeepsPromise`, `CallsEnd` | one change, and either two calls of one process that meet in each other's getters, with two databases one key does not tell apart, or one call through three layers |
| `imports` | `Current`, `Announced`, `CatchesUp` | one member, three standings of which two show alike, three lists, two days, one fault |
| | `OneImport`, `DuplicatesHaveACause`, `JobsEnd` | two queues, one category, two days, two attempts, one stall, one pause, two faults |
| `captain_calls` | `Asked`, `LastDecisionStands`, `PollStands` | three requests at once, two players, two sendings, three decisions |
| `services` | `RunsMatchConfig` | two importers, one activator, two jobs, three imports, one invalid configuration |
| | `RankingIsOrderless`, `DashboardIsOrderless`, `LettersFollowTables`, `RankerIsFair`, `AdviceIsBest` | inputs as enumerated in `MCComputations` |
| | `PartsAreBounded` | an hour is two ticks and all that is longer three; one category to the greatest age, eight ticks, and two categories and two views for a tick |
| | `AnswersForBoth`, `ThresholdsFit`, `AccessEnds`, `PagesAgree` | three links and two workers; two counts and three days; two clubs; three weeks of four or five rows |
| `config_runs_deleted` | `RunsUntouched`, violated | as `RunsMatchConfig`; see section 5 |
| `lineup_overtaken` | `ErrorsNeverValidated`, violated | as `captain_lineup`; see section 5 |
| `advice_real_points` | `AdviceIsOfRealPoints`, violated | the questions for advice of `services`; see section 5 |

Why the bounds are enough to be interesting. Two processes are what the locks,
unique keys and SKIP LOCKED have to keep apart, and a third meets the same
rows. Two attempts are needed to see a failed run followed by another and an
uncertain one followed by none. Two devices of different languages are needed
for an event that is half delivered. The five exports are chosen so that a
correction, a repeated old file, an append that withdraws the correction, and a
change of nothing but a competition follow each other; chunks and batches of a
line or two let an attempt die between any two statements. Two teams with a
shared player are what the double alignment rule is about. Three imports let a
job meet a configuration two generations newer. The services nest cached reads
six deep, the run three: the third layer is where a copy that was old when it was
read is stored again by a getter that did not read it itself, and further layers
repeat that; the theorems (section 6) are for any depth, and `PartsAreBounded`
is about all layers of the dashboard. Three requests of a captain are one that
reads, one that overtakes it and one that sees the result. Two days let the
queue meet the retry of yesterday. Two workers of four already reorder and fail
apart; three links give them one to compete for.

What shares no state is explored side by side in one run: a variable `side`
selects what a behaviour explores, and the rest stays as it begins, so that the
states of the parts add up instead of multiplying, while the properties are
checked as the modules state them. The sides of `services` are the computations,
the configuration, the challenge's pages, the duels, the dashboard (of a member
in one category, and in two), the distribution, the accounts and the
subscription; those of `imports` are the lists and the queues, those of
`read_through_cache` the two cases of its row, and `captain_calls` does the same
with convocation and poll. Questions to the pure modules are asked one after the
other (`question`, `reply`), and the properties compare the answer with a
declarative one, or with the answer to the same question in another order.

Each passing run fires every action of its modules, and each of its properties
fails when one definition is replaced by its mutant. The type invariants
`TypeOK`, `AtMostOneMail`, `PublicationFinal`, `OneHolder`, `RankingWasChecked`,
`LinkAnswersItsSending` and the inductive invariants are proved (section 6) and
checked by no run.

Deadlock is checked in every passing run but `captain_calls`, where sendings and
decisions are bounded and every request may rest, and in `lineup_overtaken`; of
the side of the configuration, `Rests` says that everybody may stop once the
imports are used up.

### Fairness

`ChallengeCycle`: weak fairness of each worker's next statement; every awaited
call is answered or times out, and nothing makes a job start. `NotificationOutbox`:
weak fairness of the interval timer together with the delivery of each
instance, and of time passing for a row (`Due`, `Age`). `ResultsImport` and
`MembersImport`: the cron comes back every night and an attempt goes on unless
it fails; cached answers expire; faults are bounded by `MaxFaults`.
`ReadThroughCache`: each call that has been asked goes on, because Redis and
the sources answer or time out, and keys expire. `ImportQueue`: imports end or
throw, and BullMQ hands out, promotes and recovers jobs that are due; nothing is
assumed of the crons or of the pressure on the API. Crashes, faults, writes,
registrations, exports, lists and members are never fair.

## 5. Where code and documents disagree

Three runs end in a violation of what a comment says:

* `config_runs_deleted`: a run created between the import's count and its delete
  is deleted by the cascade, while its job may still e-mail the ranking, although
  the importer's comment says that runs are "untouched"
  (`challenge-config-importer.service.ts:136`).
* `lineup_overtaken`: a save between the read and the write of a validation turns
  unchecked slots into a validated line-up (`captain-lineup.service.ts:227`; line
  200: "Blocking errors can never be validated.").
* `advice_real_points`: `loadPoints` looks the players' licences up among the
  member numbers of the imported points (`captain-intelligence.service.ts:155`),
  another column than the licence (`members-list-sync-processor.ts:344`), so that
  it finds nobody, or somebody else; lines 151 and 168 speak of "real numeric
  points".

The properties of the passing runs state what the code does keep; where a
document or a comment promises more, they name the exception. These are:

* *Caches after a retry* (`StaleCachesHaveACause`). An attempt that dies between
  its last committed batch and the emptying of the caches leaves a retry that
  changes nothing and therefore empties nothing
  (`results-processor.service.ts:181`). `deploy/coolify/README.md` (96) says "Its
  upserts are idempotent, so the retry can safely resume by reprocessing the
  same source file."
* *Competitions are not counted* (the same property). `upsertCompetitionsFromStage`
  (`results-processor.service.ts:801`) writes a competition's new type, which
  cached match results show, and counts nothing: a faultless import that changes
  no result then goes on, with "No changes made - skipping cache invalidation"
  (184), and the caches stay as they were until they expire.
* *Append mode* (`Current`). Rows dropped because a player was unknown are taken
  for existing when the next file only appends ("skipping
  ${appendInfo.previousLineCount} existing",
  `results-processor.service.ts:164`), and stay out of the table.
* *Validation overtaken by a save* (`ValidatedIsLegal`, its `stale`): as
  `lineup_overtaken` shows.
* *Two teams in one division* (`NoDoubleAlignment`). They resolve to the first of
  the two (`captain-lineup.service.ts:301`), and the rule does not compare a
  team with itself, though it says that a player may not be aligned in two teams
  (`double-alignment.rule.ts:11`). The hub and the advice pick a team by its
  division in the same way.

Met while modelling, and not about any property:

* An import into an active challenge leaves it active (the worker's README says
  inactive); an import between the check and the transaction of an activation
  is activated unchecked (the jobs check again, hence `RankingWasChecked`).
* An unlisted starter hides a wrong order of strength; two starters on one place
  and none on another pass the team size rule.
* An older export is logged when it is skipped, so that the file after it is
  compared with a date that is too old.
* `apps/app-notifications/README.md:584` and `:623` say that tokens FCM rejects
  are removed from the database; the code sets them inactive.
* The dashboard's `firstMatch` and `lastMatch` are empty when the earliest or
  latest result has index 0 (`member-dashboard.service.ts:667`), which is why
  `DashboardIsOrderless` leaves these two out. A dashboard for all categories fails
  as a whole when one of them throws, though its comment (132) says "only
  include dashboards that loaded successfully".
* Head-to-head links a match by week and number whatever its season
  (`head2head.service.ts:660`), and its count includes matches it skipped.
* The ranker's cache keys name neither the sort system nor the database
  (`matches-members-ranker.service.ts:71`); `CachePromise` is therefore about
  what the key tells apart.
* Candidates for reinforcement are those of the whole roster; the comment above
  (`captain-intelligence.service.ts:274`) speaks of weaker teams and of players
  who are not aligned in the same week.
* A login writes back the club it read before it asked the federation, also if
  the operator has moved the account meanwhile.
* A cursor carried over a publication starts in the ranking of another week and
  may skip or repeat rows; `PagesAgree` is about the pages of one publication.
* A count of players that began earlier may overwrite one that ended sooner; and
  a request that reads the points while a count empties them keeps points of the
  count before (`overtaken`, excepted from `ThresholdsFit`).
* A reply that passed its check before the convocation was sent again is written
  over the new sending (`crossed`), and two sendings at once, or a save between a
  sending's read and its write, part who is asked, told and aligned (`overlapped`,
  `saved`, excepted from `Asked`).
* The answers of a dashboard are older than the hour its own key lives: at most
  the sum of the layers they came through, four hours for the matches, eleven
  for the member's list, twenty-nine for the points and fifty-two for the results
  when all categories are asked for.

## 6. What is proved

For every value of the constants that satisfies the named assumptions of the
modules (`ASSUME`, evaluated in every run):

| Theorem | Says | Needs |
| --- | --- | --- |
| `LooseHolds`, `NobodyMailsTwice`, `PublicRunIsPressRun`, `TypeCorrect` (ChallengeCycleProofs) | no run is mailed twice, the public sees a run that the press received as final | nothing: locks may drop, the provider may misreport |
| `InvariantHolds`, `OneMail`, `PublicationStays`, `UncertaintyStops`, `Implements` | `AtMostOneMail`, `PublicationFinal`, `UncertaintyBlocks`, and the refinement of `ChallengePromise` | locks live as long as their worker, the provider reports honestly |
| `ClaimsHold`, `OutboxTyped`, `ShownOncePerClaim` (NotificationOutboxProofs) | a claim shows an event on a device at most once, also where deliveries outlive ten minutes and FCM loses messages | nothing more |
| `NobodyIsMissed` | a processed event was shown to all who were to see it | FCM delivers what it accepts (`~FcmFails`); batches may outlive their claims |
| `OutboxInvariant`, `SingleHolder`, `RepetitionsArePaid` | no event is held by two instances; what is shown again is paid for by a failure | batches are done within ten minutes (`~Outlive`); FCM may lose messages |
| `ImportInvariant`, `ImportTyped`, `DoneIsCurrent`, `StaleCachesExplained` (ResultsImportProofs) | a job that ends well leaves the table as its file says; stale caches have one of three causes; for any chunks and batches | nothing more |
| `LineupInvariant`, `DisjointStarters`, `LegalLineups`, `LineupTyped`, `OrderOfForce` (CaptainLineupProofs) | validations that no save overtook are legal and disjoint, and their starters descend pairwise or are justified | nothing more |
| `ConfigInvariant`, `CheckedRuns`, `CheckedMails`, `ConfigTyped` (ServicesProofs) | runs and mails belong to one checked configuration | nothing more |
| `PagesFollow` (same module) | `PagesAgree` of `ChallengeApi` | rows have one `id` each, weeks are numbers (`PagesAssumption`) |
| `BothAnswered` (same module) | `AnswersForBoth` of `HeadToHead` | a player is on one side of a match, sets are counted (`IsMatch`, which the initial states ask for) |
| `LettersDescend`, `LettersFollow` (same module) | a place further down, or among fewer players, never has the better letter; `LettersFollowTables` of `Computations` | None is not a number, players are numbered from 1 (`LettersAssumption`) |
| `BestAdvised` (same module) | `AdviceIsBest` | players have an index each, chances of a duel are parts of `Scale` (`AdviceAssumption`) |
| `RankedFairly` (same module) | `RankerIsFair` | a player is in a match's lists once, and sets tell the winner of a duel that was played (`RankerAssumption`) |
| `TeamStands`, `StatsFollow`, `DashboardStands` (same module) | `DashboardIsOrderless` and its two parts | results and dated matches have a time, sets are counted (`MatchesAssumption`, `ResultsAssumption`) |
| `Typing`, `Coalescing`, `Emptying` (ReadThroughCacheProofs) | one getter per key and process, and whoever waits waits for one that runs; an emptying that ended well leaves out of date only what it overtook, or what was made of that; for getters that read others to any depth | nothing more |
| `Refinement` (same module) | the cache implements `CachePromise`, whatever its getters read and its keys tell apart | nothing more |
| `ThresholdsFollowTheTable` (same module) | `RankingDistribution` shows points of the table it names | nothing more |
| `AgesAddUp` (same module) | the ages of the eleven layers of a `MemberDashboard` add up, and no more, however long each lives | nothing more |
| `Typing`, `WhoIsAskedWasTold`, `LinksAnswerTheirSending`, `LastDecisions`, `OnePoll` (CaptainCallsProofs) | `Asked`, `LinkAnswersItsSending`, `LastDecisionStands`, `PollStands` | nothing more |
| `AccessIsLost` (same module) | `AccessEnds` of `CaptainAccounts` | nothing more |
| `Typing`, `OneAtATime`, `Duplicates` (ImportQueueProofs) | `OneImport`, `DuplicatesHaveACause` | nothing more |
| `MembersTyped`, `TablesFollowTheList`, `ChangesAreAnnounced` (same module) | `Current` and `Announced` of `MembersImport` | nothing more |

The argument of each, in a paragraph:

* *ChallengeCycle.* `AtMostOneMail` is not inductive: a second mail is excluded
  because the run of the first is *closed* (settled or uncertain), because only
  the latest attempt can be closed (`RunInv`), because the press has the latest
  attempt or nothing (`MailInv`), and because a worker about to send stands at
  a run that is neither (`WorkerInv`), alone under its lock (`LockInv`).
* *ChallengeCycle without its lock.* Two workers may then follow each other
  through a week, but the unique key gives each run to the worker that created
  it (`OwnRun`), it stays open for nobody else (`OpenRun`), only a sent run is
  settled as sent (`SettledRun`, `SentInv`), and what is published stays
  PUBLISHED (`PublishedInv`). That at most one *attempt* of a week is mailed does
  rest on the lock.
* *NotificationOutbox.* What is conserved is shown + may still be shown <=
  claims (`ShownInv`): dispatching a locale moves a device from the second to
  the first, a claim raises the right side. Cardinalities of changing sets are
  bounded by lemmas. Single holders follow from `HeldInv`: what is held is
  PROCESSING by a claim that is not stale, so nobody recovers it.
* *Nobody missed.* Whoever is entitled to an event is still subscribed, and so
  belongs to every audience read for it; of the group under way, each entitled
  device was shown the event or is in the audience still to be sent to
  (`ServedInv`). No uniqueness of holders is needed, which is why it holds
  however old claims become.
* *Repetitions.* A second showing needs a round that ended without PROCESSED. It
  was ended by a fault, which is counted, or by a locale of uninstalled devices
  only, whose subscriptions then end for good. The sum of both, `Paid`, never
  falls, and a round that begins owes at most what was paid when its audience
  was read (`RoundAt`).
* *ResultsImport.* `LogInv` relates the table to the last import and `MergeInv`
  to the lines merged so far, each up to remembered exceptions; append mode is
  where the first becomes the second. The competitions of a chunk are `Ahead` of
  its results. A cached answer that differs from what is shown needs an attempt
  under way that has yet to empty the caches, or a cause on record; an attempt
  that changed a competition only puts its cause on record with its last batch.
* *CaptainLineup.* A match is *claimed* when a verdict for its present slots is
  written or held by a request; claimed matches of rivals are disjoint, since
  a draft is visible to the other's check from its save on, and whichever check
  comes second sees both.
* *Order of force.* The rule compares neighbours only. That they descend
  pairwise follows by a least counterexample: the first starter below a given
  one that is stronger has a neighbour above it that is not.
* *ChallengeConfig.* The row of the week stands for the configuration it came
  with: a job that still finds the row it loaded has checked the present
  configuration, and an import takes along every run created since it counted.
* *ChallengeApi.* Ranks in a finite set with a strict total order fill the
  numbers below its size (`RanksFill`), so that sorting is a bijection and what
  follows a row in the ranking is the sorted set of the rows after it
  (`RowsFollow`). With it, the pages that name one publication are its slices
  from the first on, and the cursor is the row where the next begins
  (`SlicesInv`), whatever was published between two requests: the cursor of
  another publication cannot come in, because its page would name it.
* *HeadToHead.* Every link before the next index is held by a worker, has failed
  or has the federation's answer (`ReadInv`), so that a request that ends
  without a failure has found what there is, in the page's order. Turning the
  data round is counting from the other side (`DataForBoth`): both see the same
  duels, from opposite sides, and one's victory is the other's defeat.
* *RankingTables.* Every letter's last position rises from table to table and
  from letter to letter, which is read off the tables; the first letter that
  fits then descends. That an answer is the answer to its question is an
  invariant of `Computations` (`AnsweredInv`) that the theorems below share.
* *CaptainIntelligence.* The loop's invariant: after some of the orders, in the
  order they are tried, what it has kept is a legal one of them that promises as
  much as each of those tried, and the first to do so (`SoFar`); the orders are
  finitely many and one of two is earlier, so that the loop comes to have tried
  them all (`TriedAll`), and what is left is the best (`OptimalIs`). Each duel shares the weight of
  every outcome out anew among two (`SharedAnew`), so that all chances add up to
  certainty (`ChancesAre`) and none exceeds it.
* *MatchesRanker.* A duel has as many players on one side as on the other, each
  of them listed once, so that as many places won it as lost it (`WonIsLost`);
  the sum over players is the sum over places, and that one the sum over duels
  (`SumOfParts`). Of the key of the sort only percentages of 0 and 100 outweigh a
  duel (`OneOfTwo`).
* *MemberStats, the team.* What is aggregated of a team does not depend on the
  order of its matches (`AggregateAgain`), but for the match that stands first;
  of teams that differ in matches or latest time one beats all the others
  (`OneBest`).
* *MemberStats, the rest.* Counts and sums over results are those over their
  places in another order (`CountAgain`, `SumAgain`). Sorting gives the same
  results (`SortedAgain`) when no two are of one time. What the fold over them
  knows after k results, the streak that runs and the longest so far, is that of
  the first k (`StreakGrows`), and between two results are those whose numbers in
  the order of time lie between theirs (`BetweenIs`).
* *ReadThroughCache.* `OwnerInv` is an equivalence: a read is registered for a
  key exactly when it runs the key's getter, which makes both leaving one behind
  and running two impossible; `WaitInv` follows because `Return` wakes all who
  wait for the key. Reads form trees below the calls (`TreeInv`), which makes a
  step of one read local whatever its depth. For the emptying, what it has passed
  is up to date or was late when it was stored (`CleanInv`). For the refinement,
  what a getter has been given so far is no older than the oldest copy alive of
  all that it may be made of (`GotInv`, `ValueInv`), and a step leaves nothing
  older than what was there before, so that the oldest copy never goes back.
* *CaptainCalls.* Sendings that do not overlap run one after the other
  (`AloneInv`); of whom a convocation asks, each was told, will be by the
  request that asks, or is remembered as lost (`ToldInv`). A decision has a number
  that is taken once, and began after only decisions that ended (`NumbersInv`).
* *CaptainAccounts.* A session is not younger than the last moment its club held
  the account (`HeldInv`), whatever a login in between wrote; a remembered
  subscription ends a look-up and its time to live after the last moment there
  was one (`ProInv`).
* *RankingDistribution.* Whoever was not overtaken by a count has the number
  that counts now (`TableInv`).
* *MemberDashboard.* An invariant of the keys (`KeptAt`): what was put under a
  key was, at that time, as old as the layers below allow (`PutAt`), and is read
  less than one time to live later; each of the eleven layers adds its own.
* *ImportQueue.* The chain holds the jobs of the workers, each once, and the one
  that runs is its head (`ChainInv`); what a cron has counted stays away from
  the states it has read, unless a job moved back (`SyncInv`).
* *MembersImport.* By the place it is at, an attempt has merged its profiles,
  then its standings (`PlaceInv`); the last line of a member decides, the
  largest of a finite set of line numbers.

The library's induction theorems take an operator, which the provers at hand
cannot instantiate. Where a fact about numbers needs induction it is shown by
the least counterexample instead, from the well-foundedness of the natural
numbers, or with the set of the numbers it holds of (`NatSetInduction`); facts about ranks in an order come from the cardinalities of
injections. A fold of the community modules is, by its definition, a recursive
function over smaller sets or lengths, of which it has to be shown first that
there is one (`FoldExists`, `StreaksAre`): this is why the modules that are proved
about describe sorted lists by the ranks of a set (`InOrder`) and what they pick
from a sequence by sets of its places, and fold only where the code's answer
depends on it.

Only model-checked:

* liveness (`JobsEnd`, `ComesToRest`, `CatchesUp`, `CallsEnd`), which is beyond
  the prover, and the three violations;
* `GivenUpHasCauses`: every attempt of an event has to be charged to a fault or
  to a locale of uninstalled devices, one by one, where `RepetitionsArePaid`
  needs only their sum;
* `RankingIsOrderless`: a calculation collects, groups, counts and sorts in five
  layers, each a sequence made from the one before, and what is compared is all
  of it. The layers would each need a theorem of the size of `StatsFollow`.

Only proved: what is said of batches that outlive their claims, and of FCM that
loses messages (`ShownOncePerClaim`, `NobodyIsMissed`), since the run has
`Outlive` and `FcmFails` false; and `LinkAnswersItsSending`, that a link answers
for the sending it was sent with, where no reply crossed a new sending.

## 7. What is not modelled

* *Push delivery*: statistics, test messages, the clean-up of old devices and
  single topic updates write one row each. A token that FCM calls dead and that
  is registered again before the update deactivating it (`fcm.service.ts:686`)
  is not modelled: the model registers devices that are installed only.
* *Results import*: the parsing of lines, a competition's name and coefficient,
  the import of the other category, which writes the same competitions, and the rows of the outbox that a
  merge inserts; a correction that is taken back has the key of its first event
  and is not announced again (`results-processor.service.ts:1084`).
* *Import scheduling*: `triggerSyncForCategory`, which nothing in the repository
  calls; it does not look at delayed jobs, as the cron does.
* *API services*: search, the estimation of points, the controllers that pass
  an answer through; of the dashboard and the comparison, names and texts. A
  member that the federation does not find is cached as an empty list for eight
  hours; `MemberDashboard` has members that are found.
* *Notification ingress*: stateless, it formats content and checks tokens.
* *Plumbing*: generated types, DTOs, modules, metrics, logging and deployment
  files have no behaviour of their own.
* MAX_DOUBLE_AFFILIATION, a rule of line-ups that never fires because the roster
  lacks its flag.
* Two processes of the API that share Redis: `read_through_cache` has one, in
  which coalescing takes place; the specification allows any number.

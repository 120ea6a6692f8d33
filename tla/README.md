# Market Reaction Forecaster: a TLA+ verification project

TLA+ models of `app/` (the FastAPI application and its Celery worker), the TLC
configurations that check them and proofs that TLAPS checks. Paths are relative to `src/`.

## 1. The system

One uvicorn process serves the site and the API. Synchronous handlers run in a thread pool,
and each has a database session of its own (`app/main.py:388`); the one asynchronous handler,
Stripe's webhook, runs on the event loop, so webhooks are handled one at a time. A Celery
worker runs `refresh_market_state` when beat says so (weekdays) and an administrator's request
runs the same function in the web process. They share a PostgreSQL database at READ COMMITTED.
Sessions do not autoflush or expire on commit (`app/db.py:36`): a handler computes on the
copies it loaded, and a commit writes the columns it changed. The session cookie is such a
copy too: it comes with a request and goes back with the response. There is no version counter
and no explicit lock anywhere in the code; what protects a table is its unique keys: an
`INSERT` of a taken key raises an `IntegrityError`, which ends the job, and one of a key that
an open transaction has in hand waits for it. Two kinds of file on disk, the weights and the
archive, are rewritten in place.

| component | state | operations | interacts by |
|---|---|---|---|
| market refresh (`services.py:1673`, `tasks.py`) | connector row | ingest, rebuild every security, publish, rebuild users, resolve, report | calls all below; runs concurrently with itself and with requests |
| snapshots (`services.py:643`) | `recommendation_snapshots`, `events` | lock until 13:00 UTC, read the latest event, insert | refresh, manual event, ingestion |
| daily cache (`services.py:269-336`, readers `868-996`) | `daily_predictions`, unique (date, symbol) | fill one row, replace a date, read | refresh against readers |
| personal recommendations (`services.py:751-822`) | `user_recommendations`, unique (user, snapshot), profiles | delete and insert a user's rows | refresh, manual event, startup, profile saves |
| outcomes and report (`services.py:406-511`, `1537`) | `recommendation_outcomes`, `validation_reports` | create one row per horizon, repair, resolve, report | after a snapshot; in each report |
| accounts (`user_service.py`) | `users` | sign up, log in, lock, change, update | threads on one row |
| billing (`billing.py`) | `subscription_states`, role, analytics | checkout, webhooks | Stripe's messages, retried until acknowledged |
| ingestion (`data_sources.py`, `services.py:554-615, 1653`) | `source_snapshots`, `events` | fetch, recognise, insert | in a refresh |
| portfolio, watchlists (`services.py:999-1105`) | positions, lists | close and open | after a rebuild of a user |
| archive (`services.py:1388-1462`) | a run's two files and `latest.json` | write, read | written by an administrator's request and the CLI, read by every report |
| startup and seeding (`main.py:311`, `services.py:1707`) | everything | seed once | before the first request |
| scoring (`scoring.py`) | none | pure functions | called by a rebuild, of a snapshot and of a user |
| autoresearch (`autoresearch.py`) | one weights file | grid search | rewritten in place by every report, read by every rebuild and summary |
| sessions and CSRF (`auth.py`, `main.py:164-415`) | the browser's signed cookie, `auth_required` | check, sign in, clear, send back | every request with a user rewrites the cookie |
| pages, email, exports, analytics (`main.py`, `notifications.py`) | log rows | render, append | a request |

What is hard here: every check-then-insert runs against other jobs doing the same; two notions
of "today" (the UTC date of the cache, 13:00 UTC of the lock) move at different times while a
refresh walks the universe; DELETE-then-INSERT leaves rows committed in between, and makes
jobs wait for each other, in circles too; a job can be killed between any two commits;
handlers write back columns from copies that are out of date; responses reach the browser in
any order; webhooks are repeated and reordered.

What makes the parts correct: a security is decided once per window, but for rebuilds that
overlap; the cache of a date is filled and replaced but never has a hole, and while one job
rebuilds no older row; what is published is fresh; every snapshot is tracked in the end; jobs
end; a lock is lifted and a role taken only by who knew of one; paid access follows the
subscription; a due outcome is resolved, whole and not early; an item of a feed that has a
date is recorded once, and one that is fetched again and again is recorded in the end; a
rebuild allocates no more than the cap, and a user's rows settle on the user's profile; nobody is
told to buy what the scoring did not call a buy; a POST acts for the user of its page, a
logout holds and a spent reset token stays spent; what is archived can be read.

## 2. Modules

| module | role |
|---|---|
| `MarketPipeline` | events, snapshots, cache, personal recommendations and outcome rows, and every job that writes them |
| `RowLocks` | what PostgreSQL does for open transactions that write rows (external): who waits for whom, how far a statement gets, what a commit leaves to those that waited |
| `DailyBoard` | what the cache promises: readers fill empty rows one by one, a refresh replaces a whole date; implemented by `MarketPipeline` |
| `Account` | one user's row and subscription: logins, lockout, password change, administrator's update, Stripe's messages |
| `Validation` | outcome rows from creation to resolution, the weights file, the daily report, the archived runs |
| `EventIngest` | the feeds, source snapshots and events, manual events, the first startup and the next |
| `Scoring` | the base recommendation: the scoring of an event as exact integer operators, no variables |
| `Portfolio` | one user's profile, recommendations and positions, with the scoring and the personalisation computed; extends `Scoring` |
| `Access` | the session cookie and its CSRF token, sign-ups, activation, password reset tokens |
| `MCMarketPipeline`, `MCAccount`, `MCValidation`, `MCEventIngest`, `MCPortfolio`, `MCAccess` | the instances TLC checks |
| `MarketPipeline_proofs`, `MarketRecords_proofs`, `Account_proofs`, `Validation_proofs`, `EventIngest_proofs`, `Portfolio_proofs`, `Access_proofs` | theorems |
| `Recursion` | lemmas the proofs share: induction, iterated functions, sums over finite sets |

### MarketPipeline

*State.* `events[s]` counts a security's events (the last is the latest), `snaps[s]` is the
sequence of its snapshots in commit order (`at` is when, `ev` the event scored), `tracked[s]`
the snapshots with outcome rows, `daily[d][s]` the snapshot cached for a date or 0,
`profile[u]` a version number, `userRecs[u]` the user's rows. `job[p]` is what a job has
read: its label `pc`, the securities and users it has to do, the snapshots it collected
(`got`), the keys its open transaction has deleted or inserted (`held`) and those its statement
has still to reach (`want`). A snapshot's `saw` is history: how many snapshots of the security
the job had seen when it checked the lock.
The clock `now` counts half days: slot 2d is date d before 13:00 UTC and 2d+1 after, so the
cache's date is `now \div 2` and the lock's cutoff is the last odd slot.

*Actions.* An action is the code from one commit, or one read that a later write depends on,
to the next. A rebuild is `LockedSnapshot` or `ReadLatestEvent; Generate; Track;
TrackInsert`; a refresh is `StartRefresh`, then for each security `Ingest` and one or two
rebuilds, `DeleteDaily; LockDaily; PublishDaily`, `LoadUsers`, then for each user
`ReadSnapshots; DeleteRecs; LockRecs; CommitRecs`, `LoadSnapshots`, `EnsureOutcomes;
EnsureInsert` for each missing row, `FinishReport` (or `ReportConflict`, the race for the
report's unique row, over-approximated because that table is not a variable). `SubmitEvent`,
`StartUp`, `SaveProfile`, `Acknowledge`, `StartReport`
begin the other jobs, which share these steps. `ReadFeed`, `ReadDetail`, `StoreCheck`,
`StoreInsert`, `Respond` are the readers. `End` is a return or an exception; `Crash` kills a job
and releases its locks.

The reading of the latest snapshots, the DELETE and the INSERTs of a rebuild are separate
steps, so that a job may delete rows newer than the snapshots it has read and write older ones.
A DELETE is of the rows committed when it begins. It then comes to them one after another, in
an order the model leaves open (`LockDaily`, `LockRecs`), waits at a key that another open
transaction has deleted or inserted, and skips a row that was deleted when the wait is over
(`Committed`). So do the INSERTs (`InsertDaily`, `InsertRecs`, `StoreInsert`): a key in
hand elsewhere is waited for, a taken one fails (`DailyConflict`, `RecsConflict`), and the last
one is followed by the commit. Two jobs may wait for each other, and the server
ends one of those in a circle (`Deadlock`).

The detail view asks the cache for the symbol of the address as it stands and everything else
for its upper case (`services.py:958`, `528`). A view in lower case, by a user who is not paying,
stores the row, does not find it, and calls itself again; `depth` counts the calls and
`RecursionFails` is Python's limit.

*Left out.* The content of a recommendation, quotes, the backtest, the resolution of outcomes
and the portfolio rebuild after a user's rows (it writes other tables only). The order of the
universe and of the users is a choice, which is more than the code does. Administrators'
views read snapshots and write nothing. `Init` is the seeded database.

### Account

*State.* `user` (role, active, attempts, lockedUntil), `sub` (status, trialEnd), each
request's loaded copy and the copy it is to write, Stripe's status, the messages it `sent`
and the `pending` ones it has no acknowledgement for, the webhook handler, and the messages
with an analytics event. `Flush(old, new)` is a commit: columns the handler changed are
written, others are left as they are now.

*Actions.* `LoadUser` (turned away when inactive or locked), `FailLogin` or `PassLogin;
Commit`, `LoadChange; Commit` (change and reset of a password), `LoadUpdate; Commit` (the
administrator's PATCH), `Deliver; CommitHook; CountHook; Respond`, crashes of each, and
Stripe: `Checkout` (its two messages in either order), `Charge`, `Cancel`, `Redeliver`. The
handler reads the user and the subscription in one action: only the handler writes the
subscription after the account exists. Messages of other types or for unknown users are
acknowledged without effect and are not sent.

### Validation

*State.* `snaps` (the call a snapshot makes, its event's bias, its reference price, its day),
`rows[n][h]` the outcome row of snapshot n for horizon h, `reports[d]` a day's report by the
sets of rows it counts as resolved and as open, the files `runs`, `latest` and `weights`
(absent, empty, whole, or mixed when two writers wrote over each other), and what each job
holds. The clock counts days; day 0 is a Monday. Returns are in 1/10000 per cent, rounded
as the code rounds them.

*Actions.* A report is `Start`, `EnsureOutcomes` for each missing snapshot, `LoadDue`,
`FetchQuotes`, `Resolve` (one commit for all due rows, written column by column),
`OpenWeights; FillWeights`, `Summarise`, `FindReport`, `WriteReport`; an archive goes on with
`OpenRun; FillRun; OpenLatest; FillLatest; WriteCsv`. A file is empty between its opening
and its filling; `Summarisable` is the two reads that raise on such a file. `Publish` is a
rebuild by another job, which reads the weights first and may die before it tracks its
snapshot. A reporter stands for the refresh, the startup and the administrator's pages from the
report on: the refresh's rebuilds come first and need the weights, which is the condition
in `ScheduledSpec`.

*Left out.* The quotes a resolution also stores on the security (`Portfolio` has their
effect), the figures of the shadow portfolio and of the funnel, the contents of a run and its
CSV, and the weights themselves. An exception of the network or the disk is a `Crash`.

### EventIngest

*State.* The items the feeds have published, the rows of `source_snapshots` and `events` with
their unique keys, `built` (the securities with a snapshot), and each job's remaining
candidates and the source it inserted. An item of a dated feed keeps its date; `Stamp` gives
an undated one the time it was fetched, as `RssFeedClient` does.

*Actions.* `Lookup; InsertSource; InsertEvent; Count` for each candidate: two commits, of
which the second may fail on the event's key and the first on the source's. `StartIngest`
fetches, `Submit` is the administrator's event, `Rebuild` follows an ingestion that counted
something, `StartUp; CheckSecurity; Serve` is `seed_demo_content` on an empty database and on
one that was left half seeded; a command line that seeds is one more such process. `Post` is
the environment. A feed shows its newest items (`Window`), news those of the last days only
(`NewsDays`, three in the code). A provider that fails, or is not asked for want of a key,
contributes nothing and the refresh goes on: each fetch may lack each feed (`FetchedOf`).

*Left out.* Headlines, themes and biases; the rebuild itself, which `MarketPipeline` has.

### Portfolio

*State.* `profile` with its six columns, `base[s]` the latest snapshot and what the scoring
says of it at the security's quote, `recs` and `open` the user's rows, each job's copies, the
keys its transaction has in hand and those its statement has still to reach, and `alone`, the
job no other has run beside.

*Actions.* `StartSave; Save; Reload` (columns that differ from the copy are written, then the
row is read again), `ReadLatest; DeleteRecs; LockRecs; CommitRecs`, `ReadRecs; ClosePositions;
LockOpen; OpenPositions`. A profile save runs all of them, an acknowledgement all but the
first part, the rebuild button the last part, the refresh the middle one: it rebuilds
recommendations and leaves the portfolio. Rows are reached one by one and waited for as in
`MarketPipeline` (`RecsConflict`, `InsertRecs`, `Deadlock`); new positions have keys of their
own and wait for nobody. `Publish` is a new snapshot or a new quote. `Recommendation`, `Picks`
and `Size` are `personalize_recommendation` and the allocation of
`rebuild_model_portfolio_for_user`.

A base recommendation is one the scoring gives to some input in `Signals`.

*Left out.* Urgency and rationale of a recommendation, prices and PnL of a position, the
watchlists (one insert or delete per request).

### Scoring

`simulate_mirofish_signal`, `analyze_chaos` and `build_base_recommendation` from an event's
type, bias and text, the day's change, the number of analogs and the source's trust to an
action, a conviction and a confidence. The code computes in floating point and rounds to three
decimals on the way; here each quantity is an integer multiple of a stated unit, small enough
for TLC's 32 bits, and `Rounded` rounds half to even as Python does.

The operators were compared with `app/scoring.py` on a grid of 44,800 inputs: the action is the
same on all; the conviction differs by one on 5 and the confidence by a hundredth on 155. There
the decimal value is halfway between two neighbours and the code's binary fraction falls on one
side of it, in a persona's third decimal. No property depends on such a tie. A text is its
positive less its negative terms. The weights are those of the baseline; the file a report may
have tuned is in `Validation`. The personas' own confidence and positioning, the ranges per
horizon and the texts are left out: nothing decides on them.

### Access

*State.* `cookie` is the browser's session, a user and a CSRF token; `form` is the session the
page in a tab was rendered from; `req[r]` a request in flight with the copy of the session it
came with, the row it writes and the user it acts for; `acct` the rows of `users`, of which the
activation and the reset token count here; `authRequired` is settled when the process starts.
`mailed`, `lost`, `spent` and `gone` record what happened to tokens and to the session.

*Actions.* A request arrives (`View`, `Login`, `SignUp`, `Logout`, `ChangePassword`,
`UpdateUser`, `CreateUser`, `Forgot`, `Reset`, or `Pass` for those that do not look at the
session), does the rest of its work (`Create`, `Commit`, `Mail` or `MailFails`) and is answered:
`Respond` sets the cookie to its copy. Responses arrive in any order. `Crash` kills a request,
`Restart` the process. A POST compares the token of its page with the session's (`Matches`).

*Left out.* Roles and lockouts (`Account` has them), the hashes of passwords and of tokens, the
expiry of a reset token, the verification of an address. Two browsers share nothing but rows,
so one is modelled.

## 3. What TLC checks

| run | instance | question |
|---|---|---|
| `MarketRefresh` | one refresh, a profile save, a feed reader, two dates and two windows | `CacheNeverGoesBack`, `TypeOK` |
| `MarketContention` | two refreshes, a detail reader | `PublishedFresh`, `OneSnapshotPerWindow`, the cache implements `DailyBoard` |
| `MarketJobs` | startup, a manual event, a profile save, all of one user | `JobsEnd` |
| `MarketLive` | a scheduled refresh, a report, a detail view in either case, a crash | `JobsEnd`, `OutcomesRepaired` |
| `AccountWebhooks` | two logins, a password change, limit 2, a lock that expires, two messages in any order and again | `AttemptsBelowLimit`, `LockLiftedKnowingly`, `AckedIsCounted`, `TypeOK` |
| `AccountOrdered` | a login, an administrator, three messages in order, a crash | `AckedIsCounted`, `CanceledMeansNoAccess`, `AdminKept`, `CancellationArrives` |
| `ValidationReports` | a report and an archive over a weekend, a snapshot, a crash | `RowsNotTorn`, `NotEarly`, `NoDueLeftOpen`, `LatestIsArchived`, `DueResolved`, `TypeOK` |
| `IngestEvents` | two ingestions of a feed that answers or fails, a manual event, a startup, a crash | `RecordedOnce`, `SourceShared`, `ServingReady`, `CaughtUp`, `TypeOK` |
| `PortfolioRebuild` | a profile save, the rebuild button, the refresh, two securities each scored from an input of its own, a new snapshot or quote, a crash | `AllocationCap`, `AloneIsExact`, `NoInventedBuy`, `RecsSettle`, `TypeOK` |
| `AccessSessions` | two requests in flight, the administrator and a user, two reset tokens, a killed request or a restart | `ActsForItsPage`, `SpentStaysSpent`, `LiveTokenMailed`, `LogoutHolds`, `TypeOK` |

*Bounds.* Every bound is a constant: `MaxSlot`, `MaxEvents`, `MaxProfile`, `MaxCrashes`,
`MaxDepth`, `MaxTime`, `MaxMessages`, `MaxPosts`, `MaxSaves`, `MaxPublished`. Two securities are
enough for a feed to be partial, for a refresh to be between two of them when the cutoff moves
and for two transactions to come to overlapping keys in opposite order; two concurrent writers of
a table are enough for each check-then-insert, since a third meets the same committed row as the
second; three slots have both boundaries of "today" in them. `MarketJobs` needs three jobs on
one user's rows, for each to be deleting, inserting or waiting; with one security a circle
is closed by rows of two of its snapshots. `MaxDepth` is two calls: the limit is reached and a
call before it goes on. In `MarketRefresh` one job rebuilds: two that
overlap may both insert a snapshot and publish them in the other order, and the cache goes back.

`Account` is checked in two runs, because what its requests race for does not meet: the
counter and the lock need two logins, and a password change as the other writer of stale copies
(`AccountWebhooks`, with a webhook as a third); the role and the subscription need a login and
an administrator beside the webhook, and three messages, which are a checkout's two and an end
(`AccountOrdered`). `AckedIsCounted` is in both, out of order and again in one, with a crash in
the other; the theorem has them together.

`ValidationReports` begins on a Saturday, so that a horizon of one day crosses the weekend;
its two quotes move the security and the benchmark in opposite directions, so that columns of
two resolvers cannot be confused, and its call is one whose baseline stays the default; the
other calls are covered by the proof. `PortfolioRebuild` uses two securities with a portfolio
cap of 10 % (`FullPct`) in place of 100 %: one position of 14 % is then over it as ten of
14 % are in the code; `TwoProfiles` takes each branch of the risk penalty and two of its
overrides; in `TwoInputs` one security has an event the scoring calls a buy, and the other one
it calls a hold with forty analogs behind it, whose conviction would be high enough for an
invented buy if all of them counted. `IngestEvents` has one feed of news with one item, dated or
undated, that leaves the answers after a day, on a clock of three; items displaced by newer ones,
the other feeds and any number of days and items are covered by the proofs, `CaughtUp`, which is
not proved, by this instance only.
In `AccessSessions` two requests are enough to have every arrival of one between any two
steps of the other, and two CSRF tokens to have an old page and a new session.

*Fairness.* `FairSpec` of `MarketPipeline` is strong fairness of each job's steps: a thread that
began is run to its end, and a statement that waits for a row is woken whenever the transaction
in its way ends. It must be strong because a row may be locked again before the one that waits
gets it; PostgreSQL queues those that wait, so one that is let through again and again gets
through. Nothing is assumed to begin, to crash or to make the clock run.
`ScheduledSpec` adds weak fairness of the start of each refresh: beat starts it again and
again. `ScheduledSpec` of `Portfolio` is the same. `FairSpec` of `EventIngest` is weak fairness
of the steps of an ingestion that began; that one begins or that a provider answers is the
premise of `CaughtUp`, not an assumption. `FairSpec` of `Account` is weak fairness of the handling
of messages: Stripe retries what is not acknowledged and the event loop runs the handler.
`ScheduledSpec` of `Validation` is weak fairness of the steps of what has begun and of the
start of what beat schedules, which is fair only while the weights file
can be read, because a refresh rebuilds before it reports. The conclusions that need the
weights say so (`WeightsLost`): a job killed between truncating and filling them stops all
refreshes until somebody asks for a report.
`CancellationArrives` and `CanceledMeansNoAccess` assume in-order delivery, retries included
(`InOrder`), which Stripe does not promise: the handler keeps no trace of the messages it has
handled (`last_webhook_event_id`, `models.py:101`, is never written), so an older message that
comes late, or is sent again late, decides the status. They say that nothing else breaks it.

*Disagreements.* Two runs check something a document says and find that the code does otherwise.

| run | said | done |
|---|---|---|
| `MarketPaidFeed` | "paid personalized feed" (`docs/mvp-spec.md:23`) | after a manual event the users' rows are for newer snapshots than the cache and the join finds none |
| `ValidationArchive` | "daily validation reports" (`README.md:36`) | an archiver killed as it fills `latest.json` leaves a file that every later report fails on |

The models also show behaviour that no document forbids and no property excludes: one row a
detail view has cached is the whole feed of its date until the next refresh; a rebuild of a user
that read the snapshots before a refresh published may delete the refresh's rows and write older
ones, and a refresh that loaded a user's profile writes that user's recommendations from it even
after a save (`RecsSettle` says the next refresh repairs both, not that this one is right); two
overlapping rebuilds make two snapshots of a window; two overlapping portfolio rebuilds leave
two sets of positions open, which together may exceed the cap; a view of a symbol in lower case
fails; news that no refresh fetched within three days is never seen; Stripe's trial ends with the
local trial's clock; a response under way at a logout brings the session back; and
an undated or manual item is a new event each time it is seen, because its key has the time.

## 4. What is proved

Every safety invariant and every action property of the passing runs but
`CanceledMeansNoAccess` is a theorem, and so is the refinement of `DailyBoard`. The theorems hold
for any universe, users, jobs and bounds, from the named assumptions on the constants: kinds of
jobs are disjoint, bounds and limits are numbers, a call is an action with a bias, prices are
numbers, a profile is a record of its columns, a feed has a window and news a number of days,
and where rows are counted or summed the universe is finite (`BoundsAssumption`,
`KindsAssumption`, `SettingsAssumption`, `CallsAssumption`, `PricesAssumption`,
`SignalsAssumption`, `ProfilesAssumption`, `SecuritiesAssumption`, `UniverseAssumption`,
`FeedsAssumption`, `UsersAssumption`). One rests on a further condition, stated in an ASSUME of
the theorem: `NeverBack` has `OneRebuilder`, one job that rebuilds snapshots, because with two
the property fails (section 3).

### Recursion

The library states induction for an operator, which no prover here can instantiate. `NatInd` and
`SubsetInd` state it for a set instead, the set of the numbers or subsets that have the
property, and rest on the least element of a set of naturals (`LeastNat`). From them come that a
function iterated n times is what the recursion says (`Iterates`), and what the proofs need of
`MapThenSumSet`, which the library defines as a fold: its value exists and is unique
(`SumExists`, `SumUnique`), it depends on the weights of its elements only (`SumWithin`), and an
element adds its weight (`SumAdd`).

### MarketPipeline

* `TypeCorrect`, `Spec => []TypeOK`. `TypeOK` is not inductive: a step indexes `snaps` with the
  job's security, which may be `None`. The invariant adds `SubjectOK`: at the labels that use
  them, the job has a security, or a user.
* `PublishedFreshness`, `Spec => []PublishedFresh`. A refresh publishes what it collected over
  many steps. The invariant says of every security it is through with (`Collected`) that the
  collected snapshot exists and is not older than the cutoff of the refresh's start, of the
  security it is at that what it holds is a snapshot made since (`FreshWork`), and that every
  security has a snapshot (`HistoryOK`). It is kept because cutoffs only grow and snapshots are
  only appended (`Grows`).
* `BoardImplemented`, `Spec => BoardSpec`: each step maps to a `Fill`, a `Publish` or a stutter
  of `DailyBoard`. It uses the invariant: what is published has no hole.
* `WindowsApart`, `Spec => []OneSnapshotPerWindow`, with any number of rebuilders. A job about
  to commit a snapshot has seen, of the snapshots there were when it checked the lock, that they
  are older than the cutoff (`Opening`); others may add more before it does, but those it has not
  seen, and the cutoff only moves forward.
* `NeverBack`: what the only rebuilder has collected is the latest (`Newest`), and what a reader
  is to store is a snapshot that exists (`Held`), so a date the rebuilder publishes cannot be older
  than anything stored in it.

### Account

`TypeCorrect`, `AttemptsBounded`, `LockKept`, `AdminStays`. The invariant says of all copies
in flight what is shown of the row: their counters are below the limit, so counting and
writing back any of them is too; a login or a webhook that loaded an administrator is not
about to demote it, a password change leaves the role, and a webhook and a login that loaded
no lock leave the lock. The action properties follow from what a column-wise write of such a
copy can do. `AckedCounted` follows the handler: what it has in hand is still pending, and
what is no longer pending was counted (`Handled`).

### Validation

* `LatestKept`, `Spec => []LatestIsArchived`. The invariant follows an archiver: its run exists
  from the moment it opens the file, and the file is whole from the moment it filled it until
  it has written `latest.json`, since nobody else writes that file.
* `RowsWhole`, `Spec => []RowsNotTorn`. A row tells of its snapshot in every column (`RowOK`),
  and its baseline is the default until it is resolved. That is what makes it inductive: a
  later resolver writes every column but a default baseline, and finds that right, because both
  compute it from the same event.
* `NoneLeftOpen`, `Spec => []NoDueLeftOpen`. What is due when a job begins is in the table when
  it loads the due rows, since a snapshot is tracked for all horizons or none and what is tracked
  later has a target later than its day (`Ahead`); it is then resolved before the job counts
  (`DueOK`, one clause per label).
* `TradingDaysCounted`: `AddTradingDays` moves a day on by exactly the asked number of weekdays,
  for any day and horizon; a week-end is at most two days, so `NextWeekday` finds the next one
  within three.
* `NoneEarly`, `Spec => []NotEarly`. A row is resolved on its target or later (`Timely`), and the
  weekdays up to a later day are no fewer.
* `TypeCorrect`, from the invariants of the other theorems (`Shape`, `RowsOK`, `Archived`).

### EventIngest

`TypeCorrect`, `OneSource`, `ReadyWhenServing`, `OnceForAll`. `IInv` ties what a job has in hand
to the tables: the source it is to name is the row of its item, and rows are numbered from one
because the unique keys refuse a second. `ServingReady` needs `Coverage`: a starter that has a
security behind it has left it with an event and a snapshot. `RecordedOnce` needs more than
the unique key, which has the stamp in it: an item with a date has one stamp wherever it is
fetched, which `IInv` says of every candidate in hand and every event. None has a condition on
how many processes start or seed.

### Portfolio and Scoring

* `HoldNeverConvinced`: a score between the thresholds has a conviction of at most three, by the
  caps on analogs and consensus; `BaseRecommendationInRange`; and, from them, `NeverInvents`,
  `Spec => NoInventedBuy`, with the invariant that what a job has read of the snapshots is what
  the scoring says of some input (`Typed`, which is also what `TypeCorrect` rests on).
* `CallHasCause`: a buy or a sell is beyond its threshold before the chaos penalty, which can only
  take it back, and its catalyst (type, bias and text) is not far on the other side. It follows
  from the range of the personas (`PersonasRange`) and of the rounded products (`TimesBelow`).
* `CautionBuysNoMore`: an order of profiles (`Cautious`) under which the advice to buy is monotone,
  although the override for a conservative profile makes a hold of some sells.
* `NeverOverAllocated`, `Spec => []AllocationCap`. The open rows of a job are of one rebuild,
  because those of its earlier ones are among the rows it closes before it opens more
  (`OneRebuild`). For one rebuild the bound is about a sum: scaled sizes add up to the cap, and
  each rounding adds at most half a unit, which is proved along the recursion of the sum.
* `ExactAlone`, `Spec => AloneIsExact`. The invariant says of a job beside which no other has run
  that everybody else is idle and that what it has read is still so, label by label
  (`Undisturbed`, `UpToDate`).

### Access

`TypeCorrect`, `PageActs`, `SpentStays`, `LiveMailed`, `LogoutStays`. A token names one session's
user (every copy of it, in the cookie, in flight and in a page, agrees), which is why a POST
that matches acts for its page (`OneOwner`). A reset token belongs to one row, and one that a
request is about to write is known to nobody else: it is in no row, in no copy of a row, and not
spent (`TokenInv`). `LogoutHolds` follows from `LogoutInv`: once the session is gone the cookie
names no user, and no request in flight does but a login or a sign-up.

### Only model-checked

Liveness: `JobsEnd`, `OutcomesRepaired`, `CancellationArrives`, `DueResolved`, `CaughtUp`,
`RecsSettle`. The prover has neither fairness nor ENABLED. `CanceledMeansNoAccess`: with
retries out of order it fails, and a proof would say no more than the run does. That the
operators of `Scoring` are those of `app/scoring.py` was compared outside TLA+ (section 2).

## 5. Plan

Done: `MarketPipeline` with `DailyBoard`, `Account`, `Validation`, `EventIngest`, `Scoring`
and `Portfolio`, `Access`, in this order of importance, with `RowLocks` under the two that
write rows in open transactions, and proofs of all safety properties but one.

Left: compositions. `EventIngest`'s final states implement the `Init` of `MarketPipeline`;
`Portfolio`'s recommendations are an instance of `MarketPipeline`'s `userRecs`.

### Not modelled, and why

* Connector rows of feeds other than the refresh's own status: each refresh and status page
  upserts one; a row is the last thing written. That a refresh that died leaves it at "running"
  is in `MarketPipeline` and excluded by no property.
* Watchlists, analytics other than the webhook's, exports, emails other than the reset mail:
  one insert per request, or output only. The verification of an address.
* Hashing and random tokens: library calls. Pages, response schemas, settings: no state.
* Migrations: run once, by hand.
* The loss and the grid search of autoresearch, the backtest's figures, horizon ranges and the
  contents of an archived run: floating-point figures nothing else decides on. The weights file
  is modelled as a file, not by what is in it: `Scoring` has the baseline's.
* Prices and PnL of positions.
* Second Stripe subscriptions of one user: `billing.py` does not prevent them, and the row has
  room for one.

---------------------------- MODULE MarketPipeline ----------------------------
(***************************************************************************)
(* The path of a recommendation through the database: events and snapshots *)
(* per security, the daily prediction cache, the per-user recommendations  *)
(* and the outcome rows that track a snapshot, written by the scheduled    *)
(* market refresh, the admin's manual event, application startup, profile  *)
(* saves and the readers of the feed and detail views.                     *)
(*                                                                         *)
(* Every request and task has its own session on a READ COMMITTED          *)
(* database, so one action is the code between two commits (or between a   *)
(* read and the write that depends on it), and the actions of different    *)
(* jobs interleave.  A DELETE is a step of its own: it deletes the rows it *)
(* sees, and rows committed later survive it.  A statement that comes to a *)
(* key another open transaction deleted or inserted waits (RowLocks), and  *)
(* an INSERT of a key that is taken raises IntegrityError, which ends the  *)
(* job, as does being the victim of a deadlock.                            *)
(***************************************************************************)
EXTENDS Integers, Sequences, RowLocks

CONSTANTS
  Securities,     \* the launch universe (list_reference_universe)
  Users,
  Refreshers,     \* jobs running refresh_market_state: the Celery task, the admin's request
  Submitters,     \* requests running create_event_api
  Starters,       \* lifespan: the application starting up
  Reporters,      \* requests that write the validation report
  Savers,         \* requests that save a profile or acknowledge the disclosures
  FeedReaders,    \* requests for the feed, by users who are not admins
  DetailReaders,  \* requests for one recommendation, by users who are not admins
  MaxSlot,        \* bound on the clock
  MaxEvents,      \* bound on the events of one security
  MaxProfile,     \* bound on the saves of one profile
  MaxCrashes,     \* bound on the jobs killed half-way
  MaxDepth,       \* calls of a view in lower case that Python's stack takes, 0 for no such view
  None            \* no security, no user

Rebuilders == Refreshers \cup Submitters
Jobs == Rebuilders \cup Starters \cup Reporters \cup Savers \cup FeedReaders \cup DetailReaders

ASSUME BoundsAssumption ==
  {MaxSlot, MaxEvents, MaxProfile, MaxCrashes, MaxDepth} \subseteq Nat

\* A job is of one kind: kinds are request handlers and tasks.
ASSUME KindsAssumption ==
  /\ Refreshers \cap (Submitters \cup Starters \cup Reporters \cup Savers
                     \cup FeedReaders \cup DetailReaders) = {}
  /\ Submitters \cap (Starters \cup Reporters \cup Savers \cup FeedReaders \cup DetailReaders) = {}
  /\ Starters \cap (Reporters \cup Savers \cup FeedReaders \cup DetailReaders) = {}
  /\ Reporters \cap (Savers \cup FeedReaders \cup DetailReaders) = {}
  /\ Savers \cap (FeedReaders \cup DetailReaders) = {}
  /\ FeedReaders \cap DetailReaders = {}
  /\ None \notin Securities \cup Users

VARIABLES
  now,        \* the clock in half days: 2d is date d before 13:00 UTC, 2d+1 after
  events,     \* events[s]: how many events security s has; the last is the latest
  snaps,      \* snaps[s]: the snapshots of s in commit order
  tracked,    \* tracked[s]: the snapshots of s that have outcome rows
  daily,      \* daily[d][s]: the snapshot locked in for s on date d, 0 if no row
  profile,    \* profile[u]: the version of u's profile, 0 before onboarding
  userRecs,   \* userRecs[u]: u's recommendation rows
  connector,  \* status of the market_refresh connector
  job,        \* what each job has read and where it is
  crashes
vars == <<now, events, snaps, tracked, daily, profile, userRecs, connector, job, crashes>>

-------------------------------------------------------------------------------
\* The two notions of "today".  The cache is keyed by the UTC date; a snapshot
\* stays locked until 13:00 UTC, "today's cutoff", has passed again.
Date(t) == t \div 2
Cutoff(t) == IF t % 2 = 1 THEN t ELSE t - 1

Dates == 0 .. Date(MaxSlot)
Slots == 0 .. MaxSlot

\* "saw" is history: how many snapshots of the security the job's lock check had seen.
Snapshot == [at : Slots, ev : Nat, saw : Nat]
Recommendation == [sec : Securities, snap : Nat, prof : Nat]

\* The unique keys of the two tables whose rows are deleted and inserted again.
DailyKey(d, s) == <<d, s>>
RecKey(u, r) == <<u, r.sec, r.snap>>

Latest == [s \in Securities |-> Len(snaps[s])]

Idle == [pc |-> "idle", todo |-> {}, sec |-> None,
         twice |-> FALSE, ev |-> 0, snap |-> 0, got |-> [s \in Securities |-> 0],
         date |-> 0, started |-> 0, held |-> {}, want |-> {}, users |-> {}, user |-> None,
         prof |-> [u \in Users |-> 0], depth |-> 0]

\* Startup has seeded the universe: each security has an event and a tracked
\* snapshot, each onboarded user has recommendations, no date has a cache yet.
Init ==
  /\ now = 0
  /\ events = [s \in Securities |-> 1]
  /\ snaps = [s \in Securities |-> <<[at |-> 0, ev |-> 1, saw |-> 0]>>]
  /\ tracked = [s \in Securities |-> {1}]
  /\ daily = [d \in Dates |-> [s \in Securities |-> 0]]
  /\ profile \in [Users -> {0, 1}]
  /\ userRecs = [u \in Users |->
       IF profile[u] = 0 THEN {}
       ELSE {[sec |-> s, snap |-> 1, prof |-> 1] : s \in Securities}]
  /\ connector = "seeded"
  /\ job = [p \in Jobs |-> Idle]
  /\ crashes = 0

Tick ==
  /\ now < MaxSlot
  /\ now' = now + 1
  /\ UNCHANGED <<events, snaps, tracked, daily, profile, userRecs, connector, job, crashes>>

-------------------------------------------------------------------------------
\* Control of a job.

At(p, label) == job[p].pc = label
Set(p, j) == job' = [job EXCEPT ![p] = j]

EndLeakingLocks(p) == Set(p, [job[p] EXCEPT !.pc = "idle"])    \* mutant: no rollback
\* The job of p ends, by returning or by an exception; its locks are released.
End(p) == Set(p, Idle)

\* A worker or a request is killed between two commits.
Crash(p) ==
  /\ ~At(p, "idle")
  /\ crashes < MaxCrashes
  /\ crashes' = crashes + 1
  /\ End(p)
  /\ UNCHANGED <<now, events, snaps, tracked, daily, profile, userRecs, connector>>

-------------------------------------------------------------------------------
\* Refreshing the snapshot of a security.

StartRefresh(p) ==
  /\ At(p, "idle")
  /\ connector' = "running"
  /\ Set(p, [Idle EXCEPT !.pc = "ingest", !.todo = Securities, !.started = now])
  /\ UNCHANGED <<now, events, snaps, tracked, daily, profile, userRecs, crashes>>

\* refresh_security_quote and ingest_candidate_events: a new event makes the
\* ingestion rebuild the security before the refresh rebuilds it again.
Ingest(p) ==
  /\ At(p, "ingest")
  /\ \E s \in job[p].todo, new \in {0, 1} :
       /\ events[s] + new <= MaxEvents
       /\ events' = [events EXCEPT ![s] = @ + new]
       /\ Set(p, [job[p] EXCEPT !.pc = "check", !.todo = @ \ {s}, !.sec = s,
                                !.twice = (new = 1)])
  /\ UNCHANGED <<now, snaps, tracked, daily, profile, userRecs, connector, crashes>>

\* create_event_api: the admin's event, then the rebuild of its security.
SubmitEvent(p) ==
  /\ At(p, "idle")
  /\ \E s \in Securities :
       /\ events[s] < MaxEvents
       /\ events' = [events EXCEPT ![s] = @ + 1]
       /\ Set(p, [Idle EXCEPT !.pc = "check", !.sec = s])
  /\ UNCHANGED <<now, snaps, tracked, daily, profile, userRecs, connector, crashes>>

\* Where a job goes once rebuild_security_recommendation has returned
\* snapshot i: the second call after an ingestion, the next security, the
\* cache, or, for a manual event, the users.
Rebuilt(p, i) ==
  LET j == [job[p] EXCEPT !.snap = 0, !.got[job[p].sec] = i] IN
  IF j.twice THEN [j EXCEPT !.pc = "check", !.twice = FALSE]
  ELSE [j EXCEPT !.sec = None,
                 !.pc = IF p \in Submitters THEN "load"
                        ELSE IF j.todo = {} THEN "delete" ELSE "ingest"]

\* The lock: a snapshot at or after the cutoff is returned unchanged.
LockedForEver(s) == TRUE              \* mutant: the cutoff is not looked at
NeverLocked(s) == FALSE               \* mutant: every call is forced
Locked(s) == snaps[s][Len(snaps[s])].at >= Cutoff(now)

LockedSnapshot(p) ==
  /\ At(p, "check")
  /\ LET s == job[p].sec IN
       /\ Locked(s)
       /\ Set(p, Rebuilt(p, Len(snaps[s])))
  /\ UNCHANGED <<now, events, snaps, tracked, daily, profile, userRecs, connector, crashes>>

\* Otherwise the latest event is read and scored ...
ReadLatestEvent(p) ==
  /\ At(p, "check")
  /\ LET s == job[p].sec IN
       /\ ~Locked(s)
       /\ Set(p, [job[p] EXCEPT !.pc = "generate", !.ev = events[s], !.snap = Len(snaps[s])])
  /\ UNCHANGED <<now, events, snaps, tracked, daily, profile, userRecs, connector, crashes>>

\* ... and the snapshot is committed, stamped with the time of the commit.
StampedAhead(p) == [at |-> now + 1, ev |-> job[p].ev, saw |-> job[p].snap]  \* mutant: the window's end
NewSnapshot(p) == [at |-> now, ev |-> job[p].ev, saw |-> job[p].snap]

Generate(p) ==
  /\ At(p, "generate")
  /\ LET s == job[p].sec IN
       /\ snaps' = [snaps EXCEPT ![s] = Append(@, NewSnapshot(p))]
       /\ Set(p, [job[p] EXCEPT !.pc = "track", !.ev = 0, !.snap = Len(snaps[s]) + 1])
  /\ UNCHANGED <<now, events, tracked, daily, profile, userRecs, connector, crashes>>

\* ensure_recommendation_outcomes for the snapshot just made: read ...
Track(p) ==
  /\ At(p, "track")
  /\ LET s == job[p].sec
         i == job[p].snap IN
       Set(p, IF i \in tracked[s] THEN Rebuilt(p, i)
              ELSE [job[p] EXCEPT !.pc = "trackInsert"])
  /\ UNCHANGED <<now, events, snaps, tracked, daily, profile, userRecs, connector, crashes>>

\* ... and insert one row per horizon; another job may have inserted them.
InsertOutcomes(p, next) ==
  LET s == job[p].sec
      i == job[p].snap IN
  IF i \in tracked[s]
  THEN End(p) /\ UNCHANGED tracked
  ELSE /\ tracked' = [tracked EXCEPT ![s] = @ \cup {i}]
       /\ Set(p, next)

TrackInsert(p) ==
  /\ At(p, "trackInsert")
  /\ InsertOutcomes(p, Rebuilt(p, job[p].snap))
  /\ UNCHANGED <<now, events, snaps, daily, profile, userRecs, connector, crashes>>

-------------------------------------------------------------------------------
\* Publishing the refreshed snapshots as the date's predictions.

Deleting == {"lockDaily", "lockRecs"}

\* Mutant: the DELETE is committed on its own.
DeleteDailyCommitted(p) ==
  /\ At(p, "delete")
  /\ daily' = [daily EXCEPT ![Date(now)] = [s \in Securities |-> 0]]
  /\ Set(p, [job[p] EXCEPT !.pc = "publish", !.date = Date(now),
                           !.want = {DailyKey(Date(now), s) : s \in Securities}])
  /\ UNCHANGED <<now, events, snaps, tracked, profile, userRecs, connector, crashes>>

\* DELETE of the date's rows: those committed by now ...
DeleteDaily(p) ==
  /\ At(p, "delete")
  /\ LET d == Date(now) IN
     Set(p, [job[p] EXCEPT !.pc = "lockDaily", !.date = d,
               !.want = {DailyKey(d, s) : s \in {t \in Securities : daily[d][t] # 0}}])
  /\ UNCHANGED <<now, events, snaps, tracked, daily, profile, userRecs, connector, crashes>>

\* ... one after another, until it has them all.
LockDaily(p) ==
  /\ At(p, "lockDaily")
  /\ \E keys \in Reached(job, p) :
       Set(p, [job[p] EXCEPT !.held = @ \cup keys,
                 !.pc = IF keys = job[p].want THEN "publish" ELSE @,
                 !.want = IF keys = job[p].want
                          THEN {DailyKey(job[p].date, s) : s \in Securities} ELSE @ \ keys])
  /\ UNCHANGED <<now, events, snaps, tracked, daily, profile, userRecs, connector, crashes>>

\* INSERT of a row per security.  One that was committed after the DELETE is in
\* the way of the rows "keys".
DailyInTheWay(p, keys) ==
  \E s \in Securities : /\ DailyKey(job[p].date, s) \in keys \ job[p].held
                        /\ daily[job[p].date][s] # 0

DailyConflict(p) ==
  /\ At(p, "publish")
  /\ DailyInTheWay(p, Free(job, p))
  /\ End(p)
  /\ UNCHANGED <<now, events, snaps, tracked, daily, profile, userRecs, connector, crashes>>

\* Some are inserted and another has to wait ...
InsertDaily(p) ==
  /\ At(p, "publish")
  /\ \E keys \in Reached(job, p) \ {job[p].want} :
       /\ ~DailyInTheWay(p, keys)
       /\ Set(p, [job[p] EXCEPT !.held = @ \cup keys, !.want = @ \ keys])
  /\ UNCHANGED <<now, events, snaps, tracked, daily, profile, userRecs, connector, crashes>>

\* ... or the last one is, and the transaction is committed; then on to the users.
PublishDaily(p) ==
  /\ At(p, "publish")
  /\ Free(job, p) = job[p].want
  /\ ~DailyInTheWay(p, job[p].want)
  /\ daily' = [daily EXCEPT ![job[p].date] = job[p].got]
  /\ job' = Committed(job, p, [job[p] EXCEPT !.pc = "load", !.held = {}, !.want = {}], Deleting)
  /\ UNCHANGED <<now, events, snaps, tracked, profile, userRecs, connector, crashes>>

-------------------------------------------------------------------------------
\* Rebuilding the users' recommendations.

\* lifespan: the bootstrap admin, who gets a profile if there is none yet, is
\* rebuilt before everybody is.  (The universe is seeded: see Init.)
StartUp(p) ==
  /\ At(p, "idle")
  /\ \E admin \in Users :
       /\ profile' = [profile EXCEPT ![admin] = IF @ = 0 THEN 1 ELSE @]
       /\ Set(p, [Idle EXCEPT !.pc = "readRecs", !.twice = TRUE, !.users = {admin},
                              !.prof = profile'])
  /\ UNCHANGED <<now, events, snaps, tracked, daily, userRecs, connector, crashes>>

\* rebuild_all_user_recommendations loads every user with the profile first.
LoadUsers(p) ==
  /\ At(p, "load")
  /\ LET onboarded == {u \in Users : profile[u] # 0} IN
     Set(p, [Idle EXCEPT !.pc = IF onboarded = {} THEN "report" ELSE "readRecs",
               !.date = job[p].date, !.users = onboarded, !.prof = profile])
  /\ UNCHANGED <<now, events, snaps, tracked, daily, profile, userRecs, connector, crashes>>

\* create_profile_api: the profile is committed, then the recommendations follow.
SaveProfile(p) ==
  /\ At(p, "idle")
  /\ \E u \in Users :
       /\ profile[u] < MaxProfile
       /\ profile' = [profile EXCEPT ![u] = @ + 1]
       /\ Set(p, [Idle EXCEPT !.pc = "readRecs", !.users = {u}, !.prof = profile'])
  /\ UNCHANGED <<now, events, snaps, tracked, daily, userRecs, connector, crashes>>

\* acknowledge_disclosures_api rebuilds from the profile as it was loaded.
Acknowledge(p) ==
  /\ At(p, "idle")
  /\ \E u \in Users :
       /\ profile[u] # 0
       /\ Set(p, [Idle EXCEPT !.pc = "readRecs", !.users = {u}, !.prof = profile])
  /\ UNCHANGED <<now, events, snaps, tracked, daily, profile, userRecs, connector, crashes>>

\* rebuild_user_recommendations_for_user: the latest snapshots are read ...
ReadSnapshots(p) ==
  /\ At(p, "readRecs")
  /\ \E u \in job[p].users :
       Set(p, [job[p] EXCEPT !.pc = "deleteRecs", !.user = u, !.users = @ \ {u}, !.got = Latest])
  /\ UNCHANGED <<now, events, snaps, tracked, daily, profile, userRecs, connector, crashes>>

\* ... then the user's rows are deleted, those committed by now ...
DeleteRecs(p) ==
  /\ At(p, "deleteRecs")
  /\ LET u == job[p].user IN
     Set(p, [job[p] EXCEPT !.pc = "lockRecs", !.want = {RecKey(u, r) : r \in userRecs[u]}])
  /\ UNCHANGED <<now, events, snaps, tracked, daily, profile, userRecs, connector, crashes>>

NewRecs(p) == {[sec |-> s, snap |-> job[p].got[s], prof |-> job[p].prof[job[p].user]] :
                 s \in Securities}

\* ... one after another ...
LockRecs(p) ==
  /\ At(p, "lockRecs")
  /\ \E keys \in Reached(job, p) :
       Set(p, [job[p] EXCEPT !.held = @ \cup keys,
                 !.pc = IF keys = job[p].want THEN "writeRecs" ELSE @,
                 !.want = IF keys = job[p].want
                          THEN {RecKey(job[p].user, r) : r \in NewRecs(p)} ELSE @ \ keys])
  /\ UNCHANGED <<now, events, snaps, tracked, daily, profile, userRecs, connector, crashes>>

\* ... and one row per snapshot is inserted.  One that came after the DELETE and
\* has the same user and snapshot is in the way.
Kept(p) == {r \in userRecs[job[p].user] : RecKey(job[p].user, r) \notin job[p].held}
RecInTheWay(p, keys) == \E r \in Kept(p) : RecKey(job[p].user, r) \in keys

RecsConflict(p) ==
  /\ At(p, "writeRecs")
  /\ RecInTheWay(p, Free(job, p))
  /\ End(p)
  /\ UNCHANGED <<now, events, snaps, tracked, daily, profile, userRecs, connector, crashes>>

InsertRecs(p) ==
  /\ At(p, "writeRecs")
  /\ \E keys \in Reached(job, p) \ {job[p].want} :
       /\ ~RecInTheWay(p, keys)
       /\ Set(p, [job[p] EXCEPT !.held = @ \cup keys, !.want = @ \ keys])
  /\ UNCHANGED <<now, events, snaps, tracked, daily, profile, userRecs, connector, crashes>>

\* Where a job goes when a user's recommendations are committed.
AfterUser(p) ==
  IF job[p].users # {} THEN [job[p] EXCEPT !.pc = "readRecs", !.held = {}, !.want = {}]
  ELSE IF p \in Savers THEN Idle
  ELSE IF job[p].twice THEN [Idle EXCEPT !.pc = "load"]
  ELSE [Idle EXCEPT !.pc = "report", !.date = job[p].date]

CommitRecs(p) ==
  /\ At(p, "writeRecs")
  /\ Free(job, p) = job[p].want
  /\ ~RecInTheWay(p, job[p].want)
  /\ userRecs' = [userRecs EXCEPT ![job[p].user] = Kept(p) \cup NewRecs(p)]
  /\ job' = Committed(job, p, AfterUser(p), Deleting)
  /\ UNCHANGED <<now, events, snaps, tracked, daily, profile, connector, crashes>>

\* The database aborts a transaction of a circle, and the job fails.
Deadlock(p) ==
  /\ Stuck(job, p)
  /\ End(p)
  /\ UNCHANGED <<now, events, snaps, tracked, daily, profile, userRecs, connector, crashes>>

-------------------------------------------------------------------------------
\* refresh_validation_report: every snapshot is to have its outcome rows.

StartReport(p) ==
  /\ At(p, "idle")
  /\ Set(p, [Idle EXCEPT !.pc = "report"])
  /\ UNCHANGED <<now, events, snaps, tracked, daily, profile, userRecs, connector, crashes>>

\* ensure_validation_outcomes_for_all_snapshots loads the snapshots first.
LoadNoSnapshots(p) ==                 \* mutant: only the snapshots made by this job
  /\ At(p, "report")
  /\ Set(p, [job[p] EXCEPT !.pc = "ensure"])
  /\ UNCHANGED <<now, events, snaps, tracked, daily, profile, userRecs, connector, crashes>>

LoadSnapshots(p) ==
  /\ At(p, "report")
  /\ Set(p, [job[p] EXCEPT !.pc = "ensure", !.got = Latest])
  /\ UNCHANGED <<now, events, snaps, tracked, daily, profile, userRecs, connector, crashes>>

Missing(p, s) == (1 .. job[p].got[s]) \ tracked[s]

EnsureOutcomes(p) ==
  /\ At(p, "ensure")
  /\ \E s \in Securities : \E i \in Missing(p, s) :
       Set(p, [job[p] EXCEPT !.pc = "ensureInsert", !.sec = s, !.snap = i])
  /\ UNCHANGED <<now, events, snaps, tracked, daily, profile, userRecs, connector, crashes>>

EnsureInsert(p) ==
  /\ At(p, "ensureInsert")
  /\ InsertOutcomes(p, [job[p] EXCEPT !.pc = "ensure", !.snap = 0])
  /\ UNCHANGED <<now, events, snaps, daily, profile, userRecs, connector, crashes>>

\* The report is written; a refresh then reports its connector as ok.
FinishReport(p) ==
  /\ At(p, "ensure")
  /\ \A s \in Securities : Missing(p, s) = {}
  /\ connector' = IF p \in Refreshers THEN "ok" ELSE connector
  /\ End(p)
  /\ UNCHANGED <<now, events, snaps, tracked, daily, profile, userRecs, crashes>>

\* The report of a date is one row: of two jobs that both found none, the
\* second to insert it raises IntegrityError.  (Over-approximated: the reports
\* table is not a variable.)
ReportConflict(p) ==
  /\ At(p, "ensure")
  /\ \A s \in Securities : Missing(p, s) = {}
  /\ \E q \in Rebuilders \cup Starters \cup Reporters : q # p
  /\ End(p)
  /\ UNCHANGED <<now, events, snaps, tracked, daily, profile, userRecs, connector, crashes>>

-------------------------------------------------------------------------------
\* The readers of the cache.

\* get_recommendation_feed: any row at all makes the cache the answer.
ReadFeed(p) ==
  /\ At(p, "idle") \/ At(p, "feed")
  /\ LET d == Date(now)
         rows == {s \in Securities : daily[d][s] # 0} IN
     Set(p, IF rows # {} THEN [Idle EXCEPT !.pc = "served"]
            ELSE [Idle EXCEPT !.pc = "store", !.date = d, !.todo = Securities, !.got = Latest])
  /\ UNCHANGED <<now, events, snaps, tracked, daily, profile, userRecs, connector, crashes>>

\* get_recommendation_detail for one symbol, as the address gives it.  The cache is
\* asked for it as it stands, the security for its upper case: a view in lower case
\* ("depth" counts its calls) finds no row, not even the one it has stored.
ReadDetail(p) ==
  /\ At(p, "idle") \/ At(p, "detail")
  /\ \E s \in Securities, depth \in 0 .. MaxDepth :
       /\ At(p, "idle") => depth \in {0, 1}
       /\ At(p, "detail") => /\ s = job[p].sec
                            /\ depth = IF job[p].depth = 0 THEN 0 ELSE job[p].depth + 1
       /\ LET d == Date(now) IN
          Set(p, IF depth = 0 /\ daily[d][s] # 0 THEN [Idle EXCEPT !.pc = "served"]
                 ELSE [Idle EXCEPT !.pc = "store", !.date = d, !.sec = s, !.todo = {s},
                                   !.got = Latest, !.depth = depth])
  /\ UNCHANGED <<now, events, snaps, tracked, daily, profile, userRecs, connector, crashes>>

KeepsCalling(p) == FALSE              \* mutant: nothing bounds a view that starts over
\* The view has called itself too often: RecursionError.
RecursionFails(p) ==
  /\ At(p, "detail")
  /\ job[p].depth = MaxDepth /\ MaxDepth # 0
  /\ End(p)
  /\ UNCHANGED <<now, events, snaps, tracked, daily, profile, userRecs, connector, crashes>>

\* Once every row is stored the view starts over, from the cache; the detail
\* of a paying user is answered at once.
AfterStore(p) == IF p \in FeedReaders THEN {"feed"} ELSE {"detail", "served"}

UpsertRow(d, s) == FALSE              \* mutant: the row is written whatever is there
RowTaken(d, s) == daily[d][s] # 0

\* _store_daily_prediction: a row that exists is left alone ...
StoreCheck(p) ==
  /\ At(p, "store")
  /\ \E s \in job[p].todo :
       IF RowTaken(job[p].date, s)
       THEN \E next \in AfterStore(p) :
              Set(p, [job[p] EXCEPT !.todo = @ \ {s},
                        !.pc = IF job[p].todo = {s} THEN next ELSE "store"])
       ELSE Set(p, [job[p] EXCEPT !.pc = "storeInsert", !.sec = s])
  /\ UNCHANGED <<now, events, snaps, tracked, daily, profile, userRecs, connector, crashes>>

\* ... and a missing one is inserted, unless another job did so in between; while
\* another has it in hand, the INSERT waits.
StoreInsert(p) ==
  /\ At(p, "storeInsert")
  /\ LET s == job[p].sec
         d == job[p].date IN
       /\ DailyKey(d, s) \notin HeldBeside(job, p)
       /\ IF RowTaken(d, s)
          THEN End(p) /\ UNCHANGED daily
          ELSE /\ daily' = [daily EXCEPT ![d][s] = job[p].got[s]]
               /\ \E next \in AfterStore(p) :
                    Set(p, [job[p] EXCEPT !.todo = @ \ {s},
                              !.pc = IF job[p].todo = {s} THEN next ELSE "store"])
  /\ UNCHANGED <<now, events, snaps, tracked, profile, userRecs, connector, crashes>>

Respond(p) ==
  /\ At(p, "served")
  /\ End(p)
  /\ UNCHANGED <<now, events, snaps, tracked, daily, profile, userRecs, connector, crashes>>

-------------------------------------------------------------------------------
Start(p) == \/ p \in Refreshers /\ StartRefresh(p)
            \/ p \in Submitters /\ SubmitEvent(p)
            \/ p \in Starters /\ StartUp(p)
            \/ p \in Reporters /\ StartReport(p)
            \/ p \in Savers /\ (SaveProfile(p) \/ Acknowledge(p))
            \/ p \in FeedReaders /\ At(p, "idle") /\ ReadFeed(p)
            \/ p \in DetailReaders /\ At(p, "idle") /\ ReadDetail(p)

\* A job that has begun runs on.
Step(p) == \/ Ingest(p) \/ LockedSnapshot(p) \/ ReadLatestEvent(p) \/ Generate(p)
           \/ Track(p) \/ TrackInsert(p)
           \/ DeleteDaily(p) \/ LockDaily(p)
           \/ DailyConflict(p) \/ InsertDaily(p) \/ PublishDaily(p)
           \/ LoadUsers(p) \/ ReadSnapshots(p) \/ DeleteRecs(p) \/ LockRecs(p)
           \/ RecsConflict(p) \/ InsertRecs(p) \/ CommitRecs(p) \/ Deadlock(p)
           \/ LoadSnapshots(p) \/ EnsureOutcomes(p) \/ EnsureInsert(p) \/ FinishReport(p)
           \/ ReportConflict(p)
           \/ At(p, "feed") /\ ReadFeed(p)
           \/ At(p, "detail") /\ ReadDetail(p)
           \/ RecursionFails(p)
           \/ StoreCheck(p) \/ StoreInsert(p) \/ Respond(p)

Next == Tick \/ \E p \in Jobs : Start(p) \/ Step(p) \/ Crash(p)

Spec == Init /\ [][Next]_vars

\* A job that has begun is run to its end by its thread: the scheduler starves none
\* of them, and the database wakes a statement that waits each time the transaction
\* in its way ends, so one that is let through again and again gets through (SF).
\* Nothing makes a job begin, and nothing makes it be killed.
FairSpec == Spec /\ \A p \in Jobs : SF_vars(Step(p))

\* Celery beat starts the refresh again and again.
ScheduledSpec == FairSpec /\ \A p \in Refreshers : WF_vars(Start(p))

-------------------------------------------------------------------------------
Keys == (Dates \X Securities) \cup (Users \X Securities \X Nat)

JobRecord ==
  [pc : {"idle", "ingest", "check", "generate", "track", "trackInsert",
         "delete", "lockDaily", "publish", "load", "readRecs", "deleteRecs", "lockRecs",
         "writeRecs", "report", "ensure", "ensureInsert", "feed", "detail", "store", "storeInsert", "served"},
   todo : SUBSET Securities, sec : Securities \cup {None}, twice : BOOLEAN, ev : Nat,
   snap : Nat, got : [Securities -> Nat], date : Dates, started : Slots,
   held : SUBSET Keys, want : SUBSET Keys, users : SUBSET Users, user : Users \cup {None},
   prof : [Users -> Nat], depth : 0 .. MaxDepth]

TypeOK ==
  /\ now \in Slots
  /\ events \in [Securities -> Nat]
  /\ snaps \in [Securities -> Seq(Snapshot)]
  /\ tracked \in [Securities -> SUBSET Nat]
  /\ daily \in [Dates -> [Securities -> Nat]]
  /\ profile \in [Users -> Nat]
  /\ userRecs \in [Users -> SUBSET Recommendation]
  /\ connector \in {"seeded", "running", "ok"}
  /\ job \in [Jobs -> JobRecord]
  /\ crashes \in Nat

\* A refresh never publishes a security without a snapshot, nor one that was
\* locked before the window the refresh began in: whatever the ingestion, other
\* refreshes and the clock do while it walks the universe
\* (refresh_market_state, rebuild_security_recommendation).
PublishedFresh ==
  \A p \in Refreshers : job[p].pc \in {"delete", "lockDaily", "publish"} =>
    \A s \in Securities :
      /\ job[p].got[s] \in 1 .. Len(snaps[s])
      /\ snaps[s][job[p].got[s]].at >= Cutoff(job[p].started)

\* The cache keeps the promise of a DailyBoard: rows are first filled one by one
\* by readers, and after that only a whole date is replaced, with no hole, although
\* the refresh deletes and inserts, dies, waits and collides with readers
\* (_refresh_daily_prediction_cache, _store_daily_prediction).
Board == INSTANCE DailyBoard WITH board <- daily
BoardSpec == Board!Spec

\* While a single refresh rebuilds snapshots, the cached row of a date never
\* goes back to an older snapshot, whatever readers stored meanwhile.
CacheNeverGoesBack ==
  [][\A d \in Dates, s \in Securities : daily[d][s] <= daily'[d][s]]_daily

\* A security gets a second snapshot within a window only from a rebuild that
\* overlapped another: whoever had seen a snapshot when the lock of
\* rebuild_security_recommendation was checked adds none to its window, however
\* many refreshes, startups and events rebuild the security side by side.
OneSnapshotPerWindow ==
  \A s \in Securities : \A i, k \in 1 .. Len(snaps[s]) :
    i <= snaps[s][k].saw => snaps[s][i].at < Cutoff(snaps[s][k].at)

\* A job that began comes to an end: no wait for a row is for ever, be it in a circle
\* or for a job that died, and no view starts over for ever, be it of a symbol that the
\* cache is never found to have (get_recommendation_detail in lower case).
JobsEnd == \A p \in Jobs : ~At(p, "idle") ~> At(p, "idle")

\* A snapshot whose job died before its outcome rows were written gets them
\* in the end, from a later report.
OutcomesRepaired ==
  \A s \in Securities : Len(snaps[s]) > 1 ~> (Len(snaps[s]) \in tracked[s])

-------------------------------------------------------------------------------
\* What the documentation says and the code does not do.

Quiescent == \A p \in Jobs : At(p, "idle")

\* "paid personalized feed": a row of today's cache is shown with the user's
\* own recommendation for it.
PaidFeedPersonalised ==
  Quiescent => \A u \in Users, s \in Securities :
    profile[u] # 0 /\ daily[Date(now)][s] # 0 =>
      \E r \in userRecs[u] : r.sec = s /\ r.snap = daily[Date(now)][s]

===============================================================================

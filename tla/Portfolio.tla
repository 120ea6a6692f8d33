------------------------------- MODULE Portfolio -------------------------------
(***************************************************************************)
(* One user's risk profile, the recommendations derived from it and the    *)
(* model portfolio derived from those.  Profile saves, acknowledged        *)
(* disclosures, the rebuild button and the scheduled refresh each run in   *)
(* their own READ COMMITTED session, so a step is the code between two     *)
(* statements and the steps of different jobs interleave.  A statement     *)
(* that comes to a row another open transaction has deleted, closed or     *)
(* inserted waits for it (RowLocks).                                       *)
(*                                                                         *)
(* Convictions are 1..5; confidence, penalties and fit are in hundredths,  *)
(* an allocation band in tenths of a percent, a position in hundredths of  *)
(* a percent.                                                              *)
(***************************************************************************)
EXTENDS Scoring, FiniteSets, FiniteSetsExt, RowLocks

CONSTANTS
  Securities,
  Savers,         \* requests that save a profile: create_profile_api
  Acknowledgers,  \* requests that acknowledge the disclosures
  Clickers,       \* requests that rebuild the portfolio: rebuild_portfolio_api
  Refreshers,     \* jobs that run rebuild_all_user_recommendations
  Profiles,       \* the payloads a profile is saved with
  Signals,        \* what each security may be scored from: its latest event and its quote
  MaxOpen,        \* positions of a portfolio, 10 in the code
  FullPct,        \* what a portfolio may allocate, in percent, 100 in the code
  MaxSaves, MaxPublished, MaxCrashes,   \* bounds
  None

Jobs == Savers \cup Acknowledgers \cup Clickers \cup Refreshers
Columns == {"goal", "risk", "drawdown", "holding", "sector", "experience"}

ASSUME BoundsAssumption ==
  /\ MaxSaves \in Nat /\ MaxPublished \in Nat /\ MaxCrashes \in Nat
  /\ MaxOpen \in Nat \ {0} /\ FullPct \in Nat \ {0}
ASSUME SecuritiesAssumption == IsFiniteSet(Securities)
ASSUME SignalsAssumption == Signals \in [Securities -> SUBSET Inputs]
ASSUME ProfilesAssumption == \A d \in Profiles : d = [c \in Columns |-> d[c]]
ASSUME KindsAssumption ==
  /\ None \notin Jobs
  /\ Savers \cap (Acknowledgers \cup Clickers \cup Refreshers) = {}
  /\ Acknowledgers \cap (Clickers \cup Refreshers) = {}
  /\ Clickers \cap Refreshers = {}

VARIABLES
  base,       \* base[s]: the latest snapshot of s, its number, how often the quote of s
              \* changed, and what the scoring says of it at that quote
  profile,    \* the row of user_profiles
  recs,       \* the user's rows of user_recommendations
  open,       \* the user's open portfolio_positions; "by" is the job that opened the row
  job,        \* what each job has read and where it is
  alone,      \* the job that has run with no other beside it, if there is one
  saves, crashes
vars == <<base, profile, recs, open, job, alone, saves, crashes>>

Base == [action : Actions, conviction : 1..5, confidence : 50..96]
Bases(s) == {BaseRecommendation(i) : i \in Signals[s]}

-------------------------------------------------------------------------------
\* personalize_recommendation: what base b means to an investor of profile q.

RiskPenalty(q) ==
  (IF q.risk = "conservative" THEN 12 ELSE 0)
  + (IF q.drawdown \in {"under_10", "under_15"} THEN 8 ELSE 0)
  + (IF q.experience = "beginner" THEN 5 ELSE 0)
  + (IF q.sector = "low" THEN 5 ELSE 0)

\* The four overrides exclude each other but for the two that turn a buy into a hold.
AdvisedAction(b, q) ==
  LET sure == b.confidence - RiskPenalty(q)
      toHold == \/ b.action = "buy"  /\ q.risk = "conservative" /\ sure < 70
                \/ b.action = "sell" /\ q.risk = "conservative" /\ sure > 75
                \/ b.action = "buy"  /\ q.goal = "capital_preservation" /\ b.conviction <= 2
      toBuy  == b.action = "hold" /\ q.goal = "aggressive_growth" /\ b.conviction >= 4
  IN IF toHold THEN "hold" ELSE IF toBuy THEN "buy" ELSE b.action

BandLow(b, q) ==
  LET low == CASE q.risk = "aggressive" -> 60 [] q.risk = "balanced" -> 40 [] OTHER -> 20
  IN CASE AdvisedAction(b, q) = "sell" -> 0
       [] AdvisedAction(b, q) = "hold" -> Larger(0, low - 20)
       [] OTHER -> low

\* A strong conviction widens the band by two points, that of a sell included.
BandHigh(b, q) ==
  LET high == CASE q.risk = "aggressive" -> 120 [] q.risk = "balanced" -> 80 [] OTHER -> 50
  IN (CASE AdvisedAction(b, q) = "sell" -> 0
        [] AdvisedAction(b, q) = "hold" -> Larger(BandLow(b, q) + 10, high - 30)
        [] OTHER -> high)
     + (IF b.conviction >= 4 THEN 20 ELSE 0)

FitUnclamped(b, q) == 68 - RiskPenalty(q)   \* mutant: no floor under the fit
Fit(b, q) ==
  LET raw == 68 + (CASE q.holding = "short_term" -> 4 [] q.holding = "long_term" -> -2 [] OTHER -> 0)
                + (IF AdvisedAction(b, q) = b.action THEN 4 ELSE -8) - RiskPenalty(q)
  IN Larger(45, Smaller(95, raw))

Recommendation(s, v, q) ==
  [sec |-> s, snap |-> v.snap, action |-> AdvisedAction(v.base, q), conviction |-> v.base.conviction,
   fit |-> Fit(v.base, q), low |-> BandLow(v.base, q), high |-> BandHigh(v.base, q)]

Advice(latest, q) == {Recommendation(s, latest[s], q) : s \in Securities}

-------------------------------------------------------------------------------
\* rebuild_model_portfolio_for_user: which rows it opens for the recommendations R.

Before(a, b) == a.conviction > b.conviction \/ (a.conviction = b.conviction /\ a.fit > b.fit)

\* The first MaxOpen buys by conviction and fit; the database breaks ties as it likes.
Picks(R) ==
  LET buys == {r \in R : r.action = "buy"}
  IN {S \in SUBSET buys : /\ Cardinality(S) = Smaller(MaxOpen, Cardinality(buys))
                          /\ \A r \in buys \ S, k \in S : ~Before(r, k)}

Target(S) == MapThenSumSet(LAMBDA r : Larger(r.low, r.high), S)

SizeUnscaled(r, total) == r.high * 10      \* mutant: the bands are taken as they are
\* allocation_max_pct, scaled down when the targets exceed the whole, to two decimals.
Size(r, total) ==
  IF total > FullPct * 10
  THEN (2 * r.high * FullPct * 100 + total) \div (2 * total)
  ELSE r.high * 10

Positions(S, p) == {[sec |-> r.sec, snap |-> r.snap, pct |-> Size(r, Target(S)), by |-> p] : r \in S}

-------------------------------------------------------------------------------
\* Control of a job: its pc, the profile it was given and the one it holds, the
\* snapshots and recommendations it has read, the rows its transaction has and those
\* its statement has still to reach.
NoRow == [c \in Columns |-> ""]
Idle == [pc |-> "idle", payload |-> NoRow, prof |-> NoRow, latest |-> <<>>,
         read |-> {}, held |-> {}, want |-> {}]

\* The unique key of a recommendation of this user; a position is its own row.
RecKey(r) == <<r.sec, r.snap>>
PositionKey(o) == <<o.sec, o.snap, o.pct, o.by>>

Init ==
  /\ base \in [Securities -> [snap : {1}, quote : {0}, base : UNION {Bases(s) : s \in Securities}]]
  /\ \A s \in Securities : base[s].base \in Bases(s)
  /\ profile \in Profiles
  /\ recs = Advice(base, profile)
  /\ \E S \in Picks(recs) : open = Positions(S, None)
  /\ job = [p \in Jobs |-> Idle]
  /\ alone = None
  /\ saves = 0 /\ crashes = 0

At(p, label) == job[p].pc = label
Set(p, j) == job' = [job EXCEPT ![p] = j]

\* p starts; it runs alone as long as nobody starts, or publishes, beside it.
Enter(p, j) ==
  /\ At(p, "idle")
  /\ Set(p, j)
  /\ alone' = IF \A q \in Jobs : At(q, "idle") THEN p ELSE None

\* A rebuild of the security publishes a new snapshot (MarketPipeline), or a
\* resolution stores a new quote (Validation): the recommendations are scored again
\* from the snapshot's event and the security's quote.
Publish(s) ==
  /\ MapThenSumSet(LAMBDA t : base[t].snap + base[t].quote - 1, Securities) < MaxPublished
  /\ \E b \in Bases(s) :
       \/ base' = [base EXCEPT ![s] = [snap |-> @.snap + 1, quote |-> @.quote, base |-> b]]
       \/ base' = [base EXCEPT ![s] = [snap |-> @.snap, quote |-> @.quote + 1, base |-> b]]
  /\ alone' = None
  /\ UNCHANGED <<profile, recs, open, job, saves, crashes>>

-------------------------------------------------------------------------------
\* create_or_update_profile: the row is read, the columns that differ are written,
\* and the row is read again.

StartSave(p) ==
  /\ saves < MaxSaves
  /\ \E d \in Profiles : Enter(p, [Idle EXCEPT !.pc = "save", !.payload = d, !.prof = profile])
  /\ saves' = saves + 1
  /\ UNCHANGED <<base, profile, recs, open, crashes>>

Save(p) ==
  /\ At(p, "save")
  /\ LET d == job[p].payload
     IN profile' = [c \in Columns |-> IF d[c] # job[p].prof[c] THEN d[c] ELSE profile[c]]
  /\ Set(p, [job[p] EXCEPT !.pc = "reload"])
  /\ UNCHANGED <<base, recs, open, alone, saves, crashes>>

Reload(p) ==
  /\ At(p, "reload")
  /\ Set(p, [job[p] EXCEPT !.pc = "latest", !.prof = profile])
  /\ UNCHANGED <<base, profile, recs, open, alone, saves, crashes>>

\* acknowledge_disclosures_api and rebuild_all_user_recommendations load the profile
\* and go on to the snapshots.
StartWithProfile(p) ==
  /\ Enter(p, [Idle EXCEPT !.pc = "latest", !.prof = profile])
  /\ UNCHANGED <<base, profile, recs, open, saves, crashes>>

StartClick(p) ==
  /\ Enter(p, [Idle EXCEPT !.pc = "pick"])
  /\ UNCHANGED <<base, profile, recs, open, saves, crashes>>

-------------------------------------------------------------------------------
\* rebuild_user_recommendations_for_user.

ReadLatest(p) ==
  /\ At(p, "latest")
  /\ Set(p, [job[p] EXCEPT !.pc = "delete", !.latest = base])
  /\ UNCHANGED <<base, profile, recs, open, alone, saves, crashes>>

\* DELETE of the user's rows: those committed by now ...
DeleteRecs(p) ==
  /\ At(p, "delete")
  /\ Set(p, [job[p] EXCEPT !.pc = "lockRecs", !.want = {RecKey(r) : r \in recs}])
  /\ UNCHANGED <<base, profile, recs, open, alone, saves, crashes>>

NewRecs(p) == Advice(job[p].latest, job[p].prof)

\* ... one after another ...
LockRecs(p) ==
  /\ At(p, "lockRecs")
  /\ \E keys \in Reached(job, p) :
       Set(p, [job[p] EXCEPT !.held = @ \cup keys,
                 !.pc = IF keys = job[p].want THEN "insert" ELSE @,
                 !.want = IF keys = job[p].want THEN {RecKey(r) : r \in NewRecs(p)} ELSE @ \ keys])
  /\ UNCHANGED <<base, profile, recs, open, alone, saves, crashes>>

KeptBeside(p) == recs    \* mutant: the rows of the old profile are not deleted
Kept(p) == {r \in recs : RecKey(r) \notin job[p].held}

\* ... and the new rows are inserted.  One that came after the DELETE and has the
\* same snapshot is in the way: IntegrityError ends the job.
InTheWay(p, keys) == \E r \in Kept(p) : RecKey(r) \in keys

RecsConflict(p) ==
  /\ At(p, "insert")
  /\ InTheWay(p, Free(job, p))
  /\ Set(p, Idle)
  /\ UNCHANGED <<base, profile, recs, open, alone, saves, crashes>>

InsertRecs(p) ==
  /\ At(p, "insert")
  /\ \E keys \in Reached(job, p) \ {job[p].want} :
       /\ ~InTheWay(p, keys)
       /\ Set(p, [job[p] EXCEPT !.held = @ \cup keys, !.want = @ \ keys])
  /\ UNCHANGED <<base, profile, recs, open, alone, saves, crashes>>

After(p) == IF p \in Refreshers THEN Idle ELSE [Idle EXCEPT !.pc = "pick", !.payload = job[p].payload]

CommitRecs(p) ==
  /\ At(p, "insert")
  /\ Free(job, p) = job[p].want
  /\ ~InTheWay(p, job[p].want)
  /\ recs' = Kept(p) \cup NewRecs(p)
  /\ job' = Committed(job, p, After(p), {"lockRecs"})
  /\ UNCHANGED <<base, profile, open, alone, saves, crashes>>

-------------------------------------------------------------------------------
\* rebuild_model_portfolio_for_user.

ReadRecs(p) ==
  /\ At(p, "pick")
  /\ Set(p, [job[p] EXCEPT !.pc = "close", !.read = recs])
  /\ UNCHANGED <<base, profile, recs, open, alone, saves, crashes>>

\* UPDATE ... WHERE status = 'open': the rows open when it starts ...
ClosePositions(p) ==
  /\ At(p, "close")
  /\ Set(p, [job[p] EXCEPT !.pc = "lockOpen", !.want = {PositionKey(o) : o \in open}])
  /\ UNCHANGED <<base, profile, recs, open, alone, saves, crashes>>

\* ... one after another; a row that another job has closed meanwhile is passed over.
LockOpen(p) ==
  /\ At(p, "lockOpen")
  /\ \E keys \in Reached(job, p) :
       Set(p, [job[p] EXCEPT !.held = @ \cup keys, !.want = @ \ keys,
                 !.pc = IF keys = job[p].want THEN "open" ELSE @])
  /\ UNCHANGED <<base, profile, recs, open, alone, saves, crashes>>

StillOpenOwn(p) == {o \in open : o.by # p}   \* mutant: only the caller's own rows are closed
StillOpen(p) == {o \in open : PositionKey(o) \notin job[p].held}

OpenPositions(p) ==
  /\ At(p, "open")
  /\ \E S \in Picks(job[p].read) : open' = StillOpen(p) \cup Positions(S, p)
  /\ job' = Committed(job, p, Idle, {"lockOpen"})
  /\ UNCHANGED <<base, profile, recs, alone, saves, crashes>>

\* The database aborts a transaction of a circle, and the job fails.
Deadlock(p) ==
  /\ Stuck(job, p)
  /\ Set(p, Idle)
  /\ UNCHANGED <<base, profile, recs, open, alone, saves, crashes>>

\* The process is killed; its open transaction is rolled back.
Crash(p) ==
  /\ ~At(p, "idle") /\ crashes < MaxCrashes
  /\ crashes' = crashes + 1
  /\ Set(p, Idle)
  /\ UNCHANGED <<base, profile, recs, open, alone, saves>>

Rebuild(p) == \/ ReadLatest(p) \/ DeleteRecs(p) \/ LockRecs(p)
              \/ RecsConflict(p) \/ InsertRecs(p) \/ CommitRecs(p)
Resize(p) == ReadRecs(p) \/ ClosePositions(p) \/ LockOpen(p) \/ OpenPositions(p)

Step(p) ==
  \/ p \in Savers /\ (Save(p) \/ Reload(p))
  \/ Rebuild(p)
  \/ Resize(p)
  \/ Deadlock(p)

Start(p) ==
  \/ p \in Savers /\ StartSave(p)
  \/ p \in Acknowledgers \cup Refreshers /\ StartWithProfile(p)
  \/ p \in Clickers /\ StartClick(p)

Next ==
  \/ \E s \in Securities : Publish(s)
  \/ \E p \in Jobs : Start(p) \/ Step(p) \/ Crash(p)

Spec == Init /\ [][Next]_vars

\* A request or task that has begun goes on, also through a statement that waits, as
\* the database wakes it each time the transaction in its way ends (SF); celery beat
\* keeps starting refreshes.
ScheduledSpec ==
  /\ Spec
  /\ \A p \in Jobs : SF_vars(Step(p))
  /\ \A p \in Refreshers : WF_vars(StartWithProfile(p))

-------------------------------------------------------------------------------
Profile == [Columns -> UNION {{d[c] : c \in Columns} : d \in Profiles}]
Labels == {"idle", "save", "reload", "latest", "delete", "lockRecs", "insert", "pick",
           "close", "lockOpen", "open"}
RecRow == [sec : Securities, snap : Nat, action : Actions, conviction : 1 .. 5, fit : 45 .. 95,
           low : 0 .. 60, high : 0 .. 140]
PositionRow == [sec : Securities, snap : Nat, pct : Nat, by : Jobs \cup {None}]
Keys == (Securities \X Nat) \cup (Securities \X Nat \X Nat \X (Jobs \cup {None}))
Latests == [Securities -> [snap : Nat, quote : Nat, base : Base]]

\* The rows and what each job holds of them are of the kinds the code stores: a
\* recommendation keeps a fit of 45% to 95% and a band of at most 14%.
TypeOK ==
  /\ base \in Latests
  /\ profile \in Profile
  /\ recs \subseteq RecRow
  /\ open \subseteq PositionRow
  /\ \A p \in Jobs :
       /\ job[p].pc \in Labels
       /\ {job[p].payload, job[p].prof} \subseteq Profile \cup {NoRow}
       /\ job[p].latest \in Latests \cup {<<>>}
       /\ job[p].read \subseteq RecRow
       /\ job[p].held \cup job[p].want \subseteq Keys
  /\ alone \in Jobs \cup {None}
  /\ saves \in 0 .. MaxSaves /\ crashes \in 0 .. MaxCrashes

\* The rows one rebuild opened never allocate more than the whole, but for half a
\* hundredth of a percent that rounding may add per row, also when the
\* recommendations were read while two rebuilds of them had both left rows
\* (rebuild_model_portfolio_for_user's scaling).
AllocationCap ==
  \A p \in Jobs \cup {None} :
    LET mine == {o \in open : o.by = p}
    IN 2 * MapThenSumSet(LAMBDA o : o.pct, mine) <= 2 * FullPct * 100 + Cardinality(mine)

\* A request that runs with no other beside it leaves the user with exactly what
\* they asked for: the profile submitted, the recommendations of that profile, and
\* the positions of these and no older ones, whatever overlapping or killed
\* requests left behind before it.
AloneIsExact ==
  [][\A p \in Jobs : alone = p /\ OpenPositions(p) =>
       /\ open' \in {Positions(S, p) : S \in Picks(recs)}
       /\ p \notin Clickers => recs = Advice(base, profile)
       /\ p \in Savers => profile = job[p].payload]_vars

\* Nobody is told to buy what the scoring did not call a buy when the recommendation
\* was made: the override for aggressive growth (personalize_recommendation) asks for
\* a conviction that _conviction_from_score gives no hold.
NoInventedBuy ==
  [][\A p \in Jobs : CommitRecs(p) =>
       \A r \in recs' \ recs : r.action = "buy" => job[p].latest[r.sec].base.action = "buy"]_vars

\* When saves, new snapshots and new quotes cease, the scheduled refresh brings the
\* recommendations to those of the profile as it is now, whatever order the saves'
\* own rebuilds committed in and wherever they were killed.
RecsSettle == <>[](recs = Advice(base, profile))
===============================================================================

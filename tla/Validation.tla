------------------------------- MODULE Validation -------------------------------
(***************************************************************************)
(* Keeping score: the outcome rows of snapshots, how they are resolved     *)
(* once their horizon has passed, the weights tuned on them, the daily     *)
(* report over them, and the archive of live validation runs on disk.      *)
(*                                                                         *)
(* A reporter runs refresh_validation_report (the market refresh, startup  *)
(* and the admin's pages), an archiver runs archive_validation_run (its    *)
(* request and the command line), which does the same and then writes      *)
(* files.  Each has a session of its own; an action is the code between    *)
(* two commits, two writes of a file, or a read and what depends on it.    *)
(***************************************************************************)
EXTENDS Integers, Sequences, FiniteSets

CONSTANTS
  Reporters,      \* jobs running refresh_validation_report
  Archivers,      \* jobs running archive_validation_run
  Horizons,       \* VALIDATION_HORIZONS
  Calls,          \* the calls a snapshot may make: an action and its event's bias
  Quotes,         \* the prices of the security and of the benchmark that may be quoted
  RefPrices,      \* the reference prices of a snapshot
  FirstDay,       \* the day it begins; day 0 is a Monday
  MaxDay,         \* bound on the clock
  MaxSnaps,       \* bound on the snapshots
  MaxRuns,        \* bound on the archived runs
  MaxCrashes      \* bound on the jobs killed half-way

Jobs == Reporters \cup Archivers
Actions == {"buy", "hold", "sell"}

ASSUME HorizonsAssumption == Horizons \subseteq Nat \ {0}
ASSUME BoundsAssumption ==
  {FirstDay, MaxDay, MaxSnaps, MaxRuns, MaxCrashes} \subseteq Nat /\ FirstDay <= MaxDay
ASSUME CallsAssumption == Calls \subseteq [action : Actions, bias : Int]
ASSUME PricesAssumption == Quotes \subseteq [security : Nat, benchmark : Nat] /\ RefPrices \subseteq Nat

VARIABLES
  now,        \* the day
  snaps,      \* the snapshots, in commit order
  rows,       \* rows[n][h]: the outcome row of snapshot n for horizon h
  reports,    \* reports[d]: the report row of day d
  runs,       \* the archived runs' own files, oldest first
  latest,     \* the file latest.json
  weights,    \* the file autoresearch-latest.json, which a rebuild reads
  job,        \* what each job has read and where it is
  crashes
vars == <<now, snaps, rows, reports, runs, latest, weights, job, crashes>>

-------------------------------------------------------------------------------
\* _add_trading_days: the day cursor moves on until enough weekdays have passed.
Weekday(d) == d % 7 < 5
EveryDay(d, n) == d + n                   \* mutant: calendar days
NextWeekday(c) ==
  CHOOSE e \in c + 1 .. c + 3 : Weekday(e) /\ \A b \in c + 1 .. e - 1 : ~Weekday(b)
AddTradingDays(d, n) ==
  LET cursor[k \in 0 .. n] == IF k = 0 THEN d ELSE NextWeekday(cursor[k-1])
  IN  cursor[n]

\* Returns are in 1/10000 per cent, to which the code rounds them.
ReturnPct(exit, entry) ==
  IF exit = 0 \/ entry = 0 THEN 0
  ELSE ((exit - entry) * 2000000 + entry) \div (2 * entry)
StrategyReturn(action, r) ==
  CASE action = "buy" -> r [] action = "sell" -> -r [] OTHER -> 0
BaselineOrNone(bias) ==                   \* mutant: no advice on a weak bias
  IF bias >= 5 THEN "buy" ELSE IF bias <= -5 THEN "sell" ELSE "none"
BaselineAction(bias) ==                   \* bias in hundredths
  IF bias >= 5 THEN "buy" ELSE IF bias <= -5 THEN "sell" ELSE "hold"
DirectionalCorrect(action, r) ==
  CASE action = "buy"  -> r > 0
    [] action = "sell" -> r < 0
    [] OTHER           -> r \in -15000 .. 15000

-------------------------------------------------------------------------------
Untracked == [status |-> "none", target |-> 0, at |-> 0, price |-> 0, benchmark |-> 0,
              strategy |-> 0, benchReturn |-> 0, excess |-> 0,
              baseline |-> "hold", baseReturn |-> 0, correct |-> FALSE]
NoMetrics == [resolved |-> {}, open |-> {}]
NoReport == [written |-> FALSE, metrics |-> NoMetrics]
Idle == [pc |-> "idle", started |-> 0, todo |-> {}, due |-> {}, at |-> 0,
         quote |-> [security |-> 0, benchmark |-> 0],
         metrics |-> NoMetrics, date |-> 0, old |-> NoReport, run |-> 0]

Days == FirstDay .. MaxDay

Init ==
  /\ now = FirstDay
  /\ snaps = <<>>
  /\ rows = [n \in 1 .. MaxSnaps |-> [h \in Horizons |-> Untracked]]
  /\ reports = [d \in Days |-> NoReport]
  /\ runs = <<>>
  /\ latest = [state |-> "absent", run |-> 0]
  /\ weights = "absent"
  /\ job = [p \in Jobs |-> Idle]
  /\ crashes = 0

Tick ==
  /\ now < MaxDay
  /\ now' = now + 1
  /\ UNCHANGED <<snaps, rows, reports, runs, latest, weights, job, crashes>>

At(p, label) == job[p].pc = label
Set(p, j) == job' = [job EXCEPT ![p] = j]
\* The job returns, or an exception ends it.
End(p) == Set(p, Idle)

Crash(p) ==
  /\ ~At(p, "idle")
  /\ crashes < MaxCrashes
  /\ crashes' = crashes + 1
  /\ End(p)
  /\ UNCHANGED <<now, snaps, rows, reports, runs, latest, weights>>

-------------------------------------------------------------------------------
\* ensure_recommendation_outcomes: one row per horizon, committed together.
Opened(sn) ==
  [h \in Horizons |->
     [Untracked EXCEPT !.status = "open", !.target = AddTradingDays(sn.day, h)]]

\* A file is truncated when it is opened and filled by a write.  Reading one that is
\* not whole is a JSON error, which nobody handles.
Files == {"absent", "empty", "whole", "mixed"}
Readable(file) == file \in {"absent", "whole"}
\* Writing over what another job has written since this one opened the file may leave
\* the tail of the longer text.
Filled(file) == IF file = "empty" THEN {"whole"} ELSE {"whole", "mixed"}

\* Another job rebuilds a recommendation, for which it loads the weights; it may die
\* before it tracks it.
Publish ==
  /\ Len(snaps) < MaxSnaps
  /\ Readable(weights)
  /\ \E c \in Calls, ref \in RefPrices, dies \in BOOLEAN :
       LET sn == [action |-> c.action, bias |-> c.bias, ref |-> ref, day |-> now]
       IN  /\ snaps' = Append(snaps, sn)
           /\ rows' = IF dies THEN rows ELSE [rows EXCEPT ![Len(snaps) + 1] = Opened(sn)]
  /\ UNCHANGED <<now, reports, runs, latest, weights, job, crashes>>

Start(p) ==
  /\ At(p, "idle")
  /\ p \in Archivers => Len(runs) < MaxRuns
  /\ Set(p, [Idle EXCEPT !.pc = "ensure", !.started = now, !.todo = 1 .. Len(snaps)])
  /\ UNCHANGED <<now, snaps, rows, reports, runs, latest, weights, crashes>>

MissingToday(p) ==                        \* mutant: only the day's snapshots are repaired
  {n \in job[p].todo : snaps[n].day = now /\ \A h \in Horizons : rows[n][h].status = "none"}
Missing(p) == {n \in job[p].todo : \A h \in Horizons : rows[n][h].status = "none"}

\* The race of two jobs for these rows is MarketPipeline's EnsureInsert.
EnsureOutcomes(p) ==
  /\ At(p, "ensure")
  /\ \E n \in Missing(p) :
       /\ rows' = [rows EXCEPT ![n] = Opened(snaps[n])]
       /\ Set(p, [job[p] EXCEPT !.todo = @ \ {n}])
  /\ UNCHANGED <<now, snaps, reports, runs, latest, weights, crashes>>

-------------------------------------------------------------------------------
\* resolve_due_recommendation_outcomes

All == (1 .. Len(snaps)) \X Horizons
Row(id) == rows[id[1]][id[2]]
DueLater(day) ==                          \* mutant: the day after
  {id \in All : Row(id).status = "open" /\ Row(id).target < day}
Due(day) == {id \in All : Row(id).status = "open" /\ Row(id).target <= day}

LoadDue(p) ==
  /\ At(p, "ensure")
  /\ Missing(p) = {}
  /\ Set(p, [job[p] EXCEPT !.pc = IF Due(now) = {} THEN "weights" ELSE "quotes",
                           !.todo = {}, !.due = Due(now),
                           !.at = IF Due(now) = {} THEN 0 ELSE now])
  /\ UNCHANGED <<now, snaps, rows, reports, runs, latest, weights, crashes>>

\* One quote per symbol, kept for all the rows of the job.
FetchQuotes(p) ==
  /\ At(p, "quotes")
  /\ \E q \in Quotes :
       Set(p, [job[p] EXCEPT !.pc = "resolve", !.quote = q])
  /\ UNCHANGED <<now, snaps, rows, reports, runs, latest, weights, crashes>>

Result(sn, row, q, day) ==
  LET observed == ReturnPct(q.security, sn.ref)
      bench    == ReturnPct(q.benchmark, sn.ref)
      strategy == StrategyReturn(sn.action, observed)
      baseline == BaselineAction(sn.bias)
  IN  [row EXCEPT !.status = "resolved", !.at = day,
                  !.price = q.security, !.benchmark = q.benchmark,
                  !.strategy = strategy, !.benchReturn = bench,
                  !.excess = strategy - bench,
                  !.baseline = baseline,
                  !.baseReturn = StrategyReturn(baseline, observed),
                  !.correct = DirectionalCorrect(sn.action, observed)]
\* The UPDATE of a resolver: its copy was open, so each column of the result is
\* a change and is written, whoever has resolved the row since.  The baseline
\* is written unless it is the default, which any resolver computes alike.
PriceKept(current, new) ==                \* mutant: a price that is there is kept
  IF current.status = "resolved" THEN [new EXCEPT !.price = current.price] ELSE new
Written(current, new) ==
  IF new.baseline = Untracked.baseline THEN [new EXCEPT !.baseline = current.baseline] ELSE new

Resolve(p) ==
  /\ At(p, "resolve")
  /\ rows' = [n \in 1 .. MaxSnaps |-> [h \in Horizons |->
       IF <<n, h>> \in job[p].due
       THEN Written(rows[n][h], Result(snaps[n], rows[n][h], job[p].quote, job[p].at))
       ELSE rows[n][h]]]
  /\ Set(p, [job[p] EXCEPT !.pc = "weights", !.due = {},
                           !.quote = Idle.quote, !.at = 0])
  /\ UNCHANGED <<now, snaps, reports, runs, latest, weights, crashes>>

-------------------------------------------------------------------------------
\* run_autoresearch_loop: the file of the weights is written in place.

OpenWeights(p) ==
  /\ At(p, "weights")
  /\ weights' = "empty"
  /\ Set(p, [job[p] EXCEPT !.pc = "tune"])
  /\ UNCHANGED <<now, snaps, rows, reports, runs, latest, crashes>>

FillWeights(p) ==
  /\ At(p, "tune")
  /\ weights' \in Filled(weights)
  /\ Set(p, [job[p] EXCEPT !.pc = "summary"])
  /\ UNCHANGED <<now, snaps, rows, reports, runs, latest, crashes>>

-------------------------------------------------------------------------------
\* build_validation_summary and the report's row

Counted == [resolved |-> {id \in All : Row(id).status = "resolved"},
            open     |-> {id \in All : Row(id).status = "open"}]

\* The summary ends by reading the weights and latest.json, if they are there.
Summarisable == Readable(weights) /\ Readable(latest.state)

Summarise(p) ==
  /\ At(p, "summary")
  /\ IF Summarisable
     THEN Set(p, [job[p] EXCEPT !.pc = "find", !.metrics = Counted, !.date = now])
     ELSE End(p)
  /\ UNCHANGED <<now, snaps, rows, reports, runs, latest, weights, crashes>>

FindReport(p) ==
  /\ At(p, "find")
  /\ Set(p, [job[p] EXCEPT !.pc = "report", !.old = reports[job[p].date]])
  /\ UNCHANGED <<now, snaps, rows, reports, runs, latest, weights, crashes>>

\* The commit inserts a new row, unless another job has, or writes the columns
\* that differ from the row it loaded.
WriteReport(p) ==
  LET d == job[p].date  old == job[p].old  metrics == job[p].metrics
  IN
  /\ At(p, "report")
  /\ IF ~old.written /\ reports[d].written
     THEN End(p) /\ UNCHANGED reports      \* IntegrityError
     ELSE /\ reports' = [reports EXCEPT ![d] =
               [written |-> TRUE,
                metrics |-> IF metrics = old.metrics /\ old.written THEN @.metrics ELSE metrics]]
          /\ IF p \in Archivers
             THEN Set(p, [Idle EXCEPT !.pc = "archive"])
             ELSE End(p)
  /\ UNCHANGED <<now, snaps, rows, runs, latest, weights, crashes>>

-------------------------------------------------------------------------------
\* archive_validation_run: a second summary, then the run's own file, latest.json
\* and the CSV.

OpenRun(p) ==
  /\ At(p, "archive")
  /\ IF Summarisable /\ Len(runs) < MaxRuns
     THEN /\ runs' = Append(runs, "empty")
          /\ Set(p, [job[p] EXCEPT !.pc = "run", !.run = Len(runs) + 1])
     ELSE End(p) /\ UNCHANGED runs
  /\ UNCHANGED <<now, snaps, rows, reports, latest, weights, crashes>>

OpenLatestFirst(p) ==                     \* mutant: latest.json before the run's file
  /\ At(p, "run")
  /\ latest' = [state |-> "whole", run |-> job[p].run]
  /\ Set(p, [job[p] EXCEPT !.pc = "latest"])
  /\ UNCHANGED <<now, snaps, rows, reports, runs, weights, crashes>>
FillRun(p) ==
  /\ At(p, "run")
  /\ runs' = [runs EXCEPT ![job[p].run] = "whole"]
  /\ Set(p, [job[p] EXCEPT !.pc = "latest"])
  /\ UNCHANGED <<now, snaps, rows, reports, latest, weights, crashes>>

OpenLatest(p) ==
  /\ At(p, "latest")
  /\ latest' = [state |-> "empty", run |-> 0]
  /\ Set(p, [job[p] EXCEPT !.pc = "fill"])
  /\ UNCHANGED <<now, snaps, rows, reports, runs, weights, crashes>>

FillLatest(p) ==
  /\ At(p, "fill")
  /\ \E state \in Filled(latest.state) : latest' = [state |-> state, run |-> job[p].run]
  /\ Set(p, [job[p] EXCEPT !.pc = "csv"])
  /\ UNCHANGED <<now, snaps, rows, reports, runs, weights, crashes>>

WriteCsv(p) ==
  /\ At(p, "csv")
  /\ End(p)
  /\ UNCHANGED <<now, snaps, rows, reports, runs, latest, weights, crashes>>

-------------------------------------------------------------------------------
Report(p) == \/ EnsureOutcomes(p) \/ LoadDue(p) \/ FetchQuotes(p) \/ Resolve(p)
             \/ OpenWeights(p) \/ FillWeights(p) \/ Summarise(p) \/ FindReport(p) \/ WriteReport(p)
Archive(p) == \/ OpenRun(p) \/ FillRun(p) \/ OpenLatest(p) \/ FillLatest(p) \/ WriteCsv(p)
Step(p) == Report(p) \/ Archive(p)

Next == \/ Tick \/ Publish
        \/ \E p \in Jobs : Start(p) \/ Step(p) \/ Crash(p)

Spec == Init /\ [][Next]_vars

\* Jobs that have begun are run to their end, and the schedule starts a refresh again
\* and again; that gets to its report only if it can read the weights, because it
\* rebuilds first.
ScheduledSpec ==
  /\ Spec
  /\ \A p \in Jobs : WF_vars(Step(p))
  /\ \A p \in Reporters : WF_vars(Start(p) /\ Readable(weights))

\* A job killed as it wrote the weights left a file that nobody rewrites: refreshes
\* fail until somebody asks for a report.
WeightsLost == <>[]~Readable(weights)

-------------------------------------------------------------------------------
OutcomeRow == [status : {"none", "open", "resolved"}, target : Nat, at : Nat,
               price : Nat, benchmark : Nat, strategy : Int, benchReturn : Int, excess : Int,
               baseline : Actions, baseReturn : Int, correct : BOOLEAN]
Ids == (1 .. MaxSnaps) \X Horizons
Metrics == [resolved : SUBSET Ids, open : SUBSET Ids]
ReportRow == [written : BOOLEAN, metrics : Metrics]
SnapRow == [action : Actions, bias : Int, ref : Nat, day : Days]
Labels == {"idle", "ensure", "quotes", "resolve", "weights", "tune", "summary", "find", "report",
           "archive", "run", "latest", "fill", "csv"}
JobRow == [pc : Labels, started : Nat, todo : SUBSET (1 .. MaxSnaps), due : SUBSET Ids, at : Nat,
           quote : [security : Nat, benchmark : Nat],
           metrics : Metrics, date : Nat, old : ReportRow, run : Nat]

\* The tables, the files and what each job holds are of the kinds the code stores.
TypeOK ==
  /\ now \in Days
  /\ snaps \in Seq(SnapRow) /\ Len(snaps) <= MaxSnaps
  /\ rows \in [1 .. MaxSnaps -> [Horizons -> OutcomeRow]]
  /\ reports \in [Days -> ReportRow]
  /\ runs \in Seq({"empty", "whole"}) /\ Len(runs) <= MaxRuns
  /\ latest \in [state : Files, run : 0 .. MaxRuns]
  /\ weights \in Files
  /\ job \in [Jobs -> JobRow]
  /\ crashes \in 0 .. MaxCrashes

\* The columns of a resolved outcome belong together, whichever of two
\* overlapping resolvers wrote last: the return is that of the observed price,
\* the excess that of the return, a call is judged right by the return shown,
\* and it does as well as the baseline where both advise the same
\* (resolve_due_recommendation_outcomes writes them column by column).
RowsNotTorn ==
  \A n \in 1 .. Len(snaps), h \in Horizons :
    LET r == rows[n][h]  call == snaps[n].action
    IN  r.status = "resolved" =>
          /\ call # "hold" => /\ r.strategy = StrategyReturn(call, ReturnPct(r.price, snaps[n].ref))
                              /\ r.correct <=> r.strategy > 0
          /\ r.excess = r.strategy - r.benchReturn
          /\ r.benchReturn = ReturnPct(r.benchmark, snaps[n].ref)
          /\ r.baseline = call => r.baseReturn = r.strategy

Weekdays(from, to) == Cardinality({d \in from .. to : d % 7 \notin {5, 6}})

\* An outcome for a horizon of h is resolved only when h weekdays have passed
\* since its snapshot, weekends between them or not (_add_trading_days, the
\* repair of an untracked snapshot and the query for due rows together).
NotEarly ==
  \A n \in 1 .. Len(snaps), h \in Horizons :
    rows[n][h].status = "resolved" => Weekdays(snaps[n].day + 1, rows[n][h].at) >= h

\* A report does not show as open what was due when its job began: it has
\* repaired and resolved that, or another job has, before it counts.
NoDueLeftOpen ==
  \A p \in Jobs : \A id \in job[p].metrics.open : Row(id).target > job[p].started

\* latest.json, when it can be read, is a copy of a run whose own file is whole,
\* also after a crash or with two archivers: list_validation_run_artifacts and
\* load_validation_run_artifact then tell of the same run.
LatestIsArchived == latest.state = "whole" => runs[latest.run] = "whole"

\* Each horizon of each snapshot, tracked or not by the job that made it, is
\* resolved in the end once it has passed, also when jobs are killed and when
\* reports fail later on, unless a killed job has left a broken weights file.
DueResolved ==
  WeightsLost \/ (\A n \in 1 .. MaxSnaps, h \in Horizons :
    (n <= Len(snaps) /\ now >= AddTradingDays(snaps[n].day, h))
      ~> rows[n][h].status = "resolved")

\* "daily validation reports" (README.md:36): with the schedule running and archives
\* no longer asked for, the last day gets its report.
ArchivesEnd == <>[](\A p \in Archivers : At(p, "idle"))
LastDayReported == ArchivesEnd => WeightsLost \/ ((now = MaxDay) ~> reports[MaxDay].written)
===============================================================================

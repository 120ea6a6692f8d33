--------------------------- MODULE Validation_proofs ---------------------------
(***************************************************************************)
(* Proofs about Validation, for all sets of jobs, horizons, prices and     *)
(* bounds: the archive, the columns of the outcome rows, what is due, and  *)
(* the types.                                                              *)
(*                                                                         *)
(* Shape is the part of TypeOK all need.  A target is a value of           *)
(* AddTradingDays for a day and a horizon, which counts weekdays.          *)
(***************************************************************************)
EXTENDS Validation, SequenceTheorems, Recursion

Targets == {0} \cup {AddTradingDays(d, h) : d \in Days, h \in Horizons}
TypedRow == [status : {"none", "open", "resolved"}, target : Targets, at : Nat,
         price : Nat, benchmark : Nat, strategy : Int, benchReturn : Int, excess : Int,
         baseline : Actions, baseReturn : Int, correct : BOOLEAN]

\* What a job has to do is about the n snapshots there are, and the report it
\* looks for is that of a day.
JobOK(j, n) ==
  /\ j \in JobRow
  /\ j.todo \subseteq 1 .. n
  /\ j.due \subseteq (1 .. n) \X Horizons
  /\ j.pc \in {"find", "report"} => j.date \in Days

Shape ==
  /\ now \in Days
  /\ snaps \in Seq(SnapRow) /\ Len(snaps) <= MaxSnaps
  /\ reports \in [Days -> ReportRow]
  /\ runs \in Seq({"empty", "whole"})
  /\ job \in [Jobs -> JobRow]
  /\ \A p \in Jobs : JobOK(job[p], Len(snaps))

-------------------------------------------------------------------------------
\* The trading days.

LEMMA NextWeekdayIs ==
  ASSUME NEW c \in Nat
  PROVE  /\ NextWeekday(c) \in c + 1 .. c + 3 /\ Weekday(NextWeekday(c))
         /\ \A b \in c + 1 .. NextWeekday(c) - 1 : ~Weekday(b)
<1>1. \E e \in c + 1 .. c + 3 : Weekday(e) /\ \A b \in c + 1 .. e - 1 : ~Weekday(b)
  <2> DEFINE r == c % 7
  <2>0. r \in 0 .. 6
    OBVIOUS
  <2>1. (c + 1) % 7 = IF r = 6 THEN 0 ELSE r + 1
    OBVIOUS
  <2>2. (c + 2) % 7 = IF r \in {5, 6} THEN r - 5 ELSE r + 2
    OBVIOUS
  <2>3. (c + 3) % 7 = IF r \in {4, 5, 6} THEN r - 4 ELSE r + 3
    OBVIOUS
  <2> HIDE DEF r
  <2>4. CASE r \in {0, 1, 2, 3, 6}
    <3>1. Weekday(c + 1)
      BY <2>1, <2>4 DEF Weekday
    <3>2. c + 1 \in c + 1 .. c + 3 /\ \A b \in c + 1 .. (c + 1) - 1 : FALSE
      OBVIOUS
    <3> QED BY <3>1, <3>2
  <2>5. CASE r = 5
    <3>1. Weekday(c + 2) /\ ~Weekday(c + 1)
      BY <2>1, <2>2, <2>5 DEF Weekday
    <3>2. c + 2 \in c + 1 .. c + 3 /\ \A b \in c + 1 .. (c + 2) - 1 : b = c + 1
      OBVIOUS
    <3> QED BY <3>1, <3>2
  <2>6. CASE r = 4
    <3>1. Weekday(c + 3) /\ ~Weekday(c + 1) /\ ~Weekday(c + 2)
      BY <2>1, <2>2, <2>3, <2>6 DEF Weekday
    <3>2. c + 3 \in c + 1 .. c + 3 /\ \A b \in c + 1 .. (c + 3) - 1 : b \in {c + 1, c + 2}
      OBVIOUS
    <3> QED BY <3>1, <3>2
  <2> QED BY <2>0, <2>4, <2>5, <2>6
<1> QED BY <1>1 DEF NextWeekday

LEMMA WeekdaysFinite ==
  ASSUME NEW a \in Int, NEW b \in Int
  PROVE  /\ IsFiniteSet({d \in a .. b : d % 7 \notin {5, 6}})
         /\ Weekdays(a, b) \in Nat
<1>1. IsFiniteSet(a .. b)
  BY FS_Interval
<1>2. IsFiniteSet({d \in a .. b : d % 7 \notin {5, 6}})
  BY <1>1, FS_Subset
<1> QED BY <1>2, FS_CardinalityType DEF Weekdays

\* The next weekday is one more.
LEMMA OneMoreWeekday ==
  ASSUME NEW d \in Nat, NEW c \in Nat, d <= c
  PROVE  Weekdays(d + 1, NextWeekday(c)) = Weekdays(d + 1, c) + 1
<1> DEFINE e == NextWeekday(c)
           in(b) == {x \in d + 1 .. b : x % 7 \notin {5, 6}}
<1>1. /\ e \in c + 1 .. c + 3 /\ e % 7 < 5
      /\ \A b \in c + 1 .. e - 1 : ~(b % 7 < 5)
  BY NextWeekdayIs DEF Weekday
<1> HIDE DEF e
<1>2. \A b \in Int : b % 7 \in 0 .. 6
  OBVIOUS
<1>3. in(e) = in(c) \cup {e} /\ e \notin in(c)
  <2>1. \A x \in in(e) : x \in in(c) \/ x = e
    <3> TAKE x \in in(e)
    <3>1. CASE x \in c + 1 .. e - 1
      BY <1>1, <1>2, <3>1
    <3>2. CASE x \in d + 1 .. c
      BY <3>2
    <3> QED BY <1>1, <3>1, <3>2
  <2>2. in(c) \subseteq in(e) /\ e \in in(e)
    BY <1>1
  <2>3. e \notin in(c)
    BY <1>1
  <2> QED BY <2>1, <2>2, <2>3
<1>4. IsFiniteSet(in(c))
  <2>1. d + 1 \in Int /\ c \in Int
    OBVIOUS
  <2>2. IsFiniteSet({x \in d + 1 .. c : x % 7 \notin {5, 6}})
    BY <2>1, WeekdaysFinite, Zenon
  <2> QED BY <2>2
<1>5. Cardinality(in(e)) = Cardinality(in(c)) + 1
  <2> HIDE DEF in
  <2> QED BY <1>3, <1>4, FS_AddElement
<1> QED BY <1>5 DEF Weekdays, e

\* _add_trading_days moves the date on by exactly the trading days it is given: the
\* weekdays after day d, up to the date it returns and including it, are n, for any d
\* and n.
THEOREM TradingDaysCounted ==
  ASSUME NEW d \in Nat, NEW n \in Nat
  PROVE  /\ AddTradingDays(d, n) \in Nat
         /\ Weekdays(d + 1, AddTradingDays(d, n)) = n
         /\ d <= AddTradingDays(d, n)
         /\ n > 0 => AddTradingDays(d, n) > d /\ Weekday(AddTradingDays(d, n))
<1> DEFINE cursor[k \in 0 .. n] == IF k = 0 THEN d ELSE NextWeekday(cursor[k-1])
           step == [c \in Nat |-> NextWeekday(c)]
<1>1. AddTradingDays(d, n) = cursor[n]
  BY DEF AddTradingDays
<1>2. step \in [Nat -> Nat]
  BY NextWeekdayIs
<1>3. PICK f \in [0 .. n -> Nat] : Iterated(f, d, step, n)
  <2> HIDE DEF step, cursor
  <2> QED BY <1>2, Iterates
<1>4. f = [k \in 0 .. n |-> IF k = 0 THEN d ELSE NextWeekday(f[k-1])]
  <2>0. f = [k \in 0 .. n |-> IF k = 0 THEN d ELSE step[f[k-1]]]
    BY <1>3 DEF Iterated
  <2>1. ASSUME NEW k \in 0 .. n, k # 0 PROVE f[k] = NextWeekday(f[k-1])
    <3>1. k - 1 \in 0 .. n
      BY <2>1
    <3>2. f[k-1] \in Nat /\ f[k] = step[f[k-1]]
      BY <2>0, <2>1, <3>1
    <3> QED BY <3>2
  <2>2. f[0] = d
    BY <2>0
  <2> HIDE DEF step
  <2> QED BY <2>0, <2>1, <2>2
<1>5. cursor = [k \in 0 .. n |-> IF k = 0 THEN d ELSE NextWeekday(cursor[k-1])]
  BY <1>4
<1> HIDE DEF cursor, step
<1> DEFINE Counts(c, k) == /\ c \in Nat /\ d <= c /\ Weekdays(d + 1, c) = k
                           /\ k > 0 => c > d /\ Weekday(c)
           Q == {k \in Nat : k <= n => Counts(cursor[k], k)}
<1>6. 0 \in Q
  <2>1. cursor[0] = d
    BY <1>5
  <2>2. {x \in d + 1 .. d : x % 7 \notin {5, 6}} = {}
    OBVIOUS
  <2>3. Weekdays(d + 1, d) = 0
    BY <2>2, FS_EmptySet DEF Weekdays
  <2> QED BY <2>1, <2>3
<1>7. ASSUME NEW k \in Nat, k \in Q PROVE k + 1 \in Q
  <2> SUFFICES ASSUME k + 1 <= n PROVE Counts(cursor[k+1], k + 1)
    OBVIOUS
  <2>1. Counts(cursor[k], k)
    BY <1>7
  <2>2. cursor[k+1] = NextWeekday(cursor[k])
    BY <1>5
  <2>3. cursor[k+1] \in cursor[k] + 1 .. cursor[k] + 3 /\ Weekday(cursor[k+1])
    BY <2>1, <2>2, NextWeekdayIs
  <2>4. Weekdays(d + 1, cursor[k+1]) = k + 1
    BY <2>1, <2>2, OneMoreWeekday
  <2> QED BY <2>1, <2>3, <2>4
<1>8. Nat \subseteq Q
  <2> HIDE DEF Q
  <2> QED BY <1>6, <1>7, NatInd
<1>9. Counts(cursor[n], n)
  BY <1>8
<1> QED BY <1>1, <1>9

LEMMA TradingDaysAhead ==
  ASSUME NEW d \in Nat, NEW h \in Nat \ {0}
  PROVE  AddTradingDays(d, h) \in Nat /\ AddTradingDays(d, h) > d
BY TradingDaysCounted

\* A later date has no fewer.
LEMMA WeekdaysGrow ==
  ASSUME NEW a \in Int, NEW b \in Int, NEW c \in Int, b <= c
  PROVE  Weekdays(a, b) <= Weekdays(a, c)
<1> DEFINE in(x) == {d \in a .. x : d % 7 \notin {5, 6}}
<1>1. in(b) \subseteq in(c)
  OBVIOUS
<1>2. IsFiniteSet(in(c))
  BY WeekdaysFinite
<1> HIDE DEF in
<1>3. Cardinality(in(b)) <= Cardinality(in(c))
  BY <1>1, <1>2, FS_Subset
<1> QED BY <1>3 DEF Weekdays, in

-------------------------------------------------------------------------------
LEMMA NothingIsAReport == NoMetrics \in Metrics /\ NoReport \in ReportRow
BY DEF NoMetrics, NoReport, Metrics, ReportRow

LEMMA IdleOK == ASSUME NEW n \in Nat PROVE JobOK(Idle, n)
BY NothingIsAReport DEF JobOK, Idle, JobRow, Labels

LEMMA MoreSnaps ==
  ASSUME NEW j, NEW m \in Nat, NEW n \in Nat, m <= n, JobOK(j, m) PROVE JobOK(j, n)
<1>1. 1 .. m \subseteq 1 .. n
  OBVIOUS
<1> QED
  BY <1>1 DEF JobOK

\* A step of p that replaces its own entry keeps the entries of all.
LEMMA SetJob ==
  ASSUME Shape, NEW p \in Jobs, NEW j, JobOK(j, Len(snaps)), Set(p, j)
  PROVE  /\ job' \in [Jobs -> JobRow]
         /\ \A q \in Jobs : JobOK(job'[q], Len(snaps))
         /\ \A q \in Jobs : job'[q] = IF q = p THEN j ELSE job[q]
BY DEF Shape, Set, JobOK

LEMMA CountedOK == ASSUME Shape PROVE Counted \in Metrics
<1>1. All \subseteq Ids
  <2>1. Len(snaps) \in Nat /\ 1 .. Len(snaps) \subseteq 1 .. MaxSnaps
    BY BoundsAssumption, LenProperties DEF Shape
  <2> QED
    BY <2>1 DEF All, Ids
<1> QED
  BY <1>1 DEF Counted, Metrics

LEMMA InitShape == Init => Shape
<1> SUFFICES ASSUME Init PROVE Shape
  OBVIOUS
<1>1. now \in Days
  BY BoundsAssumption DEF Init, Days
<1>2. snaps \in Seq(SnapRow) /\ Len(snaps) = 0
  BY DEF Init
<1>3. \A p \in Jobs : JobOK(job[p], Len(snaps))
  BY <1>2, IdleOK DEF Init
<1> QED
  BY <1>1, <1>2, <1>3, BoundsAssumption, NothingIsAReport DEF Init, Shape, JobOK

\* A job's own step keeps the shape if its new entry does.
LEMMA ShapeSet ==
  ASSUME Shape, NEW p \in Jobs, NEW j, JobOK(j, Len(snaps)), Set(p, j),
         UNCHANGED <<now, snaps>>, reports' \in [Days -> ReportRow],
         runs' \in Seq({"empty", "whole"})
  PROVE  Shape'
<1>1. job' \in [Jobs -> JobRow] /\ \A q \in Jobs : JobOK(job'[q], Len(snaps))
  BY SetJob
<1> QED
  BY <1>1 DEF Shape

LEMMA ShapeStep == ASSUME Shape, [Next]_vars PROVE Shape'
<1> USE DEF Shape
<1>n. Len(snaps) \in Nat
  BY LenProperties
<1>1. CASE Tick
  BY <1>1, BoundsAssumption DEF Tick, Days
<1>2. CASE Publish
  <2>1. PICK c \in Calls, ref \in RefPrices :
          snaps' = Append(snaps, [action |-> c.action, bias |-> c.bias, ref |-> ref, day |-> now])
    BY <1>2 DEF Publish
  <2>2. [action |-> c.action, bias |-> c.bias, ref |-> ref, day |-> now] \in SnapRow
    BY CallsAssumption, PricesAssumption DEF SnapRow
  <2>3. snaps' \in Seq(SnapRow) /\ Len(snaps') = Len(snaps) + 1
    BY <2>1, <2>2, AppendProperties
  <2>4. \A q \in Jobs : JobOK(job[q], Len(snaps'))
    BY <1>n, <2>3, MoreSnaps
  <2> QED
    BY <1>2, <1>n, <2>3, <2>4, BoundsAssumption DEF Publish
<1>3. ASSUME NEW p \in Jobs, Start(p) PROVE Shape'
  <2> DEFINE j == [Idle EXCEPT !.pc = "ensure", !.started = now, !.todo = 1 .. Len(snaps)]
  <2>1. 1 .. Len(snaps) \subseteq 1 .. MaxSnaps
    BY <1>n, BoundsAssumption
  <2>2. now \in Nat
    BY BoundsAssumption DEF Days
  <2>3. JobOK(j, Len(snaps))
    BY <1>n, <2>1, <2>2, NothingIsAReport DEF JobOK, JobRow, Labels, Idle
  <2> QED
    BY <1>3, <2>3, ShapeSet DEF Start
<1>4. ASSUME NEW p \in Jobs, Step(p) \/ Crash(p) PROVE Shape'
  <2>1. JobOK(job[p], Len(snaps)) /\ job[p] \in JobRow
    OBVIOUS
  <2>2. ASSUME NEW l \in Labels \ {"find", "report"}
        PROVE  JobOK([job[p] EXCEPT !.pc = l], Len(snaps))
    BY <2>1 DEF JobOK, JobRow
  <2>3. CASE EnsureOutcomes(p)
    <3>1. PICK n \in Missing(p) : Set(p, [job[p] EXCEPT !.todo = @ \ {n}])
      BY <2>3 DEF EnsureOutcomes
    <3>2. JobOK([job[p] EXCEPT !.todo = @ \ {n}], Len(snaps))
      BY <2>1 DEF JobOK, JobRow
    <3> QED
      BY <2>3, <3>1, <3>2, ShapeSet DEF EnsureOutcomes
  <2>4. CASE LoadDue(p)
    <3> DEFINE none == Due(now) = {}
               j == [job[p] EXCEPT !.pc = IF none THEN "weights" ELSE "quotes",
                                   !.todo = {}, !.due = Due(now), !.at = IF none THEN 0 ELSE now]
    <3>1. Due(now) \subseteq (1 .. Len(snaps)) \X Horizons
      BY DEF Due, All
    <3>2. (1 .. Len(snaps)) \X Horizons \subseteq Ids
      BY <1>n, BoundsAssumption DEF Ids
    <3>3. (IF none THEN 0 ELSE now) \in Nat
      BY BoundsAssumption DEF Days
    <3>4. (IF none THEN "weights" ELSE "quotes") \in Labels \ {"find", "report"}
      BY DEF Labels
    <3> HIDE DEF none
    <3>5. JobOK(j, Len(snaps))
      BY <2>1, <3>1, <3>2, <3>3, <3>4 DEF JobOK, JobRow
    <3>6. Set(p, j)
      BY <2>4 DEF LoadDue, none
    <3> HIDE DEF j
    <3> QED
      BY <2>4, <3>5, <3>6, ShapeSet DEF LoadDue
  <2>5. CASE FetchQuotes(p)
    <3>1. PICK q \in Quotes : Set(p, [job[p] EXCEPT !.pc = "resolve", !.quote = q])
      BY <2>5 DEF FetchQuotes
    <3>2. JobOK([job[p] EXCEPT !.pc = "resolve", !.quote = q], Len(snaps))
      BY <2>1, PricesAssumption DEF JobOK, JobRow, Labels
    <3> QED
      BY <2>5, <3>1, <3>2, ShapeSet DEF FetchQuotes
  <2>6. CASE Resolve(p)
    <3>1. Idle.quote \in [security : Nat, benchmark : Nat]
      BY DEF Idle
    <3>2. JobOK([job[p] EXCEPT !.pc = "weights", !.due = {}, !.quote = Idle.quote, !.at = 0],
                Len(snaps))
      BY <2>1, <3>1 DEF JobOK, JobRow, Labels
    <3> QED
      BY <2>6, <3>2, ShapeSet DEF Resolve
  <2>7. CASE OpenWeights(p)
    BY <2>2, <2>7, ShapeSet DEF OpenWeights, Labels
  <2>8. CASE FillWeights(p)
    BY <2>2, <2>8, ShapeSet DEF FillWeights, Labels
  <2>9. CASE Summarise(p)
    <3>1. JobOK([job[p] EXCEPT !.pc = "find", !.metrics = Counted, !.date = now], Len(snaps))
      <4>1. Counted \in Metrics
        BY CountedOK
      <4>2. now \in Nat
        BY BoundsAssumption DEF Days
      <4> QED
        BY <2>1, <4>1, <4>2 DEF JobOK, JobRow, Labels
    <3>2. \/ Set(p, [job[p] EXCEPT !.pc = "find", !.metrics = Counted, !.date = now])
          \/ Set(p, Idle)
      BY <2>9 DEF Summarise, End
    <3> QED
      BY <2>9, <1>n, <3>1, <3>2, IdleOK, ShapeSet DEF Summarise
  <2>10. CASE FindReport(p)
    <3>1. reports[job[p].date] \in ReportRow
      BY <2>1, <2>10 DEF FindReport, At, JobOK
    <3>2. JobOK([job[p] EXCEPT !.pc = "report", !.old = reports[job[p].date]], Len(snaps))
      BY <2>1, <2>10, <3>1 DEF FindReport, At, JobOK, JobRow, Labels
    <3> QED
      BY <2>10, <3>2, ShapeSet DEF FindReport
  <2>11. CASE WriteReport(p)
    <3> DEFINE d == job[p].date  old == job[p].old
               row == [written |-> TRUE,
                       metrics |-> IF job[p].metrics = old.metrics /\ old.written
                                   THEN reports[d].metrics ELSE job[p].metrics]
    <3>0. reports[d].metrics \in Metrics /\ job[p].metrics \in Metrics
      BY <2>1, <2>11 DEF WriteReport, At, JobOK, JobRow, ReportRow
    <3>1. reports' \in [Days -> ReportRow]
      <4>1. row \in ReportRow
        BY <3>0 DEF ReportRow
      <4>2. reports' = reports \/ reports' = [reports EXCEPT ![d] = row]
        BY <2>11 DEF WriteReport
      <4> QED
        BY <4>1, <4>2
    <3>2. JobOK([Idle EXCEPT !.pc = "archive"], Len(snaps))
      BY <1>n, NothingIsAReport DEF JobOK, JobRow, Labels, Idle
    <3>3. Set(p, Idle) \/ Set(p, [Idle EXCEPT !.pc = "archive"])
      BY <2>11 DEF WriteReport, End
    <3> QED
      BY <2>11, <1>n, <3>1, <3>2, <3>3, IdleOK, ShapeSet DEF WriteReport
  <2>12. CASE OpenRun(p)
    <3>1. Len(runs) + 1 \in Nat /\ Append(runs, "empty") \in Seq({"empty", "whole"})
      BY LenProperties, AppendProperties
    <3>2. JobOK([job[p] EXCEPT !.pc = "run", !.run = Len(runs) + 1], Len(snaps))
      BY <2>1, <3>1 DEF JobOK, JobRow, Labels
    <3>3. runs' \in Seq({"empty", "whole"})
      BY <2>12, <3>1 DEF OpenRun
    <3>4. Set(p, Idle) \/ Set(p, [job[p] EXCEPT !.pc = "run", !.run = Len(runs) + 1])
      BY <2>12 DEF OpenRun, End
    <3> QED
      BY <2>12, <1>n, <3>2, <3>3, <3>4, IdleOK, ShapeSet DEF OpenRun
  <2>13. CASE FillRun(p)
    <3>1. runs' \in Seq({"empty", "whole"})
      <4> DEFINE n == job[p].run
      <4>1. CASE n \in 1 .. Len(runs)
        BY <2>13, <4>1, ExceptSeq DEF FillRun
      <4>2. CASE n \notin 1 .. Len(runs)
        <5>1. DOMAIN runs = 1 .. Len(runs) /\ runs = [i \in 1 .. Len(runs) |-> runs[i]]
          BY LenProperties
        <5> QED
          BY <2>13, <4>2, <5>1 DEF FillRun
      <4> QED
        BY <4>1, <4>2
    <3> QED
      BY <2>2, <2>13, <3>1, ShapeSet DEF FillRun, Labels
  <2>14. CASE OpenLatest(p)
    BY <2>2, <2>14, ShapeSet DEF OpenLatest, Labels
  <2>15. CASE FillLatest(p)
    BY <2>2, <2>15, ShapeSet DEF FillLatest, Labels
  <2>16. CASE WriteCsv(p) \/ Crash(p)
    BY <2>16, <1>n, IdleOK, ShapeSet DEF WriteCsv, Crash, End
  <2> QED
    BY <1>4, <2>3, <2>4, <2>5, <2>6, <2>7, <2>8, <2>9, <2>10, <2>11, <2>12, <2>13, <2>14,
       <2>15, <2>16 DEF Step, Report, Archive
<1>5. CASE UNCHANGED vars
  BY <1>5 DEF vars
<1> QED
  BY <1>1, <1>2, <1>3, <1>4, <1>5 DEF Next

-------------------------------------------------------------------------------
\* The archive.  A job that has filled its run's file finds it whole until it has
\* written latest.json, because nobody else writes that file.

ArchOK(j, files) ==
  /\ j.pc \in {"run", "latest", "fill"} => j.run \in 1 .. Len(files)
  /\ j.pc \in {"latest", "fill"} => files[j.run] = "whole"

Archived ==
  /\ latest.state = "whole" => latest.run \in 1 .. Len(runs) /\ runs[latest.run] = "whole"
  /\ \A p \in Jobs : ArchOK(job[p], runs)

\* The runs are kept, and the whole ones whole.
Grows ==
  \A i \in 1 .. Len(runs) : i \in 1 .. Len(runs') /\ (runs[i] = "whole" => runs'[i] = "whole")

LEMMA ArchStays == ASSUME NEW j, ArchOK(j, runs), Grows PROVE ArchOK(j, runs')
BY DEF ArchOK, Grows

\* A step of p that leaves latest.json to itself, if its own entry is in order.
LEMMA ArchiveSet ==
  ASSUME Shape, Archived, Grows, NEW p \in Jobs, NEW j, ArchOK(j, runs'), Set(p, j),
         UNCHANGED latest
  PROVE  Archived'
<1>1. \A q \in Jobs : ArchOK(job'[q], runs')
  BY ArchStays DEF Shape, Archived, Set
<1> QED
  BY <1>1 DEF Archived, Grows

LEMMA ArchivedStep == ASSUME Shape, Archived, [Next]_vars PROVE Archived'
<1>1. CASE UNCHANGED <<runs, latest, job>>
  BY <1>1 DEF Archived, ArchOK
<1>2. ASSUME NEW p \in Jobs, UNCHANGED <<runs, latest>>,
             \A q \in Jobs \ {p} : job'[q] = job[q],
             job'[p].pc \notin {"run", "latest", "fill"}
      PROVE  Archived'
  BY <1>2 DEF Archived, ArchOK
<1>3. ASSUME NEW p \in Jobs, Start(p) \/ Report(p) \/ WriteCsv(p) \/ Crash(p) PROVE Archived'
  <2>1. UNCHANGED <<runs, latest>>
    BY <1>3 DEF Start, Report, EnsureOutcomes, LoadDue, FetchQuotes, Resolve, OpenWeights,
                FillWeights, Summarise, FindReport, WriteReport, WriteCsv, Crash
  <2>2. job[p] \in JobRow
    BY DEF Shape
  <2>3. \A q \in Jobs \ {p} : job'[q] = job[q]
    BY <1>3 DEF Start, Report, EnsureOutcomes, LoadDue, FetchQuotes, Resolve, OpenWeights,
                FillWeights, Summarise, FindReport, WriteReport, WriteCsv, Crash, End, Set, Shape
  <2>4. job'[p].pc \notin {"run", "latest", "fill"}
    <3>0. ASSUME NEW j, Set(p, j) PROVE job'[p] = j
      BY <3>0 DEF Set, Shape
    <3>1. CASE EnsureOutcomes(p)
      BY <2>2, <3>1 DEF EnsureOutcomes, At, Set, Shape, JobRow
    <3>2. CASE LoadDue(p)
      BY <2>2, <3>2 DEF LoadDue, Set, Shape, JobRow
    <3>3. CASE FetchQuotes(p)
      BY <2>2, <3>3 DEF FetchQuotes, Set, Shape, JobRow
    <3>4. CASE Resolve(p)
      BY <2>2, <3>4 DEF Resolve, Set, Shape, JobRow
    <3>5. CASE OpenWeights(p) \/ FillWeights(p)
      BY <2>2, <3>5 DEF OpenWeights, FillWeights, Set, Shape, JobRow
    <3>6. CASE Summarise(p)
      <4> DEFINE j == [job[p] EXCEPT !.pc = "find", !.metrics = Counted, !.date = now]
      <4>1. j.pc = "find" /\ Idle.pc = "idle"
        BY <2>2 DEF JobRow, Idle
      <4>2. Set(p, j) \/ Set(p, Idle)
        BY <3>6 DEF Summarise, End
      <4> HIDE DEF j
      <4> QED
        BY <3>0, <4>1, <4>2
    <3>7. CASE FindReport(p)
      BY <2>2, <3>7 DEF FindReport, Set, Shape, JobRow
    <3>8. CASE WriteReport(p) \/ WriteCsv(p) \/ Crash(p) \/ Start(p)
      <4> DEFINE j == [Idle EXCEPT !.pc = "archive"]
                 k == [Idle EXCEPT !.pc = "ensure", !.started = now, !.todo = 1 .. Len(snaps)]
      <4>1. Idle.pc = "idle" /\ j.pc = "archive" /\ k.pc = "ensure"
        BY DEF Idle
      <4>2. Set(p, Idle) \/ Set(p, j) \/ Set(p, k)
        BY <3>8 DEF WriteReport, WriteCsv, Crash, Start, End
      <4> HIDE DEF j, k
      <4> QED
        BY <3>0, <4>1, <4>2
    <3> QED
      BY <1>3, <3>1, <3>2, <3>3, <3>4, <3>5, <3>6, <3>7, <3>8 DEF Report
  <2> QED
    BY <1>2, <2>1, <2>3, <2>4
<1>4. ASSUME NEW p \in Jobs, OpenRun(p) PROVE Archived'
  <2>1. CASE Set(p, Idle) /\ UNCHANGED runs
    BY <1>2, <1>4, <2>1 DEF OpenRun, Idle, Set, Shape
  <2>2. CASE /\ runs' = Append(runs, "empty")
             /\ Set(p, [job[p] EXCEPT !.pc = "run", !.run = Len(runs) + 1])
    <3> DEFINE j == [job[p] EXCEPT !.pc = "run", !.run = Len(runs) + 1]
    <3>1. /\ Len(runs) \in Nat /\ Len(runs') = Len(runs) + 1
          /\ \A i \in 1 .. Len(runs) : runs'[i] = runs[i]
      BY <2>2, AppendProperties, LenProperties DEF Shape
    <3>2. Grows
      BY <3>1 DEF Grows
    <3>3. j.pc = "run" /\ j.run = Len(runs) + 1
      BY DEF Shape, JobRow
    <3> HIDE DEF j
    <3>4. ArchOK(j, runs')
      BY <3>1, <3>3 DEF ArchOK
    <3>5. Set(p, j) /\ UNCHANGED latest
      BY <1>4, <2>2 DEF OpenRun, j
    <3> QED
      BY <3>2, <3>4, <3>5, ArchiveSet
  <2> QED
    BY <1>4, <2>1, <2>2 DEF OpenRun, End
<1>5. ASSUME NEW p \in Jobs, FillRun(p) PROVE Archived'
  <2> DEFINE j == [job[p] EXCEPT !.pc = "latest"]
  <2>1. job[p].run \in 1 .. Len(runs)
    BY <1>5 DEF FillRun, At, Archived, ArchOK
  <2>2. /\ Len(runs') = Len(runs)
        /\ \A i \in 1 .. Len(runs) : runs'[i] = IF i = job[p].run THEN "whole" ELSE runs[i]
    BY <1>5, <2>1, ExceptSeq DEF FillRun, Shape
  <2>3. Grows
    BY <2>2 DEF Grows
  <2>4. j.pc = "latest" /\ j.run = job[p].run
    BY DEF Shape, JobRow
  <2>5. Set(p, j) /\ UNCHANGED latest
    BY <1>5 DEF FillRun
  <2> HIDE DEF j
  <2>6. ArchOK(j, runs')
    BY <2>1, <2>2, <2>4 DEF ArchOK
  <2> QED
    BY <2>3, <2>5, <2>6, ArchiveSet
<1>6. ASSUME NEW p \in Jobs, OpenLatest(p) \/ FillLatest(p) PROVE Archived'
  <2>1. /\ job[p].pc \in {"latest", "fill"} /\ UNCHANGED runs
        /\ job[p].run \in 1 .. Len(runs) /\ runs[job[p].run] = "whole"
    BY <1>6 DEF OpenLatest, FillLatest, At, Archived, ArchOK
  <2>2. latest'.state = "whole" => latest'.run = job[p].run
    BY <1>6 DEF OpenLatest, FillLatest
  <2>3. \A q \in Jobs \ {p} : job'[q] = job[q]
    BY <1>6 DEF OpenLatest, FillLatest, Set, Shape
  <2>4. job'[p].run = job[p].run
    BY <1>6 DEF OpenLatest, FillLatest, Set, Shape, JobRow
  <2> QED
    BY <2>1, <2>2, <2>3, <2>4 DEF Archived, ArchOK
<1> QED
  BY <1>1, <1>3, <1>4, <1>5, <1>6 DEF Next, Step, Archive, Tick, Publish, vars

\* latest.json, when it is whole, names a run whose file is whole: for any number of
\* archivers and any crashes (archive_validation_run fills the run's file first).
THEOREM LatestKept == Spec => []LatestIsArchived
<1>1. Init => Shape /\ Archived
  <2>1. Init => Archived
    BY DEF Init, Archived, ArchOK, Idle
  <2> QED
    BY <2>1, InitShape
<1>2. Shape /\ Archived /\ [Next]_vars => (Shape /\ Archived)'
  BY ShapeStep, ArchivedStep
<1>3. Archived => LatestIsArchived
  BY DEF Archived, LatestIsArchived
<1> QED
  BY <1>1, <1>2, <1>3, PTL DEF Spec

-------------------------------------------------------------------------------
\* The outcome rows.  A row tells of the snapshot it belongs to, and its baseline is the
\* default until it is resolved: a resolver that does not write it finds it right.

RowOK(r, sn) ==
  /\ r \in TypedRow
  /\ r.status # "resolved" => r.baseline = "hold"
  /\ r.status = "resolved" =>
       /\ r.strategy = StrategyReturn(sn.action, ReturnPct(r.price, sn.ref))
       /\ sn.action # "hold" => (r.correct <=> r.strategy > 0)
       /\ r.excess = r.strategy - r.benchReturn
       /\ r.benchReturn = ReturnPct(r.benchmark, sn.ref)
       /\ r.baseline = BaselineAction(sn.bias)
       /\ r.baseReturn = StrategyReturn(BaselineAction(sn.bias), ReturnPct(r.price, sn.ref))

RowsOK ==
  /\ rows \in [1 .. MaxSnaps -> [Horizons -> TypedRow]]
  /\ \A n \in 1 .. MaxSnaps, h \in Horizons :
       IF n <= Len(snaps) THEN RowOK(rows[n][h], snaps[n]) ELSE rows[n][h] = Untracked

LEMMA ReturnIsInt == ASSUME NEW a \in Nat, NEW b \in Nat PROVE ReturnPct(a, b) \in Int
BY DEF ReturnPct

LEMMA StrategyIsInt ==
  ASSUME NEW c \in Actions, NEW r \in Int
  PROVE  /\ StrategyReturn(c, r) \in Int
         /\ c # "hold" => (DirectionalCorrect(c, r) <=> StrategyReturn(c, r) > 0)
         /\ DirectionalCorrect(c, r) \in BOOLEAN
<1>1. CASE c = "buy"
  BY <1>1 DEF StrategyReturn, DirectionalCorrect
<1>2. CASE c = "sell"
  BY <1>2 DEF StrategyReturn, DirectionalCorrect
<1>3. CASE c = "hold"
  BY <1>3 DEF StrategyReturn, DirectionalCorrect
<1> QED
  BY <1>1, <1>2, <1>3 DEF Actions

LEMMA BaselineIsAction == ASSUME NEW b \in Int PROVE BaselineAction(b) \in Actions
BY DEF BaselineAction, Actions

LEMMA NewRowOK ==
  ASSUME NEW sn \in SnapRow, NEW h \in Horizons
  PROVE  RowOK(Untracked, sn) /\ RowOK(Opened(sn)[h], sn) /\ Untracked \in TypedRow
<1>1. 0 \in Targets /\ AddTradingDays(sn.day, h) \in Targets
  BY DEF Targets, SnapRow
<1> DEFINE target == AddTradingDays(sn.day, h)
<1>2. Opened(sn)[h] = [Untracked EXCEPT !.status = "open", !.target = target]
  BY DEF Opened
<1> HIDE DEF target
<1> QED
  <2>1. Untracked \in TypedRow
    BY <1>1 DEF Untracked, TypedRow, Actions
  <2>2. /\ Opened(sn)[h] \in TypedRow
        /\ Opened(sn)[h].status = "open" /\ Opened(sn)[h].baseline = "hold"
    BY <1>1, <1>2, <2>1 DEF Untracked, TypedRow, target
  <2>3. Untracked.status = "none" /\ Untracked.baseline = "hold"
    BY DEF Untracked
  <2> QED
    BY <2>1, <2>2, <2>3 DEF RowOK

\* What a resolver writes on a row, resolved before or not, is whole again.
LEMMA ResolvedOK ==
  ASSUME NEW sn \in SnapRow, NEW r, RowOK(r, sn), NEW day \in Nat,
         NEW q \in [security : Nat, benchmark : Nat]
  PROVE  RowOK(Written(r, Result(sn, r, q, day)), sn)
<1> DEFINE observed == ReturnPct(q.security, sn.ref)
           bench == ReturnPct(q.benchmark, sn.ref)
           baseline == BaselineAction(sn.bias)
           strategy == StrategyReturn(sn.action, observed)
           correct == DirectionalCorrect(sn.action, observed)
           baseReturn == StrategyReturn(baseline, observed)
           new == Result(sn, r, q, day)
<1>1. observed \in Int /\ bench \in Int
  BY ReturnIsInt DEF SnapRow
<1>2. baseline \in Actions
  BY BaselineIsAction DEF SnapRow
<1>3. /\ strategy \in Int /\ correct \in BOOLEAN
      /\ sn.action # "hold" => (correct <=> strategy > 0)
  BY <1>1, StrategyIsInt DEF SnapRow
<1>4. baseReturn \in Int
  BY <1>1, <1>2, StrategyIsInt
<1>5. new = [r EXCEPT !.status = "resolved", !.at = day,
                      !.price = q.security, !.benchmark = q.benchmark,
                      !.strategy = strategy, !.benchReturn = bench,
                      !.excess = strategy - bench, !.baseline = baseline,
                      !.baseReturn = baseReturn, !.correct = correct]
  BY DEF Result
<1>6. r \in TypedRow /\ q.security \in Nat /\ q.benchmark \in Nat
  BY DEF RowOK
<1> HIDE DEF observed, bench, baseline, strategy, correct, baseReturn, new
<1>7. /\ new \in TypedRow /\ new.status = "resolved"
      /\ new.price = q.security /\ new.benchmark = q.benchmark
      /\ new.strategy = strategy /\ new.benchReturn = bench
      /\ new.excess = strategy - bench /\ new.baseline = baseline
      /\ new.baseReturn = baseReturn /\ new.correct = correct
  <2>1. strategy - bench \in Int
    BY <1>1, <1>3
  <2>2. new \in TypedRow
    BY <1>1, <1>2, <1>3, <1>4, <1>5, <1>6, <2>1 DEF TypedRow
  <2>3. /\ new.status = "resolved" /\ new.price = q.security /\ new.benchmark = q.benchmark
        /\ new.strategy = strategy /\ new.benchReturn = bench
    BY <1>5, <1>6 DEF TypedRow
  <2>4. /\ new.excess = strategy - bench /\ new.baseline = baseline
        /\ new.baseReturn = baseReturn /\ new.correct = correct
    BY <1>5, <1>6 DEF TypedRow
  <2> QED
    BY <2>2, <2>3, <2>4
<1>8. RowOK(new, sn)
  BY <1>3, <1>7 DEF RowOK, observed, bench, baseline, strategy, baseReturn
<1>9. Written(r, new) = new
  <2>1. CASE baseline = "hold"
    <3>1. r.baseline = "hold"
      BY <2>1 DEF RowOK, baseline
    <3>2. [new EXCEPT !.baseline = "hold"] = new
      BY <1>7, <2>1 DEF TypedRow
    <3> QED
      BY <1>7, <2>1, <3>1, <3>2 DEF Written, Untracked
  <2>2. CASE baseline # "hold"
    BY <1>7, <2>2 DEF Written, Untracked
  <2> QED
    BY <2>1, <2>2
<1> QED
  BY <1>8, <1>9 DEF new

LEMMA RowsStep == ASSUME Shape, RowsOK, [Next]_vars PROVE RowsOK'
<1>n. Len(snaps) \in Nat /\ \A n \in 1 .. Len(snaps) : snaps[n] \in SnapRow
  BY LenProperties, ElementOfSeq DEF Shape
<1>t. rows \in [1 .. MaxSnaps -> [Horizons -> TypedRow]]
  BY DEF RowsOK
<1>1. CASE UNCHANGED <<rows, snaps>>
  BY <1>1 DEF RowsOK
<1>2. CASE Publish
  <2> DEFINE k == Len(snaps) + 1
  <2>1. PICK c \in Calls, ref \in RefPrices, dies \in BOOLEAN :
          LET sn == [action |-> c.action, bias |-> c.bias, ref |-> ref, day |-> now]
          IN  /\ snaps' = Append(snaps, sn)
              /\ rows' = IF dies THEN rows ELSE [rows EXCEPT ![k] = Opened(sn)]
    BY <1>2 DEF Publish
  <2> DEFINE sn == [action |-> c.action, bias |-> c.bias, ref |-> ref, day |-> now]
  <2>2. sn \in SnapRow
    BY CallsAssumption, PricesAssumption DEF SnapRow, Shape
  <2> HIDE DEF sn
  <2>3. /\ Len(snaps') = k /\ snaps'[k] = sn
        /\ \A n \in 1 .. Len(snaps) : snaps'[n] = snaps[n]
    BY <2>1, <2>2, AppendProperties DEF Shape, sn
  <2>4. k \in 1 .. MaxSnaps
    BY <1>2, <1>n, BoundsAssumption DEF Publish
  <2>5. rows' = rows \/ rows' = [rows EXCEPT ![k] = Opened(sn)]
    BY <2>1 DEF sn
  <2>6. \A h \in Horizons : RowOK(Untracked, sn) /\ RowOK(Opened(sn)[h], sn)
    BY <2>2, NewRowOK
  <2>7. Opened(sn) \in [Horizons -> TypedRow]
    BY <2>6 DEF Opened, RowOK
  <2>8. rows' \in [1 .. MaxSnaps -> [Horizons -> TypedRow]]
    BY <1>t, <2>5, <2>7
  <2>9. ASSUME NEW n \in 1 .. MaxSnaps, NEW h \in Horizons
        PROVE  IF n <= k THEN RowOK(rows'[n][h], snaps'[n]) ELSE rows'[n][h] = Untracked
    <3>1. CASE n = k
      <4>1. rows[k][h] = Untracked
        BY <1>n, <2>4 DEF RowsOK
      <4>2. rows'[k][h] \in {Untracked, Opened(sn)[h]}
        BY <1>t, <2>4, <2>5, <4>1
      <4> QED
        BY <2>3, <2>6, <3>1, <4>2
    <3>2. CASE n # k
      <4>1. rows'[n][h] = rows[n][h]
        BY <1>t, <2>5, <3>2
      <4>2. n <= k <=> n <= Len(snaps)
        BY <1>n, <3>2
      <4> QED
        BY <1>n, <2>3, <4>1, <4>2 DEF RowsOK
    <3> QED
      BY <3>1, <3>2
  <2> QED
    BY <2>3, <2>8, <2>9 DEF RowsOK
<1>3. ASSUME NEW p \in Jobs, EnsureOutcomes(p) PROVE RowsOK'
  <2>1. PICK k \in Missing(p) : rows' = [rows EXCEPT ![k] = Opened(snaps[k])]
    BY <1>3 DEF EnsureOutcomes
  <2>2. k \in 1 .. Len(snaps) /\ snaps' = snaps
    BY <1>3, <2>1 DEF EnsureOutcomes, Missing, Shape, JobOK
  <2>3. k \in 1 .. MaxSnaps /\ snaps[k] \in SnapRow
    BY <1>n, <2>2, BoundsAssumption DEF Shape
  <2>4. \A h \in Horizons : RowOK(Opened(snaps[k])[h], snaps[k])
    BY <2>3, NewRowOK
  <2>5. Opened(snaps[k]) \in [Horizons -> TypedRow]
    BY <2>4 DEF Opened, RowOK
  <2>6. rows' \in [1 .. MaxSnaps -> [Horizons -> TypedRow]]
    BY <1>t, <2>1, <2>5
  <2>7. ASSUME NEW n \in 1 .. MaxSnaps, NEW h \in Horizons
        PROVE  IF n <= Len(snaps) THEN RowOK(rows'[n][h], snaps[n]) ELSE rows'[n][h] = Untracked
    <3>1. CASE n = k
      BY <1>t, <1>n, <2>1, <2>2, <2>3, <2>4, <3>1
    <3>2. CASE n # k
      BY <1>t, <2>1, <3>2 DEF RowsOK
    <3> QED
      BY <3>1, <3>2
  <2> QED
    BY <2>2, <2>6, <2>7 DEF RowsOK
<1>4. ASSUME NEW p \in Jobs, Resolve(p) PROVE RowsOK'
  <2> DEFINE new(n, h) == Written(rows[n][h], Result(snaps[n], rows[n][h], job[p].quote, job[p].at))
  <2>1. /\ rows' = [n \in 1 .. MaxSnaps |-> [h \in Horizons |->
                       IF <<n, h>> \in job[p].due THEN new(n, h) ELSE rows[n][h]]]
        /\ snaps' = snaps
    BY <1>4 DEF Resolve
  <2>2. /\ job[p].due \subseteq (1 .. Len(snaps)) \X Horizons
        /\ job[p].quote \in [security : Nat, benchmark : Nat] /\ job[p].at \in Nat
    BY DEF Shape, JobOK, JobRow
  <2>3. ASSUME NEW n \in 1 .. MaxSnaps, NEW h \in Horizons, <<n, h>> \in job[p].due
        PROVE  n \in 1 .. Len(snaps) /\ RowOK(new(n, h), snaps[n]) /\ new(n, h) \in TypedRow
    <3>1. n \in 1 .. Len(snaps)
      BY <2>2, <2>3
    <3>2. RowOK(rows[n][h], snaps[n]) /\ snaps[n] \in SnapRow
      BY <1>n, <3>1 DEF RowsOK
    <3>3. RowOK(new(n, h), snaps[n])
      BY <2>2, <3>2, ResolvedOK
    <3> QED
      BY <3>1, <3>3 DEF RowOK
  <2> HIDE DEF new
  <2>4. ASSUME NEW n \in 1 .. MaxSnaps, NEW h \in Horizons
        PROVE  /\ rows'[n][h] \in TypedRow
               /\ IF n <= Len(snaps) THEN RowOK(rows'[n][h], snaps[n]) ELSE rows'[n][h] = Untracked
    <3>1. CASE <<n, h>> \in job[p].due
      BY <1>n, <2>1, <2>3, <3>1
    <3>2. CASE <<n, h>> \notin job[p].due
      BY <1>t, <2>1, <3>2 DEF RowsOK
    <3> QED
      BY <3>1, <3>2
  <2>5. rows' \in [1 .. MaxSnaps -> [Horizons -> TypedRow]]
    <3>1. rows' = [n \in 1 .. MaxSnaps |-> rows'[n]]
          /\ \A n \in 1 .. MaxSnaps : rows'[n] = [h \in Horizons |-> rows'[n][h]]
      BY <2>1
    <3> QED
      BY <2>4, <3>1
  <2> QED
    BY <2>1, <2>4, <2>5 DEF RowsOK
<1>5. ASSUME NEW p \in Jobs, Start(p) \/ Step(p) \/ Crash(p) PROVE RowsOK'
  <2>1. UNCHANGED <<rows, snaps>> \/ EnsureOutcomes(p) \/ Resolve(p)
    BY <1>5 DEF Start, Crash, Step, Report, Archive, LoadDue, FetchQuotes, OpenWeights, FillWeights,
                Summarise, FindReport, WriteReport, OpenRun, FillRun, OpenLatest, FillLatest,
                WriteCsv
  <2> QED
    BY <1>1, <1>3, <1>4, <2>1
<1> QED
  BY <1>1, <1>2, <1>5 DEF Next, Tick, vars

LEMMA InitRows == Init => RowsOK
<1> SUFFICES ASSUME Init PROVE RowsOK
  OBVIOUS
<1>1. Untracked \in TypedRow
  BY DEF Untracked, TypedRow, Targets, Actions
<1>2. Len(snaps) = 0 /\ \A n \in 1 .. MaxSnaps : ~(n <= 0)
  BY DEF Init
<1> QED BY <1>1, <1>2 DEF Init, RowsOK

\* The columns of a resolved row belong together, whatever resolvers overlap and
\* whatever is quoted (resolve_due_recommendation_outcomes).
THEOREM RowsWhole == Spec => []RowsNotTorn
<1>1. Init => Shape /\ RowsOK
  BY InitShape, InitRows
<1>2. Shape /\ RowsOK /\ [Next]_vars => (Shape /\ RowsOK)'
  BY ShapeStep, RowsStep
<1>3. Shape /\ RowsOK => RowsNotTorn
  <2> SUFFICES ASSUME Shape, RowsOK, NEW n \in 1 .. Len(snaps), NEW h \in Horizons
               PROVE  RowOK(rows[n][h], snaps[n])
    BY DEF RowOK, RowsNotTorn
  <2>1. Len(snaps) \in Nat /\ n \in 1 .. MaxSnaps /\ n <= Len(snaps)
    BY LenProperties, BoundsAssumption DEF Shape
  <2> QED
    BY <2>1 DEF RowsOK
<1> QED
  BY <1>1, <1>2, <1>3, PTL DEF Spec

-------------------------------------------------------------------------------
\* What is due.  A snapshot is tracked for all its horizons or for none, and its
\* targets lie after its day.

Tracked(n) == \A h \in Horizons : rows[n][h].status # "none"
Ahead ==
  \A n \in 1 .. Len(snaps) :
    /\ Tracked(n) \/ \A h \in Horizons : rows[n][h].status = "none"
    /\ \A h \in Horizons : rows[n][h].status # "none" => rows[n][h].target > snaps[n].day

\* A job repairs what was there untracked when it began, takes on what was due then,
\* and leaves none of it open; the tables are those given.
DueOK(j, sn, rs, day) ==
  LET Numbers == 1 .. Len(sn)
      Past(n) == sn[n].day < j.started
      TrackedIn(n) == \A h \in Horizons : rs[n][h].status # "none"
      OpenPast(n, h) == rs[n][h].status = "open" /\ rs[n][h].target <= j.started
  IN
  /\ j.started <= day
  /\ j.pc = "ensure" => \A n \in Numbers : Past(n) => n \in j.todo \/ TrackedIn(n)
  /\ j.pc \in {"quotes", "resolve", "weights", "tune", "summary"} =>
       \A n \in Numbers : Past(n) => TrackedIn(n)
  /\ j.pc \in {"quotes", "resolve"} =>
       \A n \in Numbers, h \in Horizons : OpenPast(n, h) => <<n, h>> \in j.due
  /\ j.pc \in {"weights", "tune", "summary"} =>
       \A n \in Numbers, h \in Horizons : ~OpenPast(n, h)
  /\ \A n \in Numbers, h \in Horizons : <<n, h>> \in j.due => rs[n][h].status # "none"
  /\ \A id \in j.metrics.open : id \in Numbers \X Horizons
  /\ \A n \in Numbers, h \in Horizons : <<n, h>> \in j.metrics.open =>
       rs[n][h].status # "none" /\ rs[n][h].target > j.started

DueInv == Ahead /\ \A p \in Jobs : DueOK(job[p], snaps, rows, now)

\* What a step does to the rows: an outcome is opened with a target ahead, and once it
\* is, it keeps its target and is opened no more.
RowsMove ==
  /\ Len(snaps) \in Nat /\ Len(snaps') \in Nat /\ Len(snaps) <= Len(snaps') /\ now <= now'
  /\ now \in Nat /\ now' \in Nat
  /\ \A n \in 1 .. Len(snaps') :
       n \in 1 .. Len(snaps) \/ (snaps'[n].day = now /\ \A h \in Horizons :
                                    rows[n][h].status = "none")
  /\ \A n \in 1 .. Len(snaps) : snaps'[n] = snaps[n]
  /\ \A n \in 1 .. Len(snaps') : \A h \in Horizons :
       rows[n][h].status # "none" =>
         /\ rows'[n][h].status # "none" /\ rows'[n][h].target = rows[n][h].target
         /\ rows'[n][h].status = "open" => rows[n][h].status = "open"
  /\ \A n \in 1 .. Len(snaps') :
       (\A h \in Horizons : rows[n][h].status = "none") =>
         \/ \A h \in Horizons : rows'[n][h].status = "none"
         \/ \A h \in Horizons : rows'[n][h].status = "open" /\ rows'[n][h].target > snaps'[n].day

LEMMA AheadStep == ASSUME Ahead, RowsMove PROVE Ahead'
<1> SUFFICES ASSUME NEW n \in 1 .. Len(snaps')
             PROVE  /\ (\A h \in Horizons : rows'[n][h].status # "none")
                         \/ \A h \in Horizons : rows'[n][h].status = "none"
                    /\ \A h \in Horizons : rows'[n][h].status # "none" =>
                         rows'[n][h].target > snaps'[n].day
  BY DEF Ahead, Tracked
<1>1. CASE \A h \in Horizons : rows[n][h].status = "none"
  BY <1>1 DEF RowsMove
<1>2. CASE ~ \A h \in Horizons : rows[n][h].status = "none"
  <2>1. n \in 1 .. Len(snaps) /\ snaps'[n] = snaps[n]
    BY <1>2 DEF RowsMove
  <2>2. \A h \in Horizons : rows[n][h].status # "none" /\ rows[n][h].target > snaps[n].day
    BY <1>2, <2>1 DEF Ahead, Tracked
  <2>3. \A h \in Horizons : rows'[n][h].status # "none" /\ rows'[n][h].target = rows[n][h].target
    BY <2>2 DEF RowsMove
  <2> QED BY <2>1, <2>2, <2>3
<1> QED BY <1>1, <1>2

\* A job that does nothing in the step stays in order.
LEMMA DueStays ==
  ASSUME Ahead, RowsMove, NEW j \in JobRow, DueOK(j, snaps, rows, now), JobOK(j, Len(snaps)),
         \A n \in 1 .. Len(snaps') : \A h \in Horizons :
           rows'[n][h].status # "none" => rows'[n][h].target \in Nat,
         \A n \in 1 .. Len(snaps') : snaps'[n].day \in Nat
  PROVE  DueOK(j, snaps', rows', now')
<1>0. j.started \in Nat /\ j.metrics.open \subseteq Ids /\ j.due \subseteq (1 .. Len(snaps)) \X Horizons
  BY DEF JobRow, Metrics, JobOK
<1>1. 1 .. Len(snaps) \subseteq 1 .. Len(snaps')
  BY DEF RowsMove
<1>2. ASSUME NEW n \in 1 .. Len(snaps'), n \notin 1 .. Len(snaps)
      PROVE  snaps'[n].day >= j.started
  BY <1>0, <1>2 DEF RowsMove, DueOK
<1>3. ASSUME NEW n \in 1 .. Len(snaps'), snaps'[n].day < j.started
      PROVE  n \in 1 .. Len(snaps) /\ snaps'[n] = snaps[n]
  BY <1>0, <1>2, <1>3 DEF RowsMove
<1>4. ASSUME NEW n \in 1 .. Len(snaps), \A h \in Horizons : rows[n][h].status # "none"
      PROVE  \A h \in Horizons : rows'[n][h].status # "none"
  BY <1>1, <1>4 DEF RowsMove
<1>5. ASSUME NEW n \in 1 .. Len(snaps'), NEW h \in Horizons, rows'[n][h].status = "open",
             rows'[n][h].target <= j.started,
             j.pc \in {"quotes", "resolve", "weights", "tune", "summary"}
      PROVE  n \in 1 .. Len(snaps) /\ rows[n][h].status = "open"
             /\ rows[n][h].target = rows'[n][h].target
  <2>1. CASE \A g \in Horizons : rows[n][g].status = "none"
    <3>1. rows'[n][h].target > snaps'[n].day
      BY <1>5, <2>1 DEF RowsMove
    <3>2. snaps'[n].day < j.started
      BY <1>0, <1>5, <3>1
    <3>3. n \in 1 .. Len(snaps) /\ snaps[n].day < j.started
      BY <1>3, <3>2
    <3> QED BY <1>5, <2>1, <3>3 DEF DueOK
  <2>2. CASE rows[n][h].status # "none"
    BY <1>5, <2>2 DEF RowsMove
  <2>3. CASE rows[n][h].status = "none" /\ ~ \A g \in Horizons : rows[n][g].status = "none"
    <3>1. n \in 1 .. Len(snaps)
      BY <2>3 DEF RowsMove
    <3> QED BY <2>3, <3>1 DEF Ahead, Tracked
  <2> QED BY <2>1, <2>2, <2>3
<1>6. \A n \in 1 .. Len(snaps') : snaps'[n].day < j.started => n \in 1 .. Len(snaps) /\ snaps'[n] = snaps[n]
  BY <1>3
<1>7. ASSUME NEW n \in 1 .. Len(snaps'), NEW h \in Horizons, <<n, h>> \in j.due
      PROVE  rows'[n][h].status # "none"
  <2>1. n \in 1 .. Len(snaps)
    BY <1>0, <1>7
  <2> QED BY <1>7, <2>1 DEF DueOK, RowsMove
<1>8. ASSUME NEW n \in 1 .. Len(snaps'), NEW h \in Horizons, <<n, h>> \in j.metrics.open
      PROVE  rows'[n][h].status # "none" /\ rows'[n][h].target > j.started
  <2>1. n \in 1 .. Len(snaps)
    BY <1>8 DEF DueOK
  <2>2. rows[n][h].status # "none" /\ rows[n][h].target > j.started
    BY <1>8, <2>1 DEF DueOK
  <2> QED BY <1>1, <2>1, <2>2 DEF RowsMove
<1>9. j.started <= now'
  BY <1>0 DEF DueOK, RowsMove
<1>10. j.pc = "ensure" => \A n \in 1 .. Len(snaps') : snaps'[n].day < j.started =>
         n \in j.todo \/ \A h \in Horizons : rows'[n][h].status # "none"
  BY <1>4, <1>6 DEF DueOK
<1>11. j.pc \in {"quotes", "resolve", "weights", "tune", "summary"} =>
         \A n \in 1 .. Len(snaps') : snaps'[n].day < j.started =>
           \A h \in Horizons : rows'[n][h].status # "none"
  BY <1>4, <1>6 DEF DueOK
<1>12. j.pc \in {"quotes", "resolve"} =>
         \A n \in 1 .. Len(snaps'), h \in Horizons :
           rows'[n][h].status = "open" /\ rows'[n][h].target <= j.started => <<n, h>> \in j.due
  BY <1>5 DEF DueOK
<1>13. j.pc \in {"weights", "tune", "summary"} =>
         \A n \in 1 .. Len(snaps'), h \in Horizons :
           ~(rows'[n][h].status = "open" /\ rows'[n][h].target <= j.started)
  BY <1>5 DEF DueOK
<1>14. \A id \in j.metrics.open : id \in (1 .. Len(snaps')) \X Horizons
  BY <1>1 DEF DueOK
<1> QED BY <1>7, <1>8, <1>9, <1>10, <1>11, <1>12, <1>13, <1>14 DEF DueOK

\* What the steps do to the rows.
LEMMA TargetsInNat == Targets \subseteq Nat
<1>1. \A d \in Days, h \in Horizons : AddTradingDays(d, h) \in Nat
  BY TradingDaysAhead, HorizonsAssumption, BoundsAssumption DEF Days
<1> QED BY <1>1 DEF Targets

LEMMA StillMoves ==
  ASSUME Shape, UNCHANGED <<snaps, rows>>, now' \in Days, now <= now'
  PROVE  RowsMove
<1>1. Len(snaps) \in Nat /\ now \in Nat /\ now' \in Nat
  BY LenProperties, BoundsAssumption DEF Shape, Days
<1> QED BY <1>1 DEF RowsMove

LEMMA OpenedFields ==
  ASSUME NEW sn \in SnapRow, NEW h \in Horizons
  PROVE  Opened(sn)[h].status = "open" /\ Opened(sn)[h].target > sn.day
<1>1. AddTradingDays(sn.day, h) > sn.day
  BY TradingDaysAhead, HorizonsAssumption, BoundsAssumption DEF SnapRow, Days
<1> DEFINE target == AddTradingDays(sn.day, h)
<1>2. Opened(sn)[h] = [Untracked EXCEPT !.status = "open", !.target = target]
  BY DEF Opened
<1> HIDE DEF target
<1>3. Opened(sn)[h].status = "open" /\ Opened(sn)[h].target = target
  BY <1>2 DEF Untracked
<1> QED BY <1>1, <1>3 DEF target

LEMMA OpeningMoves ==
  ASSUME Shape, RowsOK, NEW k \in 1 .. MaxSnaps, NEW sn \in SnapRow,
         rows' = [rows EXCEPT ![k] = Opened(sn)] \/ rows' = rows, now' = now,
         \A h \in Horizons : rows[k][h].status = "none",
         \/ snaps' = snaps /\ k \in 1 .. Len(snaps) /\ sn = snaps[k]
         \/ snaps' = Append(snaps, sn) /\ k = Len(snaps) + 1 /\ sn.day = now
  PROVE  RowsMove
<1>1. Len(snaps) \in Nat /\ now \in Nat
  BY LenProperties, BoundsAssumption DEF Shape, Days
<1>2. /\ Len(snaps') \in Nat /\ Len(snaps) <= Len(snaps')
      /\ \A n \in 1 .. Len(snaps) : snaps'[n] = snaps[n]
      /\ \A n \in 1 .. Len(snaps') : n \in 1 .. Len(snaps) \/ (n = k /\ snaps'[n].day = now)
      /\ snaps'[k] = sn
  <2>1. CASE snaps' = snaps /\ k \in 1 .. Len(snaps) /\ sn = snaps[k]
    BY <1>1, <2>1
  <2>2. CASE snaps' = Append(snaps, sn) /\ k = Len(snaps) + 1 /\ sn.day = now
    BY <1>1, <2>2, AppendProperties DEF Shape
  <2> QED BY <2>1, <2>2
<1>3. \A h \in Horizons : Opened(sn)[h].status = "open" /\ Opened(sn)[h].target > sn.day
  BY OpenedFields
<1>4. rows \in [1 .. MaxSnaps -> [Horizons -> TypedRow]]
  BY DEF RowsOK
<1>5. \A n \in 1 .. Len(snaps') : n # k => rows'[n] = rows[n]
  <2>1. Len(snaps) <= MaxSnaps
    BY DEF Shape
  <2>2. \A n \in 1 .. Len(snaps') : n # k => n \in 1 .. MaxSnaps
    BY <1>1, <1>2, <2>1, BoundsAssumption
  <2> QED BY <1>4, <2>2
<1>6. rows'[k] = rows[k] \/ rows'[k] = Opened(sn)
  BY <1>4
<1>7. \A n \in 1 .. Len(snaps') : \A h \in Horizons :
       rows[n][h].status # "none" => n # k
  OBVIOUS
<1>8. \A n \in 1 .. Len(snaps') :
       (\A h \in Horizons : rows[n][h].status = "none") =>
         \/ \A h \in Horizons : rows'[n][h].status = "none"
         \/ \A h \in Horizons : rows'[n][h].status = "open" /\ rows'[n][h].target > snaps'[n].day
  BY <1>2, <1>3, <1>5, <1>6
<1> QED BY <1>1, <1>2, <1>5, <1>7, <1>8 DEF RowsMove

LEMMA WrittenFields ==
  ASSUME NEW r \in TypedRow, NEW sn, NEW q, NEW day
  PROVE  Written(r, Result(sn, r, q, day)).status = "resolved"
         /\ Written(r, Result(sn, r, q, day)).target = r.target
<1> DEFINE new == Result(sn, r, q, day)
<1>1. /\ {"status", "target", "baseline"} \subseteq DOMAIN new
      /\ new.status = "resolved" /\ new.target = r.target
  BY DEF Result, TypedRow
<1> HIDE DEF new
<1>2. /\ [new EXCEPT !.baseline = r.baseline].status = "resolved"
      /\ [new EXCEPT !.baseline = r.baseline].target = r.target
  BY <1>1
<1> QED BY <1>1, <1>2 DEF Written, new

LEMMA ResolvingMoves ==
  ASSUME Shape, RowsOK, DueInv, NEW p \in Jobs, Resolve(p)
  PROVE  /\ RowsMove
         /\ \A n \in 1 .. Len(snaps), h \in Horizons :
              <<n, h>> \in job[p].due => rows'[n][h].status = "resolved"
<1> DEFINE new(n, h) == Written(rows[n][h], Result(snaps[n], rows[n][h], job[p].quote, job[p].at))
<1>1. /\ rows' = [n \in 1 .. MaxSnaps |-> [h \in Horizons |->
                     IF <<n, h>> \in job[p].due THEN new(n, h) ELSE rows[n][h]]]
      /\ UNCHANGED <<snaps, now>>
  BY DEF Resolve
<1>2. Len(snaps) \in Nat /\ now \in Nat /\ 1 .. Len(snaps) \subseteq 1 .. MaxSnaps
  BY LenProperties, BoundsAssumption DEF Shape, Days
<1>3. ASSUME NEW n \in 1 .. Len(snaps), NEW h \in Horizons
      PROVE  new(n, h).status = "resolved" /\ new(n, h).target = rows[n][h].target
  BY <1>2, WrittenFields DEF RowsOK
<1> HIDE DEF new
<1>4. ASSUME NEW n \in 1 .. Len(snaps), NEW h \in Horizons, <<n, h>> \in job[p].due
      PROVE  /\ rows'[n][h].status = "resolved" /\ rows'[n][h].target = rows[n][h].target
             /\ rows[n][h].status # "none"
  <2>1. rows[n][h].status # "none"
    BY <1>4 DEF DueInv, DueOK
  <2> QED BY <1>1, <1>2, <1>3, <1>4, <2>1
<1>5. ASSUME NEW n \in 1 .. Len(snaps), NEW h \in Horizons, <<n, h>> \notin job[p].due
      PROVE  rows'[n][h] = rows[n][h]
  BY <1>1, <1>2, <1>5
<1>6. \A n \in 1 .. Len(snaps) : \A h \in Horizons :
       rows[n][h].status # "none" =>
         /\ rows'[n][h].status # "none" /\ rows'[n][h].target = rows[n][h].target
         /\ rows'[n][h].status = "open" => rows[n][h].status = "open"
  BY <1>4, <1>5
<1>7. \A n \in 1 .. Len(snaps) :
       (\A h \in Horizons : rows[n][h].status = "none") =>
         \A h \in Horizons : rows'[n][h].status = "none"
  BY <1>4, <1>5
<1>8. RowsMove
  <2>1. snaps' = snaps /\ now' = now /\ now <= now
    BY <1>1, <1>2
  <2> QED BY <1>2, <1>6, <1>7, <2>1 DEF RowsMove
<1> QED BY <1>4, <1>8

\* A job that ends, or goes on with nothing in hand.
LEMMA RestDue ==
  ASSUME NEW j, NEW sn, NEW rs, NEW day \in Nat, j.pc \in {"idle", "archive"},
         j.started = 0, j.due = {}, j.metrics = NoMetrics
  PROVE  DueOK(j, sn, rs, day)
BY DEF DueOK, NoMetrics

\* A job that goes on with what it has.
LEMMA GoOnDue ==
  ASSUME NEW j, NEW k, NEW sn, NEW rs, NEW day, DueOK(j, sn, rs, day),
         k.started = j.started, k.due = j.due, k.metrics = j.metrics,
         \/ k.pc \notin {"ensure", "quotes", "resolve", "weights", "tune", "summary"}
         \/ j.pc = "quotes" /\ k.pc = "resolve"
         \/ j.pc \in {"weights", "tune"} /\ k.pc \in {"tune", "summary"}
  PROVE  DueOK(k, sn, rs, day)
<1>1. CASE k.pc \notin {"ensure", "quotes", "resolve", "weights", "tune", "summary"}
  BY <1>1 DEF DueOK
<1>2. CASE j.pc = "quotes" /\ k.pc = "resolve"
  BY <1>2 DEF DueOK
<1>3. CASE j.pc \in {"weights", "tune"} /\ k.pc \in {"tune", "summary"}
  BY <1>3 DEF DueOK
<1> QED BY <1>1, <1>2, <1>3

LEMMA StartDue ==
  ASSUME NEW k, NEW sn, NEW rs, NEW day \in Nat, k.started = day, k.pc = "ensure",
         k.todo = 1 .. Len(sn), k.due = {}, k.metrics = NoMetrics
  PROVE  DueOK(k, sn, rs, day)
BY DEF DueOK, NoMetrics

LEMMA RepairDue ==
  ASSUME NEW j, NEW k, NEW sn, NEW rs, NEW day, DueOK(j, sn, rs, day), NEW m,
         j.pc = "ensure", k.pc = "ensure", k.todo = j.todo \ {m},
         \A h \in Horizons : rs[m][h].status # "none",
         k.started = j.started, k.due = j.due, k.metrics = j.metrics
  PROVE  DueOK(k, sn, rs, day)
BY DEF DueOK

\* A job that has repaired all and takes on what is due today.
LEMMA LoadedDue ==
  ASSUME Shape, RowsOK, DueInv, NEW p \in Jobs, At(p, "ensure"), Missing(p) = {}, NEW k,
         k.pc = IF Due(now) = {} THEN "weights" ELSE "quotes", k.due = Due(now),
         k.started = job[p].started, k.metrics = job[p].metrics
  PROVE  DueOK(k, snaps, rows, now)
<1> DEFINE j == job[p]
<1>1. DueOK(j, snaps, rows, now) /\ j.pc = "ensure" /\ j.started \in Nat /\ now \in Nat
  BY BoundsAssumption DEF DueInv, At, Shape, JobRow, Days
<1>2. ASSUME NEW n \in 1 .. Len(snaps), snaps[n].day < j.started
      PROVE  \A h \in Horizons : rows[n][h].status # "none"
  <2>1. CASE n \in j.todo
    <3>1. ~ \A h \in Horizons : rows[n][h].status = "none"
      BY <2>1 DEF Missing
    <3> QED BY <3>1 DEF DueInv, Ahead, Tracked
  <2>2. CASE n \notin j.todo
    BY <1>1, <1>2, <2>2 DEF DueOK
  <2> QED BY <2>1, <2>2
<1>3. \A n \in 1 .. Len(snaps), h \in Horizons :
        <<n, h>> \in Due(now) <=> rows[n][h].status = "open" /\ rows[n][h].target <= now
  BY DEF Due, All, Row
<1>4. \A n \in 1 .. Len(snaps), h \in Horizons :
        rows[n][h].status = "open" /\ rows[n][h].target <= j.started => <<n, h>> \in Due(now)
  <2> SUFFICES ASSUME NEW n \in 1 .. Len(snaps), NEW h \in Horizons,
                      rows[n][h].status = "open", rows[n][h].target <= j.started
               PROVE  rows[n][h].target <= now
    BY <1>3
  <2>1. rows[n][h].target \in Int
    <3>1. n \in 1 .. MaxSnaps
      BY LenProperties, BoundsAssumption DEF Shape
    <3>2. rows[n][h] \in TypedRow
      BY <3>1 DEF RowsOK
    <3>3. rows[n][h].target \in Targets
      BY <3>2 DEF TypedRow
    <3>4. rows[n][h].target \in Nat
      BY <3>3, TargetsInNat, Zenon
    <3> QED BY <3>4
  <2>2. j.started <= now
    BY <1>1 DEF DueOK
  <2> QED BY <1>1, <2>1, <2>2
<1> QED BY <1>1, <1>2, <1>3, <1>4 DEF DueOK

\* Every step moves the rows so.
LEMMA AllMove ==
  ASSUME Shape, RowsOK, DueInv, [Next]_vars
  PROVE  RowsMove
<1>n. Len(snaps) \in Nat /\ Len(snaps) <= MaxSnaps /\ \A n \in 1 .. Len(snaps) : snaps[n] \in SnapRow
  BY LenProperties, ElementOfSeq DEF Shape
<1>1. CASE UNCHANGED <<snaps, rows, now>>
  BY <1>1, StillMoves, BoundsAssumption DEF Shape, Days
<1>2. CASE Tick
  BY <1>2, StillMoves, BoundsAssumption DEF Tick, Shape, Days
<1>3. CASE Publish
  <2> DEFINE k == Len(snaps) + 1
             row(c, ref) == [action |-> c.action, bias |-> c.bias, ref |-> ref, day |-> now]
  <2>1. PICK c \in Calls, ref \in RefPrices, dies \in BOOLEAN :
          /\ snaps' = Append(snaps, row(c, ref))
          /\ rows' = IF dies THEN rows ELSE [rows EXCEPT ![k] = Opened(row(c, ref))]
    BY <1>3 DEF Publish
  <2> DEFINE sn == row(c, ref)
  <2>2. sn \in SnapRow /\ sn.day = now
    BY CallsAssumption, PricesAssumption DEF SnapRow, Shape
  <2>3. snaps' = Append(snaps, sn) /\ (rows' = [rows EXCEPT ![k] = Opened(sn)] \/ rows' = rows)
    BY <2>1
  <2> HIDE DEF sn, row
  <2>4. k \in 1 .. MaxSnaps /\ now' = now
    BY <1>3, <1>n, BoundsAssumption DEF Publish
  <2>5. \A h \in Horizons : rows[k][h].status = "none"
    BY <1>n, <2>4 DEF RowsOK, Untracked
  <2> QED BY <2>2, <2>3, <2>4, <2>5, OpeningMoves
<1>4. ASSUME NEW p \in Jobs, EnsureOutcomes(p) PROVE RowsMove
  <2>1. PICK k \in Missing(p) : rows' = [rows EXCEPT ![k] = Opened(snaps[k])]
    BY <1>4 DEF EnsureOutcomes
  <2>2. k \in 1 .. Len(snaps) /\ snaps' = snaps /\ now' = now
        /\ \A h \in Horizons : rows[k][h].status = "none"
    BY <1>4, <2>1 DEF EnsureOutcomes, Missing, Shape, JobOK
  <2>3. k \in 1 .. MaxSnaps /\ snaps[k] \in SnapRow
    BY <1>n, <2>2, BoundsAssumption
  <2> QED BY <2>1, <2>2, <2>3, OpeningMoves
<1>5. ASSUME NEW p \in Jobs, Start(p) \/ Step(p) \/ Crash(p) PROVE RowsMove
  <2>1. UNCHANGED <<snaps, rows, now>> \/ EnsureOutcomes(p) \/ Resolve(p)
    BY <1>5 DEF Start, Crash, Step, Report, Archive, LoadDue, FetchQuotes, OpenWeights, FillWeights,
                Summarise, FindReport, WriteReport, OpenRun, FillRun, OpenLatest, FillLatest,
                WriteCsv
  <2> QED BY <1>1, <1>4, <2>1, ResolvingMoves
<1> QED BY <1>1, <1>2, <1>3, <1>5 DEF Next, vars

\* The entry of a job after its own step, from what DueStays says of the one before.
LEMMA OwnStep ==
  ASSUME Shape, RowsOK, DueInv, Shape', RowsOK', NEW p \in Jobs,
         Start(p) \/ Step(p) \/ Crash(p), DueOK(job[p], snaps', rows', now')
  PROVE  DueOK(job'[p], snaps', rows', now')
<1> DEFINE j == job[p]
<1>j. j \in JobRow /\ JobOK(j, Len(snaps)) /\ now \in Nat /\ now' = now /\ snaps' = snaps
  <2>1. j \in JobRow /\ JobOK(j, Len(snaps)) /\ now \in Nat
    BY BoundsAssumption DEF Shape, Days
  <2>2. now' = now /\ snaps' = snaps
    BY DEF Start, Crash, Step, Report, Archive, EnsureOutcomes, LoadDue, FetchQuotes, Resolve,
           OpenWeights, FillWeights, Summarise, FindReport, WriteReport, OpenRun, FillRun,
           OpenLatest, FillLatest, WriteCsv
  <2> QED BY <2>1, <2>2
<1>s. ASSUME NEW k, Set(p, k) PROVE job'[p] = k
  BY <1>s DEF Set, Shape
<1>i. Idle.pc = "idle" /\ Idle.started = 0 /\ Idle.due = {} /\ Idle.metrics = NoMetrics
  BY DEF Idle
<1>0. CASE End(p)
  BY <1>0, <1>i, <1>j, <1>s, RestDue DEF End
\* A step that changes neither what was due nor the counts.
<1>1. ASSUME NEW l, Set(p, [j EXCEPT !.pc = l]),
             \/ l \notin {"ensure", "quotes", "resolve", "weights", "tune", "summary"}
             \/ j.pc \in {"weights", "tune"} /\ l \in {"tune", "summary"}
      PROVE  DueOK(job'[p], snaps', rows', now')
  <2> DEFINE k == [j EXCEPT !.pc = l]
  <2>1. k.pc = l /\ k.started = j.started /\ k.due = j.due /\ k.metrics = j.metrics
    BY <1>j DEF JobRow
  <2>2. job'[p] = k
    BY <1>1, <1>s
  <2> HIDE DEF k
  <2> QED BY <1>1, <2>1, <2>2, GoOnDue
<1>2. CASE Start(p)
  <2> DEFINE k == [Idle EXCEPT !.pc = "ensure", !.started = now, !.todo = 1 .. Len(snaps)]
  <2>1. /\ k.started = now /\ k.pc = "ensure" /\ k.todo = 1 .. Len(snaps) /\ k.due = {}
        /\ k.metrics = NoMetrics
    BY DEF Idle
  <2>2. job'[p] = k
    BY <1>2, <1>s DEF Start
  <2> HIDE DEF k
  <2> QED BY <1>j, <2>1, <2>2, StartDue
<1>3. CASE EnsureOutcomes(p)
  <2>1. PICK m \in Missing(p) : /\ rows' = [rows EXCEPT ![m] = Opened(snaps[m])]
                                /\ Set(p, [j EXCEPT !.todo = @ \ {m}])
    BY <1>3 DEF EnsureOutcomes
  <2> DEFINE k == [j EXCEPT !.todo = j.todo \ {m}]
  <2>2. /\ k.pc = j.pc /\ k.todo = j.todo \ {m}
        /\ k.started = j.started /\ k.due = j.due /\ k.metrics = j.metrics
    BY <1>j DEF JobRow
  <2>3. job'[p] = k /\ j.pc = "ensure"
    BY <1>3, <1>s, <2>1 DEF EnsureOutcomes, At
  <2> HIDE DEF k
  <2>4. m \in 1 .. MaxSnaps /\ snaps[m] \in SnapRow
    <3>1. m \in 1 .. Len(snaps)
      BY <1>j, <2>1 DEF Missing, JobOK
    <3> QED BY <3>1, LenProperties, ElementOfSeq, BoundsAssumption DEF Shape
  <2>5. \A h \in Horizons : rows'[m][h].status # "none"
    BY <2>1, <2>4, OpenedFields DEF RowsOK
  <2> QED BY <2>2, <2>3, <2>5, RepairDue
<1>4. CASE LoadDue(p)
  <2> DEFINE k == [j EXCEPT !.pc = IF Due(now) = {} THEN "weights" ELSE "quotes",
                            !.todo = {}, !.due = Due(now), !.at = IF Due(now) = {} THEN 0 ELSE now]
  <2>1. /\ k.pc = IF Due(now) = {} THEN "weights" ELSE "quotes"
        /\ k.due = Due(now) /\ k.started = j.started /\ k.metrics = j.metrics
    BY <1>j DEF JobRow
  <2>2. job'[p] = k
    BY <1>4, <1>s DEF LoadDue
  <2> HIDE DEF k
  <2>3. At(p, "ensure") /\ Missing(p) = {} /\ rows' = rows
    BY <1>4 DEF LoadDue
  <2> QED BY <1>j, <2>1, <2>2, <2>3, LoadedDue
<1>5. CASE FetchQuotes(p)
  <2>1. PICK q \in Quotes : Set(p, [j EXCEPT !.pc = "resolve", !.quote = q])
    BY <1>5 DEF FetchQuotes
  <2> DEFINE k == [j EXCEPT !.pc = "resolve", !.quote = q]
  <2>2. k.pc = "resolve" /\ k.started = j.started /\ k.due = j.due /\ k.metrics = j.metrics
    BY <1>j DEF JobRow
  <2>3. job'[p] = k /\ j.pc = "quotes"
    BY <1>5, <1>s, <2>1 DEF FetchQuotes, At
  <2> HIDE DEF k
  <2> QED BY <2>2, <2>3, GoOnDue
<1>6. CASE Resolve(p)
  <2> DEFINE k == [j EXCEPT !.pc = "weights", !.due = {}, !.quote = Idle.quote, !.at = 0]
  <2>1. k.pc = "weights" /\ k.started = j.started /\ k.due = {} /\ k.metrics = j.metrics
    BY <1>j DEF JobRow
  <2>2. job'[p] = k /\ j.pc = "resolve"
    BY <1>6, <1>s DEF Resolve, At
  <2> HIDE DEF k
  <2>3. \A n \in 1 .. Len(snaps), h \in Horizons :
          <<n, h>> \in j.due => rows'[n][h].status = "resolved"
    BY <1>6, ResolvingMoves
  <2>4. \A n \in 1 .. Len(snaps), h \in Horizons :
          ~(rows'[n][h].status = "open" /\ rows'[n][h].target <= j.started)
    BY <1>j, <2>2, <2>3 DEF DueOK
  <2> QED BY <1>j, <2>1, <2>2, <2>4 DEF DueOK
<1>7. CASE OpenWeights(p)
  BY <1>1, <1>7 DEF OpenWeights, At
<1>8. CASE FillWeights(p)
  BY <1>1, <1>8 DEF FillWeights, At
<1>9. CASE Summarise(p)
  <2> DEFINE k == [j EXCEPT !.pc = "find", !.metrics = Counted, !.date = now]
  <2>1. k.pc = "find" /\ k.started = j.started /\ k.due = j.due /\ k.metrics = Counted
    BY <1>j DEF JobRow
  <2>2. CASE Set(p, k)
    <3>1. job'[p] = k /\ j.pc = "summary" /\ rows' = rows
      BY <1>9, <1>s, <2>2 DEF Summarise, At
    <3> HIDE DEF k
    <3>2. Counted.open = {id \in All : Row(id).status = "open"}
      BY DEF Counted
    <3>3. \A id \in Counted.open : id \in (1 .. Len(snaps)) \X Horizons
      BY <3>2 DEF All
    <3>4. ASSUME NEW n \in 1 .. Len(snaps), NEW h \in Horizons, <<n, h>> \in Counted.open
          PROVE  rows[n][h].status # "none" /\ rows[n][h].target > j.started
      <4>1. rows[n][h].status = "open"
        BY <3>2, <3>4 DEF Row
      <4>2. ~(rows[n][h].target <= j.started)
        BY <1>j, <3>1, <4>1 DEF DueOK
      <4>3. rows[n][h].target \in Nat /\ j.started \in Nat
        <5>1. n \in 1 .. MaxSnaps
          BY LenProperties, BoundsAssumption DEF Shape
        <5>2. rows[n][h] \in TypedRow
          BY <5>1 DEF RowsOK
        <5>3. j.started \in Nat
          BY <1>j DEF JobRow
        <5> QED BY <5>2, <5>3, TargetsInNat DEF TypedRow
      <4> QED BY <4>1, <4>2, <4>3
    <3> QED BY <1>j, <2>1, <3>1, <3>3, <3>4 DEF DueOK
  <2> QED BY <1>0, <1>9, <2>2 DEF Summarise
<1>10. CASE FindReport(p)
  <2> DEFINE k == [j EXCEPT !.pc = "report", !.old = reports[j.date]]
  <2>1. k.pc = "report" /\ k.started = j.started /\ k.due = j.due /\ k.metrics = j.metrics
    BY <1>j DEF JobRow
  <2>2. job'[p] = k
    BY <1>10, <1>s DEF FindReport
  <2> HIDE DEF k
  <2> QED BY <2>1, <2>2, GoOnDue
<1>11. CASE WriteReport(p)
  <2> DEFINE k == [Idle EXCEPT !.pc = "archive"]
  <2>1. k.pc = "archive" /\ k.started = 0 /\ k.due = {} /\ k.metrics = NoMetrics
    BY DEF Idle
  <2>2. CASE Set(p, k)
    <3>1. job'[p] = k
      BY <1>s, <2>2
    <3> HIDE DEF k
    <3> QED BY <1>j, <2>1, <3>1, RestDue
  <2> QED BY <1>0, <1>11, <2>2 DEF WriteReport
<1>12. CASE OpenRun(p)
  <2> DEFINE k == [j EXCEPT !.pc = "run", !.run = Len(runs) + 1]
  <2>1. k.pc = "run" /\ k.started = j.started /\ k.due = j.due /\ k.metrics = j.metrics
    BY <1>j DEF JobRow
  <2>2. CASE Set(p, k)
    <3>1. job'[p] = k
      BY <1>s, <2>2
    <3> HIDE DEF k
    <3> QED BY <2>1, <3>1, GoOnDue
  <2> QED BY <1>0, <1>12, <2>2 DEF OpenRun
<1>13. CASE FillRun(p) \/ OpenLatest(p) \/ FillLatest(p)
  BY <1>1, <1>13 DEF FillRun, OpenLatest, FillLatest
<1> QED BY <1>0, <1>2, <1>3, <1>4, <1>5, <1>6, <1>7, <1>8, <1>9, <1>10, <1>11, <1>12, <1>13
        DEF Step, Report, Archive, WriteCsv, Crash

LEMMA DueStep ==
  ASSUME Shape, RowsOK, DueInv, [Next]_vars
  PROVE  DueInv'
<1>1. Shape' /\ RowsOK' /\ RowsMove
  BY ShapeStep, RowsStep, AllMove
<1>2. Ahead'
  BY <1>1, AheadStep DEF DueInv
<1>3. /\ \A n \in 1 .. Len(snaps') : snaps'[n].day \in Nat
      /\ \A n \in 1 .. Len(snaps') : \A h \in Horizons : rows'[n][h].target \in Nat
  <2>1. Len(snaps') \in Nat /\ Len(snaps') <= MaxSnaps
        /\ \A n \in 1 .. Len(snaps') : snaps'[n] \in SnapRow
    BY <1>1, LenProperties, ElementOfSeq DEF Shape
  <2>2. \A d \in Days : d \in Nat
    BY BoundsAssumption DEF Days
  <2>3. \A n \in 1 .. Len(snaps') : snaps'[n].day \in Nat
    BY <2>1, <2>2 DEF SnapRow
  <2>4. ASSUME NEW n \in 1 .. Len(snaps'), NEW h \in Horizons PROVE rows'[n][h].target \in Nat
    <3>1. n \in 1 .. MaxSnaps
      BY <2>1, BoundsAssumption
    <3>2. rows'[n][h] \in TypedRow
      BY <1>1, <3>1 DEF RowsOK
    <3> QED BY <3>2, TargetsInNat DEF TypedRow
  <2> QED BY <2>3, <2>4
<1>4. ASSUME NEW p \in Jobs PROVE DueOK(job[p], snaps', rows', now')
  BY <1>1, <1>3, DueStays DEF DueInv, Shape
<1>5. ASSUME NEW p \in Jobs, Start(p) \/ Step(p) \/ Crash(p) PROVE DueInv'
  <2>1. \A q \in Jobs \ {p} : job'[q] = job[q]
    BY <1>5 DEF Shape, Set, End, Start, Crash, Step, Report, Archive, EnsureOutcomes, LoadDue,
       FetchQuotes, Resolve, OpenWeights, FillWeights, Summarise, FindReport, WriteReport, OpenRun,
       FillRun, OpenLatest, FillLatest, WriteCsv
  <2>2. DueOK(job'[p], snaps', rows', now')
    BY <1>1, <1>4, <1>5, OwnStep
  <2>3. \A q \in Jobs : DueOK(job'[q], snaps', rows', now')
    BY <1>4, <2>1, <2>2
  <2> QED BY <1>2, <2>3 DEF DueInv
<1>6. CASE Tick \/ Publish \/ UNCHANGED vars
  <2>1. job' = job
    BY <1>6 DEF Tick, Publish, vars
  <2>2. \A q \in Jobs : DueOK(job'[q], snaps', rows', now')
    BY <1>4, <2>1
  <2> QED BY <1>2, <2>2 DEF DueInv
<1> QED BY <1>5, <1>6 DEF Next

LEMMA InitDue == Init => DueInv
<1> SUFFICES ASSUME Init PROVE DueInv
  OBVIOUS
<1>1. Len(snaps) = 0 /\ now \in Nat /\ \A n \in 1 .. Len(snaps) : FALSE
  BY BoundsAssumption DEF Init
<1>2. \A p \in Jobs : DueOK(job[p], snaps, rows, now)
  BY <1>1, RestDue DEF Init, Idle
<1> QED BY <1>1, <1>2 DEF DueInv, Ahead

\* No report shows as open what was due when its job began, whatever jobs overlap,
\* publish or die (refresh_validation_report).
THEOREM NoneLeftOpen == Spec => []NoDueLeftOpen
<1>1. Init => Shape /\ RowsOK /\ DueInv
  BY InitShape, InitRows, InitDue
<1>2. Shape /\ RowsOK /\ DueInv /\ [Next]_vars => (Shape /\ RowsOK /\ DueInv)'
  BY ShapeStep, RowsStep, DueStep
<1>3. Shape /\ RowsOK /\ DueInv => NoDueLeftOpen
  <2> SUFFICES ASSUME DueInv, NEW p \in Jobs, NEW id \in job[p].metrics.open
               PROVE  Row(id).target > job[p].started
    BY DEF NoDueLeftOpen
  <2>1. DueOK(job[p], snaps, rows, now)
    BY DEF DueInv
  <2>2. id \in (1 .. Len(snaps)) \X Horizons
    BY <2>1 DEF DueOK
  <2>3. PICK n \in 1 .. Len(snaps), h \in Horizons : id = <<n, h>>
    BY <2>2
  <2> QED BY <2>1, <2>3 DEF DueOK, Row
<1> QED BY <1>1, <1>2, <1>3, PTL DEF Spec

-------------------------------------------------------------------------------
\* When an outcome is resolved.  A tracked row's target is the day its horizon's trading
\* days have passed, and who takes it on as due has a day no earlier.

Timely ==
  /\ \A n \in 1 .. Len(snaps), h \in Horizons :
       /\ rows[n][h].status # "none" => rows[n][h].target = AddTradingDays(snaps[n].day, h)
       /\ rows[n][h].status = "resolved" => rows[n][h].target <= rows[n][h].at
  /\ \A p \in Jobs, n \in 1 .. Len(snaps), h \in Horizons :
       <<n, h>> \in job[p].due => rows[n][h].target <= job[p].at

\* A row is as it was, or just opened, or resolved by a job that had it due.
LEMMA RowsTold ==
  ASSUME Shape, RowsOK, DueInv, [Next]_vars, NEW n \in 1 .. Len(snaps'), NEW h \in Horizons
  PROVE  \/ rows'[n][h].status = "none"
         \/ n \in 1 .. Len(snaps) /\ rows'[n][h] = rows[n][h]
         \/ rows'[n][h] = Opened(snaps'[n])[h]
         \/ n \in 1 .. Len(snaps) /\ \E p \in Jobs : /\ <<n, h>> \in job[p].due
                                                    /\ rows'[n][h].target = rows[n][h].target
                                                    /\ rows'[n][h].at = job[p].at
<1>n. /\ Len(snaps) \in Nat /\ Len(snaps) <= MaxSnaps
      /\ 1 .. Len(snaps) \subseteq 1 .. MaxSnaps
      /\ \A k \in 1 .. Len(snaps) : snaps[k] \in SnapRow
  BY LenProperties, ElementOfSeq, BoundsAssumption DEF Shape
<1>r. rows \in [1 .. MaxSnaps -> [Horizons -> TypedRow]]
  BY DEF RowsOK
<1>1. CASE UNCHANGED <<snaps, rows>>
  BY <1>1
<1>2. CASE Publish
  <2> DEFINE row(c, ref) == [action |-> c.action, bias |-> c.bias, ref |-> ref, day |-> now]
  <2>1. PICK c \in Calls, ref \in RefPrices, dies \in BOOLEAN :
          /\ snaps' = Append(snaps, row(c, ref))
          /\ rows' = IF dies THEN rows ELSE [rows EXCEPT ![Len(snaps) + 1] = Opened(row(c, ref))]
    BY <1>2 DEF Publish
  <2> DEFINE sn == row(c, ref)
  <2>2. sn \in SnapRow
    BY CallsAssumption, PricesAssumption DEF SnapRow, Shape
  <2>3. /\ snaps' = Append(snaps, sn)
        /\ rows' = [rows EXCEPT ![Len(snaps) + 1] = Opened(sn)] \/ rows' = rows
    BY <2>1
  <2> HIDE DEF sn, row
  <2>4. Len(snaps) + 1 \in 1 .. MaxSnaps /\ \A k \in 1 .. Len(snaps') : k \in 1 .. MaxSnaps
    BY <1>2, <1>n, <2>2, <2>3, AppendProperties, BoundsAssumption DEF Publish, Shape
  <2>5. CASE n \in 1 .. Len(snaps)
    <3>1. n \in 1 .. MaxSnaps /\ n # Len(snaps) + 1
      BY <1>n, <2>5
    <3>2. rows'[n] = rows[n]
      BY <1>r, <2>3, <3>1
    <3> QED BY <2>5, <3>2
  <2>6. CASE n = Len(snaps) + 1
    <3>1. snaps'[n] = sn /\ rows[n][h].status = "none"
      BY <1>n, <2>2, <2>3, <2>4, <2>6, AppendProperties DEF Shape, RowsOK, Untracked
    <3> QED BY <1>r, <2>3, <2>4, <2>6, <3>1
  <2>7. n \in 1 .. Len(snaps) \/ n = Len(snaps) + 1
    BY <1>n, <2>2, <2>3, AppendProperties DEF Shape
  <2> QED BY <2>5, <2>6, <2>7
<1>3. ASSUME NEW p \in Jobs, EnsureOutcomes(p)
      PROVE  \/ n \in 1 .. Len(snaps) /\ rows'[n][h] = rows[n][h]
             \/ rows'[n][h] = Opened(snaps'[n])[h]
  <2>1. PICK k \in Missing(p) : rows' = [rows EXCEPT ![k] = Opened(snaps[k])]
    BY <1>3 DEF EnsureOutcomes
  <2>2. snaps' = snaps
    BY <1>3 DEF EnsureOutcomes
  <2> QED BY <1>n, <1>r, <2>1, <2>2
<1>4. ASSUME NEW p \in Jobs, Resolve(p)
      PROVE  n \in 1 .. Len(snaps) /\ (rows'[n][h] = rows[n][h] \/
               (/\ <<n, h>> \in job[p].due
                /\ rows'[n][h].target = rows[n][h].target
                /\ rows'[n][h].at = job[p].at))
  <2> DEFINE new == Result(snaps[n], rows[n][h], job[p].quote, job[p].at)
             written == Written(rows[n][h], new)
  <2>1. snaps' = snaps /\ n \in 1 .. MaxSnaps
    BY <1>4, <1>n DEF Resolve
  <2>2. rows'[n][h] = IF <<n, h>> \in job[p].due THEN written ELSE rows[n][h]
    BY <1>4, <2>1 DEF Resolve
  <2>3. rows[n][h] \in TypedRow
    BY <1>r, <2>1
  <2>4. written.target = rows[n][h].target
    BY <2>3, WrittenFields
  <2>5. {"at", "baseline"} \subseteq DOMAIN new /\ new.at = job[p].at
    BY <2>3 DEF Result, TypedRow
  <2> HIDE DEF new
  <2>6. written.at = job[p].at
    <3>1. [new EXCEPT !.baseline = rows[n][h].baseline].at = job[p].at
      BY <2>5
    <3> QED BY <2>5, <3>1 DEF Written
  <2> HIDE DEF written
  <2> QED BY <2>1, <2>2, <2>4, <2>6
<1>5. ASSUME NEW p \in Jobs, Start(p) \/ Step(p) \/ Crash(p)
      PROVE  UNCHANGED <<snaps, rows>> \/ EnsureOutcomes(p) \/ Resolve(p)
  BY <1>5 DEF Start, Crash, Step, Report, Archive, LoadDue, FetchQuotes, OpenWeights, FillWeights,
              Summarise, FindReport, WriteReport, OpenRun, FillRun, OpenLatest, FillLatest,
              WriteCsv
<1>6. Tick \/ UNCHANGED vars => UNCHANGED <<snaps, rows>>
  BY DEF Tick, vars
<1> QED BY <1>1, <1>2, <1>3, <1>4, <1>5, <1>6 DEF Next

\* What a job has due, and the day it has for it, is what it had, or nothing, or what is
\* due today.
LEMMA DueTaken ==
  ASSUME Shape, [Next]_vars, NEW p \in Jobs
  PROVE  \/ job'[p].due = job[p].due /\ job'[p].at = job[p].at
         \/ job'[p].due = {}
         \/ job'[p].due = Due(now) /\ job'[p].at = now /\ UNCHANGED <<snaps, rows>>
<1>j. job[p] \in JobRow /\ Idle.due = {}
  BY DEF Shape, Idle
<1>1. CASE job'[p] = job[p]
  BY <1>1
<1>2. ASSUME NEW q \in Jobs, Start(q) \/ Step(q) \/ Crash(q), q # p
      PROVE  job'[p] = job[p]
  BY <1>2 DEF Shape, Set, End, Start, Crash, Step, Report, Archive, EnsureOutcomes, LoadDue,
     FetchQuotes, Resolve, OpenWeights, FillWeights, Summarise, FindReport, WriteReport, OpenRun,
     FillRun, OpenLatest, FillLatest, WriteCsv
<1>s. \A k : Set(p, k) => job'[p] = k
  BY DEF Set, Shape
<1>3. CASE LoadDue(p)
  <2> DEFINE k == [job[p] EXCEPT !.pc = IF Due(now) = {} THEN "weights" ELSE "quotes",
                            !.todo = {}, !.due = Due(now), !.at = IF Due(now) = {} THEN 0 ELSE now]
  <2>1. k.due = Due(now) /\ k.at = IF Due(now) = {} THEN 0 ELSE now
    BY <1>j DEF JobRow
  <2>2. job'[p] = k /\ UNCHANGED <<snaps, rows>>
    BY <1>3, <1>s DEF LoadDue
  <2> HIDE DEF k
  <2> QED BY <2>1, <2>2
<1>4. CASE End(p)
  BY <1>4, <1>j, <1>s DEF End
<1>5. CASE Start(p)
  <2>1. [Idle EXCEPT !.pc = "ensure", !.started = now, !.todo = 1 .. Len(snaps)].due = {}
    BY DEF Idle
  <2> QED BY <1>5, <1>s, <2>1 DEF Start
<1>6. CASE EnsureOutcomes(p)
  <2>1. PICK n : Set(p, [job[p] EXCEPT !.todo = @ \ {n}])
    BY <1>6 DEF EnsureOutcomes
  <2> QED BY <1>j, <1>s, <2>1 DEF JobRow
<1>7. CASE FetchQuotes(p)
  <2>1. PICK x : Set(p, [job[p] EXCEPT !.pc = "resolve", !.quote = x])
    BY <1>7 DEF FetchQuotes
  <2> QED BY <1>j, <1>s, <2>1 DEF JobRow
<1>8. CASE Resolve(p)
  <2>1. Set(p, [job[p] EXCEPT !.pc = "weights", !.due = {}, !.quote = Idle.quote, !.at = 0])
    BY <1>8 DEF Resolve
  <2> QED BY <1>j, <1>s, <2>1 DEF JobRow
<1>9. CASE OpenWeights(p) \/ FillWeights(p) \/ FillRun(p) \/ OpenLatest(p) \/ FillLatest(p)
  <2>1. PICK l : Set(p, [job[p] EXCEPT !.pc = l])
    BY <1>9 DEF OpenWeights, FillWeights, FillRun, OpenLatest, FillLatest
  <2> QED BY <1>j, <1>s, <2>1 DEF JobRow
<1>10. CASE Set(p, [job[p] EXCEPT !.pc = "find", !.metrics = Counted, !.date = now])
  BY <1>10, <1>j, <1>s DEF JobRow
<1>11. CASE FindReport(p)
  <2>1. Set(p, [job[p] EXCEPT !.pc = "report", !.old = reports[job[p].date]])
    BY <1>11 DEF FindReport
  <2> QED BY <1>j, <1>s, <2>1 DEF JobRow
<1>12. CASE Set(p, [Idle EXCEPT !.pc = "archive"])
  <2>1. [Idle EXCEPT !.pc = "archive"].due = {}
    BY DEF Idle
  <2> QED BY <1>12, <1>s, <2>1
<1>13. CASE Set(p, [job[p] EXCEPT !.pc = "run", !.run = Len(runs) + 1])
  BY <1>13, <1>j, <1>s DEF JobRow
<1>14. CASE Summarise(p) \/ WriteReport(p) \/ OpenRun(p) \/ WriteCsv(p) \/ Crash(p)
  BY <1>4, <1>10, <1>12, <1>13, <1>14 DEF Summarise, WriteReport, OpenRun, WriteCsv, Crash
<1>15. Tick \/ Publish \/ UNCHANGED vars => job' = job
  BY DEF Tick, Publish, vars
<1> QED BY <1>1, <1>2, <1>3, <1>5, <1>6, <1>7, <1>8, <1>9, <1>11, <1>14, <1>15
        DEF Next, Step, Report, Archive

LEMMA TimelyStep ==
  ASSUME Shape, RowsOK, DueInv, Timely, [Next]_vars
  PROVE  Timely'
<1>0. RowsMove /\ Shape'
  BY AllMove, ShapeStep
<1>1. ASSUME NEW n \in 1 .. Len(snaps'), NEW h \in Horizons
      PROVE  /\ rows'[n][h].status # "none" => rows'[n][h].target = AddTradingDays(snaps'[n].day, h)
             /\ rows'[n][h].status = "resolved" => rows'[n][h].target <= rows'[n][h].at
  <2>1. CASE rows'[n][h].status = "none"
    BY <2>1
  <2>2. CASE n \in 1 .. Len(snaps) /\ rows'[n][h] = rows[n][h]
    BY <1>0, <2>2 DEF Timely, RowsMove
  <2>3. CASE rows'[n][h] = Opened(snaps'[n])[h]
    <3> DEFINE target == AddTradingDays(snaps'[n].day, h)
    <3>1. rows'[n][h] = [Untracked EXCEPT !.status = "open", !.target = target]
      BY <2>3 DEF Opened
    <3> HIDE DEF target
    <3>2. rows'[n][h].status = "open" /\ rows'[n][h].target = target
      BY <3>1 DEF Untracked
    <3> QED BY <3>2 DEF target
  <2>4. CASE n \in 1 .. Len(snaps) /\ \E p \in Jobs : /\ <<n, h>> \in job[p].due
                                                     /\ rows'[n][h].target = rows[n][h].target
                                                     /\ rows'[n][h].at = job[p].at
    <3>1. PICK p \in Jobs : /\ <<n, h>> \in job[p].due
                            /\ rows'[n][h].target = rows[n][h].target
                            /\ rows'[n][h].at = job[p].at
      BY <2>4
    <3>2. rows[n][h].status # "none" /\ rows[n][h].target <= job[p].at
      BY <2>4, <3>1 DEF Timely, DueInv, DueOK
    <3>3. snaps'[n] = snaps[n]
      BY <1>0, <2>4 DEF RowsMove
    <3> QED BY <2>4, <3>1, <3>2, <3>3 DEF Timely
  <2> QED BY <2>1, <2>2, <2>3, <2>4, RowsTold
<1>2. ASSUME NEW p \in Jobs, NEW n \in 1 .. Len(snaps'), NEW h \in Horizons,
             <<n, h>> \in job'[p].due
      PROVE  rows'[n][h].target <= job'[p].at
  <2>1. CASE job'[p].due = job[p].due /\ job'[p].at = job[p].at
    <3>1. n \in 1 .. Len(snaps)
      BY <1>2, <2>1 DEF Shape, JobOK
    <3>2. rows[n][h].status # "none" /\ rows[n][h].target <= job[p].at
      BY <1>2, <2>1, <3>1 DEF Timely, DueInv, DueOK
    <3> QED BY <1>0, <2>1, <3>2 DEF RowsMove
  <2>2. CASE job'[p].due = Due(now) /\ job'[p].at = now /\ UNCHANGED <<snaps, rows>>
    BY <1>2, <2>2 DEF Due, Row
  <2> QED BY <1>2, <2>1, <2>2, DueTaken
<1> QED BY <1>1, <1>2 DEF Timely

\* No outcome is resolved before its trading days have passed, for all horizons, days,
\* jobs and crashes (ensure_recommendation_outcomes, _add_trading_days and
\* resolve_due_recommendation_outcomes).
THEOREM NoneEarly == Spec => []NotEarly
<1>1. Init => Shape /\ RowsOK /\ DueInv /\ Timely
  <2> SUFFICES ASSUME Init PROVE Timely
    BY InitShape, InitRows, InitDue
  <2>1. \A n \in 1 .. Len(snaps) : FALSE
    BY DEF Init
  <2> QED BY <2>1 DEF Timely
<1>2. Shape /\ RowsOK /\ DueInv /\ Timely /\ [Next]_vars => (Shape /\ RowsOK /\ DueInv /\ Timely)'
  BY ShapeStep, RowsStep, DueStep, TimelyStep
<1>3. Shape /\ RowsOK /\ Timely => NotEarly
  <2> SUFFICES ASSUME Shape, RowsOK, Timely, NEW n \in 1 .. Len(snaps), NEW h \in Horizons,
                      rows[n][h].status = "resolved"
               PROVE  Weekdays(snaps[n].day + 1, rows[n][h].at) >= h
    BY DEF NotEarly
  <2> DEFINE d == snaps[n].day
             target == rows[n][h].target
             at == rows[n][h].at
  <2>1. d \in Nat /\ h \in Nat
    <3>1. snaps[n] \in SnapRow
      BY ElementOfSeq, LenProperties DEF Shape
    <3>2. d \in Days
      BY <3>1 DEF SnapRow
    <3> HIDE DEF d
    <3> QED BY <3>2, HorizonsAssumption, BoundsAssumption DEF Days
  <2>2. target \in Nat /\ at \in Nat
    <3>1. n \in 1 .. MaxSnaps
      BY LenProperties, BoundsAssumption DEF Shape
    <3>2. rows[n][h] \in TypedRow
      BY <3>1 DEF RowsOK
    <3>3. target \in Targets /\ at \in Nat
      BY <3>2 DEF TypedRow
    <3> QED BY <3>3, TargetsInNat, Zenon
  <2>3. target = AddTradingDays(d, h) /\ target <= at
    BY DEF Timely
  <2> HIDE DEF d, target, at
  <2>4. Weekdays(d + 1, target) = h
    BY <2>1, <2>3, TradingDaysCounted
  <2>5. Weekdays(d + 1, target) <= Weekdays(d + 1, at)
    <3>1. d + 1 \in Int /\ target \in Int /\ at \in Int
      BY <2>1, <2>2
    <3> QED BY <2>3, <3>1, WeekdaysGrow
  <2>6. Weekdays(d + 1, at) \in Nat
    <3>1. d + 1 \in Int /\ at \in Int
      BY <2>1, <2>2
    <3> QED BY <3>1, WeekdaysFinite
  <2> QED BY <2>1, <2>4, <2>5, <2>6 DEF d, at
<1> QED BY <1>1, <1>2, <1>3, PTL DEF Spec

-------------------------------------------------------------------------------
\* The tables, the files and the jobs keep their types.
THEOREM TypeCorrect == Spec => []TypeOK
<1> DEFINE Rest == /\ Len(runs) <= MaxRuns /\ latest \in [state : Files, run : 0 .. MaxRuns]
                   /\ weights \in Files /\ crashes \in 0 .. MaxCrashes
<1>1. Init => Shape /\ RowsOK /\ Archived /\ Rest
  <2>1. Init => Archived
    BY DEF Init, Archived, ArchOK, Idle
  <2>2. Init => Rest
    BY BoundsAssumption DEF Init, Files
  <2> QED BY <2>1, <2>2, InitShape, InitRows
<1>2. Shape /\ RowsOK /\ Archived /\ Rest /\ [Next]_vars => (Shape /\ RowsOK /\ Archived /\ Rest)'
  <2> SUFFICES ASSUME Shape, Archived, Rest, [Next]_vars PROVE Rest'
    BY ShapeStep, RowsStep, ArchivedStep
  <2>0. Len(runs) \in Nat /\ \A file : Filled(file) \subseteq Files
    BY LenProperties DEF Shape, Filled, Files
  <2>1. CASE UNCHANGED <<runs, latest, weights, crashes>>
    BY <2>1
  <2>2. ASSUME NEW p \in Jobs, Start(p) \/ Step(p) \/ Crash(p) PROVE Rest'
    <3>1. CASE OpenWeights(p) \/ FillWeights(p)
      BY <2>0, <3>1 DEF OpenWeights, FillWeights, Files
    <3>2. CASE OpenRun(p)
      <4>1. UNCHANGED <<latest, weights, crashes>>
        BY <3>2 DEF OpenRun
      <4>2. runs' = runs \/ (runs' = Append(runs, "empty") /\ Len(runs) < MaxRuns)
        BY <3>2 DEF OpenRun
      <4>3. Len(Append(runs, "empty")) = Len(runs) + 1
        BY DEF Shape
      <4>4. Len(runs') <= MaxRuns
        BY <2>0, <4>2, <4>3, BoundsAssumption
      <4> QED BY <4>1, <4>4
    <3>3. CASE FillRun(p)
      <4>1. runs' = [runs EXCEPT ![job[p].run] = "whole"] /\ UNCHANGED <<latest, weights, crashes>>
        BY <3>3 DEF FillRun
      <4>2. Len(runs') = Len(runs)
        <5>1. DOMAIN runs' = DOMAIN runs
          BY <4>1
        <5>2. runs' \in Seq({"empty", "whole"})
          BY ShapeStep DEF Shape
        <5> QED BY <5>1, <5>2 DEF Shape
      <4> QED BY <4>1, <4>2
    <3>4. CASE OpenLatest(p)
      BY <2>0, <3>4, BoundsAssumption DEF OpenLatest, Files
    <3>5. CASE FillLatest(p)
      <4>1. job[p].run \in 1 .. Len(runs)
        BY <3>5 DEF FillLatest, At, Archived, ArchOK
      <4> QED BY <2>0, <3>5, <4>1, BoundsAssumption DEF FillLatest
    <3>6. CASE Crash(p)
      BY <3>6, BoundsAssumption DEF Crash
    <3>7. CASE Start(p) \/ Report(p) \/ WriteCsv(p)
      BY <2>1, <3>1, <3>7 DEF Start, Report, EnsureOutcomes, LoadDue, FetchQuotes, Resolve, Summarise,
         FindReport, WriteReport, WriteCsv
    <3> QED BY <2>2, <3>1, <3>2, <3>3, <3>4, <3>5, <3>6, <3>7 DEF Step, Archive
  <2> QED BY <2>1, <2>2 DEF Next, Tick, Publish, vars
<1>3. Shape /\ RowsOK /\ Rest => TypeOK
  <2>1. TypedRow \subseteq OutcomeRow
    BY TargetsInNat DEF TypedRow, OutcomeRow
  <2>2. [1 .. MaxSnaps -> [Horizons -> TypedRow]] \subseteq [1 .. MaxSnaps -> [Horizons -> OutcomeRow]]
    BY <2>1
  <2> QED BY <2>2 DEF Shape, RowsOK, TypeOK
<1> QED BY <1>1, <1>2, <1>3, PTL DEF Spec
===============================================================================

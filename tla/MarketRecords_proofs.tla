------------------------- MODULE MarketRecords_proofs -------------------------
(***************************************************************************)
(* What the tables of the pipeline keep over time, for any universe, any   *)
(* sets of jobs and any bounds: who has seen a snapshot at the lock adds   *)
(* none to its window, and, as long as one job rebuilds, the cache never   *)
(* goes back.                                                              *)
(*                                                                         *)
(* For the first one has to know what a job about to commit a snapshot saw *)
(* when it looked (Opening): everything it counted is from before today's  *)
(* cutoff, because the snapshots of a security are in the order of their   *)
(* times (Ordered) and the last of them was.  The second follows from what *)
(* every job has in hand (Held) and from what the only rebuilder has       *)
(* collected (Newest).                                                     *)
(***************************************************************************)
EXTENDS MarketPipeline_proofs

-------------------------------------------------------------------------------
\* One snapshot per window.

\* What a job about to commit a snapshot has seen is from before the cutoff.
Opening(j, sn, t) ==
  j.pc = "generate" =>
    /\ j.snap <= Len(sn[j.sec])
    /\ \A i \in 1 .. Len(sn[j.sec]) : i <= j.snap => sn[j.sec][i].at < Cutoff(t)

Past == \A s \in Securities : \A i \in 1 .. Len(snaps[s]) : snaps[s][i].at <= now
Ordered ==
  \A s \in Securities : \A i, k \in 1 .. Len(snaps[s]) :
    i <= k => snaps[s][i].at <= snaps[s][k].at
SawFewer == \A s \in Securities : \A k \in 1 .. Len(snaps[s]) : snaps[s][k].saw < k
WInv == /\ IInv /\ Past /\ Ordered /\ SawFewer /\ OneSnapshotPerWindow
        /\ \A p \in Jobs : Opening(job[p], snaps, now)

LEMMA SnapshotAt ==
  ASSUME TypeOK, NEW s \in Securities
  PROVE  /\ Len(snaps[s]) \in Nat
         /\ \A i \in 1 .. Len(snaps[s]) : snaps[s][i].at \in Slots
<1>1. snaps[s] \in Seq(Snapshot) BY DEF TypeOK
<1>2. ASSUME NEW i \in 1 .. Len(snaps[s]) PROVE snaps[s][i] \in Snapshot BY <1>1
<1>. QED BY <1>1, <1>2 DEF Snapshot

\* The steps of a reader stay out of the walk.
LEMMA ReadersElsewhere ==
  ASSUME TypeOK, NEW p \in Jobs,
         ReadFeed(p) \/ ReadDetail(p) \/ StoreCheck(p) \/ StoreInsert(p)
  PROVE  job'[p].pc \notin WalkLabels
<1>. DEFINE J == job[p]
<1>1. TypeOK /\ J \in JobRecord BY DEF TypeOK
<1>2. ASSUME NEW j, Set(p, j), j.pc \notin WalkLabels PROVE job'[p].pc \notin WalkLabels
  BY <1>2, SetJob
<1>3. End(p) => job'[p].pc \notin WalkLabels BY <1>1, EndJob DEF WalkLabels, PublishLabels, RebuildLabels
<1>4. CASE ReadFeed(p)
  <2>. DEFINE j1 == [Idle EXCEPT !.pc = "served"]
              j2 == [Idle EXCEPT !.pc = "store", !.date = Date(now),
                       !.todo = Securities, !.got = Latest]
  <2>1. Set(p, j1) \/ Set(p, j2) BY <1>4 DEF ReadFeed
  <2>2. (Set(p, j1) \/ Set(p, j2)) /\ j1.pc \notin WalkLabels /\ j2.pc \notin WalkLabels
    BY <2>1 DEF Idle, WalkLabels, PublishLabels, RebuildLabels
  <2>. HIDE DEF j1, j2
  <2>. QED BY <1>2, <2>2
<1>5. CASE ReadDetail(p)
  <2>. DEFINE j1 == [Idle EXCEPT !.pc = "served"]
  <2>1. PICK s, n : \/ Set(p, j1)
                    \/ Set(p, [Idle EXCEPT !.pc = "store", !.date = Date(now), !.sec = s,
                                 !.todo = {s}, !.got = Latest, !.depth = n])
    BY <1>5 DEF ReadDetail
  <2>. DEFINE j2 == [Idle EXCEPT !.pc = "store", !.date = Date(now), !.sec = s, !.todo = {s},
                       !.got = Latest, !.depth = n]
  <2>2. (Set(p, j1) \/ Set(p, j2)) /\ j1.pc \notin WalkLabels /\ j2.pc \notin WalkLabels
    BY <2>1 DEF Idle, WalkLabels, PublishLabels, RebuildLabels
  <2>. HIDE DEF j1, j2
  <2>. QED BY <1>2, <2>2
<1>6. CASE StoreCheck(p)
  <2>1. PICK s \in J.todo, next \in AfterStore(p) :
          \/ Set(p, [J EXCEPT !.todo = @ \ {s}, !.pc = IF J.todo = {s} THEN next ELSE "store"])
          \/ Set(p, [J EXCEPT !.pc = "storeInsert", !.sec = s])
    BY <1>6 DEF StoreCheck, AfterStore
  <2>. DEFINE j1 == [J EXCEPT !.todo = @ \ {s}, !.pc = IF J.todo = {s} THEN next ELSE "store"]
              j2 == [J EXCEPT !.pc = "storeInsert", !.sec = s]
  <2>2. next \notin WalkLabels BY DEF AfterStore, WalkLabels, PublishLabels, RebuildLabels
  <2>3. (Set(p, j1) \/ Set(p, j2)) /\ j1.pc \notin WalkLabels /\ j2.pc \notin WalkLabels
    BY <1>1, <2>1, <2>2 DEF JobRecord, WalkLabels, PublishLabels, RebuildLabels
  <2>. HIDE DEF j1, j2
  <2>. QED BY <1>2, <2>3
<1>7. CASE StoreInsert(p)
  <2>1. PICK next \in AfterStore(p) :
          \/ End(p)
          \/ Set(p, [J EXCEPT !.todo = @ \ {J.sec},
                              !.pc = IF J.todo = {J.sec} THEN next ELSE "store"])
    BY <1>7 DEF StoreInsert, AfterStore
  <2>. DEFINE j == [J EXCEPT !.todo = @ \ {J.sec},
                             !.pc = IF J.todo = {J.sec} THEN next ELSE "store"]
  <2>2. next \notin WalkLabels BY DEF AfterStore, WalkLabels, PublishLabels, RebuildLabels
  <2>3. (End(p) \/ Set(p, j)) /\ j.pc \notin WalkLabels BY <1>1, <2>1, <2>2 DEF JobRecord, WalkLabels, PublishLabels, RebuildLabels
  <2>. HIDE DEF j
  <2>. QED BY <1>2, <1>3, <2>3
<1>. QED BY <1>4, <1>5, <1>6, <1>7

\* Where a job that is about to commit a snapshot comes from.
LEMMA OnlyAfterTheLock ==
  ASSUME IInv, NEW p \in Jobs, Start(p) \/ Step(p) \/ Crash(p), job'[p].pc = "generate"
  PROVE  ReadLatestEvent(p)
<1>. DEFINE J == job[p]
<1>1. Typed /\ TypeOK /\ J \in JobRecord BY DEF IInv, Typed, TypeOK
<1>2. ASSUME NEW i, Set(p, Rebuilt(p, i)) PROVE FALSE
  <2>1. job'[p] = Rebuilt(p, i) BY <1>1, <1>2, SetJob
  <2>2. Rebuilt(p, i).pc # "generate" BY <1>1 DEF Rebuilt, JobRecord
  <2>. QED BY <2>1, <2>2
<1>3. ASSUME NEW j, Set(p, j), j.pc # "generate" PROVE FALSE
  BY <1>1, <1>3, SetJob
<1>4. End(p) => FALSE BY <1>1, EndJob
<1>5. CASE StartRefresh(p)
  <2>. DEFINE j == [Idle EXCEPT !.pc = "ingest", !.todo = Securities, !.started = now]
  <2>1. Set(p, j) /\ j.pc # "generate" BY <1>5 DEF StartRefresh, Idle
  <2>. HIDE DEF j
  <2>. QED BY <1>3, <2>1
<1>6. CASE SubmitEvent(p)
  <2>1. PICK s \in Securities : Set(p, [Idle EXCEPT !.pc = "check", !.sec = s])
    BY <1>6 DEF SubmitEvent
  <2>. DEFINE j == [Idle EXCEPT !.pc = "check", !.sec = s]
  <2>2. Set(p, j) /\ j.pc # "generate" BY <2>1 DEF Idle
  <2>. HIDE DEF j
  <2>. QED BY <1>3, <2>2
<1>7. CASE Ingest(p)
  <2>1. PICK s \in J.todo, new \in {0, 1} :
          Set(p, [J EXCEPT !.pc = "check", !.todo = @ \ {s}, !.sec = s, !.twice = (new = 1)])
    BY <1>7 DEF Ingest
  <2>. DEFINE j == [J EXCEPT !.pc = "check", !.todo = @ \ {s}, !.sec = s, !.twice = (new = 1)]
  <2>2. Set(p, j) /\ j.pc # "generate" BY <1>1, <2>1 DEF JobRecord
  <2>. HIDE DEF j
  <2>. QED BY <1>3, <2>2
<1>8. CASE LockedSnapshot(p) BY <1>2, <1>8 DEF LockedSnapshot
<1>9. CASE Generate(p)
  <2>1. Set(p, [J EXCEPT !.pc = "track", !.ev = 0, !.snap = Len(snaps[J.sec]) + 1])
    BY <1>9 DEF Generate
  <2>. DEFINE j == [J EXCEPT !.pc = "track", !.ev = 0, !.snap = Len(snaps[J.sec]) + 1]
  <2>2. Set(p, j) /\ j.pc # "generate" BY <1>1, <2>1 DEF JobRecord
  <2>. HIDE DEF j
  <2>. QED BY <1>3, <2>2
<1>10. CASE Track(p)
  <2>1. Set(p, Rebuilt(p, J.snap)) \/ Set(p, [J EXCEPT !.pc = "trackInsert"])
    BY <1>10 DEF Track
  <2>. DEFINE j == [J EXCEPT !.pc = "trackInsert"]
  <2>2. j.pc # "generate" BY <1>1 DEF JobRecord
  <2>. HIDE DEF j
  <2>. QED BY <1>2, <1>3, <2>1, <2>2 DEF j
<1>11. CASE TrackInsert(p)
  BY <1>2, <1>4, <1>11 DEF TrackInsert, InsertOutcomes
<1>12. CASE DeleteDaily(p) \/ LockDaily(p) \/ InsertDaily(p)
  BY <1>1, <1>12, PublishJob DEF PublishLabels
<1>13. CASE ReadFeed(p) \/ ReadDetail(p) \/ StoreCheck(p) \/ StoreInsert(p)
  BY <1>1, <1>13, ReadersElsewhere DEF WalkLabels, RebuildLabels
<1>17. CASE \/ StartUp(p) \/ StartReport(p) \/ SaveProfile(p) \/ Acknowledge(p)
            \/ DailyConflict(p) \/ PublishDaily(p) \/ LoadUsers(p)
            \/ ReadSnapshots(p) \/ DeleteRecs(p) \/ LockRecs(p)
            \/ RecsConflict(p) \/ InsertRecs(p) \/ CommitRecs(p)
            \/ Deadlock(p) \/ RecursionFails(p)
            \/ LoadSnapshots(p) \/ EnsureOutcomes(p) \/ EnsureInsert(p) \/ FinishReport(p)
            \/ ReportConflict(p) \/ Respond(p) \/ Crash(p)
  BY <1>1, <1>17, RestElsewhere DEF WalkLabels, RebuildLabels
<1>. QED
  BY <1>5, <1>6, <1>7, <1>8, <1>9, <1>10, <1>11, <1>12, <1>13, <1>17
  DEF Start, Step

LEMMA SnapsOnlyGenerated ==
  ASSUME NEW p \in Jobs, Start(p) \/ Step(p) \/ Crash(p)
  PROVE  now' = now /\ (Generate(p) \/ snaps' = snaps)
BY DEF Start, Step, Crash, StartRefresh, SubmitEvent, StartUp, StartReport, SaveProfile,
   Acknowledge, ReadFeed, ReadDetail, Ingest, LockedSnapshot, ReadLatestEvent, Generate, Track,
   TrackInsert, DeleteDaily, LockDaily, DailyConflict, InsertDaily, PublishDaily, LoadUsers,
   ReadSnapshots, DeleteRecs, LockRecs, RecsConflict, InsertRecs, CommitRecs, Deadlock,
   RecursionFails, LoadSnapshots, EnsureOutcomes, EnsureInsert, FinishReport, ReportConflict,
   StoreCheck, StoreInsert, Respond

\* The clock cannot go back behind a cutoff.
LEMMA CutoffLater ==
  ASSUME TypeOK, NEW t \in Slots, now <= t
  PROVE  Cutoff(now) \in Int /\ Cutoff(t) \in Int /\ Cutoff(now) <= Cutoff(t)
<1>1. now \in Slots BY DEF TypeOK
<1>2. Cutoff(now) <= Cutoff(t) BY <1>1, CutoffMonotone
<1>3. now \in Int /\ t \in Int BY <1>1, BoundsAssumption DEF Slots
<1>. QED BY <1>2, <1>3 DEF Cutoff

\* A new snapshot falls in a later window than what its job has seen.
LEMMA NewWindow ==
  ASSUME WInv, NEW p \in Jobs, Generate(p)
  PROVE  Past' /\ Ordered' /\ SawFewer' /\ OneSnapshotPerWindow'
<1>. DEFINE s0 == job[p].sec
            L == Len(snaps[s0])
            seen == job[p].snap
<1>1. /\ TypeOK /\ now \in Slots /\ snaps \in [Securities -> Seq(Snapshot)] /\ now' = now
      /\ job[p] \in JobRecord
  BY DEF WInv, IInv, Typed, TypeOK, Generate
<1>2. s0 \in Securities BY DEF WInv, IInv, Typed, SubjectOK, Generate, At
<1>3. snaps' = [snaps EXCEPT ![s0] = Append(@, NewSnapshot(p))] BY DEF Generate
<1>4. /\ NewSnapshot(p) \in Snapshot /\ NewSnapshot(p).at = now /\ NewSnapshot(p).saw = seen
      /\ seen \in Nat
  BY <1>1 DEF NewSnapshot, Snapshot, JobRecord
<1>5. L \in Nat /\ \A i \in 1 .. L : snaps[s0][i].at \in Slots BY <1>1, <1>2, SnapshotAt
<1>6. /\ Len(snaps'[s0]) = L + 1
      /\ snaps'[s0][L + 1].at = now /\ snaps'[s0][L + 1].saw = seen
      /\ \A i \in 1 .. L : snaps'[s0][i] = snaps[s0][i]
  <2>1. snaps'[s0] = Append(snaps[s0], NewSnapshot(p)) BY <1>1, <1>2, <1>3
  <2>2. snaps[s0] \in Seq(Snapshot) BY <1>1, <1>2
  <2>. HIDE DEF s0, seen
  <2>. QED BY <1>4, <2>1, <2>2
<1>7. \A s \in Securities : s # s0 => snaps'[s] = snaps[s] BY <1>1, <1>3
<1>8. seen <= L /\ \A i \in 1 .. L : i <= seen => snaps[s0][i].at < Cutoff(now)
  BY DEF WInv, Opening, Generate, At
<1>9. now \in Int /\ now <= now BY <1>1, BoundsAssumption DEF Slots
<1>10. \A i \in 1 .. L : snaps[s0][i].at <= now BY <1>2 DEF WInv, Past
<1>. HIDE DEF s0, L, seen
<1>11. Past'
  <2>. SUFFICES ASSUME NEW s \in Securities, NEW i \in 1 .. Len(snaps'[s])
                PROVE  snaps'[s][i].at <= now
    BY <1>1 DEF Past
  <2>1. CASE s # s0 BY <1>7, <2>1 DEF WInv, Past
  <2>2. CASE s = s0 /\ i = L + 1 BY <1>6, <1>9, <2>2
  <2>3. CASE s = s0 /\ i # L + 1
    <3>1. i \in 1 .. L BY <1>5, <1>6, <2>3
    <3>. QED BY <1>6, <1>10, <2>3, <3>1
  <2>. QED BY <2>1, <2>2, <2>3
<1>12. Ordered'
  <2>. SUFFICES ASSUME NEW s \in Securities, NEW i \in 1 .. Len(snaps'[s]),
                       NEW k \in 1 .. Len(snaps'[s]), i <= k
                PROVE  snaps'[s][i].at <= snaps'[s][k].at
    BY DEF Ordered
  <2>1. CASE s # s0 BY <1>7, <2>1 DEF WInv, Ordered
  <2>2. CASE s = s0 /\ k = L + 1 BY <1>1, <1>6, <1>11, <2>2 DEF Past
  <2>3. CASE s = s0 /\ k # L + 1
    <3>1. i \in 1 .. L /\ k \in 1 .. L BY <1>5, <1>6, <2>3
    <3>2. snaps[s0][i].at <= snaps[s0][k].at BY <1>2, <3>1 DEF WInv, Ordered, L
    <3>. QED BY <1>6, <2>3, <3>1, <3>2
  <2>. QED BY <2>1, <2>2, <2>3
<1>13. OneSnapshotPerWindow'
  <2>. SUFFICES ASSUME NEW s \in Securities, NEW i \in 1 .. Len(snaps'[s]),
                       NEW k \in 1 .. Len(snaps'[s]), i <= snaps'[s][k].saw
                PROVE  snaps'[s][i].at < Cutoff(snaps'[s][k].at)
    BY DEF OneSnapshotPerWindow
  <2>1. CASE s # s0 BY <1>7, <2>1 DEF WInv, OneSnapshotPerWindow
  <2>2. CASE s = s0 /\ k = L + 1
    <3>1. i \in 1 .. L /\ i <= seen BY <1>4, <1>5, <1>6, <1>8, <2>2
    <3>. QED BY <1>6, <1>8, <2>2, <3>1
  <2>3. CASE s = s0 /\ k # L + 1
    <3>1. k \in 1 .. L BY <1>5, <1>6, <2>3
    <3>2. snaps[s0][k].saw < k BY <1>2, <3>1 DEF WInv, SawFewer, L
    <3>3. i \in 1 .. L
      <4>1. snaps[s0][k].saw \in Nat
        <5>1. snaps[s0][k] \in Snapshot BY <1>1, <1>2, <3>1 DEF L
        <5>. QED BY <5>1 DEF Snapshot
      <4>. QED BY <1>5, <1>6, <2>3, <3>1, <3>2, <4>1
    <3>4. snaps[s0][i].at < Cutoff(snaps[s0][k].at)
      BY <1>2, <1>6, <2>3, <3>1, <3>3 DEF WInv, OneSnapshotPerWindow, L
    <3>. QED BY <1>6, <2>3, <3>1, <3>3, <3>4
  <2>. QED BY <2>1, <2>2, <2>3
<1>14. SawFewer'
  <2>. SUFFICES ASSUME NEW s \in Securities, NEW k \in 1 .. Len(snaps'[s])
                PROVE  snaps'[s][k].saw < k
    BY DEF SawFewer
  <2>1. CASE s # s0 BY <1>7, <2>1 DEF WInv, SawFewer
  <2>2. CASE s = s0 /\ k = L + 1 BY <1>4, <1>5, <1>6, <1>8, <2>2
  <2>3. CASE s = s0 /\ k # L + 1
    <3>1. k \in 1 .. L BY <1>5, <1>6, <2>3
    <3>2. snaps[s0][k].saw < k BY <1>2, <3>1 DEF WInv, SawFewer, L
    <3>. QED BY <1>6, <2>3, <3>1, <3>2
  <2>. QED BY <2>1, <2>2, <2>3
<1>. QED BY <1>11, <1>12, <1>13, <1>14

\* What a job has seen before the cutoff stays there while time passes and others add.
LEMMA OpeningStays ==
  ASSUME TypeOK, TypeOK', Grows, NEW j \in JobRecord, j.pc = "generate" => j.sec \in Securities,
         Opening(j, snaps, now)
  PROVE  Opening(j, snaps', now')
<1>. SUFFICES ASSUME j.pc = "generate"
              PROVE  /\ j.snap <= Len(snaps'[j.sec])
                     /\ \A i \in 1 .. Len(snaps'[j.sec]) :
                          i <= j.snap => snaps'[j.sec][i].at < Cutoff(now')
  BY DEF Opening
<1>1. /\ Len(snaps[j.sec]) \in Nat /\ Len(snaps'[j.sec]) \in Nat /\ j.snap \in Nat
      /\ Len(snaps[j.sec]) <= Len(snaps'[j.sec]) /\ j.snap <= Len(snaps[j.sec])
  BY DEF TypeOK, Grows, Opening, JobRecord
<1>2. Cutoff(now) \in Int /\ Cutoff(now') \in Int /\ Cutoff(now) <= Cutoff(now')
  BY CutoffLater DEF Grows, TypeOK
<1>3. ASSUME NEW i \in 1 .. Len(snaps'[j.sec]), i <= j.snap
      PROVE  snaps'[j.sec][i].at < Cutoff(now')
  <2>1. i \in 1 .. Len(snaps[j.sec]) BY <1>1, <1>3
  <2>2. snaps'[j.sec][i] = snaps[j.sec][i] BY <2>1 DEF Grows
  <2>3. snaps[j.sec][i].at < Cutoff(now) BY <1>3, <2>1 DEF Opening
  <2>4. snaps[j.sec][i].at \in Int BY <2>1, SnapshotAt, BoundsAssumption DEF Slots
  <2>. QED BY <1>2, <2>2, <2>3, <2>4
<1>. QED BY <1>1, <1>3

\* A job that has found its security unlocked.
LEMMA OpeningRead ==
  ASSUME WInv, NEW p \in Jobs, ReadLatestEvent(p)
  PROVE  Opening(job'[p], snaps', now')
<1>. DEFINE J == job[p]
            L == Len(snaps[J.sec])
            j == [J EXCEPT !.pc = "generate", !.ev = events[J.sec], !.snap = L]
<1>1. /\ TypeOK /\ J \in JobRecord /\ now \in Slots
      /\ J.sec \in Securities /\ ~Locked(J.sec) /\ snaps' = snaps /\ now' = now
  BY DEF WInv, IInv, Typed, TypeOK, SubjectOK, ReadLatestEvent, At
<1>2. job'[p] = j BY <1>1, SetJob DEF ReadLatestEvent
<1>3. j.sec = J.sec /\ j.snap = L BY <1>1 DEF JobRecord
<1>4. L \in Nat /\ L >= 1 /\ \A i \in 1 .. L : snaps[J.sec][i].at \in Int
  BY <1>1, SnapshotAt, BoundsAssumption DEF WInv, IInv, HistoryOK, Slots
<1>5. Cutoff(now) \in Int BY <1>1, BoundsAssumption DEF Slots, Cutoff
<1>6. snaps[J.sec][L].at < Cutoff(now) BY <1>1, <1>4, <1>5 DEF Locked
<1>. HIDE DEF j
<1>7. ASSUME NEW i \in 1 .. L PROVE snaps[J.sec][i].at < Cutoff(now)
  <2>1. snaps[J.sec][i].at <= snaps[J.sec][L].at BY <1>1, <1>4 DEF WInv, Ordered
  <2>. QED BY <1>4, <1>5, <1>6, <2>1
<1>. QED BY <1>1, <1>2, <1>3, <1>4, <1>7 DEF Opening

LEMMA WindowStep ==
  ASSUME WInv, [Next]_vars
  PROVE  WInv'
<1>1. Typed /\ TypeOK /\ TypeOK' /\ IInv /\ IInv' BY StepIInv DEF WInv, IInv, Typed
<1>2. Grows BY <1>1, NextGrows
<1>3. now \in Int /\ now' \in Int BY <1>1, BoundsAssumption DEF TypeOK, Slots
<1>4. ASSUME NEW q \in Jobs PROVE Opening(job[q], snaps', now')
  <2>1. job[q] \in JobRecord /\ (job[q].pc = "generate" => job[q].sec \in Securities)
    BY <1>1 DEF Typed, TypeOK, SubjectOK
  <2>. QED BY <1>1, <1>2, <2>1, OpeningStays DEF WInv
<1>5. ASSUME snaps' = snaps PROVE Past' /\ Ordered' /\ OneSnapshotPerWindow' /\ SawFewer'
  <2>1. ASSUME NEW s \in Securities, NEW i \in 1 .. Len(snaps[s]) PROVE snaps[s][i].at <= now'
    <3>1. snaps[s][i].at <= now BY DEF WInv, Past
    <3>2. snaps[s][i].at \in Int BY <1>1, SnapshotAt, BoundsAssumption DEF Slots
    <3>. QED BY <1>2, <1>3, <3>1, <3>2 DEF Grows
  <2>. QED BY <1>5, <2>1 DEF WInv, Past, Ordered, OneSnapshotPerWindow, SawFewer
<1>6. CASE job' = job /\ snaps' = snaps
  BY <1>1, <1>4, <1>5, <1>6 DEF WInv
<1>7. ASSUME NEW p \in Jobs, Start(p) \/ Step(p) \/ Crash(p) PROVE WInv'
  <2>1. Past' /\ Ordered' /\ OneSnapshotPerWindow' /\ SawFewer'
    BY <1>5, <1>7, NewWindow, SnapsOnlyGenerated
  <2>2. ASSUME NEW q \in Jobs, job'[q].pc = "generate" PROVE Opening(job'[q], snaps', now')
    <3>1. CASE q = p BY <1>1, <1>7, <2>2, <3>1, OnlyAfterTheLock, OpeningRead
    <3>2. CASE q # p
      <4>1. SameWork(q) BY <1>1, <1>7, <3>2, OthersKeep
      <4>. QED BY <1>4, <4>1 DEF Opening, SameWork
    <3>. QED BY <3>1, <3>2
  <2>3. \A q \in Jobs : Opening(job'[q], snaps', now') BY <2>2 DEF Opening
  <2>. QED BY <1>1, <2>1, <2>3 DEF WInv
<1>. QED BY <1>6, <1>7 DEF Next, Tick, vars

\* Whoever had seen a snapshot of a security when rebuild_security_recommendation
\* looked at the lock adds none to its window, with any number of refreshes,
\* events and startups side by side, and whenever the cutoff passes: two snapshots
\* of one window come from rebuilds that overlapped.
THEOREM WindowsApart == Spec => []OneSnapshotPerWindow
<1>1. Init => WInv
  <2>. SUFFICES ASSUME Init
                PROVE  /\ Past /\ Ordered /\ SawFewer /\ OneSnapshotPerWindow
                       /\ \A p \in Jobs : Opening(job[p], snaps, now)
    BY InitIInv DEF WInv
  <2>1. ASSUME NEW s \in Securities
        PROVE  snaps[s] = <<[at |-> 0, ev |-> 1, saw |-> 0]>> /\ now = 0
    BY DEF Init
  <2>2. Past /\ Ordered /\ SawFewer BY <2>1 DEF Past, Ordered, SawFewer
  <2>3. OneSnapshotPerWindow BY <2>1 DEF OneSnapshotPerWindow
  <2>4. \A p \in Jobs : Opening(job[p], snaps, now) BY DEF Init, Idle, Opening
  <2>. QED BY <2>2, <2>3, <2>4
<1>2. WInv /\ [Next]_vars => WInv' BY WindowStep
<1>3. WInv => OneSnapshotPerWindow BY DEF WInv
<1>. QED BY <1>1, <1>2, <1>3, PTL DEF Spec

-------------------------------------------------------------------------------
\* The cache does not go back, as long as one job rebuilds.

\* The snapshots a job has in hand exist, and so do those the cache names.
Held(j, sn) ==
  /\ \A s \in Securities : j.got[s] <= Len(sn[s])
  /\ j.pc \in {"track", "trackInsert"} => j.snap \in 1 .. Len(sn[j.sec])
CacheHeld == \A d \in Dates, s \in Securities : daily[d][s] <= Len(snaps[s])
DInv == IInv /\ CacheHeld /\ \A p \in Jobs : Held(job[p], snaps)

LEMMA HeldIdle ==
  ASSUME TypeOK, NEW j, j.got = Idle.got \/ j.got = Latest, j.pc \notin {"track", "trackInsert"}
  PROVE  Held(j, snaps)
<1>1. \A s \in Securities : Len(snaps[s]) \in Nat BY SnapshotAt
<1>2. \A s \in Securities : Idle.got[s] = 0 /\ Latest[s] = Len(snaps[s]) BY DEF Idle, Latest
<1>. QED BY <1>1, <1>2 DEF Held

LEMMA HeldKept ==
  ASSUME NEW p \in Jobs, Held(job[p], snaps), NEW j, j.got = job[p].got,
         j.pc \notin {"track", "trackInsert"}
  PROVE  Held(j, snaps)
BY DEF Held

LEMMA HeldRebuilt ==
  ASSUME DInv, NEW p \in Jobs, job[p].sec \in Securities,
         NEW i \in 1 .. Len(snaps[job[p].sec])
  PROVE  Held(Rebuilt(p, i), snaps)
<1>. DEFINE J == job[p]
            R == Rebuilt(p, i)
<1>1. J \in JobRecord /\ J.got \in [Securities -> Nat]
  BY DEF DInv, IInv, Typed, TypeOK, JobRecord
<1>2. R.got = [J.got EXCEPT ![J.sec] = i] /\ R.pc \notin {"track", "trackInsert"}
  BY <1>1 DEF Rebuilt, JobRecord
<1>3. Held(J, snaps) BY DEF DInv
<1>4. i <= Len(snaps[J.sec]) OBVIOUS
<1>. HIDE DEF R
<1>5. \A s \in Securities : R.got[s] <= Len(snaps[s]) BY <1>1, <1>2, <1>3, <1>4 DEF Held
<1>6. Held(R, snaps) BY <1>2, <1>5 DEF Held
<1>. QED BY <1>6 DEF R

\* Snapshots are only added, so what is in hand stays.
LEMMA HeldStays ==
  ASSUME TypeOK, TypeOK', Grows, NEW j \in JobRecord,
         j.pc \in {"track", "trackInsert"} => j.sec \in Securities, Held(j, snaps)
  PROVE  Held(j, snaps')
<1>1. \A s \in Securities : /\ Len(snaps[s]) \in Nat /\ Len(snaps'[s]) \in Nat
                            /\ Len(snaps[s]) <= Len(snaps'[s])
  BY DEF TypeOK, Grows
<1>2. \A s \in Securities : j.got[s] \in Nat BY DEF JobRecord
<1>3. \A s \in Securities : j.got[s] <= Len(snaps'[s]) BY <1>1, <1>2 DEF Held
<1>4. j.pc \in {"track", "trackInsert"} => j.snap \in 1 .. Len(snaps'[j.sec]) BY <1>1 DEF Held
<1>. QED BY <1>3, <1>4 DEF Held

LEMMA EndIdle == ASSUME TypeOK, NEW p \in Jobs, End(p) PROVE job'[p] = Idle
BY SetJob DEF End

\* What job p has in hand after a step of its own.
LEMMA HeldStep ==
  ASSUME DInv, TypeOK', Grows, NEW p \in Jobs, Start(p) \/ Step(p) \/ Crash(p)
  PROVE  Held(job'[p], snaps')
<1>. DEFINE J == job[p]
<1>1. /\ TypeOK /\ J \in JobRecord /\ HistoryOK /\ Held(J, snaps)
      /\ J.got \in [Securities -> Nat]
  BY DEF DInv, IInv, Typed, TypeOK, JobRecord
<1>2. J.pc \in {"check", "generate", "track", "trackInsert"} => J.sec \in Securities
  BY DEF DInv, IInv, Typed, SubjectOK
<1>3. Idle.pc = "idle" BY DEF Idle
<1>4. Held(Idle, snaps) BY <1>1, <1>3, HeldIdle
<1>5. End(p) => Held(job'[p], snaps) BY <1>1, <1>4, EndIdle
<1>6. ASSUME NEW j, Set(p, j), Held(j, snaps) PROVE Held(job'[p], snaps)
  BY <1>1, <1>6, SetJob
\* A job that starts over, with nothing or with the latest snapshots in hand.
<1>7. ASSUME NEW j, j.got = Idle.got \/ j.got = Latest,
             j.pc \notin {"track", "trackInsert"}
      PROVE  Held(j, snaps)
  BY <1>1, <1>7, HeldIdle
<1>8. ASSUME NEW j, j.got = J.got, j.pc \notin {"track", "trackInsert"}
      PROVE  Held(j, snaps)
  BY <1>1, <1>8, HeldKept
<1>10. CASE StartRefresh(p)
  <2>. DEFINE j == [Idle EXCEPT !.pc = "ingest", !.todo = Securities, !.started = now]
  <2>1. Set(p, j) /\ j.pc = "ingest" /\ j.got = Idle.got /\ snaps' = snaps
    BY <1>10 DEF StartRefresh, Idle
  <2>. HIDE DEF j
  <2>. QED BY <1>6, <1>7, <2>1
<1>11. CASE SubmitEvent(p)
  <2>1. PICK s \in Securities : Set(p, [Idle EXCEPT !.pc = "check", !.sec = s])
    BY <1>11 DEF SubmitEvent
  <2>. DEFINE j == [Idle EXCEPT !.pc = "check", !.sec = s]
  <2>2. Set(p, j) /\ j.pc = "check" /\ j.got = Idle.got /\ snaps' = snaps
    BY <1>11, <2>1 DEF SubmitEvent, Idle
  <2>. HIDE DEF j
  <2>. QED BY <1>6, <1>7, <2>2
<1>12. CASE StartUp(p)
  <2>1. PICK u, f : Set(p, [Idle EXCEPT !.pc = "readRecs", !.twice = TRUE, !.users = {u},
                                        !.prof = f])
    BY <1>12 DEF StartUp
  <2>. DEFINE j == [Idle EXCEPT !.pc = "readRecs", !.twice = TRUE, !.users = {u}, !.prof = f]
  <2>2. Set(p, j) /\ j.pc = "readRecs" /\ j.got = Idle.got /\ snaps' = snaps
    BY <1>12, <2>1 DEF StartUp, Idle
  <2>. HIDE DEF j
  <2>. QED BY <1>6, <1>7, <2>2
<1>13. CASE StartReport(p)
  <2>. DEFINE j == [Idle EXCEPT !.pc = "report"]
  <2>1. Set(p, j) /\ j.pc = "report" /\ j.got = Idle.got /\ snaps' = snaps
    BY <1>13 DEF StartReport, Idle
  <2>. HIDE DEF j
  <2>. QED BY <1>6, <1>7, <2>1
<1>14. CASE SaveProfile(p) \/ Acknowledge(p)
  <2>1. PICK u, f : Set(p, [Idle EXCEPT !.pc = "readRecs", !.users = {u}, !.prof = f])
    BY <1>14 DEF SaveProfile, Acknowledge
  <2>. DEFINE j == [Idle EXCEPT !.pc = "readRecs", !.users = {u}, !.prof = f]
  <2>2. Set(p, j) /\ j.pc = "readRecs" /\ j.got = Idle.got /\ snaps' = snaps
    BY <1>14, <2>1 DEF SaveProfile, Acknowledge, Idle
  <2>. HIDE DEF j
  <2>. QED BY <1>6, <1>7, <2>2
<1>15. CASE LoadUsers(p)
  <2>1. PICK us, f, d : Set(p, [Idle EXCEPT !.pc = IF us = {} THEN "report" ELSE "readRecs",
                                   !.date = d, !.users = us, !.prof = f])
    BY <1>15 DEF LoadUsers
  <2>. DEFINE j == [Idle EXCEPT !.pc = IF us = {} THEN "report" ELSE "readRecs",
                                !.date = d, !.users = us, !.prof = f]
  <2>2. Set(p, j) /\ j.pc \in {"report", "readRecs"} /\ j.got = Idle.got /\ snaps' = snaps
    BY <1>15, <2>1 DEF LoadUsers, Idle
  <2>. HIDE DEF j
  <2>. QED BY <1>6, <1>7, <2>2
<1>16. CASE ReadFeed(p)
  <2>. DEFINE j1 == [Idle EXCEPT !.pc = "served"]
              j2 == [Idle EXCEPT !.pc = "store", !.date = Date(now),
                       !.todo = Securities, !.got = Latest]
  <2>1. Set(p, j1) \/ Set(p, j2) BY <1>16 DEF ReadFeed
  <2>2. /\ Set(p, j1) \/ Set(p, j2)
        /\ snaps' = snaps
        /\ j1.pc = "served" /\ j1.got = Idle.got /\ j2.pc = "store" /\ j2.got = Latest
    BY <1>16, <2>1 DEF ReadFeed, Idle
  <2>. HIDE DEF j1, j2
  <2>. QED BY <1>6, <1>7, <2>2
<1>17. CASE ReadDetail(p)
  <2>. DEFINE j1 == [Idle EXCEPT !.pc = "served"]
  <2>1. PICK s, n : \/ Set(p, j1)
                    \/ Set(p, [Idle EXCEPT !.pc = "store", !.date = Date(now), !.sec = s,
                                 !.todo = {s}, !.got = Latest, !.depth = n])
    BY <1>17 DEF ReadDetail
  <2>. DEFINE j2 == [Idle EXCEPT !.pc = "store", !.date = Date(now), !.sec = s, !.todo = {s},
                       !.got = Latest, !.depth = n]
  <2>2. /\ Set(p, j1) \/ Set(p, j2)
        /\ snaps' = snaps
        /\ j1.pc = "served" /\ j1.got = Idle.got /\ j2.pc = "store" /\ j2.got = Latest
    BY <1>17, <2>1 DEF ReadDetail, Idle
  <2>. HIDE DEF j1, j2
  <2>. QED BY <1>6, <1>7, <2>2
\* The walk through the universe.
<1>20. CASE Ingest(p)
  <2>1. PICK s \in J.todo, new \in {0, 1} :
          Set(p, [J EXCEPT !.pc = "check", !.todo = @ \ {s}, !.sec = s, !.twice = (new = 1)])
    BY <1>20 DEF Ingest
  <2>. DEFINE j == [J EXCEPT !.pc = "check", !.todo = @ \ {s}, !.sec = s, !.twice = (new = 1)]
  <2>2. Set(p, j) /\ j.pc = "check" /\ j.got = J.got /\ snaps' = snaps
    BY <1>1, <1>20, <2>1 DEF Ingest, JobRecord
  <2>. HIDE DEF j
  <2>. QED BY <1>6, <1>8, <2>2
<1>21. CASE LockedSnapshot(p)
  <2>1. /\ Set(p, Rebuilt(p, Len(snaps[J.sec]))) /\ snaps' = snaps
        /\ J.sec \in Securities
    BY <1>2, <1>21 DEF LockedSnapshot, At
  <2>2. Len(snaps[J.sec]) >= 1 BY <1>1, <2>1 DEF HistoryOK
  <2>3. Len(snaps[J.sec]) \in 1 .. Len(snaps[J.sec]) BY <1>1, <2>1, <2>2, SnapshotAt
  <2>4. Held(Rebuilt(p, Len(snaps[J.sec])), snaps) BY <2>1, <2>3, HeldRebuilt
  <2>. QED BY <1>6, <2>1, <2>4
<1>22. CASE ReadLatestEvent(p)
  <2>. DEFINE j == [J EXCEPT !.pc = "generate", !.ev = events[J.sec], !.snap = Len(snaps[J.sec])]
  <2>1. Set(p, j) /\ j.pc = "generate" /\ j.got = J.got /\ snaps' = snaps
    BY <1>1, <1>22 DEF ReadLatestEvent, JobRecord
  <2>. HIDE DEF j
  <2>. QED BY <1>6, <1>8, <2>1
<1>23. CASE Generate(p)
  <2>. DEFINE s0 == J.sec
              j == [J EXCEPT !.pc = "track", !.ev = 0, !.snap = Len(snaps[s0]) + 1]
  <2>1. s0 \in Securities BY <1>2, <1>23 DEF Generate, At
  <2>2. snaps' = [snaps EXCEPT ![s0] = Append(@, NewSnapshot(p))] /\ Set(p, j)
    BY <1>23 DEF Generate
  <2>3. j.pc = "track" /\ j.got = J.got /\ j.sec = s0 /\ j.snap = Len(snaps[s0]) + 1
    BY <1>1 DEF JobRecord
  <2>4. job'[p] = j BY <1>1, <2>2, SetJob
  <2>5. Len(snaps'[s0]) = Len(snaps[s0]) + 1 /\ Len(snaps[s0]) \in Nat
    <3>1. snaps \in [Securities -> Seq(Snapshot)] BY <1>1 DEF TypeOK
    <3>2. snaps'[s0] = Append(snaps[s0], NewSnapshot(p)) BY <2>1, <2>2, <3>1
    <3>3. NewSnapshot(p) \in Snapshot
      <4>1. now \in Slots BY <1>1 DEF TypeOK
      <4>. QED BY <1>1, <4>1 DEF NewSnapshot, Snapshot, JobRecord
    <3>4. snaps[s0] \in Seq(Snapshot) BY <2>1, <3>1
    <3>. HIDE DEF s0
    <3>. QED BY <3>2, <3>3, <3>4
  <2>6. \A s \in Securities : J.got[s] <= Len(snaps'[s])
    <3>. SUFFICES ASSUME NEW s \in Securities PROVE J.got[s] <= Len(snaps'[s]) OBVIOUS
    <3>1. J.got[s] <= Len(snaps[s]) /\ Len(snaps[s]) <= Len(snaps'[s])
      BY <1>1 DEF Held, Grows
    <3>2. J.got[s] \in Nat /\ Len(snaps[s]) \in Nat /\ Len(snaps'[s]) \in Nat
      BY <1>1, SnapshotAt DEF TypeOK
    <3>. QED BY <3>1, <3>2
  <2>. HIDE DEF j, s0
  <2>. QED BY <2>3, <2>4, <2>5, <2>6 DEF Held
<1>24. CASE Track(p)
  <2>1. J.snap \in 1 .. Len(snaps[J.sec]) /\ J.sec \in Securities /\ snaps' = snaps
    BY <1>1, <1>2, <1>24 DEF Track, At, Held
  <2>. DEFINE j == [J EXCEPT !.pc = "trackInsert"]
  <2>2. Set(p, Rebuilt(p, J.snap)) \/ Set(p, j) BY <1>24 DEF Track
  <2>3. j.pc = "trackInsert" /\ j.got = J.got /\ j.snap = J.snap /\ j.sec = J.sec
    BY <1>1 DEF JobRecord
  <2>. HIDE DEF j
  <2>4. Held(j, snaps) BY <1>1, <2>1, <2>3 DEF Held
  <2>5. Held(Rebuilt(p, J.snap), snaps) BY <2>1, HeldRebuilt
  <2>. QED BY <1>6, <2>1, <2>2, <2>4, <2>5
<1>25. CASE TrackInsert(p)
  <2>1. J.snap \in 1 .. Len(snaps[J.sec]) /\ J.sec \in Securities /\ snaps' = snaps
    BY <1>1, <1>2, <1>25 DEF TrackInsert, At, Held
  <2>2. End(p) \/ Set(p, Rebuilt(p, J.snap)) BY <1>25 DEF TrackInsert, InsertOutcomes
  <2>3. Held(Rebuilt(p, J.snap), snaps) BY <2>1, HeldRebuilt
  <2>. QED BY <1>5, <1>6, <2>1, <2>2, <2>3
<1>26. CASE DeleteDaily(p) \/ LockDaily(p) \/ InsertDaily(p)
  BY <1>1, <1>8, <1>26, PublishJob DEF PublishLabels
<1>27. CASE PublishDaily(p)
  <2>. DEFINE j == [J EXCEPT !.pc = "load", !.held = {}, !.want = {}]
  <2>1. j \in JobRecord /\ j.pc = "load" /\ j.got = J.got BY <1>1 DEF JobRecord
  <2>2. job' = Committed(job, p, j, Deleting) /\ snaps' = snaps BY <1>27 DEF PublishDaily
  <2>. HIDE DEF j
  <2>3. job'[p] = j BY <1>1, <2>1, <2>2, CommittedJob
  <2>. QED BY <1>8, <2>1, <2>2, <2>3
\* The users, the report and the readers.
<1>28. CASE ReadSnapshots(p)
  <2>1. PICK u : Set(p, [J EXCEPT !.pc = "deleteRecs", !.user = u, !.users = @ \ {u},
                                  !.got = Latest])
    BY <1>28 DEF ReadSnapshots
  <2>. DEFINE j == [J EXCEPT !.pc = "deleteRecs", !.user = u, !.users = @ \ {u}, !.got = Latest]
  <2>2. Set(p, j) /\ j.pc = "deleteRecs" /\ j.got = Latest /\ snaps' = snaps
    BY <1>1, <1>28, <2>1 DEF ReadSnapshots, JobRecord
  <2>. HIDE DEF j
  <2>. QED BY <1>6, <1>7, <2>2
<1>30. CASE DeleteRecs(p) \/ LockRecs(p) \/ InsertRecs(p)
  <2>1. snaps' = snaps BY <1>30 DEF DeleteRecs, LockRecs, InsertRecs
  <2>. QED BY <1>1, <1>8, <1>30, <2>1, RecsJob DEF RecsLabels
<1>31. CASE CommitRecs(p)
  <2>1. job'[p] = AfterUser(p) /\ snaps' = snaps
    BY <1>1, <1>31, CommittedJob, AfterUserType DEF CommitRecs
  <2>2. AfterUser(p).pc \notin {"track", "trackInsert"} BY <1>1, AfterUserType
  <2>3. AfterUser(p).got \in {J.got, Idle.got} BY <1>1 DEF AfterUser, JobRecord, Idle
  <2>. QED BY <1>7, <1>8, <2>1, <2>2, <2>3
<1>32. CASE LoadSnapshots(p)
  <2>. DEFINE j == [J EXCEPT !.pc = "ensure", !.got = Latest]
  <2>1. Set(p, j) /\ j.pc = "ensure" /\ j.got = Latest /\ snaps' = snaps
    BY <1>1, <1>32 DEF LoadSnapshots, JobRecord
  <2>. HIDE DEF j
  <2>. QED BY <1>6, <1>7, <2>1
<1>33. CASE EnsureOutcomes(p)
  <2>1. PICK s \in Securities : \E i \in Missing(p, s) :
          Set(p, [J EXCEPT !.pc = "ensureInsert", !.sec = s, !.snap = i])
    BY <1>33 DEF EnsureOutcomes
  <2>5. PICK i \in Missing(p, s) :
          Set(p, [J EXCEPT !.pc = "ensureInsert", !.sec = s, !.snap = i])
    BY <2>1
  <2>. DEFINE j == [J EXCEPT !.pc = "ensureInsert", !.sec = s, !.snap = i]
  <2>2. /\ Set(p, j) /\ j.pc = "ensureInsert" /\ j.got = J.got /\ j.sec = s /\ j.snap = i
        /\ snaps' = snaps
    BY <1>1, <1>33, <2>5 DEF EnsureOutcomes, JobRecord
  <2>. HIDE DEF j
  <2>. QED BY <1>6, <1>8, <2>2
<1>34. CASE EnsureInsert(p)
  <2>. DEFINE j == [J EXCEPT !.pc = "ensure", !.snap = 0]
  <2>1. /\ End(p) \/ Set(p, j)
        /\ j.pc = "ensure" /\ j.got = J.got /\ snaps' = snaps
    BY <1>1, <1>34 DEF EnsureInsert, InsertOutcomes, JobRecord
  <2>. HIDE DEF j
  <2>. QED BY <1>5, <1>6, <1>8, <2>1
<1>35. CASE \/ DailyConflict(p) \/ RecsConflict(p) \/ Deadlock(p) \/ RecursionFails(p)
            \/ FinishReport(p) \/ ReportConflict(p) \/ Respond(p) \/ Crash(p)
  <2>1. End(p) /\ snaps' = snaps
    BY <1>35 DEF DailyConflict, RecsConflict, Deadlock, RecursionFails, FinishReport,
       ReportConflict, Respond, Crash
  <2>. QED BY <1>5, <2>1
<1>36. CASE StoreCheck(p)
  <2>1. PICK s \in J.todo, next \in AfterStore(p) :
          \/ Set(p, [J EXCEPT !.todo = @ \ {s}, !.pc = IF J.todo = {s} THEN next ELSE "store"])
          \/ Set(p, [J EXCEPT !.pc = "storeInsert", !.sec = s])
    BY <1>36 DEF StoreCheck, AfterStore
  <2>. DEFINE j1 == [J EXCEPT !.todo = @ \ {s}, !.pc = IF J.todo = {s} THEN next ELSE "store"]
              j2 == [J EXCEPT !.pc = "storeInsert", !.sec = s]
  <2>2. next \in {"feed", "detail", "served"} BY DEF AfterStore
  <2>3. /\ Set(p, j1) \/ Set(p, j2)
        /\ j1.pc \in {"store", "feed", "detail", "served"} /\ j1.got = J.got
        /\ j2.pc = "storeInsert" /\ j2.got = J.got /\ snaps' = snaps
    BY <1>1, <1>36, <2>1, <2>2 DEF StoreCheck, JobRecord
  <2>. HIDE DEF j1, j2
  <2>. QED BY <1>6, <1>8, <2>3
<1>37. CASE StoreInsert(p)
  <2>1. PICK next \in AfterStore(p) :
          \/ End(p)
          \/ Set(p, [J EXCEPT !.todo = @ \ {J.sec},
                              !.pc = IF J.todo = {J.sec} THEN next ELSE "store"])
    BY <1>37 DEF StoreInsert, AfterStore
  <2>. DEFINE j == [J EXCEPT !.todo = @ \ {J.sec},
                             !.pc = IF J.todo = {J.sec} THEN next ELSE "store"]
  <2>2. next \in {"feed", "detail", "served"} BY DEF AfterStore
  <2>3. /\ End(p) \/ Set(p, j)
        /\ j.pc \in {"store", "feed", "detail", "served"} /\ j.got = J.got /\ snaps' = snaps
    BY <1>1, <1>37, <2>1, <2>2 DEF StoreInsert, JobRecord
  <2>. HIDE DEF j
  <2>. QED BY <1>5, <1>6, <1>8, <2>3
<1>. QED
  BY <1>10, <1>11, <1>12, <1>13, <1>14, <1>15, <1>16, <1>17, <1>20, <1>21, <1>22, <1>23, <1>24,
     <1>25, <1>26, <1>27, <1>28, <1>30, <1>31, <1>32, <1>33, <1>34, <1>35, <1>36, <1>37
  DEF Start, Step

\* What the cache names, when a step writes a row.
LEMMA CacheStep ==
  ASSUME DInv, TypeOK', Grows, NEW p \in Jobs, Start(p) \/ Step(p) \/ Crash(p)
  PROVE  CacheHeld'
<1>. DEFINE J == job[p]
<1>1. /\ TypeOK /\ J \in JobRecord /\ Held(J, snaps) /\ CacheHeld
      /\ J.got \in [Securities -> Nat]
      /\ daily \in [Dates -> [Securities -> Nat]]
  BY DEF DInv, IInv, Typed, TypeOK, JobRecord
<1>2. \A s \in Securities : /\ Len(snaps[s]) \in Nat /\ Len(snaps'[s]) \in Nat
                            /\ Len(snaps[s]) <= Len(snaps'[s])
  BY <1>1 DEF TypeOK, Grows
<1>3. \A d \in Dates, s \in Securities : daily'[d][s] <= Len(snaps[s])
  <2>1. CASE daily' = daily BY <1>1, <2>1 DEF CacheHeld
  <2>2. CASE daily' = [daily EXCEPT ![J.date] = J.got]
    <3>. SUFFICES ASSUME NEW d \in Dates, NEW s \in Securities
                  PROVE  daily'[d][s] <= Len(snaps[s])
      OBVIOUS
    <3>1. daily'[d] = daily[d] \/ daily'[d] = J.got BY <1>1, <2>2
    <3>. QED BY <1>1, <3>1 DEF CacheHeld, Held
  <2>3. CASE daily' = [daily EXCEPT ![J.date][J.sec] = J.got[J.sec]]
    <3>. SUFFICES ASSUME NEW d \in Dates, NEW s \in Securities
                  PROVE  daily'[d][s] <= Len(snaps[s])
      OBVIOUS
    <3>. DEFINE d0 == J.date
                s0 == J.sec
                i0 == J.got[J.sec]
    <3>0. daily' = [daily EXCEPT ![d0][s0] = i0] BY <2>3
    <3>1. s0 = s => i0 = J.got[s] OBVIOUS
    <3>. HIDE DEF d0, s0, i0, J
    <3>2. daily[d] \in [Securities -> Nat] BY <1>1
    <3>3. daily'[d] = daily[d] \/ daily'[d] = [daily[d] EXCEPT ![s0] = i0] BY <1>1, <3>0
    <3>4. daily'[d][s] = daily[d][s] \/ (s = s0 /\ daily'[d][s] = i0) BY <3>2, <3>3
    <3>. QED BY <1>1, <3>1, <3>4 DEF CacheHeld, Held
  <2>4. daily' = daily \/ PublishDaily(p) \/ StoreInsert(p) BY DailyOnlyWritten
  <2>. QED BY <2>1, <2>2, <2>3, <2>4 DEF PublishDaily, StoreInsert
<1>6. \A d \in Dates, s \in Securities : daily'[d][s] <= Len(snaps'[s])
  <2>. SUFFICES ASSUME NEW d \in Dates, NEW s \in Securities PROVE daily'[d][s] <= Len(snaps'[s])
    OBVIOUS
  <2>1. daily'[d][s] \in Nat BY DEF TypeOK
  <2>2. daily'[d][s] <= Len(snaps[s]) BY <1>3
  <2>. QED BY <1>2, <2>1, <2>2
<1>. QED BY <1>6 DEF CacheHeld

LEMMA StepDInv == DInv /\ [Next]_vars => DInv'
<1>. SUFFICES ASSUME DInv, [Next]_vars PROVE DInv' OBVIOUS
<1>1. IInv /\ IInv' /\ Typed /\ TypeOK /\ TypeOK' BY StepIInv DEF DInv, IInv, Typed
<1>2. Grows BY <1>1, NextGrows
<1>3. ASSUME NEW q \in Jobs
      PROVE  job[q] \in JobRecord /\ (job[q].pc \in {"track", "trackInsert"} => job[q].sec \in Securities)
  BY <1>1 DEF Typed, TypeOK, SubjectOK
<1>4. ASSUME NEW q \in Jobs PROVE Held(job[q], snaps')
  BY <1>1, <1>2, <1>3, HeldStays DEF DInv
<1>5. CASE job' = job /\ snaps' = snaps /\ daily' = daily
  BY <1>1, <1>5 DEF DInv, CacheHeld
<1>6. ASSUME NEW p \in Jobs, Start(p) \/ Step(p) \/ Crash(p) PROVE DInv'
  <2>1. CacheHeld' BY <1>1, <1>2, <1>6, CacheStep
  <2>2. ASSUME NEW q \in Jobs PROVE Held(job'[q], snaps')
    <3>1. CASE q = p BY <1>1, <1>2, <1>6, <3>1, HeldStep
    <3>2. CASE q # p
      <4>1. /\ job'[q].pc = job[q].pc /\ job'[q].sec = job[q].sec
            /\ job'[q].snap = job[q].snap /\ job'[q].got = job[q].got
        BY <1>1, <1>6, <3>2, OthersKeep DEF SameWork
      <4>2. Held(job[q], snaps') BY <1>4
      <4>. QED BY <4>1, <4>2 DEF Held
    <3>. QED BY <3>1, <3>2
  <2>. QED BY <1>1, <2>1, <2>2 DEF DInv
<1>. QED BY <1>5, <1>6 DEF Next, Tick, vars

LEMMA InitDInv == Init => DInv
<1>. SUFFICES ASSUME Init PROVE CacheHeld /\ \A p \in Jobs : Held(job[p], snaps)
  BY InitIInv DEF DInv
<1>1. \A s \in Securities : Len(snaps[s]) = 1 BY DEF Init
<1>2. CacheHeld BY <1>1 DEF Init, CacheHeld
<1>3. \A p \in Jobs : Held(job[p], snaps) BY <1>1 DEF Init, Idle, Held
<1>. QED BY <1>2, <1>3

OneRebuilder == \A p, q \in Rebuilders : p = q

\* Nobody overtakes the only rebuilder: what it has collected is the latest.
Newest(p, j, sn) ==
  p \in Refreshers /\ j.pc \in WalkLabels =>
    /\ \A s \in Securities \ j.todo :
         \/ j.pc \in RebuildLabels /\ s = j.sec
         \/ j.got[s] = Len(sn[s])
    /\ j.pc \in {"track", "trackInsert"} => j.snap = Len(sn[j.sec])
CInv == DInv /\ \A p \in Jobs : Newest(p, job[p], snaps)

LEMMA NewestElsewhere ==
  ASSUME NEW p, NEW j, NEW sn, p \notin Refreshers \/ j.pc \notin WalkLabels
  PROVE  Newest(p, j, sn)
BY DEF Newest

LEMMA NewestRebuilt ==
  ASSUME CInv, NEW p \in Jobs, job[p].pc \in RebuildLabels, NEW i, i = Len(snaps[job[p].sec])
  PROVE  Newest(p, Rebuilt(p, i), snaps)
<1>. DEFINE J == job[p]
            R == Rebuilt(p, i)
<1>. SUFFICES ASSUME p \in Refreshers PROVE Newest(p, R, snaps)
  BY NewestElsewhere
<1>1. J \in JobRecord /\ J.got \in [Securities -> Nat]
  BY DEF CInv, DInv, IInv, Typed, TypeOK, JobRecord
<1>2. /\ R.got = [J.got EXCEPT ![J.sec] = i]
      /\ R.todo = J.todo
      /\ R.pc \notin {"track", "trackInsert"}
  BY <1>1 DEF Rebuilt, JobRecord
<1>3. Newest(p, J, snaps) /\ J.pc \in WalkLabels BY DEF CInv, WalkLabels
<1>4. ASSUME NEW s \in Securities \ J.todo PROVE R.got[s] = Len(snaps[s])
  <2>1. CASE s = J.sec BY <1>1, <1>2, <2>1
  <2>2. CASE s # J.sec
    <3>1. J.got[s] = Len(snaps[s]) BY <1>3, <2>2 DEF Newest
    <3>. QED BY <1>1, <1>2, <2>2, <3>1
  <2>. QED BY <2>1, <2>2
<1>. HIDE DEF R
<1>. QED BY <1>2, <1>4 DEF Newest

LEMMA NewestStep ==
  ASSUME CInv, NEW p \in Jobs, Start(p) \/ Step(p) \/ Crash(p)
  PROVE  Newest(p, job'[p], snaps')
<1>. DEFINE J == job[p]
<1>1. /\ Typed /\ TypeOK /\ J \in JobRecord /\ Newest(p, J, snaps)
      /\ J.got \in [Securities -> Nat]
  BY DEF CInv, DInv, IInv, Typed, TypeOK, JobRecord
<1>2. J.pc \in RebuildLabels => J.sec \in Securities
  BY DEF CInv, DInv, IInv, Typed, SubjectOK, RebuildLabels
<1>3. ASSUME NEW j, Set(p, j), Newest(p, j, snaps') PROVE Newest(p, job'[p], snaps')
  BY <1>1, <1>3, SetJob
<1>4. End(p) => Newest(p, job'[p], snaps')
  BY <1>1, EndJob, NewestElsewhere DEF WalkLabels, PublishLabels, RebuildLabels
<1>5. CASE StartRefresh(p)
  <2>. DEFINE j == [Idle EXCEPT !.pc = "ingest", !.todo = Securities, !.started = now]
  <2>1. Set(p, j) /\ j.pc = "ingest" /\ j.todo = Securities BY <1>5 DEF StartRefresh, Idle
  <2>. HIDE DEF j
  <2>2. Newest(p, j, snaps') BY <2>1 DEF Newest
  <2>. QED BY <1>3, <2>1, <2>2
<1>6. CASE p \in Submitters /\ SubmitEvent(p)
  <2>1. p \notin Refreshers BY <1>6, KindsAssumption
  <2>. QED BY <2>1, NewestElsewhere
<1>7. CASE Ingest(p)
  <2>1. PICK s \in J.todo, new \in {0, 1} :
          Set(p, [J EXCEPT !.pc = "check", !.todo = @ \ {s}, !.sec = s, !.twice = (new = 1)])
    BY <1>7 DEF Ingest
  <2>. DEFINE j == [J EXCEPT !.pc = "check", !.todo = @ \ {s}, !.sec = s, !.twice = (new = 1)]
  <2>2. /\ Set(p, j) /\ j.pc = "check" /\ j.got = J.got /\ j.todo = J.todo \ {s} /\ j.sec = s
        /\ snaps' = snaps /\ J.pc = "ingest"
    BY <1>1, <1>7, <2>1 DEF Ingest, At, JobRecord
  <2>. HIDE DEF j, J
  <2>3. Newest(p, j, snaps') BY <1>1, <2>2 DEF Newest, WalkLabels, RebuildLabels
  <2>. QED BY <1>3, <2>2, <2>3
<1>8. CASE LockedSnapshot(p)
  <2>1. Set(p, Rebuilt(p, Len(snaps[J.sec]))) /\ snaps' = snaps /\ J.pc \in RebuildLabels
    BY <1>8 DEF LockedSnapshot, At, RebuildLabels
  <2>2. Newest(p, Rebuilt(p, Len(snaps[J.sec])), snaps) BY <2>1, NewestRebuilt
  <2>. QED BY <1>3, <2>1, <2>2
<1>9. CASE ReadLatestEvent(p)
  <2>. DEFINE j == [J EXCEPT !.pc = "generate", !.ev = events[J.sec], !.snap = Len(snaps[J.sec])]
  <2>1. /\ Set(p, j) /\ j.pc = "generate" /\ j.got = J.got /\ j.todo = J.todo /\ j.sec = J.sec
        /\ snaps' = snaps /\ J.pc = "check"
    BY <1>1, <1>9 DEF ReadLatestEvent, At, JobRecord
  <2>. HIDE DEF j, J
  <2>2. Newest(p, j, snaps') BY <1>1, <2>1 DEF Newest, WalkLabels, RebuildLabels
  <2>. QED BY <1>3, <2>1, <2>2
<1>10. CASE Generate(p)
  <2>. DEFINE s0 == J.sec
              j == [J EXCEPT !.pc = "track", !.ev = 0, !.snap = Len(snaps[s0]) + 1]
  <2>1. s0 \in Securities /\ J.pc = "generate"
    BY <1>2, <1>10 DEF Generate, At, RebuildLabels
  <2>2. snaps' = [snaps EXCEPT ![s0] = Append(@, NewSnapshot(p))] /\ Set(p, j)
    BY <1>10 DEF Generate
  <2>3. /\ j.pc = "track" /\ j.got = J.got /\ j.sec = s0 /\ j.snap = Len(snaps[s0]) + 1
        /\ j.todo = J.todo
    BY <1>1 DEF JobRecord
  <2>4. Len(snaps'[s0]) = Len(snaps[s0]) + 1 /\ \A s \in Securities : s # s0 => snaps'[s] = snaps[s]
    <3>1. snaps \in [Securities -> Seq(Snapshot)] BY <1>1 DEF TypeOK
    <3>2. snaps'[s0] = Append(snaps[s0], NewSnapshot(p)) BY <2>1, <2>2, <3>1
    <3>3. NewSnapshot(p) \in Snapshot
      <4>1. now \in Slots BY <1>1 DEF TypeOK
      <4>. QED BY <1>1, <4>1 DEF NewSnapshot, Snapshot, JobRecord
    <3>4. snaps[s0] \in Seq(Snapshot) BY <2>1, <3>1
    <3>5. \A s \in Securities : s # s0 => snaps'[s] = snaps[s] BY <2>2, <3>1
    <3>. HIDE DEF s0
    <3>. QED BY <3>2, <3>3, <3>4, <3>5
  <2>. HIDE DEF j, s0, J
  <2>5. Newest(p, j, snaps')
    <3>. SUFFICES ASSUME p \in Refreshers, NEW s \in Securities \ J.todo, s # s0
                  PROVE  J.got[s] = Len(snaps'[s])
      BY <2>3, <2>4 DEF Newest, RebuildLabels
    <3>1. J.got[s] = Len(snaps[s]) BY <1>1, <2>1 DEF Newest, WalkLabels, RebuildLabels, s0
    <3>. QED BY <2>4, <3>1
  <2>. QED BY <1>3, <2>2, <2>5
<1>11. CASE Track(p) \/ TrackInsert(p)
  <2>. DEFINE j == [J EXCEPT !.pc = "trackInsert"]
  <2>1. /\ End(p) \/ Set(p, Rebuilt(p, J.snap)) \/ (Set(p, j) /\ J.pc = "track")
        /\ snaps' = snaps /\ J.pc \in {"track", "trackInsert"}
    BY <1>11 DEF Track, TrackInsert, InsertOutcomes, At
  <2>2. /\ j.pc = "trackInsert" /\ j.got = J.got /\ j.snap = J.snap /\ j.sec = J.sec
        /\ j.todo = J.todo
    BY <1>1 DEF JobRecord
  <2>. HIDE DEF j
  <2>3. Newest(p, j, snaps') BY <1>1, <2>1, <2>2 DEF Newest, WalkLabels, RebuildLabels
  <2>4. Newest(p, Rebuilt(p, J.snap), snaps')
    <3>1. CASE p \notin Refreshers BY <3>1, NewestElsewhere
    <3>2. CASE p \in Refreshers
      <4>1. J.snap = Len(snaps[J.sec])
        BY <1>1, <2>1, <3>2 DEF Newest, WalkLabels, RebuildLabels
      <4>. QED BY <2>1, <4>1, NewestRebuilt DEF RebuildLabels
    <3>. QED BY <3>1, <3>2
  <2>. QED BY <1>3, <1>4, <2>1, <2>3, <2>4
<1>12. CASE DeleteDaily(p) \/ LockDaily(p) \/ InsertDaily(p)
  <2>. DEFINE j == job'[p]
  <2>1. /\ J.pc \in PublishLabels /\ j.pc \in PublishLabels
        /\ j.todo = J.todo /\ j.got = J.got /\ snaps' = snaps
    BY <1>1, <1>12, PublishJob
  <2>. HIDE DEF j, J
  <2>2. Newest(p, j, snaps')
    BY <1>1, <2>1 DEF Newest, WalkLabels, PublishLabels, RebuildLabels
  <2>. QED BY <2>2 DEF j
<1>13. CASE \/ ReadFeed(p) \/ ReadDetail(p) \/ StoreCheck(p) \/ StoreInsert(p)
  BY <1>1, <1>4, <1>13, ReadersElsewhere, NewestElsewhere
<1>14. CASE \/ StartUp(p) \/ StartReport(p) \/ SaveProfile(p) \/ Acknowledge(p)
            \/ DailyConflict(p) \/ PublishDaily(p) \/ LoadUsers(p)
            \/ ReadSnapshots(p) \/ DeleteRecs(p) \/ LockRecs(p)
            \/ RecsConflict(p) \/ InsertRecs(p) \/ CommitRecs(p)
            \/ Deadlock(p) \/ RecursionFails(p)
            \/ LoadSnapshots(p) \/ EnsureOutcomes(p) \/ EnsureInsert(p) \/ FinishReport(p)
            \/ ReportConflict(p) \/ Respond(p) \/ Crash(p)
  BY <1>1, <1>14, RestElsewhere, NewestElsewhere
<1>. QED
  BY <1>5, <1>6, <1>7, <1>8, <1>9, <1>10, <1>11, <1>12, <1>13, <1>14 DEF Start, Step

LEMMA StepCInv ==
  ASSUME OneRebuilder, CInv, [Next]_vars
  PROVE  CInv'
<1>1. DInv /\ DInv' /\ IInv /\ IInv' /\ Typed /\ TypeOK BY StepDInv DEF CInv, DInv, IInv, Typed
<1>2. CASE job' = job /\ snaps' = snaps BY <1>1, <1>2 DEF CInv, Newest
<1>3. ASSUME NEW p \in Jobs, Start(p) \/ Step(p) \/ Crash(p), NEW q \in Jobs
      PROVE  Newest(q, job'[q], snaps')
  <2>1. CASE q = p BY <1>3, <2>1, NewestStep
  <2>2. CASE q # p
    <3>. SUFFICES ASSUME q \in Refreshers, job'[q].pc \in WalkLabels
                  PROVE  Newest(q, job'[q], snaps')
      BY NewestElsewhere
    <3>1. SameWork(q) BY <1>1, <1>3, <2>2, OthersKeep
    <3>2. ~Generate(p)
      <4>. SUFFICES ASSUME Generate(p) PROVE FALSE OBVIOUS
      <4>1. p \in Rebuilders
        BY <1>1 DEF IInv, Fresh, FreshWork, WalkLabels, RebuildLabels, Generate, At
      <4>2. q \in Rebuilders BY DEF Rebuilders
      <4>. QED BY <2>2, <4>1, <4>2 DEF OneRebuilder
    <3>3. snaps' = snaps BY <1>3, <3>2, SnapsOnlyGenerated
    <3>4. Newest(q, job[q], snaps) BY DEF CInv
    <3>. QED BY <3>1, <3>3, <3>4 DEF Newest, SameWork
  <2>. QED BY <2>1, <2>2
<1>. QED BY <1>1, <1>2, <1>3 DEF CInv, Next, Tick, vars

LEMMA NeverBackStep ==
  ASSUME CInv, [Next]_vars
  PROVE  [\A d \in Dates, s \in Securities : daily[d][s] <= daily'[d][s]]_daily
<1>1. /\ TypeOK /\ CacheHeld /\ Fresh
      /\ daily \in [Dates -> [Securities -> Nat]]
  BY DEF CInv, DInv, IInv, Typed, TypeOK
<1>2. ASSUME NEW p \in Jobs, PublishDaily(p), daily' # daily,
             NEW d \in Dates, NEW s \in Securities
      PROVE  daily[d][s] <= daily'[d][s]
  <2>. DEFINE J == job[p]
              d0 == J.date
              got == J.got
  <2>1. daily' = [daily EXCEPT ![d0] = got] /\ J.pc = "publish" BY <1>2 DEF PublishDaily, At
  <2>2. daily[d][s] \in Nat BY <1>1
  <2>3. p \in Refreshers BY <1>1, <2>1 DEF Fresh, FreshWork, PublishLabels
  <2>4. J.todo = {}
    BY <1>1, <2>1, <2>3 DEF Fresh, FreshWork, Collected, WalkLabels, PublishLabels
  <2>5. got[s] = Len(snaps[s])
    BY <2>1, <2>3, <2>4 DEF CInv, Newest, WalkLabels, PublishLabels, RebuildLabels
  <2>6. daily[d][s] <= Len(snaps[s]) BY <1>1 DEF CacheHeld
  <2>. HIDE DEF J, d0, got
  <2>7. daily'[d] = daily[d] \/ daily'[d] = got BY <1>1, <2>1
  <2>. QED BY <2>2, <2>5, <2>6, <2>7
<1>3. ASSUME NEW p \in Jobs, StoreInsert(p), daily' # daily,
             NEW d \in Dates, NEW s \in Securities
      PROVE  daily[d][s] <= daily'[d][s]
  <2>. DEFINE d0 == job[p].date
              s0 == job[p].sec
              i0 == job[p].got[s0]
  <2>1. daily' = [daily EXCEPT ![d0][s0] = i0] /\ daily[d0][s0] = 0
    BY <1>3 DEF StoreInsert, RowTaken
  <2>2. i0 \in Nat
    <3>1. job[p] \in JobRecord /\ s0 \in Securities
      BY <1>1, <1>3 DEF TypeOK, CInv, DInv, IInv, Typed, SubjectOK, StoreInsert, At
    <3>. QED BY <3>1 DEF JobRecord
  <2>. HIDE DEF d0, s0, i0
  <2>3. daily[d] \in [Securities -> Nat] BY <1>1
  <2>4. daily'[d] = daily[d] \/ (d = d0 /\ daily'[d] = [daily[d] EXCEPT ![s0] = i0])
    BY <1>1, <2>1
  <2>5. daily'[d][s] = daily[d][s] \/ (d = d0 /\ s = s0 /\ daily'[d][s] = i0) BY <2>3, <2>4
  <2>. QED BY <2>1, <2>2, <2>3, <2>5
<1>4. ASSUME NEW p \in Jobs, Start(p) \/ Step(p) \/ Crash(p)
      PROVE  PublishDaily(p) \/ StoreInsert(p) \/ daily' = daily
  BY <1>4, DailyOnlyWritten
<1>. QED BY <1>2, <1>3, <1>4 DEF Next, Tick, vars

\* While one job rebuilds, a cached row never goes back to an older snapshot:
\* readers fill only what is missing, and what the refresh publishes is the latest
\* (refresh_market_state, _refresh_daily_prediction_cache,
\* _store_daily_prediction).
THEOREM NeverBack ==
  ASSUME OneRebuilder
  PROVE  Spec => CacheNeverGoesBack
<1>1. Init => CInv
  <2>1. Init => \A p \in Jobs : Newest(p, job[p], snaps)
    BY DEF Init, Idle, Newest, WalkLabels, PublishLabels, RebuildLabels
  <2>. QED BY <2>1, InitDInv DEF CInv
<1>2. CInv /\ [Next]_vars => CInv' BY StepCInv
<1>3. CInv /\ [Next]_vars
        => [\A d \in Dates, s \in Securities : daily[d][s] <= daily'[d][s]]_daily
  BY NeverBackStep
<1>. QED BY <1>1, <1>2, <1>3, PTL DEF Spec, CacheNeverGoesBack

===============================================================================

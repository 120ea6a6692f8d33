------------------------ MODULE MarketPipeline_proofs -------------------------
(***************************************************************************)
(* What TLAPS proves of MarketPipeline, for any universe, any sets of jobs *)
(* and any bounds: types are kept, PublishedFresh is an invariant and the  *)
(* daily cache implements DailyBoard.                                      *)
(*                                                                         *)
(* PublishedFresh is not inductive: it says nothing of a refresh that is   *)
(* still walking the universe.  FreshWork follows the walk.  Every         *)
(* security that is neither waiting its turn nor being rebuilt has a       *)
(* snapshot from the window the refresh began in or a later one.  It also  *)
(* says what a reader is about to store.                                   *)
(***************************************************************************)
EXTENDS MarketPipeline, TLAPS

-------------------------------------------------------------------------------
\* The clock.

LEMMA DateInDates == ASSUME NEW t \in Slots PROVE Date(t) \in Dates
  BY BoundsAssumption, SMT DEF Slots, Dates, Date

LEMMA CutoffMonotone ==
  ASSUME NEW t \in Slots, NEW v \in Slots, t <= v
  PROVE  Cutoff(t) \in Int /\ Cutoff(t) <= Cutoff(v) /\ Cutoff(v) <= v
  BY BoundsAssumption, SMT DEF Slots, Cutoff

LEMMA ZeroIsADate == 0 \in Dates /\ 0 \in Slots
  BY BoundsAssumption, SMT DEF Slots, Dates, Date

-------------------------------------------------------------------------------
\* Jobs keep their type.

LEMMA IdleType == Idle \in JobRecord
  BY ZeroIsADate, BoundsAssumption DEF Idle, JobRecord

LEMMA SetType ==
  ASSUME TypeOK, NEW p \in Jobs, NEW j \in JobRecord, Set(p, j)
  PROVE  job' \in [Jobs -> JobRecord]
  BY DEF TypeOK, Set

LEMMA EndType ==
  ASSUME TypeOK, NEW p \in Jobs, End(p)
  PROVE  job' \in [Jobs -> JobRecord]
  BY SetType, IdleType DEF End

LEMMA RebuiltType ==
  ASSUME TypeOK, NEW p \in Jobs, job[p].sec \in Securities, NEW i \in Nat
  PROVE  Rebuilt(p, i) \in JobRecord
<1>1. job[p] \in JobRecord BY DEF TypeOK
<1>. QED BY <1>1 DEF Rebuilt, JobRecord

-------------------------------------------------------------------------------
\* A job that is at work on a security or a user names one.

SubjectOK ==
  \A p \in Jobs :
    /\ job[p].pc \in {"check", "generate", "track", "trackInsert", "storeInsert", "ensureInsert"}
         => job[p].sec \in Securities
    /\ job[p].pc \in {"deleteRecs", "lockRecs", "writeRecs"} => job[p].user \in Users

Typed == TypeOK /\ SubjectOK

LEMMA TypedInit == Init => Typed
<1>. SUFFICES ASSUME Init PROVE Typed OBVIOUS
<1>1. now \in Slots /\ crashes \in Nat /\ connector \in {"seeded", "running", "ok"}
  BY ZeroIsADate DEF Init
<1>2. job \in [Jobs -> JobRecord] BY IdleType DEF Init
<1>3. snaps \in [Securities -> Seq(Snapshot)]
  BY ZeroIsADate, SMT DEF Init, Snapshot
<1>4. events \in [Securities -> Nat] /\ tracked \in [Securities -> SUBSET Nat]
  BY DEF Init
<1>5. daily \in [Dates -> [Securities -> Nat]] BY DEF Init
<1>6. profile \in [Users -> Nat] /\ userRecs \in [Users -> SUBSET Recommendation]
  BY DEF Init, Recommendation
<1>7. SubjectOK BY DEF Init, SubjectOK, Idle
<1>. QED BY <1>1, <1>2, <1>3, <1>4, <1>5, <1>6, <1>7 DEF Typed, TypeOK

\* What an action that only moves job p has to show.
LEMMA SetTyped ==
  ASSUME Typed, NEW p \in Jobs, NEW j \in JobRecord, Set(p, j),
         j.pc \in {"check", "generate", "track", "trackInsert", "storeInsert", "ensureInsert"}
           => j.sec \in Securities,
         j.pc \in {"deleteRecs", "lockRecs", "writeRecs"} => j.user \in Users
  PROVE  job' \in [Jobs -> JobRecord] /\ SubjectOK'
<1>1. job' \in [Jobs -> JobRecord] BY SetType DEF Typed
<1>2. SubjectOK'
  <2>. SUFFICES ASSUME NEW q \in Jobs
                PROVE  /\ job'[q].pc \in {"check", "generate", "track", "trackInsert",
                                          "storeInsert", "ensureInsert"}
                            => job'[q].sec \in Securities
                       /\ job'[q].pc \in {"deleteRecs", "lockRecs", "writeRecs"}
                            => job'[q].user \in Users
    BY DEF SubjectOK
  <2>1. CASE q = p BY <2>1 DEF Typed, TypeOK, Set
  <2>2. CASE q # p BY <2>2 DEF Typed, TypeOK, Set, SubjectOK
  <2>. QED BY <2>1, <2>2
<1>. QED BY <1>1, <1>2

LEMMA EndTyped ==
  ASSUME Typed, NEW p \in Jobs, End(p)
  PROVE  job' \in [Jobs -> JobRecord] /\ SubjectOK'
<1>1. Idle \in JobRecord /\ Idle.pc = "idle" BY IdleType DEF Idle
<1>. QED BY <1>1, SetTyped DEF End

\* What a commit does to the jobs: p goes on as j, and of another only "want" shrinks.
LEMMA CommittedJob ==
  ASSUME TypeOK, NEW p \in Jobs, NEW j \in JobRecord, job' = Committed(job, p, j, Deleting)
  PROVE  /\ job' \in [Jobs -> JobRecord]
         /\ job'[p] = j
         /\ \A q \in Jobs \ {p} : job'[q] = [job[q] EXCEPT !.want = job'[q].want]
<1>. DEFINE less(q) == [job[q] EXCEPT !.want = @ \ job[p].held]
<1>1. DOMAIN job = Jobs BY DEF TypeOK
<1>2. job' = [q \in Jobs |-> IF q = p THEN j ELSE IF job[q].pc \in Deleting THEN less(q) ELSE job[q]]
  BY <1>1 DEF Committed
<1>3. ASSUME NEW q \in Jobs
      PROVE  /\ less(q) \in JobRecord
             /\ less(q) = [job[q] EXCEPT !.want = less(q).want]
             /\ job[q] = [job[q] EXCEPT !.want = job[q].want]
  <2>1. job[q] \in JobRecord BY DEF TypeOK
  <2>2. job[q].want \ job[p].held \in SUBSET Keys BY <2>1 DEF JobRecord
  <2>3. less(q).want = job[q].want \ job[p].held BY <2>1 DEF JobRecord
  <2>4. less(q) \in JobRecord BY <2>1, <2>2 DEF JobRecord
  <2>. QED BY <2>1, <2>3, <2>4 DEF JobRecord
<1>4. \A q \in Jobs : job[q] \in JobRecord BY DEF TypeOK
<1>. HIDE DEF less
<1>. QED BY <1>2, <1>3, <1>4

LEMMA CommittedTyped ==
  ASSUME Typed, NEW p \in Jobs, NEW j \in JobRecord, job' = Committed(job, p, j, Deleting),
         j.pc \notin {"check", "generate", "track", "trackInsert", "storeInsert",
                     "ensureInsert", "deleteRecs", "lockRecs", "writeRecs"}
  PROVE  job' \in [Jobs -> JobRecord] /\ SubjectOK'
<1>1. /\ job' \in [Jobs -> JobRecord]
      /\ job'[p] = j
      /\ \A q \in Jobs \ {p} : job'[q] = [job[q] EXCEPT !.want = job'[q].want]
  BY CommittedJob DEF Typed
<1>2. \A q \in Jobs : job[q] \in JobRecord BY DEF Typed, TypeOK
<1>3. \A q \in Jobs \ {p} : /\ job'[q].pc = job[q].pc
                            /\ job'[q].sec = job[q].sec
                            /\ job'[q].user = job[q].user
  BY <1>1, <1>2 DEF JobRecord
<1>. QED BY <1>1, <1>3 DEF Typed, SubjectOK

LEMMA AfterUserType ==
  ASSUME TypeOK, NEW p \in Jobs
  PROVE  /\ AfterUser(p) \in JobRecord
         /\ AfterUser(p).pc \in {"readRecs", "idle", "load", "report"}
<1>1. job[p] \in JobRecord BY DEF TypeOK
<1>2. Idle \in JobRecord /\ Idle.pc = "idle" BY IdleType DEF Idle
<1>. QED BY <1>1, <1>2 DEF AfterUser, JobRecord

\* How a statement gets on: by keys it wants.
LEMMA ReachedWanted ==
  ASSUME NEW p \in Jobs, NEW keys \in Reached(job, p)
  PROVE  keys \subseteq job[p].want
  BY DEF Reached, Free

LEMMA DailyKeyType == ASSUME NEW d \in Dates, NEW s \in Securities PROVE DailyKey(d, s) \in Keys
  BY DEF DailyKey, Keys

LEMMA RecKeyType ==
  ASSUME NEW u \in Users, NEW r \in Recommendation
  PROVE  RecKey(u, r) \in Keys
  BY DEF RecKey, Keys, Recommendation

LEMMA RebuiltTyped ==
  ASSUME Typed, NEW p \in Jobs, job[p].sec \in Securities, NEW i \in Nat, Set(p, Rebuilt(p, i))
  PROVE  job' \in [Jobs -> JobRecord] /\ SubjectOK'
<1>1. job[p] \in JobRecord BY DEF Typed, TypeOK
<1>2. Rebuilt(p, i) \in JobRecord BY RebuiltType DEF Typed
<1>3. Rebuilt(p, i).pc = "check" => Rebuilt(p, i).sec = job[p].sec BY <1>1 DEF Rebuilt, JobRecord
<1>4. Rebuilt(p, i).pc \in {"check", "load", "delete", "ingest"} BY <1>1 DEF Rebuilt, JobRecord
<1>. QED BY <1>2, <1>3, <1>4, SetTyped


LEMMA RowType ==
  ASSUME NEW b \in [Dates -> [Securities -> Nat]],
         NEW d \in Dates, NEW s \in Securities, NEW i \in Nat
  PROVE  [b EXCEPT ![d][s] = i] \in [Dates -> [Securities -> Nat]]
<1>1. [b[d] EXCEPT ![s] = i] \in [Securities -> Nat] OBVIOUS
<1>. QED BY <1>1

\* Each action keeps the types.

LEMMA TypedStep ==
  ASSUME Typed, [Next]_vars
  PROVE  Typed'
<1>. USE DEF Typed
<1>0. CASE UNCHANGED vars BY <1>0 DEF TypeOK, SubjectOK, vars
<1>1. CASE Tick
  BY <1>1, BoundsAssumption, SMT DEF Tick, TypeOK, SubjectOK, Slots
<1>2. ASSUME NEW p \in Jobs, Start(p) \/ Step(p) \/ Crash(p) PROVE Typed'
  <2>. DEFINE J == job[p]
  <2>a. /\ J \in JobRecord
        /\ Idle \in JobRecord
        /\ Idle.pc = "idle"
    BY IdleType DEF TypeOK, Idle
  <2>b. Latest \in [Securities -> Nat] BY DEF Latest, TypeOK
  <2>1. CASE StartRefresh(p)
    <3>. DEFINE j == [Idle EXCEPT !.pc = "ingest", !.todo = Securities, !.started = now]
    <3>1. j \in JobRecord /\ j.pc = "ingest" BY <2>a DEF JobRecord, TypeOK
    <3>2. job' \in [Jobs -> JobRecord] /\ SubjectOK' BY <2>1, <3>1, SetTyped DEF StartRefresh
    <3>. QED BY <2>1, <3>2 DEF StartRefresh, TypeOK
  <2>2. CASE Ingest(p)
    <3>1. PICK s \in J.todo, new \in {0, 1} :
            /\ events' = [events EXCEPT ![s] = @ + new]
            /\ Set(p, [J EXCEPT !.pc = "check", !.todo = @ \ {s}, !.sec = s, !.twice = (new = 1)])
      BY <2>2 DEF Ingest
    <3>. DEFINE j == [J EXCEPT !.pc = "check", !.todo = @ \ {s}, !.sec = s, !.twice = (new = 1)]
    <3>2. s \in Securities BY <2>a DEF JobRecord
    <3>3. j \in JobRecord /\ j.pc = "check" /\ j.sec = s BY <2>a, <3>2 DEF JobRecord
    <3>4. job' \in [Jobs -> JobRecord] /\ SubjectOK' BY <3>1, <3>2, <3>3, SetTyped
    <3>5. events' \in [Securities -> Nat] BY <3>1, <3>2 DEF TypeOK
    <3>. QED BY <2>2, <3>4, <3>5 DEF Ingest, TypeOK
  <2>3. CASE SubmitEvent(p)
    <3>1. PICK s \in Securities : /\ events' = [events EXCEPT ![s] = @ + 1]
                                  /\ Set(p, [Idle EXCEPT !.pc = "check", !.sec = s])
      BY <2>3 DEF SubmitEvent
    <3>. DEFINE j == [Idle EXCEPT !.pc = "check", !.sec = s]
    <3>2. j \in JobRecord /\ j.pc = "check" /\ j.sec = s BY <2>a DEF JobRecord
    <3>3. job' \in [Jobs -> JobRecord] /\ SubjectOK' BY <3>1, <3>2, SetTyped
    <3>4. events' \in [Securities -> Nat] BY <3>1 DEF TypeOK
    <3>. QED BY <2>3, <3>3, <3>4 DEF SubmitEvent, TypeOK
  <2>4. CASE LockedSnapshot(p)
    <3>1. J.sec \in Securities BY <2>4 DEF LockedSnapshot, At, SubjectOK
    <3>2. Len(snaps[J.sec]) \in Nat BY <3>1 DEF TypeOK
    <3>3. Set(p, Rebuilt(p, Len(snaps[J.sec]))) BY <2>4 DEF LockedSnapshot
    <3>4. job' \in [Jobs -> JobRecord] /\ SubjectOK' BY <3>1, <3>2, <3>3, RebuiltTyped
    <3>. QED BY <2>4, <3>4 DEF LockedSnapshot, TypeOK
  <2>5. CASE ReadLatestEvent(p)
    <3>1. J.sec \in Securities BY <2>5 DEF ReadLatestEvent, At, SubjectOK
    <3>. DEFINE j == [J EXCEPT !.pc = "generate", !.ev = events[J.sec], !.snap = Len(snaps[J.sec])]
    <3>2. events[J.sec] \in Nat /\ Len(snaps[J.sec]) \in Nat BY <3>1 DEF TypeOK
    <3>3. j \in JobRecord /\ j.pc = "generate" /\ j.sec = J.sec BY <2>a, <3>2 DEF JobRecord
    <3>4. Set(p, j) BY <2>5 DEF ReadLatestEvent
    <3>5. job' \in [Jobs -> JobRecord] /\ SubjectOK' BY <3>1, <3>3, <3>4, SetTyped
    <3>. QED BY <2>5, <3>5 DEF ReadLatestEvent, TypeOK
  <2>6. CASE Generate(p)
    <3>1. J.sec \in Securities BY <2>6 DEF Generate, At, SubjectOK
    <3>. DEFINE j == [J EXCEPT !.pc = "track", !.ev = 0, !.snap = Len(snaps[J.sec]) + 1]
    <3>2. Len(snaps[J.sec]) + 1 \in Nat BY <3>1 DEF TypeOK
    <3>3. j \in JobRecord /\ j.pc = "track" /\ j.sec = J.sec BY <2>a, <3>2 DEF JobRecord
    <3>4. Set(p, j) /\ snaps' = [snaps EXCEPT ![J.sec] = Append(@, NewSnapshot(p))]
      BY <2>6 DEF Generate
    <3>5. job' \in [Jobs -> JobRecord] /\ SubjectOK' BY <3>1, <3>3, <3>4, SetTyped
    <3>6. NewSnapshot(p) \in Snapshot BY <2>a DEF NewSnapshot, Snapshot, TypeOK, JobRecord
    <3>7. snaps' \in [Securities -> Seq(Snapshot)] BY <3>1, <3>4, <3>6 DEF TypeOK
    <3>. QED BY <2>6, <3>5, <3>7 DEF Generate, TypeOK
  <2>7. CASE Track(p)
    <3>1. J.sec \in Securities BY <2>7 DEF Track, At, SubjectOK
    <3>. DEFINE j == [J EXCEPT !.pc = "trackInsert"]
    <3>2. j \in JobRecord /\ j.pc = "trackInsert" /\ j.sec = J.sec /\ J.snap \in Nat
      BY <2>a DEF JobRecord
    <3>3. Set(p, Rebuilt(p, J.snap)) \/ Set(p, j) BY <2>7 DEF Track
    <3>4. job' \in [Jobs -> JobRecord] /\ SubjectOK'
      BY <3>1, <3>2, <3>3, SetTyped, RebuiltTyped
    <3>. QED BY <2>7, <3>4 DEF Track, TypeOK
  <2>8. CASE TrackInsert(p)
    <3>1. J.sec \in Securities /\ J.snap \in Nat
      BY <2>8, <2>a DEF TrackInsert, At, SubjectOK, JobRecord
    <3>2. /\ tracked' \in [Securities -> SUBSET Nat]
          /\ End(p) \/ Set(p, Rebuilt(p, J.snap))
      BY <2>8, <3>1 DEF TrackInsert, InsertOutcomes, TypeOK
    <3>3. job' \in [Jobs -> JobRecord] /\ SubjectOK' BY <3>1, <3>2, EndTyped, RebuiltTyped
    <3>. QED BY <2>8, <3>2, <3>3 DEF TrackInsert, TypeOK
  <2>9. CASE DeleteDaily(p)
    <3>. DEFINE rows == {DailyKey(Date(now), s) : s \in {t \in Securities : daily[Date(now)][t] # 0}}
                j == [J EXCEPT !.pc = "lockDaily", !.date = Date(now), !.want = rows]
    <3>1. Date(now) \in Dates BY DateInDates DEF TypeOK
    <3>2. rows \in SUBSET Keys BY <3>1, DailyKeyType
    <3>3. j \in JobRecord /\ j.pc = "lockDaily"
      <4>. HIDE DEF rows
      <4>. QED BY <2>a, <3>1, <3>2 DEF JobRecord
    <3>4. Set(p, j) BY <2>9 DEF DeleteDaily
    <3>5. job' \in [Jobs -> JobRecord] /\ SubjectOK' BY <3>3, <3>4, SetTyped
    <3>. QED BY <2>9, <3>5 DEF DeleteDaily, TypeOK
  <2>29. CASE LockDaily(p)
    <3>. DEFINE all == {DailyKey(J.date, s) : s \in Securities}
    <3>1. PICK keys \in Reached(job, p) :
            Set(p, [J EXCEPT !.held = @ \cup keys,
                             !.pc = IF keys = J.want THEN "publish" ELSE @,
                             !.want = IF keys = J.want THEN all ELSE @ \ keys])
      BY <2>29 DEF LockDaily
    <3>2. all \in SUBSET Keys BY <2>a, DailyKeyType DEF JobRecord
    <3>3. keys \subseteq J.want BY ReachedWanted
    <3>. DEFINE j == [J EXCEPT !.held = @ \cup keys,
                               !.pc = IF keys = J.want THEN "publish" ELSE @,
                               !.want = IF keys = J.want THEN all ELSE @ \ keys]
    <3>4. j \in JobRecord /\ j.pc \in {"publish", "lockDaily"}
      <4>1. J.pc = "lockDaily" BY <2>29 DEF LockDaily, At
      <4>. HIDE DEF all
      <4>. QED BY <2>a, <3>2, <3>3, <4>1 DEF JobRecord
    <3>5. job' \in [Jobs -> JobRecord] /\ SubjectOK' BY <3>1, <3>4, SetTyped
    <3>. QED BY <2>29, <3>5 DEF LockDaily, TypeOK
  <2>30. CASE DailyConflict(p)
    <3>1. job' \in [Jobs -> JobRecord] /\ SubjectOK' BY <2>30, EndTyped DEF DailyConflict
    <3>. QED BY <2>30, <3>1 DEF DailyConflict, TypeOK
  <2>31. CASE InsertDaily(p)
    <3>1. PICK keys \in Reached(job, p) : Set(p, [J EXCEPT !.held = @ \cup keys, !.want = @ \ keys])
      BY <2>31 DEF InsertDaily
    <3>2. keys \subseteq J.want BY ReachedWanted
    <3>. DEFINE j == [J EXCEPT !.held = @ \cup keys, !.want = @ \ keys]
    <3>3. j \in JobRecord /\ j.pc = "publish"
      BY <2>a, <2>31, <3>2 DEF JobRecord, InsertDaily, At
    <3>4. job' \in [Jobs -> JobRecord] /\ SubjectOK' BY <3>1, <3>3, SetTyped
    <3>. QED BY <2>31, <3>4 DEF InsertDaily, TypeOK
  <2>10. CASE PublishDaily(p)
    <3>. DEFINE j == [J EXCEPT !.pc = "load", !.held = {}, !.want = {}]
    <3>1. J.date \in Dates /\ J.got \in [Securities -> Nat] BY <2>a DEF JobRecord
    <3>2. daily' \in [Dates -> [Securities -> Nat]] BY <2>10, <3>1 DEF PublishDaily, TypeOK
    <3>3. j \in JobRecord /\ j.pc = "load" BY <2>a DEF JobRecord
    <3>4. job' = Committed(job, p, j, Deleting) BY <2>10 DEF PublishDaily
    <3>5. job' \in [Jobs -> JobRecord] /\ SubjectOK' BY <3>3, <3>4, CommittedTyped
    <3>. QED BY <2>10, <3>2, <3>5 DEF PublishDaily, TypeOK
  <2>11. CASE StartUp(p)
    <3>1. PICK u \in Users :
            /\ profile' = [profile EXCEPT ![u] = IF @ = 0 THEN 1 ELSE @]
            /\ Set(p, [Idle EXCEPT !.pc = "readRecs", !.twice = TRUE, !.users = {u},
                                   !.prof = profile'])
      BY <2>11 DEF StartUp
    <3>2. profile' \in [Users -> Nat] BY <3>1 DEF TypeOK
    <3>. DEFINE j == [Idle EXCEPT !.pc = "readRecs", !.twice = TRUE, !.users = {u},
                                  !.prof = profile']
    <3>3. j \in JobRecord /\ j.pc = "readRecs" BY <2>a, <3>2 DEF JobRecord
    <3>4. job' \in [Jobs -> JobRecord] /\ SubjectOK' BY <3>1, <3>3, SetTyped
    <3>. QED BY <2>11, <3>2, <3>4 DEF StartUp, TypeOK
  <2>12. CASE LoadUsers(p)
    <3>. DEFINE onboarded == {u \in Users : profile[u] # 0}
                j == [Idle EXCEPT !.pc = IF onboarded = {} THEN "report" ELSE "readRecs",
                                  !.date = J.date, !.users = onboarded, !.prof = profile]
    <3>1. j \in JobRecord /\ j.pc \in {"report", "readRecs"} BY <2>a DEF JobRecord, TypeOK
    <3>2. Set(p, j) BY <2>12 DEF LoadUsers
    <3>3. job' \in [Jobs -> JobRecord] /\ SubjectOK' BY <3>1, <3>2, SetTyped
    <3>. QED BY <2>12, <3>3 DEF LoadUsers, TypeOK
  <2>13. CASE SaveProfile(p)
    <3>1. PICK u \in Users :
            /\ profile' = [profile EXCEPT ![u] = @ + 1]
            /\ Set(p, [Idle EXCEPT !.pc = "readRecs", !.users = {u}, !.prof = profile'])
      BY <2>13 DEF SaveProfile
    <3>2. profile' \in [Users -> Nat] BY <3>1 DEF TypeOK
    <3>. DEFINE j == [Idle EXCEPT !.pc = "readRecs", !.users = {u}, !.prof = profile']
    <3>3. j \in JobRecord /\ j.pc = "readRecs" BY <2>a, <3>2 DEF JobRecord
    <3>4. job' \in [Jobs -> JobRecord] /\ SubjectOK' BY <3>1, <3>3, SetTyped
    <3>. QED BY <2>13, <3>2, <3>4 DEF SaveProfile, TypeOK
  <2>14. CASE Acknowledge(p)
    <3>1. PICK u \in Users : Set(p, [Idle EXCEPT !.pc = "readRecs", !.users = {u}, !.prof = profile])
      BY <2>14 DEF Acknowledge
    <3>. DEFINE j == [Idle EXCEPT !.pc = "readRecs", !.users = {u}, !.prof = profile]
    <3>2. j \in JobRecord /\ j.pc = "readRecs" BY <2>a DEF JobRecord, TypeOK
    <3>3. job' \in [Jobs -> JobRecord] /\ SubjectOK' BY <3>1, <3>2, SetTyped
    <3>. QED BY <2>14, <3>3 DEF Acknowledge, TypeOK
  <2>15. CASE ReadSnapshots(p)
    <3>1. PICK u \in J.users :
            Set(p, [J EXCEPT !.pc = "deleteRecs", !.user = u, !.users = @ \ {u}, !.got = Latest])
      BY <2>15 DEF ReadSnapshots
    <3>. DEFINE j == [J EXCEPT !.pc = "deleteRecs", !.user = u, !.users = @ \ {u}, !.got = Latest]
    <3>2. u \in Users BY <2>a DEF JobRecord
    <3>3. j \in JobRecord /\ j.pc = "deleteRecs" /\ j.user = u BY <2>a, <2>b, <3>2 DEF JobRecord
    <3>4. job' \in [Jobs -> JobRecord] /\ SubjectOK' BY <3>1, <3>2, <3>3, SetTyped
    <3>. QED BY <2>15, <3>4 DEF ReadSnapshots, TypeOK
  <2>32. CASE DeleteRecs(p)
    <3>. DEFINE rows == {RecKey(J.user, r) : r \in userRecs[J.user]}
                j == [J EXCEPT !.pc = "lockRecs", !.want = rows]
    <3>1. J.user \in Users BY <2>32 DEF DeleteRecs, At, SubjectOK
    <3>2. rows \in SUBSET Keys BY <3>1, RecKeyType DEF TypeOK
    <3>3. j \in JobRecord /\ j.pc = "lockRecs" /\ j.user = J.user
      <4>. HIDE DEF rows
      <4>. QED BY <2>a, <3>2 DEF JobRecord
    <3>4. Set(p, j) BY <2>32 DEF DeleteRecs
    <3>5. job' \in [Jobs -> JobRecord] /\ SubjectOK' BY <3>1, <3>3, <3>4, SetTyped
    <3>. QED BY <2>32, <3>5 DEF DeleteRecs, TypeOK
  <2>c. J.user \in Users => NewRecs(p) \in SUBSET Recommendation
    BY <2>a DEF NewRecs, Recommendation, JobRecord
  <2>33. CASE LockRecs(p)
    <3>. DEFINE all == {RecKey(J.user, r) : r \in NewRecs(p)}
    <3>1. PICK keys \in Reached(job, p) :
            Set(p, [J EXCEPT !.held = @ \cup keys,
                             !.pc = IF keys = J.want THEN "writeRecs" ELSE @,
                             !.want = IF keys = J.want THEN all ELSE @ \ keys])
      BY <2>33 DEF LockRecs
    <3>a. J.user \in Users /\ J.pc = "lockRecs" BY <2>33 DEF LockRecs, At, SubjectOK
    <3>2. all \in SUBSET Keys BY <2>c, <3>a, RecKeyType
    <3>3. keys \subseteq J.want BY ReachedWanted
    <3>. DEFINE j == [J EXCEPT !.held = @ \cup keys,
                               !.pc = IF keys = J.want THEN "writeRecs" ELSE @,
                               !.want = IF keys = J.want THEN all ELSE @ \ keys]
    <3>4. j \in JobRecord /\ j.pc \in {"lockRecs", "writeRecs"} /\ j.user = J.user
      <4>. HIDE DEF all
      <4>. QED BY <2>a, <3>a, <3>2, <3>3 DEF JobRecord
    <3>5. job' \in [Jobs -> JobRecord] /\ SubjectOK' BY <3>a, <3>1, <3>4, SetTyped
    <3>. QED BY <2>33, <3>5 DEF LockRecs, TypeOK
  <2>34. CASE RecsConflict(p)
    <3>1. job' \in [Jobs -> JobRecord] /\ SubjectOK' BY <2>34, EndTyped DEF RecsConflict
    <3>. QED BY <2>34, <3>1 DEF RecsConflict, TypeOK
  <2>16. CASE InsertRecs(p)
    <3>1. PICK keys \in Reached(job, p) : Set(p, [J EXCEPT !.held = @ \cup keys, !.want = @ \ keys])
      BY <2>16 DEF InsertRecs
    <3>2. keys \subseteq J.want /\ J.pc = "writeRecs" /\ J.user \in Users
      BY <2>16, ReachedWanted DEF InsertRecs, At, SubjectOK
    <3>. DEFINE j == [J EXCEPT !.held = @ \cup keys, !.want = @ \ keys]
    <3>3. j \in JobRecord /\ j.pc = "writeRecs" /\ j.user = J.user BY <2>a, <3>2 DEF JobRecord
    <3>4. job' \in [Jobs -> JobRecord] /\ SubjectOK' BY <3>1, <3>2, <3>3, SetTyped
    <3>. QED BY <2>16, <3>4 DEF InsertRecs, TypeOK
  <2>35. CASE CommitRecs(p)
    <3>1. J.user \in Users BY <2>35 DEF CommitRecs, At, SubjectOK
    <3>2. Kept(p) \cup NewRecs(p) \in SUBSET Recommendation BY <2>c, <3>1 DEF Kept, TypeOK
    <3>3. userRecs' \in [Users -> SUBSET Recommendation] BY <2>35, <3>1, <3>2 DEF CommitRecs, TypeOK
    <3>4. AfterUser(p) \in JobRecord /\ AfterUser(p).pc \in {"readRecs", "idle", "load", "report"}
      BY AfterUserType DEF Typed
    <3>5. job' = Committed(job, p, AfterUser(p), Deleting) BY <2>35 DEF CommitRecs
    <3>6. job' \in [Jobs -> JobRecord] /\ SubjectOK' BY <3>4, <3>5, CommittedTyped
    <3>. QED BY <2>35, <3>3, <3>6 DEF CommitRecs, TypeOK
  <2>36. CASE Deadlock(p)
    <3>1. job' \in [Jobs -> JobRecord] /\ SubjectOK' BY <2>36, EndTyped DEF Deadlock
    <3>. QED BY <2>36, <3>1 DEF Deadlock, TypeOK
  <2>37. CASE RecursionFails(p)
    <3>1. job' \in [Jobs -> JobRecord] /\ SubjectOK' BY <2>37, EndTyped DEF RecursionFails
    <3>. QED BY <2>37, <3>1 DEF RecursionFails, TypeOK
  <2>17. CASE StartReport(p)
    <3>. DEFINE j == [Idle EXCEPT !.pc = "report"]
    <3>1. j \in JobRecord /\ j.pc = "report" BY <2>a DEF JobRecord
    <3>2. job' \in [Jobs -> JobRecord] /\ SubjectOK' BY <2>17, <3>1, SetTyped DEF StartReport
    <3>. QED BY <2>17, <3>2 DEF StartReport, TypeOK
  <2>18. CASE LoadSnapshots(p)
    <3>. DEFINE j == [J EXCEPT !.pc = "ensure", !.got = Latest]
    <3>1. j \in JobRecord /\ j.pc = "ensure" BY <2>a, <2>b DEF JobRecord
    <3>2. job' \in [Jobs -> JobRecord] /\ SubjectOK' BY <2>18, <3>1, SetTyped DEF LoadSnapshots
    <3>. QED BY <2>18, <3>2 DEF LoadSnapshots, TypeOK
  <2>19. CASE EnsureOutcomes(p)
    <3>a. \A s \in Securities : Missing(p, s) \subseteq Nat BY <2>a DEF Missing, JobRecord
    <3>1. PICK s \in Securities, i \in Nat :
            Set(p, [J EXCEPT !.pc = "ensureInsert", !.sec = s, !.snap = i])
      BY <2>19, <3>a DEF EnsureOutcomes
    <3>. DEFINE j == [J EXCEPT !.pc = "ensureInsert", !.sec = s, !.snap = i]
    <3>3. j \in JobRecord /\ j.pc = "ensureInsert" /\ j.sec = s BY <2>a DEF JobRecord
    <3>4. job' \in [Jobs -> JobRecord] /\ SubjectOK' BY <3>1, <3>3, SetTyped
    <3>. QED BY <2>19, <3>4 DEF EnsureOutcomes, TypeOK
  <2>20. CASE EnsureInsert(p)
    <3>. DEFINE j == [J EXCEPT !.pc = "ensure", !.snap = 0]
    <3>1. j \in JobRecord /\ j.pc = "ensure" /\ J.snap \in Nat BY <2>a DEF JobRecord
    <3>2. J.sec \in Securities BY <2>20 DEF EnsureInsert, At, SubjectOK
    <3>a. InsertOutcomes(p, j) BY <2>20 DEF EnsureInsert
    <3>b. /\ End(p) \/ Set(p, j)
          /\ tracked' = tracked \/ tracked' = [tracked EXCEPT ![J.sec] = @ \cup {J.snap}]
      <4>. HIDE DEF j
      <4>. QED BY <3>a DEF InsertOutcomes
    <3>3. tracked' \in [Securities -> SUBSET Nat]
      <4>1. tracked \in [Securities -> SUBSET Nat] BY DEF TypeOK
      <4>. HIDE DEF J
      <4>. QED BY <3>b, <3>1, <3>2, <4>1
    <3>4. job' \in [Jobs -> JobRecord] /\ SubjectOK' BY <3>1, <3>b, EndTyped, SetTyped
    <3>. QED BY <2>20, <3>3, <3>4 DEF EnsureInsert, TypeOK
  <2>21. CASE FinishReport(p)
    <3>1. job' \in [Jobs -> JobRecord] /\ SubjectOK' BY <2>21, EndTyped DEF FinishReport
    <3>. QED BY <2>21, <3>1 DEF FinishReport, TypeOK
  <2>28. CASE ReportConflict(p)
    <3>1. job' \in [Jobs -> JobRecord] /\ SubjectOK' BY <2>28, EndTyped DEF ReportConflict
    <3>. QED BY <2>28, <3>1 DEF ReportConflict, TypeOK
  <2>22. CASE ReadFeed(p)
    <3>. DEFINE j1 == [Idle EXCEPT !.pc = "served"]
                j2 == [Idle EXCEPT !.pc = "store", !.date = Date(now), !.todo = Securities,
                                   !.got = Latest]
    <3>1. Date(now) \in Dates BY DateInDates DEF TypeOK
    <3>2. /\ j1 \in JobRecord /\ j1.pc = "served"
          /\ j2 \in JobRecord /\ j2.pc = "store"
      BY <2>a, <2>b, <3>1 DEF JobRecord
    <3>3. Set(p, j1) \/ Set(p, j2) BY <2>22 DEF ReadFeed
    <3>4. job' \in [Jobs -> JobRecord] /\ SubjectOK' BY <3>2, <3>3, SetTyped
    <3>. QED BY <2>22, <3>4 DEF ReadFeed, TypeOK
  <2>23. CASE ReadDetail(p)
    <3>1. PICK s \in Securities, depth \in 0 .. MaxDepth :
            Set(p, IF depth = 0 /\ daily[Date(now)][s] # 0 THEN [Idle EXCEPT !.pc = "served"]
                   ELSE [Idle EXCEPT !.pc = "store", !.date = Date(now), !.sec = s, !.todo = {s},
                                     !.got = Latest, !.depth = depth])
      BY <2>23 DEF ReadDetail
    <3>. DEFINE j1 == [Idle EXCEPT !.pc = "served"]
                j2 == [Idle EXCEPT !.pc = "store", !.date = Date(now), !.sec = s, !.todo = {s},
                                   !.got = Latest, !.depth = depth]
    <3>2. Date(now) \in Dates BY DateInDates DEF TypeOK
    <3>3. /\ j1 \in JobRecord /\ j1.pc = "served"
          /\ j2 \in JobRecord /\ j2.pc = "store"
      BY <2>a, <2>b, <3>2 DEF JobRecord
    <3>4. Set(p, j1) \/ Set(p, j2) BY <3>1
    <3>5. job' \in [Jobs -> JobRecord] /\ SubjectOK' BY <3>3, <3>4, SetTyped
    <3>. QED BY <2>23, <3>5 DEF ReadDetail, TypeOK
  <2>24. CASE StoreCheck(p)
    <3>1. PICK s \in J.todo, next \in AfterStore(p) :
            \/ Set(p, [J EXCEPT !.todo = @ \ {s}, !.pc = IF J.todo = {s} THEN next ELSE "store"])
            \/ Set(p, [J EXCEPT !.pc = "storeInsert", !.sec = s])
      BY <2>24 DEF StoreCheck, AfterStore
    <3>. DEFINE j1 == [J EXCEPT !.todo = @ \ {s}, !.pc = IF J.todo = {s} THEN next ELSE "store"]
                j2 == [J EXCEPT !.pc = "storeInsert", !.sec = s]
    <3>2. s \in Securities /\ next \in {"feed", "detail", "served"}
      BY <2>a DEF JobRecord, AfterStore
    <3>3. j1 \in JobRecord /\ j1.pc \in {"feed", "detail", "served", "store"}
      BY <2>a, <3>2 DEF JobRecord
    <3>4. j2 \in JobRecord /\ j2.pc = "storeInsert" /\ j2.sec = s
      BY <2>a, <3>2 DEF JobRecord
    <3>5. job' \in [Jobs -> JobRecord] /\ SubjectOK' BY <3>1, <3>2, <3>3, <3>4, SetTyped
    <3>. QED BY <2>24, <3>5 DEF StoreCheck, TypeOK
  <2>25. CASE StoreInsert(p)
    <3>1. J.sec \in Securities /\ J.date \in Dates /\ J.got \in [Securities -> Nat]
      BY <2>25, <2>a DEF StoreInsert, At, SubjectOK, JobRecord
    <3>a. \/ daily' = daily
          \/ daily' = [daily EXCEPT ![J.date][J.sec] = J.got[J.sec]]
      BY <2>25 DEF StoreInsert
    <3>b. daily \in [Dates -> [Securities -> Nat]] /\ J.got[J.sec] \in Nat
      BY <3>1 DEF TypeOK
    <3>2. daily' \in [Dates -> [Securities -> Nat]]
      <4>. HIDE DEF J
      <4>. QED BY <3>1, <3>a, <3>b, RowType
    <3>3. PICK next \in AfterStore(p) :
            \/ End(p)
            \/ Set(p, [J EXCEPT !.todo = @ \ {J.sec},
                                !.pc = IF J.todo = {J.sec} THEN next ELSE "store"])
      BY <2>25 DEF StoreInsert, AfterStore
    <3>. DEFINE j == [J EXCEPT !.todo = @ \ {J.sec},
                               !.pc = IF J.todo = {J.sec} THEN next ELSE "store"]
    <3>4. next \in {"feed", "detail", "served"} BY DEF AfterStore
    <3>5. j \in JobRecord /\ j.pc \in {"feed", "detail", "served", "store"}
      BY <2>a, <3>4 DEF JobRecord
    <3>6. job' \in [Jobs -> JobRecord] /\ SubjectOK' BY <3>3, <3>5, SetTyped, EndTyped
    <3>. QED BY <2>25, <3>2, <3>6 DEF StoreInsert, TypeOK
  <2>26. CASE Respond(p)
    <3>1. job' \in [Jobs -> JobRecord] /\ SubjectOK' BY <2>26, EndTyped DEF Respond
    <3>. QED BY <2>26, <3>1 DEF Respond, TypeOK
  <2>27. CASE Crash(p)
    <3>1. job' \in [Jobs -> JobRecord] /\ SubjectOK' BY <2>27, EndTyped DEF Crash
    <3>. QED BY <2>27, <3>1 DEF Crash, TypeOK
  <2>. QED
    BY <1>2, <2>1, <2>2, <2>3, <2>4, <2>5, <2>6, <2>7, <2>8, <2>9, <2>10, <2>11, <2>12, <2>13,
       <2>14, <2>15, <2>16, <2>17, <2>18, <2>19, <2>20, <2>21, <2>22, <2>23, <2>24, <2>25,
       <2>26, <2>27, <2>28, <2>29, <2>30, <2>31, <2>32, <2>33, <2>34, <2>35, <2>36, <2>37
    DEF Start, Step
<1>. QED BY <1>0, <1>1, <1>2 DEF Next

\* Every variable keeps its type and a job never acts for a security or a user it
\* has not chosen: the tables of the pipeline and the handlers' local variables.
THEOREM TypeCorrect == Spec => []TypeOK
<1>1. Init => Typed BY TypedInit
<1>2. Typed /\ [Next]_vars => Typed' BY TypedStep
<1>3. Typed => TypeOK BY DEF Typed
<1>. QED BY <1>1, <1>2, <1>3, PTL DEF Spec

-------------------------------------------------------------------------------
\* What a refresh publishes.

RebuildLabels == {"check", "generate", "track", "trackInsert"}
PublishLabels == {"delete", "lockDaily", "publish"}
WalkLabels == RebuildLabels \cup {"ingest"} \cup PublishLabels
StoreLabels == {"store", "storeInsert"}

\* Number i of the snapshots sn of s exists and dates from t's window or later.
GoodSnap(sn, s, i, t) == i \in 1 .. Len(sn[s]) /\ sn[s][i].at >= Cutoff(t)

\* What a refresh on its way through the universe has in hand at time t.
Collected(j, sn, t) ==
  /\ j.started <= t
  /\ \A s \in Securities \ j.todo :
       \/ j.pc \in RebuildLabels /\ s = j.sec
       \/ GoodSnap(sn, s, j.got[s], j.started)
  /\ j.pc \in {"track", "trackInsert"} => GoodSnap(sn, j.sec, j.snap, j.started)
  /\ j.pc \in PublishLabels => j.todo = {}

\* The work j of job p.
FreshWork(p, j, sn, t) ==
  /\ j.pc \in WalkLabels => p \in Rebuilders
  /\ j.pc \in {"ingest"} \cup PublishLabels => p \in Refreshers
  /\ p \in Refreshers /\ j.pc \in WalkLabels => Collected(j, sn, t)
  /\ j.pc \in StoreLabels => \A s \in Securities : j.got[s] >= 1

HistoryOK == \A s \in Securities : Len(snaps[s]) >= 1
Fresh == \A p \in Jobs : FreshWork(p, job[p], snaps, now)
IInv == Typed /\ HistoryOK /\ Fresh

\* Snapshots are only ever added, and time only passes.
Grows ==
  /\ now <= now'
  /\ \A s \in Securities :
       /\ Len(snaps[s]) <= Len(snaps'[s])
       /\ \A i \in 1 .. Len(snaps[s]) : snaps'[s][i] = snaps[s][i]

\* q is where it was, with the same work in hand; of the rows its DELETE waits
\* for some may be gone.
SameWork(q) ==
  /\ job'[q].pc = job[q].pc
  /\ job'[q].todo = job[q].todo
  /\ job'[q].sec = job[q].sec
  /\ job'[q].snap = job[q].snap
  /\ job'[q].got = job[q].got
  /\ job'[q].started = job[q].started
  /\ job'[q].date = job[q].date
  /\ job'[q].twice = job[q].twice
  /\ job'[q].users = job[q].users
  /\ job'[q].user = job[q].user
  /\ job'[q].prof = job[q].prof
  /\ job'[q].held = job[q].held

-------------------------------------------------------------------------------
LEMMA InitIInv == Init => IInv
<1>. SUFFICES ASSUME Init PROVE HistoryOK /\ Fresh
  BY TypedInit DEF IInv
<1>1. HistoryOK
  <2>. SUFFICES ASSUME NEW s \in Securities PROVE Len(snaps[s]) >= 1 BY DEF HistoryOK
  <2>1. snaps[s] = <<[at |-> 0, ev |-> 1, saw |-> 0]>> BY DEF Init
  <2>. QED BY <2>1
<1>2. Fresh
  BY DEF Init, Fresh, FreshWork, Idle, WalkLabels, PublishLabels, RebuildLabels, StoreLabels
<1>. QED BY <1>1, <1>2

LEMMA GenerateGrows ==
  ASSUME Typed, NEW p \in Jobs, Generate(p)
  PROVE  Grows
<1>. USE DEF Typed
<1>1. job[p].sec \in Securities BY DEF Generate, At, SubjectOK
<1>2. /\ snaps' = [snaps EXCEPT ![job[p].sec] = Append(@, NewSnapshot(p))]
      /\ now' = now
  BY DEF Generate
<1>3. NewSnapshot(p) \in Snapshot
  <2>1. job[p] \in JobRecord /\ now \in Slots BY DEF TypeOK
  <2>. QED BY <2>1 DEF NewSnapshot, Snapshot, JobRecord
<1>4. now <= now' BY <1>2, BoundsAssumption DEF TypeOK, Slots
<1>5. ASSUME NEW s \in Securities
      PROVE  /\ Len(snaps[s]) <= Len(snaps'[s])
             /\ \A i \in 1 .. Len(snaps[s]) : snaps'[s][i] = snaps[s][i]
  <2>1. snaps[s] \in Seq(Snapshot) /\ snaps \in [Securities -> Seq(Snapshot)] BY DEF TypeOK
  <2>2. CASE s = job[p].sec
    <3>1. snaps'[s] = Append(snaps[s], NewSnapshot(p)) BY <1>2, <2>1, <2>2
    <3>. HIDE DEF TypeOK
    <3>. QED BY <3>1, <2>1, <1>3
  <2>3. CASE s # job[p].sec
    <3>1. snaps'[s] = snaps[s] BY <1>2, <2>1, <2>3
    <3>2. Len(snaps[s]) \in Nat BY <2>1
    <3>. QED BY <3>1, <3>2
  <2>. QED BY <2>2, <2>3
<1>. QED BY <1>4, <1>5 DEF Grows

LEMMA StillGrows ==
  ASSUME TypeOK, snaps' = snaps, now' = now \/ now' = now + 1
  PROVE  Grows
<1>1. now \in Nat /\ \A s \in Securities : Len(snaps[s]) \in Nat
  BY BoundsAssumption DEF TypeOK, Slots
<1>. QED BY <1>1 DEF Grows

\* A collection stays good while others add snapshots and time passes.
LEMMA GoodSnapStays ==
  ASSUME TypeOK, TypeOK', Grows, NEW s \in Securities, NEW i, NEW t, GoodSnap(snaps, s, i, t)
  PROVE  GoodSnap(snaps', s, i, t)
<1>1. Len(snaps[s]) \in Nat /\ Len(snaps'[s]) \in Nat BY DEF TypeOK
<1>2. i \in 1 .. Len(snaps'[s]) /\ snaps'[s][i] = snaps[s][i]
  BY <1>1 DEF GoodSnap, Grows
<1>. QED BY <1>2 DEF GoodSnap

LEMMA WorkStays ==
  ASSUME TypeOK, TypeOK', Grows, NEW q \in Jobs, NEW j \in JobRecord,
         j.pc \in RebuildLabels => j.sec \in Securities,
         FreshWork(q, j, snaps, now)
  PROVE  FreshWork(q, j, snaps', now')
<1>1. ASSUME Collected(j, snaps, now), j.pc \in WalkLabels PROVE Collected(j, snaps', now')
  <2>1. j.started <= now'
    <3>1. now \in Int /\ now' \in Int /\ j.started \in Int
      BY BoundsAssumption DEF TypeOK, JobRecord, Slots
    <3>. QED BY <1>1, <3>1 DEF Collected, Grows
  <2>2. ASSUME NEW s \in Securities \ j.todo, ~(j.pc \in RebuildLabels /\ s = j.sec)
        PROVE  GoodSnap(snaps', s, j.got[s], j.started)
    <3>1. GoodSnap(snaps, s, j.got[s], j.started) BY <1>1, <2>2 DEF Collected
    <3>. QED BY <3>1, GoodSnapStays
  <2>3. ASSUME j.pc \in {"track", "trackInsert"} PROVE GoodSnap(snaps', j.sec, j.snap, j.started)
    <3>1. j.sec \in Securities BY <2>3 DEF RebuildLabels
    <3>2. GoodSnap(snaps, j.sec, j.snap, j.started) BY <1>1, <2>3 DEF Collected
    <3>. QED BY <3>1, <3>2, GoodSnapStays
  <2>. QED BY <1>1, <2>1, <2>2, <2>3 DEF Collected
<1>. QED BY <1>1 DEF FreshWork

LEMMA SameWorkStays ==
  ASSUME IInv, Typed', Grows, NEW q \in Jobs, SameWork(q)
  PROVE  FreshWork(q, job'[q], snaps', now')
<1>1. job[q] \in JobRecord /\ TypeOK /\ TypeOK' BY DEF IInv, Typed, TypeOK
<1>2. job[q].pc \in RebuildLabels => job[q].sec \in Securities
  BY DEF IInv, Typed, SubjectOK, RebuildLabels
<1>3. FreshWork(q, job[q], snaps', now') BY <1>1, <1>2, WorkStays DEF IInv, Fresh
<1>. QED BY <1>3 DEF SameWork, FreshWork, Collected

\* Outside the walk and the store there is nothing to keep.
LEMMA FreshElsewhere ==
  ASSUME NEW p \in Jobs, job'[p].pc \notin WalkLabels \cup StoreLabels
  PROVE  FreshWork(p, job'[p], snaps', now')
BY DEF FreshWork, WalkLabels, RebuildLabels

\* When rebuild_security_recommendation returns a good snapshot.
LEMMA RebuiltFresh ==
  ASSUME IInv, NEW p \in Jobs, job[p].pc \in RebuildLabels, NEW i \in Nat,
         p \in Refreshers => GoodSnap(snaps, job[p].sec, i, job[p].started)
  PROVE  FreshWork(p, Rebuilt(p, i), snaps, now)
<1>. DEFINE J == job[p]
            s0 == J.sec
            R == Rebuilt(p, i)
<1>1. J \in JobRecord BY DEF IInv, Typed, TypeOK
<1>2. FreshWork(p, J, snaps, now) BY DEF IInv, Fresh
<1>3. s0 \in Securities BY DEF IInv, Typed, SubjectOK, RebuildLabels
<1>4. /\ R.got = [J.got EXCEPT ![s0] = i]
      /\ R.todo = J.todo /\ R.started = J.started
      /\ R.pc = IF J.twice THEN "check"
                ELSE IF p \in Submitters THEN "load"
                ELSE IF J.todo = {} THEN "delete" ELSE "ingest"
  BY <1>1 DEF Rebuilt, JobRecord
<1>5. p \in Rebuilders BY <1>2 DEF FreshWork, WalkLabels
<1>6. R.pc \in {"ingest"} \cup PublishLabels => p \in Refreshers
  BY <1>4, <1>5 DEF Rebuilders, PublishLabels
<1>7. ASSUME p \in Refreshers PROVE Collected(J, snaps, now)
  BY <1>2, <1>7 DEF FreshWork, WalkLabels
<1>8. ASSUME p \in Refreshers, NEW s \in Securities \ J.todo
      PROVE  GoodSnap(snaps, s, R.got[s], R.started)
  <2>1. J.got \in [Securities -> Nat] BY <1>1 DEF JobRecord
  <2>2. CASE s = s0
    <3>1. R.got[s] = i BY <1>4, <2>1, <2>2
    <3>. QED BY <1>4, <1>8, <2>2, <3>1
  <2>3. CASE s # s0
    <3>1. GoodSnap(snaps, s, J.got[s], J.started)
      BY <1>7, <1>8, <2>3 DEF Collected
    <3>2. R.got[s] = J.got[s] BY <1>4, <2>1, <2>3
    <3>. QED BY <1>4, <3>1, <3>2
  <2>. QED BY <2>2, <2>3
<1>9. R.pc \notin StoreLabels /\ R.pc \notin {"track", "trackInsert", "lockDaily", "publish"}
  BY <1>4 DEF StoreLabels
<1>10. R.pc \in PublishLabels => R.todo = {} BY <1>4, <1>9 DEF PublishLabels
<1>11. p \in Refreshers => Collected(R, snaps, now)
  <2>. HIDE DEF R
  <2>. QED BY <1>4, <1>7, <1>8, <1>9, <1>10 DEF Collected
<1>. QED BY <1>5, <1>6, <1>9, <1>11 DEF FreshWork

-------------------------------------------------------------------------------
\* One step of job p.

\* The jobs p does not run keep their place and their work.
LEMMA OthersKeep ==
  ASSUME Typed, NEW p \in Jobs, Start(p) \/ Step(p) \/ Crash(p), NEW q \in Jobs, q # p
  PROVE  SameWork(q)
<1>1. TypeOK /\ job[q] \in JobRecord /\ job \in [Jobs -> JobRecord] BY DEF Typed, TypeOK
<1>2. ASSUME NEW j, Set(p, j) PROVE SameWork(q)
  <2>1. job'[q] = job[q] BY <1>1, <1>2 DEF Set
  <2>. QED BY <2>1 DEF SameWork
<1>3. End(p) => SameWork(q) BY <1>2 DEF End
<1>4. ASSUME NEW j \in JobRecord, job' = Committed(job, p, j, Deleting) PROVE SameWork(q)
  <2>1. job'[q] = [job[q] EXCEPT !.want = job'[q].want] BY <1>1, <1>4, CommittedJob
  <2>. QED BY <1>1, <2>1 DEF SameWork, JobRecord
<1>5. ASSUME NEW j, InsertOutcomes(p, j) PROVE SameWork(q)
  BY <1>2, <1>3, <1>5 DEF InsertOutcomes
<1>6. CASE PublishDaily(p)
  <2>. DEFINE j == [job[p] EXCEPT !.pc = "load", !.held = {}, !.want = {}]
  <2>1. job[p] \in JobRecord BY <1>1 DEF TypeOK
  <2>2. j \in JobRecord BY <2>1 DEF JobRecord
  <2>3. job' = Committed(job, p, j, Deleting) BY <1>6 DEF PublishDaily
  <2>. QED BY <1>4, <2>2, <2>3
<1>7. CASE CommitRecs(p)
  <2>1. AfterUser(p) \in JobRecord BY <1>1, AfterUserType
  <2>. QED BY <1>4, <1>7, <2>1 DEF CommitRecs
<1>8. ASSUME Start(p) PROVE \E j : Set(p, j)
  BY <1>8 DEF Start, StartRefresh, SubmitEvent, StartUp, StartReport, SaveProfile, Acknowledge,
     ReadFeed, ReadDetail
<1>9. ASSUME \/ Ingest(p) \/ LockedSnapshot(p) \/ ReadLatestEvent(p) \/ Generate(p) \/ Track(p)
             \/ DeleteDaily(p) \/ LockDaily(p) \/ InsertDaily(p) \/ LoadUsers(p)
             \/ ReadSnapshots(p) \/ DeleteRecs(p) \/ LockRecs(p) \/ InsertRecs(p)
      PROVE  \E j : Set(p, j)
  BY <1>9 DEF Ingest, LockedSnapshot, ReadLatestEvent, Generate, Track, DeleteDaily, LockDaily,
     InsertDaily, LoadUsers, ReadSnapshots, DeleteRecs, LockRecs, InsertRecs
<1>10. ASSUME LoadSnapshots(p) \/ EnsureOutcomes(p) \/ ReadFeed(p) \/ ReadDetail(p)
              \/ StoreCheck(p)
       PROVE  \E j : Set(p, j)
  BY <1>10 DEF LoadSnapshots, EnsureOutcomes, ReadFeed, ReadDetail, StoreCheck
<1>11. ASSUME TrackInsert(p) \/ EnsureInsert(p) PROVE SameWork(q)
  BY <1>5, <1>11 DEF TrackInsert, EnsureInsert
<1>12. ASSUME \/ DailyConflict(p) \/ RecsConflict(p) \/ Deadlock(p) \/ RecursionFails(p)
              \/ FinishReport(p) \/ ReportConflict(p) \/ Respond(p) \/ Crash(p)
       PROVE  SameWork(q)
  BY <1>3, <1>12 DEF DailyConflict, RecsConflict, Deadlock, RecursionFails, FinishReport,
     ReportConflict, Respond, Crash
<1>13. ASSUME StoreInsert(p) PROVE SameWork(q)
  BY <1>2, <1>3, <1>13 DEF StoreInsert, AfterStore
<1>. QED BY <1>2, <1>6, <1>7, <1>8, <1>9, <1>10, <1>11, <1>12, <1>13 DEF Step

LEMMA SetJob ==
  ASSUME TypeOK, NEW p \in Jobs, NEW j, Set(p, j)
  PROVE  job'[p] = j
BY DEF TypeOK, Set

LEMMA EndJob ==
  ASSUME TypeOK, NEW p \in Jobs, End(p)
  PROVE  job'[p].pc = "idle"
BY SetJob DEF End, Idle

LEMMA LatestFresh ==
  ASSUME HistoryOK
  PROVE  \A s \in Securities : Latest[s] >= 1
BY DEF Latest, HistoryOK

\* The statements that replace the date's rows, and those that replace a user's,
\* leave the job where it is with what it has in hand.
LEMMA PublishJob ==
  ASSUME TypeOK, NEW p \in Jobs, DeleteDaily(p) \/ LockDaily(p) \/ InsertDaily(p)
  PROVE  /\ job[p].pc \in PublishLabels /\ job'[p].pc \in PublishLabels
         /\ job'[p].todo = job[p].todo /\ job'[p].got = job[p].got
         /\ job'[p].started = job[p].started /\ job'[p].sec = job[p].sec
         /\ snaps' = snaps /\ now' = now
<1>. DEFINE J == job[p]
<1>1. J \in JobRecord BY DEF TypeOK
<1>2. snaps' = snaps /\ now' = now /\ J.pc \in PublishLabels
  BY DEF DeleteDaily, LockDaily, InsertDaily, At, PublishLabels
<1>3. CASE DeleteDaily(p)
  <2>1. PICK d, w : Set(p, [J EXCEPT !.pc = "lockDaily", !.date = d, !.want = w])
    BY <1>3 DEF DeleteDaily
  <2>. DEFINE j == [J EXCEPT !.pc = "lockDaily", !.date = d, !.want = w]
  <2>2. /\ j.pc = "lockDaily" /\ j.todo = J.todo /\ j.got = J.got /\ j.started = J.started
        /\ j.sec = J.sec
    BY <1>1 DEF JobRecord
  <2>3. job'[p] = j BY <2>1, SetJob
  <2>. QED BY <1>2, <2>2, <2>3 DEF PublishLabels
<1>4. CASE LockDaily(p)
  <2>1. PICK keys : Set(p, [J EXCEPT !.held = @ \cup keys,
                 !.pc = IF keys = J.want THEN "publish" ELSE @,
                 !.want = IF keys = J.want
                          THEN {DailyKey(J.date, s) : s \in Securities} ELSE @ \ keys])
    BY <1>4 DEF LockDaily
  <2>. DEFINE l == IF keys = J.want THEN "publish" ELSE J.pc
              w == IF keys = J.want THEN {DailyKey(J.date, s) : s \in Securities}
                   ELSE J.want \ keys
              j == [J EXCEPT !.held = J.held \cup keys, !.pc = l, !.want = w]
  <2>2. job'[p] = j BY <2>1, SetJob
  <2>3. l \in PublishLabels BY <1>2 DEF PublishLabels
  <2>. HIDE DEF l, w
  <2>4. /\ j.pc = l /\ j.todo = J.todo /\ j.got = J.got /\ j.started = J.started
        /\ j.sec = J.sec
    BY <1>1 DEF JobRecord
  <2>. QED BY <1>2, <2>2, <2>3, <2>4
<1>5. CASE InsertDaily(p)
  <2>1. PICK keys : Set(p, [J EXCEPT !.held = @ \cup keys, !.want = @ \ keys])
    BY <1>5 DEF InsertDaily
  <2>. DEFINE j == [J EXCEPT !.held = @ \cup keys, !.want = @ \ keys]
  <2>2. /\ j.pc = J.pc /\ j.todo = J.todo /\ j.got = J.got /\ j.started = J.started
        /\ j.sec = J.sec
    BY <1>1 DEF JobRecord
  <2>3. job'[p] = j BY <2>1, SetJob
  <2>. QED BY <1>2, <2>2, <2>3
<1>. QED BY <1>3, <1>4, <1>5

RecsLabels == {"deleteRecs", "lockRecs", "writeRecs"}

LEMMA RecsJob ==
  ASSUME TypeOK, NEW p \in Jobs, DeleteRecs(p) \/ LockRecs(p) \/ InsertRecs(p)
  PROVE  job'[p].pc \in RecsLabels /\ job'[p].got = job[p].got
<1>. DEFINE J == job[p]
<1>1. J \in JobRecord BY DEF TypeOK
<1>2. CASE DeleteRecs(p)
  <2>1. PICK w : Set(p, [J EXCEPT !.pc = "lockRecs", !.want = w]) BY <1>2 DEF DeleteRecs
  <2>. DEFINE j == [J EXCEPT !.pc = "lockRecs", !.want = w]
  <2>2. j.pc = "lockRecs" /\ j.got = J.got BY <1>1 DEF JobRecord
  <2>3. job'[p] = j BY <2>1, SetJob
  <2>. QED BY <2>2, <2>3 DEF RecsLabels
<1>3. CASE LockRecs(p)
  <2>1. PICK keys : Set(p, [J EXCEPT !.held = @ \cup keys,
                 !.pc = IF keys = J.want THEN "writeRecs" ELSE @,
                 !.want = IF keys = J.want
                          THEN {RecKey(J.user, r) : r \in NewRecs(p)} ELSE @ \ keys])
    BY <1>3 DEF LockRecs
  <2>. DEFINE l == IF keys = J.want THEN "writeRecs" ELSE J.pc
              w == IF keys = J.want THEN {RecKey(J.user, r) : r \in NewRecs(p)}
                   ELSE J.want \ keys
              j == [J EXCEPT !.held = J.held \cup keys, !.pc = l, !.want = w]
  <2>2. job'[p] = j BY <2>1, SetJob
  <2>3. l \in RecsLabels BY <1>3 DEF RecsLabels, LockRecs, At
  <2>. HIDE DEF l, w
  <2>4. j.pc = l /\ j.got = J.got BY <1>1 DEF JobRecord
  <2>. QED BY <2>2, <2>3, <2>4
<1>4. CASE InsertRecs(p)
  <2>1. PICK keys : Set(p, [J EXCEPT !.held = @ \cup keys, !.want = @ \ keys])
    BY <1>4 DEF InsertRecs
  <2>. DEFINE j == [J EXCEPT !.held = @ \cup keys, !.want = @ \ keys]
  <2>2. j.pc = J.pc /\ j.got = J.got BY <1>1 DEF JobRecord
  <2>3. job'[p] = j BY <2>1, SetJob
  <2>. QED BY <1>4, <2>2, <2>3 DEF RecsLabels, InsertRecs, At
<1>. QED BY <1>2, <1>3, <1>4

\* The steps of a rebuild.
LEMMA WalkFresh ==
  ASSUME IInv, Typed', Grows, NEW p \in Jobs,
         \/ p \in Refreshers /\ StartRefresh(p)
         \/ p \in Submitters /\ SubmitEvent(p)
         \/ Ingest(p) \/ LockedSnapshot(p) \/ ReadLatestEvent(p) \/ Generate(p)
         \/ Track(p) \/ TrackInsert(p)
         \/ DeleteDaily(p) \/ LockDaily(p) \/ InsertDaily(p)
  PROVE  FreshWork(p, job'[p], snaps', now')
<1>. DEFINE J == job[p]
<1>1. /\ TypeOK /\ J \in JobRecord /\ now \in Slots
      /\ snaps \in [Securities -> Seq(Snapshot)]
  BY DEF IInv, Typed, TypeOK
<1>2. FreshWork(p, J, snaps, now) BY DEF IInv, Fresh
<1>3. J.pc \in RebuildLabels => J.sec \in Securities
  BY DEF IInv, Typed, SubjectOK, RebuildLabels
<1>4. p \in Refreshers /\ J.pc \in WalkLabels => Collected(J, snaps, now)
  BY <1>2 DEF FreshWork
<1>5. now <= now BY <1>1, BoundsAssumption DEF Slots
<1>6. CASE p \in Refreshers /\ StartRefresh(p)
  <2>. DEFINE j == [Idle EXCEPT !.pc = "ingest", !.todo = Securities, !.started = now]
  <2>1. job'[p] = j /\ snaps' = snaps /\ now' = now BY <1>1, <1>6, SetJob DEF StartRefresh
  <2>2. j.pc = "ingest" /\ j.todo = Securities /\ j.started = now BY DEF Idle
  <2>. HIDE DEF j
  <2>3. Collected(j, snaps, now) BY <1>5, <2>2 DEF Collected, PublishLabels
  <2>. QED BY <1>6, <2>1, <2>2, <2>3 DEF FreshWork, WalkLabels, StoreLabels, Rebuilders
<1>7. CASE p \in Submitters /\ SubmitEvent(p)
  <2>1. PICK s \in Securities : Set(p, [Idle EXCEPT !.pc = "check", !.sec = s])
    BY <1>7 DEF SubmitEvent
  <2>2. job'[p].pc = "check" BY <1>1, <2>1, SetJob DEF Idle
  <2>3. p \notin Refreshers BY <1>7, KindsAssumption
  <2>. QED BY <1>7, <2>2, <2>3 DEF FreshWork, PublishLabels, StoreLabels, Rebuilders
<1>8. CASE Ingest(p)
  <2>1. PICK s \in J.todo, new \in {0, 1} :
          Set(p, [J EXCEPT !.pc = "check", !.todo = @ \ {s}, !.sec = s, !.twice = (new = 1)])
    BY <1>8 DEF Ingest
  <2>. DEFINE j == [J EXCEPT !.pc = "check", !.todo = @ \ {s}, !.sec = s, !.twice = (new = 1)]
  <2>2. job'[p] = j BY <1>1, <2>1, SetJob
  <2>3. snaps' = snaps /\ now' = now /\ J.pc = "ingest" BY <1>8 DEF Ingest, At
  <2>4. /\ j.pc = "check" /\ j.todo = J.todo \ {s} /\ j.sec = s
        /\ j.got = J.got /\ j.started = J.started
    BY <1>1 DEF JobRecord
  <2>5. p \in Refreshers /\ p \in Rebuilders BY <1>2, <2>3 DEF FreshWork, Rebuilders
  <2>6. Collected(J, snaps, now) BY <1>4, <2>3, <2>5 DEF WalkLabels
  <2>. HIDE DEF j, J
  <2>7. Collected(j, snaps, now) BY <2>3, <2>4, <2>6 DEF Collected, PublishLabels, RebuildLabels
  <2>. QED BY <2>2, <2>3, <2>4, <2>5, <2>7 DEF FreshWork, StoreLabels
<1>9. CASE LockedSnapshot(p)
  <2>. DEFINE i == Len(snaps[J.sec])
  <2>1. Set(p, Rebuilt(p, i)) /\ snaps' = snaps /\ now' = now /\ J.pc = "check"
        /\ Locked(J.sec)
    BY <1>9 DEF LockedSnapshot, At
  <2>2. J.sec \in Securities /\ i \in Nat /\ i >= 1
    BY <1>1, <1>3, <2>1 DEF RebuildLabels, IInv, HistoryOK
  <2>3. ASSUME p \in Refreshers PROVE GoodSnap(snaps, J.sec, i, J.started)
    <3>1. J.started <= now /\ J.started \in Slots
      BY <1>1, <1>4, <2>1, <2>3 DEF Collected, WalkLabels, RebuildLabels, JobRecord
    <3>2. snaps[J.sec][i].at >= Cutoff(now) BY <2>1 DEF Locked
    <3>3. snaps[J.sec][i] \in Snapshot BY <1>1, <2>2
    <3>4. snaps[J.sec][i].at \in Int /\ Cutoff(now) \in Int /\ Cutoff(J.started) \in Int
      BY <1>1, <3>1, <3>3, BoundsAssumption DEF Snapshot, Slots, Cutoff
    <3>5. Cutoff(J.started) <= Cutoff(now) BY <1>1, <3>1, CutoffMonotone
    <3>. QED BY <2>2, <3>2, <3>4, <3>5 DEF GoodSnap
  <2>4. FreshWork(p, Rebuilt(p, i), snaps, now)
    BY <2>1, <2>2, <2>3, RebuiltFresh DEF RebuildLabels
  <2>. QED BY <1>1, <2>1, <2>4, SetJob
<1>10. CASE ReadLatestEvent(p)
  <2>. DEFINE j == [J EXCEPT !.pc = "generate", !.ev = events[J.sec],
                      !.snap = Len(snaps[J.sec])]
  <2>1. job'[p] = j /\ snaps' = snaps /\ now' = now /\ J.pc = "check"
    BY <1>1, <1>10, SetJob DEF ReadLatestEvent, At
  <2>2. /\ j.pc = "generate" /\ j.todo = J.todo /\ j.sec = J.sec
        /\ j.got = J.got /\ j.started = J.started
    BY <1>1 DEF JobRecord
  <2>. HIDE DEF j, J
  <2>. QED BY <1>2, <2>1, <2>2 DEF FreshWork, Collected, WalkLabels, PublishLabels,
     RebuildLabels, StoreLabels
<1>11. CASE Generate(p)
  <2>. DEFINE n == Len(snaps[J.sec]) + 1
              j == [J EXCEPT !.pc = "track", !.ev = 0, !.snap = n]
  <2>1. job'[p] = j /\ now' = now /\ J.pc = "generate"
        /\ snaps' = [snaps EXCEPT ![J.sec] = Append(@, NewSnapshot(p))]
    BY <1>1, <1>11, SetJob DEF Generate, At
  <2>2. /\ j.pc = "track" /\ j.todo = J.todo /\ j.sec = J.sec
        /\ j.got = J.got /\ j.started = J.started /\ j.snap = n
    BY <1>1 DEF JobRecord
  <2>3. J.sec \in Securities BY <1>3, <2>1 DEF RebuildLabels
  <2>4. FreshWork(p, J, snaps', now')
    BY <1>1, <1>2, <1>3, WorkStays DEF IInv, Typed
  <2>5. ASSUME p \in Refreshers PROVE GoodSnap(snaps', J.sec, n, J.started)
    <3>1. J.started <= now /\ J.started \in Slots
      BY <1>1, <1>4, <2>1, <2>5 DEF Collected, WalkLabels, RebuildLabels, JobRecord
    <3>2. snaps'[J.sec] = Append(snaps[J.sec], NewSnapshot(p)) BY <1>1, <2>1, <2>3
    <3>3. NewSnapshot(p) \in Snapshot /\ NewSnapshot(p).at = now
      BY <1>1 DEF NewSnapshot, Snapshot, JobRecord
    <3>4. snaps[J.sec] \in Seq(Snapshot) BY <1>1, <2>3
    <3>5. /\ n \in 1 .. Len(snaps'[J.sec])
          /\ snaps'[J.sec][n] = NewSnapshot(p)
      <4>. HIDE DEF J
      <4>. QED BY <3>2, <3>3, <3>4
    <3>6. Cutoff(J.started) <= Cutoff(now) /\ Cutoff(now) <= now
      BY <1>1, <3>1, CutoffMonotone
    <3>7. now \in Int /\ Cutoff(now) \in Int /\ Cutoff(J.started) \in Int
      BY <1>1, <3>1, BoundsAssumption DEF Slots, Cutoff
    <3>. QED BY <3>3, <3>5, <3>6, <3>7 DEF GoodSnap
  <2>6. p \in Rebuilders BY <2>1, <1>2 DEF FreshWork, WalkLabels, RebuildLabels
  <2>7. p \in Refreshers => Collected(J, snaps', now')
    BY <2>1, <2>4 DEF FreshWork, WalkLabels, RebuildLabels
  <2>. HIDE DEF j, J, n
  <2>8. p \in Refreshers => Collected(j, snaps', now')
    BY <2>1, <2>2, <2>5, <2>7 DEF Collected, PublishLabels, RebuildLabels
  <2>. QED BY <2>1, <2>2, <2>6, <2>8 DEF FreshWork, PublishLabels, StoreLabels
<1>12. CASE Track(p)
  <2>. DEFINE j == [J EXCEPT !.pc = "trackInsert"]
  <2>1. /\ Set(p, Rebuilt(p, J.snap)) \/ Set(p, j)
        /\ snaps' = snaps /\ now' = now /\ J.pc = "track"
    BY <1>12 DEF Track, At
  <2>2. J.snap \in Nat BY <1>1 DEF JobRecord
  <2>3. p \in Refreshers => GoodSnap(snaps, J.sec, J.snap, J.started)
    BY <1>4, <2>1 DEF Collected, WalkLabels, RebuildLabels
  <2>4. FreshWork(p, Rebuilt(p, J.snap), snaps, now)
    BY <2>1, <2>2, <2>3, RebuiltFresh DEF RebuildLabels
  <2>5. /\ j.pc = "trackInsert" /\ j.todo = J.todo /\ j.sec = J.sec
        /\ j.got = J.got /\ j.started = J.started /\ j.snap = J.snap
    BY <1>1 DEF JobRecord
  <2>6. FreshWork(p, j, snaps, now)
    <3>. HIDE DEF j, J
    <3>. QED BY <1>2, <2>1, <2>5
         DEF FreshWork, Collected, WalkLabels, PublishLabels, RebuildLabels, StoreLabels
  <2>7. job'[p] \in {Rebuilt(p, J.snap), j} BY <1>1, <2>1, SetJob
  <2>. QED BY <2>1, <2>4, <2>6, <2>7
<1>13. CASE TrackInsert(p)
  <2>1. /\ Set(p, Rebuilt(p, J.snap)) \/ End(p)
        /\ snaps' = snaps /\ now' = now /\ J.pc = "trackInsert"
    BY <1>13 DEF TrackInsert, InsertOutcomes, At
  <2>2. J.snap \in Nat BY <1>1 DEF JobRecord
  <2>3. p \in Refreshers => GoodSnap(snaps, J.sec, J.snap, J.started)
    BY <1>4, <2>1 DEF Collected, WalkLabels, RebuildLabels
  <2>4. FreshWork(p, Rebuilt(p, J.snap), snaps, now)
    BY <2>1, <2>2, <2>3, RebuiltFresh DEF RebuildLabels
  <2>5. CASE End(p)
    BY <1>1, <2>5, EndJob, FreshElsewhere DEF WalkLabels, PublishLabels, RebuildLabels, StoreLabels
  <2>6. CASE Set(p, Rebuilt(p, J.snap)) BY <1>1, <2>1, <2>4, <2>6, SetJob
  <2>. QED BY <2>1, <2>5, <2>6
<1>14. CASE DeleteDaily(p) \/ LockDaily(p) \/ InsertDaily(p)
  <2>. DEFINE j == job'[p]
  <2>1. /\ J.pc \in PublishLabels /\ j.pc \in PublishLabels
        /\ j.todo = J.todo /\ j.got = J.got /\ j.started = J.started
        /\ snaps' = snaps /\ now' = now
    BY <1>1, <1>14, PublishJob
  <2>2. p \in Refreshers /\ p \in Rebuilders BY <1>2, <2>1 DEF FreshWork, Rebuilders
  <2>3. Collected(J, snaps, now) BY <1>4, <2>1, <2>2 DEF WalkLabels
  <2>. HIDE DEF j, J
  <2>4. Collected(j, snaps, now) BY <2>1, <2>3 DEF Collected, PublishLabels, RebuildLabels
  <2>5. FreshWork(p, j, snaps', now')
    BY <2>1, <2>2, <2>4 DEF FreshWork, StoreLabels, PublishLabels
  <2>. QED BY <2>5 DEF j
<1>. QED BY <1>6, <1>7, <1>8, <1>9, <1>10, <1>11, <1>12, <1>13, <1>14

\* The steps of the readers of the cache.
LEMMA StoreFresh ==
  ASSUME IInv, Typed', Grows, NEW p \in Jobs,
         ReadFeed(p) \/ ReadDetail(p) \/ StoreCheck(p) \/ StoreInsert(p)
  PROVE  FreshWork(p, job'[p], snaps', now')
<1>. DEFINE J == job[p]
<1>1. TypeOK /\ J \in JobRecord /\ HistoryOK BY DEF IInv, Typed, TypeOK
<1>2. FreshWork(p, J, snaps, now) BY DEF IInv, Fresh
<1>3. ASSUME J.pc \in StoreLabels,
             job'[p].pc \in {"store", "storeInsert", "feed", "detail", "served"},
             job'[p].got = J.got
      PROVE  FreshWork(p, job'[p], snaps', now')
  BY <1>2, <1>3 DEF FreshWork, WalkLabels, PublishLabels, RebuildLabels
<1>4. ASSUME job'[p].pc = "served" \/ (job'[p].pc = "store" /\ job'[p].got = Latest)
      PROVE  FreshWork(p, job'[p], snaps', now')
  BY <1>1, <1>4, LatestFresh DEF FreshWork, WalkLabels, PublishLabels, RebuildLabels, StoreLabels
<1>5. CASE ReadFeed(p)
  <2>. DEFINE j1 == [Idle EXCEPT !.pc = "served"]
              j2 == [Idle EXCEPT !.pc = "store", !.date = Date(now),
                       !.todo = Securities, !.got = Latest]
  <2>1. Set(p, j1) \/ Set(p, j2) BY <1>5 DEF ReadFeed
  <2>2. j1.pc = "served" /\ j2.pc = "store" /\ j2.got = Latest BY DEF Idle
  <2>3. job'[p] \in {j1, j2} BY <1>1, <2>1, SetJob
  <2>4. job'[p].pc = "served" \/ (job'[p].pc = "store" /\ job'[p].got = Latest)
    <3>. HIDE DEF j1, j2
    <3>. QED BY <2>2, <2>3
  <2>. QED BY <1>4, <2>4
<1>6. CASE ReadDetail(p)
  <2>. DEFINE j1 == [Idle EXCEPT !.pc = "served"]
  <2>1. PICK s, n : \/ Set(p, j1)
                    \/ Set(p, [Idle EXCEPT !.pc = "store", !.date = Date(now), !.sec = s,
                                 !.todo = {s}, !.got = Latest, !.depth = n])
    BY <1>6 DEF ReadDetail
  <2>. DEFINE j2 == [Idle EXCEPT !.pc = "store", !.date = Date(now), !.sec = s, !.todo = {s},
                       !.got = Latest, !.depth = n]
  <2>2. j1.pc = "served" /\ j2.pc = "store" /\ j2.got = Latest BY DEF Idle
  <2>3. job'[p] \in {j1, j2} BY <1>1, <2>1, SetJob
  <2>4. job'[p].pc = "served" \/ (job'[p].pc = "store" /\ job'[p].got = Latest)
    <3>. HIDE DEF j1, j2
    <3>. QED BY <2>2, <2>3
  <2>. QED BY <1>4, <2>4
<1>7. CASE StoreCheck(p)
  <2>1. PICK s \in J.todo, next \in AfterStore(p) :
          \/ Set(p, [J EXCEPT !.todo = @ \ {s}, !.pc = IF J.todo = {s} THEN next ELSE "store"])
          \/ Set(p, [J EXCEPT !.pc = "storeInsert", !.sec = s])
    BY <1>7 DEF StoreCheck, AfterStore
  <2>2. next \in {"feed", "detail", "served"} BY DEF AfterStore
  <2>3. J.pc = "store" BY <1>7 DEF StoreCheck, At
  <2>. DEFINE j1 == [J EXCEPT !.todo = @ \ {s}, !.pc = IF J.todo = {s} THEN next ELSE "store"]
              j2 == [J EXCEPT !.pc = "storeInsert", !.sec = s]
  <2>4. /\ j1.pc \in {"store", "feed", "detail", "served"} /\ j1.got = J.got
        /\ j2.pc = "storeInsert" /\ j2.got = J.got
    BY <1>1, <2>2 DEF JobRecord
  <2>5. job'[p] \in {j1, j2} BY <1>1, <2>1, SetJob
  <2>. HIDE DEF j1, j2
  <2>. QED BY <1>3, <2>3, <2>4, <2>5 DEF StoreLabels
<1>8. CASE StoreInsert(p)
  <2>1. CASE End(p)
    BY <1>1, <2>1, EndJob, FreshElsewhere DEF WalkLabels, PublishLabels, RebuildLabels, StoreLabels
  <2>2. CASE ~End(p)
    <3>1. PICK next \in AfterStore(p) :
            Set(p, [J EXCEPT !.todo = @ \ {J.sec},
                             !.pc = IF J.todo = {J.sec} THEN next ELSE "store"])
      BY <1>8, <2>2 DEF StoreInsert
    <3>2. next \in {"feed", "detail", "served"} BY DEF AfterStore
    <3>3. J.pc = "storeInsert" BY <1>8 DEF StoreInsert, At
    <3>. DEFINE j == [J EXCEPT !.todo = @ \ {J.sec},
                               !.pc = IF J.todo = {J.sec} THEN next ELSE "store"]
    <3>4. j.pc \in {"store", "feed", "detail", "served"} /\ j.got = J.got
      BY <1>1, <3>2 DEF JobRecord
    <3>5. job'[p] = j BY <1>1, <3>1, SetJob
    <3>. HIDE DEF j
    <3>. QED BY <1>3, <3>3, <3>4, <3>5 DEF StoreLabels
  <2>. QED BY <2>1, <2>2
<1>. QED BY <1>5, <1>6, <1>7, <1>8

\* All other steps leave the walk and the store, or are elsewhere already.
LEMMA RestElsewhere ==
  ASSUME Typed, NEW p \in Jobs,
         \/ StartUp(p) \/ StartReport(p) \/ SaveProfile(p) \/ Acknowledge(p)
         \/ DailyConflict(p) \/ PublishDaily(p) \/ LoadUsers(p)
         \/ ReadSnapshots(p) \/ DeleteRecs(p) \/ LockRecs(p)
         \/ RecsConflict(p) \/ InsertRecs(p) \/ CommitRecs(p)
         \/ Deadlock(p) \/ RecursionFails(p)
         \/ LoadSnapshots(p) \/ EnsureOutcomes(p) \/ EnsureInsert(p) \/ FinishReport(p)
         \/ ReportConflict(p) \/ Respond(p) \/ Crash(p)
  PROVE  job'[p].pc \notin WalkLabels \cup StoreLabels
<1>. DEFINE J == job[p]
<1>. SUFFICES job'[p].pc \in {"idle", "load", "readRecs", "deleteRecs", "lockRecs", "writeRecs",
                             "report", "ensure", "ensureInsert"}
  BY DEF WalkLabels, PublishLabels, RebuildLabels, StoreLabels
<1>1. TypeOK /\ J \in JobRecord /\ job \in [Jobs -> JobRecord] BY DEF Typed, TypeOK
<1>2. End(p) => job'[p].pc = "idle" BY <1>1, EndJob
<1>3. CASE StartReport(p)
  BY <1>1, <1>3, SetJob DEF StartReport, Idle
<1>13. CASE StartUp(p)
  <2>1. PICK u, f : Set(p, [Idle EXCEPT !.pc = "readRecs", !.twice = TRUE, !.users = {u},
                                        !.prof = f])
    BY <1>13 DEF StartUp
  <2>. DEFINE j == [Idle EXCEPT !.pc = "readRecs", !.twice = TRUE, !.users = {u}, !.prof = f]
  <2>2. j.pc = "readRecs" BY DEF Idle
  <2>3. job'[p] = j BY <1>1, <2>1, SetJob
  <2>. QED BY <2>2, <2>3
<1>4. CASE SaveProfile(p) \/ Acknowledge(p)
  <2>1. PICK u, f : Set(p, [Idle EXCEPT !.pc = "readRecs", !.users = {u}, !.prof = f])
    BY <1>4 DEF SaveProfile, Acknowledge
  <2>. DEFINE j == [Idle EXCEPT !.pc = "readRecs", !.users = {u}, !.prof = f]
  <2>2. j.pc = "readRecs" BY DEF Idle
  <2>3. job'[p] = j BY <1>1, <2>1, SetJob
  <2>. QED BY <2>2, <2>3
<1>5. CASE PublishDaily(p)
  <2>. DEFINE j == [J EXCEPT !.pc = "load", !.held = {}, !.want = {}]
  <2>1. j \in JobRecord /\ j.pc = "load" BY <1>1 DEF JobRecord
  <2>2. job' = Committed(job, p, j, Deleting) BY <1>5 DEF PublishDaily
  <2>. QED BY <1>1, <2>1, <2>2, CommittedJob
<1>6. CASE LoadUsers(p)
  <2>1. PICK us, f, d : Set(p, [Idle EXCEPT !.pc = IF us = {} THEN "report" ELSE "readRecs",
                                   !.date = d, !.users = us, !.prof = f])
    BY <1>6 DEF LoadUsers
  <2>. DEFINE j == [Idle EXCEPT !.pc = IF us = {} THEN "report" ELSE "readRecs",
                                !.date = d, !.users = us, !.prof = f]
  <2>2. j.pc \in {"report", "readRecs"} BY DEF Idle
  <2>3. job'[p] = j BY <1>1, <2>1, SetJob
  <2>. QED BY <2>2, <2>3
<1>7. CASE ReadSnapshots(p)
  <2>1. PICK u : Set(p, [J EXCEPT !.pc = "deleteRecs", !.user = u, !.users = @ \ {u},
                                  !.got = Latest])
    BY <1>7 DEF ReadSnapshots
  <2>. DEFINE j == [J EXCEPT !.pc = "deleteRecs", !.user = u, !.users = @ \ {u}, !.got = Latest]
  <2>2. job'[p] = j BY <1>1, <2>1, SetJob
  <2>3. j.pc = "deleteRecs" BY <1>1 DEF JobRecord
  <2>. QED BY <2>2, <2>3
<1>14. CASE DeleteRecs(p) \/ LockRecs(p) \/ InsertRecs(p)
  BY <1>1, <1>14, RecsJob DEF RecsLabels
<1>8. CASE CommitRecs(p)
  <2>. DEFINE j == AfterUser(p)
  <2>1. j \in JobRecord /\ j.pc \in {"readRecs", "idle", "load", "report"}
    BY <1>1, AfterUserType
  <2>2. job' = Committed(job, p, j, Deleting) BY <1>8 DEF CommitRecs
  <2>. HIDE DEF j
  <2>. QED BY <1>1, <2>1, <2>2, CommittedJob
<1>9. CASE LoadSnapshots(p)
  <2>1. Set(p, [J EXCEPT !.pc = "ensure", !.got = Latest]) BY <1>9 DEF LoadSnapshots
  <2>. DEFINE j == [J EXCEPT !.pc = "ensure", !.got = Latest]
  <2>2. j.pc = "ensure" BY <1>1 DEF JobRecord
  <2>3. job'[p] = j BY <1>1, <2>1, SetJob
  <2>. QED BY <2>2, <2>3
<1>10. CASE EnsureOutcomes(p)
  <2>1. PICK s, i : Set(p, [J EXCEPT !.pc = "ensureInsert", !.sec = s, !.snap = i])
    BY <1>10 DEF EnsureOutcomes
  <2>. DEFINE j == [J EXCEPT !.pc = "ensureInsert", !.sec = s, !.snap = i]
  <2>2. j.pc = "ensureInsert" BY <1>1 DEF JobRecord
  <2>3. job'[p] = j BY <1>1, <2>1, SetJob
  <2>. QED BY <2>2, <2>3
<1>11. CASE EnsureInsert(p)
  <2>1. End(p) \/ Set(p, [J EXCEPT !.pc = "ensure", !.snap = 0])
    BY <1>11 DEF EnsureInsert, InsertOutcomes
  <2>. DEFINE j == [J EXCEPT !.pc = "ensure", !.snap = 0]
  <2>2. j.pc = "ensure" BY <1>1 DEF JobRecord
  <2>3. Set(p, j) => job'[p] = j BY <1>1, SetJob
  <2>. QED BY <1>2, <2>1, <2>2, <2>3
<1>12. CASE \/ DailyConflict(p) \/ RecsConflict(p) \/ Deadlock(p) \/ RecursionFails(p)
            \/ FinishReport(p) \/ ReportConflict(p) \/ Respond(p) \/ Crash(p)
  BY <1>2, <1>12 DEF DailyConflict, RecsConflict, Deadlock, RecursionFails, FinishReport,
     ReportConflict, Respond, Crash
<1>. QED BY <1>3, <1>4, <1>5, <1>6, <1>7, <1>8, <1>9, <1>10, <1>11, <1>12, <1>13, <1>14

LEMMA NextGrows ==
  ASSUME Typed, [Next]_vars
  PROVE  Grows
<1>1. TypeOK BY DEF Typed
<1>2. CASE Tick BY <1>1, <1>2, StillGrows DEF Tick
<1>3. CASE UNCHANGED vars BY <1>1, <1>3, StillGrows DEF vars
<1>4. ASSUME NEW p \in Jobs, Start(p) \/ Step(p) \/ Crash(p)
      PROVE  Generate(p) \/ (snaps' = snaps /\ now' = now)
  BY <1>4 DEF Start, Step, Crash, StartRefresh, SubmitEvent, StartUp, StartReport, SaveProfile,
     Acknowledge, ReadFeed, ReadDetail, Ingest, LockedSnapshot, ReadLatestEvent, Track,
     TrackInsert, DeleteDaily, LockDaily, DailyConflict, InsertDaily, PublishDaily, LoadUsers,
     ReadSnapshots, DeleteRecs, LockRecs, RecsConflict, InsertRecs, CommitRecs, Deadlock,
     RecursionFails, LoadSnapshots, EnsureOutcomes, EnsureInsert, FinishReport, ReportConflict,
     StoreCheck, StoreInsert, Respond
<1>5. ASSUME NEW p \in Jobs, Start(p) \/ Step(p) \/ Crash(p) PROVE Grows
  BY <1>1, <1>4, <1>5, GenerateGrows, StillGrows
<1>. QED BY <1>2, <1>3, <1>5 DEF Next

LEMMA StepIInv == IInv /\ [Next]_vars => IInv'
<1>. SUFFICES ASSUME IInv, [Next]_vars PROVE IInv' OBVIOUS
<1>1. Typed /\ Typed' /\ TypeOK /\ TypeOK' BY TypedStep DEF IInv, Typed
<1>2. Grows BY <1>1, NextGrows
<1>3. HistoryOK'
  <2>. SUFFICES ASSUME NEW s \in Securities PROVE Len(snaps'[s]) >= 1 BY DEF HistoryOK
  <2>1. Len(snaps[s]) \in Nat /\ Len(snaps'[s]) \in Nat BY <1>1 DEF TypeOK
  <2>. QED BY <1>2, <2>1 DEF Grows, IInv, HistoryOK
<1>4. Fresh'
  <2>. SUFFICES ASSUME NEW q \in Jobs PROVE FreshWork(q, job'[q], snaps', now')
    BY DEF Fresh
  <2>1. CASE job' = job
    BY <1>1, <1>2, <2>1, SameWorkStays DEF SameWork
  <2>2. ASSUME NEW p \in Jobs, Start(p) \/ Step(p) \/ Crash(p)
        PROVE  FreshWork(q, job'[q], snaps', now')
    <3>1. CASE q # p
      BY <1>1, <1>2, <2>2, <3>1, OthersKeep, SameWorkStays
    <3>2. CASE q = p
      BY <1>1, <1>2, <2>2, <3>2, WalkFresh, StoreFresh, RestElsewhere, FreshElsewhere
      DEF Start, Step
    <3>. QED BY <3>1, <3>2
  <2>. QED BY <2>1, <2>2 DEF Next, Tick, vars
<1>. QED BY <1>1, <1>3, <1>4 DEF IInv

\* A refresh publishes, for every security, a snapshot that exists and was locked
\* in no earlier window than the one it began in: refresh_market_state and
\* rebuild_security_recommendation, with any number of refreshes, events and
\* readers at work and the clock running.
THEOREM PublishedFreshness == Spec => []PublishedFresh
<1>1. Init => IInv BY InitIInv
<1>2. IInv /\ [Next]_vars => IInv' BY StepIInv
<1>3. IInv => PublishedFresh
  <2>. SUFFICES ASSUME IInv, NEW p \in Refreshers, job[p].pc \in PublishLabels,
                       NEW s \in Securities
                PROVE  GoodSnap(snaps, s, job[p].got[s], job[p].started)
    BY DEF PublishedFresh, GoodSnap, PublishLabels
  <2>1. FreshWork(p, job[p], snaps, now) BY DEF IInv, Fresh, Jobs, Rebuilders
  <2>2. Collected(job[p], snaps, now) BY <2>1 DEF FreshWork, WalkLabels
  <2>. QED BY <2>2 DEF Collected, RebuildLabels, PublishLabels
<1>. QED BY <1>1, <1>2, <1>3, PTL DEF Spec

-------------------------------------------------------------------------------
\* The daily cache implements DailyBoard.

LEMMA DailyOnlyWritten ==
  ASSUME NEW p \in Jobs, Start(p) \/ Step(p) \/ Crash(p)
  PROVE  PublishDaily(p) \/ StoreInsert(p) \/ daily' = daily
BY DEF Start, Step, Crash, StartRefresh, SubmitEvent, StartUp, StartReport, SaveProfile,
   Acknowledge, ReadFeed, ReadDetail, Ingest, LockedSnapshot, ReadLatestEvent, Generate, Track,
   TrackInsert, DeleteDaily, LockDaily, DailyConflict, InsertDaily, LoadUsers,
   ReadSnapshots, DeleteRecs, LockRecs, RecsConflict, InsertRecs, CommitRecs, Deadlock,
   RecursionFails, LoadSnapshots, EnsureOutcomes, EnsureInsert, FinishReport, ReportConflict,
   StoreCheck, Respond

LEMMA BoardStep == IInv /\ [Next]_vars => [Board!Next]_daily
<1>. SUFFICES ASSUME IInv, [Next]_vars PROVE Board!Next \/ daily' = daily OBVIOUS
<1>1. TypeOK /\ Fresh BY DEF IInv, Typed
<1>2. daily \in [Dates -> [Securities -> Nat]] BY <1>1 DEF TypeOK
<1>3. ASSUME NEW p \in Jobs, PublishDaily(p) PROVE Board!Next \/ daily' = daily
  <2>. DEFINE d == job[p].date
              got == job[p].got
  <2>1. daily' = [daily EXCEPT ![d] = got] BY <1>3 DEF PublishDaily
  <2>2. job[p] \in JobRecord /\ d \in Dates /\ got \in [Securities -> Nat]
    BY <1>1 DEF TypeOK, JobRecord
  <2>3. ASSUME NEW s \in Securities PROVE got[s] # 0
    <3>1. job[p].pc = "publish" BY <1>3 DEF PublishDaily, At
    <3>2. FreshWork(p, job[p], snaps, now) BY <1>1 DEF Fresh
    <3>3. Collected(job[p], snaps, now)
      BY <3>1, <3>2 DEF FreshWork, WalkLabels, PublishLabels
    <3>4. GoodSnap(snaps, s, got[s], job[p].started)
      BY <3>1, <3>3 DEF Collected, RebuildLabels, PublishLabels
    <3>. QED BY <3>4 DEF GoodSnap
  <2>4. ASSUME daily' = [daily EXCEPT ![d] = got] PROVE Board!Publish(d)
    <3>. HIDE DEF d, got
    <3>1. daily'[d] = got BY <1>2, <2>2, <2>4
    <3>. QED BY <2>3, <2>4, <3>1 DEF Board!Publish
  <2>. QED BY <2>1, <2>2, <2>4 DEF Board!Next
<1>4. ASSUME NEW p \in Jobs, StoreInsert(p) PROVE Board!Next \/ daily' = daily
  <2>. DEFINE d == job[p].date
              s == job[p].sec
              i == job[p].got[s]
  <2>1. daily' = daily \/ (~RowTaken(d, s) /\ daily' = [daily EXCEPT ![d][s] = i])
    BY <1>4 DEF StoreInsert
  <2>2. job[p] \in JobRecord /\ d \in Dates /\ s \in Securities
    BY <1>1, <1>4 DEF TypeOK, JobRecord, IInv, Typed, SubjectOK, StoreInsert, At
  <2>3. i >= 1 /\ i \in Nat
    <3>1. FreshWork(p, job[p], snaps, now) BY <1>1 DEF Fresh
    <3>. QED BY <1>4, <2>2, <3>1 DEF FreshWork, StoreLabels, StoreInsert, At, JobRecord
  <2>4. ASSUME ~RowTaken(d, s), daily' = [daily EXCEPT ![d][s] = i] PROVE Board!Fill(d, s)
    <3>. HIDE DEF d, s, i
    <3>1. daily'[d][s] = i BY <1>2, <2>2, <2>4
    <3>2. daily[d][s] = 0 BY <2>4 DEF RowTaken
    <3>3. daily'[d][s] # 0 BY <2>3, <3>1
    <3>4. daily' = [daily EXCEPT ![d][s] = daily'[d][s]] BY <2>4, <3>1
    <3>. QED BY <3>2, <3>3, <3>4 DEF Board!Fill
  <2>. QED BY <2>1, <2>2, <2>4 DEF Board!Next
<1>5. ASSUME NEW p \in Jobs, Start(p) \/ Step(p) \/ Crash(p)
      PROVE  PublishDaily(p) \/ StoreInsert(p) \/ daily' = daily
  BY <1>5, DailyOnlyWritten
<1>. QED BY <1>3, <1>4, <1>5 DEF Next, Tick, vars

\* The daily cache is a DailyBoard: whatever refreshes and readers do at once, a
\* row nobody filled is filled once by a reader, and a refresh replaces a date as a
\* whole and leaves no hole (_refresh_daily_prediction_cache,
\* _store_daily_prediction).
THEOREM BoardImplemented == Spec => BoardSpec
<1>1. Init => Board!Init BY DEF Init, Board!Init
<1>2. Init => IInv BY InitIInv
<1>3. IInv /\ [Next]_vars => IInv' BY StepIInv
<1>4. IInv /\ [Next]_vars => [Board!Next]_daily BY BoardStep
<1>. QED BY <1>1, <1>2, <1>3, <1>4, PTL DEF Spec, BoardSpec, Board!Spec

===============================================================================

--------------------------- MODULE EventIngest_proofs ---------------------------
(***************************************************************************)
(* What create_event keeps, however many ingestions, submissions and       *)
(* startups overlap or are killed: the two unique keys make the first row  *)
(* of a key the only one, so a job that has found or inserted a source     *)
(* names the one that is there, and an item with a date of its own has one *)
(* dedupe key.  Startup leaves no security without an event and a snapshot.*)
(***************************************************************************)
EXTENDS EventIngest, FiniteSetTheorems, SequenceTheorems, TLAPS

Creating == {"lookup", "source", "event", "count"}
Labels == {"idle", "lookup", "source", "event", "count", "rebuild", "check", "serving"}
Posting == [dated : BOOLEAN, taken : BOOLEAN, day : Times]

(***************************************************************************)
(* The inductive invariant, in the tables given as arguments.              *)
(***************************************************************************)

\* A candidate of a feed is one of its items, with the item's date if it has one.
Genuine(item, stamp, ps) ==
  item.kind \in Feeds =>
    /\ item.num \in DOMAIN ps[item.kind]
    /\ ps[item.kind][item.num].dated => stamp = ps[item.kind][item.num].day
Timed(ps) == {c \in [item : Items, stamp : Times] : Genuine(c.item, c.stamp, ps)}

HasSource(item, ss) == [item |-> item, num |-> 1] \in ss
HasEvent(c, es) == \E e \in es : e.item = c.item /\ e.stamp = c.stamp

JobRecs(ps) == [pc : Labels, todo : Seq(Timed(ps)), source : Nat, before : Nat,
                created : BOOLEAN, secs : SUBSET Securities]
JobOK(j, ss, es) ==
  /\ j.todo = <<>> <=> j.pc \notin Creating
  /\ j.pc = "event" => j.source = 1 /\ HasSource(Head(j.todo).item, ss)
  /\ j.pc = "count" => HasEvent(Head(j.todo), es)
JobSet(ps, ss, es) == {j \in JobRecs(ps) : JobOK(j, ss, es)}

Posts == [Feeds -> Seq(Posting)]
SourceRows == [item : Items, num : {1}]
EventRows(ps, ss) ==
  {e \in [item : Items, stamp : Times, source : {1}, num : {1}] :
     HasSource(e.item, ss) /\ Genuine(e.item, e.stamp, ps)}

IInv ==
  /\ now \in Times
  /\ posts \in Posts
  /\ sources \subseteq SourceRows
  /\ events \subseteq EventRows(posts, sources)
  /\ IsFiniteSet(events)
  /\ built \subseteq Securities
  /\ job \in [Jobs -> JobSet(posts, sources, events)]
  /\ crashes \in 0 .. MaxCrashes

(***************************************************************************)
(* The tables only grow, and what holds of a job or a row stays true.      *)
(***************************************************************************)
PostsGrow(ps, qs) ==
  \A k \in Feeds : \A n \in DOMAIN ps[k] : n \in DOMAIN qs[k] /\ qs[k][n] = ps[k][n]

LEMMA TimedGrows ==
  ASSUME NEW ps, NEW qs, PostsGrow(ps, qs)
  PROVE  Timed(ps) \subseteq Timed(qs)
BY DEF Timed, Genuine, PostsGrow

LEMMA SeqGrows ==
  ASSUME NEW S, NEW T, S \subseteq T
  PROVE  Seq(S) \subseteq Seq(T)
<1> SUFFICES ASSUME NEW s \in Seq(S) PROVE s \in Seq(T)
  OBVIOUS
<1>1. s \in [1 .. Len(s) -> S] /\ Len(s) \in Nat
  OBVIOUS
<1>2. s \in [1 .. Len(s) -> T]
  BY <1>1
<1> QED BY <1>1, <1>2, SeqDef

LEMMA JobSetGrows ==
  ASSUME NEW ps, NEW qs, NEW ss, NEW tt, NEW es, NEW fs,
         PostsGrow(ps, qs), ss \subseteq tt, es \subseteq fs
  PROVE  JobSet(ps, ss, es) \subseteq JobSet(qs, tt, fs)
<1>1. Seq(Timed(ps)) \subseteq Seq(Timed(qs))
  BY TimedGrows, SeqGrows
<1>2. JobRecs(ps) \subseteq JobRecs(qs)
  BY <1>1 DEF JobRecs
<1>3. ASSUME NEW j, JobOK(j, ss, es) PROVE JobOK(j, tt, fs)
  BY <1>3 DEF JobOK, HasSource, HasEvent
<1> QED BY <1>2, <1>3 DEF JobSet

LEMMA EventRowsGrow ==
  ASSUME NEW ps, NEW qs, NEW ss, NEW tt, PostsGrow(ps, qs), ss \subseteq tt
  PROVE  EventRows(ps, ss) \subseteq EventRows(qs, tt)
BY DEF EventRows, HasSource, Genuine, PostsGrow

LEMMA Same == ASSUME NEW ps PROVE PostsGrow(ps, ps)
BY DEF PostsGrow

LEMMA SetOK ==
  ASSUME NEW S, NEW T, job \in [Jobs -> S], S \subseteq T, NEW p \in Jobs, NEW j \in T, Set(p, j)
  PROVE  job' \in [Jobs -> T]
BY DEF Set

(***************************************************************************)
(* Looking for an event or a source counts at most one row.                *)
(***************************************************************************)
LEMMA SourcesOne ==
  ASSUME IInv, NEW item
  PROVE  /\ SourcesOf(item) = {} <=> ~HasSource(item, sources)
         /\ \A r \in SourcesOf(item) : r.num = 1 /\ HasSource(item, sources)
         /\ NewSource(item).num > 1 <=> HasSource(item, sources)
         /\ ~HasSource(item, sources) => NewSource(item) = [item |-> item, num |-> 1]
<1> DEFINE row == [item |-> item, num |-> 1]
<1>1. SourcesOf(item) \subseteq {row}
  BY DEF SourcesOf, IInv, SourceRows
<1>2. row \in SourcesOf(item) <=> HasSource(item, sources)
  BY DEF SourcesOf, HasSource
<1>3. SourcesOf(item) = {} \/ SourcesOf(item) = {row}
  BY <1>1
<1>4. Cardinality({}) = 0 /\ Cardinality({row}) = 1
  BY FS_EmptySet, FS_Singleton
<1>5. NewSource(item) = [item |-> item, num |-> Cardinality(SourcesOf(item)) + 1]
  BY DEF NewSource
<1>6. row.num = 1
  OBVIOUS
<1> HIDE DEF row
<1>7. CASE SourcesOf(item) = {}
  BY <1>2, <1>4, <1>5, <1>7 DEF row
<1>8. CASE SourcesOf(item) = {row}
  BY <1>2, <1>4, <1>5, <1>6, <1>8
<1> QED BY <1>3, <1>7, <1>8

LEMMA EventsOne ==
  ASSUME IInv, NEW cand
  PROVE  /\ EventsOf(cand) # {} <=> HasEvent(cand, events)
         /\ \A n : NewEvent(cand, n).num > 1 <=> HasEvent(cand, events)
         /\ \A n : ~HasEvent(cand, events) =>
              NewEvent(cand, n) = [item |-> cand.item, stamp |-> cand.stamp, source |-> n, num |-> 1]
<1> DEFINE row == [item |-> cand.item, stamp |-> cand.stamp, source |-> 1, num |-> 1]
<1>1. EventsOf(cand) \subseteq {row}
  BY DEF EventsOf, IInv, EventRows
<1>2. EventsOf(cand) # {} <=> HasEvent(cand, events)
  BY DEF EventsOf, HasEvent
<1> HIDE DEF row
<1>3. EventsOf(cand) = {} \/ EventsOf(cand) = {row}
  BY <1>1
<1>4. Cardinality({}) = 0 /\ Cardinality({row}) = 1
  BY FS_EmptySet, FS_Singleton
<1>5. \A n : NewEvent(cand, n) = [item |-> cand.item, stamp |-> cand.stamp, source |-> n,
                                  num |-> Cardinality(EventsOf(cand)) + 1]
  BY DEF NewEvent
<1>6. CASE EventsOf(cand) = {}
  BY <1>2, <1>4, <1>5, <1>6
<1>7. CASE EventsOf(cand) = {row}
  BY <1>2, <1>4, <1>5, <1>7
<1> QED BY <1>3, <1>6, <1>7

(***************************************************************************)
(* The candidates a job starts with.                                       *)
(***************************************************************************)
LEMMA FetchedTimed ==
  ASSUME IInv, NEW k \in Feeds, NEW f \in Fetched(k)
  PROVE  f \in Seq({c \in Timed(posts) : c.item.sec = Fed /\ c.item.kind = k})
<1> DEFINE nums == {n \in Shown(k) : posts[k][n].taken}
           C == {c \in Timed(posts) : c.item.sec = Fed /\ c.item.kind = k}
<1>1. posts[k] \in Seq(Posting)
  BY DEF IInv, Posts
<1>2. Len(posts[k]) \in Nat /\ \A n \in 1 .. Len(posts[k]) : posts[k][n] \in Posting
  BY <1>1
<1>3. nums \subseteq 1 .. Len(posts[k])
  BY DEF Shown
<1>4. Cardinality(nums) \in Nat
  <2>1. IsFiniteSet(1 .. Len(posts[k]))
    BY <1>2, FS_Interval
  <2>2. IsFiniteSet(nums)
    BY <1>3, <2>1, FS_Subset
  <2> QED BY <2>2, FS_CardinalityType
<1>5. ASSUME NEW n \in nums
      PROVE  Candidate(Item(Fed, k, n), Stamp(posts[k][n])) \in C
  <2>1. n \in 1 .. Len(posts[k]) /\ posts[k][n] \in Posting
    BY <1>2, <1>3, <1>5
  <2>2. Stamp(posts[k][n]) \in Times
    BY <2>1 DEF Stamp, IInv, Posting
  <2>3. Item(Fed, k, n) \in Items
    BY <2>1, <1>2, UniverseAssumption DEF Item, Items
  <2>4. n \in DOMAIN posts[k]
    BY <2>1, <1>1
  <2>5. Genuine(Item(Fed, k, n), Stamp(posts[k][n]), posts)
    BY <2>4 DEF Genuine, Item, Stamp
  <2>6. Candidate(Item(Fed, k, n), Stamp(posts[k][n])) \in Timed(posts)
    BY <2>2, <2>3, <2>5 DEF Timed, Candidate
  <2> QED BY <2>6 DEF Candidate, Item
<1>6. PICK order \in NewestFirst(nums) :
         f = [i \in DOMAIN order |-> Candidate(Item(Fed, k, order[i]), Stamp(posts[k][order[i]]))]
  BY DEF Fetched
<1> HIDE DEF nums, C
<1>7. order \in [1 .. Cardinality(nums) -> nums]
  BY <1>6 DEF NewestFirst
<1>8. f \in [1 .. Cardinality(nums) -> C]
  BY <1>5, <1>6, <1>7
<1>9. f \in Seq(C)
  BY <1>4, <1>8, SeqDef
<1> QED BY <1>9 DEF C

FedOnly(c) == c.item.sec = Fed /\ c.item.kind \in Feeds

LEMMA CandidatesTimed ==
  ASSUME IInv, NEW todo \in Candidates
  PROVE  todo \in Seq({c \in Timed(posts) : FedOnly(c)})
<1> DEFINE C == {c \in Timed(posts) : FedOnly(c)}
<1>1. ASSUME NEW k, NEW f \in FetchedOf(k)
      PROVE  f \in Seq(C)
  <2>1. CASE k \in Feeds /\ f \in Fetched(k)
    <3> DEFINE B == {c \in Timed(posts) : c.item.sec = Fed /\ c.item.kind = k}
    <3>1. f \in Seq(B)
      BY <2>1, FetchedTimed
    <3>2. B \subseteq C
      BY <2>1 DEF FedOnly
    <3> HIDE DEF B, C
    <3> QED BY <3>1, <3>2, SeqGrows
  <2>2. CASE f = <<>>
    BY <2>2
  <2> QED BY <1>1, <2>1, <2>2 DEF FetchedOf
<1> HIDE DEF C
<1>2. PICK f \in FetchedOf("filing"), n \in FetchedOf("news"), r \in FetchedOf("rss") :
         todo = f \o n \o r
  BY DEF Candidates
<1>3. f \in Seq(C) /\ n \in Seq(C) /\ r \in Seq(C)
  BY <1>1
<1>4. f \o n \in Seq(C)
  BY <1>3, ConcatProperties
<1>5. (f \o n) \o r \in Seq(C)
  BY <1>3, <1>4, ConcatProperties
<1> QED BY <1>2, <1>5 DEF C

\* Seeds lists every security with a demonstration event once.
LEMMA SeedsListed ==
  /\ Cardinality(Seeded) \in Nat
  /\ Seeded # {} => Cardinality(Seeded) # 0
  /\ Seeds \in [1 .. Cardinality(Seeded) -> Seeded]
  /\ \A i, j \in DOMAIN Seeds : Seeds[i] = Seeds[j] => i = j
<1>1. IsFiniteSet(Seeded)
  BY UniverseAssumption, FS_Subset
<1>2. Cardinality(Seeded) \in Nat /\ (Seeded # {} => Cardinality(Seeded) # 0)
  BY <1>1, FS_CardinalityType, FS_EmptySet
<1>3. \E seq \in [1 .. Cardinality(Seeded) -> Seeded] :
        \A i, j \in DOMAIN seq : seq[i] = seq[j] => i = j
  <2>1. ExistsBijection(1 .. Cardinality(Seeded), Seeded)
    BY <1>1, FS_CardinalityType
  <2>2. PICK seq : seq \in Bijection(1 .. Cardinality(Seeded), Seeded)
    BY <2>1 DEF ExistsBijection
  <2> QED BY <2>2 DEF Bijection, Injection, IsInjective
<1> QED BY <1>2, <1>3 DEF Seeds

SeedTodo == [i \in DOMAIN Seeds |-> Candidate(Item(Seeds[i], "seed", 1), now)]

LEMMA OwnTimed ==
  ASSUME IInv, NEW s \in Securities, NEW kind \in {"manual", "seed", "baseline"}
  PROVE  Candidate(Item(s, kind, 1), now) \in Timed(posts)
<1>1. kind \notin Feeds
  BY FeedsAssumption
<1> QED BY <1>1 DEF Timed, Candidate, Item, Items, Genuine, IInv

LEMMA SeedTodoTimed ==
  ASSUME IInv, Seeded # {}
  PROVE  SeedTodo \in Seq(Timed(posts)) /\ SeedTodo # <<>>
<1>1. \A s \in Seeded : Candidate(Item(s, "seed", 1), now) \in Timed(posts)
  BY OwnTimed, UniverseAssumption
<1>2. SeedTodo \in [1 .. Cardinality(Seeded) -> Timed(posts)] /\ Cardinality(Seeded) \in Nat
  BY <1>1, SeedsListed DEF SeedTodo
<1>3. SeedTodo \in Seq(Timed(posts))
  BY <1>2, SeqDef
<1>4. 1 \in DOMAIN SeedTodo
  BY <1>2, SeedsListed
<1>5. SeedTodo # <<>>
  BY <1>4
<1> QED BY <1>3, <1>5

(***************************************************************************)
(* Type correctness.                                                       *)
(***************************************************************************)
LEMMA IdleOK == ASSUME NEW ps, NEW ss, NEW es PROVE Idle \in JobSet(ps, ss, es)
BY DEF Idle, JobSet, JobRecs, JobOK, Creating, Labels

\* What a job goes on with after a candidate, in the tables as they are then.
LEMMA AdvanceOK ==
  ASSUME IInv, NEW p \in Jobs, job[p].pc \in Creating, NEW created \in BOOLEAN,
         Advance(p, created), NEW ss, NEW es, sources \subseteq ss, events \subseteq es
  PROVE  job' \in [Jobs -> JobSet(posts, ss, es)]
<1> DEFINE j == job[p]
           next == [j EXCEPT !.pc = "lookup", !.todo = Tail(j.todo), !.source = 0, !.before = 0,
                             !.created = created]
           last == [Idle EXCEPT !.pc = After(p, created), !.secs = j.secs]
<1>1. j \in JobRecs(posts) /\ j.todo # <<>>
  BY DEF IInv, JobSet, JobOK
<1>2. Tail(j.todo) \in Seq(Timed(posts))
  BY <1>1 DEF JobRecs
<1>3. JobSet(posts, sources, events) \subseteq JobSet(posts, ss, es)
  BY Same, JobSetGrows
<1>4. job \in [Jobs -> JobSet(posts, sources, events)]
  BY DEF IInv
<1>5. CASE Tail(j.todo) # <<>>
  <2>1. next \in JobSet(posts, ss, es)
    BY <1>1, <1>2, <1>5 DEF JobSet, JobRecs, JobOK, Creating, Labels
  <2>2. Set(p, next)
    BY <1>5 DEF Advance
  <2> QED BY <1>3, <1>4, <2>1, <2>2, SetOK
<1>6. CASE Tail(j.todo) = <<>>
  <2>1. After(p, created) \in {"check", "rebuild", "idle"}
    BY DEF After
  <2>2. Idle \in JobRecs(posts) /\ Idle.todo = <<>>
    BY IdleOK DEF JobSet, Idle
  <2>3. j.secs \in SUBSET Securities
    BY <1>1 DEF JobRecs
  <2>4. last \in JobRecs(posts) /\ last.todo = <<>> /\ last.pc = After(p, created)
    BY <2>1, <2>2, <2>3 DEF JobRecs, Labels
  <2> HIDE DEF last, j
  <2>5. last \in JobSet(posts, ss, es)
    BY <2>1, <2>4 DEF JobSet, JobOK, Creating
  <2>6. Set(p, last)
    BY <1>6 DEF Advance, last, j
  <2> QED BY <1>3, <1>4, <2>5, <2>6, SetOK
<1> QED BY <1>5, <1>6

\* A step of p that leaves the feeds and the tables of sources and events alone.
LEMMA QuietStep ==
  ASSUME IInv, NEW p \in Jobs, NEW j \in JobSet(posts, sources, events), Set(p, j),
         UNCHANGED <<now, posts, sources, events>>, built' \subseteq Securities,
         crashes' \in 0 .. MaxCrashes
  PROVE  IInv'
<1>1. job' \in [Jobs -> JobSet(posts, sources, events)]
  BY SetOK DEF IInv
<1> QED BY <1>1 DEF IInv, EventRows, HasSource, Genuine, JobSet, JobRecs, JobOK, HasEvent, Timed,
             Posts, SourceRows

LEMMA TimeAndFeeds ==
  ASSUME IInv, Tick \/ \E k \in Feeds : Post(k)
  PROVE  IInv'
<1>1. CASE Tick
  <2>1. now' \in Times
    BY <1>1, BoundsAssumption DEF Tick, IInv, Times
  <2> QED BY <1>1, <2>1 DEF Tick, IInv, EventRows, HasSource, Genuine, JobSet, JobRecs, JobOK,
               HasEvent, Timed, Posts, SourceRows
<1>2. ASSUME NEW k \in Feeds, Post(k) PROVE IInv'
  <2>1. PICK shape \in Shapes[k] :
          posts' = [posts EXCEPT ![k] =
                      Append(@, [dated |-> shape.dated, taken |-> shape.taken, day |-> now])]
    BY <1>2 DEF Post
  <2>2. shape.dated \in BOOLEAN /\ shape.taken \in BOOLEAN
    <3>1. k = "filing" \/ k = "news" \/ k = "rss"
      BY FeedsAssumption
    <3>2. CASE k = "filing"
      BY <3>2 DEF Shapes
    <3>3. CASE k = "news"
      BY <3>3 DEF Shapes
    <3>4. CASE k = "rss"
      BY <3>4 DEF Shapes
    <3> QED BY <3>1, <3>2, <3>3, <3>4
  <2> DEFINE item == [dated |-> shape.dated, taken |-> shape.taken, day |-> now]
  <2>3. item \in Posting
    BY <2>2 DEF Posting, IInv
  <2> HIDE DEF item
  <2>4. posts' = [posts EXCEPT ![k] = Append(posts[k], item)] /\ posts \in Posts
    BY <2>1 DEF item, IInv
  <2>5. posts[k] \in Seq(Posting)
    BY <2>4 DEF Posts
  <2>6. Append(posts[k], item) \in Seq(Posting)
    BY <2>3, <2>5
  <2>7. posts' \in Posts
    BY <2>4, <2>6 DEF Posts
  <2>8. PostsGrow(posts, posts')
    <3> SUFFICES ASSUME NEW h \in Feeds, NEW n \in DOMAIN posts[h]
                 PROVE  n \in DOMAIN posts'[h] /\ posts'[h][n] = posts[h][n]
      BY DEF PostsGrow
    <3>1. CASE h = k
      <4>1. posts'[h] = Append(posts[k], item)
        BY <2>4, <3>1 DEF Posts
      <4> QED BY <2>3, <2>5, <3>1, <4>1
    <3>2. CASE h # k
      BY <2>4, <3>2 DEF Posts
    <3> QED BY <3>1, <3>2
  <2>9. EventRows(posts, sources) \subseteq EventRows(posts', sources)
    BY <2>8, EventRowsGrow
  <2>10. JobSet(posts, sources, events) \subseteq JobSet(posts', sources, events)
    BY <2>8, JobSetGrows
  <2>11. job \in [Jobs -> JobSet(posts', sources, events)]
    BY <2>10 DEF IInv
  <2>12. events \subseteq EventRows(posts', sources)
    BY <2>9 DEF IInv
  <2> QED BY <1>2, <2>7, <2>11, <2>12 DEF IInv, Post
<1> QED BY <1>1, <1>2

\* The steps that begin or end a job's work.
LEMMA Beginnings ==
  ASSUME IInv, NEW p \in Jobs, StartIngest(p) \/ Submit(p) \/ StartUp(p)
  PROVE  IInv'
<1>1. ASSUME NEW secs \in SUBSET Securities, NEW todo \in Seq(Timed(posts)), todo # <<>>
      PROVE  [Idle EXCEPT !.pc = "lookup", !.secs = secs, !.todo = todo]
               \in JobSet(posts, sources, events)
  <2> DEFINE j == [Idle EXCEPT !.pc = "lookup", !.secs = secs, !.todo = todo]
  <2>1. Idle \in JobRecs(posts)
    BY IdleOK DEF JobSet
  <2>2. j \in JobRecs(posts) /\ j.todo = todo /\ j.pc = "lookup"
    BY <1>1, <2>1 DEF JobRecs, Labels
  <2> HIDE DEF j
  <2>3. j \in JobSet(posts, sources, events)
    BY <1>1, <2>2 DEF JobSet, JobOK, Creating
  <2> QED BY <2>3 DEF j
<1>2. ASSUME NEW pc \in {"check", "serving"}, NEW secs \in SUBSET Securities
      PROVE  [Idle EXCEPT !.pc = pc, !.secs = secs] \in JobSet(posts, sources, events)
  BY <1>2, IdleOK DEF JobSet, JobRecs, JobOK, Creating, Labels, Idle
<1>3. ASSUME NEW todo \in Seq(Timed(posts)), todo # <<>>
      PROVE  [Idle EXCEPT !.pc = "lookup", !.todo = todo] \in JobSet(posts, sources, events)
  <2> DEFINE j == [Idle EXCEPT !.pc = "lookup", !.todo = todo]
  <2>1. Idle \in JobRecs(posts)
    BY IdleOK DEF JobSet
  <2>2. j \in JobRecs(posts) /\ j.todo = todo /\ j.pc = "lookup"
    BY <1>3, <2>1 DEF JobRecs, Labels
  <2> HIDE DEF j
  <2>3. j \in JobSet(posts, sources, events)
    BY <1>3, <2>2 DEF JobSet, JobOK, Creating
  <2> QED BY <2>3 DEF j
<1>4. CASE StartIngest(p)
  <2> DEFINE k(todo) == [Idle EXCEPT !.pc = "lookup", !.todo = todo]
  <2>1. PICK todo \in Candidates : Set(p, IF todo = <<>> THEN Idle ELSE k(todo))
    BY <1>4 DEF StartIngest
  <2>2. todo \in Seq({c \in Timed(posts) : FedOnly(c)})
    BY <2>1, CandidatesTimed
  <2>3. todo \in Seq(Timed(posts))
    BY <2>2, SeqGrows
  <2>4. todo # <<>> => k(todo) \in JobSet(posts, sources, events)
    BY <1>3, <2>3
  <2>5. Idle \in JobSet(posts, sources, events)
    BY IdleOK
  <2> HIDE DEF k
  <2>6. \E j \in JobSet(posts, sources, events) : Set(p, j)
    BY <2>1, <2>4, <2>5
  <2> QED BY <1>4, <2>6, QuietStep DEF StartIngest, IInv
<1>5. CASE Submit(p)
  <2> DEFINE todo == <<Candidate(Item(Fed, "manual", 1), now)>>
  <2>1. todo \in Seq(Timed(posts)) /\ todo # <<>>
    BY OwnTimed, UniverseAssumption
  <2>2. Set(p, [Idle EXCEPT !.pc = "lookup", !.todo = todo])
    BY <1>5 DEF Submit
  <2> HIDE DEF todo
  <2>3. [Idle EXCEPT !.pc = "lookup", !.todo = todo] \in JobSet(posts, sources, events)
    BY <1>3, <2>1
  <2> QED BY <1>5, <2>2, <2>3, QuietStep DEF Submit, IInv
<1>6. CASE StartUp(p)
  <2>1. CASE events = {} /\ Seeded # {}
    <3>1. SeedTodo \in Seq(Timed(posts)) /\ SeedTodo # <<>>
      BY <2>1, SeedTodoTimed
    <3>2. Set(p, [Idle EXCEPT !.pc = "lookup", !.secs = Securities, !.todo = SeedTodo])
      BY <1>6, <2>1 DEF StartUp, SeedTodo
    <3>3. [Idle EXCEPT !.pc = "lookup", !.secs = Securities, !.todo = SeedTodo]
            \in JobSet(posts, sources, events)
      BY <1>1, <3>1
    <3> QED BY <1>6, <3>2, <3>3, QuietStep DEF StartUp, IInv
  <2>2. CASE ~(events = {} /\ Seeded # {})
    <3>1. Set(p, [Idle EXCEPT !.pc = "check", !.secs = Securities])
      BY <1>6, <2>2 DEF StartUp
    <3>2. [Idle EXCEPT !.pc = "check", !.secs = Securities] \in JobSet(posts, sources, events)
      BY <1>2
    <3> QED BY <1>6, <3>1, <3>2, QuietStep DEF StartUp, IInv
  <2> QED BY <2>1, <2>2
<1> QED BY <1>4, <1>5, <1>6

\* A job in create_event has a candidate, and its record is typed.
LEMMA HeadTimed ==
  ASSUME IInv, NEW p \in Jobs, job[p].pc \in Creating
  PROVE  /\ job[p] \in JobRecs(posts) /\ JobOK(job[p], sources, events)
         /\ Head(job[p].todo) \in Timed(posts)
<1>1. job[p] \in JobRecs(posts) /\ JobOK(job[p], sources, events) /\ job[p].todo # <<>>
  BY DEF IInv, JobSet, JobOK
<1>2. job[p].todo \in Seq(Timed(posts))
  BY <1>1 DEF JobRecs
<1> QED BY <1>1, <1>2

LEMMA AtEvent ==
  ASSUME NEW j \in JobRecs(posts), NEW n, n = 1
  PROVE  /\ [j EXCEPT !.pc = "event", !.source = n] \in JobRecs(posts)
         /\ [j EXCEPT !.pc = "event", !.source = n].pc = "event"
         /\ [j EXCEPT !.pc = "event", !.source = n].todo = j.todo
         /\ [j EXCEPT !.pc = "event", !.source = n].source = 1
BY DEF JobRecs, Labels

LEMMA LookupKeeps ==
  ASSUME IInv, NEW p \in Jobs, Lookup(p)
  PROVE  IInv'
<1> DEFINE j == job[p]
           cand == Head(j.todo)
           count == [j EXCEPT !.pc = "count", !.before = Cardinality(events)]
           insert == [j EXCEPT !.pc = "source"]
<1>1. j \in JobRecs(posts) /\ JobOK(j, sources, events) /\ cand \in Timed(posts) /\ j.pc = "lookup"
      /\ j.todo # <<>>
  BY HeadTimed DEF Lookup, At, Creating, JobOK
<1>2. Cardinality(events) \in Nat
  BY FS_CardinalityType DEF IInv
<1>3. CASE EventsOf(cand) # {} /\ Set(p, count)
  <2>1. HasEvent(cand, events)
    BY <1>3, EventsOne
  <2>2. count \in JobRecs(posts) /\ count.pc = "count" /\ count.todo = j.todo
    BY <1>1, <1>2 DEF JobRecs, Labels
  <2> HIDE DEF count
  <2>3. count \in JobSet(posts, sources, events)
    BY <1>1, <2>1, <2>2 DEF JobSet, JobOK, Creating
  <2> QED BY <1>3, <2>3, QuietStep DEF Lookup, IInv
<1>4. ASSUME NEW r \in SourcesOf(cand.item), Set(p, [j EXCEPT !.pc = "event", !.source = r.num])
      PROVE  IInv'
  <2> DEFINE found == [j EXCEPT !.pc = "event", !.source = r.num]
  <2>1. r.num = 1 /\ HasSource(cand.item, sources)
    BY SourcesOne
  <2>2. found \in JobRecs(posts) /\ found.pc = "event" /\ found.todo = j.todo /\ found.source = 1
    BY <1>1, <2>1, AtEvent
  <2>3. Set(p, found)
    BY <1>4
  <2> HIDE DEF found
  <2>4. found \in JobSet(posts, sources, events)
    BY <1>1, <2>1, <2>2 DEF JobSet, JobOK, Creating
  <2>5. Lookup(p)
    OBVIOUS
  <2> QED BY <2>3, <2>4, <2>5, QuietStep DEF Lookup, IInv
<1>5. CASE Set(p, insert)
  <2>1. insert \in JobRecs(posts) /\ insert.pc = "source" /\ insert.todo = j.todo
    BY <1>1 DEF JobRecs, Labels
  <2> HIDE DEF insert
  <2>2. insert \in JobSet(posts, sources, events)
    BY <1>1, <2>1 DEF JobSet, JobOK, Creating
  <2> QED BY <1>5, <2>2, QuietStep DEF Lookup, IInv
<1>6. \/ EventsOf(cand) # {} /\ Set(p, count)
      \/ \E r \in SourcesOf(cand.item) : Set(p, [j EXCEPT !.pc = "event", !.source = r.num])
      \/ Set(p, insert)
  BY DEF Lookup
<1> QED BY <1>3, <1>4, <1>5, <1>6

LEMMA CountKeeps ==
  ASSUME IInv, NEW p \in Jobs, Count(p)
  PROVE  IInv'
<1>1. job[p].pc \in Creating
  BY DEF Count, At, Creating
<1>2. (job[p].created \/ Cardinality(events) > job[p].before) \in BOOLEAN
  BY HeadTimed, <1>1 DEF JobRecs
<1>3. Advance(p, job[p].created \/ Cardinality(events) > job[p].before)
  BY DEF Count
<1>4. job' \in [Jobs -> JobSet(posts, sources, events)]
  BY <1>1, <1>2, <1>3, AdvanceOK
<1> QED BY <1>4 DEF Count, IInv, EventRows, HasSource, Genuine, JobSet, JobRecs, JobOK, HasEvent,
             Timed, Posts, SourceRows

LEMMA EndKeeps ==
  ASSUME IInv, NEW p \in Jobs, End(p), UNCHANGED <<now, posts, sources, events>>,
         built' \subseteq Securities, crashes' \in 0 .. MaxCrashes
  PROVE  IInv'
BY IdleOK, QuietStep DEF End

LEMMA InsertSourceKeeps ==
  ASSUME IInv, NEW p \in Jobs, InsertSource(p)
  PROVE  IInv'
<1> DEFINE j == job[p]
           item == Head(j.todo).item
           new == NewSource(item)
           next == [j EXCEPT !.pc = "event", !.source = new.num]
<1>1. j \in JobRecs(posts) /\ JobOK(j, sources, events) /\ Head(j.todo) \in Timed(posts)
      /\ j.pc = "source" /\ j.todo # <<>>
  BY HeadTimed DEF InsertSource, At, Creating, JobOK
<1>2. CASE new.num > 1
  <2>1. End(p) /\ UNCHANGED sources
    BY <1>2 DEF InsertSource
  <2> QED BY <2>1, EndKeeps DEF InsertSource, IInv
<1>3. CASE ~(new.num > 1)
  <2>1. sources' = sources \cup {new} /\ Set(p, next)
    BY <1>3 DEF InsertSource
  <2>2. new = [item |-> item, num |-> 1]
    BY <1>3, SourcesOne
  <2>3. item \in Items
    BY <1>1 DEF Timed
  <2>4. new \in SourceRows /\ new.num = 1 /\ HasSource(item, sources')
    BY <2>1, <2>2, <2>3 DEF SourceRows, HasSource
  <2> HIDE DEF new, item
  <2>5. next \in JobRecs(posts) /\ next.pc = "event" /\ next.todo = j.todo /\ next.source = 1
    BY <1>1, <2>4, AtEvent
  <2> HIDE DEF next
  <2>6. next \in JobSet(posts, sources', events)
    BY <1>1, <2>4, <2>5 DEF JobSet, JobOK, Creating, item
  <2>7. JobSet(posts, sources, events) \subseteq JobSet(posts, sources', events)
    BY <2>1, Same, JobSetGrows
  <2>8. job' \in [Jobs -> JobSet(posts, sources', events)]
    BY <2>1, <2>6, <2>7, SetOK DEF IInv
  <2>9. EventRows(posts, sources) \subseteq EventRows(posts, sources')
    BY <2>1, Same, EventRowsGrow
  <2>10. sources' \subseteq SourceRows /\ events \subseteq EventRows(posts, sources')
    BY <2>1, <2>4, <2>9 DEF IInv
  <2>11. now' = now /\ posts' = posts /\ events' = events /\ built' = built /\ crashes' = crashes
    BY DEF InsertSource
  <2> HIDE DEF InsertSource
  <2> QED BY <2>8, <2>10, <2>11 DEF IInv, EventRows, HasSource, Genuine, JobSet, JobRecs, JobOK,
               HasEvent, Timed, Posts, SourceRows
<1> QED BY <1>2, <1>3

LEMMA InsertEventKeeps ==
  ASSUME IInv, NEW p \in Jobs, InsertEvent(p)
  PROVE  IInv'
<1> DEFINE j == job[p]
           cand == Head(j.todo)
           new == NewEvent(cand, j.source)
<1>1. j \in JobRecs(posts) /\ JobOK(j, sources, events) /\ cand \in Timed(posts)
      /\ j.pc = "event" /\ j.pc \in Creating
  BY HeadTimed DEF InsertEvent, At, Creating
<1>2. CASE new.num > 1
  <2>1. End(p) /\ UNCHANGED events
    BY <1>2 DEF InsertEvent
  <2> QED BY <2>1, EndKeeps DEF InsertEvent, IInv
<1>3. CASE ~(new.num > 1)
  <2>1. events' = events \cup {new} /\ Advance(p, TRUE)
    BY <1>3 DEF InsertEvent
  <2>2. new = [item |-> cand.item, stamp |-> cand.stamp, source |-> j.source, num |-> 1]
    BY <1>3, EventsOne
  <2>3. j.source = 1 /\ HasSource(cand.item, sources)
    BY <1>1 DEF JobOK
  <2>4. cand.item \in Items /\ cand.stamp \in Times /\ Genuine(cand.item, cand.stamp, posts)
    BY <1>1 DEF Timed
  <2>5. new \in EventRows(posts, sources)
    BY <2>2, <2>3, <2>4 DEF EventRows
  <2> HIDE DEF new
  <2>6. job' \in [Jobs -> JobSet(posts, sources, events')]
    BY <1>1, <2>1, AdvanceOK
  <2>7. IsFiniteSet(events')
    BY <2>1, FS_AddElement DEF IInv
  <2>8. events' \subseteq EventRows(posts, sources)
    BY <2>1, <2>5 DEF IInv
  <2>9. now' = now /\ posts' = posts /\ sources' = sources /\ built' = built /\ crashes' = crashes
    BY DEF InsertEvent
  <2> HIDE DEF InsertEvent
  <2> QED BY <2>6, <2>7, <2>8, <2>9 DEF IInv, EventRows, HasSource, Genuine, JobSet, JobRecs, JobOK,
               HasEvent, Timed, Posts, SourceRows
<1> QED BY <1>2, <1>3

LEMMA StartupKeeps ==
  ASSUME IInv, NEW p \in Jobs, CheckSecurity(p) \/ Serve(p)
  PROVE  IInv'
<1> DEFINE j == job[p]
<1>1. j \in JobRecs(posts) /\ JobOK(j, sources, events) /\ j.pc = "check"
  BY DEF CheckSecurity, Serve, At, IInv, JobSet
<1>2. j.todo = <<>>
  BY <1>1 DEF JobOK, Creating
<1>3. ASSUME NEW s \in j.secs, s \in built \/ Covered(s), CheckSecurity(p),
             Set(p, [j EXCEPT !.secs = @ \ {s}]), built' = built \cup {s}
      PROVE  IInv'
  <2> DEFINE next == [j EXCEPT !.secs = @ \ {s}]
  <2>1. next \in JobRecs(posts) /\ next.pc = "check" /\ next.todo = <<>>
    BY <1>1, <1>2 DEF JobRecs
  <2>2. Set(p, next)
    BY <1>3
  <2> HIDE DEF next
  <2>3. next \in JobSet(posts, sources, events)
    BY <2>1 DEF JobSet, JobOK, Creating
  <2>4. s \in Securities
    BY <1>1 DEF JobRecs
  <2> QED BY <1>3, <2>2, <2>3, <2>4, QuietStep DEF CheckSecurity, IInv
<1>4. ASSUME NEW s \in j.secs, CheckSecurity(p), UNCHANGED built,
             Set(p, [j EXCEPT !.pc = "lookup", !.todo = <<Candidate(Item(s, "baseline", 1), now)>>])
      PROVE  IInv'
  <2> DEFINE todo == <<Candidate(Item(s, "baseline", 1), now)>>
             next == [j EXCEPT !.pc = "lookup", !.todo = todo]
  <2>1. s \in Securities
    BY <1>1 DEF JobRecs
  <2>2. todo \in Seq(Timed(posts)) /\ todo # <<>>
    BY <2>1, OwnTimed
  <2>3. Set(p, next)
    BY <1>4
  <2> HIDE DEF todo
  <2>4. next \in JobRecs(posts) /\ next.pc = "lookup" /\ next.todo = todo
    BY <1>1, <2>2 DEF JobRecs, Labels
  <2> HIDE DEF next
  <2>5. next \in JobSet(posts, sources, events)
    BY <2>2, <2>4 DEF JobSet, JobOK, Creating
  <2> QED BY <1>4, <2>3, <2>5, QuietStep DEF CheckSecurity, IInv
<1>5. CASE CheckSecurity(p)
  BY <1>3, <1>4, <1>5 DEF CheckSecurity
<1>6. CASE Serve(p)
  <2>1. [Idle EXCEPT !.pc = "serving"] \in JobSet(posts, sources, events)
    BY IdleOK DEF JobSet, JobRecs, JobOK, Creating, Labels, Idle
  <2> QED BY <1>6, <2>1, QuietStep DEF Serve, IInv
<1> QED BY <1>5, <1>6

LEMMA Kept == ASSUME IInv, [Next]_vars PROVE IInv'
<1>1. ASSUME NEW p \in Jobs, Rebuild(p) PROVE IInv'
  <2>1. built' \subseteq Securities
    BY <1>1, UniverseAssumption DEF Rebuild, IInv
  <2> QED BY <1>1, <2>1, EndKeeps DEF Rebuild, IInv
<1>2. ASSUME NEW p \in Jobs, Crash(p) PROVE IInv'
  <2>1. crashes' \in 0 .. MaxCrashes
    BY <1>2, BoundsAssumption DEF Crash, IInv
  <2> QED BY <1>2, <2>1, EndKeeps DEF Crash, IInv
<1>3. ASSUME NEW p \in Jobs, Step(p) PROVE IInv'
  BY <1>1, <1>3, LookupKeeps, InsertSourceKeeps, InsertEventKeeps, CountKeeps, StartupKeeps
     DEF Step, Create
<1>4. CASE UNCHANGED vars
  BY <1>4 DEF vars, IInv, EventRows, HasSource, Genuine, JobSet, JobRecs, JobOK, HasEvent, Timed,
     Posts, SourceRows
<1>5. ASSUME NEW p \in Jobs, StartIngest(p) \/ Submit(p) \/ StartUp(p) PROVE IInv'
  BY <1>5, Beginnings
<1> QED BY <1>2, <1>3, <1>4, <1>5, TimeAndFeeds DEF Next, Jobs

LEMMA Begun == Init => IInv
<1> SUFFICES ASSUME Init PROVE IInv
  OBVIOUS
<1>1. now \in Times /\ crashes \in 0 .. MaxCrashes
  BY BoundsAssumption DEF Init, Times
<1>2. posts \in Posts
  BY DEF Init, Posts
<1>3. job \in [Jobs -> JobSet(posts, sources, events)]
  BY IdleOK DEF Init
<1>4. IsFiniteSet(events)
  BY FS_EmptySet DEF Init
<1> QED BY <1>1, <1>2, <1>3, <1>4 DEF Init, IInv

LEMMA Always == Spec => []IInv
BY Begun, Kept, PTL DEF Spec

\* For any universe, feeds and jobs: the feeds, the tables and the jobs are of the
\* kinds the code stores (create_event and its callers).
THEOREM TypeCorrect == Spec => []TypeOK
<1>1. ASSUME IInv PROVE TypeOK
  <2>1. ASSUME NEW p \in Jobs
        PROVE  /\ job[p] \in [pc : Labels, todo : Seq([item : Items, stamp : Times]), source : Nat,
                              before : Nat, created : BOOLEAN, secs : SUBSET Securities]
               /\ job[p].todo = <<>> <=> job[p].pc \notin Creating
    <3>1. job[p] \in JobRecs(posts) /\ JobOK(job[p], sources, events)
      BY <1>1 DEF IInv, JobSet
    <3>2. Timed(posts) \subseteq [item : Items, stamp : Times]
      BY DEF Timed
    <3>3. Seq(Timed(posts)) \subseteq Seq([item : Items, stamp : Times])
      BY <3>2, SeqGrows
    <3> QED BY <3>1, <3>3 DEF JobRecs, JobOK
  <2>2. sources \subseteq [item : Items, num : Nat \ {0}]
    BY <1>1 DEF IInv, SourceRows
  <2>3. events \subseteq [item : Items, stamp : Times, source : Nat \ {0}, num : Nat \ {0}]
    BY <1>1 DEF IInv, EventRows
  <2>4. job \in [Jobs -> [pc : Labels, todo : Seq([item : Items, stamp : Times]), source : Nat,
                          before : Nat, created : BOOLEAN, secs : SUBSET Securities]]
    BY <1>1, <2>1 DEF IInv
  <2> QED BY <1>1, <2>1, <2>2, <2>3, <2>4 DEF IInv, TypeOK, Posts, Posting, Labels, Creating
<1> QED BY <1>1, Always, PTL

\* Every event names the one source of its item, whatever jobs inserted it, lost the
\* race for it or died after it (create_event).
THEOREM OneSource == Spec => []SourceShared
<1>1. ASSUME IInv PROVE SourceShared
  <2> SUFFICES ASSUME NEW e \in events
               PROVE  SourcesOf(e.item) = {[item |-> e.item, num |-> e.source]}
    BY DEF SourceShared
  <2>1. e.source = 1 /\ HasSource(e.item, sources)
    BY <1>1 DEF IInv, EventRows
  <2>2. \A r \in SourcesOf(e.item) : r = [item |-> e.item, num |-> 1]
    BY <1>1 DEF IInv, SourceRows, SourcesOf
  <2>3. [item |-> e.item, num |-> 1] \in SourcesOf(e.item)
    BY <2>1 DEF SourcesOf, HasSource
  <2> QED BY <2>1, <2>2, <2>3
<1> QED BY <1>1, Always, PTL

(***************************************************************************)
(* What each kind of step does to the job that takes it: it goes on with   *)
(* its candidate, leaves it for the next, ends, or takes a new list.       *)
(***************************************************************************)
Others(p) == \A q \in Jobs \ {p} : job'[q] = job[q]
SameTask(j, k) == k.todo = j.todo /\ k.created = j.created /\ k.secs = j.secs
GoesOn(p) == /\ job[p].pc \in Creating /\ job'[p].pc \in Creating
             /\ SameTask(job[p], job'[p])
Leaves(p, created) ==
  /\ job[p].pc \in Creating /\ job'[p].secs = job[p].secs
  /\ \/ /\ job'[p].pc = "lookup" /\ job'[p].todo = Tail(job[p].todo)
        /\ job'[p].created = created
     \/ /\ job'[p].pc = After(p, created) /\ job'[p].todo = <<>>
        /\ job'[p].created = FALSE
Stops(p) == job'[p] = Idle

LEMMA SetFields ==
  ASSUME IInv, NEW p \in Jobs, NEW j, Set(p, j)
  PROVE  job'[p] = j /\ Others(p)
BY DEF Set, IInv, Others

LEMMA Fields ==
  ASSUME IInv, NEW p \in Jobs
  PROVE  /\ DOMAIN job[p] = {"pc", "todo", "source", "before", "created", "secs"}
         /\ job[p] \in JobRecs(posts)
BY DEF IInv, JobSet, JobRecs

LEMMA LookupFields ==
  ASSUME IInv, NEW p \in Jobs, Lookup(p)
  PROVE  GoesOn(p) /\ Others(p)
<1> DEFINE j == job[p]
<1>1. j.pc = "lookup" /\ {"pc", "todo", "source", "before", "created", "secs"} \subseteq DOMAIN j
  BY Fields DEF Lookup, At
<1>2. PICK k : Set(p, k) /\ k.pc \in Creating /\ SameTask(j, k)
  <2>1. CASE Set(p, [j EXCEPT !.pc = "count", !.before = Cardinality(events)])
    <3> DEFINE k == [j EXCEPT !.pc = "count", !.before = Cardinality(events)]
    <3>1. k.pc \in Creating /\ SameTask(j, k)
      BY <1>1 DEF Creating, SameTask
    <3>2. Set(p, k)
      BY <2>1
    <3> HIDE DEF k
    <3> QED BY <3>1, <3>2
  <2>2. ASSUME NEW r \in SourcesOf(Head(j.todo).item),
               Set(p, [j EXCEPT !.pc = "event", !.source = r.num])
        PROVE  \E k : Set(p, k) /\ k.pc \in Creating /\ SameTask(j, k)
    <3> DEFINE k == [j EXCEPT !.pc = "event", !.source = r.num]
    <3>1. k.pc \in Creating /\ SameTask(j, k)
      BY <1>1 DEF Creating, SameTask
    <3>2. Set(p, k)
      BY <2>2
    <3> HIDE DEF k
    <3> QED BY <3>1, <3>2
  <2>3. CASE Set(p, [j EXCEPT !.pc = "source"])
    <3> DEFINE k == [j EXCEPT !.pc = "source"]
    <3>1. k.pc \in Creating /\ SameTask(j, k)
      BY <1>1 DEF Creating, SameTask
    <3>2. Set(p, k)
      BY <2>3
    <3> HIDE DEF k
    <3> QED BY <3>1, <3>2
  <2> QED BY <2>1, <2>2, <2>3 DEF Lookup
<1>3. job'[p] = k /\ Others(p)
  BY <1>2, SetFields
<1> QED BY <1>1, <1>2, <1>3 DEF GoesOn, Creating

LEMMA SourceFields ==
  ASSUME IInv, NEW p \in Jobs, InsertSource(p)
  PROVE  (GoesOn(p) \/ Stops(p)) /\ Others(p)
<1> DEFINE j == job[p]
           n == NewSource(Head(j.todo).item).num
           k == [j EXCEPT !.pc = "event", !.source = n]
<1>1. j.pc = "source" /\ {"pc", "todo", "source", "before", "created", "secs"} \subseteq DOMAIN j
  BY Fields DEF InsertSource, At
<1>2. k.pc \in Creating /\ SameTask(j, k)
  BY <1>1 DEF Creating, SameTask
<1>3. End(p) \/ Set(p, k)
  BY DEF InsertSource
<1> HIDE DEF k, n
<1>4. CASE End(p)
  BY <1>4, SetFields DEF End, Stops
<1>5. CASE Set(p, k)
  <2>1. job'[p] = k /\ Others(p)
    BY <1>5, SetFields
  <2> QED BY <1>1, <1>2, <2>1 DEF GoesOn, Creating
<1> QED BY <1>3, <1>4, <1>5

LEMMA AdvanceFields ==
  ASSUME IInv, NEW p \in Jobs, job[p].pc \in Creating, NEW created, Advance(p, created)
  PROVE  Leaves(p, created) /\ Others(p)
<1> DEFINE j == job[p]
           next == [j EXCEPT !.pc = "lookup", !.todo = Tail(j.todo), !.source = 0, !.before = 0,
                             !.created = created]
           last == [Idle EXCEPT !.pc = After(p, created), !.secs = j.secs]
<1>1. {"pc", "todo", "source", "before", "created", "secs"} \subseteq DOMAIN j
  BY Fields
<1>2. next.pc = "lookup" /\ next.todo = Tail(j.todo) /\ next.created = created /\ next.secs = j.secs
  BY <1>1
<1>3. last.pc = After(p, created) /\ last.todo = <<>> /\ last.created = FALSE /\ last.secs = j.secs
  BY DEF Idle
<1>4. Set(p, next) \/ Set(p, last)
  BY DEF Advance
<1> HIDE DEF next, last
<1>5. CASE Set(p, next)
  <2>1. job'[p] = next /\ Others(p)
    BY <1>5, SetFields
  <2> QED BY <1>2, <2>1 DEF Leaves
<1>6. CASE Set(p, last)
  <2>1. job'[p] = last /\ Others(p)
    BY <1>6, SetFields
  <2> QED BY <1>3, <2>1 DEF Leaves
<1> QED BY <1>4, <1>5, <1>6

\* An ingestion or a submission begins with candidates of the security on the feeds,
\* or an ingestion with none ends.
LEMMA BeginFields ==
  ASSUME IInv, NEW p \in Jobs, StartIngest(p) \/ Submit(p)
  PROVE  /\ job'[p].pc \in {"lookup", "idle"} /\ job'[p].created = FALSE /\ Others(p)
         /\ \A i \in DOMAIN job'[p].todo :
              job'[p].todo[i].item.sec = Fed /\ job'[p].todo[i].item.kind \in Feeds \cup {"manual"}
<1>1. ASSUME NEW todo, Set(p, [Idle EXCEPT !.pc = "lookup", !.todo = todo])
      PROVE  job'[p].pc = "lookup" /\ job'[p].created = FALSE /\ job'[p].todo = todo /\ Others(p)
  <2> DEFINE k == [Idle EXCEPT !.pc = "lookup", !.todo = todo]
  <2>1. k.pc = "lookup" /\ k.created = FALSE /\ k.todo = todo
    BY DEF Idle
  <2>2. Set(p, k)
    BY <1>1
  <2> HIDE DEF k
  <2> QED BY <2>1, <2>2, SetFields
<1>2. CASE StartIngest(p)
  <2>1. PICK todo \in Candidates :
          Set(p, IF todo = <<>> THEN Idle ELSE [Idle EXCEPT !.pc = "lookup", !.todo = todo])
    BY <1>2 DEF StartIngest
  <2>2. todo \in Seq({c \in Timed(posts) : FedOnly(c)})
    BY CandidatesTimed
  <2>3. \A i \in DOMAIN todo : FedOnly(todo[i])
    BY <2>2
  <2>4. CASE todo # <<>>
    BY <1>1, <2>1, <2>3, <2>4 DEF FedOnly
  <2>5. CASE todo = <<>>
    <3>1. Idle.pc = "idle" /\ Idle.created = FALSE /\ Idle.todo = <<>>
      BY DEF Idle
    <3>2. Set(p, Idle)
      BY <2>1, <2>5
    <3>3. job'[p].pc = "idle" /\ job'[p].created = FALSE /\ job'[p].todo = <<>> /\ Others(p)
      BY <3>1, <3>2, SetFields
    <3> QED BY <3>3
  <2> QED BY <2>4, <2>5
<1>3. CASE Submit(p)
  <2> DEFINE todo == <<Candidate(Item(Fed, "manual", 1), now)>>
  <2>1. \A i \in DOMAIN todo : todo[i].item.sec = Fed /\ todo[i].item.kind = "manual"
    BY DEF Candidate, Item
  <2>2. Set(p, [Idle EXCEPT !.pc = "lookup", !.todo = todo])
    BY <1>3 DEF Submit
  <2> HIDE DEF todo
  <2> QED BY <1>1, <2>1, <2>2
<1> QED BY <1>2, <1>3

(***************************************************************************)
(* A process serves what is covered: a job that is to rebuild the security *)
(* on the feeds has seen an event of it, and startup crosses a security    *)
(* off its list when it has an event and a snapshot.                       *)
(***************************************************************************)
CoveredIn(s, es) == \E e \in es : e.item.sec = s
Serves(p, j, es, bs) ==
  /\ p \notin Starters =>
       /\ \A i \in DOMAIN j.todo : j.todo[i].item.sec = Fed
       /\ j.created \/ j.pc = "rebuild" => CoveredIn(Fed, es)
       /\ j.pc \notin {"check", "serving"}
  /\ p \in Starters =>
       /\ j.pc # "rebuild"
       /\ j.pc # "idle" => \A s \in Securities : s \in j.secs \/ (s \in bs /\ CoveredIn(s, es))
       /\ j.pc = "serving" => j.secs = {}

Coverage ==
  /\ \A s \in built : CoveredIn(s, events)
  /\ \A p \in Jobs : Serves(p, job[p], events, built)

LEMMA IdleServes ==
  ASSUME NEW p, NEW es, NEW bs
  PROVE  Serves(p, Idle, es, bs)
BY DEF Serves, Idle

\* The others keep what they have when the tables grow.
LEMMA OthersServe ==
  ASSUME Coverage, NEW p \in Jobs, Others(p), events \subseteq events', built \subseteq built',
         \A s \in built' : CoveredIn(s, events'), Serves(p, job'[p], events', built')
  PROVE  Coverage'
<1>1. ASSUME NEW q \in Jobs PROVE Serves(q, job'[q], events', built')
  <2>1. CASE q = p
    BY <2>1
  <2>2. CASE q # p
    <3>1. job'[q] = job[q] /\ Serves(q, job[q], events, built)
      BY <2>2 DEF Others, Coverage
    <3>2. \A s : CoveredIn(s, events) => CoveredIn(s, events')
      BY DEF CoveredIn
    <3> QED BY <3>1, <3>2 DEF Serves
  <2> QED BY <2>1, <2>2
<1> QED BY <1>1 DEF Coverage, Serves, CoveredIn

LEMMA TailOf ==
  ASSUME IInv, NEW p \in Jobs, job[p].pc \in Creating
  PROVE  LET todo == job[p].todo
         IN /\ 1 \in DOMAIN todo /\ Head(todo) = todo[1]
            /\ \A i \in DOMAIN Tail(todo) : i + 1 \in DOMAIN todo /\ Tail(todo)[i] = todo[i + 1]
                                            /\ i \in Nat /\ i # 0
<1>1. job[p] \in JobRecs(posts) /\ job[p].todo # <<>>
  BY DEF IInv, JobSet, JobOK
<1>2. job[p].todo \in Seq(Timed(posts))
  BY <1>1 DEF JobRecs
<1> QED BY <1>1, <1>2, HeadTailProperties

LEMMA LeavesServes ==
  ASSUME IInv, Coverage, NEW p \in Jobs, NEW created \in BOOLEAN, Leaves(p, created),
         events \subseteq events', p \notin Starters => CoveredIn(Fed, events')
  PROVE  Serves(p, job'[p], events', built)
<1>1. Serves(p, job[p], events, built) /\ job[p].pc \in Creating
  BY DEF Coverage, Leaves
<1>2. \A s : CoveredIn(s, events) => CoveredIn(s, events')
  BY DEF CoveredIn
<1>3. CASE p \notin Starters
  <2>1. \A i \in DOMAIN Tail(job[p].todo) : Tail(job[p].todo)[i].item.sec = Fed
    BY <1>1, <1>3, TailOf DEF Serves
  <2>2. job'[p].pc \in {"lookup", "rebuild", "idle"}
    BY <1>3 DEF Leaves, After
  <2>3. \A i \in DOMAIN job'[p].todo : job'[p].todo[i].item.sec = Fed
    <3>1. CASE job'[p].todo = Tail(job[p].todo)
      BY <2>1, <3>1
    <3>2. CASE job'[p].todo = <<>>
      <4>1. DOMAIN job'[p].todo = {}
        BY <3>2
      <4> QED BY <4>1
    <3>3. job'[p].todo = Tail(job[p].todo) \/ job'[p].todo = <<>>
      BY DEF Leaves
    <3> QED BY <3>1, <3>2, <3>3
  <2> QED BY <1>3, <2>2, <2>3 DEF Serves
<1>4. CASE p \in Starters
  <2>1. job'[p].pc \in {"lookup", "check"} /\ job'[p].secs = job[p].secs
    BY <1>4 DEF Leaves, After
  <2>2. \A s \in Securities : s \in job[p].secs \/ (s \in built /\ CoveredIn(s, events))
    BY <1>1, <1>4 DEF Serves, Creating
  <2> QED BY <1>2, <1>4, <2>1, <2>2 DEF Serves
<1> QED BY <1>3, <1>4

LEMMA HeadCovers ==
  ASSUME IInv, Coverage, NEW p \in Jobs, p \notin Starters, job[p].pc \in Creating
  PROVE  Head(job[p].todo).item.sec = Fed
BY TailOf DEF Coverage, Serves

LEMMA CoverageStep ==
  ASSUME IInv, Coverage, [Next]_vars
  PROVE  Coverage'
<1>1. ASSUME NEW p \in Jobs PROVE Serves(p, job[p], events, built)
  BY DEF Coverage
<1>2. ASSUME NEW p \in Jobs, GoesOn(p), Others(p), events' = events, built' = built
      PROVE  Coverage'
  <2>1. Serves(p, job'[p], events, built)
    BY <1>1, <1>2 DEF Serves, GoesOn, SameTask, Creating
  <2> QED BY <1>2, <2>1, OthersServe DEF Coverage
<1>3. ASSUME NEW p \in Jobs, Stops(p), Others(p), events' = events, built' = built
      PROVE  Coverage'
  BY <1>3, IdleServes, OthersServe DEF Coverage, Stops
<1>4. ASSUME NEW p \in Jobs, Lookup(p) PROVE Coverage'
  BY <1>2, <1>4, LookupFields DEF Lookup
<1>5. ASSUME NEW p \in Jobs, InsertSource(p) PROVE Coverage'
  BY <1>2, <1>3, <1>5, SourceFields DEF InsertSource
<1>6. ASSUME NEW p \in Jobs, Count(p) PROVE Coverage'
  <2> DEFINE created == job[p].created \/ Cardinality(events) > job[p].before
  <2>1. job[p].pc \in Creating /\ job[p].pc = "count"
    BY <1>6 DEF Count, At, Creating
  <2>2. created \in BOOLEAN
    BY <2>1, HeadTimed DEF JobRecs
  <2>3. Advance(p, created)
    BY <1>6 DEF Count
  <2> HIDE DEF created
  <2>4. Leaves(p, created) /\ Others(p)
    BY <2>1, <2>3, AdvanceFields
  <2>5. HasEvent(Head(job[p].todo), events)
    BY <2>1, HeadTimed DEF JobOK
  <2>6. events' = events /\ built' = built
    BY <1>6 DEF Count
  <2>7. p \notin Starters => CoveredIn(Fed, events)
    <3> SUFFICES ASSUME p \notin Starters PROVE CoveredIn(Fed, events)
      OBVIOUS
    <3>1. Head(job[p].todo).item.sec = Fed
      BY <2>1, HeadCovers
    <3> QED BY <2>5, <3>1 DEF CoveredIn, HasEvent
  <2>8. Serves(p, job'[p], events', built)
    BY <2>2, <2>4, <2>6, <2>7, LeavesServes
  <2> QED BY <2>4, <2>6, <2>8, OthersServe DEF Coverage
<1>7. ASSUME NEW p \in Jobs, InsertEvent(p) PROVE Coverage'
  <2> DEFINE new == NewEvent(Head(job[p].todo), job[p].source)
  <2>1. job[p].pc \in Creating
    BY <1>7 DEF InsertEvent, At, Creating
  <2>2. CASE End(p) /\ UNCHANGED events
    <3>1. Stops(p) /\ Others(p)
      BY <2>2, SetFields DEF End, Stops
    <3> QED BY <1>3, <1>7, <2>2, <3>1 DEF InsertEvent
  <2>3. CASE events' = events \cup {new} /\ Advance(p, TRUE)
    <3>1. Leaves(p, TRUE) /\ Others(p)
      BY <2>1, <2>3, AdvanceFields
    <3>2. new.item = Head(job[p].todo).item
      BY DEF NewEvent
    <3> HIDE DEF new
    <3>3. p \notin Starters => CoveredIn(Fed, events')
      BY <2>1, <2>3, <3>2, HeadCovers DEF CoveredIn
    <3>4. built' = built /\ events \subseteq events'
      BY <1>7, <2>3 DEF InsertEvent
    <3>5. Serves(p, job'[p], events', built)
      BY <3>1, <3>3, <3>4, LeavesServes
    <3>6. \A s \in built' : CoveredIn(s, events')
      BY <3>4 DEF Coverage, CoveredIn
    <3> QED BY <3>1, <3>4, <3>5, <3>6, OthersServe
  <2> QED BY <1>7, <2>2, <2>3 DEF InsertEvent
<1>8. ASSUME NEW p \in Jobs, Rebuild(p) PROVE Coverage'
  <2>1. p \notin Starters /\ CoveredIn(Fed, events)
    BY <1>1, <1>8 DEF Rebuild, At, Serves
  <2>2. Stops(p) /\ Others(p)
    BY <1>8, SetFields DEF Rebuild, End, Stops
  <2>3. built' = built \cup {Fed} /\ events' = events
    BY <1>8 DEF Rebuild
  <2>4. \A s \in built' : CoveredIn(s, events')
    BY <2>1, <2>3 DEF Coverage
  <2> QED BY <2>2, <2>3, <2>4, IdleServes, OthersServe DEF Stops
<1>9. ASSUME NEW p \in Jobs, CheckSecurity(p) PROVE Coverage'
  <2> DEFINE j == job[p]
  <2>1. p \in Starters /\ j.pc = "check"
    BY <1>1, <1>9 DEF CheckSecurity, At, Serves
  <2>2. {"pc", "todo", "source", "before", "created", "secs"} \subseteq DOMAIN j /\ j.secs \subseteq Securities
    BY Fields DEF JobRecs
  <2>3. \A s \in Securities : s \in j.secs \/ (s \in built /\ CoveredIn(s, events))
    BY <1>1, <2>1 DEF Serves
  <2>4. ASSUME NEW s \in j.secs, s \in built \/ Covered(s), built' = built \cup {s},
               Set(p, [j EXCEPT !.secs = @ \ {s}])
        PROVE  Coverage'
    <3> DEFINE k == [j EXCEPT !.secs = j.secs \ {s}]
    <3>1. k.pc = "check" /\ k.secs = j.secs \ {s}
      BY <2>1, <2>2
    <3>2. Set(p, k)
      BY <2>4
    <3> HIDE DEF k
    <3>3. job'[p] = k /\ Others(p)
      BY <3>2, SetFields
    <3>4. CoveredIn(s, events)
      BY <2>4 DEF Coverage, Covered, CoveredIn
    <3>5. events' = events
      BY <1>9 DEF CheckSecurity
    <3>6. Serves(p, job'[p], events', built')
      BY <2>1, <2>3, <2>4, <3>1, <3>3, <3>4, <3>5 DEF Serves
    <3>7. \A u \in built' : CoveredIn(u, events')
      BY <2>4, <3>4, <3>5 DEF Coverage
    <3> QED BY <2>4, <3>3, <3>5, <3>6, <3>7, OthersServe
  <2>5. ASSUME NEW todo, Set(p, [j EXCEPT !.pc = "lookup", !.todo = todo]), built' = built
        PROVE  Coverage'
    <3> DEFINE k == [j EXCEPT !.pc = "lookup", !.todo = todo]
    <3>1. k.pc = "lookup" /\ k.secs = j.secs
      BY <2>2
    <3>2. Set(p, k)
      BY <2>5
    <3> HIDE DEF k
    <3>3. job'[p] = k /\ Others(p)
      BY <3>2, SetFields
    <3>4. events' = events
      BY <1>9 DEF CheckSecurity
    <3>5. Serves(p, job'[p], events', built')
      BY <2>1, <2>3, <2>5, <3>1, <3>3, <3>4 DEF Serves
    <3> QED BY <2>5, <3>3, <3>4, <3>5, OthersServe DEF Coverage
  <2> QED BY <1>9, <2>4, <2>5 DEF CheckSecurity
<1>10. ASSUME NEW p \in Jobs, Serve(p) PROVE Coverage'
  <2>1. p \in Starters /\ job[p].secs = {} /\ job[p].pc = "check"
    BY <1>1, <1>10 DEF Serve, At, Serves
  <2>2. \A s \in Securities : s \in built /\ CoveredIn(s, events)
    BY <1>1, <2>1 DEF Serves
  <2> DEFINE k == [Idle EXCEPT !.pc = "serving"]
  <2>3. k.pc = "serving" /\ k.secs = {}
    BY DEF Idle
  <2>4. Set(p, k) /\ events' = events /\ built' = built
    BY <1>10 DEF Serve
  <2> HIDE DEF k
  <2>5. job'[p] = k /\ Others(p)
    BY <2>4, SetFields
  <2>6. Serves(p, job'[p], events', built')
    BY <2>1, <2>2, <2>3, <2>4, <2>5 DEF Serves
  <2> QED BY <2>4, <2>5, <2>6, OthersServe DEF Coverage
<1>11. ASSUME NEW p \in Ingesters \cup Submitters, StartIngest(p) \/ Submit(p) PROVE Coverage'
  <2>1. p \in Jobs /\ p \notin Starters
    BY KindsAssumption DEF Jobs
  <2>2. events' = events /\ built' = built
    BY <1>11 DEF StartIngest, Submit
  <2>3. Serves(p, job'[p], events', built')
    BY <1>11, <2>1, BeginFields DEF Serves
  <2> QED BY <1>11, <2>1, <2>2, <2>3, BeginFields, OthersServe DEF Coverage
<1>12. ASSUME NEW p \in Starters, StartUp(p) PROVE Coverage'
  <2>1. p \in Jobs
    BY DEF Jobs
  <2>2. PICK k : Set(p, k) /\ k.pc \in {"lookup", "check"} /\ k.secs = Securities
    <3>1. CASE events = {} /\ Seeded # {}
      <4> DEFINE k == [Idle EXCEPT !.pc = "lookup", !.secs = Securities, !.todo = SeedTodo]
      <4>1. k.pc = "lookup" /\ k.secs = Securities
        BY DEF Idle
      <4>2. Set(p, k)
        BY <1>12, <3>1 DEF StartUp, SeedTodo
      <4> HIDE DEF k
      <4> QED BY <4>1, <4>2
    <3>2. CASE ~(events = {} /\ Seeded # {})
      <4> DEFINE k == [Idle EXCEPT !.pc = "check", !.secs = Securities]
      <4>1. k.pc = "check" /\ k.secs = Securities
        BY DEF Idle
      <4>2. Set(p, k)
        BY <1>12, <3>2 DEF StartUp
      <4> HIDE DEF k
      <4> QED BY <4>1, <4>2
    <3> QED BY <3>1, <3>2
  <2>3. job'[p] = k /\ Others(p)
    BY <2>1, <2>2, SetFields
  <2>4. events' = events /\ built' = built
    BY <1>12 DEF StartUp
  <2>5. Serves(p, job'[p], events', built')
    BY <1>12, <2>2, <2>3 DEF Serves
  <2> QED BY <2>1, <2>3, <2>4, <2>5, OthersServe DEF Coverage
<1>13. ASSUME NEW p \in Jobs, Crash(p) PROVE Coverage'
  <2>1. Stops(p) /\ Others(p)
    BY <1>13, SetFields DEF Crash, End, Stops
  <2> QED BY <1>3, <1>13, <2>1 DEF Crash
<1>14. CASE Tick \/ (\E k \in Feeds : Post(k)) \/ UNCHANGED vars
  <2>1. job' = job /\ events' = events /\ built' = built
    BY <1>14 DEF Tick, Post, vars
  <2> QED BY <2>1 DEF Coverage, Serves, CoveredIn
<1> QED BY <1>4, <1>5, <1>6, <1>7, <1>8, <1>9, <1>10, <1>11, <1>12, <1>13, <1>14
        DEF Next, Step, Create

\* Whatever the universe, the jobs and the crashes, the application serves only when
\* every security has an event and a snapshot (lifespan, seed_demo_content).
THEOREM ReadyWhenServing == Spec => []ServingReady
<1>1. Init => Coverage
  <2> SUFFICES ASSUME Init PROVE Coverage
    OBVIOUS
  <2>1. \A p \in Jobs : job[p] = Idle
    BY DEF Init
  <2> QED BY <2>1, IdleServes DEF Init, Coverage
<1>2. IInv /\ Coverage /\ [Next]_vars => Coverage'
  BY CoverageStep
<1>3. Coverage => ServingReady
  <2> SUFFICES ASSUME Coverage, NEW p \in Starters, At(p, "serving"), NEW s \in Securities
               PROVE  s \in built /\ Covered(s)
    BY DEF ServingReady
  <2>1. Serves(p, job[p], events, built)
    BY DEF Coverage, Jobs
  <2> QED BY <2>1 DEF Serves, At, Covered, CoveredIn
<1> QED BY <1>1, <1>2, <1>3, Always, PTL DEF Spec

(***************************************************************************)
(* An item with a date has one dedupe key.                                 *)
(***************************************************************************)

\* With any number of ingestions, administrators, starting processes and crashes:
\* a feed item that carries its own date is recorded once (create_event).
THEOREM OnceForAll == Spec => []RecordedOnce
<1>1. IInv => RecordedOnce
  <2> SUFFICES ASSUME IInv, NEW e \in events, NEW f \in events, e.item = f.item,
                      IsDated(e.item)
               PROVE  e = f
    BY DEF RecordedOnce
  <2>1. e.stamp = f.stamp
    BY DEF IInv, EventRows, Genuine, IsDated
  <2>2. /\ e \in [item : Items, stamp : Times, source : {1}, num : {1}]
        /\ f \in [item : Items, stamp : Times, source : {1}, num : {1}]
    BY DEF IInv, EventRows
  <2> QED BY <2>1, <2>2
<1> QED BY <1>1, Always, PTL
===============================================================================

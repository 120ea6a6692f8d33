------------------------------ MODULE EventIngest ------------------------------
(***************************************************************************)
(* How an item of the outside world becomes an event: the filings, news    *)
(* and press releases a refresh fetches, the events an administrator types *)
(* in, and the events startup seeds.  All go through create_event, which   *)
(* looks for the event by its dedupe key and for its source by the content *)
(* hash, and inserts what is missing in two commits.                       *)
(*                                                                         *)
(* An item is an abstract value: its content hash and, with its time       *)
(* stamp, its dedupe key.  The feeds are external.  One security is on the *)
(* feeds; a refresh ingests each security in this way, in turn.            *)
(***************************************************************************)
EXTENDS Integers, Sequences, FiniteSets

CONSTANTS
  Securities,     \* the launch universe
  Seeded,         \* those with a demonstration event
  Fed,            \* the security whose feeds are modelled
  Feeds,          \* the kinds of feeds: "filing", "news", "rss"
  Window,         \* Window[k]: how many items of feed k a fetch looks at
  NewsDays,       \* how many days back news is asked for
  Ingesters,      \* jobs running ingest_candidate_events
  Submitters,     \* requests running create_event_api
  Starters,       \* processes starting up
  MaxTime,        \* bound on the clock
  MaxPosts,       \* bound on the items of a feed
  MaxManual,      \* bound on the administrators' events
  MaxCrashes      \* bound on the jobs killed half-way

Jobs == Ingesters \cup Submitters \cup Starters

ASSUME UniverseAssumption ==
  IsFiniteSet(Securities) /\ Seeded \subseteq Securities /\ Fed \in Securities
ASSUME FeedsAssumption ==
  /\ Feeds \subseteq {"filing", "news", "rss"}
  /\ Window \in [Feeds -> Nat \ {0}]
  /\ NewsDays \in Nat
ASSUME BoundsAssumption == {MaxTime, MaxPosts, MaxManual, MaxCrashes} \subseteq Nat
ASSUME KindsAssumption ==
  Ingesters \cap Submitters = {} /\ Ingesters \cap Starters = {} /\ Submitters \cap Starters = {}

VARIABLES
  now,
  posts,      \* posts[k]: the items of feed k, oldest first
  sources,    \* the source snapshots: the rows of an item are numbered
  events,     \* the events: the rows of an item and a stamp are numbered
  built,      \* the securities with a snapshot
  job,        \* what each job has read and where it is
  crashes
vars == <<now, posts, sources, events, built, job, crashes>>

Item(s, kind, n) == [sec |-> s, kind |-> kind, num |-> n]
Candidate(item, stamp) == [item |-> item, stamp |-> stamp]

Idle == [pc |-> "idle", todo |-> <<>>, source |-> 0, before |-> 0,
         created |-> FALSE, secs |-> {}]

\* A new installation.
Init ==
  /\ now = 0
  /\ posts = [k \in Feeds |-> <<>>]
  /\ sources = {}
  /\ events = {}
  /\ built = {}
  /\ job = [p \in Jobs |-> Idle]
  /\ crashes = 0

Tick ==
  /\ now < MaxTime
  /\ now' = now + 1
  /\ UNCHANGED <<posts, sources, events, built, job, crashes>>

At(p, label) == job[p].pc = label
Set(p, j) == job' = [job EXCEPT ![p] = j]
End(p) == Set(p, Idle)

Crash(p) ==
  /\ ~At(p, "idle")
  /\ crashes < MaxCrashes
  /\ crashes' = crashes + 1
  /\ End(p)
  /\ UNCHANGED <<now, posts, sources, events, built>>

-------------------------------------------------------------------------------
\* The feeds.  A filing has a date and may be of a form nobody asks for, a press
\* release has no date that is read and may lack a title; news is always taken
\* and may have no date.  What is not taken still fills the window.

Shapes == [filing |-> [dated : {TRUE}, taken : BOOLEAN],
           news   |-> [dated : BOOLEAN, taken : {TRUE}],
           rss    |-> [dated : {FALSE}, taken : BOOLEAN]]

Post(k) ==
  /\ Len(posts[k]) < MaxPosts
  /\ \E shape \in Shapes[k] :
       posts' = [posts EXCEPT ![k] =
                   Append(@, [dated |-> shape.dated, taken |-> shape.taken, day |-> now])]
  /\ UNCHANGED <<now, sources, events, built, job, crashes>>

\* What a feed answers with: its newest items, news of the last days only.
Shown(k) ==
  {n \in 1 .. Len(posts[k]) :
     /\ n > Len(posts[k]) - Window[k]
     /\ k = "news" => posts[k][n].day + NewsDays >= now}
StampFetched(post) == now                 \* mutant: every item is stamped with the fetch
Stamp(post) == IF post.dated THEN post.day ELSE now

\* What a fetch returns: the candidates of feed k, newest first, and of all feeds.
NewestFirst(nums) ==
  {order \in [1 .. Cardinality(nums) -> nums] :
     \A i, j \in DOMAIN order : i < j => order[i] > order[j]}
Fetched(k) ==
  {[i \in DOMAIN order |-> Candidate(Item(Fed, k, order[i]), Stamp(posts[k][order[i]]))] :
     order \in NewestFirst({n \in Shown(k) : posts[k][n].taken})}
\* A provider that fails, or is not asked, contributes nothing.
FetchedOf(k) == {<<>>} \cup IF k \in Feeds THEN Fetched(k) ELSE {}
Candidates == {f \o n \o r : f \in FetchedOf("filing"), n \in FetchedOf("news"), r \in FetchedOf("rss")}

-------------------------------------------------------------------------------
\* create_event, for the first candidate of a job

EventsOf(cand) == {e \in events : e.item = cand.item /\ e.stamp = cand.stamp}
SourcesOf(item) == {r \in sources : r.item = item}
NewSource(item) == [item |-> item, num |-> Cardinality(SourcesOf(item)) + 1]
NewEvent(cand, source) ==
  [item |-> cand.item, stamp |-> cand.stamp, source |-> source,
   num |-> Cardinality(EventsOf(cand)) + 1]

\* What a job does when its candidates are through.
After(p, created) ==
  IF p \in Starters THEN "check"
  ELSE IF p \in Submitters \/ created THEN "rebuild" ELSE "idle"

\* On to the next candidate; created says whether the count of events grew.
Advance(p, created) ==
  LET rest == Tail(job[p].todo)
  IN  IF rest # <<>>
      THEN Set(p, [job[p] EXCEPT !.pc = "lookup", !.todo = rest, !.source = 0, !.before = 0,
                                 !.created = created])
      ELSE Set(p, [Idle EXCEPT !.pc = After(p, created), !.secs = job[p].secs])

LookupBySource(p) ==                      \* mutant: an item with a source is taken as recorded
  LET cand == Head(job[p].todo)
  IN
  /\ At(p, "lookup")
  /\ IF SourcesOf(cand.item) # {}
     THEN Set(p, [job[p] EXCEPT !.pc = "count", !.before = Cardinality(events)])
     ELSE Set(p, [job[p] EXCEPT !.pc = "source"])
  /\ UNCHANGED <<now, posts, sources, events, built, crashes>>
\* The two queries.
Lookup(p) ==
  LET cand == Head(job[p].todo)
  IN
  /\ At(p, "lookup")
  /\ \/ /\ EventsOf(cand) # {}
        /\ Set(p, [job[p] EXCEPT !.pc = "count", !.before = Cardinality(events)])
     \/ /\ EventsOf(cand) = {}
        /\ \E r \in SourcesOf(cand.item) :
             Set(p, [job[p] EXCEPT !.pc = "event", !.source = r.num])
     \/ /\ EventsOf(cand) = {} /\ SourcesOf(cand.item) = {}
        /\ Set(p, [job[p] EXCEPT !.pc = "source"])
  /\ UNCHANGED <<now, posts, sources, events, built, crashes>>

\* The event was there: it counts as created when another job has added one.
Count(p) ==
  /\ At(p, "count")
  /\ Advance(p, job[p].created \/ Cardinality(events) > job[p].before)
  /\ UNCHANGED <<now, posts, sources, events, built, crashes>>

InsertSourceAgain(p) ==                   \* mutant: no unique key on the content hash
  LET new == NewSource(Head(job[p].todo).item)
  IN
  /\ At(p, "source")
  /\ sources' = sources \cup {new}
  /\ Set(p, [job[p] EXCEPT !.pc = "event", !.source = new.num])
  /\ UNCHANGED <<now, posts, events, built, crashes>>
InsertSource(p) ==
  LET new == NewSource(Head(job[p].todo).item)
  IN
  /\ At(p, "source")
  /\ IF new.num > 1
     THEN End(p) /\ UNCHANGED sources      \* IntegrityError: uq_source_snapshots_content_hash
     ELSE /\ sources' = sources \cup {new}
          /\ Set(p, [job[p] EXCEPT !.pc = "event", !.source = new.num])
  /\ UNCHANGED <<now, posts, events, built, crashes>>

InsertEvent(p) ==
  LET new == NewEvent(Head(job[p].todo), job[p].source)
  IN
  /\ At(p, "event")
  /\ IF new.num > 1
     THEN End(p) /\ UNCHANGED events       \* IntegrityError: uq_events_dedupe_key
     ELSE /\ events' = events \cup {new}
          /\ Advance(p, TRUE)
  /\ UNCHANGED <<now, posts, sources, built, crashes>>

-------------------------------------------------------------------------------
\* The jobs.

StartAnyIngest(p) ==                      \* mutant: nothing fetched is handled like something
  /\ At(p, "idle")
  /\ \E todo \in Candidates : Set(p, [Idle EXCEPT !.pc = "lookup", !.todo = todo])
  /\ UNCHANGED <<now, posts, sources, events, built, crashes>>
StartIngest(p) ==
  /\ At(p, "idle")
  /\ \E todo \in Candidates :
       Set(p, IF todo = <<>> THEN Idle ELSE [Idle EXCEPT !.pc = "lookup", !.todo = todo])
  /\ UNCHANGED <<now, posts, sources, events, built, crashes>>

\* An administrator's event is stamped with the time of the request.
Submit(p) ==
  /\ At(p, "idle")
  /\ \E web \in Starters : At(web, "serving")
  /\ Cardinality({e \in events : e.item.kind = "manual"}) < MaxManual
  /\ Set(p, [Idle EXCEPT !.pc = "lookup", !.todo = <<Candidate(Item(Fed, "manual", 1), now)>>])
  /\ UNCHANGED <<now, posts, sources, events, built, crashes>>

Rebuild(p) ==
  /\ At(p, "rebuild")
  /\ built' = built \cup {Fed}
  /\ End(p)
  /\ UNCHANGED <<now, posts, sources, events, crashes>>

\* Startup.  seed_demo_content seeds when there is no event at all, and then
\* rebuilds every security; else it rebuilds those without a snapshot.
Seeds == CHOOSE seq \in [1 .. Cardinality(Seeded) -> Seeded] :
           \A i, j \in DOMAIN seq : seq[i] = seq[j] => i = j
StartUpSeeded(p) ==                       \* mutant: with any event, all is taken as done
  /\ At(p, "idle")
  /\ Set(p, IF events = {} /\ Seeded # {}
            THEN [Idle EXCEPT !.pc = "lookup", !.secs = Securities,
                    !.todo = [i \in DOMAIN Seeds |-> Candidate(Item(Seeds[i], "seed", 1), now)]]
            ELSE [Idle EXCEPT !.pc = "serving"])
  /\ UNCHANGED <<now, posts, sources, events, built, crashes>>
StartUp(p) ==
  /\ At(p, "idle")
  /\ Set(p, IF events = {} /\ Seeded # {}
            THEN [Idle EXCEPT !.pc = "lookup", !.secs = Securities,
                    !.todo = [i \in DOMAIN Seeds |-> Candidate(Item(Seeds[i], "seed", 1), now)]]
            ELSE [Idle EXCEPT !.pc = "check", !.secs = Securities])
  /\ UNCHANGED <<now, posts, sources, events, built, crashes>>

Covered(s) == \E e \in events : e.item.sec = s

\* The rebuild of a security without an event creates its baseline event first.
CheckSecurity(p) ==
  /\ At(p, "check")
  /\ \E s \in job[p].secs :
       IF s \in built \/ Covered(s)
       THEN /\ built' = built \cup {s}
            /\ Set(p, [job[p] EXCEPT !.secs = @ \ {s}])
       ELSE /\ Set(p, [job[p] EXCEPT !.pc = "lookup",
                         !.todo = <<Candidate(Item(s, "baseline", 1), now)>>])
            /\ UNCHANGED built
  /\ UNCHANGED <<now, posts, sources, events, crashes>>

Serve(p) ==
  /\ At(p, "check")
  /\ job[p].secs = {}
  /\ Set(p, [Idle EXCEPT !.pc = "serving"])
  /\ UNCHANGED <<now, posts, sources, events, built, crashes>>

Create(p) == Lookup(p) \/ InsertSource(p) \/ InsertEvent(p) \/ Count(p)
Step(p) == Create(p) \/ Rebuild(p) \/ CheckSecurity(p) \/ Serve(p)

Next == \/ Tick
        \/ \E k \in Feeds : Post(k)
        \/ \E p \in Ingesters : StartIngest(p)
        \/ \E p \in Submitters : Submit(p)
        \/ \E p \in Starters : StartUp(p)
        \/ \E p \in Jobs : Step(p) \/ Crash(p)

Spec == Init /\ [][Next]_vars

\* An ingestion that has begun is run to its end; nothing says that one begins, or
\* that a provider answers.
FairSpec == Spec /\ \A p \in Ingesters : WF_vars(Step(p))

-------------------------------------------------------------------------------
Items == [sec : Securities, kind : Feeds \cup {"manual", "seed", "baseline"}, num : Nat \ {0}]
Times == 0 .. MaxTime

\* The feeds, the tables and what each job holds are of the kinds the code stores.
TypeOK ==
  /\ now \in Times
  /\ posts \in [Feeds -> Seq([dated : BOOLEAN, taken : BOOLEAN, day : Times])]
  /\ sources \subseteq [item : Items, num : Nat \ {0}]
  /\ events \subseteq [item : Items, stamp : Times, source : Nat \ {0}, num : Nat \ {0}]
  /\ built \subseteq Securities
  /\ job \in [Jobs -> [pc : {"idle", "lookup", "source", "event", "count", "rebuild",
                             "check", "serving"},
                       todo : Seq([item : Items, stamp : Times]), source : Nat,
                       before : Nat, created : BOOLEAN, secs : SUBSET Securities]]
  /\ \A p \in Jobs : job[p].todo = <<>> <=> job[p].pc \notin {"lookup", "source", "event", "count"}
  /\ crashes \in 0 .. MaxCrashes

IsDated(item) == item.kind \in Feeds /\ posts[item.kind][item.num].dated

\* A feed item that carries its own date is recorded once, however often it is
\* fetched, by how many jobs at once, and when jobs die half-way (create_event).
\* An item without a date is a new event with every fetch, and so is excluded.
RecordedOnce ==
  \A e, f \in events : e.item = f.item /\ IsDated(e.item) => e = f

\* Every event names the one source row of its item: a source whose job died
\* before the event, or one of an earlier event, is used again.
SourceShared ==
  \A e \in events : SourcesOf(e.item) = {[item |-> e.item, num |-> e.source]}

\* The application serves requests only when every security has an event and a
\* snapshot, however often startup was killed on the way (lifespan,
\* seed_demo_content, rebuild_security_recommendation): the state
\* MarketPipeline begins in.
ServingReady ==
  \A p \in Starters : At(p, "serving") =>
    \A s \in Securities : s \in built /\ Covered(s)

InHand(item) ==
  \E p \in Ingesters : \E i \in DOMAIN job[p].todo : job[p].todo[i].item = item

\* An item that is fetched again and again is recorded in the end, also when
\* ingestions are killed or lose a race (create_event uses a source without an
\* event again).  One that leaves the answers first, or whose provider fails,
\* is lost: nothing else keeps it.
CaughtUp ==
  \A k \in Feeds, n \in 1 .. MaxPosts :
    []<>InHand(Item(Fed, k, n)) => <>(\E e \in events : e.item = Item(Fed, k, n))
===============================================================================

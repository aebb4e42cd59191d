---------------------------- MODULE HtmlPageCache ----------------------------
(***************************************************************************)
(* The HTML page cache of crates/open-runo-router/src/middleware/          *)
(* html_cache.rs on the store of crates/open-runo-cache/src/lib.rs.  A GET *)
(* request is counted, looked up, and on a miss rendered: one that is not  *)
(* admitted renders at once and stores nothing, an admitted one first      *)
(* takes the lock of its key and looks again (singleflight).  A hit on a   *)
(* page near expiry spawns a background refresh.  Purges fall anywhere     *)
(* between these steps, and a client that disconnects drops its request.   *)
(*                                                                         *)
(* A page's content is a version number; the handler reads the current one *)
(* at some moment of the render.  Time is the age of each stored page in   *)
(* ticks.  The learned admission and TTL of CachePredictor are arbitrary   *)
(* choices here.                                                           *)
(***************************************************************************)
EXTENDS Integers, Sequences, FiniteSets

CONSTANTS
    Keys,                   \* normalised cache keys
    Clients, Refreshers,    \* request tasks; bound: refreshes at once
    Learning,               \* config.ai: predictor on
    Ttls,                   \* TTLs in ticks: {config.ttl}, or what is learned
    MinHits, MaxEntries,    \* config.min_hits, config.max_entries
    CountFactor,            \* hit_counts is reset at MaxEntries * CountFactor (4)
    SweepAt,                \* locks are swept at this many (1024)
    RefreshNum, RefreshDen, \* config.refresh_ratio as a fraction
    LockIds,                \* identities of the Arc<Mutex<()>> render locks
    None,
    MaxUpdates              \* bound: content versions per page

Tasks == Clients \cup Refreshers
Version == 0 .. MaxUpdates
Outcome == {"page", "optout", "binary", "error"}
Rendered == [ver : Version, kind : Outcome]
Answer == [how : {"HIT", "MISS", "COLD", "BYPASS", "UNCACHEABLE", "PLAIN", "ERROR"},
           body : Version \cup {None}, made : Version \cup {None}]

ASSUME CacheAssumption ==
    /\ Clients \cap Refreshers = {} /\ None \notin Tasks \cup LockIds \cup Version
    /\ Learning \in BOOLEAN
    /\ Ttls # {} /\ Ttls \subseteq Nat \ {0}
    /\ {MinHits, MaxEntries, CountFactor, SweepAt} \subseteq Nat \ {0}
    /\ {RefreshNum, RefreshDen, MaxUpdates} \subseteq Nat

ASSUME FiniteTasks == IsFiniteSet(Tasks)

VARIABLES
    store,      \* store[k]: the stored page of k, or None
    counts,     \* hit_counts: requests per key, saturating at MinHits
    locks,      \* locks[k]: the render lock in the lock map, or None
    mutex,      \* mutex[l]: holder and FIFO waiters of render lock l
    task,       \* where each request or refresh stands
    content,    \* the version the handler of a page would render now
    purging,    \* a purge_all is between its two clears
    barrier,    \* history: content[k] at the last purge of k
    clean       \* history: that purge met no render of older content

site == <<content, barrier, clean>>
vars == <<store, counts, locks, mutex, task, content, purging, barrier, clean>>

-----------------------------------------------------------------------------
(* Helpers.  An operator marked "mutant" is a plausible mistake in the      *)
(* definition that follows it; the specification does not use it.          *)

IdleTask == [pc |-> "idle", key |-> None, admit |-> FALSE, lock |-> None,
             page |-> None, answer |-> None]
FreeMutex == [holder |-> None, queue |-> <<>>]

LiveAlways(k) == store[k] # None                       \* mutant
Live(k) == store[k] # None /\ store[k].age < store[k].ttl
NearExpiry(e) == e.age * RefreshDen >= e.ttl * RefreshNum

\* InMemoryTtlCache::get drops the entry it finds expired.
AfterGet(k) == [store EXCEPT ![k] = IF Live(k) THEN @ ELSE None]

\* InMemoryTtlCache::set, once expired entries are swept: which live entries
\* may be evicted for k, those closest to expiry first.
AnyVictims(k) ==                                       \* mutant
    LET live == {j \in Keys : Live(j)}
    IN  {V \in SUBSET live : k \notin live /\ Cardinality(live \ V) = MaxEntries - 1}
            \cup (IF k \in live \/ Cardinality(live) < MaxEntries THEN {{}} ELSE {})
Victims(k) ==
    LET live == {j \in Keys : Live(j)}
        Left(j) == store[j].ttl - store[j].age
    IN  IF k \in live \/ Cardinality(live) < MaxEntries
          THEN {{}}
          ELSE {V \in SUBSET live :
                   /\ Cardinality(live \ V) = MaxEntries - 1
                   /\ \A v \in V, j \in live \ V : Left(v) <= Left(j)}

SetPage(k, ver) ==
    \E ttl \in Ttls, V \in Victims(k) :
        store' = [j \in Keys |->
                    IF j = k THEN [ver |-> ver, age |-> 0, ttl |-> ttl]
                    ELSE IF Live(j) /\ j \notin V THEN store[j] ELSE None]

\* count_hit: the map is reset when full, then the key's counter goes up.
Seen(c) == {k \in Keys : c[k] > 0}
Counted(k) ==
    LET c == IF Cardinality(Seen(counts)) >= MaxEntries * CountFactor
               THEN [j \in Keys |-> 0] ELSE counts
    IN  [c EXCEPT ![k] = IF @ < MinHits THEN @ + 1 ELSE @]

\* render_lock: sweep the locks nobody else holds an Arc of, then get or create.
Arcs(l) == {t \in Tasks : task[t].lock = l}
FreshIds == {l \in LockIds : Arcs(l) = {} /\ \A k \in Keys : locks[k] # l}
SweptAll ==                                            \* mutant
    IF Cardinality({k \in Keys : locks[k] # None}) >= SweepAt
      THEN [k \in Keys |-> None] ELSE locks
NeverSwept == locks                                    \* mutant
Swept ==
    IF Cardinality({k \in Keys : locks[k] # None}) >= SweepAt
      THEN [k \in Keys |-> IF Arcs(locks[k]) = {} THEN None ELSE locks[k]]
      ELSE locks

RenderLock(t, next) ==
    LET k == task[t].key
        l == IF Swept[k] # None THEN Swept[k] ELSE CHOOSE x \in FreshIds : TRUE
    IN  /\ Swept[k] = None => FreshIds # {}
        /\ locks' = [Swept EXCEPT ![k] = l]
        /\ task' = [task EXCEPT ![t].pc = next, ![t].lock = l]

\* Dropping the guard hands a tokio mutex to its next waiter.
Released(m) ==
    IF m.queue = <<>> THEN FreeMutex
                      ELSE [holder |-> Head(m.queue), queue |-> Tail(m.queue)]

\* The waiters q once t has left them: nobody waits twice.
Without(q, t) ==
    IF \E i \in DOMAIN q : q[i] = t
      THEN LET n == CHOOSE i \in DOMAIN q : q[i] = t
           IN  [i \in 1 .. Len(q) - 1 |-> IF i < n THEN q[i] ELSE q[i + 1]]
      ELSE q

\* What dropping the request future of t does to its lock.
Dropped(t) ==
    [l \in LockIds |->
        IF mutex[l].holder = t THEN Released(mutex[l])
        ELSE [holder |-> mutex[l].holder, queue |-> Without(mutex[l].queue, t)]]

Done(how, body, made) ==
    [IdleTask EXCEPT !.pc = "done", !.answer = [how |-> how, body |-> body, made |-> made]]
Reply(t, how, body) ==
    task' = [task EXCEPT ![t] = Done(how, body,
                IF task[t].page = None THEN None ELSE task[t].page.ver)]
Finish(t) == task' = [task EXCEPT ![t] = IdleTask]

-----------------------------------------------------------------------------
(* HtmlCacheEndpoint::call.  A request whose method, path or identity       *)
(* rules the cache out goes to "bypass"; the others go through the rest.    *)

Arrive(c, k) ==
    /\ task[c].pc = "idle"
    /\ \/ /\ task' = [task EXCEPT ![c].pc = "bypass", ![c].key = k]
          /\ UNCHANGED counts
       \/ /\ IF Learning
               THEN /\ \E admit \in BOOLEAN :
                          task' = [task EXCEPT ![c].pc = "lookup", ![c].key = k,
                                               ![c].admit = admit]
                    /\ UNCHANGED counts
               ELSE /\ counts' = Counted(k)
                    /\ task' = [task EXCEPT ![c].pc = "lookup", ![c].key = k,
                                            ![c].admit = (counts'[k] >= MinHits)]
    /\ UNCHANGED <<store, locks, mutex, purging, site>>

\* A hit answers, and spawns a refresh when the page is close to expiry (none
\* when all Refreshers are busy: a bound of the model).
LookupHit(c) ==
    LET k == task[c].key
        free == {r \in Refreshers : task[r].pc = "idle"}
        spawn == NearExpiry(store[k]) /\ free # {}
        answered == [task EXCEPT ![c] = Done("HIT", store[k].ver, None)]
    IN  /\ task[c].pc = "lookup" /\ Live(k)
        /\ \/ ~spawn /\ task' = answered
           \/ /\ spawn
              /\ \E r \in free :
                   task' = [answered EXCEPT ![r] = [IdleTask EXCEPT !.pc = "spawned", !.key = k]]
        /\ UNCHANGED <<store, counts, locks, mutex, purging, site>>

LookupMiss(c) ==
    /\ task[c].pc = "lookup" /\ ~Live(task[c].key)
    /\ store' = AfterGet(task[c].key)
    /\ task' = [task EXCEPT ![c].pc = IF task[c].admit THEN "getlock" ELSE "cold"]
    /\ UNCHANGED <<counts, locks, mutex, purging, site>>

\* An unadmitted or bypassed request renders without touching the cache.
RenderUncached(c) ==
    /\ task[c].pc \in {"cold", "bypass"}
    /\ \E o \in Outcome :
         IF o = "error" THEN Reply(c, "ERROR", None)
         ELSE Reply(c, IF task[c].pc = "cold" THEN "COLD" ELSE "BYPASS",
                    content[task[c].key])
    /\ UNCHANGED <<store, counts, locks, mutex, purging, site>>

GetLock(c) ==
    /\ task[c].pc = "getlock"
    /\ RenderLock(c, "enter")
    /\ UNCHANGED <<store, counts, mutex, purging, site>>

EnterLock(c) ==
    LET l == task[c].lock
    IN  /\ task[c].pc = "enter"
        /\ mutex' = [mutex EXCEPT ![l] =
                       IF @.holder = None THEN [holder |-> c, queue |-> <<>>]
                       ELSE [holder |-> @.holder, queue |-> Append(@.queue, c)]]
        /\ task' = [task EXCEPT ![c].pc = "wait"]
        /\ UNCHANGED <<store, counts, locks, purging, site>>

\* The double-check under the lock.
RecheckAlwaysMisses(c) ==                              \* mutant
    /\ task[c].pc = "wait" /\ mutex[task[c].lock].holder = c
    /\ task' = [task EXCEPT ![c].pc = "render"]
    /\ UNCHANGED <<store, counts, locks, mutex, purging, site>>
Recheck(c) ==
    LET k == task[c].key
    IN  /\ task[c].pc = "wait" /\ mutex[task[c].lock].holder = c
        /\ IF Live(k)
             THEN /\ mutex' = Dropped(c)
                  /\ Reply(c, "HIT", store[k].ver)
                  /\ UNCHANGED store
             ELSE /\ store' = AfterGet(k)
                  /\ task' = [task EXCEPT ![c].pc = "render"]
                  /\ UNCHANGED mutex
        /\ UNCHANGED <<counts, locks, purging, site>>

\* inner.call: the handler reads the page's content while it runs.
RenderedVerCached(t) ==                                \* mutant
    IF t \in Refreshers /\ Live(task[t].key) THEN store[task[t].key].ver
                                             ELSE content[task[t].key]
RenderedVer(t) == content[task[t].key]
Render(t) ==
    /\ task[t].pc = "render"
    /\ \E o \in Outcome :
         task' = [task EXCEPT ![t].pc = "store",
                    ![t].page = [ver |-> RenderedVer(t), kind |-> o]]
    /\ UNCHANGED <<store, counts, locks, mutex, purging, site>>

\* What becomes of a rendered page.  A body that is not UTF-8 was consumed by
\* the attempt to read it: the answer carries an empty one.
DeliverKeepingLock(c) ==                               \* mutant
    LET p == task[c].page
    IN  /\ task[c].pc = "store"
        /\ IF p.kind = "page" THEN SetPage(task[c].key, p.ver) ELSE UNCHANGED store
        /\ Reply(c, IF p.kind = "error" THEN "ERROR" ELSE "MISS", p.ver)
        /\ mutex' = IF p.kind = "error" THEN mutex ELSE Dropped(c)
        /\ UNCHANGED <<counts, locks, purging, site>>
Deliver(c) ==
    LET p == task[c].page
    IN  /\ task[c].pc = "store"
        /\ \/ p.kind = "page" /\ SetPage(task[c].key, p.ver) /\ Reply(c, "MISS", p.ver)
           \/ p.kind = "optout" /\ Reply(c, "PLAIN", p.ver) /\ UNCHANGED store
           \/ p.kind = "binary" /\ Reply(c, "UNCACHEABLE", None) /\ UNCHANGED store
           \/ p.kind = "error" /\ Reply(c, "ERROR", None) /\ UNCHANGED store
        /\ mutex' = Dropped(c)
        /\ UNCHANGED <<counts, locks, purging, site>>

Receive(c) ==
    /\ task[c].pc = "done"
    /\ Finish(c)
    /\ UNCHANGED <<store, counts, locks, mutex, purging, site>>

\* The connection closes: hyper drops the request future at an await.
Abandon(c) ==
    /\ task[c].pc \notin {"idle", "done"}
    /\ mutex' = Dropped(c)
    /\ Finish(c)
    /\ UNCHANGED <<store, counts, locks, purging, site>>

-----------------------------------------------------------------------------
(* spawn_background_refresh                                                 *)

RefreshLock(r) ==
    /\ task[r].pc = "spawned"
    /\ RenderLock(r, "try")
    /\ UNCHANGED <<store, counts, mutex, purging, site>>

\* try_lock: somebody else's render is under way, or this one starts.
RefreshTry(r) ==
    LET l == task[r].lock
    IN  /\ task[r].pc = "try"
        /\ IF mutex[l].holder = None
             THEN /\ mutex' = [mutex EXCEPT ![l] = [holder |-> r, queue |-> <<>>]]
                  /\ task' = [task EXCEPT ![r].pc = "render"]
             ELSE Finish(r) /\ UNCHANGED mutex
        /\ UNCHANGED <<store, counts, locks, purging, site>>

RefreshStore(r) ==
    LET p == task[r].page
    IN  /\ task[r].pc = "store"
        /\ IF p.kind = "page" THEN SetPage(task[r].key, p.ver) ELSE UNCHANGED store
        /\ mutex' = Dropped(r)
        /\ Finish(r)
        /\ UNCHANGED <<counts, locks, purging, site>>

-----------------------------------------------------------------------------
(* Content updates, purges, and time.                                       *)

UnderWay(k) == \E t \in Tasks : /\ task[t].pc = "store" /\ task[t].key = k
                                /\ task[t].page.ver < content[k]

Update(k) ==
    /\ content[k] < MaxUpdates
    /\ content' = [content EXCEPT ![k] = @ + 1]
    /\ UNCHANGED <<store, counts, locks, mutex, task, purging, barrier, clean>>

NotePurge(K) ==
    /\ barrier' = [k \in Keys |-> IF k \in K THEN content[k] ELSE barrier[k]]
    /\ clean' = [k \in Keys |-> IF k \in K THEN ~UnderWay(k) ELSE clean[k]]

PurgeIfUnlocked(k) ==                                  \* mutant
    /\ store' = IF \E t \in Tasks : task[t].key = k THEN store
                                                   ELSE [store EXCEPT ![k] = None]
    /\ NotePurge({k})
    /\ UNCHANGED <<counts, locks, mutex, task, content, purging>>
Purge(k) ==
    /\ store' = [store EXCEPT ![k] = None]
    /\ NotePurge({k})
    /\ UNCHANGED <<counts, locks, mutex, task, content, purging>>

\* purge_all clears the store, awaits, then clears the hit counters.
PurgeAllStore ==
    /\ ~purging
    /\ store' = [k \in Keys |-> None]
    /\ NotePurge(Keys)
    /\ purging' = TRUE
    /\ UNCHANGED <<counts, locks, mutex, task, content>>

PurgeAllCounts ==
    /\ purging
    /\ counts' = [k \in Keys |-> 0]
    /\ purging' = FALSE
    /\ UNCHANGED <<store, locks, mutex, task, site>>

Tick ==
    /\ \E k \in Keys : Live(k)
    /\ store' = [k \in Keys |-> IF Live(k) THEN [store[k] EXCEPT !.age = @ + 1] ELSE store[k]]
    /\ UNCHANGED <<counts, locks, mutex, task, content, purging, barrier, clean>>

-----------------------------------------------------------------------------
Init ==
    /\ store = [k \in Keys |-> None]
    /\ counts = [k \in Keys |-> 0]
    /\ locks = [k \in Keys |-> None]
    /\ mutex = [l \in LockIds |-> FreeMutex]
    /\ task = [t \in Tasks |-> IdleTask]
    /\ content = [k \in Keys |-> 0]
    /\ purging = FALSE
    /\ barrier = [k \in Keys |-> 0]
    /\ clean = [k \in Keys |-> TRUE]

RequestStep(c) ==
    \/ LookupHit(c) \/ LookupMiss(c) \/ RenderUncached(c)
    \/ GetLock(c) \/ EnterLock(c) \/ Recheck(c)
    \/ Render(c) \/ Deliver(c) \/ Receive(c)
RefreshStep(r) == RefreshLock(r) \/ RefreshTry(r) \/ Render(r) \/ RefreshStore(r)

Next ==
    \/ \E c \in Clients : RequestStep(c) \/ Abandon(c) \/ \E k \in Keys : Arrive(c, k)
    \/ \E r \in Refreshers : RefreshStep(r)
    \/ \E k \in Keys : Update(k) \/ Purge(k)
    \/ PurgeAllStore \/ PurgeAllCounts \/ Tick

Spec == Init /\ [][Next]_vars

\* The runtime schedules every task that can run and time passes; nobody has
\* to send requests, update, purge or disconnect.
FairSpec ==
    /\ Spec
    /\ \A c \in Clients : WF_vars(RequestStep(c))
    /\ \A r \in Refreshers : WF_vars(RefreshStep(r))
    /\ WF_vars(Tick) /\ WF_vars(PurgeAllCounts)

-----------------------------------------------------------------------------
(* Properties.                                                              *)

\* Types of the state.
StoredPage == [ver : Version, age : Nat, ttl : Ttls]
Pc == {"idle", "bypass", "lookup", "cold", "getlock", "enter", "wait", "render",
       "store", "done", "spawned", "try"}
TaskState == [pc : Pc, key : Keys \cup {None}, admit : BOOLEAN,
              lock : LockIds \cup {None}, page : Rendered \cup {None},
              answer : Answer \cup {None}]
\* TypeOK: every variable has its type, and no entry is older than its TTL.
TypeOK ==
    /\ store \in [Keys -> StoredPage \cup {None}]
    /\ \A k \in Keys : store[k] # None => store[k].age <= store[k].ttl
    /\ counts \in [Keys -> 0 .. MinHits]
    /\ locks \in [Keys -> LockIds \cup {None}]
    /\ mutex \in [LockIds -> [holder : Tasks \cup {None}, queue : Seq(Clients)]]
    /\ task \in [Tasks -> TaskState]
    /\ content \in [Keys -> Version]
    /\ purging \in BOOLEAN
    /\ barrier \in [Keys -> Version]
    /\ clean \in [Keys -> BOOLEAN]

\* Singleflight (html_cache.rs:37): however locks are created, swept and
\* handed over, two tasks never render the same key under its lock.
Rendering(t) == task[t].pc \in {"render", "store"}
OneRenderPerKey ==
    \A s, t \in Tasks : (Rendering(s) /\ Rendering(t) /\ task[s].key = task[t].key) => s = t

\* The double-check (html_cache.rs:367): a request that renders under the lock
\* fills a gap.  While it renders and until it stores, no live page of its key
\* appears from elsewhere, so one miss costs one render of a storable page.
LeaderFillsGap == \A c \in Clients : Rendering(c) => ~Live(task[c].key)

\* Bounded memory (html_cache.rs:40): pages, expired ones that were not swept yet
\* included, counters and locks stay within
\* their limits, locks up to those in use by running tasks.
MemoryBounded ==
    /\ Cardinality({k \in Keys : store[k] # None}) <= MaxEntries
    /\ Cardinality(Seen(counts)) <= MaxEntries * CountFactor
    /\ LET held == Cardinality({k \in Keys : locks[k] # None})
           most == Cardinality(Tasks)
       IN  held <= SweepAt \/ held <= most

Gone(k) == Live(k) /\ store'[k] = None
Stored(j) == store'[j] # None /\ store'[j] # store[j] /\ store'[j].age = 0
SoonestFirst ==
    \A j, k \in Keys : (Stored(j) /\ Gone(k)) =>
        /\ ~Live(j)
        /\ \A i \in Keys \ {j} : (Live(i) /\ store'[i] # None) =>
              store[k].ttl - store[k].age <= store[i].ttl - store[i].age
\* The capacity guard evicts the entries closest to expiry and only when the
\* cache is full (cache lib.rs:91): a live page that a store pushes out leaves
\* no other page in place that would have expired before it.
EvictsSoonest == [][SoonestFirst]_vars

\* A purge sticks unless a render that read the old content was in flight when
\* it ran: no page older than the purge is found in the store afterwards.
PurgeSticks ==
    \A k \in Keys : (clean[k] /\ store[k] # None) => store[k].ver >= barrier[k]

\* purge() is documented as dropping the page after a content update
\* (html_cache.rs:193): nothing older than the purge is stored afterwards.
PurgeTakesEffect == \A k \in Keys : Live(k) => store[k].ver >= barrier[k]

\* A body that is not UTF-8 is said to pass through (html_cache.rs:409): the
\* answer carries what the handler rendered.
BinaryPassesThrough ==
    \A c \in Clients : (task[c].pc = "done" /\ task[c].answer.how = "UNCACHEABLE") =>
        task[c].answer.body = task[c].answer.made

\* Every request is answered or dropped by its client, whoever holds, abandons
\* or fails under the key's lock.
RequestsEnd == \A c \in Clients : (task[c].pc = "lookup") ~> (task[c].pc = "idle")

\* Once content stops changing, stale pages disappear for good even if nobody
\* purges: hits and refreshes never keep an old version alive.
PagesCatchUp == <>[](\A k \in Keys : Live(k) => store[k].ver = content[k])
=============================================================================

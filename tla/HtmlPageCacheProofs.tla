------------------------ MODULE HtmlPageCacheProofs ------------------------
(***************************************************************************)
(* Singleflight and purges of HtmlPageCache, proved for every set of keys, *)
(* tasks and limits: two tasks never render one key under its lock, a      *)
(* request that renders under the lock is filling a gap, a purge that      *)
(* meets no render of older content sticks, pages, counters and locks stay *)
(* within their limits, and a full cache evicts what expires first.        *)
(***************************************************************************)
EXTENDS HtmlPageCache, FiniteSetTheorems, SequenceTheorems, TLAPS

\* The types this argument needs; the waiters of a mutex do not matter to it.
TypeInv ==
    /\ store \in [Keys -> StoredPage \cup {None}]
    /\ locks \in [Keys -> LockIds \cup {None}]
    /\ DOMAIN mutex = LockIds
    /\ task \in [Tasks -> TaskState]
    /\ content \in [Keys -> Version]

\* What a task at work refers to.
Locking == {"enter", "wait", "render", "store", "try"}
TaskInv ==
    \A t \in Tasks :
        /\ task[t].pc \notin {"idle", "done"} => task[t].key \in Keys
        /\ task[t].pc \in Locking <=> task[t].lock # None
        /\ task[t].pc = "store" => task[t].page \in Rendered

\* A task that has an Arc has the one the lock map holds for its key, and one
\* that renders under it is its holder.
LockInv ==
    \A t \in Tasks :
        /\ task[t].lock # None => locks[task[t].key] = task[t].lock
        /\ Rendering(t) => mutex[task[t].lock].holder = t

IInv == TypeInv /\ TaskInv /\ LockInv /\ LeaderFillsGap

USE CacheAssumption

LEMMA Exclusive ==
    ASSUME TypeInv, TaskInv, LockInv
    PROVE  OneRenderPerKey
<1> SUFFICES ASSUME NEW s \in Tasks, NEW t \in Tasks,
                    Rendering(s), Rendering(t), task[s].key = task[t].key
             PROVE  s = t
  BY DEF OneRenderPerKey
<1>1. task[s].lock # None /\ task[t].lock # None
  BY DEF TaskInv, Locking, Rendering
<1>2. task[s].lock = task[t].lock
  BY <1>1 DEF LockInv
<1> QED BY <1>2 DEF LockInv

LEMMA InitIInv == Init => IInv
<1> SUFFICES ASSUME Init PROVE IInv OBVIOUS
<1>1. IdleTask \in TaskState
  BY DEF IdleTask, TaskState, Pc
<1>2. TypeInv
  BY <1>1 DEF Init, TypeInv, Version
<1>3. TaskInv
  BY DEF Init, TaskInv, IdleTask, Locking
<1>4. LockInv
  BY DEF Init, LockInv, IdleTask, Rendering
<1>5. LeaderFillsGap
  BY DEF Init, LeaderFillsGap, IdleTask, Rendering, Tasks
<1> QED BY <1>2, <1>3, <1>4, <1>5 DEF IInv

LEMMA ArriveStep ==
    ASSUME IInv, NEW c \in Clients, NEW k \in Keys, Arrive(c, k)
    PROVE  IInv'
<1> USE DEF Arrive, IInv, site
<1>0. c \in Tasks BY DEF Tasks
<1>1. TypeInv'
  BY <1>0 DEF TypeInv, TaskState, Pc
<1>2. TaskInv'
  BY <1>0 DEF TypeInv, TaskInv, TaskState, Locking
<1>3. LockInv'
  BY <1>0 DEF TypeInv, TaskInv, TaskState, LockInv, Rendering, Locking
<1>4. LeaderFillsGap'
  BY <1>0 DEF TypeInv, TaskState, LeaderFillsGap, Rendering, Live, Tasks
<1> QED BY <1>1, <1>2, <1>3, <1>4

Hows == {"HIT", "MISS", "COLD", "BYPASS", "UNCACHEABLE", "PLAIN", "ERROR"}

LEMMA IdleTaskType == IdleTask \in TaskState /\ IdleTask.pc = "idle" /\ IdleTask.lock = None
BY DEF IdleTask, TaskState, Pc

LEMMA DoneType ==
    ASSUME NEW how \in Hows, NEW body \in Version \cup {None}, NEW made \in Version \cup {None}
    PROVE  /\ Done(how, body, made) \in TaskState
           /\ Done(how, body, made).pc = "done" /\ Done(how, body, made).lock = None
BY DEF Done, Hows, IdleTask, TaskState, Pc, Answer

LEMMA ReplyDone ==
    ASSUME TypeInv, NEW t \in Tasks, NEW how \in Hows, NEW body \in Version \cup {None},
           Reply(t, how, body)
    PROVE  \E d \in TaskState : /\ d.pc = "done" /\ d.lock = None
                                /\ task' = [task EXCEPT ![t] = d]
<1>1. task[t] \in TaskState
  BY DEF TypeInv
<1>2. (IF task[t].page = None THEN None ELSE task[t].page.ver) \in Version \cup {None}
  BY <1>1 DEF TaskState, Rendered
<1> DEFINE d == Done(how, body, IF task[t].page = None THEN None ELSE task[t].page.ver)
<1>3. d \in TaskState /\ d.pc = "done" /\ d.lock = None
  BY <1>2, DoneType
<1>4. task' = [task EXCEPT ![t] = d]
  BY DEF Reply
<1> QED BY <1>3, <1>4

\* A task that ends, at rest or with an answer, disturbs nothing that does not
\* depend on the store.
LEMMA TaskEnds ==
    ASSUME IInv, NEW t \in Tasks, NEW d \in TaskState,
           d.pc \in {"idle", "done"}, d.lock = None,
           task' = [task EXCEPT ![t] = d], mutex' \in {mutex, Dropped(t)}, locks' = locks
    PROVE  /\ task' \in [Tasks -> TaskState] /\ DOMAIN mutex' = LockIds
           /\ TaskInv' /\ LockInv'
<1> USE DEF IInv, TypeInv
<1>1. task' \in [Tasks -> TaskState]
  OBVIOUS
<1>2. DOMAIN mutex' = LockIds
  BY DEF Dropped
<1>3. TaskInv'
  BY DEF TaskInv, TaskState, Locking
<1>4. ASSUME NEW l \in LockIds, NEW u \in Tasks \ {t}, mutex[l].holder = u
      PROVE  mutex'[l].holder = u
  <2>1. CASE mutex' = mutex
    BY <1>4, <2>1
  <2>2. CASE mutex' = Dropped(t)
    <3> DEFINE q == Without(mutex[l].queue, t)
    <3>1. mutex'[l] = [holder |-> mutex[l].holder, queue |-> q]
      BY <1>4, <2>2 DEF Dropped
    <3> HIDE DEF q
    <3> QED BY <1>4, <3>1
  <2> QED BY <2>1, <2>2
<1>5. \A u \in Tasks : task[u].lock # None => task[u].lock \in LockIds
  BY DEF TaskState
<1>6. ASSUME NEW u \in Tasks \ {t}, Rendering(u)
      PROVE  mutex'[task[u].lock].holder = u
  BY <1>4, <1>5, <1>6 DEF LockInv, TaskInv, Locking, Rendering
<1>7. LockInv'
  BY <1>6 DEF LockInv, Rendering
<1> QED BY <1>1, <1>2, <1>3, <1>7

LEMMA LookupHitStep ==
    ASSUME IInv, NEW c \in Clients, LookupHit(c)
    PROVE  IInv'
<1> USE DEF IInv, site
<1>0. c \in Tasks BY DEF Tasks
<1> DEFINE k == task[c].key
           a == Done("HIT", store[k].ver, None)
           answered == [task EXCEPT ![c] = a]
           sp == [IdleTask EXCEPT !.pc = "spawned", !.key = k]
<1>1. k \in Keys /\ store[k] \in StoredPage
  BY <1>0 DEF LookupHit, TaskInv, TypeInv, Live
<1>2. a \in TaskState /\ a.pc = "done" /\ a.lock = None
  BY <1>1, DoneType DEF StoredPage, Hows
<1>3. sp \in TaskState /\ sp.pc = "spawned" /\ sp.lock = None /\ sp.key = k
  BY <1>1 DEF IdleTask, TaskState, Pc
<1>4. /\ UNCHANGED <<store, locks, mutex, content>>
      /\ \/ task' = answered
         \/ \E r \in Tasks \ {c} : task[r].pc = "idle" /\ task' = [answered EXCEPT ![r] = sp]
  BY DEF LookupHit, Tasks
<1> HIDE DEF a, sp, k
<1>5. task' \in [Tasks -> TaskState]
  BY <1>0, <1>2, <1>3, <1>4 DEF TypeInv
<1>6. \A t \in Tasks : task'[t] = task[t] \/ task'[t] = a \/ task'[t] = sp
  BY <1>0, <1>2, <1>3, <1>4 DEF TypeInv
<1>7. TypeInv'
  BY <1>4, <1>5 DEF TypeInv
<1>8. TaskInv'
  BY <1>1, <1>2, <1>3, <1>6 DEF TaskInv, Locking
<1>9. LockInv'
  BY <1>2, <1>3, <1>4, <1>6 DEF LockInv, Rendering
<1>10. LeaderFillsGap'
  BY <1>2, <1>3, <1>4, <1>6 DEF LeaderFillsGap, Rendering, Live, Tasks
<1> QED BY <1>7, <1>8, <1>9, <1>10

LEMMA LookupMissStep ==
    ASSUME IInv, NEW c \in Clients, LookupMiss(c)
    PROVE  IInv'
<1> USE DEF IInv, site, LookupMiss
<1>0. c \in Tasks /\ task[c].key \in Keys BY DEF Tasks, TaskInv
<1>1. TypeInv'
  <2>1. store' \in [Keys -> StoredPage \cup {None}]
    BY <1>0 DEF TypeInv, AfterGet
  <2>2. task' \in [Tasks -> TaskState]
    BY <1>0 DEF TypeInv, TaskState, Pc
  <2> QED BY <2>1, <2>2 DEF TypeInv
<1>2. TaskInv'
  BY <1>0 DEF TypeInv, TaskInv, TaskState, Locking
<1>3. LockInv'
  BY <1>0 DEF TypeInv, TaskInv, TaskState, LockInv, Rendering, Locking
<1>4. \A t \in Tasks : task'[t].key = task[t].key /\ (Rendering(t)' => Rendering(t))
  BY <1>0 DEF TypeInv, TaskState, Rendering
<1>5. \A k \in Keys : store'[k] = store[k] \/ store'[k] = None
  BY <1>0 DEF TypeInv, AfterGet
<1>6. LeaderFillsGap'
  BY <1>4, <1>5 DEF LeaderFillsGap, Live, Tasks, TaskInv, Rendering
<1> QED BY <1>1, <1>2, <1>3, <1>6

LEMMA RenderUncachedStep ==
    ASSUME IInv, NEW c \in Clients, RenderUncached(c)
    PROVE  IInv'
<1> USE DEF IInv, site
<1>0. c \in Tasks /\ task[c].key \in Keys BY DEF Tasks, TaskInv, RenderUncached
<1>1. content[task[c].key] \in Version
  BY <1>0 DEF TypeInv
<1>2. \E how \in Hows, body \in Version \cup {None} : Reply(c, how, body)
  BY <1>1 DEF RenderUncached, Hows
<1>3. PICK d \in TaskState : d.pc = "done" /\ d.lock = None /\ task' = [task EXCEPT ![c] = d]
  BY <1>0, <1>2, ReplyDone
<1>4. UNCHANGED <<store, locks, mutex, content>>
  BY DEF RenderUncached
<1>5. TaskInv' /\ LockInv' /\ task' \in [Tasks -> TaskState]
  BY <1>0, <1>3, <1>4, TaskEnds
<1>6. TypeInv'
  BY <1>4, <1>5 DEF TypeInv
<1>7. LeaderFillsGap'
  BY <1>0, <1>3, <1>4 DEF TypeInv, LeaderFillsGap, Rendering, Live, Tasks
<1> QED BY <1>5, <1>6, <1>7

LEMMA RenderLockStep ==
    ASSUME IInv, NEW t \in Tasks, NEW next \in {"enter", "try"},
           task[t].pc \in {"getlock", "spawned"}, RenderLock(t, next),
           UNCHANGED <<store, mutex, content>>
    PROVE  IInv'
<1> USE DEF IInv
<1> DEFINE k == task[t].key
           l == IF Swept[k] # None THEN Swept[k] ELSE CHOOSE x \in FreshIds : TRUE
<1>0. k \in Keys /\ task[t].lock = None
  BY DEF TaskInv, Locking
<1>1. Swept \in [Keys -> LockIds \cup {None}]
  BY DEF Swept, TypeInv
<1>2. \A j \in Keys, s \in Tasks :
          (task[s].lock # None /\ locks[j] = task[s].lock) => Swept[j] = locks[j]
  BY DEF Swept, TypeInv, Arcs
<1>3. l \in LockIds
  BY <1>0, <1>1 DEF RenderLock, FreshIds
<1>4. /\ locks' = [Swept EXCEPT ![k] = l]
      /\ task' = [task EXCEPT ![t].pc = next, ![t].lock = l]
  BY DEF RenderLock
<1>5. l # None /\ (Swept[k] # None => l = Swept[k])
  BY <1>3
<1> HIDE DEF k, l
<1>6. TypeInv'
  BY <1>0, <1>1, <1>3, <1>4 DEF TypeInv, TaskState, Pc
<1>7. \A s \in Tasks \ {t} : task'[s] = task[s]
  BY <1>4 DEF TypeInv
<1>8. task'[t].pc = next /\ task'[t].lock = l /\ task'[t].key = task[t].key
  BY <1>4 DEF TypeInv, TaskState
<1>9. TaskInv'
  BY <1>0, <1>5, <1>7, <1>8 DEF TaskInv, Locking, k
<1>10. ASSUME NEW s \in Tasks \ {t}, task[s].lock # None
       PROVE  locks'[task[s].key] = task[s].lock
  <2>1. task[s].key \in Keys /\ locks[task[s].key] = task[s].lock
    BY <1>10 DEF TaskInv, LockInv, Locking
  <2>2. Swept[task[s].key] = task[s].lock
    BY <1>2, <1>10, <2>1
  <2> QED BY <1>0, <1>1, <1>4, <1>5, <1>10, <2>1, <2>2
<1>11. locks'[k] = l
  BY <1>0, <1>1, <1>4
<1>12. LockInv'
  BY <1>7, <1>8, <1>10, <1>11 DEF LockInv, Rendering, k
<1>13. LeaderFillsGap'
  BY <1>7, <1>8 DEF LeaderFillsGap, Rendering, Live, Tasks
<1> QED BY <1>6, <1>9, <1>12, <1>13

LEMMA EnterLockStep ==
    ASSUME IInv, NEW c \in Clients, EnterLock(c)
    PROVE  IInv'
<1> USE DEF IInv
<1>0. /\ c \in Tasks /\ task[c].lock \in LockIds
      /\ task' = [task EXCEPT ![c].pc = "wait"]
      /\ UNCHANGED <<store, locks, content>>
  BY DEF Tasks, TaskInv, Locking, TypeInv, TaskState, EnterLock, site
<1>1. /\ DOMAIN mutex' = LockIds
      /\ \A l \in LockIds, u \in Tasks : mutex[l].holder = u => mutex'[l].holder = u
  BY <1>0 DEF TypeInv, EnterLock
<1>2. TypeInv'
  BY <1>0, <1>1 DEF TypeInv, TaskState, Pc
<1>3. TaskInv'
  BY <1>0 DEF TypeInv, TaskInv, TaskState, Locking, EnterLock
<1>4. \A t \in Tasks : /\ task'[t].key = task[t].key /\ task'[t].lock = task[t].lock
                       /\ Rendering(t)' => Rendering(t)
  BY <1>0 DEF TypeInv, TaskState, Rendering
<1>5. \A u \in Tasks : task[u].lock # None => task[u].lock \in LockIds
  BY DEF TypeInv, TaskState
<1>6. LockInv'
  BY <1>0, <1>1, <1>4, <1>5 DEF LockInv, TaskInv, Locking, Rendering
<1>7. LeaderFillsGap'
  BY <1>0, <1>4 DEF LeaderFillsGap, Live, Tasks
<1> QED BY <1>2, <1>3, <1>6, <1>7

\* A step that removes pages but adds none leaves every gap a gap.
LEMMA GapStays ==
    ASSUME LeaderFillsGap,
           \A c \in Clients : /\ Rendering(c)' => Rendering(c)
                              /\ Rendering(c)' => task'[c].key = task[c].key,
           \A c \in Clients : Rendering(c) =>
               (store'[task[c].key] = store[task[c].key] \/ store'[task[c].key] = None)
    PROVE  LeaderFillsGap'
BY DEF LeaderFillsGap, Live

\* A rendered page is stored by the only task that renders its key.
LEMMA StoreInGap ==
    ASSUME IInv, NEW t \in Tasks, task[t].pc = "store",
           NEW d \in TaskState, d.pc \in {"idle", "done"}, task' = [task EXCEPT ![t] = d],
           SetPage(task[t].key, task[t].page.ver)
    PROVE  LeaderFillsGap'
<1> USE DEF IInv
<1>1. \A c \in Clients : Rendering(c)' => (Rendering(c) /\ c # t /\ task'[c] = task[c])
  BY DEF TypeInv, Rendering, Tasks
<1>2. \A j \in Keys \ {task[t].key} :
          store'[j] = None \/ (store'[j] = store[j] /\ Live(j))
  BY DEF SetPage
<1>3. ASSUME NEW c \in Clients, Rendering(c)'
      PROVE  ~Live(task[c].key)'
  <2>1. Rendering(c) /\ c # t /\ task'[c] = task[c] /\ Rendering(t)
    BY <1>1, <1>3 DEF Rendering
  <2>2. task[c].key # task[t].key
    BY <2>1, Exclusive DEF OneRenderPerKey, Tasks
  <2>3. task[c].key \in Keys /\ ~Live(task[c].key)
    BY <2>1 DEF TaskInv, LeaderFillsGap, Rendering, Tasks
  <2>4. store'[task[c].key] = None
    BY <1>2, <2>2, <2>3
  <2> QED BY <2>1, <2>4 DEF Live
<1> QED BY <1>3 DEF LeaderFillsGap, Rendering, Live

LEMMA SetPageType ==
    ASSUME TypeInv, NEW k \in Keys, NEW v \in Version, SetPage(k, v)
    PROVE  store' \in [Keys -> StoredPage \cup {None}]
<1>1. PICK ttl \in Ttls, V \in Victims(k) :
        store' = [j \in Keys |->
                    IF j = k THEN [ver |-> v, age |-> 0, ttl |-> ttl]
                    ELSE IF Live(j) /\ j \notin V THEN store[j] ELSE None]
  BY DEF SetPage
<1>2. [ver |-> v, age |-> 0, ttl |-> ttl] \in StoredPage
  BY DEF StoredPage
<1> QED BY <1>1, <1>2 DEF TypeInv

LEMMA RecheckStep ==
    ASSUME IInv, NEW c \in Clients, Recheck(c)
    PROVE  IInv'
<1> USE DEF IInv
<1> DEFINE k == task[c].key
<1>0. /\ c \in Tasks /\ k \in Keys /\ task[c].lock \in LockIds
      /\ mutex[task[c].lock].holder = c /\ task[c].pc = "wait"
      /\ UNCHANGED <<locks, content>>
  BY DEF Tasks, TaskInv, Locking, TypeInv, TaskState, Recheck, site
<1>1. CASE Live(k)
  <2>1. store[k].ver \in Version
    BY <1>0, <1>1 DEF TypeInv, Live, StoredPage
  <2>2. Reply(c, "HIT", store[k].ver) /\ mutex' = Dropped(c) /\ store' = store
    BY <1>1 DEF Recheck
  <2>3. PICK d \in TaskState : d.pc = "done" /\ d.lock = None /\ task' = [task EXCEPT ![c] = d]
    BY <1>0, <2>1, <2>2, ReplyDone DEF Hows
  <2>4. TaskInv' /\ LockInv' /\ task' \in [Tasks -> TaskState] /\ DOMAIN mutex' = LockIds
    BY <1>0, <2>2, <2>3, TaskEnds
  <2>5. TypeInv'
    BY <1>0, <2>2, <2>4 DEF TypeInv
  <2>6. LeaderFillsGap'
    BY <1>0, <2>2, <2>3, GapStays DEF TypeInv, Rendering, Tasks
  <2> QED BY <2>4, <2>5, <2>6
<1>2. CASE ~Live(k)
  <2>1. store' = AfterGet(k) /\ task' = [task EXCEPT ![c].pc = "render"] /\ mutex' = mutex
    BY <1>2 DEF Recheck
  <2>2. store' \in [Keys -> StoredPage \cup {None}]
    BY <1>0, <2>1 DEF TypeInv, AfterGet
  <2>3. task' \in [Tasks -> TaskState]
    BY <1>0, <2>1 DEF TypeInv, TaskState, Pc
  <2>4. TypeInv'
    BY <1>0, <2>1, <2>2, <2>3 DEF TypeInv
  <2>5. TaskInv'
    BY <1>0, <2>1 DEF TypeInv, TaskInv, TaskState, Locking
  <2>6. LockInv'
    BY <1>0, <2>1 DEF TypeInv, TaskState, LockInv, Rendering
  <2>7. \A j \in Keys : store'[j] = store[j] \/ store'[j] = None
    BY <1>0, <2>1 DEF TypeInv, AfterGet
  <2>8. store'[k] = None
    BY <1>0, <1>2, <2>1 DEF TypeInv, AfterGet
  <2>9. \A u \in Clients : task'[u].key = task[u].key /\ (u # c => task'[u] = task[u])
    BY <1>0, <2>1 DEF TypeInv, TaskState, Tasks
  <2>10. ASSUME NEW u \in Clients, Rendering(u)'
         PROVE  ~Live(task[u].key)'
    <3>1. CASE u = c
      BY <2>8, <2>9, <3>1 DEF Live
    <3>2. CASE u # c
      BY <2>7, <2>9, <2>10, <3>2 DEF Live, Rendering, LeaderFillsGap, TaskInv, Tasks
    <3> QED BY <3>1, <3>2
  <2>11. LeaderFillsGap'
    BY <2>10 DEF LeaderFillsGap, Rendering, Live
  <2> QED BY <2>4, <2>5, <2>6, <2>11
<1> QED BY <1>1, <1>2

LEMMA RenderStep ==
    ASSUME IInv, NEW t \in Tasks, Render(t)
    PROVE  IInv'
<1> USE DEF IInv
<1>1. PICK p \in Rendered :
          task' = [task EXCEPT ![t].pc = "store", ![t].page = p]
  <2>1. RenderedVer(t) \in Version
    BY DEF Render, TaskInv, TypeInv, RenderedVer
  <2> QED BY <2>1 DEF Render, Rendered
<1>2. task[t].pc = "render" /\ UNCHANGED <<store, locks, mutex, content>>
  BY DEF Render, site
<1>3. TypeInv'
  <2>1. ASSUME NEW u \in Tasks PROVE task'[u] \in TaskState
    <3>1. task[u] \in TaskState /\ "store" \in Pc
      BY DEF TypeInv, Pc
    <3>2. [task[u] EXCEPT !.pc = "store", !.page = p] \in TaskState
      BY <3>1 DEF TaskState
    <3> QED BY <1>1, <3>1, <3>2 DEF TypeInv
  <2>2. task' = [u \in Tasks |-> task'[u]]
    BY <1>1 DEF TypeInv
  <2> QED BY <1>2, <2>1, <2>2 DEF TypeInv
<1>4. \A u \in Tasks : /\ task'[u].key = task[u].key /\ task'[u].lock = task[u].lock
                       /\ Rendering(u)' <=> Rendering(u)
  BY <1>1, <1>2 DEF TypeInv, TaskState, Rendering
<1>5. TaskInv'
  BY <1>1, <1>2 DEF TypeInv, TaskInv, TaskState, Locking
<1>6. LockInv'
  BY <1>2, <1>4 DEF LockInv
<1>7. LeaderFillsGap'
  BY <1>2, <1>4 DEF LeaderFillsGap, Live, Tasks
<1> QED BY <1>3, <1>5, <1>6, <1>7

LEMMA DeliverStep ==
    ASSUME IInv, NEW c \in Clients, Deliver(c)
    PROVE  IInv'
<1> USE DEF IInv
<1> DEFINE p == task[c].page
<1>0. /\ c \in Tasks /\ task[c].key \in Keys /\ p.ver \in Version /\ task[c].pc = "store"
      /\ mutex' = Dropped(c) /\ UNCHANGED <<locks, content>>
  BY DEF Tasks, TaskInv, Rendered, Deliver, site
<1>1. \E how \in Hows, body \in Version \cup {None} : Reply(c, how, body)
  BY <1>0 DEF Deliver, Hows
<1>2. PICK d \in TaskState : d.pc = "done" /\ d.lock = None /\ task' = [task EXCEPT ![c] = d]
  BY <1>0, <1>1, ReplyDone
<1>3. SetPage(task[c].key, p.ver) \/ store' = store
  BY DEF Deliver
<1>4. TaskInv' /\ LockInv' /\ task' \in [Tasks -> TaskState] /\ DOMAIN mutex' = LockIds
  BY <1>0, <1>2, TaskEnds
<1>5. TypeInv'
  BY <1>0, <1>3, <1>4, SetPageType DEF TypeInv
<1>6. LeaderFillsGap'
  <2>1. CASE SetPage(task[c].key, p.ver)
    BY <1>0, <1>2, <2>1, StoreInGap
  <2>2. CASE store' = store
    BY <1>0, <1>2, <2>2, GapStays DEF TypeInv, Rendering, Tasks
  <2> QED BY <1>3, <2>1, <2>2
<1> QED BY <1>4, <1>5, <1>6

LEMMA RefreshStoreStep ==
    ASSUME IInv, NEW r \in Refreshers, RefreshStore(r)
    PROVE  IInv'
<1> USE DEF IInv
<1> DEFINE p == task[r].page
<1>0. /\ r \in Tasks /\ task[r].key \in Keys /\ p.ver \in Version /\ task[r].pc = "store"
      /\ mutex' = Dropped(r) /\ UNCHANGED <<locks, content>>
      /\ task' = [task EXCEPT ![r] = IdleTask]
  BY DEF Tasks, TaskInv, Rendered, RefreshStore, Finish, site
<1>3. SetPage(task[r].key, p.ver) \/ store' = store
  BY DEF RefreshStore
<1>4. TaskInv' /\ LockInv' /\ task' \in [Tasks -> TaskState] /\ DOMAIN mutex' = LockIds
  BY <1>0, IdleTaskType, TaskEnds
<1>5. TypeInv'
  BY <1>0, <1>3, <1>4, SetPageType DEF TypeInv
<1>6. LeaderFillsGap'
  <2>1. CASE SetPage(task[r].key, p.ver)
    BY <1>0, <2>1, StoreInGap, IdleTaskType
  <2>2. CASE store' = store
    BY <1>0, <2>2, GapStays, IdleTaskType DEF TypeInv, Rendering, Tasks
  <2> QED BY <1>3, <2>1, <2>2
<1> QED BY <1>4, <1>5, <1>6

\* Receive, Abandon and a refresh that finds the lock taken.
LEMMA FinishStep ==
    ASSUME IInv, NEW t \in Tasks, Finish(t), mutex' \in {mutex, Dropped(t)},
           UNCHANGED <<store, locks, content>>
    PROVE  IInv'
<1> USE DEF IInv
<1>1. task' = [task EXCEPT ![t] = IdleTask]
  BY DEF Finish
<1>2. TaskInv' /\ LockInv' /\ task' \in [Tasks -> TaskState] /\ DOMAIN mutex' = LockIds
  BY <1>1, IdleTaskType, TaskEnds
<1>3. TypeInv'
  BY <1>2 DEF TypeInv
<1>4. LeaderFillsGap'
  BY <1>1, GapStays, IdleTaskType DEF TypeInv, Rendering, Tasks
<1> QED BY <1>2, <1>3, <1>4

LEMMA RefreshTryStep ==
    ASSUME IInv, NEW r \in Refreshers, RefreshTry(r)
    PROVE  IInv'
<1> USE DEF IInv
<1> DEFINE l == task[r].lock
<1>0. /\ r \in Tasks /\ r \notin Clients /\ l \in LockIds /\ task[r].pc = "try"
      /\ UNCHANGED <<store, locks, content>>
  BY DEF Tasks, TaskInv, Locking, TypeInv, TaskState, RefreshTry, site
<1>1. CASE mutex[l].holder = None
  <2>1. /\ mutex' = [mutex EXCEPT ![l] = [holder |-> r, queue |-> <<>>]]
        /\ task' = [task EXCEPT ![r].pc = "render"]
    BY <1>1 DEF RefreshTry
  <2>2. \A u \in Tasks, x \in LockIds : mutex[x].holder = u => mutex'[x].holder = u
    BY <1>0, <1>1, <2>1 DEF TypeInv
  <2>3. mutex'[l].holder = r /\ DOMAIN mutex' = LockIds
    BY <1>0, <2>1 DEF TypeInv
  <2>4. TypeInv'
    BY <1>0, <2>1, <2>3 DEF TypeInv, TaskState, Pc
  <2>5. TaskInv'
    BY <1>0, <2>1 DEF TypeInv, TaskInv, TaskState, Locking
  <2>6. \A u \in Tasks : /\ task'[u].key = task[u].key /\ task'[u].lock = task[u].lock
                         /\ u # r => (Rendering(u)' <=> Rendering(u))
    BY <1>0, <2>1 DEF TypeInv, TaskState, Rendering
  <2>7. \A u \in Tasks : task[u].lock # None => task[u].lock \in LockIds
    BY DEF TypeInv, TaskState
  <2>8. LockInv'
    BY <1>0, <2>2, <2>3, <2>6, <2>7 DEF LockInv, TaskInv, Locking, Rendering
  <2>9. LeaderFillsGap'
    BY <1>0, <2>6, GapStays, Zenon DEF Tasks
  <2> QED BY <2>4, <2>5, <2>8, <2>9
<1>2. CASE mutex[l].holder # None
  BY <1>0, <1>2, FinishStep DEF RefreshTry
<1> QED BY <1>1, <1>2

\* Update, the purges and Tick: no task moves.
LEMMA SiteStep ==
    ASSUME IInv, (\E k \in Keys : Update(k) \/ Purge(k)) \/ PurgeAllStore
                    \/ PurgeAllCounts \/ Tick
    PROVE  IInv'
<1> USE DEF IInv
<1>1. UNCHANGED <<task, locks, mutex>>
  BY DEF Update, Purge, PurgeAllStore, PurgeAllCounts, Tick, site
<1>2. content' \in [Keys -> Version]
  <2>1. CASE \E k \in Keys : Update(k)
    <3>1. PICK k \in Keys : Update(k)
      BY <2>1
    <3>2. content[k] \in 0 .. MaxUpdates /\ MaxUpdates \in Nat /\ content[k] < MaxUpdates
      BY <3>1 DEF Update, TypeInv, Version
    <3>3. content[k] + 1 \in Version
      BY <3>2 DEF Version
    <3> QED BY <3>1, <3>3 DEF Update, TypeInv
  <2>2. CASE ~\E k \in Keys : Update(k)
    BY <2>2 DEF Purge, PurgeAllStore, PurgeAllCounts, Tick, site, TypeInv
  <2> QED BY <2>1, <2>2
<1>3. \A k \in Keys : store'[k] = store[k] \/ store'[k] = None \/ Live(k)
  BY DEF Update, Purge, PurgeAllStore, PurgeAllCounts, Tick, site, TypeInv
<1>4. store' \in [Keys -> StoredPage \cup {None}]
  <2>1. CASE Tick
    BY <2>1 DEF Tick, TypeInv, StoredPage, Live
  <2>2. CASE ~Tick
    BY <2>2 DEF Update, Purge, PurgeAllStore, PurgeAllCounts, site, TypeInv
  <2> QED BY <2>1, <2>2
<1>5. TypeInv'
  BY <1>1, <1>2, <1>4 DEF TypeInv
<1>6. TaskInv' /\ LockInv'
  BY <1>1 DEF TaskInv, LockInv, Rendering
<1>7. \A c \in Clients : Rendering(c) => (task[c].key \in Keys /\ ~Live(task[c].key))
  BY DEF LeaderFillsGap, TaskInv, Rendering, Tasks
<1>8. LeaderFillsGap'
  BY <1>1, <1>3, <1>7, GapStays DEF Rendering
<1> QED BY <1>5, <1>6, <1>8

LEMMA NextIInv == IInv /\ [Next]_vars => IInv'
<1> SUFFICES ASSUME IInv, [Next]_vars PROVE IInv'
  OBVIOUS
<1>1. ASSUME NEW c \in Clients, RequestStep(c) PROVE IInv'
  <2>1. CASE LookupHit(c) BY <2>1, LookupHitStep
  <2>2. CASE LookupMiss(c) BY <2>2, LookupMissStep
  <2>3. CASE RenderUncached(c) BY <2>3, RenderUncachedStep
  <2>4. CASE GetLock(c) BY <2>4, RenderLockStep DEF GetLock, site, Tasks
  <2>5. CASE EnterLock(c) BY <2>5, EnterLockStep
  <2>6. CASE Recheck(c) BY <2>6, RecheckStep
  <2>7. CASE Render(c) BY <2>7, RenderStep DEF Tasks
  <2>8. CASE Deliver(c) BY <2>8, DeliverStep
  <2>9. CASE Receive(c) BY <2>9, FinishStep DEF Receive, site, Tasks
  <2> QED BY <1>1, <2>1, <2>2, <2>3, <2>4, <2>5, <2>6, <2>7, <2>8, <2>9 DEF RequestStep
<1>2. ASSUME NEW c \in Clients, Abandon(c) PROVE IInv'
  BY <1>2, FinishStep DEF Abandon, site, Tasks
<1>3. ASSUME NEW c \in Clients, NEW k \in Keys, Arrive(c, k) PROVE IInv'
  BY <1>3, ArriveStep
<1>4. ASSUME NEW r \in Refreshers, RefreshStep(r) PROVE IInv'
  <2>1. CASE RefreshLock(r) BY <2>1, RenderLockStep DEF RefreshLock, site, Tasks
  <2>2. CASE RefreshTry(r) BY <2>2, RefreshTryStep
  <2>3. CASE Render(r) BY <2>3, RenderStep DEF Tasks
  <2>4. CASE RefreshStore(r) BY <2>4, RefreshStoreStep
  <2> QED BY <1>4, <2>1, <2>2, <2>3, <2>4 DEF RefreshStep
<1>5. CASE UNCHANGED vars
  BY <1>5 DEF vars, IInv, TypeInv, TaskInv, LockInv, LeaderFillsGap, Rendering, Live
<1> QED BY <1>1, <1>2, <1>3, <1>4, <1>5, SiteStep DEF Next

\* Two tasks never render the same key under its lock, whatever the number of
\* keys, tasks, entries and locks and however often the lock map is swept
\* (html_cache.rs:37 and :232).
THEOREM Singleflight == Spec => []OneRenderPerKey
<1>1. IInv => OneRenderPerKey
  BY Exclusive DEF IInv
<1> QED BY <1>1, InitIInv, NextIInv, PTL DEF Spec

\* A request that renders under the lock fills a gap: no live page of its key
\* appears before it stores its own (html_cache.rs:367).
THEOREM LeaderAlone == Spec => []LeaderFillsGap
<1>1. IInv => LeaderFillsGap
  BY DEF IInv
<1> QED BY <1>1, InitIInv, NextIInv, PTL DEF Spec

-----------------------------------------------------------------------------
(* Purges.  What is in the store, or about to be put there, is no older     *)
(* than the last purge of its key, unless that purge met a render of older  *)
(* content.                                                                 *)

BarrierInv ==
    /\ barrier \in [Keys -> Version]
    /\ \A k \in Keys : content[k] >= barrier[k]
PageIsNew(t) == task[t].page.ver >= barrier[task[t].key]
RendersAreNew == \A t \in Tasks : (task[t].pc = "store" /\ clean[task[t].key]) => PageIsNew(t)
PurgeInv == BarrierInv /\ PurgeSticks /\ RendersAreNew

\* What a request or a refresh may do to the store and to the rendered pages.
StoresRendered ==
    \A j \in Keys :
        \/ store'[j] = None \/ store'[j] = store[j]
        \/ \E t \in Tasks : /\ task[t].pc = "store" /\ task[t].key = j
                            /\ store'[j].ver = task[t].page.ver
RendersCurrent ==
    \A t \in Tasks : task'[t].pc = "store" =>
        /\ task'[t].key = task[t].key
        /\ \/ task[t].pc = "store" /\ task'[t].page = task[t].page
           \/ task'[t].page.ver = content[task[t].key] /\ task[t].key \in Keys

LEMMA TaskStepPurge ==
    ASSUME IInv, PurgeInv, UNCHANGED site, StoresRendered, RendersCurrent
    PROVE  PurgeInv'
<1> USE DEF IInv, PurgeInv, site
<1>1. BarrierInv'
  BY DEF BarrierInv
<1>2. PurgeSticks'
  BY DEF StoresRendered, PurgeSticks, RendersAreNew, PageIsNew
<1>3. RendersAreNew'
  BY DEF RendersCurrent, RendersAreNew, PageIsNew, BarrierInv
<1> QED BY <1>1, <1>2, <1>3

LEMMA StoreUntouched == store' = store => StoresRendered
BY DEF StoresRendered

\* A task that ends, or goes anywhere but to its store, adds no rendered page.
LEMMA NoNewRender ==
    ASSUME TypeInv, NEW t \in Tasks, NEW d, d.pc # "store", task' = [task EXCEPT ![t] = d]
    PROVE  RendersCurrent
BY DEF TypeInv, RendersCurrent

LEMMA SetPageStores ==
    ASSUME NEW t \in Tasks, task[t].pc = "store", SetPage(task[t].key, task[t].page.ver)
    PROVE  StoresRendered
BY DEF SetPage, StoresRendered

LEMMA ReplyEnds ==
    ASSUME TypeInv, NEW t \in Tasks, NEW how \in Hows, NEW body \in Version \cup {None},
           Reply(t, how, body)
    PROVE  RendersCurrent
BY ReplyDone, NoNewRender

LEMMA FinishEnds ==
    ASSUME TypeInv, NEW t \in Tasks, Finish(t)
    PROVE  RendersCurrent
BY IdleTaskType, NoNewRender DEF Finish

LEMMA RenderPurge ==
    ASSUME IInv, PurgeInv, NEW t \in Tasks, Render(t)
    PROVE  PurgeInv'
<1>1. PICK o \in Outcome :
        task' = [task EXCEPT ![t].pc = "store",
                             ![t].page = [ver |-> content[task[t].key], kind |-> o]]
  BY DEF Render, RenderedVer
<1>2. task[t] \in TaskState /\ task[t].key \in Keys /\ DOMAIN task = Tasks
  BY DEF Render, IInv, TypeInv, TaskInv
<1>3. /\ task'[t].key = task[t].key
      /\ task'[t].page.ver = content[task[t].key]
      /\ \A u \in Tasks \ {t} : task'[u] = task[u]
  BY <1>1, <1>2 DEF TaskState
<1>4. RendersCurrent
  BY <1>2, <1>3 DEF RendersCurrent
<1> QED BY <1>4, StoreUntouched, TaskStepPurge DEF Render

LEMMA RequestStepPurge ==
    ASSUME IInv, PurgeInv, NEW c \in Clients,
           RequestStep(c) \/ Abandon(c) \/ \E k \in Keys : Arrive(c, k)
    PROVE  PurgeInv'
<1> USE DEF IInv
<1>0. c \in Tasks /\ task[c] \in TaskState /\ content \in [Keys -> Version]
  BY DEF Tasks, TypeInv
<1>1. ASSUME NEW k \in Keys, Arrive(c, k) PROVE PurgeInv'
  <2>1. PICK d : d.pc # "store" /\ task' = [task EXCEPT ![c] = d]
    <3>1. CASE task' = [task EXCEPT ![c].pc = "bypass", ![c].key = k]
      <4>1. [task[c] EXCEPT !.pc = "bypass", !.key = k].pc # "store"
        BY <1>0 DEF TaskState
      <4> QED BY <3>1, <4>1
    <3>2. ASSUME NEW admit, task' = [task EXCEPT ![c].pc = "lookup", ![c].key = k, ![c].admit = admit]
          PROVE  \E d : d.pc # "store" /\ task' = [task EXCEPT ![c] = d]
      <4>1. [task[c] EXCEPT !.pc = "lookup", !.key = k, !.admit = admit].pc # "store"
        BY <1>0 DEF TaskState
      <4> QED BY <3>2, <4>1
    <3> QED BY <1>1, <3>1, <3>2 DEF Arrive
  <2>2. RendersCurrent
    BY <1>0, <2>1, NoNewRender
  <2> QED BY <1>1, <2>2, StoreUntouched, TaskStepPurge DEF Arrive
<1>2. CASE LookupHit(c)
  <2>1. /\ task[c].key \in Keys /\ store[task[c].key] \in StoredPage
    BY <1>0, <1>2 DEF LookupHit, Live, TaskInv, TypeInv
  <2>2. Done("HIT", store[task[c].key].ver, None).pc = "done"
    BY DEF Done, IdleTask
  <2>3. RendersCurrent
    <3> DEFINE answered == [task EXCEPT ![c] = Done("HIT", store[task[c].key].ver, None)]
    <3>1. CASE task' = answered
      BY <1>0, <2>2, <3>1, NoNewRender
    <3>2. CASE task' # answered
      <4>1. PICK r \in Refreshers :
              task' = [answered EXCEPT ![r] = [IdleTask EXCEPT !.pc = "spawned",
                                                               !.key = task[c].key]]
        BY <1>2, <3>2 DEF LookupHit
      <4>2. r \in Tasks /\ [IdleTask EXCEPT !.pc = "spawned", !.key = task[c].key].pc = "spawned"
        BY DEF Tasks, IdleTask
      <4>3. \A t \in Tasks : task'[t].pc = "store" => task'[t] = task[t]
        BY <1>0, <2>2, <4>1, <4>2 DEF TypeInv
      <4> QED BY <4>3 DEF RendersCurrent
    <3> QED BY <3>1, <3>2
  <2> QED BY <1>2, <2>3, StoreUntouched, TaskStepPurge DEF LookupHit
<1>3. CASE LookupMiss(c)
  <2>1. StoresRendered
    BY <1>0, <1>3 DEF LookupMiss, AfterGet, StoresRendered, TypeInv
  <2>2. RendersCurrent
    BY <1>0, <1>3 DEF LookupMiss, RendersCurrent, TypeInv, TaskState
  <2> QED BY <1>3, <2>1, <2>2, TaskStepPurge DEF LookupMiss
<1>4. CASE RenderUncached(c)
  <2>1. task[c].key \in Keys
    BY <1>0, <1>4 DEF RenderUncached, TaskInv
  <2>2. content[task[c].key] \in Version
    BY <1>0, <2>1
  <2>3. RendersCurrent
    BY <1>0, <1>4, <2>2, ReplyEnds DEF RenderUncached, Hows
  <2> QED BY <1>4, <2>3, StoreUntouched, TaskStepPurge DEF RenderUncached
<1>5. CASE GetLock(c) \/ EnterLock(c)
  <2>1. RendersCurrent
    BY <1>0, <1>5 DEF GetLock, RenderLock, EnterLock, RendersCurrent, TypeInv, TaskState
  <2> QED BY <1>5, <2>1, StoreUntouched, TaskStepPurge DEF GetLock, EnterLock
<1>6. CASE Recheck(c)
  <2>1. task[c].key \in Keys
    BY <1>0, <1>6 DEF Recheck, TaskInv
  <2>2. CASE Live(task[c].key)
    <3>1. store[task[c].key].ver \in Version
      BY <2>1, <2>2 DEF Live, TypeInv, StoredPage
    <3>2. RendersCurrent /\ store' = store
      BY <1>0, <1>6, <2>2, <3>1, ReplyEnds DEF Recheck, Hows
    <3> QED BY <1>6, <3>2, StoreUntouched, TaskStepPurge DEF Recheck
  <2>3. CASE ~Live(task[c].key)
    <3>1. StoresRendered
      BY <1>6, <2>1, <2>3 DEF Recheck, AfterGet, StoresRendered, TypeInv
    <3>2. RendersCurrent
      BY <1>0, <1>6, <2>3 DEF Recheck, RendersCurrent, TypeInv, TaskState
    <3> QED BY <1>6, <3>1, <3>2, TaskStepPurge DEF Recheck
  <2> QED BY <2>2, <2>3
<1>7. CASE Render(c)
  BY <1>0, <1>7, RenderPurge
<1>8. CASE Deliver(c)
  <2>1. task[c].pc = "store" /\ task[c].page.ver \in Version
    BY <1>0, <1>8 DEF Deliver, TaskInv, Rendered
  <2>2. RendersCurrent
    BY <1>0, <1>8, <2>1, ReplyEnds DEF Deliver, Hows
  <2>3. StoresRendered
    BY <1>0, <1>8, <2>1, SetPageStores, StoreUntouched DEF Deliver
  <2> QED BY <1>8, <2>2, <2>3, TaskStepPurge DEF Deliver
<1>9. CASE Receive(c) \/ Abandon(c)
  <2>1. RendersCurrent
    BY <1>0, <1>9, FinishEnds DEF Receive, Abandon
  <2> QED BY <1>9, <2>1, StoreUntouched, TaskStepPurge DEF Receive, Abandon
<1> QED BY <1>1, <1>2, <1>3, <1>4, <1>5, <1>6, <1>7, <1>8, <1>9 DEF RequestStep

LEMMA RefreshStepPurge ==
    ASSUME IInv, PurgeInv, NEW r \in Refreshers, RefreshStep(r)
    PROVE  PurgeInv'
<1> USE DEF IInv
<1>0. r \in Tasks /\ task[r] \in TaskState
  BY DEF Tasks, TypeInv
<1>1. CASE RefreshLock(r)
  <2>1. RendersCurrent
    BY <1>0, <1>1 DEF RefreshLock, RenderLock, RendersCurrent, TypeInv, TaskState
  <2> QED BY <1>1, <2>1, StoreUntouched, TaskStepPurge DEF RefreshLock
<1>2. CASE RefreshTry(r)
  <2>1. CASE mutex[task[r].lock].holder = None
    <3>1. RendersCurrent
      BY <1>0, <1>2, <2>1 DEF RefreshTry, RendersCurrent, TypeInv, TaskState
    <3> QED BY <1>2, <3>1, StoreUntouched, TaskStepPurge DEF RefreshTry
  <2>2. CASE mutex[task[r].lock].holder # None
    <3>1. RendersCurrent
      BY <1>0, <1>2, <2>2, FinishEnds DEF RefreshTry
    <3> QED BY <1>2, <3>1, StoreUntouched, TaskStepPurge DEF RefreshTry
  <2> QED BY <2>1, <2>2
<1>3. CASE Render(r)
  BY <1>0, <1>3, RenderPurge
<1>4. CASE RefreshStore(r)
  <2>1. RendersCurrent
    BY <1>0, <1>4, FinishEnds DEF RefreshStore
  <2>2. StoresRendered
    BY <1>0, <1>4, SetPageStores, StoreUntouched DEF RefreshStore
  <2> QED BY <1>4, <2>1, <2>2, TaskStepPurge DEF RefreshStore
<1> QED BY <1>1, <1>2, <1>3, <1>4 DEF RefreshStep

LEMMA SiteStepPurge ==
    ASSUME IInv, PurgeInv, (\E k \in Keys : Update(k) \/ Purge(k)) \/ PurgeAllStore
                    \/ PurgeAllCounts \/ Tick
    PROVE  PurgeInv'
<1> USE DEF IInv, PurgeInv
<1>0. task' = task
  BY DEF Update, Purge, PurgeAllStore, PurgeAllCounts, Tick
<1>1. ASSUME NEW k \in Keys, Update(k) PROVE PurgeInv'
  <2>1. \A j \in Keys : content'[j] \in {content[j], content[j] + 1} /\ content[j] \in Nat
    BY <1>1 DEF Update, TypeInv, Version
  <2>2. BarrierInv'
    BY <1>1, <2>1 DEF Update, BarrierInv, Version
  <2>3. UNCHANGED <<store, task, barrier, clean>>
    BY <1>1 DEF Update
  <2> QED BY <2>2, <2>3 DEF PurgeSticks, RendersAreNew, PageIsNew
<1>2. ASSUME NEW K \in SUBSET Keys, NotePurge(K), content' = content,
             store' = [k \in Keys |-> IF k \in K THEN None ELSE store[k]]
      PROVE  PurgeInv'
  <2>1. BarrierInv'
    BY <1>2 DEF NotePurge, BarrierInv, TypeInv, Version
  <2>2. PurgeSticks'
    BY <1>2 DEF NotePurge, PurgeSticks
  <2>3. ASSUME NEW t \in Tasks, task[t].pc = "store", clean'[task[t].key]
        PROVE  task[t].page.ver >= barrier'[task[t].key]
    <3>1. task[t].key \in Keys /\ task[t].page.ver \in Version /\ content[task[t].key] \in Version
      BY <2>3 DEF TaskInv, Rendered, TypeInv
    <3>2. CASE task[t].key \in K
      <4>1. barrier'[task[t].key] = content[task[t].key] /\ ~UnderWay(task[t].key)
        BY <1>2, <2>3, <3>1, <3>2 DEF NotePurge
      <4>2. ~(task[t].page.ver < content[task[t].key])
        BY <2>3, <4>1 DEF UnderWay
      <4> QED BY <3>1, <4>1, <4>2 DEF Version
    <3>3. CASE task[t].key \notin K
      BY <1>2, <2>3, <3>1, <3>3 DEF NotePurge, RendersAreNew, PageIsNew
    <3> QED BY <3>2, <3>3
  <2> QED BY <1>0, <2>1, <2>2, <2>3 DEF RendersAreNew, PageIsNew
<1>3. CASE \E k \in Keys : Purge(k)
  <2>1. PICK k \in Keys : Purge(k)
    BY <1>3
  <2>2. store' = [j \in Keys |-> IF j \in {k} THEN None ELSE store[j]]
    BY <2>1 DEF Purge, TypeInv
  <2> QED BY <1>2, <2>1, <2>2 DEF Purge
<1>4. CASE PurgeAllStore
  <2>1. store' = [j \in Keys |-> IF j \in Keys THEN None ELSE store[j]]
    BY <1>4 DEF PurgeAllStore
  <2> QED BY <1>2, <1>4, <2>1 DEF PurgeAllStore
<1>5. CASE PurgeAllCounts
  BY <1>0, <1>5 DEF PurgeAllCounts, site, BarrierInv, PurgeSticks, RendersAreNew, PageIsNew
<1>6. CASE Tick
  <2>1. \A k \in Keys : store'[k] # None => store[k] # None /\ store'[k].ver = store[k].ver
    BY <1>6 DEF Tick, Live, TypeInv, StoredPage
  <2> QED BY <1>0, <1>6, <2>1 DEF Tick, BarrierInv, PurgeSticks, RendersAreNew, PageIsNew
<1> QED BY <1>1, <1>3, <1>4, <1>5, <1>6

LEMMA PurgeInvariant == Spec => []PurgeInv
<1>1. Init => PurgeInv
  BY DEF Init, PurgeInv, BarrierInv, PurgeSticks, RendersAreNew, IdleTask, Version
<1>2. IInv /\ PurgeInv /\ [Next]_vars => PurgeInv'
  <2> SUFFICES ASSUME IInv, PurgeInv, [Next]_vars PROVE PurgeInv'
    OBVIOUS
  <2>1. CASE UNCHANGED vars
    BY <2>1 DEF vars, PurgeInv, BarrierInv, PurgeSticks, RendersAreNew, PageIsNew
  <2> QED BY <2>1, RequestStepPurge, RefreshStepPurge, SiteStepPurge DEF Next
<1> QED BY <1>1, <1>2, InitIInv, NextIInv, PTL DEF Spec

\* Unless the purge met a render of older content, nothing older than it is
\* found in the store afterwards, for every number of pages, tasks, versions
\* and purges (html_cache.rs:193, against the store at 404).
THEOREM PurgedForGood == Spec => []PurgeSticks
<1>1. PurgeInv => PurgeSticks
  BY DEF PurgeInv
<1> QED BY <1>1, PurgeInvariant, PTL

-----------------------------------------------------------------------------
(* What the steps can do to the store, the counters and the lock map: the   *)
(* rest of the argument is about these alone.                               *)

Shrinks == \A k \in Keys : store'[k] \in {None, store[k]}
StoreSteps == Shrinks \/ Tick \/ \E k \in Keys, v \in Version : SetPage(k, v)
CountSteps ==
    \/ counts' = counts \/ counts' = [k \in Keys |-> 0]
    \/ \E k \in Keys : counts' = Counted(k)
LockSteps ==
    \/ locks' = locks
    \/ \E t \in Tasks, next \in {"enter", "try"} :
          task[t].pc \in {"getlock", "spawned"} /\ RenderLock(t, next)
MutexSteps ==
    \/ mutex' = mutex
    \/ \E t \in Tasks : mutex' = Dropped(t)
    \/ \E c \in Clients, l \in LockIds :
          mutex' = [mutex EXCEPT ![l] =
                       IF @.holder = None THEN [holder |-> c, queue |-> <<>>]
                       ELSE [holder |-> @.holder, queue |-> Append(@.queue, c)]]
    \/ \E r \in Refreshers, l \in LockIds :
          mutex' = [mutex EXCEPT ![l] = [holder |-> r, queue |-> <<>>]]
FlagSteps ==
    /\ purging' \in {purging, TRUE, FALSE}
    /\ \/ UNCHANGED clean
       \/ \E K \in SUBSET Keys : NotePurge(K)

LEMMA RequestSteps ==
    ASSUME IInv, NEW c \in Clients,
           RequestStep(c) \/ Abandon(c) \/ \E k \in Keys : Arrive(c, k)
    PROVE  StoreSteps /\ CountSteps /\ LockSteps /\ MutexSteps /\ FlagSteps
<1> USE DEF IInv, StoreSteps, CountSteps, LockSteps, MutexSteps, FlagSteps, Shrinks, site
<1>0. c \in Tasks /\ (task[c].pc \notin {"idle", "done"} => task[c].key \in Keys)
  BY DEF Tasks, TaskInv
<1>1. ASSUME NEW k \in Keys, Arrive(c, k)
      PROVE  StoreSteps /\ CountSteps /\ LockSteps /\ MutexSteps /\ FlagSteps
  BY <1>1, Zenon DEF Arrive
<1>2. CASE LookupHit(c)
  BY <1>2, Zenon DEF LookupHit
<1>3. CASE LookupMiss(c)
  BY <1>0, <1>3 DEF LookupMiss, AfterGet, TypeInv
<1>4. CASE RenderUncached(c)
  BY <1>4, Zenon DEF RenderUncached
<1>5. CASE GetLock(c)
  BY <1>0, <1>5, Zenon DEF GetLock
<1>6. CASE EnterLock(c)
  <2>1. task[c].lock \in LockIds
    BY <1>0, <1>6 DEF EnterLock, TaskInv, Locking, TypeInv, TaskState
  <2> QED BY <1>6, <2>1, Zenon DEF EnterLock
<1>7. CASE Recheck(c)
  <2>1. Shrinks
    BY <1>0, <1>7 DEF Recheck, AfterGet, TypeInv
  <2>2. UNCHANGED <<counts, locks, purging, clean>> /\ (mutex' = mutex \/ mutex' = Dropped(c))
    BY <1>7 DEF Recheck
  <2> QED BY <1>0, <2>1, <2>2, Zenon
<1>8. CASE Render(c)
  BY <1>8, Zenon DEF Render
<1>9. CASE Deliver(c)
  <2>1. task[c].key \in Keys /\ task[c].page.ver \in Version
    BY <1>0, <1>9 DEF Deliver, TaskInv, Rendered
  <2>2. store' = store \/ SetPage(task[c].key, task[c].page.ver)
    BY <1>9 DEF Deliver
  <2>3. StoreSteps
    BY <2>1, <2>2
  <2>4. UNCHANGED <<counts, locks, purging, clean>> /\ mutex' = Dropped(c)
    BY <1>9 DEF Deliver
  <2> QED BY <1>0, <2>3, <2>4, Zenon
<1>10. CASE Receive(c)
  BY <1>10, Zenon DEF Receive
<1>11. CASE Abandon(c)
  BY <1>0, <1>11, Zenon DEF Abandon
<1> QED BY <1>1, <1>2, <1>3, <1>4, <1>5, <1>6, <1>7, <1>8, <1>9, <1>10, <1>11 DEF RequestStep

LEMMA RefreshSteps ==
    ASSUME IInv, NEW r \in Refreshers, RefreshStep(r)
    PROVE  StoreSteps /\ CountSteps /\ LockSteps /\ MutexSteps /\ FlagSteps
<1> USE DEF IInv, StoreSteps, CountSteps, LockSteps, MutexSteps, FlagSteps, Shrinks, site
<1>0. r \in Tasks
  BY DEF Tasks
<1>1. CASE RefreshLock(r)
  BY <1>0, <1>1, Zenon DEF RefreshLock
<1>2. CASE RefreshTry(r)
  <2>1. task[r].lock \in LockIds
    BY <1>0, <1>2 DEF RefreshTry, TaskInv, Locking, TypeInv, TaskState
  <2> QED BY <1>2, <2>1, Zenon DEF RefreshTry
<1>3. CASE Render(r)
  BY <1>3, Zenon DEF Render
<1>4. CASE RefreshStore(r)
  <2>1. task[r].key \in Keys /\ task[r].page.ver \in Version
    BY <1>0, <1>4 DEF RefreshStore, TaskInv, Rendered
  <2>2. store' = store \/ SetPage(task[r].key, task[r].page.ver)
    BY <1>4 DEF RefreshStore
  <2>3. StoreSteps
    BY <2>1, <2>2
  <2>4. UNCHANGED <<counts, locks, purging, clean>> /\ mutex' = Dropped(r)
    BY <1>4 DEF RefreshStore
  <2> QED BY <1>0, <2>3, <2>4, Zenon
<1> QED BY <1>1, <1>2, <1>3, <1>4 DEF RefreshStep

LEMMA AllSteps ==
    ASSUME IInv, [Next]_vars
    PROVE  StoreSteps /\ CountSteps /\ LockSteps /\ MutexSteps /\ FlagSteps
<1>1. ASSUME NEW k \in Keys, Update(k)
      PROVE  StoreSteps /\ CountSteps /\ LockSteps /\ MutexSteps /\ FlagSteps
  BY <1>1 DEF Update, StoreSteps, CountSteps, LockSteps, MutexSteps, FlagSteps, Shrinks
<1>2. ASSUME NEW k \in Keys, Purge(k)
      PROVE  StoreSteps /\ CountSteps /\ LockSteps /\ MutexSteps /\ FlagSteps
  <2>1. Shrinks
    BY <1>2 DEF Purge, Shrinks, IInv, TypeInv
  <2>2. FlagSteps
    BY <1>2 DEF Purge, FlagSteps
  <2> QED BY <1>2, <2>1, <2>2 DEF Purge, StoreSteps, CountSteps, LockSteps, MutexSteps
<1>3. CASE PurgeAllStore
  <2>1. FlagSteps
    BY <1>3 DEF PurgeAllStore, FlagSteps
  <2>2. Shrinks
    BY <1>3 DEF PurgeAllStore, Shrinks
  <2> QED BY <1>3, <2>1, <2>2, Zenon DEF PurgeAllStore, StoreSteps, CountSteps, LockSteps, MutexSteps
<1>4. CASE PurgeAllCounts
  BY <1>4, Zenon DEF PurgeAllCounts, site, StoreSteps, CountSteps, LockSteps, MutexSteps, FlagSteps, Shrinks
<1>5. CASE Tick
  BY <1>5 DEF Tick, StoreSteps, CountSteps, LockSteps, MutexSteps, FlagSteps
<1>6. CASE UNCHANGED vars
  BY <1>6 DEF vars, site, StoreSteps, CountSteps, LockSteps, MutexSteps, FlagSteps, Shrinks
<1> QED BY <1>1, <1>2, <1>3, <1>4, <1>5, <1>6, RequestSteps, RefreshSteps DEF Next

-----------------------------------------------------------------------------
(* The type invariant. *)

Mutexes == [holder : Tasks \cup {None}, queue : Seq(Clients)]
RestInv ==
    /\ \A k \in Keys : store[k] # None => store[k].age <= store[k].ttl
    /\ counts \in [Keys -> 0 .. MinHits]
    /\ mutex \in [LockIds -> Mutexes]
    /\ purging \in BOOLEAN
    /\ clean \in [Keys -> BOOLEAN]

\* What is left of a queue of clients is one.
LEMMA WithoutType ==
    ASSUME NEW q \in Seq(Clients), NEW t
    PROVE  Without(q, t) \in Seq(Clients)
<1>1. CASE \E i \in DOMAIN q : q[i] = t
  <2> DEFINE n == CHOOSE i \in DOMAIN q : q[i] = t
             e(i) == IF i < n THEN q[i] ELSE q[i + 1]
  <2>1. Len(q) \in Nat /\ DOMAIN q = 1 .. Len(q) /\ \A i \in 1 .. Len(q) : q[i] \in Clients
    BY LenProperties, ElementOfSeq
  <2>2. n \in 1 .. Len(q)
    BY <1>1, <2>1
  <2>3. Len(q) - 1 \in Nat
    BY <2>1, <2>2
  <2> HIDE DEF n
  <2>4. \A i \in 1 .. Len(q) - 1 : e(i) \in Clients
    BY <2>1, <2>2
  <2> HIDE DEF e
  <2>5. [i \in 1 .. Len(q) - 1 |-> e(i)] \in Seq(Clients)
    BY <2>3, <2>4, IsASeq
  <2> QED BY <1>1, <2>5 DEF Without, e, n
<1>2. CASE ~\E i \in DOMAIN q : q[i] = t
  BY <1>2 DEF Without
<1> QED BY <1>1, <1>2

LEMMA DroppedType ==
    ASSUME mutex \in [LockIds -> Mutexes], NEW t
    PROVE  Dropped(t) \in [LockIds -> Mutexes]
<1> SUFFICES ASSUME NEW l \in LockIds
             PROVE  (IF mutex[l].holder = t THEN Released(mutex[l])
                     ELSE [holder |-> mutex[l].holder, queue |-> Without(mutex[l].queue, t)])
                    \in Mutexes
  BY DEF Dropped
<1>1. mutex[l].holder \in Tasks \cup {None} /\ mutex[l].queue \in Seq(Clients)
  BY DEF Mutexes
<1>2. Released(mutex[l]) \in Mutexes
  <2>1. CASE mutex[l].queue = <<>>
    BY <2>1, EmptySeq DEF Released, FreeMutex, Mutexes
  <2>2. CASE mutex[l].queue # <<>>
    <3>1. Head(mutex[l].queue) \in Tasks /\ Tail(mutex[l].queue) \in Seq(Clients)
      BY <1>1, <2>2, HeadTailProperties DEF Tasks
    <3> QED BY <2>2, <3>1 DEF Released, Mutexes
  <2> QED BY <2>1, <2>2
<1>3. [holder |-> mutex[l].holder, queue |-> Without(mutex[l].queue, t)] \in Mutexes
  BY <1>1, WithoutType DEF Mutexes
<1> QED BY <1>2, <1>3

LEMMA MutexType ==
    ASSUME mutex \in [LockIds -> Mutexes], MutexSteps
    PROVE  mutex' \in [LockIds -> Mutexes]
<1>1. ASSUME NEW c \in Clients, NEW l \in LockIds,
             mutex' = [mutex EXCEPT ![l] =
                          IF @.holder = None THEN [holder |-> c, queue |-> <<>>]
                          ELSE [holder |-> @.holder, queue |-> Append(@.queue, c)]]
      PROVE  mutex' \in [LockIds -> Mutexes]
  <2>1. mutex[l].holder \in Tasks \cup {None} /\ mutex[l].queue \in Seq(Clients)
    BY DEF Mutexes
  <2>2. Append(mutex[l].queue, c) \in Seq(Clients) /\ <<>> \in Seq(Clients)
    BY <2>1
  <2>3. /\ [holder |-> c, queue |-> <<>>] \in Mutexes
        /\ [holder |-> mutex[l].holder, queue |-> Append(mutex[l].queue, c)] \in Mutexes
    BY <2>1, <2>2 DEF Mutexes, Tasks
  <2> QED BY <1>1, <2>3
<1>2. ASSUME NEW r \in Refreshers, NEW l \in LockIds,
             mutex' = [mutex EXCEPT ![l] = [holder |-> r, queue |-> <<>>]]
      PROVE  mutex' \in [LockIds -> Mutexes]
  <2>1. [holder |-> r, queue |-> <<>>] \in Mutexes
    BY EmptySeq DEF Mutexes, Tasks
  <2> QED BY <1>2, <2>1
<1> QED BY <1>1, <1>2, DroppedType DEF MutexSteps

LEMMA AgesType ==
    ASSUME IInv, RestInv, StoreSteps
    PROVE  \A k \in Keys : store'[k] # None => store'[k].age <= store'[k].ttl
<1> USE DEF IInv, TypeInv, RestInv
<1>1. CASE Shrinks
  BY <1>1 DEF Shrinks
<1>2. CASE Tick
  <2> SUFFICES ASSUME NEW k \in Keys, store'[k] # None
               PROVE  store'[k].age <= store'[k].ttl
    OBVIOUS
  <2>1. store'[k] = IF Live(k) THEN [store[k] EXCEPT !.age = @ + 1] ELSE store[k]
    BY <1>2 DEF Tick
  <2>2. CASE Live(k)
    <3>1. store[k] \in StoredPage /\ store[k].age < store[k].ttl
      BY <2>2 DEF Live
    <3>2. store'[k].age = store[k].age + 1 /\ store'[k].ttl = store[k].ttl
      BY <2>1, <2>2, <3>1 DEF StoredPage
    <3>3. store[k].age \in Nat /\ store[k].ttl \in Nat
      <4>1. Ttls \subseteq Nat
        OBVIOUS
      <4> QED BY <3>1, <4>1 DEF StoredPage
    <3> QED BY <3>1, <3>2, <3>3
  <2> QED BY <2>1, <2>2
<1>3. ASSUME NEW k \in Keys, NEW v \in Version, SetPage(k, v)
      PROVE  \A j \in Keys : store'[j] # None => store'[j].age <= store'[j].ttl
  <2>1. PICK ttl \in Ttls, V \in Victims(k) :
          store' = [j \in Keys |->
                      IF j = k THEN [ver |-> v, age |-> 0, ttl |-> ttl]
                      ELSE IF Live(j) /\ j \notin V THEN store[j] ELSE None]
    BY <1>3 DEF SetPage
  <2>2. ttl \in Nat
    OBVIOUS
  <2> QED BY <2>1, <2>2
<1> QED BY <1>1, <1>2, <1>3 DEF StoreSteps

LEMMA CountsType ==
    ASSUME counts \in [Keys -> 0 .. MinHits], CountSteps
    PROVE  counts' \in [Keys -> 0 .. MinHits]
<1>0. MinHits \in Nat \ {0}
  OBVIOUS
<1>1. ASSUME NEW k \in Keys PROVE Counted(k) \in [Keys -> 0 .. MinHits]
  <2> DEFINE c == IF Cardinality(Seen(counts)) >= MaxEntries * CountFactor
                    THEN [j \in Keys |-> 0] ELSE counts
  <2>1. c \in [Keys -> 0 .. MinHits]
    BY <1>0
  <2> HIDE DEF c
  <2>2. [c EXCEPT ![k] = IF @ < MinHits THEN @ + 1 ELSE @] \in [Keys -> 0 .. MinHits]
    BY <1>0, <2>1
  <2> QED BY <2>2 DEF Counted, c
<1> QED BY <1>0, <1>1 DEF CountSteps

LEMMA RestStep ==
    ASSUME IInv, RestInv, [Next]_vars
    PROVE  RestInv'
<1>1. StoreSteps /\ CountSteps /\ LockSteps /\ MutexSteps /\ FlagSteps
  BY AllSteps
<1>2. purging' \in BOOLEAN /\ clean' \in [Keys -> BOOLEAN]
  BY <1>1 DEF FlagSteps, NotePurge, RestInv
<1> QED BY <1>1, <1>2, AgesType, CountsType, MutexType DEF RestInv

LEMMA InitRest == Init => RestInv
<1> SUFFICES ASSUME Init PROVE RestInv
  OBVIOUS
<1>1. FreeMutex \in Mutexes
  BY EmptySeq DEF FreeMutex, Mutexes
<1>2. MinHits \in Nat
  OBVIOUS
<1>3. mutex \in [LockIds -> Mutexes]
  BY <1>1, Zenon DEF Init
<1>4. counts \in [Keys -> 0 .. MinHits]
  BY <1>2 DEF Init
<1> QED BY <1>3, <1>4 DEF Init, RestInv

\* Every variable keeps its type, waiters of a lock included, and no entry is
\* kept beyond its TTL (cache lib.rs:73).
THEOREM CacheTyped == Spec => []TypeOK
<1>1. IInv /\ BarrierInv /\ RestInv => TypeOK
  BY DEF IInv, TypeInv, BarrierInv, RestInv, Mutexes, TypeOK
<1>2. PurgeInv => BarrierInv
  BY DEF PurgeInv
<1>3. IInv /\ RestInv /\ [Next]_vars => RestInv'
  BY RestStep
<1> QED BY <1>1, <1>2, <1>3, InitIInv, NextIInv, InitRest, PurgeInvariant, PTL DEF Spec

-----------------------------------------------------------------------------
(* Bounded memory. *)

LiveSet == {k \in Keys : Live(k)}
Entries == {k \in Keys : store[k] # None}
Held == {k \in Keys : locks[k] # None}

\* A finite set within a bound.
Within(S, n) == IsFiniteSet(S) /\ Cardinality(S) <= n

PagesBounded == Within(Entries, MaxEntries)
CountsBounded == Within(Seen(counts), MaxEntries * CountFactor)

\* No lock is the lock of two keys, so as many are held as the map has keys.
LocksBounded ==
    /\ IsFiniteSet(Held)
    /\ Cardinality(Held) <= SweepAt \/ Cardinality(Held) <= Cardinality(Tasks)
    /\ \A j, k \in Keys : locks[j] # None /\ locks[j] = locks[k] => j = k

LEMMA SubsetWithin ==
    ASSUME NEW S, NEW n \in Nat, Within(S, n), NEW T \in SUBSET S
    PROVE  Within(T, n)
<1>1. IsFiniteSet(T) /\ Cardinality(T) <= Cardinality(S)
  BY FS_Subset DEF Within
<1>2. Cardinality(T) \in Nat /\ Cardinality(S) \in Nat
  BY <1>1, FS_CardinalityType DEF Within
<1> QED BY <1>1, <1>2 DEF Within

LEMMA OneMoreWithin ==
    ASSUME NEW S, NEW n \in Nat, Within(S, n), NEW x, NEW T \in SUBSET (S \cup {x})
    PROVE  Within(T, n + 1)
<1>1. IsFiniteSet(S \cup {x}) /\ Cardinality(S \cup {x}) <= Cardinality(S) + 1
  <2>1. IsFiniteSet(S) /\ Cardinality(S) \in Nat
    BY FS_CardinalityType DEF Within
  <2> DEFINE U == S \cup {x}
             n1 == Cardinality(S)
  <2>2. IsFiniteSet(U) /\ Cardinality(U) = IF x \in S THEN n1 ELSE n1 + 1
    BY <2>1, FS_AddElement, Zenon
  <2> HIDE DEF U, n1
  <2>3. n1 \in Nat
    BY <2>1 DEF n1
  <2>4. Cardinality(U) <= n1 + 1
    BY <2>2, <2>3
  <2> QED BY <2>2, <2>4 DEF U, n1
<1>2. Within(S \cup {x}, n + 1)
  <2>1. Cardinality(S) \in Nat /\ Cardinality(S \cup {x}) \in Nat
    BY <1>1, FS_CardinalityType DEF Within
  <2> QED BY <1>1, <2>1 DEF Within
<1>3. n + 1 \in Nat
  OBVIOUS
<1> QED BY <1>2, <1>3, SubsetWithin

\* A page stored in a full cache takes the place of those it evicts.
LEMMA SetPageBounded ==
    ASSUME PagesBounded, NEW k \in Keys, NEW v \in Version, SetPage(k, v)
    PROVE  PagesBounded'
<1>1. PICK ttl \in Ttls, V \in Victims(k) :
        store' = [j \in Keys |->
                    IF j = k THEN [ver |-> v, age |-> 0, ttl |-> ttl]
                    ELSE IF Live(j) /\ j \notin V THEN store[j] ELSE None]
  BY DEF SetPage
<1>2. Entries' \subseteq (LiveSet \ V) \cup {k}
  BY <1>1 DEF Entries, LiveSet
<1>3. MaxEntries \in Nat /\ MaxEntries - 1 \in Nat
  OBVIOUS
<1>0. Within(LiveSet, MaxEntries)
  <2>1. LiveSet \in SUBSET Entries
    BY DEF LiveSet, Live, Entries
  <2> QED BY <1>3, <2>1, SubsetWithin DEF PagesBounded
<1>4. CASE k \in LiveSet
  <2>1. Entries' \in SUBSET LiveSet
    BY <1>2, <1>4
  <2> QED BY <1>0, <1>3, <2>1, SubsetWithin DEF PagesBounded
<1>5. CASE k \notin LiveSet /\ Cardinality(LiveSet) < MaxEntries
  <2>1. Within(LiveSet, MaxEntries - 1)
    <3>1. Cardinality(LiveSet) \in Nat
      BY <1>0, FS_CardinalityType DEF Within
    <3> QED BY <1>0, <1>3, <1>5, <3>1 DEF Within
  <2>2. Entries' \in SUBSET (LiveSet \cup {k})
    BY <1>2
  <2>3. Within(Entries', (MaxEntries - 1) + 1)
    BY <1>3, <2>1, <2>2, OneMoreWithin
  <2> QED BY <1>3, <2>3 DEF PagesBounded
<1>6. CASE k \notin LiveSet /\ ~(Cardinality(LiveSet) < MaxEntries)
  <2>1. Cardinality(LiveSet \ V) = MaxEntries - 1
    BY <1>6 DEF Victims, LiveSet
  <2>2. Within(LiveSet \ V, MaxEntries - 1)
    <3>1. IsFiniteSet(LiveSet \ V)
      BY <1>0, FS_Difference DEF Within
    <3> QED BY <1>3, <2>1, <3>1 DEF Within
  <2>3. Entries' \in SUBSET ((LiveSet \ V) \cup {k})
    BY <1>2
  <2>4. Within(Entries', (MaxEntries - 1) + 1)
    BY <1>3, <2>2, <2>3, OneMoreWithin
  <2> QED BY <1>3, <2>4 DEF PagesBounded
<1> QED BY <1>4, <1>5, <1>6

LEMMA PagesStep ==
    ASSUME TypeInv, PagesBounded, StoreSteps
    PROVE  PagesBounded'
<1>0. MaxEntries \in Nat
  OBVIOUS
<1>1. CASE Shrinks \/ Tick
  <2>1. Entries' \in SUBSET Entries
    BY <1>1 DEF Shrinks, Tick, Live, Entries, TypeInv
  <2> QED BY <1>0, <2>1, SubsetWithin DEF PagesBounded
<1> QED BY <1>1, SetPageBounded DEF StoreSteps

\* The counters are reset before the map outgrows its limit.
LEMMA CountsStep ==
    ASSUME counts \in [Keys -> 0 .. MinHits], CountsBounded, CountSteps
    PROVE  CountsBounded'
<1> DEFINE most == MaxEntries * CountFactor
<1>0. most \in Nat /\ most - 1 \in Nat
  <2>1. \A m, n \in Nat \ {0} : m * n \in Nat /\ m * n - 1 \in Nat
    OBVIOUS
  <2> QED BY <2>1
<1> HIDE DEF most
<1>1. CASE counts' = counts
  BY <1>1 DEF CountsBounded
<1>2. CASE counts' = [k \in Keys |-> 0]
  <2>1. Seen(counts') = {}
    BY <1>2 DEF Seen
  <2> QED BY <1>0, <2>1, FS_EmptySet DEF CountsBounded, Within, most
<1>3. ASSUME NEW k \in Keys, counts' = Counted(k)
      PROVE  CountsBounded'
  <2> DEFINE c == IF Cardinality(Seen(counts)) >= most THEN [j \in Keys |-> 0] ELSE counts
  <2>1. counts' = [c EXCEPT ![k] = IF @ < MinHits THEN @ + 1 ELSE @]
    BY <1>3 DEF Counted, most
  <2>2. DOMAIN c = Keys
    OBVIOUS
  <2>3. Within(Seen(c), most - 1)
    <3>1. CASE Cardinality(Seen(counts)) >= most
      <4>1. Seen(c) = {}
        BY <3>1 DEF Seen
      <4>2. Within({}, most - 1)
        BY <1>0, FS_EmptySet DEF Within
      <4> QED BY <4>1, <4>2
    <3>2. CASE ~(Cardinality(Seen(counts)) >= most)
      <4>1. c = counts /\ IsFiniteSet(Seen(counts)) /\ Cardinality(Seen(counts)) \in Nat
        BY <3>2, FS_CardinalityType DEF CountsBounded, Within
      <4> QED BY <1>0, <3>2, <4>1 DEF Within
    <3> QED BY <3>1, <3>2
  <2> HIDE DEF c
  <2>4. Seen(counts') \in SUBSET (Seen(c) \cup {k})
    BY <2>1, <2>2 DEF Seen
  <2>5. Within(Seen(counts'), (most - 1) + 1)
    BY <1>0, <2>3, <2>4, OneMoreWithin
  <2> QED BY <1>0, <2>5 DEF CountsBounded, most
<1> QED BY <1>1, <1>2, <1>3 DEF CountSteps

\* A full lock map is swept of all locks but those of running tasks.
LEMMA LocksStep ==
    ASSUME IInv, LocksBounded, LockSteps
    PROVE  LocksBounded'
<1>1. ASSUME NEW t \in Tasks, NEW next \in {"enter", "try"},
             task[t].pc \in {"getlock", "spawned"}, RenderLock(t, next)
      PROVE  LocksBounded'
  <2> DEFINE k == task[t].key
             l == IF Swept[k] # None THEN Swept[k] ELSE CHOOSE x \in FreshIds : TRUE
             left == {j \in Keys : Swept[j] # None}
  <2>1. k \in Keys /\ task[t].lock = None /\ locks \in [Keys -> LockIds \cup {None}]
    BY <1>1 DEF IInv, TaskInv, Locking, TypeInv
  <2>2. /\ Swept \in [Keys -> LockIds \cup {None}]
        /\ \A j \in Keys : Swept[j] \in {None, locks[j]}
    BY <2>1 DEF Swept
  <2>3. locks' = [Swept EXCEPT ![k] = l] /\ (Swept[k] = None => l \in FreshIds)
    BY <1>1 DEF RenderLock
  <2>4. Swept[k] # None => l = Swept[k]
    OBVIOUS
  <2> HIDE DEF l, k
  <2>5. \A i, j \in Keys : locks'[i] # None /\ locks'[i] = locks'[j] => i = j
    <3>1. \A i, j \in Keys : Swept[i] # None /\ Swept[i] = Swept[j] => i = j
      BY <2>2 DEF LocksBounded
    <3>2. \A j \in Keys : Swept[k] = None => Swept[j] # l
      BY <2>1, <2>2, <2>3 DEF FreshIds
    <3> QED BY <2>1, <2>2, <2>3, <2>4, <3>1, <3>2
  <2>6. Held' \in SUBSET (left \cup {k})
    BY <2>1, <2>2, <2>3 DEF Held
  <2>7. left \in SUBSET Held
    BY <2>2 DEF Held
  <2>8. SweepAt \in Nat /\ SweepAt - 1 \in Nat
    OBVIOUS
  <2>9. CASE Cardinality(Held) < SweepAt
    <3>1. Within(left, SweepAt - 1)
      <4>1. IsFiniteSet(Held) /\ Cardinality(Held) \in Nat
        BY FS_CardinalityType DEF LocksBounded
      <4>2. Within(Held, SweepAt - 1)
        BY <2>8, <2>9, <4>1 DEF Within
      <4> QED BY <2>7, <2>8, <4>2, SubsetWithin
    <3>2. Within(Held', (SweepAt - 1) + 1)
      BY <2>6, <2>8, <3>1, OneMoreWithin
    <3> QED BY <2>5, <2>8, <3>2 DEF LocksBounded, Within
  <2>10. CASE ~(Cardinality(Held) < SweepAt)
    <3> DEFINE others == Tasks \ {t}
               n == Cardinality(others)
    <3>1. IsFiniteSet(others) /\ n \in Nat /\ Cardinality(Tasks) = n + 1
      <4>1. IsFiniteSet(Tasks) /\ Cardinality(Tasks) \in Nat
        BY FiniteTasks, FS_CardinalityType
      <4>2. IsFiniteSet(others) /\ n = Cardinality(Tasks) - 1
        BY <4>1, FS_RemoveElement
      <4>3. n \in Nat
        BY <4>2, FS_CardinalityType
      <4> QED BY <4>1, <4>2, <4>3
    <3>2. left \in SUBSET {task[s].key : s \in others}
      <4> SUFFICES ASSUME NEW j \in left
                   PROVE  \E s \in others : j = task[s].key
        OBVIOUS
      <4>1. j \in Keys /\ Swept[j] # None /\ Swept[j] = locks[j]
        BY <2>2
      <4>2. Cardinality(Held) >= SweepAt
        <5>1. Cardinality(Held) \in Nat
          BY FS_CardinalityType DEF LocksBounded
        <5> QED BY <2>8, <2>10, <5>1
      <4>3. Arcs(locks[j]) # {}
        BY <4>1, <4>2 DEF Swept, Held
      <4>4. PICK s \in Tasks : task[s].lock = locks[j]
        BY <4>3 DEF Arcs
      <4>5. s # t /\ task[s].lock # None
        BY <2>1, <4>1, <4>4
      <4>6. task[s].key \in Keys /\ locks[task[s].key] = task[s].lock
        BY <4>5 DEF IInv, TaskInv, LockInv, Locking
      <4>7. j = task[s].key
        BY <4>1, <4>4, <4>5, <4>6 DEF LocksBounded
      <4> QED BY <4>5, <4>7
    <3>3. Within({task[s].key : s \in others}, n)
      <4> DEFINE S == {task[s].key : s \in others}
                 f == [s \in others |-> task[s].key]
      <4>1. f \in Surjection(others, S)
        BY DEF Surjection
      <4> HIDE DEF f, S
      <4>2. IsFiniteSet(S) /\ Cardinality(S) <= n
        BY <3>1, <4>1, FS_Surjection
      <4> QED BY <4>2 DEF Within, S
    <3> HIDE DEF others, n, left
    <3>4. Within(left, n)
      BY <3>1, <3>2, <3>3, SubsetWithin
    <3>5. Within(Held', n + 1)
      BY <2>6, <3>1, <3>4, OneMoreWithin
    <3> QED BY <2>5, <3>1, <3>5 DEF LocksBounded, Within
  <2> QED BY <2>9, <2>10
<1>2. CASE locks' = locks
  BY <1>2 DEF LocksBounded, Held
<1> QED BY <1>1, <1>2 DEF LockSteps

\* The live pages, the counters and the locks of the lock map never outgrow
\* their limits, the locks up to the number of tasks that run
\* (html_cache.rs:40), whatever the limits are.
THEOREM StaysBounded == Spec => []MemoryBounded
<1>1. Init => PagesBounded /\ CountsBounded /\ LocksBounded
  <2> SUFFICES ASSUME Init PROVE PagesBounded /\ CountsBounded /\ LocksBounded
    OBVIOUS
  <2>1. Entries = {} /\ Seen(counts) = {} /\ Held = {}
    BY DEF Init, Entries, Seen, Held
  <2>2. \A m, n \in Nat \ {0} : m * n \in Nat
    OBVIOUS
  <2>3. 0 <= MaxEntries /\ 0 <= MaxEntries * CountFactor /\ 0 <= SweepAt
    BY <2>2
  <2>4. \A j, k \in Keys : locks[j] # None /\ locks[j] = locks[k] => j = k
    BY DEF Init
  <2> QED BY <2>1, <2>3, <2>4, FS_EmptySet DEF PagesBounded, CountsBounded, LocksBounded, Within
<1>2. ASSUME IInv, RestInv, PagesBounded, CountsBounded, LocksBounded, [Next]_vars
      PROVE  PagesBounded' /\ CountsBounded' /\ LocksBounded'
  <2>1. StoreSteps /\ CountSteps /\ LockSteps
    BY <1>2, AllSteps
  <2> QED BY <1>2, <2>1, PagesStep, CountsStep, LocksStep DEF IInv, RestInv
<1>3. PagesBounded /\ CountsBounded /\ LocksBounded => MemoryBounded
  BY DEF PagesBounded, CountsBounded, LocksBounded, Within, Entries, Held, MemoryBounded
<1>4. IInv /\ RestInv /\ [Next]_vars => RestInv'
  BY RestStep
<1> QED BY <1>1, <1>2, <1>3, <1>4, InitIInv, NextIInv, InitRest, PTL DEF Spec

-----------------------------------------------------------------------------
\* A page pushed out by a store into a full cache would have expired no later
\* than any page that stays, and only a store of a page that is not there
\* pushes one out (cache lib.rs:91), in every step of the cache.
THEOREM EvictsInOrder == Spec => EvictsSoonest
<1>1. IInv /\ [Next]_vars => [SoonestFirst]_vars
  <2> SUFFICES ASSUME IInv, [Next]_vars, NEW j \in Keys, NEW k \in Keys, Stored(j), Gone(k)
               PROVE  /\ ~Live(j)
                      /\ \A i \in Keys \ {j} : (Live(i) /\ store'[i] # None) =>
                            store[k].ttl - store[k].age <= store[i].ttl - store[i].age
    BY DEF SoonestFirst
  <2>1. StoreSteps
    BY AllSteps
  <2>2. ~Shrinks
    BY DEF Shrinks, Stored
  <2>3. ~Tick
    <3> SUFFICES ASSUME Tick PROVE FALSE
      OBVIOUS
    <3>1. store'[j] = [store[j] EXCEPT !.age = @ + 1] /\ Live(j)
      BY DEF Tick, Stored
    <3>2. store[j] \in StoredPage
      BY <3>1 DEF Live, IInv, TypeInv
    <3>3. store'[j].age = store[j].age + 1 /\ store[j].age \in Nat
      BY <3>1, <3>2 DEF StoredPage
    <3> QED BY <3>3 DEF Stored
  <2>4. PICK q \in Keys, v \in Version : SetPage(q, v)
    BY <2>1, <2>2, <2>3 DEF StoreSteps
  <2>5. PICK ttl \in Ttls, V \in Victims(q) :
          store' = [i \in Keys |->
                      IF i = q THEN [ver |-> v, age |-> 0, ttl |-> ttl]
                      ELSE IF Live(i) /\ i \notin V THEN store[i] ELSE None]
    BY <2>4 DEF SetPage
  <2>6. j = q
    BY <2>5 DEF Stored
  <2>7. k # q /\ k \in V
    <3>1. store'[q] = [ver |-> v, age |-> 0, ttl |-> ttl] /\ store'[q] # None
      BY <2>5, <2>6 DEF Stored
    <3> QED BY <2>5, <3>1 DEF Gone, Live
  <2>8. /\ ~Live(q)
        /\ \A x \in V, i \in Keys : Live(i) /\ i \notin V =>
              store[x].ttl - store[x].age <= store[i].ttl - store[i].age
    BY <2>7 DEF Victims
  <2>9. \A i \in Keys \ {j} : Live(i) /\ store'[i] # None => i \notin V
    BY <2>5, <2>6
  <2> QED BY <2>6, <2>7, <2>8, <2>9
<1> QED BY <1>1, InitIInv, NextIInv, PTL DEF Spec, EvictsSoonest

=============================================================================

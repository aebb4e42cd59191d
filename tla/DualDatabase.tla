---------------------------- MODULE DualDatabase ----------------------------
(***************************************************************************)
(* The dual database of crates/open-runo-db/src/dual.rs: DualBackend sends *)
(* every operation on a table to PostgreSQL, to aruaru-db or to both.  For *)
(* a table routed to both it awaits two backend calls one after the other, *)
(* so other tasks run between them, either call may fail on its own and    *)
(* the task may be dropped half way.  reconcile() lists both stores and    *)
(* then heals key by key from those lists; the integrity loop and the      *)
(* admin endpoint may run two passes at once.                              *)
(*                                                                         *)
(* A backend call is atomic and has one of three outcomes: "ok", "refused" *)
(* (Err, nothing written) and "unacked" (Err, yet the write took effect).  *)
(***************************************************************************)
EXTENDS Naturals, FiniteSets

CONSTANTS
    Tables, Keys,      \* a record is addressed by a table and a key
    Routing,           \* Routing[t] \in {"Postgres", "Aruaru", "Both"}
    Single,            \* built by DualBackend::single: one physical store
    Valid, Corrupt,    \* record values that are / are not parseable JSON
    Absent,            \* no record under this key
    Clients,           \* tasks calling put and delete
    Readers,           \* tasks calling get
    Healers,           \* tasks running reconcile
    MaxWrites,         \* bound: put and delete calls in a behaviour
    MaxFaults          \* bound: failed calls, dropped tasks, corruptions

Value == Valid \cup Corrupt
Cell == Value \cup {Absent}
Row == Tables \X Keys
Target == {"Postgres", "Aruaru", "Both"}
Outcome == {"ok", "refused", "unacked"}

ASSUME DualAssumption ==
    /\ Tables # {}
    /\ Routing \in [Tables -> Target]
    /\ Single \in BOOLEAN
    /\ Absent \notin Value
    /\ Valid \cap Corrupt = {}
    /\ MaxWrites \in Nat
    /\ MaxFaults \in Nat

VARIABLES
    pg, ar,      \* contents of PostgreSQL and of aruaru-db
    writing,     \* puts and deletes between their two backend calls
    reading,     \* gets that missed in PostgreSQL and will ask aruaru-db
    pass,        \* pass[h]: the reconcile pass healer h is running
    writes,      \* put and delete calls made so far
    faults,      \* faults so far
    last,        \* history: last[r] is the value the sides should hold
    tainted      \* history: rows that met a fault or a race

stores == <<pg, ar>>
history == <<last, tainted>>
budgets == <<writes, faults>>
vars == <<pg, ar, writing, reading, pass, writes, faults, last, tainted>>

-----------------------------------------------------------------------------
(* Helpers.  An operator marked "mutant" is a plausible mistake in the      *)
(* definition that follows it; the specification does not use it.          *)

RouteOf(r) == Routing[r[1]]
BothTables == {t \in Tables : Routing[t] = "Both"}
BothRows == {r \in Row : RouteOf(r) = "Both"}

\* What get() answers when it runs alone: PostgreSQL, else aruaru-db.
Visible(p, a, r) == IF p[r] # Absent THEN p[r] ELSE a[r]

\* One backend call that stores x (Absent: a delete) under row r.
Call(side, r, x, o) ==
    /\ pg' = IF o # "refused" /\ (side = "Postgres" \/ Single)
               THEN [pg EXCEPT ![r] = x] ELSE pg
    /\ ar' = IF o # "refused" /\ (side = "Aruaru" \/ Single)
               THEN [ar EXCEPT ![r] = x] ELSE ar

Fault(o) ==
    /\ o # "ok" => faults < MaxFaults
    /\ faults' = IF o = "ok" THEN faults ELSE faults + 1

\* History: a get under way sees each value that becomes visible.
NoteSeen ==
    reading' = {[g EXCEPT !.seen = @ \cup {Visible(pg', ar', g.row)}]
                    : g \in reading}

Writers(r) == {w \in writing : w.row = r}
Busy(c) == \E w \in writing : w.client = c

\* History: a pass that has listed r before this write holds a stale list.
Outdated(p, r) ==
    IF p.phase \in {"listed", "healing"} THEN [p EXCEPT !.stale = @ \cup {r}] ELSE p

OutdatePasses(r) == pass' = [h \in Healers |-> Outdated(pass[h], r)]

NoSnapshot == [k \in Keys |-> Absent]

IdlePass == [phase |-> "idle", tables |-> {}, table |-> CHOOSE t \in Tables : TRUE,
             a |-> NoSnapshot, b |-> NoSnapshot, todo |-> {}, stale |-> {}]

\* The two awaits of a put or delete on a Both table, in order.
CallOrderSwapped == <<"Aruaru", "Postgres">>        \* mutant
CallOrder == <<"Postgres", "Aruaru">>

\* The keys on which the lists of the two sides differ.
AllKeys(a, b) == Keys                               \* mutant
MissingOnly(a, b) == {k \in Keys : (a[k] = Absent) # (b[k] = Absent)}   \* mutant
Differing(a, b) == {k \in Keys : a[k] # b[k]}

\* The side reconcile takes the value from when both hold one: parseable
\* beats corrupt, and PostgreSQL wins a tie.
WinnerReplica(x, y) ==                              \* mutant
    IF y \in Valid \/ x \notin Valid THEN "Aruaru" ELSE "Postgres"
Winner(x, y) == IF x \in Valid \/ y \notin Valid THEN "Postgres" ELSE "Aruaru"

-----------------------------------------------------------------------------
(* put and delete *)

\* A put or delete on a table with one target: one call, whose result is
\* the caller's.
WriteSingle(c, r, x, o) ==
    /\ RouteOf(r) # "Both"
    /\ ~Busy(c)
    /\ writes < MaxWrites
    /\ writes' = writes + 1
    /\ Fault(o)
    /\ Call(RouteOf(r), r, x, o)
    /\ IF o = "ok"
         THEN /\ last' = [last EXCEPT ![r] = x]
              /\ tainted' = tainted \ {r}
         ELSE /\ tainted' = tainted \cup {r}
              /\ UNCHANGED last
    /\ NoteSeen
    /\ UNCHANGED <<writing, pass>>

\* The first of the two awaits of a put or delete on a Both table: the call
\* to PostgreSQL.  Its result is kept, and aruaru-db is called regardless.
WriteFirst(c, r, x, o) ==
    /\ RouteOf(r) = "Both"
    /\ ~Busy(c)
    /\ writes < MaxWrites
    /\ writes' = writes + 1
    /\ Fault(o)
    /\ Call(CallOrder[1], r, x, o)
    /\ writing' = writing \cup {[client |-> c, row |-> r, val |-> x, ok |-> (o = "ok")]}
    /\ tainted' = IF Writers(r) # {} THEN tainted \cup {r} ELSE tainted
    /\ OutdatePasses(r)
    /\ NoteSeen
    /\ UNCHANGED last

\* The caller of put / delete sees Ok only if both calls were Ok.
AckedByEither(w, o) == w.ok \/ o = "ok"             \* mutant
Acked(w, o) == w.ok /\ o = "ok"

\* The second await: the call to aruaru-db, and the answer to the caller.
WriteSecond(w, o) ==
    /\ w \in writing
    /\ Fault(o)
    /\ Call(CallOrder[2], w.row, w.val, o)
    /\ writing' = writing \ {w}
    /\ IF Acked(w, o) /\ Writers(w.row) = {w}
         THEN /\ last' = [last EXCEPT ![w.row] = w.val]
              /\ UNCHANGED tainted
         ELSE /\ tainted' = tainted \cup {w.row}
              /\ UNCHANGED last
    /\ OutdatePasses(w.row)
    /\ NoteSeen
    /\ UNCHANGED writes

\* The task is dropped between its two awaits (its connection closed, or
\* the process stopped): the second call is never made.
AbandonWrite(w) ==
    /\ w \in writing
    /\ faults < MaxFaults
    /\ faults' = faults + 1
    /\ writing' = writing \ {w}
    /\ tainted' = tainted \cup {w.row}
    /\ UNCHANGED <<pg, ar, reading, pass, writes, last>>

-----------------------------------------------------------------------------
(* get: a hit in PostgreSQL, or a table with one target, answers at once   *)
(* and changes nothing.                                                    *)

\* PostgreSQL has no record: the get awaits aruaru-db next.
GetMisses(c, r) ==
    /\ RouteOf(r) = "Both"
    /\ pg[r] = Absent
    /\ \A g \in reading : g.client # c
    /\ reading' = reading \cup {[client |-> c, row |-> r, seen |-> {Visible(pg, ar, r)}]}
    /\ UNCHANGED <<pg, ar, writing, pass, writes, faults, last, tainted>>

\* The fallback answers ar[g.row].
GetFallsBack(g) ==
    /\ g \in reading
    /\ reading' = reading \ {g}
    /\ UNCHANGED <<pg, ar, writing, pass, writes, faults, last, tainted>>

-----------------------------------------------------------------------------
(* reconcile *)

BeginPass(h) ==
    /\ ~Single
    /\ pass[h].phase = "idle"
    /\ BothTables # {}
    /\ pass' = [pass EXCEPT ![h] = [IdlePass EXCEPT !.phase = "tables",
                                                    !.tables = BothTables]]
    /\ UNCHANGED <<pg, ar, writing, reading, writes, faults, last, tainted>>

\* list() of the next table in PostgreSQL (HashMap order: any table).
ListPostgres(h, t) ==
    /\ pass[h].phase = "tables"
    /\ t \in pass[h].tables
    /\ pass' = [pass EXCEPT ![h] = [@ EXCEPT !.phase = "listed",
                                             !.table = t,
                                             !.tables = pass[h].tables \ {t},
                                             !.a = [k \in Keys |-> pg[<<t, k>>]],
                                             !.todo = {},
                                             !.stale = {}]]
    /\ UNCHANGED <<pg, ar, writing, reading, writes, faults, last, tainted>>

\* list() of the same table in aruaru-db; the keys to heal are those on
\* which the two lists differ.
ListAruaru(h) ==
    /\ pass[h].phase = "listed"
    /\ LET b == [k \in Keys |-> ar[<<pass[h].table, k>>]] IN
       pass' = [pass EXCEPT ![h] = [@ EXCEPT !.phase = "healing",
                                             !.b = b,
                                             !.todo = Differing(pass[h].a, b)]]
    /\ UNCHANGED <<pg, ar, writing, reading, writes, faults, last, tainted>>

\* Which side key k is healed from, judged by the lists alone.
HealFrom(x, y) ==
    CASE y = Absent -> "Postgres"
      [] x = Absent -> "Aruaru"
      [] OTHER -> Winner(x, y)

\* One put of the heal loop.  An error ends the pass (the ? operator).
HealKey(h, k, o) ==
    LET p == pass[h]
        r == <<p.table, k>>
        from == HealFrom(p.a[k], p.b[k])
        x == IF from = "Postgres" THEN p.a[k] ELSE p.b[k]
    IN
    /\ p.phase = "healing"
    /\ k \in p.todo
    /\ Fault(o)
    /\ Call(IF from = "Postgres" THEN "Aruaru" ELSE "Postgres", r, x, o)
    /\ pass' = [i \in Healers |->
                  IF i # h THEN Outdated(pass[i], r)
                  ELSE IF o = "ok" THEN [p EXCEPT !.todo = @ \ {k}] ELSE IdlePass]
    /\ IF r \in p.stale \/ Writers(r) # {} \/ o # "ok"
         THEN /\ tainted' = tainted \cup {r}
              /\ UNCHANGED last
         ELSE /\ tainted' = tainted \ {r}
              /\ last' = [last EXCEPT ![r] = x]
    /\ NoteSeen
    /\ UNCHANGED <<writing, writes>>

\* No key of this table is left: go on with the next table, or return.
NextTable(h) ==
    /\ pass[h].phase = "healing"
    /\ pass[h].todo = {}
    /\ pass' = [pass EXCEPT ![h] =
                   IF pass[h].tables = {} THEN IdlePass
                   ELSE [IdlePass EXCEPT !.phase = "tables", !.tables = pass[h].tables]]
    /\ UNCHANGED <<pg, ar, writing, reading, writes, faults, last, tainted>>

\* A list() fails, or the task is dropped: the pass ends where it is.
AbortPass(h) ==
    /\ pass[h].phase # "idle"
    /\ faults < MaxFaults
    /\ faults' = faults + 1
    /\ pass' = [pass EXCEPT ![h] = IdlePass]
    /\ UNCHANGED <<pg, ar, writing, reading, writes, last, tainted>>

-----------------------------------------------------------------------------
\* A record that is present on a side is damaged there (disk, manual edit).
Corruption(side, r, x) ==
    /\ side \in {"Postgres", "Aruaru"}
    /\ x \in Corrupt
    /\ (IF side = "Postgres" THEN pg[r] ELSE ar[r]) \in Valid
    /\ faults < MaxFaults
    /\ faults' = faults + 1
    /\ Call(side, r, x, "ok")
    /\ tainted' = tainted \cup {r}
    /\ OutdatePasses(r)
    /\ NoteSeen
    /\ UNCHANGED <<writing, writes, last>>

-----------------------------------------------------------------------------
Init ==
    /\ pg = [r \in Row |-> Absent]
    /\ ar = [r \in Row |-> Absent]
    /\ writing = {}
    /\ reading = {}
    /\ pass = [h \in Healers |-> IdlePass]
    /\ writes = 0
    /\ faults = 0
    /\ last = [r \in Row |-> Absent]
    /\ tainted = {}

ClientStep ==
    \/ \E c \in Clients, r \in Row, x \in Valid \cup {Absent}, o \in Outcome :
          \/ WriteSingle(c, r, x, o)
          \/ WriteFirst(c, r, x, o)
    \/ \E w \in writing : \E o \in Outcome : WriteSecond(w, o)
    \/ \E w \in writing : AbandonWrite(w)

ReaderStep ==
    \/ \E c \in Readers, r \in Row : GetMisses(c, r)
    \/ \E g \in reading : GetFallsBack(g)

HealerStep(h) ==
    \/ BeginPass(h)
    \/ \E t \in Tables : ListPostgres(h, t)
    \/ ListAruaru(h)
    \/ \E k \in Keys, o \in Outcome : HealKey(h, k, o)
    \/ NextTable(h)

Next ==
    \/ ClientStep
    \/ ReaderStep
    \/ \E h \in Healers : HealerStep(h) \/ AbortPass(h)
    \/ \E side \in {"Postgres", "Aruaru"}, r \in Row, x \in Corrupt : Corruption(side, r, x)

Spec == Init /\ [][Next]_vars

\* The runtime polls every task that is ready: a half-done put goes on, and
\* the integrity loop (maintenance.rs) starts a pass on every tick.
Fairness ==
    /\ WF_vars(\E w \in writing, o \in Outcome : WriteSecond(w, o))
    /\ \A h \in Healers : WF_vars(HealerStep(h))

FairSpec == Spec /\ Fairness

-----------------------------------------------------------------------------
(* Properties *)

\* Types of all the state; a key waits to be healed only if its two lists differ.
WriteRec == [client : Clients, row : BothRows, val : Cell, ok : BOOLEAN]
ReadRec == [client : Readers, row : BothRows, seen : SUBSET Cell]
PassRec == [phase : {"idle", "tables", "listed", "healing"},
            tables : SUBSET BothTables, table : Tables,
            a : [Keys -> Cell], b : [Keys -> Cell],
            todo : SUBSET Keys, stale : SUBSET Row]

TypeOK ==
    /\ pg \in [Row -> Cell]
    /\ ar \in [Row -> Cell]
    /\ writing \subseteq WriteRec
    /\ reading \subseteq ReadRec
    /\ pass \in [Healers -> PassRec]
    /\ \A h \in Healers : \A k \in pass[h].todo : pass[h].a[k] # pass[h].b[k]
    /\ writes \in 0..MaxWrites
    /\ faults \in 0..MaxFaults
    /\ last \in [Row -> Cell]
    /\ tainted \subseteq Row

\* What a store must hold under row r when nothing is under way there.
Settled(r) ==
    /\ RouteOf(r) # "Aruaru" => pg[r] = last[r]
    /\ RouteOf(r) # "Postgres" => ar[r] = last[r]

\* put / delete answer Ok only when the record is in every store its table is
\* routed to, and it stays there until the next call on it: the sides can
\* differ only under a call in flight, after a call that answered Err or was
\* dropped, after damage, or after two writers (a reconcile pass working from
\* lists taken before the last write counts as one) overlapped on the row.
SidesHoldAcked ==
    \A r \in Row : r \notin tainted /\ Writers(r) = {} => Settled(r)

\* A put or delete under way on an untainted row is the only one there, and
\* PostgreSQL holds its value if its first call succeeded.
WritesUndisturbed ==
    \A w \in writing : w.row \notin tainted =>
        /\ Writers(w.row) = {w}
        /\ w.ok => pg[w.row] = w.val

\* Except on stale rows, the lists of a pass are what the stores hold now.
Current(p, sideA, sideB) ==
    /\ p.phase \in {"listed", "healing"} => p.table \in BothTables
    /\ \A k \in Keys : <<p.table, k>> \notin p.stale =>
          /\ p.phase = "listed" => p.a[k] = sideA[<<p.table, k>>]
          /\ p.phase = "healing" /\ k \in p.todo =>
                /\ p.a[k] = sideA[<<p.table, k>>]
                /\ p.b[k] = sideB[<<p.table, k>>]

ListsCurrent == \A h \in Healers : Current(pass[h], pg, ar)

\* The inductive invariant behind SidesHoldAcked.
IInv == SidesHoldAcked /\ WritesUndisturbed /\ ListsCurrent

\* A get that missed in PostgreSQL and falls back to aruaru-db never answers
\* with a value the record did not visibly have at some moment since the get
\* began, although other tasks run between its two reads.
FallbackIsFresh ==
    \A g \in reading : g.row \notin tainted => ar[g.row] \in g.seen

\* The healing policy of reconcile, stated on what the two sides really hold:
\* present beats absent, parseable beats corrupt, PostgreSQL wins a tie.
Best(x, y) ==
    IF x \in Valid \/ y = Absent \/ (x \in Corrupt /\ y \in Corrupt) THEN x ELSE y

\* When a pass heals a divergent row that nobody else touched since it was
\* listed, both sides end up with the better of the two records.
HealKeepsBest ==
    [][\A r \in BothRows : r \in tainted /\ r \notin tainted' =>
          /\ pg'[r] = ar'[r]
          /\ pg'[r] = Best(pg[r], ar[r])]_vars

\* Once calls and faults stop, the integrity loop brings the two databases to
\* agree on every Both row for good, whatever the races and faults before it
\* left behind, healing from stale lists included.
EventuallyInSync == <>[](\A r \in BothRows : pg[r] = ar[r])

\* Policy 3 of reconcile: "the primary (PostgreSQL) is treated as the source
\* of truth and overwrites the replica", so a heal may replace a record of
\* PostgreSQL only when that record is absent or corrupt.
HealSparesGoodPrimary ==
    [][(\E h \in Healers, k \in Keys, o \in Outcome : HealKey(h, k, o)) =>
          \A r \in Row : pg[r] \in Valid => pg'[r] = pg[r]]_vars

-----------------------------------------------------------------------------
(* What DualBackend promises to tasks that take turns on a record: a single *)
(* copy of it (RecordStore), where each call takes effect exactly once.     *)

\* At most one put or delete is under way on a row.
TurnsTaken == \A w1, w2 \in writing : w1.row = w2.row => w1 = w2

TurnSpec == Init /\ [][Next /\ TurnsTaken']_vars

\* What get() answers under row r when it runs alone, whatever its route.
OneCopy(p, a, r) ==
    IF RouteOf(r) = "Aruaru" THEN a[r]
    ELSE IF RouteOf(r) = "Postgres" THEN p[r] ELSE Visible(p, a, r)

\* A put is visible after its first call, a delete after its second, or
\* after its first when both calls go to one physical store.
CallOf(w) == [client |-> w.client, row |-> w.row, val |-> w.val,
              done |-> Single \/ w.val # Absent]

Promise == INSTANCE RecordStore WITH
    Rows <- Row,
    Cells <- Cell,
    rec <- [r \in Row |-> OneCopy(pg, ar, r)],
    pending <- {CallOf(w) : w \in writing}

\* Without faults and reconcile passes, tasks that take turns on each record
\* cannot tell the two databases from one store with atomic records.
ActsAsOneStore == Promise!Spec

=============================================================================

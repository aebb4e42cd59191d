------------------------------ MODULE Backends ------------------------------
(***************************************************************************)
(* The single-store backends of open-runo-db (lib.rs) behind DbBackend,    *)
(* seen through one table, and the migration between two of them           *)
(* (migrate.rs).  A backend is what its calls do to the rows: most write   *)
(* and read a row in one statement, Redis keeps a set of the table's keys  *)
(* beside the rows, ClickHouse appends versions.  Any call may fail.       *)
(***************************************************************************)
EXTENDS Integers, FiniteSets, FiniteSetsExt

CONSTANTS Sessions, RowKeys,         \* concurrent callers; keys of the table
          MaxPuts                 \* bound: values written

ASSUME BackendsAssumption == MaxPuts \in Nat \ {0}

Absent == 0
Unsure == -1

\* write: how a put changes the rows of its key; checks: values it cannot parse are
\* refused; commits: get_at_commit is answered.
Backend(write, checks, commits) == [write |-> write, checks |-> checks, commits |-> commits]

InMemoryBackend   == Backend("replace", FALSE, FALSE)
RustJsonBackend   == Backend("replace", TRUE, FALSE)
PostgresBackend   == Backend("replace", FALSE, FALSE)
MySqlBackend      == Backend("replace", FALSE, FALSE)
SqliteBackend     == Backend("replace", FALSE, FALSE)
AruaruDbBackend   == Backend("replace", FALSE, TRUE)
CockroachBackend  == Backend("replace", FALSE, FALSE)
YugabyteBackend   == Backend("replace", FALSE, FALSE)
MongoBackend      == Backend("replace", FALSE, FALSE)
RedisBackend      == Backend("indexed", FALSE, FALSE)
ClickHouseBackend == Backend("append", FALSE, FALSE)

\* Backends that behave alike are one here.
DbBackends == {InMemoryBackend, RustJsonBackend, PostgresBackend, MySqlBackend,
               SqliteBackend, AruaruDbBackend, CockroachBackend, YugabyteBackend,
               MongoBackend, RedisBackend, ClickHouseBackend}

VARIABLES
    backend,
    held,      \* per key the values its rows hold; more than one only where puts append
    index,     \* Redis: the members of the table's set of keys
    target,    \* what the database migrated to holds, per key
    puts,      \* number of values written
    settled,   \* history: what is known to be in each row, Unsure after a write that
               \* failed, overlapped another or is under way
    session    \* per caller: its operation
backendVars == <<backend, held, index, target, puts, settled, session>>

AtRest == [op |-> "none", at |-> "begin", key |-> CHOOSE k \in RowKeys : TRUE, value |-> Absent,
           todo |-> {}, got |-> {}, ok |-> TRUE, clean |-> TRUE, expect |-> [k \in RowKeys |-> Unsure]]

Newest(k) == IF held[k] = {} THEN Absent ELSE Max(held[k])
Op(s, op, at) == session[s].op = op /\ session[s].at = at
Rest(s) == session' = [session EXCEPT ![s] = AtRest]
AllRows == {r \in RowKeys \X (1 .. MaxPuts) : r[2] \in held[r[1]]}
-----------------------------------------------------------------------------
\* A write that begins voids what was known of its key, for those reading it too.
WriteBegins(s, op, k, v) ==
    LET over(w) == session[w].op \in {"put", "delete"} /\ session[w].key = k
    IN /\ session[s].op = "none"
       /\ settled' = [settled EXCEPT ![k] = Unsure]
       /\ session' = [w \in Sessions |->
             IF w = s THEN [AtRest EXCEPT !.op = op, !.key = k, !.value = v,
                               !.ok = \A x \in Sessions : ~over(x)]
             ELSE [session[w] EXCEPT !.ok = @ /\ ~over(w), !.expect[k] = Unsure]]

PutCall(s) ==
    /\ puts < MaxPuts /\ puts' = puts + 1
    /\ \E k \in RowKeys : WriteBegins(s, "put", k, puts + 1)
    /\ UNCHANGED <<backend, held, index, target>>

DeleteCall(s) ==
    /\ \E k \in RowKeys : WriteBegins(s, "delete", k, Absent)
    /\ UNCHANGED <<backend, held, index, target, puts>>

\* The last step of a write is done.  Its caller may rely on it unless the answer of
\* the database is lost.
WriteEnds(s) ==
    /\ \/ session[s].ok /\ settled' = [settled EXCEPT ![session[s].key] = session[s].value]
       \/ UNCHANGED settled
    /\ Rest(s)

\* An error before this step: nothing of it was done.
WriteFails(s) ==
    /\ session[s].op \in {"put", "delete"}
    /\ Rest(s)
    /\ UNCHANGED <<backend, held, index, target, puts, settled>>

\* The row is written: put's one statement, or the SET of Redis.
PutRow(s) ==
    /\ Op(s, "put", "begin")
    /\ held' = [held EXCEPT ![session[s].key] =
                   IF backend.write = "append" THEN @ \cup {session[s].value}
                   ELSE {session[s].value}]
    /\ IF backend.write = "indexed"
       THEN session' = [session EXCEPT ![s].at = "index"] /\ UNCHANGED settled
       ELSE WriteEnds(s)
    /\ UNCHANGED <<backend, index, target, puts>>

PutLeavesIndex(s) ==                                     \* mutant
    /\ Op(s, "put", "index")
    /\ WriteEnds(s)
    /\ UNCHANGED <<backend, held, index, target, puts>>
\* SADD
PutIndex(s) ==
    /\ Op(s, "put", "index")
    /\ index' = index \cup {session[s].key}
    /\ WriteEnds(s)
    /\ UNCHANGED <<backend, held, target, puts>>

\* One statement, or the DEL of Redis.  (When ClickHouse applies the mutation it was
\* told of is its own affair; here it does so at once.)
DeleteRow(s) ==
    /\ Op(s, "delete", "begin")
    /\ held' = [held EXCEPT ![session[s].key] = {}]
    /\ IF backend.write = "indexed"
       THEN session' = [session EXCEPT ![s].at = "index"] /\ UNCHANGED settled
       ELSE WriteEnds(s)
    /\ UNCHANGED <<backend, index, target, puts>>

\* SREM
DeleteIndex(s) ==
    /\ Op(s, "delete", "index")
    /\ index' = index \ {session[s].key}
    /\ WriteEnds(s)
    /\ UNCHANGED <<backend, held, target, puts>>

\* get reads one row; get_at_commit and the checks of a value change nothing.
Get(s) ==
    /\ session[s].op = "none"
    /\ \E k \in RowKeys :
          session' = [session EXCEPT ![s] =
             [AtRest EXCEPT !.op = "get", !.at = "done", !.expect[k] = settled[k],
                            !.got = {<<k, v>> : v \in {Newest(k)} \ {Absent}}]]
    /\ UNCHANGED <<backend, held, index, target, puts, settled>>
-----------------------------------------------------------------------------
(* list, also as the first step of transfer and of verify *)

\* One SELECT has all rows; Redis has the SMEMBERS, and reads them next.
ListBegins(s, op) ==
    session' = [session EXCEPT ![s] =
       [AtRest EXCEPT !.op = op, !.expect = settled,
          !.at = IF backend.write = "indexed" THEN "members" ELSE "done",
          !.todo = IF backend.write = "indexed" THEN index ELSE {},
          !.got = IF backend.write = "indexed" THEN {} ELSE AllRows]]

List(s) ==
    /\ session[s].op = "none" /\ ListBegins(s, "list")
    /\ UNCHANGED <<backend, held, index, target, puts, settled>>

Transfer(s) ==
    /\ session[s].op = "none" /\ ListBegins(s, "transfer")
    /\ \A w \in Sessions : session[w].op \notin {"transfer", "verify"}
    /\ UNCHANGED <<backend, held, index, target, puts, settled>>

\* One GET after the other: a key without a row is left out.
ListSide(s) ==
    /\ session[s].at = "members"
    /\ IF session[s].todo = {}
       THEN session' = [session EXCEPT ![s].at = "done"]
       ELSE \E k \in session[s].todo :
               session' = [session EXCEPT ![s].todo = @ \ {k},
                              ![s].got = @ \cup {<<k, v>> : v \in {Newest(k)} \ {Absent}}]
    /\ UNCHANGED <<backend, held, index, target, puts, settled>>

\* transfer puts what it listed, then transfer_verified lists once more.
CopyRow(s) ==
    /\ Op(s, "transfer", "done")
    /\ IF session[s].got = {}
       THEN ListBegins(s, "verify") /\ UNCHANGED target
       ELSE \E row \in session[s].got :
               /\ target' = [target EXCEPT ![row[1]] = row[2]]
               /\ session' = [session EXCEPT ![s].got = @ \ {row}]
    /\ UNCHANGED <<backend, held, index, puts, settled>>

VerifyPresence(s) ==                                     \* mutant
    /\ Op(s, "verify", "done")
    /\ session[s].got # {}
    /\ \E row \in session[s].got :
          session' = [session EXCEPT ![s].got = @ \ {row},
                                     ![s].clean = @ /\ target[row[1]] # Absent]
    /\ UNCHANGED <<backend, held, index, target, puts, settled>>
VerifyRow(s) ==
    /\ Op(s, "verify", "done")
    /\ session[s].got # {}
    /\ \E row \in session[s].got :
          session' = [session EXCEPT ![s].got = @ \ {row},
                                     ![s].clean = @ /\ target[row[1]] = row[2]]
    /\ UNCHANGED <<backend, held, index, target, puts, settled>>

\* A read, a list, a migration that has its answer, or fails on the way.
ReadEnds(s) ==
    /\ session[s].op \in {"get", "list", "transfer", "verify"}
    /\ Rest(s)
    /\ UNCHANGED <<backend, held, index, target, puts, settled>>
-----------------------------------------------------------------------------
BackendsInit ==
    /\ backend \in DbBackends
    /\ held = [k \in RowKeys |-> {}] /\ index = {}
    /\ target \in [RowKeys -> {Absent, 1}]
    /\ puts = 1 /\ settled = [k \in RowKeys |-> Absent]
    /\ session = [s \in Sessions |-> AtRest]

BackendsNext ==
    \E s \in Sessions :
       \/ PutCall(s) \/ DeleteCall(s) \/ WriteFails(s) \/ PutRow(s) \/ PutIndex(s)
       \/ DeleteRow(s) \/ DeleteIndex(s) \/ Get(s) \/ List(s) \/ ListSide(s)
       \/ Transfer(s) \/ CopyRow(s) \/ VerifyRow(s) \/ ReadEnds(s)

BackendsSpec == BackendsInit /\ [][BackendsNext]_backendVars
-----------------------------------------------------------------------------
BackendsTypeOK ==
    /\ backend \in DbBackends
    /\ held \in [RowKeys -> SUBSET (1 .. MaxPuts)] /\ index \subseteq RowKeys
    /\ target \in [RowKeys -> Absent .. MaxPuts] /\ puts \in 1 .. MaxPuts
    /\ settled \in [RowKeys -> Unsure .. MaxPuts]
    /\ \A s \in Sessions :
          /\ session[s].op \in {"none", "put", "delete", "get", "list", "transfer", "verify"}
          /\ session[s].at \in {"begin", "index", "members", "done"}
          /\ session[s].todo \subseteq RowKeys /\ session[s].got \subseteq RowKeys \X (1 .. MaxPuts)

\* On every backend, a get or a list that no write overlapped has the value of each
\* row whose last write was acknowledged and overlapped no other, and no row that was
\* so deleted: in Redis the set of keys and the rows have come back together.
ReadsHaveSettledRows ==
    \A s \in Sessions : session[s].op \in {"get", "list"} /\ session[s].at = "done" =>
        \A k \in RowKeys :
            LET found == {row[2] : row \in {r \in session[s].got : r[1] = k}}
            IN CASE session[s].expect[k] = Unsure -> TRUE
                 [] session[s].expect[k] = Absent -> found = {}
                 [] OTHER -> session[s].expect[k] = Max(found \cup {Absent})

Verified(s) == Op(s, "verify", "done") /\ session[s].got = {} /\ session[s].clean

\* When transfer_verified reports no issue, every settled row that nobody wrote since
\* it listed them for the comparison is in the target, whatever raced with the copy.
VerifiedCopyIsWhole ==
    \A s \in Sessions : Verified(s) =>
        \A k \in RowKeys : session[s].expect[k] > Absent => target[k] = session[s].expect[k]
=============================================================================

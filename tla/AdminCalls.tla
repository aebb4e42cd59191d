----------------------------- MODULE AdminCalls -----------------------------
(***************************************************************************)
(* The handlers of the control plane that read and change what the router  *)
(* administers and audit what they changed: handlers_hyper.rs with         *)
(* audit.rs, maintenance.rs (backups and exports), FeatureFlagRegistry,    *)
(* PersistedQueryStore and ScimGroupStore.  A behaviour is about the calls *)
(* at one desk, for desks share nothing but the audit log; `rows` is what  *)
(* that desk administers (records of a table, flags, queries, groups,      *)
(* keys, pages of the cache, fields of the federated graph), 0 for none.   *)
(* Every database call may fail.                                           *)
(***************************************************************************)
EXTENDS Integers, FiniteSets

CONSTANTS Admins, Rows           \* concurrent callers; the keys they name

NoRow == [k \in Rows |-> 0]

VARIABLES
    desk,
    rows,
    file,       \* the newest backup file: its rows, and none, torn or whole
    errand,     \* per caller: the call it makes, its place, the rows it goes through
    deletions   \* history: flag deletions answered "deleted" since the last upsert
adminVars == <<desk, rows, file, errand, deletions>>

Idle == [at |-> "idle", op |-> "none", key |-> CHOOSE k \in Rows : TRUE,
         todo |-> {}, copy |-> NoRow]

OpsAt == [records |-> {"db_list", "db_get", "db_get_at_commit", "db_put", "db_delete",
                       "integrity_check"},
          backups |-> {"db_put", "backup_export", "backup_import", "restore_latest",
                       "export_sql", "export_csv"},
          flags   |-> {"flag_upsert", "flag_list", "flag_get", "flag_delete", "flag_evaluate"},
          queries |-> {"query_register", "query_get"},
          groups  |-> {"group_list", "group_create", "group_get", "group_replace",
                       "group_delete"},
          pages   |-> {"purge_page", "purge_all"},
          keys    |-> {"self_issue"},
          graph   |-> {"compose", "federation_status"}]

Doing(c, op) == errand[c].at = "act" /\ errand[c].op = op
DeskGoes(c, place) == errand' = [errand EXCEPT ![c].at = place]

Only(v) == UNCHANGED <<desk, file, deletions>> /\ rows' = v
Still == UNCHANGED <<desk, rows, file, deletions>>
Named(c) == errand[c].key
-----------------------------------------------------------------------------
(* What every handler does around its work *)

\* authenticate_with_session lets the call in, and the body is one it takes.
Ask(c) ==
    /\ errand[c].at = "idle"
    /\ \E op \in OpsAt[desk], k \in Rows :
          errand' = [errand EXCEPT ![c] = [Idle EXCEPT !.at = "act", !.op = op, !.key = k]]
    /\ Still

\* 401 or 403 before anything else, 400 or 422 for the body, 500 for the database.
Fails(c) == errand[c].at = "act" /\ DeskGoes(c, "failed") /\ Still

\* audit::record: a write that fails is only logged, and the call goes on;
\* integrity_check records every discrepancy it healed.
Audit(c) ==
    /\ errand[c].at = "audit"
    /\ \E left \in IF errand[c].todo = {} THEN {{}} ELSE {errand[c].todo \ {k} : k \in errand[c].todo} :
          errand' = [errand EXCEPT ![c].at = IF left = {} THEN "ok" ELSE "audit",
                                   ![c].todo = left]
    /\ Still

\* The client hangs up where its handler awaits, or has its answer.
Leave(c) == errand[c].at # "idle" /\ errand' = [errand EXCEPT ![c] = Idle] /\ Still
-----------------------------------------------------------------------------
(* /api/db *)

DbList(c)   == Doing(c, "db_list") /\ DeskGoes(c, "ok") /\ Still
DbGet(c)    == Doing(c, "db_get") /\ Still
               /\ DeskGoes(c, IF rows[Named(c)] = 0 THEN "not_found" ELSE "ok")
\* 501 unless the backend keeps commits.
DbGetAtCommit(c) == Doing(c, "db_get_at_commit") /\ Still
                    /\ \E answer \in {"ok", "not_found", "unsupported"} : DeskGoes(c, answer)

DbPut(c) ==
    /\ Doing(c, "db_put")
    /\ DeskGoes(c, "audit")
    /\ Only([rows EXCEPT ![Named(c)] = 1])

DbDelete(c) ==
    /\ Doing(c, "db_delete")
    /\ DeskGoes(c, "audit")
    /\ Only([rows EXCEPT ![Named(c)] = 0])

\* What the heal does to the two databases is DualDatabase's; here it has healed
\* the given records, or failed on the way with some of them healed.
IntegrityCheck(c) ==
    /\ Doing(c, "integrity_check")
    /\ \E healed \in SUBSET Rows :
          \/ errand' = [errand EXCEPT ![c].at = IF healed = {} THEN "ok" ELSE "audit",
                                  ![c].todo = healed]
          \/ DeskGoes(c, "failed")
    /\ Still
-----------------------------------------------------------------------------
(* /api/backup and /api/migrate; each row stands for a table *)

\* export_backup: table after table, while others write.
BackupExport(c) ==
    /\ Doing(c, "backup_export")
    /\ errand' = [errand EXCEPT ![c].at = "listing", ![c].todo = Rows]
    /\ Still

BackupTable(c) ==
    /\ errand[c].at = "listing"
    /\ \/ \E k \in errand[c].todo :
             errand' = [errand EXCEPT ![c].copy[k] = rows[k], ![c].todo = @ \ {k},
                                  ![c].at = IF errand[c].todo = {k} THEN "write" ELSE @]
       \/ DeskGoes(c, "failed")
    /\ Still

\* The primary and the mirror get the same text; an error if neither takes it.
BackupWrite(c) ==
    /\ errand[c].at = "write"
    /\ \/ /\ file' = [rows |-> errand[c].copy, state |-> "whole"]
          /\ errand' = [errand EXCEPT ![c].at = "audit", ![c].copy = NoRow]
       \/ UNCHANGED file /\ DeskGoes(c, "failed")
    /\ UNCHANGED <<desk, rows, deletions>>

\* import_backup: the file must parse; then its rows, in the map's order.
Import(c) ==
    IF file.state = "whole"
    THEN LET held == {k \in Rows : file.rows[k] # 0}
         IN errand' = [errand EXCEPT ![c].at = IF held = {} THEN "audit" ELSE "restoring",
                                 ![c].todo = held]
    ELSE DeskGoes(c, "failed")

BackupImport(c) == Doing(c, "backup_import") /\ Import(c) /\ Still

\* find_latest_backup
RestoreLatest(c) ==
    /\ Doing(c, "restore_latest")
    /\ IF file.state = "none" THEN DeskGoes(c, "not_found") ELSE Import(c)
    /\ Still

RestoreRow(c) ==
    /\ errand[c].at = "restoring"
    /\ \/ \E k \in errand[c].todo :
             /\ errand' = [errand EXCEPT ![c].todo = @ \ {k},
                                     ![c].at = IF errand[c].todo = {k} THEN "audit" ELSE @]
             /\ Only([rows EXCEPT ![k] = 1])
       \/ errand' = [errand EXCEPT ![c].at = "failed", ![c].todo = {}] /\ Still

\* export_sql and export_csv write files of other names, which no restore reads.
ExportSql(c) == Doing(c, "export_sql") /\ DeskGoes(c, "audit") /\ Still
ExportCsv(c) == Doing(c, "export_csv") /\ DeskGoes(c, "audit") /\ Still
-----------------------------------------------------------------------------
(* /api/feature-flags: the registry is in memory, behind one lock *)

FlagUpsert(c) ==
    /\ Doing(c, "flag_upsert")
    /\ DeskGoes(c, "audit")
    /\ rows' = [rows EXCEPT ![Named(c)] = 1]
    /\ deletions' = [deletions EXCEPT ![Named(c)] = 0]
    /\ UNCHANGED <<desk, file>>

FlagList(c) == Doing(c, "flag_list") /\ DeskGoes(c, "ok") /\ Still
FlagGet(c)  == Doing(c, "flag_get") /\ Still
               /\ DeskGoes(c, IF rows[Named(c)] = 0 THEN "not_found" ELSE "ok")

FlagDeleteUnchecked(c) ==                                \* mutant
    /\ Doing(c, "flag_delete")
    /\ rows' = [rows EXCEPT ![Named(c)] = 0]
    /\ deletions' = [deletions EXCEPT ![Named(c)] = @ + 1]
    /\ DeskGoes(c, "audit")
    /\ UNCHANGED <<desk, file>>
FlagDelete(c) ==
    /\ Doing(c, "flag_delete")
    /\ IF rows[Named(c)] = 0
       THEN DeskGoes(c, "not_found") /\ Still
       ELSE /\ rows' = [rows EXCEPT ![Named(c)] = 0]
            /\ deletions' = [deletions EXCEPT ![Named(c)] = @ + 1]
            /\ DeskGoes(c, "audit")
            /\ UNCHANGED <<desk, file>>

\* Unknown is not "off".
FlagEvaluate(c) == Doing(c, "flag_evaluate") /\ Still
                   /\ DeskGoes(c, IF rows[Named(c)] = 0 THEN "not_found" ELSE "ok")
-----------------------------------------------------------------------------
(* /api/persisted-queries; keyed by the hash of the document *)

QueryRegister(c) ==
    /\ Doing(c, "query_register")
    /\ DeskGoes(c, "audit")
    /\ Only([rows EXCEPT ![Named(c)] = 1])

QueryGet(c) == Doing(c, "query_get") /\ Still
               /\ DeskGoes(c, IF rows[Named(c)] = 0 THEN "not_found" ELSE "ok")
-----------------------------------------------------------------------------
(* /scim/v2/Groups: all groups have the same displayName here *)

GroupList(c) == Doing(c, "group_list") /\ DeskGoes(c, "ok") /\ Still
GroupGet(c)  == Doing(c, "group_get") /\ Still
                /\ DeskGoes(c, IF rows[Named(c)] = 0 THEN "not_found" ELSE "ok")

\* create() lists for the name, then puts under a new id.
GroupCreate(c) ==
    /\ Doing(c, "group_create")
    /\ DeskGoes(c, IF \E k \in Rows : rows[k] # 0 THEN "conflict" ELSE "put")
    /\ Still

\* replace() reads the group it replaces, and asks no one about its new name.
GroupReplace(c) ==
    /\ Doing(c, "group_replace")
    /\ DeskGoes(c, IF rows[Named(c)] = 0 THEN "not_found" ELSE "put")
    /\ Still

GroupPut(c) ==
    /\ errand[c].at = "put"
    /\ \/ DeskGoes(c, "audit") /\ Only([rows EXCEPT ![Named(c)] = 1])
       \/ DeskGoes(c, "failed") /\ Still

GroupDelete(c) ==
    /\ Doing(c, "group_delete")
    /\ DeskGoes(c, "audit")
    /\ Only([rows EXCEPT ![Named(c)] = 0])
-----------------------------------------------------------------------------
(* /api/cache, /api/keys, /api/federation *)

PurgePage(c) ==
    /\ Doing(c, "purge_page")
    /\ DeskGoes(c, "audit")
    /\ Only([rows EXCEPT ![Named(c)] = 0])

PurgeAllPages(c) == Doing(c, "purge_all") /\ DeskGoes(c, "audit") /\ Only(NoRow)

SelfIssueKey(c) ==
    /\ Doing(c, "self_issue")
    /\ DeskGoes(c, "audit")
    /\ Only([rows EXCEPT ![Named(c)] = 1])

\* What is breaking is found against the graph of one lock, the new graph stored
\* under the next.
Breaking(previous, next) == {k \in Rows : previous[k] = 1 /\ next[k] = 0}

Compose(c) ==
    /\ Doing(c, "compose")
    /\ \E next \in [Rows -> 0 .. 1] :
          errand' = [errand EXCEPT ![c].at = "store", ![c].copy = next,
                               ![c].todo = Breaking(rows, next)]
    /\ Still

StoreGraph(c) ==
    /\ errand[c].at = "store"
    /\ errand' = [errand EXCEPT ![c].at = "ok", ![c].copy = NoRow]
    /\ Only(errand[c].copy)

FederationStatus(c) == Doing(c, "federation_status") /\ DeskGoes(c, "ok") /\ Still
-----------------------------------------------------------------------------
\* The process dies and comes back: calls and registries in memory are gone, and
\* a file being written is torn.
CrashRouter ==
    /\ \E c \in Admins : errand[c].at # "idle"
    /\ errand' = [c \in Admins |-> Idle]
    /\ file' = IF \E c \in Admins : errand[c].at = "write"
               THEN [rows |-> NoRow, state |-> "torn"] ELSE file
    /\ rows' = IF desk \in {"flags", "pages", "graph"} THEN NoRow ELSE rows
    /\ deletions' = NoRow
    /\ UNCHANGED desk

AdminInit ==
    /\ desk \in DOMAIN OpsAt
    /\ rows \in IF desk = "pages" THEN [Rows -> 0 .. 1] ELSE {NoRow}
    /\ file = [rows |-> NoRow, state |-> "none"]
    /\ errand = [c \in Admins |-> Idle]
    /\ deletions = NoRow

RecordsNext(c) ==
    DbList(c) \/ DbGet(c) \/ DbGetAtCommit(c) \/ DbPut(c) \/ DbDelete(c) \/ IntegrityCheck(c)
BackupsNext(c) ==
    \/ BackupExport(c) \/ BackupTable(c) \/ BackupWrite(c) \/ BackupImport(c)
    \/ RestoreLatest(c) \/ RestoreRow(c) \/ ExportSql(c) \/ ExportCsv(c)
FlagsNext(c) ==
    FlagUpsert(c) \/ FlagList(c) \/ FlagGet(c) \/ FlagDelete(c) \/ FlagEvaluate(c)
OthersNext(c) ==
    \/ QueryRegister(c) \/ QueryGet(c)
    \/ GroupList(c) \/ GroupGet(c) \/ GroupCreate(c) \/ GroupReplace(c)
    \/ GroupPut(c) \/ GroupDelete(c)
    \/ PurgePage(c) \/ PurgeAllPages(c) \/ SelfIssueKey(c)
    \/ Compose(c) \/ StoreGraph(c) \/ FederationStatus(c)

AdminNext ==
    \/ \E c \in Admins :
          \/ Ask(c) \/ Fails(c) \/ Audit(c) \/ Leave(c)
          \/ RecordsNext(c) \/ BackupsNext(c) \/ FlagsNext(c) \/ OthersNext(c)
    \/ CrashRouter

AdminSpec == AdminInit /\ [][AdminNext]_adminVars
-----------------------------------------------------------------------------
Desks == DOMAIN OpsAt
AdminPlaces == {"idle", "act", "audit", "listing", "write", "restoring", "put", "store",
                "ok", "failed", "not_found", "conflict", "unsupported"}

AdminTypeOK ==
    /\ desk \in Desks /\ rows \in [Rows -> 0 .. 1]
    /\ file \in [rows : [Rows -> 0 .. 1], state : {"none", "torn", "whole"}]
    /\ \A c \in Admins :
          /\ errand[c].at \in AdminPlaces
          /\ errand[c].at # "idle" => errand[c].op \in OpsAt[desk]
          /\ errand[c].todo \subseteq Rows /\ errand[c].copy \in [Rows -> 0 .. 1]
    /\ deletions \in [Rows -> Nat]

\* However deletions of one flag race with each other, with upserts and with hung
\* up clients, no two of them are told that they deleted the same flag.
OneDeleteWins == \A k \in Rows : deletions[k] <= 1
=============================================================================

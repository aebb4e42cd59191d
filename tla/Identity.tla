------------------------------- MODULE Identity -------------------------------
(***************************************************************************)
(* Users and their API keys: the SCIM handlers of crates/open-runo-router/ *)
(* src/handlers_hyper.rs on the user store of crates/open-runo-scim/src/   *)
(* lib.rs and on KeyGuardian (keyring.rs).  Creating a user issues a key   *)
(* under the user's name; deactivating or deleting one revokes the keys of *)
(* a name, found by a list and written back one by one.  Every database    *)
(* call is an await between which other handlers run, none is undone when  *)
(* a later one fails, and a handler whose connection closes is dropped.    *)
(*                                                                         *)
(* A call is atomic and ends "ok", "refused" (Err, nothing written) or     *)
(* "unacked" (Err, yet written).  A handler that answers before it wrote   *)
(* anything (401, 404, 409, a failing first read) is no step at all.       *)
(***************************************************************************)
EXTENDS Naturals, FiniteSets

CONSTANTS
    Names,       \* userName values
    Ids, Keys,   \* bound: user ids and key hashes, random and never reused
    Tasks,       \* bound: handlers running at once
    None,
    MaxFaults    \* bound: failed calls and dropped handlers

Outcome == {"ok", "refused", "unacked"}
User == [name : Names, active : BOOLEAN]
\* user: history, the id a key was issued for; the code keeps its name only.
KeyRecord == [owner : Names, revoked : BOOLEAN, user : Ids]

ASSUME IdentityAssumption ==
    /\ None \notin Names \cup Ids \cup User \cup KeyRecord
    /\ MaxFaults \in Nat

VARIABLES
    users,      \* table scim_users
    keys,       \* table api_keys
    born,       \* ids handed out so far
    task,       \* where each handler stands
    faults,     \* faults so far
    sealed,     \* history: names deprovisioned with no key issued since
    crossed     \* history: names put by a handler whose check was overtaken

identityVars == <<users, keys, born, task, faults, sealed, crossed>>

\* stale: history, what the handler has read is overtaken by another one.
IdleTask == [pc |-> "idle", id |-> None, name |-> None, active |-> FALSE,
             todo |-> {}, stale |-> FALSE]

-----------------------------------------------------------------------------
(* Helpers.  An operator marked "mutant" is a plausible mistake in the      *)
(* definition that follows it; the specification does not use it.          *)

\* What find_by_user_name may return.
Holders(n) == {i \in Ids : users[i] # None /\ users[i].name = n}

\* The keys of an owner that still verify.
AllLiveKeys(n) == {k \in Keys : keys[k] # None /\ ~keys[k].revoked}      \* mutant
LiveKeys(n) == {k \in Keys : keys[k] # None /\ keys[k].owner = n /\ ~keys[k].revoked}

Written(o) == o # "refused"
Fault(o) ==
    /\ o # "ok" => faults < MaxFaults
    /\ faults' = IF o = "ok" THEN faults ELSE faults + 1

\* put of a user: i now has name n, which overtakes others about to take it;
\* the handler t goes on to next.
PutUser(t, i, n, o, next) ==
    LET taking(s) == task[s].pc \in {"create", "replace"} /\ task[s].name = n /\ task[s].id # i
    IN  /\ Fault(o)
        /\ users' = IF Written(o) THEN [users EXCEPT ![i] = [name |-> n, active |-> task[t].active]]
                                  ELSE users
        /\ crossed' = IF Written(o) /\ task[t].stale THEN crossed \cup {n} ELSE crossed
        /\ task' = [s \in Tasks |->
                      IF s = t THEN (IF o = "ok" THEN next ELSE IdleTask)
                      ELSE IF Written(o) /\ taking(s) THEN [task[s] EXCEPT !.stale = TRUE]
                      ELSE task[s]]
        /\ UNCHANGED <<keys, sealed>>

-----------------------------------------------------------------------------
(* POST /scim/v2/Users: the userName must be free; then a key is issued.   *)

CreateCheck(t, n, active) ==
    /\ task[t].pc = "idle"
    /\ Holders(n) = {}
    /\ task' = [task EXCEPT ![t] = [IdleTask EXCEPT !.pc = "create", !.name = n,
                                                    !.active = active]]
    /\ UNCHANGED <<users, keys, born, faults, sealed, crossed>>

CreatePut(t, i, o) ==
    /\ task[t].pc = "create"
    /\ i \in Ids \ born
    /\ born' = born \cup {i}
    /\ PutUser(t, i, task[t].name, o, [task[t] EXCEPT !.pc = "issue", !.id = i])

\* KeyGuardian::issue; the handler answers 201 whatever comes of it.
IssueKey(t, k, o) ==
    LET n == task[t].name
    IN  /\ task[t].pc = "issue"
        /\ k \in Keys /\ keys[k] = None
        /\ Fault(o)
        /\ keys' = IF Written(o)
                     THEN [keys EXCEPT ![k] = [owner |-> n, revoked |-> FALSE, user |-> task[t].id]]
                     ELSE keys
        /\ task' = [s \in Tasks |->
                      IF s = t THEN IdleTask
                      ELSE IF Written(o) /\ task[s].pc = "revoking" /\ task[s].name = n
                        THEN [task[s] EXCEPT !.stale = TRUE] ELSE task[s]]
        /\ sealed' = IF Written(o) THEN sealed \ {n} ELSE sealed
        /\ UNCHANGED <<users, born, crossed>>

-----------------------------------------------------------------------------
(* PUT /scim/v2/Users/:id                                                   *)

ReplaceGetUnchecked(t, i, n, active) ==                \* mutant
    /\ task[t].pc = "idle"
    /\ users[i] # None
    /\ task' = [task EXCEPT ![t] = [IdleTask EXCEPT !.pc = "replace", !.id = i, !.name = n,
                                                    !.active = active]]
    /\ UNCHANGED <<users, keys, born, faults, sealed, crossed>>
ReplaceGet(t, i, n, active) ==
    /\ task[t].pc = "idle"
    /\ users[i] # None
    /\ task' = [task EXCEPT ![t] =
                  [IdleTask EXCEPT !.pc = IF users[i].name = n THEN "replace" ELSE "check",
                                   !.id = i, !.name = n, !.active = active]]
    /\ UNCHANGED <<users, keys, born, faults, sealed, crossed>>

\* A new userName must be free; of several users that have it, the one found
\* first decides.
ReplaceCheck(t) ==
    LET found == Holders(task[t].name)
    IN  /\ task[t].pc = "check"
        /\ \/ /\ found = {} \/ task[t].id \in found
              /\ task' = [task EXCEPT ![t].pc = "replace"]
           \/ /\ found \ {task[t].id} # {}
              /\ task' = [task EXCEPT ![t] = IdleTask]
        /\ UNCHANGED <<users, keys, born, faults, sealed, crossed>>

\* The whole record is written back; a user made inactive loses the keys of
\* its (new) name.
ReplacePut(t, o) ==
    /\ task[t].pc = "replace"
    /\ PutUser(t, task[t].id, task[t].name, o,
               IF task[t].active THEN IdleTask ELSE [task[t] EXCEPT !.pc = "revoke"])
    /\ UNCHANGED born

-----------------------------------------------------------------------------
(* DELETE /scim/v2/Users/:id                                                *)

DeleteGet(t, i) ==
    /\ task[t].pc = "idle"
    /\ i \in born
    /\ task' = [task EXCEPT ![t] =
                  [IdleTask EXCEPT !.pc = "delete", !.id = i,
                                   !.name = IF users[i] = None THEN None ELSE users[i].name]]
    /\ UNCHANGED <<users, keys, born, faults, sealed, crossed>>

DeletePut(t, o) ==
    /\ task[t].pc = "delete"
    /\ Fault(o)
    /\ users' = IF Written(o) THEN [users EXCEPT ![task[t].id] = None] ELSE users
    /\ task' = [task EXCEPT ![t] = IF o = "ok" /\ task[t].name # None
                                     THEN [@ EXCEPT !.pc = "revoke"] ELSE IdleTask]
    /\ UNCHANGED <<keys, born, sealed, crossed>>

-----------------------------------------------------------------------------
(* KeyGuardian::revoke_owner, awaited by the two handlers above.            *)

RevokeList(t) ==
    LET n == task[t].name
        found == LiveKeys(n)
    IN  /\ task[t].pc = "revoke"
        /\ task' = [task EXCEPT ![t] = IF found = {} THEN IdleTask
                      ELSE [@ EXCEPT !.pc = "revoking", !.todo = found, !.stale = FALSE]]
        /\ sealed' = IF found = {} THEN sealed \cup {n} ELSE sealed
        /\ UNCHANGED <<users, keys, born, faults, crossed>>

\* An error ends the loop; the handler answers as if nothing had happened.
RevokePutGoingOn(t, k, o) ==                           \* mutant
    LET left == task[t].todo \ {k}
    IN  /\ task[t].pc = "revoking" /\ k \in task[t].todo
        /\ Fault(o)
        /\ keys' = IF Written(o) THEN [keys EXCEPT ![k].revoked = TRUE] ELSE keys
        /\ task' = [task EXCEPT ![t] = IF left # {} THEN [@ EXCEPT !.todo = left] ELSE IdleTask]
        /\ sealed' = IF left = {} /\ ~task[t].stale THEN sealed \cup {task[t].name} ELSE sealed
        /\ UNCHANGED <<users, born, crossed>>
RevokePut(t, k, o) ==
    LET left == task[t].todo \ {k}
    IN  /\ task[t].pc = "revoking" /\ k \in task[t].todo
        /\ Fault(o)
        /\ keys' = IF Written(o) THEN [keys EXCEPT ![k].revoked = TRUE] ELSE keys
        /\ task' = [task EXCEPT ![t] = IF o = "ok" /\ left # {} THEN [@ EXCEPT !.todo = left]
                                                                ELSE IdleTask]
        /\ sealed' = IF o = "ok" /\ left = {} /\ ~task[t].stale
                       THEN sealed \cup {task[t].name} ELSE sealed
        /\ UNCHANGED <<users, born, crossed>>

\* The handler is dropped at an await, or a read it awaits fails.
Abandon(t) ==
    /\ task[t].pc # "idle"
    /\ Fault("refused")
    /\ task' = [task EXCEPT ![t] = IdleTask]
    /\ UNCHANGED <<users, keys, born, sealed, crossed>>

-----------------------------------------------------------------------------
IdentityInit ==
    /\ users = [i \in Ids |-> None]
    /\ keys = [k \in Keys |-> None]
    /\ born = {}
    /\ task = [t \in Tasks |-> IdleTask]
    /\ faults = 0
    /\ sealed = {}
    /\ crossed = {}

Create(t) ==
    \/ \E n \in Names, active \in BOOLEAN : CreateCheck(t, n, active)
    \/ \E i \in Ids, o \in Outcome : CreatePut(t, i, o)
    \/ \E k \in Keys, o \in Outcome : IssueKey(t, k, o)
Replace(t) ==
    \/ \E i \in Ids, n \in Names, active \in BOOLEAN : ReplaceGet(t, i, n, active)
    \/ ReplaceCheck(t)
    \/ \E o \in Outcome : ReplacePut(t, o)
Delete(t) ==
    \/ \E i \in Ids : DeleteGet(t, i)
    \/ \E o \in Outcome : DeletePut(t, o)
RevokeOwner(t) ==
    \/ RevokeList(t)
    \/ \E k \in Keys, o \in Outcome : RevokePut(t, k, o)

IdentityNext == \E t \in Tasks : Create(t) \/ Replace(t) \/ Delete(t) \/ RevokeOwner(t) \/ Abandon(t)

IdentitySpec == IdentityInit /\ [][IdentityNext]_identityVars

-----------------------------------------------------------------------------
(* Properties.                                                              *)

\* IdentityTypeOK: every variable has its type, only ids handed out have users, and a
\* handler that revokes has keys left to revoke, all of its owner's name.
Pc == {"idle", "create", "issue", "check", "replace", "delete", "revoke", "revoking"}
TaskState == [pc : Pc, id : Ids \cup {None}, name : Names \cup {None}, active : BOOLEAN,
              todo : SUBSET Keys, stale : BOOLEAN]
IdentityTypeOK ==
    /\ users \in [Ids -> User \cup {None}]
    /\ keys \in [Keys -> KeyRecord \cup {None}]
    /\ born \subseteq Ids
    /\ task \in [Tasks -> TaskState]
    /\ faults \in 0 .. MaxFaults
    /\ sealed \subseteq Names /\ crossed \subseteq Names
    /\ \A t \in Tasks :
          /\ task[t].pc \in {"create", "issue", "check", "replace", "revoke", "revoking"} =>
                task[t].name \in Names
          /\ task[t].pc \in {"issue", "check", "replace", "delete"} => task[t].id \in Ids
          /\ task[t].pc = "create" => task[t].id = None
          /\ task[t].pc = "revoking" => task[t].todo # {}
          /\ \A k \in task[t].todo : keys[k] # None /\ keys[k].owner = task[t].name

\* A deactivation or deletion whose calls all succeed takes the last key from
\* the user's name, and no key of that name verifies until one is issued
\* again (keyring.rs:171): whatever other handlers revoke, fail or drop
\* meanwhile, and unless a key was issued while this one was revoking.
SealedHasNoKey == \A n \in sealed : LiveKeys(n) = {}

\* Two users never have one name (scim/src/lib.rs:108, 156), unless a handler
\* put a name that another one had taken since its check.
NamesUnique == \A n \in Names \ crossed : \A i, j \in Holders(n) : i = j

\* Deactivating or deleting a user kills the key issued to that user
\* (keyring.rs:10).
DeprovisionKillsKeys ==
    [][\A t \in Tasks : task[t].pc \in {"revoke", "revoking"} /\ task'[t].pc = "idle" =>
         \A k \in Keys : keys'[k] # None /\ keys'[k].user = task[t].id => keys'[k].revoked]_identityVars
=============================================================================

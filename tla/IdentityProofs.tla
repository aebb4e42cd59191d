---------------------------- MODULE IdentityProofs ----------------------------
(***************************************************************************)
(* Users and keys of Identity, proved for every set of names, ids, keys    *)
(* and handlers and every number of faults.                                *)
(***************************************************************************)
EXTENDS Identity, TLAPS

\* A handler that revokes a name, and was not overtaken by an issue, still has
\* every live key of that name on its list.
RevokesAll ==
    \A t \in Tasks : task[t].pc = "revoking" /\ ~task[t].stale =>
        LiveKeys(task[t].name) \subseteq task[t].todo

\* Nobody but its own user holds the name a handler is about to put.
TakersAlone ==
    \A t \in Tasks : task[t].pc \in {"create", "replace"} /\ ~task[t].stale /\ task[t].name \notin crossed =>
        Holders(task[t].name) \subseteq {task[t].id}

IInv == IdentityTypeOK /\ SealedHasNoKey /\ RevokesAll /\ NamesUnique /\ TakersAlone

USE IdentityAssumption

LEMMA InitIInv == IdentityInit => IInv
<1> SUFFICES ASSUME IdentityInit PROVE IInv
  OBVIOUS
<1>1. IdleTask \in TaskState
  BY DEF IdleTask, TaskState, Pc
<1>2. IdentityTypeOK
  <2>1. \A t \in Tasks : task[t].pc = "idle" /\ task[t].todo = {}
    BY DEF IdentityInit, IdleTask
  <2>2. task \in [Tasks -> TaskState]
    BY <1>1 DEF IdentityInit
  <2>3. users \in [Ids -> User \cup {None}] /\ keys \in [Keys -> KeyRecord \cup {None}]
    BY DEF IdentityInit
  <2>4. born \subseteq Ids /\ faults \in 0 .. MaxFaults /\ sealed \subseteq Names /\ crossed \subseteq Names
    BY DEF IdentityInit
  <2> QED BY <2>1, <2>2, <2>3, <2>4 DEF IdentityTypeOK
<1>3. SealedHasNoKey /\ NamesUnique /\ RevokesAll /\ TakersAlone
  BY DEF IdentityInit, SealedHasNoKey, NamesUnique, RevokesAll, TakersAlone, IdleTask, Holders
<1> QED BY <1>2, <1>3 DEF IInv

-----------------------------------------------------------------------------
(* A handler on its own: what its step must satisfy to preserve the         *)
(* invariant when it writes no table.                                       *)

\* A record that fits the step of handler t.
Fits(r) ==
    /\ r \in TaskState
    /\ r.pc \in {"create", "issue", "check", "replace", "revoke", "revoking"} => r.name \in Names
    /\ r.pc \in {"issue", "check", "replace", "delete"} => r.id \in Ids
    /\ r.pc = "create" => r.id = None
    /\ r.pc = "revoking" => r.todo # {}
    /\ \A k \in r.todo : keys[k] # None /\ keys[k].owner = r.name
    /\ r.pc = "revoking" /\ ~r.stale => LiveKeys(r.name) \subseteq r.todo
    /\ r.pc \in {"create", "replace"} /\ ~r.stale /\ r.name \notin crossed =>
          Holders(r.name) \subseteq {r.id}

LEMMA IdleFits == Fits(IdleTask)
BY DEF Fits, IdleTask, TaskState, Pc

LEMMA LocalStep ==
    ASSUME IInv, NEW t \in Tasks, NEW r, Fits(r),
           task' = [task EXCEPT ![t] = r],
           UNCHANGED <<users, keys, born, crossed>>,
           faults' \in 0 .. MaxFaults,
           sealed' = sealed \/ (\E n \in Names : LiveKeys(n) = {} /\ sealed' = sealed \cup {n})
    PROVE  IInv'
<1>1. \A s \in Tasks : task'[s] = IF s = t THEN r ELSE task[s]
  BY DEF IInv, IdentityTypeOK
<1>2. \A n : LiveKeys(n)' = LiveKeys(n) /\ Holders(n)' = Holders(n)
  BY DEF LiveKeys, Holders
<1>3. SealedHasNoKey'
  BY <1>2 DEF IInv, SealedHasNoKey
<1>4. NamesUnique'
  BY <1>2 DEF IInv, NamesUnique
<1>5. RevokesAll'
  BY <1>1, <1>2 DEF IInv, RevokesAll, Fits
<1>6. TakersAlone'
  BY <1>1, <1>2 DEF IInv, TakersAlone, Fits
<1>7. IdentityTypeOK'
  BY <1>1 DEF IInv, IdentityTypeOK, Fits
<1> QED BY <1>3, <1>4, <1>5, <1>6, <1>7 DEF IInv

LEMMA FaultType ==
    ASSUME IdentityTypeOK, NEW o, Fault(o)
    PROVE  faults' \in 0 .. MaxFaults
BY DEF Fault, IdentityTypeOK

-----------------------------------------------------------------------------
(* Steps that write no table.                                               *)

LEMMA CreateCheckKeeps ==
    ASSUME IInv, NEW t \in Tasks, NEW n \in Names, NEW active \in BOOLEAN, CreateCheck(t, n, active)
    PROVE  IInv'
<1> DEFINE r == [IdleTask EXCEPT !.pc = "create", !.name = n, !.active = active]
<1>1. r \in TaskState /\ r.pc = "create" /\ r.id = None /\ r.name = n /\ r.todo = {}
  BY DEF IdleTask, TaskState, Pc
<1>2. Fits(r)
  BY <1>1 DEF Fits, CreateCheck
<1>3. task' = [task EXCEPT ![t] = r]
  BY DEF CreateCheck
<1> QED BY <1>2, <1>3, LocalStep DEF CreateCheck, IInv, IdentityTypeOK

LEMMA ReplaceGetKeeps ==
    ASSUME IInv, NEW t \in Tasks, NEW i \in Ids, NEW n \in Names, NEW active \in BOOLEAN,
           ReplaceGet(t, i, n, active)
    PROVE  IInv'
<1> DEFINE r == [IdleTask EXCEPT !.pc = IF users[i].name = n THEN "replace" ELSE "check",
                                 !.id = i, !.name = n, !.active = active]
<1>1. /\ r \in TaskState /\ r.id = i /\ r.name = n /\ r.todo = {}
      /\ r.pc = IF users[i].name = n THEN "replace" ELSE "check"
  BY DEF IdleTask, TaskState, Pc
<1>2. users[i].name = n /\ n \notin crossed => Holders(n) \subseteq {i}
  BY DEF ReplaceGet, IInv, NamesUnique, Holders
<1>3. Fits(r)
  BY <1>1, <1>2 DEF Fits
<1>4. task' = [task EXCEPT ![t] = r]
  BY DEF ReplaceGet
<1> QED BY <1>3, <1>4, LocalStep DEF ReplaceGet, IInv, IdentityTypeOK

LEMMA ReplaceCheckKeeps ==
    ASSUME IInv, NEW t \in Tasks, ReplaceCheck(t)
    PROVE  IInv'
<1> DEFINE r == [task[t] EXCEPT !.pc = "replace"]
<1>1. task[t] \in TaskState /\ task[t].pc = "check" /\ task[t].id \in Ids /\ task[t].name \in Names
  BY DEF IInv, IdentityTypeOK, ReplaceCheck
<1>2. /\ r \in TaskState /\ r.pc = "replace" /\ r.id = task[t].id /\ r.name = task[t].name
      /\ r.todo = task[t].todo
  BY <1>1 DEF TaskState, Pc
<1>3. CASE /\ Holders(task[t].name) = {} \/ task[t].id \in Holders(task[t].name)
           /\ task' = [task EXCEPT ![t].pc = "replace"]
  <2>1. task[t].name \notin crossed => Holders(task[t].name) \subseteq {task[t].id}
    BY <1>1, <1>3 DEF IInv, NamesUnique
  <2>2. \A k \in r.todo : keys[k] # None /\ keys[k].owner = r.name
    BY <1>2 DEF IInv, IdentityTypeOK
  <2>3. Fits(r)
    BY <1>1, <1>2, <2>1, <2>2 DEF Fits
  <2>4. task' = [task EXCEPT ![t] = r]
    BY <1>3
  <2> QED BY <2>3, <2>4, LocalStep DEF ReplaceCheck, IInv, IdentityTypeOK
<1>4. CASE task' = [task EXCEPT ![t] = IdleTask]
  BY <1>4, IdleFits, LocalStep DEF ReplaceCheck, IInv, IdentityTypeOK
<1> QED BY <1>3, <1>4 DEF ReplaceCheck

LEMMA DeleteGetKeeps ==
    ASSUME IInv, NEW t \in Tasks, NEW i \in Ids, DeleteGet(t, i)
    PROVE  IInv'
<1> DEFINE n == IF users[i] = None THEN None ELSE users[i].name
           r == [IdleTask EXCEPT !.pc = "delete", !.id = i, !.name = n]
<1>1. n \in Names \cup {None}
  BY DEF IInv, IdentityTypeOK, User
<1>2. r \in TaskState /\ r.pc = "delete" /\ r.id = i /\ r.todo = {}
  BY <1>1 DEF IdleTask, TaskState, Pc
<1>3. Fits(r)
  BY <1>2 DEF Fits
<1>4. task' = [task EXCEPT ![t] = r]
  BY DEF DeleteGet
<1> QED BY <1>3, <1>4, LocalStep DEF DeleteGet, IInv, IdentityTypeOK

LEMMA RevokeListKeeps ==
    ASSUME IInv, NEW t \in Tasks, RevokeList(t)
    PROVE  IInv'
<1> DEFINE n == task[t].name
           r == [task[t] EXCEPT !.pc = "revoking", !.todo = LiveKeys(n), !.stale = FALSE]
<1>1. task[t] \in TaskState /\ n \in Names
  BY DEF IInv, IdentityTypeOK, RevokeList
<1>2. CASE LiveKeys(n) = {}
  BY <1>1, <1>2, IdleFits, LocalStep DEF RevokeList, IInv, IdentityTypeOK
<1>3. CASE LiveKeys(n) # {}
  <2>1. LiveKeys(n) \subseteq Keys
    BY DEF LiveKeys
  <2>2. r \in TaskState /\ r.pc = "revoking" /\ r.name = n /\ r.todo = LiveKeys(n) /\ r.stale = FALSE
    BY <1>1, <2>1 DEF TaskState, Pc
  <2>3. \A k \in LiveKeys(n) : keys[k] # None /\ keys[k].owner = n
    BY DEF LiveKeys
  <2>4. Fits(r)
    BY <1>1, <1>3, <2>2, <2>3 DEF Fits
  <2>5. task' = [task EXCEPT ![t] = r] /\ sealed' = sealed
    BY <1>3 DEF RevokeList
  <2> QED BY <2>4, <2>5, LocalStep DEF RevokeList, IInv, IdentityTypeOK
<1> QED BY <1>2, <1>3

LEMMA AbandonKeeps ==
    ASSUME IInv, NEW t \in Tasks, Abandon(t)
    PROVE  IInv'
<1>1. faults' \in 0 .. MaxFaults
  BY FaultType DEF Abandon, IInv
<1> QED BY <1>1, IdleFits, LocalStep DEF Abandon

-----------------------------------------------------------------------------
(* Steps that write a table.                                                *)

\* What a handler that has put a user goes on with.
Follows(r, t) ==
    /\ r \in TaskState
    /\ r.pc \in {"idle", "issue", "revoke"}
    /\ r.pc # "idle" => r.name \in Names
    /\ r.pc = "issue" => r.id \in Ids
    /\ r.todo = {} \/ (r.todo = task[t].todo /\ r.name = task[t].name)

LEMMA PutUserKeeps ==
    ASSUME IInv, NEW t \in Tasks, NEW i \in Ids, NEW o, NEW next,
           task[t].pc \in {"create", "replace"},
           task[t].id = None \/ task[t].id = i,
           born' \subseteq Ids,
           Follows(next, t),
           PutUser(t, i, task[t].name, o, next)
    PROVE  IInv'
<1>0. PICK n \in Names : n = task[t].name
  BY DEF IInv, IdentityTypeOK
<1>1. task[t] \in TaskState /\ [name |-> n, active |-> task[t].active] \in User
  BY DEF IInv, IdentityTypeOK, TaskState, User
<1>2. Follows(IdleTask, t)
  BY DEF Follows, IdleTask, TaskState, Pc
<1>3. PICK r : Follows(r, t) /\ task'[t] = r
  BY <1>2 DEF PutUser
<1>4. \A s \in Tasks \ {t} :
        \/ task'[s] = task[s]
        \/ task'[s] = [task[s] EXCEPT !.stale = TRUE] /\ task[s].pc \in {"create", "replace"}
  BY DEF PutUser
<1>5. \A s \in Tasks \ {t} :
        /\ task'[s] \in TaskState
        /\ task'[s].pc = task[s].pc /\ task'[s].id = task[s].id /\ task'[s].name = task[s].name
        /\ task'[s].todo = task[s].todo
        /\ task'[s].stale = task[s].stale \/ task[s].pc \in {"create", "replace"}
        /\ task[s].stale => task'[s].stale
  <2>1. TAKE s \in Tasks \ {t}
  <2>2. task[s] \in TaskState
    BY DEF IInv, IdentityTypeOK
  <2>3. CASE task'[s] = task[s]
    BY <2>2, <2>3
  <2>4. CASE task'[s] = [task[s] EXCEPT !.stale = TRUE] /\ task[s].pc \in {"create", "replace"}
    BY <2>2, <2>4 DEF TaskState
  <2> QED BY <1>4, <2>3, <2>4
<1>6. keys' = keys /\ sealed' = sealed /\ \A m : LiveKeys(m)' = LiveKeys(m)
  BY DEF PutUser, LiveKeys
<1>7. /\ users' \in [Ids -> User \cup {None}]
      /\ crossed' \subseteq Names /\ crossed \subseteq crossed'
      /\ faults' \in 0 .. MaxFaults
  BY <1>0, <1>1, FaultType DEF PutUser, IInv, IdentityTypeOK
<1>8. task' \in [Tasks -> TaskState]
  <2>1. \A s \in Tasks : task'[s] \in TaskState
    BY <1>3, <1>5 DEF Follows
  <2> QED BY <2>1 DEF PutUser
<1>9. IdentityTypeOK'
  <2>1. \A s \in Tasks :
          /\ task'[s].pc \in {"create", "issue", "check", "replace", "revoke", "revoking"} =>
                task'[s].name \in Names
          /\ task'[s].pc \in {"issue", "check", "replace", "delete"} => task'[s].id \in Ids
          /\ task'[s].pc = "create" => task'[s].id = None
          /\ task'[s].pc = "revoking" => task'[s].todo # {}
    BY <1>3, <1>5 DEF Follows, IInv, IdentityTypeOK
  <2>2. \A s \in Tasks : \A k \in task'[s].todo : keys[k] # None /\ keys[k].owner = task'[s].name
    BY <1>3, <1>5 DEF Follows, IInv, IdentityTypeOK
  <2> QED BY <1>6, <1>7, <1>8, <2>1, <2>2 DEF IInv, IdentityTypeOK
<1>10. SealedHasNoKey' /\ RevokesAll'
  <2>1. SealedHasNoKey'
    BY <1>6 DEF IInv, SealedHasNoKey
  <2>2. \A s \in Tasks : task'[s].pc = "revoking" /\ ~task'[s].stale =>
            s # t /\ task[s].pc = "revoking" /\ ~task[s].stale
    BY <1>3, <1>5 DEF Follows
  <2>3. RevokesAll'
    BY <1>5, <1>6, <2>2 DEF IInv, RevokesAll
  <2> QED BY <2>1, <2>3
<1>11. \A m : m # n => Holders(m)' \subseteq Holders(m)
  BY <1>0, <1>1 DEF PutUser, Holders, IInv, IdentityTypeOK
<1>12. Holders(n)' \subseteq Holders(n) \cup {i}
  BY <1>0 DEF PutUser, Holders, IInv, IdentityTypeOK
<1>13. ~Written(o) => users' = users
  BY DEF PutUser
<1>14. Written(o) /\ task[t].stale => n \in crossed'
  BY <1>0 DEF PutUser
<1>15. ~task[t].stale /\ n \notin crossed => Holders(n) \subseteq {i}
  <2>1. None \notin Holders(n)
    BY DEF Holders
  <2> QED BY <1>0, <2>1 DEF IInv, TakersAlone
<1>16. NamesUnique'
  <2>1. CASE ~Written(o)
    BY <1>7, <1>13, <2>1 DEF IInv, NamesUnique, Holders
  <2>2. CASE Written(o)
    <3>1. ASSUME NEW m \in Names \ crossed' PROVE \A a, b \in Holders(m)' : a = b
      <4>1. CASE m = n
        <5>1. ~task[t].stale /\ n \notin crossed
          BY <1>7, <1>14, <2>2, <3>1, <4>1
        <5>2. Holders(m)' \subseteq {i}
          BY <1>12, <1>15, <4>1, <5>1
        <5> QED BY <5>2
      <4>2. CASE m # n
        BY <1>7, <1>11, <3>1, <4>2 DEF IInv, NamesUnique
      <4> QED BY <4>1, <4>2
    <3> QED BY <3>1 DEF NamesUnique
  <2> QED BY <2>1, <2>2
<1>17. TakersAlone'
  <2>1. SUFFICES ASSUME NEW s \in Tasks, task'[s].pc \in {"create", "replace"}, ~task'[s].stale,
                        NEW m, m = task'[s].name, m \notin crossed'
                 PROVE  Holders(m)' \subseteq {task'[s].id}
    BY DEF TakersAlone
  <2>2. s # t
    BY <1>3, <2>1 DEF Follows
  <2>3. /\ task[s].pc \in {"create", "replace"} /\ ~task[s].stale /\ m \notin crossed
        /\ task[s].name = m /\ task'[s].id = task[s].id
    BY <1>5, <1>7, <2>1, <2>2
  <2>4. Holders(m) \subseteq {task[s].id}
    BY <2>3 DEF IInv, TakersAlone
  <2>5. CASE ~Written(o)
    <3>1. Holders(m)' = Holders(m)
      BY <1>13, <2>5 DEF Holders
    <3> QED BY <2>3, <2>4, <3>1
  <2>6. CASE Written(o) /\ m = n
    <3>1. task[s].id = i
      <4>1. SUFFICES ASSUME task[s].id # i PROVE FALSE
        OBVIOUS
      <4>2. task'[s] = [task[s] EXCEPT !.stale = TRUE]
        BY <1>0, <2>2, <2>3, <2>6, <4>1 DEF PutUser
      <4>3. task[s] \in TaskState
        BY DEF IInv, IdentityTypeOK
      <4> QED BY <2>1, <4>2, <4>3 DEF TaskState
    <3> QED BY <1>12, <2>3, <2>4, <2>6, <3>1
  <2>7. CASE m # n
    BY <1>11, <2>3, <2>4, <2>7
  <2> QED BY <2>5, <2>6, <2>7
<1> QED BY <1>9, <1>10, <1>16, <1>17 DEF IInv

LEMMA CreatePutKeeps ==
    ASSUME IInv, NEW t \in Tasks, NEW i \in Ids, NEW o, CreatePut(t, i, o)
    PROVE  IInv'
<1> DEFINE r == [task[t] EXCEPT !.pc = "issue", !.id = i]
<1>1. /\ task[t] \in TaskState /\ task[t].pc = "create" /\ task[t].name \in Names
      /\ task[t].id = None
  BY DEF IInv, IdentityTypeOK, CreatePut
<1>2. /\ r \in TaskState /\ r.pc = "issue" /\ r.id = i /\ r.name = task[t].name
      /\ r.todo = task[t].todo
  BY <1>1 DEF TaskState, Pc
<1>3. Follows(r, t)
  BY <1>1, <1>2 DEF Follows
<1>4. born' \subseteq Ids
  BY DEF CreatePut, IInv, IdentityTypeOK
<1> QED BY <1>1, <1>3, <1>4, PutUserKeeps DEF CreatePut

LEMMA ReplacePutKeeps ==
    ASSUME IInv, NEW t \in Tasks, NEW o, ReplacePut(t, o)
    PROVE  IInv'
<1> DEFINE r == IF task[t].active THEN IdleTask ELSE [task[t] EXCEPT !.pc = "revoke"]
<1>1. /\ task[t] \in TaskState /\ task[t].pc = "replace" /\ task[t].name \in Names
      /\ task[t].id \in Ids
  BY DEF IInv, IdentityTypeOK, ReplacePut
<1>2. Follows(IdleTask, t)
  BY DEF Follows, IdleTask, TaskState, Pc
<1>3. Follows([task[t] EXCEPT !.pc = "revoke"], t)
  BY <1>1 DEF Follows, TaskState, Pc
<1>4. Follows(r, t)
  BY <1>2, <1>3
<1>5. born' \subseteq Ids
  BY DEF ReplacePut, IInv, IdentityTypeOK
<1> QED BY <1>1, <1>4, <1>5, PutUserKeeps DEF ReplacePut

LEMMA DeletePutKeeps ==
    ASSUME IInv, NEW t \in Tasks, NEW o, DeletePut(t, o)
    PROVE  IInv'
<1>1. /\ task[t] \in TaskState /\ task[t].pc = "delete" /\ task[t].id \in Ids
      /\ \A k \in task[t].todo : keys[k] # None /\ keys[k].owner = task[t].name
  BY DEF IInv, IdentityTypeOK, DeletePut
<1>2. task[t].name # None => task[t].name \in Names
  BY <1>1 DEF TaskState
<1>3. PICK r : /\ r \in TaskState /\ r.pc \in {"idle", "revoke"}
               /\ r.pc = "revoke" => r.name \in Names
               /\ \A k \in r.todo : keys[k] # None /\ keys[k].owner = r.name
               /\ task' = [task EXCEPT ![t] = r]
  <2>1. CASE o = "ok" /\ task[t].name # None
    <3>1. /\ [task[t] EXCEPT !.pc = "revoke"] \in TaskState
          /\ [task[t] EXCEPT !.pc = "revoke"].pc = "revoke"
          /\ [task[t] EXCEPT !.pc = "revoke"].name = task[t].name
          /\ [task[t] EXCEPT !.pc = "revoke"].todo = task[t].todo
      BY <1>1 DEF TaskState, Pc
    <3> QED BY <1>1, <1>2, <2>1, <3>1 DEF DeletePut
  <2>2. CASE ~(o = "ok" /\ task[t].name # None)
    <3>1. IdleTask \in TaskState /\ IdleTask.pc = "idle" /\ IdleTask.todo = {}
      BY DEF IdleTask, TaskState, Pc
    <3> QED BY <2>2, <3>1 DEF DeletePut
  <2> QED BY <2>1, <2>2
<1>4. \A s \in Tasks : task'[s] = IF s = t THEN r ELSE task[s]
  BY <1>3 DEF IInv, IdentityTypeOK
<1>5. \A m : LiveKeys(m)' = LiveKeys(m) /\ Holders(m)' \subseteq Holders(m)
  BY <1>1 DEF DeletePut, LiveKeys, Holders, IInv, IdentityTypeOK
<1>6. /\ users' \in [Ids -> User \cup {None}]
      /\ faults' \in 0 .. MaxFaults
      /\ UNCHANGED <<keys, born, sealed, crossed>>
  BY FaultType DEF DeletePut, IInv, IdentityTypeOK
<1>7. task' \in [Tasks -> TaskState]
  BY <1>3 DEF IInv, IdentityTypeOK
<1>8. IdentityTypeOK'
  BY <1>3, <1>4, <1>6, <1>7 DEF IInv, IdentityTypeOK
<1>9. SealedHasNoKey'
  BY <1>5, <1>6 DEF IInv, SealedHasNoKey
<1>10. NamesUnique'
  BY <1>5, <1>6 DEF IInv, NamesUnique
<1>11. RevokesAll'
  BY <1>3, <1>4, <1>5 DEF IInv, RevokesAll
<1>12. TakersAlone'
  <2>1. ASSUME NEW s \in Tasks, task'[s].pc \in {"create", "replace"}, ~task'[s].stale,
               NEW m, m = task'[s].name, m \notin crossed'
        PROVE  Holders(m)' \subseteq {task'[s].id}
    BY <1>3, <1>4, <1>5, <1>6, <2>1 DEF IInv, TakersAlone
  <2> QED BY <2>1 DEF TakersAlone
<1> QED BY <1>8, <1>9, <1>10, <1>11, <1>12 DEF IInv

LEMMA IssueKeyKeeps ==
    ASSUME IInv, NEW t \in Tasks, NEW k \in Keys, NEW o, IssueKey(t, k, o)
    PROVE  IInv'
<1>0. PICK n \in Names : n = task[t].name
  BY DEF IInv, IdentityTypeOK, IssueKey
<1>1. /\ keys[k] = None /\ task[t].id \in Ids
      /\ [owner |-> n, revoked |-> FALSE, user |-> task[t].id] \in KeyRecord
  BY <1>0 DEF IInv, IdentityTypeOK, IssueKey, KeyRecord
<1>2. IdleTask \in TaskState /\ IdleTask.pc = "idle" /\ IdleTask.todo = {}
  BY DEF IdleTask, TaskState, Pc
<1>3. task'[t] = IdleTask
  BY DEF IssueKey
<1>4. \A s \in Tasks \ {t} :
        \/ task'[s] = task[s] /\ ~(Written(o) /\ task[s].pc = "revoking" /\ task[s].name = n)
        \/ task'[s] = [task[s] EXCEPT !.stale = TRUE] /\ task[s].pc = "revoking"
  BY <1>0 DEF IssueKey
<1>5. \A s \in Tasks \ {t} :
        /\ task'[s] \in TaskState
        /\ task'[s].pc = task[s].pc /\ task'[s].id = task[s].id /\ task'[s].name = task[s].name
        /\ task'[s].todo = task[s].todo
        /\ task[s].pc # "revoking" => task'[s].stale = task[s].stale
        /\ ~task'[s].stale => task'[s] = task[s]
  <2>1. TAKE s \in Tasks \ {t}
  <2>2. task[s] \in TaskState
    BY DEF IInv, IdentityTypeOK
  <2>3. CASE task'[s] = task[s]
    BY <2>2, <2>3
  <2>4. CASE task'[s] = [task[s] EXCEPT !.stale = TRUE] /\ task[s].pc = "revoking"
    BY <2>2, <2>4 DEF TaskState
  <2> QED BY <1>4, <2>3, <2>4
<1>6. /\ keys' \in [Keys -> KeyRecord \cup {None}]
      /\ \A j \in Keys : keys[j] # None => keys'[j] = keys[j]
      /\ faults' \in 0 .. MaxFaults
      /\ UNCHANGED <<users, born, crossed>>
      /\ sealed' \subseteq sealed
  BY <1>0, <1>1, FaultType DEF IssueKey, IInv, IdentityTypeOK
<1>7. \A m : Holders(m)' = Holders(m)
  BY <1>6 DEF Holders
<1>8. \A m : m # n \/ ~Written(o) => LiveKeys(m)' = LiveKeys(m)
  BY <1>0, <1>1 DEF IssueKey, LiveKeys, IInv, IdentityTypeOK
<1>9. IdentityTypeOK'
  <2>1. task' \in [Tasks -> TaskState]
    <3>1. \A s \in Tasks : task'[s] \in TaskState
      BY <1>2, <1>3, <1>5
    <3> QED BY <3>1 DEF IssueKey
  <2>2. \A s \in Tasks : \A j \in task'[s].todo : keys'[j] # None /\ keys'[j].owner = task'[s].name
    <3>1. ASSUME NEW s \in Tasks, NEW j \in task'[s].todo
          PROVE  keys'[j] # None /\ keys'[j].owner = task'[s].name
      <4>1. s # t
        BY <1>2, <1>3, <3>1
      <4>2. j \in Keys /\ keys[j] # None /\ keys[j].owner = task[s].name
        BY <1>5, <3>1, <4>1 DEF IInv, IdentityTypeOK, TaskState
      <4> QED BY <1>5, <1>6, <4>1, <4>2
    <3> QED BY <3>1
  <2>3. \A s \in Tasks :
          /\ task'[s].pc \in {"create", "issue", "check", "replace", "revoke", "revoking"} =>
                task'[s].name \in Names
          /\ task'[s].pc \in {"issue", "check", "replace", "delete"} => task'[s].id \in Ids
          /\ task'[s].pc = "create" => task'[s].id = None
          /\ task'[s].pc = "revoking" => task'[s].todo # {}
    BY <1>2, <1>3, <1>5 DEF IInv, IdentityTypeOK
  <2> QED BY <1>6, <2>1, <2>2, <2>3 DEF IInv, IdentityTypeOK
<1>10. SealedHasNoKey'
  <2>1. ASSUME NEW m \in sealed' PROVE LiveKeys(m)' = {}
    <3>1. m \in sealed /\ (m # n \/ ~Written(o))
      BY <1>0, <2>1 DEF IssueKey
    <3> QED BY <1>8, <3>1 DEF IInv, SealedHasNoKey
  <2> QED BY <2>1 DEF SealedHasNoKey
<1>11. RevokesAll'
  <2>1. ASSUME NEW s \in Tasks, task'[s].pc = "revoking", ~task'[s].stale, NEW m, m = task'[s].name
        PROVE  LiveKeys(m)' \subseteq task'[s].todo
    <3>1. s # t
      BY <1>2, <1>3, <2>1
    <3>2. task'[s] = task[s]
      BY <1>5, <2>1, <3>1
    <3>3. m # n \/ ~Written(o)
      <4>1. CASE task'[s] = task[s] /\ ~(Written(o) /\ task[s].pc = "revoking" /\ task[s].name = n)
        BY <2>1, <4>1
      <4>2. CASE task'[s] = [task[s] EXCEPT !.stale = TRUE]
        <5>1. task[s] \in TaskState
          BY DEF IInv, IdentityTypeOK
        <5> QED BY <2>1, <4>2, <5>1 DEF TaskState
      <4> QED BY <1>4, <3>1, <4>1, <4>2
    <3> QED BY <1>8, <2>1, <3>2, <3>3 DEF IInv, RevokesAll
  <2> QED BY <2>1 DEF RevokesAll
<1>12. NamesUnique'
  BY <1>6, <1>7 DEF IInv, NamesUnique
<1>13. TakersAlone'
  <2>1. ASSUME NEW s \in Tasks, task'[s].pc \in {"create", "replace"}, ~task'[s].stale,
               NEW m, m = task'[s].name, m \notin crossed'
        PROVE  Holders(m)' \subseteq {task'[s].id}
    <3>1. s # t
      BY <1>2, <1>3, <2>1
    <3> QED BY <1>5, <1>6, <1>7, <2>1, <3>1 DEF IInv, TakersAlone
  <2> QED BY <2>1 DEF TakersAlone
<1> QED BY <1>9, <1>10, <1>11, <1>12, <1>13 DEF IInv

LEMMA RevokePutKeeps ==
    ASSUME IInv, NEW t \in Tasks, NEW k \in Keys, NEW o, RevokePut(t, k, o)
    PROVE  IInv'
<1> DEFINE left == task[t].todo \ {k}
           more == [task[t] EXCEPT !.todo = left]
<1>0. PICK n \in Names : n = task[t].name
  BY DEF IInv, IdentityTypeOK, RevokePut
<1>1. /\ task[t] \in TaskState /\ task[t].pc = "revoking" /\ k \in task[t].todo
      /\ keys[k] # None /\ keys[k] \in KeyRecord /\ keys[k].owner = n
      /\ [keys[k] EXCEPT !.revoked = TRUE] \in KeyRecord
      /\ [keys[k] EXCEPT !.revoked = TRUE].owner = n
      /\ [keys[k] EXCEPT !.revoked = TRUE].revoked
  <2>1. keys[k] # None /\ keys[k] \in KeyRecord /\ keys[k].owner = n
    BY <1>0 DEF IInv, IdentityTypeOK, RevokePut
  <2>2. task[t] \in TaskState /\ task[t].pc = "revoking" /\ k \in task[t].todo
    BY DEF IInv, IdentityTypeOK, RevokePut
  <2> QED BY <2>1, <2>2 DEF KeyRecord
<1>2. /\ more \in TaskState /\ more.pc = "revoking" /\ more.name = n /\ more.todo = left
      /\ more.stale = task[t].stale
  BY <1>0, <1>1 DEF TaskState
<1>3. IdleTask \in TaskState /\ IdleTask.pc = "idle" /\ IdleTask.todo = {}
  BY DEF IdleTask, TaskState, Pc
<1>4. PICK r : /\ r = (IF o = "ok" /\ left # {} THEN more ELSE IdleTask)
               /\ task' = [task EXCEPT ![t] = r]
  BY DEF RevokePut
<1>5. \A s \in Tasks : task'[s] = IF s = t THEN r ELSE task[s]
  BY <1>4 DEF IInv, IdentityTypeOK
<1>6. /\ keys' \in [Keys -> KeyRecord \cup {None}]
      /\ \A j \in Keys : keys[j] # None => keys'[j] # None /\ keys'[j].owner = keys[j].owner
  <2>1. keys' = keys \/ keys' = [keys EXCEPT ![k] = [keys[k] EXCEPT !.revoked = TRUE]]
    BY DEF RevokePut
  <2> QED BY <1>1, <2>1 DEF IInv, IdentityTypeOK
<1>7. /\ \A m : LiveKeys(m)' \subseteq LiveKeys(m)
      /\ o = "ok" => \A m : k \notin LiveKeys(m)'
  <2>1. CASE keys' = keys /\ o # "ok"
    BY <2>1 DEF LiveKeys
  <2>2. CASE keys' = [keys EXCEPT ![k] = [keys[k] EXCEPT !.revoked = TRUE]]
    <3>1. /\ keys'[k].revoked
          /\ \A j \in Keys : j # k => keys'[j] = keys[j]
      BY <1>1, <2>2 DEF IInv, IdentityTypeOK
    <3> QED BY <3>1 DEF LiveKeys
  <2> QED BY <2>1, <2>2 DEF RevokePut, Written
<1>8. faults' \in 0 .. MaxFaults /\ UNCHANGED <<users, born, crossed>>
  BY FaultType DEF RevokePut, IInv
<1>9. \A m : Holders(m)' = Holders(m)
  BY <1>8 DEF Holders
<1>10. sealed' = sealed \/ (o = "ok" /\ left = {} /\ ~task[t].stale /\ sealed' = sealed \cup {n})
  BY <1>0 DEF RevokePut
<1>11. ~task[t].stale => LiveKeys(n) \subseteq task[t].todo
  BY <1>0, <1>1 DEF IInv, RevokesAll
<1>12. IdentityTypeOK'
  <2>1. task' \in [Tasks -> TaskState]
    BY <1>2, <1>3, <1>4 DEF IInv, IdentityTypeOK
  <2>2. \A s \in Tasks : \A j \in task'[s].todo : keys'[j] # None /\ keys'[j].owner = task'[s].name
    <3>1. ASSUME NEW s \in Tasks, NEW j \in task'[s].todo
          PROVE  keys'[j] # None /\ keys'[j].owner = task'[s].name
      <4>1. j \in task[s].todo /\ task'[s].name = task[s].name
        BY <1>0, <1>2, <1>3, <1>4, <1>5, <3>1
      <4>2. j \in Keys /\ keys[j] # None /\ keys[j].owner = task[s].name
        BY <4>1 DEF IInv, IdentityTypeOK, TaskState
      <4> QED BY <1>6, <4>1, <4>2
    <3> QED BY <3>1
  <2>3. \A s \in Tasks :
          /\ task'[s].pc \in {"create", "issue", "check", "replace", "revoke", "revoking"} =>
                task'[s].name \in Names
          /\ task'[s].pc \in {"issue", "check", "replace", "delete"} => task'[s].id \in Ids
          /\ task'[s].pc = "create" => task'[s].id = None
          /\ task'[s].pc = "revoking" => task'[s].todo # {}
    BY <1>2, <1>3, <1>4, <1>5 DEF IInv, IdentityTypeOK
  <2>4. sealed' \subseteq Names
    BY <1>10 DEF IInv, IdentityTypeOK
  <2> QED BY <1>6, <1>8, <2>1, <2>2, <2>3, <2>4 DEF IInv, IdentityTypeOK
<1>13. SealedHasNoKey'
  <2>1. ASSUME NEW m \in sealed' PROVE LiveKeys(m)' = {}
    <3>1. CASE m \in sealed
      BY <1>7, <3>1 DEF IInv, SealedHasNoKey
    <3>2. CASE m = n /\ o = "ok" /\ left = {} /\ ~task[t].stale
      BY <1>7, <1>11, <3>2
    <3> QED BY <1>10, <2>1, <3>1, <3>2
  <2> QED BY <2>1 DEF SealedHasNoKey
<1>14. RevokesAll'
  <2>1. ASSUME NEW s \in Tasks, task'[s].pc = "revoking", ~task'[s].stale, NEW m, m = task'[s].name
        PROVE  LiveKeys(m)' \subseteq task'[s].todo
    <3>1. CASE s = t
      BY <1>2, <1>3, <1>4, <1>5, <1>7, <1>11, <2>1, <3>1
    <3>2. CASE s # t
      BY <1>5, <1>7, <2>1, <3>2 DEF IInv, RevokesAll
    <3> QED BY <3>1, <3>2
  <2> QED BY <2>1 DEF RevokesAll
<1>15. NamesUnique'
  BY <1>8, <1>9 DEF IInv, NamesUnique
<1>16. TakersAlone'
  <2>1. ASSUME NEW s \in Tasks, task'[s].pc \in {"create", "replace"}, ~task'[s].stale,
               NEW m, m = task'[s].name, m \notin crossed'
        PROVE  Holders(m)' \subseteq {task'[s].id}
    BY <1>2, <1>3, <1>4, <1>5, <1>8, <1>9, <2>1 DEF IInv, TakersAlone
  <2> QED BY <2>1 DEF TakersAlone
<1> QED BY <1>12, <1>13, <1>14, <1>15, <1>16 DEF IInv

-----------------------------------------------------------------------------
LEMMA NextIInv == IInv /\ [IdentityNext]_identityVars => IInv'
<1> SUFFICES ASSUME IInv, [IdentityNext]_identityVars PROVE IInv'
  OBVIOUS
<1>1. CASE UNCHANGED identityVars
  BY <1>1 DEF identityVars, IInv, IdentityTypeOK, SealedHasNoKey, RevokesAll, NamesUnique, TakersAlone,
              LiveKeys, Holders
<1>2. ASSUME NEW t \in Tasks, Create(t) PROVE IInv'
  BY <1>2, CreateCheckKeeps, CreatePutKeeps, IssueKeyKeeps DEF Create
<1>3. ASSUME NEW t \in Tasks, Replace(t) PROVE IInv'
  BY <1>3, ReplaceGetKeeps, ReplaceCheckKeeps, ReplacePutKeeps DEF Replace
<1>4. ASSUME NEW t \in Tasks, Delete(t) PROVE IInv'
  BY <1>4, DeleteGetKeeps, DeletePutKeeps DEF Delete
<1>5. ASSUME NEW t \in Tasks, RevokeOwner(t) PROVE IInv'
  BY <1>5, RevokeListKeeps, RevokePutKeeps DEF RevokeOwner
<1> QED BY <1>1, <1>2, <1>3, <1>4, <1>5, AbandonKeeps DEF IdentityNext

\* Users, keys and the handlers keep their types, and no handler revokes a key
\* that is not of the name it seals (keyring.rs:171).
THEOREM IdentityTyped == IdentitySpec => []IdentityTypeOK
<1>1. IInv => IdentityTypeOK
  BY DEF IInv
<1> QED BY <1>1, InitIInv, NextIInv, PTL DEF IdentitySpec

\* After a deactivation or deletion whose calls all succeeded no key of the
\* user's name verifies until the next one is issued, however many handlers
\* run beside it, fail half way or are dropped.
THEOREM DeprovisionSticks == IdentitySpec => []SealedHasNoKey
<1>1. IInv => SealedHasNoKey
  BY DEF IInv
<1> QED BY <1>1, InitIInv, NextIInv, PTL DEF IdentitySpec

\* A name is shared only if a handler put it although another one had put it
\* under another id since the check.
THEOREM NameHasOneUser == IdentitySpec => []NamesUnique
<1>1. IInv => NamesUnique
  BY DEF IInv
<1> QED BY <1>1, InitIInv, NextIInv, PTL DEF IdentitySpec
=============================================================================

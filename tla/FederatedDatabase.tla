------------------------- MODULE FederatedDatabase -------------------------
(***************************************************************************)
(* FederatedBackend (open-runo-db, federated.rs): several databases behind *)
(* one interface, seen through one record.  Its table is routed to one     *)
(* member or broadcast to all; members may hold copies from before the     *)
(* federation.  Every call of a member may fail, and a write that fails    *)
(* may have been applied.  federated_config.rs connects the members first. *)
(***************************************************************************)
EXTENDS Integers, FiniteSets

CONSTANTS MemberCount, Users,     \* members 1 .. MemberCount, in declared order
          MaxWritten              \* bound: values written

ASSUME FederatedAssumption == MemberCount \in Nat \ {0} /\ MaxWritten \in Nat \ {0}

Members == 1 .. MemberCount
Unknown == -1
Up == MemberCount + 1
Refused == -1

VARIABLES
    dialled,     \* members connected; then Up, or Refused
    placement,   \* [broadcast, owner]: Placement, with the default member filled in
    copies,      \* per member the value it holds, 0 for none
    written,     \* number of values written
    known,       \* history: what a read should find; Unknown while or after a write
                 \* that overlapped another, failed, or is under way
    call         \* per user: op, its place, the value, what it found, what it should find
fedVars == <<dialled, placement, copies, written, known, call>>

Resting == [op |-> "none", at |-> 0, value |-> 0, ok |-> TRUE, expect |-> Unknown]
Owner == placement.owner
Writing(u) == call[u].op \in {"put", "delete"}
Alone(u) == \A w \in Users \ {u} : ~Writing(w)

Ends(u) == call' = [call EXCEPT ![u] = Resting]
-----------------------------------------------------------------------------
\* FederatedConfig::connect dials the members one after the other; build() refuses
\* routes and defaults that name no member, here the owner 0.
ConnectMember ==
    /\ dialled \in 0 .. MemberCount - 1
    /\ dialled' \in {dialled + 1, Refused}
    /\ UNCHANGED <<placement, copies, written, known, call>>

Build ==
    /\ dialled = MemberCount
    /\ dialled' = IF Owner \in Members THEN Up ELSE Refused
    /\ UNCHANGED <<placement, copies, written, known, call>>

\* A member's answer to a write of v: taken, lost, or taken but not confirmed.
MemberWrites(m, v, ok) ==
    \/ copies' = [copies EXCEPT ![m] = v] /\ ok \in BOOLEAN
    \/ UNCHANGED copies /\ ~ok

\* A write that begins makes every earlier expectation void.
Begin(u, op, at, value) ==
    /\ call' = [w \in Users |->
                  IF w = u THEN [Resting EXCEPT !.op = op, !.at = at, !.value = value,
                                    !.ok = Alone(u)]
                  ELSE IF Writing(w) THEN [call[w] EXCEPT !.ok = FALSE]
                  ELSE [call[w] EXCEPT !.expect = Unknown]]
    /\ known' = Unknown

PutBegins(u) ==
    /\ dialled = Up /\ call[u].op = "none" /\ written < MaxWritten
    /\ written' = written + 1
    /\ Begin(u, "put", IF placement.broadcast THEN 1 ELSE Owner, written + 1)
    /\ UNCHANGED <<dialled, placement, copies>>

DeleteBegins(u) ==
    /\ dialled = Up /\ call[u].op = "none"
    /\ Begin(u, "delete", 1, 0)
    /\ UNCHANGED <<dialled, placement, copies, written>>

\* One member after the other, whatever the ones before it answered; the first
\* error is the result.  ok stays FALSE too where another write overlapped.
WalkOn(u, more) ==
    /\ Writing(u)
    /\ \E ok \in BOOLEAN :
          /\ MemberWrites(call[u].at, call[u].value, ok)
          /\ IF more
             THEN /\ call' = [call EXCEPT ![u].at = @ + 1, ![u].ok = @ /\ ok]
                  /\ UNCHANGED known
             ELSE /\ Ends(u)
                  /\ known' = IF call[u].ok /\ ok THEN call[u].value ELSE known
    /\ UNCHANGED <<dialled, placement, written>>

PutMember(u) ==
    /\ call[u].op = "put"
    /\ WalkOn(u, placement.broadcast /\ call[u].at < MemberCount)

DeleteMemberHolding(u) ==                                \* mutant
    call[u].op = "delete" /\ WalkOn(u, call[u].at < MemberCount /\ ~placement.broadcast)
DeleteMember(u) ==
    call[u].op = "delete" /\ WalkOn(u, call[u].at < MemberCount)
-----------------------------------------------------------------------------
ReadBegins(u) ==
    /\ dialled = Up /\ call[u].op = "none"
    /\ \E op \in {"get", "list"} :
          call' = [call EXCEPT ![u] = [Resting EXCEPT !.op = op, !.expect = known,
                                         !.at = IF op = "get" THEN 0 ELSE MemberCount]]
    /\ UNCHANGED <<dialled, placement, copies, written, known>>

Found(u, v) == call' = [call EXCEPT ![u].op = "answer", ![u].value = v, ![u].at = 0]

\* The owner (place 0), then the members in turn; an error ends it.
GetMember(u) ==
    LET m == IF call[u].at = 0 THEN Owner ELSE call[u].at
    IN /\ call[u].op = "get"
       /\ \/ Ends(u)
          \/ IF copies[m] # 0 \/ call[u].at = MemberCount
             THEN Found(u, copies[m])
             ELSE call' = [call EXCEPT ![u].at = @ + 1]
       /\ UNCHANGED <<dialled, placement, copies, written, known>>

\* The members from the last to the first, then the owner: later copies win.
ListMemberOwnerFirst(u) ==                               \* mutant
    LET m == IF call[u].at = MemberCount THEN Owner ELSE call[u].at + 1
        merged == IF copies[m] # 0 THEN copies[m] ELSE call[u].value
    IN /\ call[u].op = "list"
       /\ \/ Ends(u)
          \/ IF call[u].at = 0 THEN Found(u, merged)
             ELSE call' = [call EXCEPT ![u].at = @ - 1, ![u].value = merged]
       /\ UNCHANGED <<dialled, placement, copies, written, known>>
ListMember(u) ==
    LET m == IF call[u].at = 0 THEN Owner ELSE call[u].at
        merged == IF copies[m] # 0 THEN copies[m] ELSE call[u].value
    IN /\ call[u].op = "list"
       /\ \/ Ends(u)
          \/ IF call[u].at = 0 THEN Found(u, merged)
             ELSE call' = [call EXCEPT ![u].at = @ - 1, ![u].value = merged]
       /\ UNCHANGED <<dialled, placement, copies, written, known>>

Answered(u) ==
    /\ call[u].op = "answer"
    /\ Ends(u)
    /\ UNCHANGED <<dialled, placement, copies, written, known>>
-----------------------------------------------------------------------------
FedInit ==
    /\ dialled = 0
    /\ placement \in [broadcast : BOOLEAN, owner : 0 .. MemberCount]
    /\ copies \in [Members -> 0 .. 1] /\ written = 1
    /\ known = Unknown
    /\ call = [u \in Users |-> Resting]

FedNext ==
    \/ ConnectMember \/ Build
    \/ \E u \in Users : \/ PutBegins(u) \/ DeleteBegins(u) \/ PutMember(u) \/ DeleteMember(u)
                        \/ ReadBegins(u) \/ GetMember(u) \/ ListMember(u) \/ Answered(u)

FedSpec == FedInit /\ [][FedNext]_fedVars
-----------------------------------------------------------------------------
FedTypeOK ==
    /\ dialled \in Refused .. Up
    /\ placement \in [broadcast : BOOLEAN, owner : 0 .. MemberCount]
    /\ copies \in [Members -> 0 .. MaxWritten] /\ written \in 1 .. MaxWritten
    /\ known \in {Unknown} \cup 0 .. MaxWritten
    /\ call \in [Users -> [op : {"none", "put", "delete", "get", "list", "answer"},
                           at : 0 .. MemberCount, value : 0 .. MaxWritten,
                           ok : BOOLEAN, expect : {Unknown} \cup 0 .. MaxWritten]]

\* Wherever the members' old copies are and whichever of them fail, a get or a list
\* that no write overlapped answers what the last write left, if that write was
\* acknowledged and overlapped no other: a deleted record does not come back
\* through the fallback, and a stale copy does not win over the owner's.
ReadsFindLastWrite ==
    \A u \in Users : call[u].op = "answer" /\ call[u].expect # Unknown
                        => call[u].value = call[u].expect
=============================================================================

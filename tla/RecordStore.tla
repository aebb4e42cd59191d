---------------------------- MODULE RecordStore -----------------------------
(***************************************************************************)
(* What a DbBackend promises its callers: one copy of every record, and    *)
(* each put or delete takes effect exactly once between its call and its   *)
(* answer.  DualDatabase implements it with two stores.                    *)
(***************************************************************************)
CONSTANTS Rows, Cells, Absent, Clients

VARIABLES
    rec,        \* rec[r]: the record under row r, or Absent
    pending     \* calls not answered yet; done: the call has taken effect

Request(c, r, x, done) == [client |-> c, row |-> r, val |-> x, done |-> done]

Idle(c) == \A p \in pending : p.client # c

\* A call starts and takes effect later.
Invoke(c, r, x) ==
    /\ Idle(c)
    /\ pending' = pending \cup {Request(c, r, x, FALSE)}
    /\ UNCHANGED rec

\* A call starts and takes effect at once.
InvokeAndApply(c, r, x) ==
    /\ Idle(c)
    /\ pending' = pending \cup {Request(c, r, x, TRUE)}
    /\ rec' = [rec EXCEPT ![r] = x]

\* A call that had no effect yet takes effect and is answered.
ApplyAndReturn(p) ==
    /\ ~p.done
    /\ rec' = [rec EXCEPT ![p.row] = p.val]
    /\ pending' = pending \ {p}

\* A call that has taken effect is answered.
Return(p) ==
    /\ p.done
    /\ pending' = pending \ {p}
    /\ UNCHANGED rec

\* A call starts, takes effect and is answered in one step.
Apply(c, r, x) ==
    /\ Idle(c)
    /\ rec' = [rec EXCEPT ![r] = x]
    /\ UNCHANGED pending

Init ==
    /\ rec = [r \in Rows |-> Absent]
    /\ pending = {}

Next ==
    \/ \E c \in Clients, r \in Rows, x \in Cells :
          Invoke(c, r, x) \/ InvokeAndApply(c, r, x) \/ Apply(c, r, x)
    \/ \E p \in pending : ApplyAndReturn(p) \/ Return(p)

Spec == Init /\ [][Next]_<<rec, pending>>

=============================================================================

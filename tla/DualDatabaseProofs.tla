------------------------- MODULE DualDatabaseProofs -------------------------
(***************************************************************************)
(* Proofs about DualDatabase, for every routing table, every set of keys,  *)
(* values, clients and healers, and every bound.                           *)
(***************************************************************************)
EXTENDS DualDatabase, TLAPS

\* The state a new, or finished, pass has is a pass.
LEMMA IdlePassType == IdlePass \in PassRec
  <1>1. (CHOOSE t \in Tables : TRUE) \in Tables
    BY DualAssumption
  <1>2. NoSnapshot \in [Keys -> Cell]
    BY DEF NoSnapshot, Cell
  <1>3. QED
    BY <1>1, <1>2 DEF IdlePass, PassRec

\* Marking lists stale keeps every pass a pass.
LEMMA OutdatedType ==
    ASSUME NEW p \in PassRec, NEW r \in Row
    PROVE  /\ Outdated(p, r) \in PassRec
           /\ Outdated(p, r).todo = p.todo
           /\ Outdated(p, r).a = p.a
           /\ Outdated(p, r).b = p.b
           /\ Outdated(p, r).phase = p.phase
           /\ Outdated(p, r).table = p.table
           /\ p.phase \in {"listed", "healing"} => Outdated(p, r).stale = p.stale \cup {r}
  BY DEF Outdated, PassRec

\* A backend call leaves both stores functions from rows to cells.
LEMMA CallType ==
    ASSUME TypeOK, NEW side, NEW r \in Row, NEW x \in Cell, NEW o, Call(side, r, x, o)
    PROVE  /\ pg' \in [Row -> Cell]
           /\ ar' \in [Row -> Cell]
  BY DEF Call, TypeOK

LEMMA FaultType ==
    ASSUME TypeOK, NEW o, Fault(o)
    PROVE  faults' \in 0..MaxFaults
  BY DualAssumption DEF Fault, TypeOK

LEMMA NoteSeenType ==
    ASSUME TypeOK, pg' \in [Row -> Cell], ar' \in [Row -> Cell], NoteSeen
    PROVE  reading' \subseteq ReadRec
  <1>1. \A g \in reading : /\ g \in ReadRec
                           /\ g.row \in Row
    BY DEF TypeOK, ReadRec, BothRows
  <1>2. \A g \in reading : Visible(pg', ar', g.row) \in Cell
    BY <1>1 DEF Visible
  <1>3. \A g \in reading : [g EXCEPT !.seen = @ \cup {Visible(pg', ar', g.row)}] \in ReadRec
    BY <1>1, <1>2 DEF ReadRec
  <1>4. QED
    BY <1>3 DEF NoteSeen

LEMMA OutdatePassesType ==
    ASSUME TypeOK, NEW r \in Row, OutdatePasses(r)
    PROVE  /\ pass' \in [Healers -> PassRec]
           /\ \A h \in Healers : \A k \in pass'[h].todo : pass'[h].a[k] # pass'[h].b[k]
  <1>1. \A h \in Healers : pass[h] \in PassRec
    BY DEF TypeOK
  <1>2. \A h \in Healers : pass'[h] = Outdated(pass[h], r)
    BY DEF OutdatePasses
  <1>3. \A h \in Healers : /\ pass'[h] \in PassRec
                           /\ pass'[h].todo = pass[h].todo
                           /\ pass'[h].a = pass[h].a
                           /\ pass'[h].b = pass[h].b
    BY <1>1, <1>2, OutdatedType
  <1>4. pass' = [h \in Healers |-> Outdated(pass[h], r)]
    BY DEF OutdatePasses
  <1>5. QED
    BY <1>3, <1>4 DEF TypeOK

\* A pass that moves on to another record of PassRec, the rest being as before.
LEMMA PassStepType ==
    ASSUME TypeOK, NEW h \in Healers, NEW p \in PassRec,
           \A k \in p.todo : p.a[k] # p.b[k],
           pass' = [pass EXCEPT ![h] = p]
    PROVE  /\ pass' \in [Healers -> PassRec]
           /\ \A i \in Healers : \A k \in pass'[i].todo : pass'[i].a[k] # pass'[i].b[k]
  BY DEF TypeOK

LEMMA WriteFirstType ==
    ASSUME TypeOK, NEW c \in Clients, NEW r \in Row, NEW x \in Valid \cup {Absent},
           NEW o \in Outcome, WriteFirst(c, r, x, o)
    PROVE  TypeOK'
  <1>1. x \in Cell /\ r \in BothRows
    BY DEF WriteFirst, Cell, Value, BothRows
  <1>2. pg' \in [Row -> Cell] /\ ar' \in [Row -> Cell]
    BY <1>1, CallType DEF WriteFirst
  <1>3. faults' \in 0..MaxFaults
    BY FaultType DEF WriteFirst
  <1>4. reading' \subseteq ReadRec
    BY <1>2, NoteSeenType DEF WriteFirst
  <1>5. /\ pass' \in [Healers -> PassRec]
        /\ \A h \in Healers : \A k \in pass'[h].todo : pass'[h].a[k] # pass'[h].b[k]
    BY OutdatePassesType DEF WriteFirst
  <1>6. writing' \subseteq WriteRec
    <2>1. (o = "ok") \in BOOLEAN
      OBVIOUS
    <2>2. [client |-> c, row |-> r, val |-> x, ok |-> (o = "ok")] \in WriteRec
      BY <1>1, <2>1, Zenon DEF WriteRec
    <2>3. QED
      BY <2>2 DEF WriteFirst, TypeOK
  <1>7. writes' \in 0..MaxWrites
    BY DualAssumption DEF WriteFirst, TypeOK
  <1>8. last' \in [Row -> Cell] /\ tainted' \subseteq Row
    BY DEF WriteFirst, TypeOK
  <1>9. QED
    BY <1>2, <1>3, <1>4, <1>5, <1>6, <1>7, <1>8 DEF TypeOK

LEMMA WriteSecondType ==
    ASSUME TypeOK, NEW w \in writing, NEW o \in Outcome, WriteSecond(w, o)
    PROVE  TypeOK'
  <1>1. w \in WriteRec /\ w.row \in Row /\ w.val \in Cell
    BY DEF TypeOK, WriteRec, BothRows
  <1>2. pg' \in [Row -> Cell] /\ ar' \in [Row -> Cell]
    BY <1>1, CallType DEF WriteSecond
  <1>3. faults' \in 0..MaxFaults
    BY FaultType DEF WriteSecond
  <1>4. reading' \subseteq ReadRec
    BY <1>2, NoteSeenType DEF WriteSecond
  <1>5. /\ pass' \in [Healers -> PassRec]
        /\ \A h \in Healers : \A k \in pass'[h].todo : pass'[h].a[k] # pass'[h].b[k]
    BY <1>1, OutdatePassesType DEF WriteSecond
  <1>6. writing' \subseteq WriteRec /\ writes' \in 0..MaxWrites
    BY DEF WriteSecond, TypeOK
  <1>7. last' \in [Row -> Cell] /\ tainted' \subseteq Row
    BY <1>1 DEF WriteSecond, TypeOK
  <1>8. QED
    BY <1>2, <1>3, <1>4, <1>5, <1>6, <1>7 DEF TypeOK

LEMMA WriteSingleType ==
    ASSUME TypeOK, NEW c \in Clients, NEW r \in Row, NEW x \in Valid \cup {Absent},
           NEW o \in Outcome, WriteSingle(c, r, x, o)
    PROVE  TypeOK'
  <1>1. x \in Cell
    BY DEF Cell, Value
  <1>2. pg' \in [Row -> Cell] /\ ar' \in [Row -> Cell]
    BY <1>1, CallType DEF WriteSingle
  <1>3. faults' \in 0..MaxFaults
    BY FaultType DEF WriteSingle
  <1>4. reading' \subseteq ReadRec
    BY <1>2, NoteSeenType DEF WriteSingle
  <1>5. writes' \in 0..MaxWrites
    BY DualAssumption DEF WriteSingle, TypeOK
  <1>6. last' \in [Row -> Cell] /\ tainted' \subseteq Row
    BY <1>1 DEF WriteSingle, TypeOK
  <1>7. QED
    BY <1>2, <1>3, <1>4, <1>5, <1>6 DEF TypeOK, WriteSingle

LEMMA HealKeyType ==
    ASSUME TypeOK, NEW h \in Healers, NEW k \in Keys, NEW o \in Outcome, HealKey(h, k, o)
    PROVE  TypeOK'
  <1> DEFINE p == pass[h]
             r == <<p.table, k>>
             from == HealFrom(p.a[k], p.b[k])
             x == IF from = "Postgres" THEN p.a[k] ELSE p.b[k]
  <1>1. p \in PassRec /\ \A j \in p.todo : p.a[j] # p.b[j]
    BY DEF TypeOK
  <1>2. r \in Row /\ x \in Cell
    BY <1>1 DEF PassRec, Row
  <1>3. pg' \in [Row -> Cell] /\ ar' \in [Row -> Cell]
    BY <1>2, CallType DEF HealKey
  <1>4. faults' \in 0..MaxFaults
    BY FaultType DEF HealKey
  <1>5. reading' \subseteq ReadRec
    BY <1>3, NoteSeenType DEF HealKey
  <1> DEFINE NewPass(i) == IF i # h THEN Outdated(pass[i], r)
                           ELSE IF o = "ok" THEN [p EXCEPT !.todo = @ \ {k}] ELSE IdlePass
  <1>6. ASSUME NEW i \in Healers
        PROVE  /\ NewPass(i) \in PassRec
               /\ \A j \in NewPass(i).todo : NewPass(i).a[j] # NewPass(i).b[j]
    <2>1. CASE i # h
      <3>1. pass[i] \in PassRec /\ \A j \in pass[i].todo : pass[i].a[j] # pass[i].b[j]
        BY DEF TypeOK
      <3>2. NewPass(i) = Outdated(pass[i], r)
        BY <2>1
      <3>3. QED
        BY <3>1, <3>2, <1>2, OutdatedType
    <2>2. CASE i = h /\ o = "ok"
      <3>1. NewPass(i) = [p EXCEPT !.todo = @ \ {k}]
        BY <2>2
      <3>2. QED
        BY <3>1, <1>1 DEF PassRec
    <2>3. CASE i = h /\ o # "ok"
      <3>1. NewPass(i) = IdlePass /\ IdlePass.todo = {}
        BY <2>3 DEF IdlePass
      <3>2. QED
        BY <3>1, IdlePassType
    <2>4. QED
      BY <2>1, <2>2, <2>3
  <1>7. pass' = [i \in Healers |-> NewPass(i)]
    BY DEF HealKey
  <1>8. /\ pass' \in [Healers -> PassRec]
        /\ \A i \in Healers : \A j \in pass'[i].todo : pass'[i].a[j] # pass'[i].b[j]
    <2> HIDE DEF NewPass
    <2>1. QED
      BY <1>6, <1>7
  <1>9. last' \in [Row -> Cell] /\ tainted' \subseteq Row
    BY <1>2 DEF HealKey, TypeOK
  <1>10. writing' \subseteq WriteRec /\ writes' \in 0..MaxWrites
    BY DEF HealKey, TypeOK
  <1>11. QED
    BY <1>3, <1>4, <1>5, <1>8, <1>9, <1>10 DEF TypeOK

-----------------------------------------------------------------------------
(* The type invariant. *)

LEMMA HealerType ==
    ASSUME TypeOK, NEW h \in Healers, HealerStep(h) \/ AbortPass(h)
    PROVE  TypeOK'
  <1>1. pass[h] \in PassRec /\ \A k \in pass[h].todo : pass[h].a[k] # pass[h].b[k]
    BY DEF TypeOK
  <1>2. CASE BeginPass(h)
    <2> DEFINE q == [IdlePass EXCEPT !.phase = "tables", !.tables = BothTables]
    <2>1. q \in PassRec /\ q.todo = {}
      BY IdlePassType DEF PassRec, IdlePass
    <2>2. pass' = [pass EXCEPT ![h] = q]
      BY <1>2 DEF BeginPass
    <2>3. /\ pass' \in [Healers -> PassRec]
          /\ \A i \in Healers : \A k \in pass'[i].todo : pass'[i].a[k] # pass'[i].b[k]
      <3> HIDE DEF q
      <3>1. QED
        BY <2>1, <2>2, PassStepType
    <2>4. QED
      BY <1>2, <2>3 DEF BeginPass, TypeOK
  <1>3. ASSUME NEW t \in Tables, ListPostgres(h, t)
        PROVE  TypeOK'
    <2> DEFINE q == [pass[h] EXCEPT !.phase = "listed", !.table = t,
                                    !.tables = @ \ {t},
                                    !.a = [k \in Keys |-> pg[<<t, k>>]],
                                    !.todo = {},
                                    !.stale = {}]
    <2>1. [k \in Keys |-> pg[<<t, k>>]] \in [Keys -> Cell]
      BY DEF TypeOK, Row
    <2>2. q \in PassRec
      BY <1>1, <2>1 DEF PassRec
    <2>3. q.todo = {}
      BY <1>1 DEF PassRec
    <2>4. pass' = [pass EXCEPT ![h] = q]
      BY <1>3 DEF ListPostgres
    <2>5. /\ pass' \in [Healers -> PassRec]
          /\ \A i \in Healers : \A k \in pass'[i].todo : pass'[i].a[k] # pass'[i].b[k]
      <3> HIDE DEF q
      <3>1. QED
        BY <2>2, <2>3, <2>4, PassStepType
    <2>6. QED
      BY <1>3, <2>5 DEF ListPostgres, TypeOK
  <1>4. CASE ListAruaru(h)
    <2> DEFINE b == [k \in Keys |-> ar[<<pass[h].table, k>>]]
               q == [pass[h] EXCEPT !.phase = "healing", !.b = b,
                                    !.todo = {k \in Keys : pass[h].a[k] # b[k]}]
    <2>1. pass[h].table \in Tables
      BY <1>1 DEF PassRec
    <2>2. b \in [Keys -> Cell]
      BY <2>1 DEF TypeOK, Row
    <2>3. q \in PassRec /\ q.a = pass[h].a /\ q.b = b /\ q.todo = {k \in Keys : pass[h].a[k] # b[k]}
      <3> HIDE DEF b
      <3>1. QED
        BY <1>1, <2>2 DEF PassRec
    <2>4. pass' = [pass EXCEPT ![h] = q]
      BY <1>4 DEF ListAruaru, Differing
    <2>5. \A k \in q.todo : q.a[k] # q.b[k]
      BY <2>3
    <2>6. /\ pass' \in [Healers -> PassRec]
          /\ \A i \in Healers : \A k \in pass'[i].todo : pass'[i].a[k] # pass'[i].b[k]
      <3> HIDE DEF q
      <3>1. QED
        BY <2>3, <2>4, <2>5, PassStepType
    <2>7. QED
      BY <1>4, <2>6 DEF ListAruaru, TypeOK
  <1>5. ASSUME NEW k \in Keys, NEW o \in Outcome, HealKey(h, k, o)
        PROVE  TypeOK'
    BY <1>5, HealKeyType
  <1>6. CASE NextTable(h)
    <2> DEFINE q == IF pass[h].tables = {} THEN IdlePass
                    ELSE [IdlePass EXCEPT !.phase = "tables", !.tables = pass[h].tables]
    <2>1. q \in PassRec /\ q.todo = {}
      BY <1>1, IdlePassType DEF PassRec, IdlePass
    <2>2. pass' = [pass EXCEPT ![h] = q]
      BY <1>6 DEF NextTable
    <2>3. /\ pass' \in [Healers -> PassRec]
          /\ \A i \in Healers : \A k \in pass'[i].todo : pass'[i].a[k] # pass'[i].b[k]
      <3> HIDE DEF q
      <3>1. QED
        BY <2>1, <2>2, PassStepType
    <2>4. QED
      BY <1>6, <2>3 DEF NextTable, TypeOK
  <1>7. CASE AbortPass(h)
    <2>1. IdlePass.todo = {}
      BY DEF IdlePass
    <2>2. /\ pass' \in [Healers -> PassRec]
          /\ \A i \in Healers : \A k \in pass'[i].todo : pass'[i].a[k] # pass'[i].b[k]
      <3>1. pass' = [pass EXCEPT ![h] = IdlePass]
        BY <1>7 DEF AbortPass
      <3>2. QED
        BY <2>1, <3>1, IdlePassType, PassStepType
    <2>3. QED
      BY <1>7, <2>2, DualAssumption DEF AbortPass, TypeOK
  <1>8. QED
    BY <1>2, <1>3, <1>4, <1>5, <1>6, <1>7 DEF HealerStep

LEMMA OtherType ==
    ASSUME TypeOK,
           \/ \E w \in writing : AbandonWrite(w)
           \/ ReaderStep
           \/ \E side \in {"Postgres", "Aruaru"}, r \in Row, x \in Corrupt :
                 Corruption(side, r, x)
    PROVE  TypeOK'
  <1>1. ASSUME NEW w \in writing, AbandonWrite(w)
        PROVE  TypeOK'
    <2>1. w.row \in Row
      BY DEF TypeOK, WriteRec, BothRows
    <2>2. QED
      BY <1>1, <2>1, DualAssumption DEF AbandonWrite, TypeOK
  <1>2. ASSUME NEW c \in Readers, NEW r \in Row, GetMisses(c, r)
        PROVE  TypeOK'
    <2>1. [client |-> c, row |-> r, seen |-> {Visible(pg, ar, r)}] \in ReadRec
      BY <1>2 DEF GetMisses, ReadRec, BothRows, Visible, TypeOK
    <2>2. QED
      BY <1>2, <2>1 DEF GetMisses, TypeOK
  <1>3. ASSUME NEW g \in reading, GetFallsBack(g)
        PROVE  TypeOK'
    BY <1>3 DEF GetFallsBack, TypeOK
  <1>4. ASSUME NEW side \in {"Postgres", "Aruaru"}, NEW r \in Row, NEW x \in Corrupt,
               Corruption(side, r, x)
        PROVE  TypeOK'
    <2>1. x \in Cell
      BY DEF Cell, Value
    <2>2. pg' \in [Row -> Cell] /\ ar' \in [Row -> Cell]
      BY <1>4, <2>1, CallType DEF Corruption
    <2>3. reading' \subseteq ReadRec
      BY <1>4, <2>2, NoteSeenType DEF Corruption
    <2>4. /\ pass' \in [Healers -> PassRec]
          /\ \A h \in Healers : \A k \in pass'[h].todo : pass'[h].a[k] # pass'[h].b[k]
      BY <1>4, OutdatePassesType DEF Corruption
    <2>5. faults' \in 0..MaxFaults
      BY <1>4, DualAssumption DEF Corruption, TypeOK
    <2>6. QED
      BY <1>4, <2>2, <2>3, <2>4, <2>5 DEF Corruption, TypeOK
  <1>5. QED
    BY <1>1, <1>2, <1>3, <1>4 DEF ReaderStep

\* Every reachable state of the two stores, of the calls and passes under way
\* and of their records is well typed, and a key is queued for healing only if
\* its two lists differ.
THEOREM TypeCorrect == Spec => []TypeOK
  <1>1. Init => TypeOK
    <2> SUFFICES ASSUME Init PROVE TypeOK
      OBVIOUS
    <2>1. Absent \in Cell
      BY DEF Cell
    <2>2. IdlePass.todo = {}
      BY DEF IdlePass
    <2>3. /\ pass \in [Healers -> PassRec]
          /\ \A h \in Healers : \A k \in pass[h].todo : pass[h].a[k] # pass[h].b[k]
      BY <2>2, IdlePassType DEF Init
    <2>4. QED
      BY <2>1, <2>3, DualAssumption DEF Init, TypeOK
  <1>2. TypeOK /\ [Next]_vars => TypeOK'
    <2> SUFFICES ASSUME TypeOK, [Next]_vars PROVE TypeOK'
      OBVIOUS
    <2>1. CASE ClientStep
      BY <2>1, WriteSingleType, WriteFirstType, WriteSecondType, OtherType DEF ClientStep
    <2>2. CASE ReaderStep
      BY <2>2, OtherType
    <2>3. CASE \E h \in Healers : HealerStep(h) \/ AbortPass(h)
      BY <2>3, HealerType
    <2>4. CASE \E side \in {"Postgres", "Aruaru"}, r \in Row, x \in Corrupt : Corruption(side, r, x)
      BY <2>4, OtherType
    <2>5. CASE UNCHANGED vars
      BY <2>5 DEF vars, TypeOK
    <2>6. QED
      BY <2>1, <2>2, <2>3, <2>4, <2>5 DEF Next
  <1>3. QED
    BY <1>1, <1>2, PTL DEF Spec

-----------------------------------------------------------------------------
(* The sides hold what was acknowledged. *)

\* A backend call changes a store only under its own row.
LEMMA CallOnlyItsRow ==
    ASSUME TypeOK, NEW side, NEW r \in Row, NEW x \in Cell, NEW o, Call(side, r, x, o)
    PROVE  /\ \A q \in Row : q # r => pg'[q] = pg[q] /\ ar'[q] = ar[q]
           /\ o # "refused" /\ side = "Postgres" => pg'[r] = x
           /\ o # "refused" /\ side = "Aruaru" => ar'[r] = x
           /\ pg'[r] \in {pg[r], x}
           /\ ar'[r] \in {ar[r], x}
           /\ side = "Aruaru" /\ ~Single => pg'[r] = pg[r]
           /\ side = "Postgres" /\ ~Single => ar'[r] = ar[r]
  BY DEF Call, TypeOK

\* A write elsewhere than on row r keeps a pass current; marking r stale keeps
\* it current whatever was written under r.
LEMMA CurrentKept ==
    ASSUME NEW p \in PassRec, NEW r \in Row,
           NEW a1, NEW b1, NEW a2, NEW b2, Current(p, a1, b1),
           \A q \in Row : q # r => a2[q] = a1[q] /\ b2[q] = b1[q]
    PROVE  Current(Outdated(p, r), a2, b2)
  <1> DEFINE q == Outdated(p, r)
  <1>1. /\ q \in PassRec
        /\ q.todo = p.todo /\ q.a = p.a /\ q.b = p.b
        /\ q.phase = p.phase /\ q.table = p.table
        /\ p.phase \in {"listed", "healing"} => q.stale = p.stale \cup {r}
    BY OutdatedType
  <1>2. \A k \in Keys : <<p.table, k>> \in Row
    BY DEF PassRec, Row
  <1> HIDE DEF q
  <1>3. Current(q, a2, b2)
    BY <1>1, <1>2 DEF Current
  <1>4. QED
    BY <1>3 DEF q

LEMMA OutdatePassesCurrent ==
    ASSUME TypeOK, ListsCurrent, NEW r \in Row, OutdatePasses(r),
           \A q \in Row : q # r => pg'[q] = pg[q] /\ ar'[q] = ar[q]
    PROVE  ListsCurrent'
  <1>1. \A h \in Healers : pass'[h] = Outdated(pass[h], r)
    BY DEF OutdatePasses
  <1>2. \A h \in Healers : pass[h] \in PassRec /\ Current(pass[h], pg, ar)
    BY DEF TypeOK, ListsCurrent
  <1>3. \A h \in Healers : Current(Outdated(pass[h], r), pg', ar')
    BY <1>2, CurrentKept
  <1>4. QED
    BY <1>1, <1>3 DEF ListsCurrent

LEMMA WriteSingleKeeps ==
    ASSUME TypeOK, IInv, NEW c \in Clients, NEW r \in Row, NEW x \in Valid \cup {Absent},
           NEW o \in Outcome, WriteSingle(c, r, x, o)
    PROVE  IInv'
  <1>1. x \in Cell
    BY DEF Cell, Value
  <1>2. /\ \A q \in Row : q # r => pg'[q] = pg[q] /\ ar'[q] = ar[q]
        /\ RouteOf(r) = "Postgres" /\ o = "ok" => pg'[r] = x
        /\ RouteOf(r) = "Aruaru" /\ o = "ok" => ar'[r] = x
    <2>1. Call(RouteOf(r), r, x, o)
      BY DEF WriteSingle
    <2>2. QED
      BY <1>1, <2>1, CallOnlyItsRow
  <1>3. RouteOf(r) # "Both" /\ RouteOf(r) \in Target
    BY DualAssumption DEF WriteSingle, RouteOf, Row
  <1>4. \A q \in Row : Writers(q)' = Writers(q)
    BY DEF WriteSingle, Writers
  <1>5. SidesHoldAcked'
    <2> SUFFICES ASSUME NEW q \in Row, q \notin tainted', Writers(q)' = {}
                 PROVE  Settled(q)'
      BY DEF SidesHoldAcked
    <2>1. CASE q = r
      BY <1>2, <1>3, <2>1 DEF WriteSingle, Settled, TypeOK, RouteOf, Target
    <2>2. CASE q # r
      <3>1. q \notin tainted /\ last'[q] = last[q]
        BY <2>2 DEF WriteSingle, TypeOK
      <3>2. Settled(q)
        BY <3>1, <1>4 DEF IInv, SidesHoldAcked
      <3>3. QED
        BY <1>2, <2>2, <3>1, <3>2 DEF Settled, RouteOf
    <2>3. QED
      BY <2>1, <2>2
  <1>6. WritesUndisturbed'
    <2> SUFFICES ASSUME NEW w \in writing, w.row \notin tainted'
                 PROVE  /\ Writers(w.row)' = {w}
                        /\ w.ok => pg'[w.row] = w.val
      BY DEF WritesUndisturbed, WriteSingle
    <2>1. w.row \in BothRows /\ w.row \in Row
      BY DEF TypeOK, WriteRec, BothRows
    <2>2. w.row # r
      BY <1>3, <2>1 DEF BothRows
    <2>3. w.row \notin tainted
      BY <2>2 DEF WriteSingle
    <2>4. QED
      BY <1>2, <1>4, <2>1, <2>2, <2>3 DEF IInv, WritesUndisturbed
  <1>7. ListsCurrent'
    <2> SUFFICES ASSUME NEW h \in Healers
                 PROVE  Current(pass'[h], pg', ar')
      BY DEF ListsCurrent
    <2>1. pass'[h] = pass[h] /\ pass[h] \in PassRec /\ Current(pass[h], pg, ar)
      BY DEF WriteSingle, TypeOK, IInv, ListsCurrent
    <2>2. pass[h].phase \in {"listed", "healing"} =>
            \A k \in Keys : <<pass[h].table, k>> \in Row /\ <<pass[h].table, k>> # r
      <3> SUFFICES ASSUME pass[h].phase \in {"listed", "healing"}, NEW k \in Keys
                   PROVE  <<pass[h].table, k>> \in Row /\ <<pass[h].table, k>> # r
        OBVIOUS
      <3>1. pass[h].table \in BothTables
        BY <2>1 DEF Current
      <3>2. RouteOf(<<pass[h].table, k>>) = "Both"
        BY <3>1 DEF BothTables, RouteOf
      <3>3. QED
        BY <3>1, <3>2, <1>3 DEF BothTables, Row
    <2>3. QED
      BY <1>2, <2>1, <2>2 DEF Current
  <1>8. QED
    BY <1>5, <1>6, <1>7 DEF IInv

LEMMA WriteFirstKeeps ==
    ASSUME TypeOK, IInv, NEW c \in Clients, NEW r \in Row, NEW x \in Valid \cup {Absent},
           NEW o \in Outcome, WriteFirst(c, r, x, o)
    PROVE  IInv'
  <1> DEFINE new == [client |-> c, row |-> r, val |-> x, ok |-> (o = "ok")]
  <1>1. x \in Cell
    BY DEF Cell, Value
  <1>2. /\ \A q \in Row : q # r => pg'[q] = pg[q] /\ ar'[q] = ar[q]
        /\ o = "ok" => pg'[r] = x
    <2>1. Call("Postgres", r, x, o)
      BY DEF WriteFirst, CallOrder
    <2>2. QED
      BY <1>1, <2>1, CallOnlyItsRow
  <1>3. writing' = writing \cup {new} /\ new.row = r /\ new.val = x /\ new.ok = (o = "ok")
    BY DEF WriteFirst
  <1>4. tainted' = IF Writers(r) # {} THEN tainted \cup {r} ELSE tainted
    BY DEF WriteFirst
  <1> HIDE DEF new
  <1>5. \A q \in Row : q # r => Writers(q)' = Writers(q)
    BY <1>3 DEF Writers
  <1>6. Writers(r)' = Writers(r) \cup {new}
    BY <1>3 DEF Writers
  <1>7. SidesHoldAcked'
    <2> SUFFICES ASSUME NEW q \in Row, q \notin tainted', Writers(q)' = {}
                 PROVE  Settled(q)'
      BY DEF SidesHoldAcked
    <2>1. q # r
      BY <1>6
    <2>2. q \notin tainted /\ Writers(q) = {}
      BY <1>4, <1>5, <2>1
    <2>3. Settled(q)
      BY <2>2 DEF IInv, SidesHoldAcked
    <2>4. QED
      BY <1>2, <2>1, <2>3 DEF Settled, RouteOf, WriteFirst
  <1>8. WritesUndisturbed'
    <2> SUFFICES ASSUME NEW w \in writing', w.row \notin tainted'
                 PROVE  /\ Writers(w.row)' = {w}
                        /\ w.ok => pg'[w.row] = w.val
      BY DEF WritesUndisturbed
    <2>1. CASE w = new
      BY <1>2, <1>3, <1>4, <1>6, <2>1
    <2>2. CASE w \in writing
      <3>1. w.row \in Row /\ w.row \notin tainted
        BY <1>4, <2>2 DEF TypeOK, WriteRec, BothRows
      <3>2. w.row # r
        BY <1>4, <2>2 DEF Writers
      <3>3. QED
        BY <1>2, <1>5, <2>2, <3>1, <3>2 DEF IInv, WritesUndisturbed
    <2>3. QED
      BY <1>3, <2>1, <2>2
  <1>9. ListsCurrent'
    BY <1>2, OutdatePassesCurrent DEF IInv, WriteFirst
  <1>10. QED
    BY <1>7, <1>8, <1>9 DEF IInv

LEMMA WriteSecondKeeps ==
    ASSUME TypeOK, IInv, NEW w \in writing, NEW o \in Outcome, WriteSecond(w, o)
    PROVE  IInv'
  <1>1. w.row \in Row /\ w.val \in Cell
    BY DEF TypeOK, WriteRec, BothRows
  <1>2. /\ \A q \in Row : q # w.row => pg'[q] = pg[q] /\ ar'[q] = ar[q]
        /\ o = "ok" => ar'[w.row] = w.val
        /\ pg'[w.row] \in {pg[w.row], w.val}
    <2>1. Call("Aruaru", w.row, w.val, o)
      BY DEF WriteSecond, CallOrder
    <2>2. QED
      BY <1>1, <2>1, CallOnlyItsRow
  <1>3. \A q \in Row : Writers(q)' = Writers(q) \ {w}
    BY DEF WriteSecond, Writers
  <1>4. \A q \in Row : q # w.row => /\ w \notin Writers(q)
                                    /\ last'[q] = last[q]
                                    /\ q \in tainted' <=> q \in tainted
    BY DEF WriteSecond, Writers, TypeOK
  <1>5. SidesHoldAcked'
    <2> SUFFICES ASSUME NEW q \in Row, q \notin tainted', Writers(q)' = {}
                 PROVE  Settled(q)'
      BY DEF SidesHoldAcked
    <2>1. CASE q = w.row
      <3>1. q \notin tainted /\ Acked(w, o) /\ last'[q] = w.val
        BY <1>1, <2>1 DEF WriteSecond, TypeOK
      <3>2. pg[q] = w.val
        BY <2>1, <3>1 DEF IInv, WritesUndisturbed, Acked
      <3>3. pg'[q] = w.val /\ ar'[q] = w.val
        BY <1>2, <2>1, <3>1, <3>2 DEF Acked
      <3>4. QED
        BY <3>1, <3>3 DEF Settled
    <2>2. CASE q # w.row
      <3>1. q \notin tainted /\ Writers(q) = {} /\ last'[q] = last[q]
        BY <1>3, <1>4, <2>2
      <3>2. QED
        BY <1>2, <2>2, <3>1 DEF IInv, SidesHoldAcked, Settled, RouteOf
    <2>3. QED
      BY <2>1, <2>2
  <1>6. WritesUndisturbed'
    <2> SUFFICES ASSUME NEW v \in writing', v.row \notin tainted'
                 PROVE  /\ Writers(v.row)' = {v}
                        /\ v.ok => pg'[v.row] = v.val
      BY DEF WritesUndisturbed
    <2>1. v \in writing /\ v # w /\ v.row \in Row
      BY DEF WriteSecond, TypeOK, WriteRec, BothRows
    <2>2. v.row \notin tainted
      BY DEF WriteSecond
    <2>3. Writers(v.row) = {v}
      BY <2>1, <2>2 DEF IInv, WritesUndisturbed
    <2>4. v.row # w.row
      BY <2>1, <2>3 DEF Writers
    <2>5. QED
      BY <1>2, <1>3, <1>4, <2>1, <2>2, <2>3, <2>4 DEF IInv, WritesUndisturbed
  <1>7. ListsCurrent'
    BY <1>1, <1>2, OutdatePassesCurrent DEF IInv, WriteSecond
  <1>8. QED
    BY <1>5, <1>6, <1>7 DEF IInv

LEMMA HealKeyKeeps ==
    ASSUME TypeOK, IInv, NEW h \in Healers, NEW k \in Keys, NEW o \in Outcome, HealKey(h, k, o)
    PROVE  IInv'
  <1> DEFINE p == pass[h]
             r == <<p.table, k>>
             from == HealFrom(p.a[k], p.b[k])
             to == IF from = "Postgres" THEN "Aruaru" ELSE "Postgres"
             x == IF from = "Postgres" THEN p.a[k] ELSE p.b[k]
  <1>1. p \in PassRec /\ Current(p, pg, ar)
    BY DEF TypeOK, IInv, ListsCurrent
  <1>2. r \in Row /\ x \in Cell
    BY <1>1 DEF PassRec, Row
  <1>3. Call(to, r, x, o) /\ to \in {"Postgres", "Aruaru"}
    BY DEF HealKey
  <1>4. p.phase = "healing" /\ k \in p.todo
    BY DEF HealKey
  <1>6. /\ \A q \in Row : q # r => pg'[q] = pg[q] /\ ar'[q] = ar[q]
        /\ o = "ok" /\ to = "Postgres" => pg'[r] = x
        /\ o = "ok" /\ to = "Aruaru" => ar'[r] = x
        /\ pg'[r] \in {pg[r], x} /\ ar'[r] \in {ar[r], x}
    <2> HIDE DEF r, x, to
    <2>1. QED
      BY <1>2, <1>3, CallOnlyItsRow
  <1>7. ListsCurrent'
    <2> SUFFICES ASSUME NEW i \in Healers
                 PROVE  Current(pass'[i], pg', ar')
      BY DEF ListsCurrent
    <2>1. pass'[i] = IF i # h THEN Outdated(pass[i], r)
                     ELSE IF o = "ok" THEN [p EXCEPT !.todo = @ \ {k}] ELSE IdlePass
      BY DEF HealKey
    <2>2. CASE i # h
      <3>1. pass[i] \in PassRec /\ Current(pass[i], pg, ar)
        BY DEF TypeOK, IInv, ListsCurrent
      <3>2. Current(Outdated(pass[i], r), pg', ar')
        <4> HIDE DEF r
        <4>1. QED
          BY <1>2, <1>6, <3>1, CurrentKept
      <3>3. QED
        BY <2>1, <2>2, <3>2
    <2>3. CASE i = h /\ o = "ok"
      <3> DEFINE q == [p EXCEPT !.todo = @ \ {k}]
      <3>1. /\ q.phase = "healing" /\ q.table = p.table /\ q.stale = p.stale
            /\ q.a = p.a /\ q.b = p.b /\ q.todo = p.todo \ {k}
        BY <1>1, <1>4 DEF PassRec
      <3>2. \A j \in Keys : j # k => <<p.table, j>> \in Row /\ <<p.table, j>> # r
        BY <1>1 DEF PassRec, Row
      <3> HIDE DEF q
      <3>3. Current(q, pg', ar')
        BY <1>1, <1>4, <1>6, <3>1, <3>2 DEF Current
      <3>4. QED
        BY <2>1, <2>3, <3>3 DEF q
    <2>4. CASE i = h /\ o # "ok"
      <3>1. pass'[i] = IdlePass /\ IdlePass.phase = "idle"
        BY <2>1, <2>4 DEF IdlePass
      <3>2. QED
        BY <3>1 DEF Current
    <2>5. QED
      BY <2>2, <2>3, <2>4
  <1>8. writing' = writing /\ \A q \in Row : Writers(q)' = Writers(q)
    BY DEF HealKey, Writers
  <1>9. \A q \in Row : q # r => /\ last'[q] = last[q]
                                /\ q \in tainted' <=> q \in tainted
    BY DEF HealKey, TypeOK
  <1>10. WritesUndisturbed'
    <2> SUFFICES ASSUME NEW w \in writing, w.row \notin tainted'
                 PROVE  /\ Writers(w.row)' = {w}
                        /\ w.ok => pg'[w.row] = w.val
      BY <1>8 DEF WritesUndisturbed
    <2>1. w.row \in Row
      BY DEF TypeOK, WriteRec, BothRows
    <2>2. w.row # r
      <3>1. w \in Writers(w.row)
        BY DEF Writers
      <3>2. QED
        BY <3>1 DEF HealKey
    <2> HIDE DEF r
    <2>3. QED
      BY <1>6, <1>8, <1>9, <2>1, <2>2 DEF IInv, WritesUndisturbed
  <1>11. SidesHoldAcked'
    <2> SUFFICES ASSUME NEW q \in Row, q \notin tainted', Writers(q)' = {}
                 PROVE  Settled(q)'
      BY DEF SidesHoldAcked
    <2>1. CASE q = r
      <3>1. r \notin p.stale /\ o = "ok" /\ last' = [last EXCEPT ![r] = x]
        BY <2>1 DEF HealKey
      <3>2. p.a[k] = pg[r] /\ p.b[k] = ar[r] /\ last'[r] = x
        BY <1>1, <1>2, <1>4, <3>1 DEF Current, TypeOK
      <3>3. CASE from = "Postgres"
        BY <1>6, <2>1, <3>1, <3>2, <3>3 DEF Settled
      <3>4. CASE from # "Postgres"
        BY <1>6, <2>1, <3>1, <3>2, <3>4 DEF Settled
      <3>5. QED
        BY <3>3, <3>4
    <2>2. CASE q # r
      <3> HIDE DEF r
      <3>1. q \notin tainted /\ Writers(q) = {} /\ last'[q] = last[q]
        BY <1>8, <1>9, <2>2
      <3>2. QED
        BY <1>6, <2>2, <3>1 DEF IInv, SidesHoldAcked, Settled, RouteOf
    <2>3. QED
      BY <2>1, <2>2
  <1>12. QED
    BY <1>7, <1>10, <1>11 DEF IInv

LEMMA ListingKeeps ==
    ASSUME TypeOK, IInv, NEW h \in Healers,
           \/ BeginPass(h)
           \/ \E t \in Tables : ListPostgres(h, t)
           \/ ListAruaru(h)
           \/ NextTable(h)
           \/ AbortPass(h)
    PROVE  IInv'
  <1>1. UNCHANGED <<pg, ar, writing, last, tainted>>
    BY DEF BeginPass, ListPostgres, ListAruaru, NextTable, AbortPass
  <1>2. \A q \in Row : Writers(q)' = Writers(q)
    BY <1>1 DEF Writers
  <1>3. SidesHoldAcked' /\ WritesUndisturbed'
    BY <1>1, <1>2 DEF IInv, SidesHoldAcked, WritesUndisturbed, Settled, RouteOf, Writers
  <1>4. pass[h] \in PassRec /\ Current(pass[h], pg, ar)
    BY DEF TypeOK, IInv, ListsCurrent
  <1>5. ASSUME NEW q, pass' = [pass EXCEPT ![h] = q], Current(q, pg, ar)
        PROVE  ListsCurrent'
    BY <1>1, <1>5 DEF TypeOK, IInv, ListsCurrent
  <1>6. CASE BeginPass(h) \/ NextTable(h) \/ AbortPass(h)
    <2>1. PICK q : pass' = [pass EXCEPT ![h] = q] /\ q.phase \in {"idle", "tables"}
      <3>1. IdlePass.phase = "idle"
        BY DEF IdlePass
      <3>2. \A s : [IdlePass EXCEPT !.phase = "tables", !.tables = s].phase = "tables"
        BY DEF IdlePass
      <3>3. QED
        BY <1>6, <3>1, <3>2 DEF BeginPass, NextTable, AbortPass
    <2>2. Current(q, pg, ar)
      BY <2>1 DEF Current
    <2>3. QED
      BY <1>3, <1>5, <2>1, <2>2 DEF IInv
  <1>7. ASSUME NEW t \in Tables, ListPostgres(h, t)
        PROVE  IInv'
    <2> DEFINE q == [pass[h] EXCEPT !.phase = "listed", !.table = t,
                                    !.tables = pass[h].tables \ {t},
                                    !.a = [k \in Keys |-> pg[<<t, k>>]],
                                    !.todo = {},
                                    !.stale = {}]
    <2>1. pass' = [pass EXCEPT ![h] = q]
      BY <1>7 DEF ListPostgres
    <2>2. q.phase = "listed" /\ q.table = t /\ q.a = [k \in Keys |-> pg[<<t, k>>]]
      BY <1>4 DEF PassRec
    <2>3. t \in BothTables
      BY <1>4, <1>7 DEF ListPostgres, PassRec
    <2> HIDE DEF q
    <2>4. Current(q, pg, ar)
      BY <2>2, <2>3 DEF Current
    <2>5. QED
      BY <1>3, <1>5, <2>1, <2>4 DEF IInv
  <1>8. CASE ListAruaru(h)
    <2> DEFINE b == [k \in Keys |-> ar[<<pass[h].table, k>>]]
               q == [pass[h] EXCEPT !.phase = "healing", !.b = b,
                                    !.todo = {k \in Keys : pass[h].a[k] # b[k]}]
    <2>1. pass' = [pass EXCEPT ![h] = q] /\ pass[h].phase = "listed"
      BY <1>8 DEF ListAruaru, Differing
    <2>2. /\ q.phase = "healing" /\ q.table = pass[h].table /\ q.a = pass[h].a
          /\ q.b = b /\ q.stale = pass[h].stale
      <3> HIDE DEF b
      <3>1. QED
        BY <1>4 DEF PassRec
    <2>3. \A k \in Keys : b[k] = ar[<<pass[h].table, k>>]
      OBVIOUS
    <2> HIDE DEF q, b
    <2>4. Current(q, pg, ar)
      BY <1>4, <2>1, <2>2, <2>3 DEF Current
    <2>5. QED
      BY <1>3, <1>5, <2>1, <2>4 DEF IInv
  <1>9. QED
    BY <1>6, <1>7, <1>8

LEMMA OtherKeeps ==
    ASSUME TypeOK, IInv,
           \/ \E w \in writing : AbandonWrite(w)
           \/ ReaderStep
           \/ \E side \in {"Postgres", "Aruaru"}, r \in Row, x \in Corrupt :
                 Corruption(side, r, x)
           \/ UNCHANGED vars
    PROVE  IInv'
  <1>1. ASSUME NEW w \in writing, AbandonWrite(w)
        PROVE  IInv'
    <2>1. \A q \in Row : Writers(q)' = Writers(q) \ {w}
      BY <1>1 DEF AbandonWrite, Writers
    <2>2. \A q \in Row : q # w.row => w \notin Writers(q)
      BY DEF Writers
    <2>3. SidesHoldAcked'
      BY <1>1, <2>1, <2>2 DEF AbandonWrite, IInv, SidesHoldAcked, Settled, RouteOf
    <2>4. WritesUndisturbed'
      <3> SUFFICES ASSUME NEW v \in writing', v.row \notin tainted'
                   PROVE  /\ Writers(v.row)' = {v}
                          /\ v.ok => pg'[v.row] = v.val
        BY DEF WritesUndisturbed
      <3>1. v \in writing /\ v.row \in Row /\ v.row # w.row /\ v.row \notin tainted
        BY <1>1 DEF AbandonWrite, TypeOK, WriteRec, BothRows
      <3>2. QED
        BY <1>1, <2>1, <2>2, <3>1 DEF AbandonWrite, IInv, WritesUndisturbed
    <2>5. ListsCurrent'
      BY <1>1 DEF AbandonWrite, IInv, ListsCurrent
    <2>6. QED
      BY <2>3, <2>4, <2>5 DEF IInv
  <1>2. CASE ReaderStep \/ UNCHANGED vars
    <2>1. UNCHANGED <<pg, ar, writing, pass, last, tainted>>
      BY <1>2 DEF ReaderStep, GetMisses, GetFallsBack, vars
    <2>2. QED
      BY <2>1 DEF IInv, SidesHoldAcked, WritesUndisturbed, ListsCurrent, Settled, RouteOf, Writers
  <1>3. ASSUME NEW side \in {"Postgres", "Aruaru"}, NEW r \in Row, NEW x \in Corrupt,
               Corruption(side, r, x)
        PROVE  IInv'
    <2>1. \A q \in Row : q # r => pg'[q] = pg[q] /\ ar'[q] = ar[q]
      <3>1. x \in Cell /\ Call(side, r, x, "ok")
        BY <1>3 DEF Cell, Value, Corruption
      <3>2. QED
        BY <3>1, CallOnlyItsRow
    <2>2. \A q \in Row : Writers(q)' = Writers(q)
      BY <1>3 DEF Corruption, Writers
    <2>3. SidesHoldAcked'
      BY <1>3, <2>1, <2>2 DEF Corruption, IInv, SidesHoldAcked, Settled, RouteOf
    <2>4. WritesUndisturbed'
      <3> SUFFICES ASSUME NEW w \in writing, w.row \notin tainted'
                   PROVE  /\ Writers(w.row)' = {w}
                          /\ w.ok => pg'[w.row] = w.val
        BY <1>3 DEF WritesUndisturbed, Corruption
      <3>1. w.row \in Row /\ w.row # r /\ w.row \notin tainted
        BY <1>3 DEF Corruption, TypeOK, WriteRec, BothRows
      <3>2. QED
        BY <2>1, <2>2, <3>1 DEF IInv, WritesUndisturbed
    <2>5. ListsCurrent'
      BY <1>3, <2>1, OutdatePassesCurrent DEF Corruption, IInv
    <2>6. QED
      BY <2>3, <2>4, <2>5 DEF IInv
  <1>4. QED
    BY <1>1, <1>2, <1>3

LEMMA Invariant == Spec => []IInv
  <1>1. Init => IInv
    <2> SUFFICES ASSUME Init PROVE IInv
      OBVIOUS
    <2>1. \A h \in Healers : pass[h].phase = "idle"
      BY DEF Init, IdlePass
    <2>2. QED
      BY <2>1 DEF Init, IInv, SidesHoldAcked, WritesUndisturbed, ListsCurrent, Current, Settled
  <1>2. TypeOK /\ IInv /\ [Next]_vars => IInv'
    <2> SUFFICES ASSUME TypeOK, IInv, [Next]_vars PROVE IInv'
      OBVIOUS
    <2>1. CASE ClientStep
      BY <2>1, WriteSingleKeeps, WriteFirstKeeps, WriteSecondKeeps, OtherKeeps DEF ClientStep
    <2>2. CASE ReaderStep
      BY <2>2, OtherKeeps
    <2>3. CASE \E h \in Healers : HealerStep(h) \/ AbortPass(h)
      BY <2>3, ListingKeeps, HealKeyKeeps DEF HealerStep
    <2>4. CASE \E side \in {"Postgres", "Aruaru"}, r \in Row, x \in Corrupt : Corruption(side, r, x)
      BY <2>4, OtherKeeps
    <2>5. CASE UNCHANGED vars
      BY <2>5, OtherKeeps
    <2>6. QED
      BY <2>1, <2>2, <2>3, <2>4, <2>5 DEF Next
  <1>3. QED
    BY <1>1, <1>2, TypeCorrect, PTL DEF Spec

\* A put or delete that answered Ok is in every store its table is routed to
\* and stays there: the sides of a row can differ only while a call is under
\* way on it, or after a fault or a race was recorded against it.
THEOREM AckedOnBothSides == Spec => []SidesHoldAcked
  <1>1. IInv => SidesHoldAcked
    BY DEF IInv
  <1>2. QED
    BY <1>1, Invariant, PTL

-----------------------------------------------------------------------------
\* A write leaves what gets under way have seen up to date with aruaru-db,
\* provided each row it changes there shows that value.
LEMMA NotedFresh ==
    ASSUME TypeOK, FallbackIsFresh, NoteSeen,
           \A q \in BothRows : q \notin tainted' =>
               \/ q \notin tainted /\ ar'[q] = ar[q]
               \/ ar'[q] = Visible(pg', ar', q)
    PROVE  FallbackIsFresh'
  <1> SUFFICES ASSUME NEW h \in reading', h.row \notin tainted'
               PROVE  ar'[h.row] \in h.seen
    BY DEF FallbackIsFresh
  <1>1. PICK g \in reading : h = [g EXCEPT !.seen = @ \cup {Visible(pg', ar', g.row)}]
    BY DEF NoteSeen
  <1>2. g \in ReadRec /\ g.row \in BothRows
    BY DEF TypeOK, ReadRec
  <1>3. h.row = g.row /\ h.seen = g.seen \cup {Visible(pg', ar', g.row)}
    BY <1>1, <1>2 DEF ReadRec
  <1>4. QED
    BY <1>2, <1>3 DEF FallbackIsFresh

\* A row of both sides that is settled shows what either side holds.
LEMMA SettledShows ==
    ASSUME NEW q \in BothRows, Settled(q)'
    PROVE  ar'[q] = Visible(pg', ar', q)
  BY DEF Settled, BothRows, RouteOf, Visible

LEMMA StoresUntouched ==
    ASSUME TypeOK, FallbackIsFresh, pg' = pg, ar' = ar, tainted \subseteq tainted',
           reading' \subseteq reading
    PROVE  FallbackIsFresh'
  BY DEF FallbackIsFresh

\* The steps of clients.
LEMMA ClientStepFresh ==
    ASSUME TypeOK, IInv, IInv', FallbackIsFresh, ClientStep
    PROVE  FallbackIsFresh'
  <1>1. ASSUME NEW c \in Clients, NEW r \in Row, NEW x \in Valid \cup {Absent},
               NEW o \in Outcome, WriteSingle(c, r, x, o)
        PROVE  FallbackIsFresh'
    <2>1. \A q \in Row : q # r => ar'[q] = ar[q]
      <3>1. x \in Cell /\ Call(RouteOf(r), r, x, o)
        BY <1>1 DEF Cell, Value, WriteSingle
      <3>2. QED
        BY <3>1, CallOnlyItsRow
    <2>2. \A q \in BothRows : q \in Row /\ q # r
      BY <1>1 DEF WriteSingle, BothRows
    <2>3. QED
      BY <1>1, <2>1, <2>2, NotedFresh DEF WriteSingle
  <1>2. ASSUME NEW c \in Clients, NEW r \in Row, NEW x \in Valid \cup {Absent},
               NEW o \in Outcome, WriteFirst(c, r, x, o)
        PROVE  FallbackIsFresh'
    <2>1. \/ ar' = ar
          \/ /\ pg' = [pg EXCEPT ![r] = x]
             /\ ar' = [ar EXCEPT ![r] = x]
      BY <1>2 DEF WriteFirst, Call, CallOrder
    <2>2. tainted \subseteq tainted'
      BY <1>2 DEF WriteFirst
    <2>3. \A q \in BothRows : ar'[q] = ar[q] \/ ar'[q] = Visible(pg', ar', q)
      BY <2>1 DEF TypeOK, Visible, BothRows
    <2>4. QED
      BY <1>2, <2>2, <2>3, NotedFresh DEF WriteFirst
  <1>3. ASSUME NEW w \in writing, NEW o \in Outcome, WriteSecond(w, o)
        PROVE  FallbackIsFresh'
    <2>1. w.row \in Row /\ w.val \in Cell
      BY DEF TypeOK, WriteRec, BothRows
    <2>2. \A q \in Row : q # w.row => ar'[q] = ar[q]
      <3>1. Call("Aruaru", w.row, w.val, o)
        BY <1>3 DEF WriteSecond, CallOrder
      <3>2. QED
        BY <2>1, <3>1, CallOnlyItsRow
    <2>3. ASSUME w.row \notin tainted'
          PROVE  Settled(w.row)'
      <3>1. Writers(w.row)' = Writers(w.row) \ {w}
        BY <1>3 DEF WriteSecond, Writers
      <3>2. Writers(w.row) = {w}
        BY <1>3, <2>3 DEF WriteSecond
      <3>3. Writers(w.row)' = {}
        BY <3>1, <3>2
      <3>4. QED
        BY <2>1, <2>3, <3>3 DEF IInv, SidesHoldAcked
    <2>4. \A q \in BothRows : q \in Row
      BY DEF BothRows
    <2>5. tainted \subseteq tainted' /\ NoteSeen
      BY <1>3 DEF WriteSecond
    <2>6. QED
      BY <2>2, <2>3, <2>4, <2>5, SettledShows, NotedFresh
  <1>4. ASSUME NEW w \in writing, AbandonWrite(w)
        PROVE  FallbackIsFresh'
    BY <1>4, StoresUntouched DEF AbandonWrite
  <1>5. QED
    BY <1>1, <1>2, <1>3, <1>4 DEF ClientStep

\* The steps of passes.
LEMMA HealerStepFresh ==
    ASSUME TypeOK, IInv, IInv', FallbackIsFresh,
           NEW h \in Healers, HealerStep(h) \/ AbortPass(h)
    PROVE  FallbackIsFresh'
  <1>1. ASSUME NEW k \in Keys, NEW o \in Outcome, HealKey(h, k, o)
        PROVE  FallbackIsFresh'
    <2> DEFINE p == pass[h]
               from == HealFrom(p.a[k], p.b[k])
               x == IF from = "Postgres" THEN p.a[k] ELSE p.b[k]
    <2>0. PICK r \in Row : r = <<p.table, k>>
      BY DEF TypeOK, PassRec, Row
    <2>1. x \in Cell
      BY DEF TypeOK, PassRec
    <2>2. \A q \in Row : q # r => ar'[q] = ar[q]
      <3>1. Call(IF from = "Postgres" THEN "Aruaru" ELSE "Postgres", r, x, o)
        BY <1>1, <2>0 DEF HealKey
      <3> HIDE DEF x, from
      <3>2. QED
        BY <2>1, <3>1, CallOnlyItsRow
    <2>3. ASSUME r \notin tainted'
          PROVE  Settled(r)'
      <3>1. Writers(r)' = {}
        BY <1>1, <2>0, <2>3 DEF HealKey, Writers
      <3>2. QED
        BY <2>3, <3>1 DEF IInv, SidesHoldAcked
    <2>4. \A q \in BothRows : q \in Row
      BY DEF BothRows
    <2>5. NoteSeen /\ \A q \in Row : q # r => (q \in tainted' <=> q \in tainted)
      BY <1>1, <2>0 DEF HealKey
    <2>6. QED
      BY <2>2, <2>3, <2>4, <2>5, SettledShows, NotedFresh
  <1>2. CASE \/ BeginPass(h) \/ ListAruaru(h) \/ NextTable(h) \/ AbortPass(h)
             \/ \E t \in Tables : ListPostgres(h, t)
    BY <1>2, StoresUntouched DEF BeginPass, ListAruaru, NextTable, AbortPass, ListPostgres
  <1>3. QED
    BY <1>1, <1>2 DEF HealerStep

LEMMA ReaderStepFresh ==
    ASSUME TypeOK, FallbackIsFresh, ReaderStep
    PROVE  FallbackIsFresh'
  <1>1. ASSUME NEW c \in Readers, NEW r \in Row, GetMisses(c, r)
        PROVE  FallbackIsFresh'
    <2> DEFINE new == [client |-> c, row |-> r, seen |-> {Visible(pg, ar, r)}]
    <2>1. reading' = reading \cup {new} /\ UNCHANGED <<pg, ar, tainted>>
      BY <1>1 DEF GetMisses
    <2>2. ar[new.row] \in new.seen
      BY <1>1 DEF GetMisses, Visible
    <2> HIDE DEF new
    <2>3. QED
      BY <2>1, <2>2 DEF FallbackIsFresh
  <1>2. ASSUME NEW g \in reading, GetFallsBack(g)
        PROVE  FallbackIsFresh'
    BY <1>2, StoresUntouched DEF GetFallsBack
  <1>3. QED
    BY <1>1, <1>2 DEF ReaderStep

LEMMA CorruptionFresh ==
    ASSUME TypeOK, FallbackIsFresh, NEW side \in {"Postgres", "Aruaru"}, NEW r \in Row,
           NEW x \in Corrupt, Corruption(side, r, x)
    PROVE  FallbackIsFresh'
  <1>1. \A q \in Row : q # r => ar'[q] = ar[q]
    <2>1. x \in Cell /\ Call(side, r, x, "ok")
      BY DEF Cell, Value, Corruption
    <2>2. QED
      BY <2>1, CallOnlyItsRow
  <1>2. \A q \in BothRows : q \in Row
    BY DEF BothRows
  <1>3. QED
    BY <1>1, <1>2, NotedFresh DEF Corruption

\* A get that missed in PostgreSQL and falls back to aruaru-db answers with a
\* value the record visibly had since the get began, whatever ran between its
\* two reads, unless a fault or a race was recorded against the row
\* (dual.rs:132).
THEOREM FallbackFresh == Spec => []FallbackIsFresh
  <1>1. Init => FallbackIsFresh
    BY DEF Init, FallbackIsFresh
  <1>2. TypeOK /\ IInv /\ IInv' /\ FallbackIsFresh /\ [Next]_vars => FallbackIsFresh'
    <2> SUFFICES ASSUME TypeOK, IInv, IInv', FallbackIsFresh, [Next]_vars
                 PROVE  FallbackIsFresh'
      OBVIOUS
    <2>1. CASE UNCHANGED vars
      BY <2>1, StoresUntouched DEF vars
    <2>2. QED
      BY <2>1, ClientStepFresh, ReaderStepFresh, HealerStepFresh, CorruptionFresh DEF Next
  <1>3. QED
    BY <1>1, <1>2, Invariant, TypeCorrect, PTL DEF Spec

-----------------------------------------------------------------------------
\* When reconcile heals a row whose lists are current, both sides end up with
\* the better of the two records: present beats absent, parseable beats
\* corrupt, PostgreSQL wins a tie (dual.rs:144), for every value of a record.
THEOREM HealPicksBest == Spec => HealKeepsBest
  <1>1. TypeOK /\ IInv /\ [Next]_vars =>
          [\A r \in BothRows : r \in tainted /\ r \notin tainted' =>
              /\ pg'[r] = ar'[r]
              /\ pg'[r] = Best(pg[r], ar[r])]_vars
    <2> SUFFICES ASSUME TypeOK, IInv, [Next]_vars, NEW r \in BothRows,
                        r \in tainted, r \notin tainted'
                 PROVE  pg'[r] = ar'[r] /\ pg'[r] = Best(pg[r], ar[r])
      OBVIOUS
    <2>1. PICK h \in Healers, k \in Keys, o \in Outcome :
            HealKey(h, k, o) /\ r = <<pass[h].table, k>>
      <3>1. ~ClientStep
        BY DEF ClientStep, WriteSingle, WriteFirst, WriteSecond, AbandonWrite, BothRows
      <3>2. ~ReaderStep /\ ~UNCHANGED vars
        BY DEF ReaderStep, GetMisses, GetFallsBack, vars
      <3>3. ~\E side \in {"Postgres", "Aruaru"}, q \in Row, x \in Corrupt : Corruption(side, q, x)
        BY DEF Corruption
      <3>4. PICK h \in Healers : HealerStep(h) \/ AbortPass(h)
        BY <3>1, <3>2, <3>3 DEF Next
      <3>5. PICK k \in Keys, o \in Outcome : HealKey(h, k, o)
        BY <3>4 DEF HealerStep, AbortPass, BeginPass, ListPostgres, ListAruaru, NextTable
      <3>6. r = <<pass[h].table, k>>
        BY <3>5 DEF HealKey
      <3> QED
        BY <3>5, <3>6
    <2> DEFINE p == pass[h]
               from == HealFrom(p.a[k], p.b[k])
               x == IF from = "Postgres" THEN p.a[k] ELSE p.b[k]
    <2>2. p \in PassRec /\ Current(p, pg, ar) /\ r \in Row
      BY DEF TypeOK, IInv, ListsCurrent, BothRows
    <2>3. r \notin p.stale /\ o = "ok" /\ p.phase = "healing" /\ k \in p.todo
      BY <2>1 DEF HealKey
    <2>4. p.a[k] = pg[r] /\ p.b[k] = ar[r] /\ pg[r] # ar[r]
      <3>1. p.a[k] # p.b[k]
        BY <2>3 DEF TypeOK
      <3>2. p.a[k] = pg[r] /\ p.b[k] = ar[r]
        BY <2>1, <2>2, <2>3 DEF Current
      <3> QED
        BY <3>1, <3>2
    <2>5. pg[r] \in Cell /\ ar[r] \in Cell
      BY <2>2 DEF TypeOK
    <2>6. x = Best(pg[r], ar[r])
      BY <2>4, <2>5, DualAssumption DEF HealFrom, Winner, Best, Cell, Value
    <2>7. Call(IF from = "Postgres" THEN "Aruaru" ELSE "Postgres", r, x, o)
      BY <2>1 DEF HealKey
    <2>8. pg'[r] = x /\ ar'[r] = x
      <3>1. from = "Postgres" => x = pg[r]
        BY <2>4
      <3>2. from # "Postgres" => x = ar[r]
        BY <2>4
      <3> HIDE DEF x, from
      <3> QED
        BY <2>2, <2>3, <2>7, <3>1, <3>2 DEF Call, TypeOK
    <2>9. QED
      BY <2>6, <2>8
  <1>2. QED
    BY <1>1, Invariant, TypeCorrect, PTL DEF Spec, HealKeepsBest

-----------------------------------------------------------------------------
(* The refinement: DualDatabase implements RecordStore.                     *)

\* The image of the two stores under the mapping of Promise.
RecOf(p, a) == [r \in Row |-> OneCopy(p, a, r)]

\* One physical store has one content.
SingleIsOne == Single => pg = ar

\* What holds besides TypeOK and IInv when no call fails, no pass runs and
\* tasks take turns: each half-done write has made its first call, and no row
\* is tainted.
TurnInv ==
    /\ TurnsTaken
    /\ tainted = {}
    /\ \A w \in writing : w.ok
    /\ SingleIsOne

\* No call fails, nothing is damaged and no pass runs.
NoDisturbance == MaxFaults = 0 /\ Healers = {}

\* Without faults every call is Ok.
LEMMA CallsOk ==
    ASSUME NoDisturbance, TypeOK, NEW o, Fault(o)
    PROVE  o = "ok"
  BY DualAssumption DEF NoDisturbance, TypeOK, Fault

\* The steps that are left.
LEMMA TurnSteps ==
    ASSUME NoDisturbance, TypeOK, Next
    PROVE  \/ \E c \in Clients, r \in Row, x \in Valid \cup {Absent} :
                 WriteSingle(c, r, x, "ok") \/ WriteFirst(c, r, x, "ok")
           \/ \E w \in writing : WriteSecond(w, "ok")
           \/ ReaderStep
  <1>1. ~\E h \in Healers : HealerStep(h) \/ AbortPass(h)
    BY DEF NoDisturbance
  <1>2. ~(faults < MaxFaults)
    BY DualAssumption DEF NoDisturbance, TypeOK
  <1>3. ~\E side \in {"Postgres", "Aruaru"}, r \in Row, x \in Corrupt : Corruption(side, r, x)
    BY <1>2 DEF Corruption
  <1>4. CASE ClientStep
    <2>1. ASSUME NEW w \in writing, AbandonWrite(w) PROVE FALSE
      BY <1>2, <2>1 DEF AbandonWrite
    <2>2. ASSUME NEW c \in Clients, NEW r \in Row, NEW x \in Valid \cup {Absent},
                 NEW o \in Outcome, WriteSingle(c, r, x, o) \/ WriteFirst(c, r, x, o)
          PROVE  WriteSingle(c, r, x, "ok") \/ WriteFirst(c, r, x, "ok")
      <3>1. Fault(o)
        BY <2>2 DEF WriteSingle, WriteFirst
      <3>2. o = "ok"
        BY <3>1, CallsOk
      <3> QED
        BY <2>2, <3>2
    <2>3. ASSUME NEW w \in writing, NEW o \in Outcome, WriteSecond(w, o)
          PROVE  WriteSecond(w, "ok")
      <3>1. Fault(o)
        BY <2>3 DEF WriteSecond
      <3>2. o = "ok"
        BY <3>1, CallsOk
      <3> QED
        BY <2>3, <3>2
    <2> QED
      BY <1>4, <2>1, <2>2, <2>3 DEF ClientStep
  <1> QED
    BY <1>1, <1>3, <1>4 DEF Next

\* A new write finds no other on its row, which is settled then.
LEMMA FirstIsAlone ==
    ASSUME TypeOK, IInv, TurnInv, NEW c \in Clients, NEW r \in Row,
           NEW x \in Valid \cup {Absent}, WriteFirst(c, r, x, "ok"), TurnsTaken'
    PROVE  Writers(r) = {} /\ pg[r] = ar[r]
  <1> DEFINE new == [client |-> c, row |-> r, val |-> x, ok |-> ("ok" = "ok")]
  <1>1. writing' = writing \cup {new} /\ new.row = r /\ new.client = c
    BY DEF WriteFirst
  <1>2. new \notin writing
    BY <1>1 DEF WriteFirst, Busy
  <1> HIDE DEF new
  <1>3. Writers(r) = {}
    BY <1>1, <1>2 DEF Writers, TurnsTaken
  <1>4. Settled(r) /\ RouteOf(r) = "Both"
    BY <1>3 DEF IInv, SidesHoldAcked, TurnInv, WriteFirst
  <1> QED
    BY <1>3, <1>4 DEF Settled

\* Two stores that are one stay one.
LEMMA CallKeepsOne ==
    ASSUME SingleIsOne, NEW side \in {"Postgres", "Aruaru"}, NEW r, NEW x, NEW o, Call(side, r, x, o)
    PROVE  SingleIsOne'
  BY DEF SingleIsOne, Call

\* The steps of tasks that take turns keep TurnInv.
LEMMA TurnInvStep ==
    ASSUME NoDisturbance, TypeOK, IInv, TurnInv, Next, TurnsTaken'
    PROVE  TurnInv'
  <1>1. ASSUME NEW c \in Clients, NEW r \in Row, NEW x \in Valid \cup {Absent},
               WriteSingle(c, r, x, "ok")
        PROVE  TurnInv'
    <2>1. RouteOf(r) \in {"Postgres", "Aruaru"} /\ Call(RouteOf(r), r, x, "ok")
      BY <1>1, DualAssumption DEF WriteSingle, RouteOf, Row, Target
    <2>2. SingleIsOne'
      BY <2>1, CallKeepsOne DEF TurnInv
    <2> QED
      BY <1>1, <2>2 DEF TurnInv, WriteSingle
  <1>2. ASSUME NEW c \in Clients, NEW r \in Row, NEW x \in Valid \cup {Absent},
               WriteFirst(c, r, x, "ok")
        PROVE  TurnInv'
    <2>1. Call("Postgres", r, x, "ok")
      BY <1>2 DEF WriteFirst, CallOrder
    <2>2. SingleIsOne'
      BY <2>1, CallKeepsOne DEF TurnInv
    <2>3. tainted' = {}
      BY <1>2, FirstIsAlone DEF WriteFirst, TurnInv
    <2>4. \A w \in writing' : w.ok
      <3> DEFINE new == [client |-> c, row |-> r, val |-> x, ok |-> ("ok" = "ok")]
      <3>1. writing' = writing \cup {new} /\ new.ok
        BY <1>2 DEF WriteFirst
      <3> HIDE DEF new
      <3> QED
        BY <3>1 DEF TurnInv
    <2> QED
      BY <2>2, <2>3, <2>4 DEF TurnInv
  <1>3. ASSUME NEW w \in writing, WriteSecond(w, "ok")
        PROVE  TurnInv'
    <2>1. Call("Aruaru", w.row, w.val, "ok")
      BY <1>3 DEF WriteSecond, CallOrder
    <2>2. SingleIsOne'
      BY <2>1, CallKeepsOne DEF TurnInv
    <2>3. Writers(w.row) = {w} /\ Acked(w, "ok")
      BY DEF TurnInv, TurnsTaken, Writers, Acked
    <2>4. tainted' = {} /\ writing' = writing \ {w}
      BY <1>3, <2>3 DEF WriteSecond, TurnInv
    <2> QED
      BY <2>2, <2>4 DEF TurnInv
  <1>4. CASE ReaderStep
    BY <1>4 DEF ReaderStep, GetMisses, GetFallsBack, TurnInv, SingleIsOne
  <1> QED
    BY <1>1, <1>2, <1>3, <1>4, TurnSteps

\* A put or delete on a record of one target is applied at once.
LEMMA SingleApplies ==
    ASSUME TypeOK, TurnInv, NEW c \in Clients, NEW r \in Row, NEW x \in Valid \cup {Absent},
           WriteSingle(c, r, x, "ok")
    PROVE  Promise!Apply(c, r, x)
  <1>1. Call(RouteOf(r), r, x, "ok") /\ RouteOf(r) \in {"Postgres", "Aruaru"}
    BY DualAssumption DEF WriteSingle, RouteOf, Row, Target
  <1>2. writing' = writing /\ ~Busy(c)
    BY DEF WriteSingle
  <1>3. RecOf(pg', ar') = [RecOf(pg, ar) EXCEPT ![r] = x]
    <2>1. \A q \in Row : q # r => pg'[q] = pg[q] /\ ar'[q] = ar[q]
      BY <1>1 DEF Call, TypeOK
    <2>2. /\ RouteOf(r) = "Postgres" => pg'[r] = x
          /\ RouteOf(r) = "Aruaru" => ar'[r] = x
      BY <1>1 DEF Call, TypeOK
    <2> QED
      BY <1>1, <2>1, <2>2 DEF RecOf, OneCopy, Visible
  <1> QED
    BY <1>2, <1>3 DEF Promise!Apply, Promise!Idle, Busy, RecOf, CallOf

\* The first call of a put carries it out; that of a delete only announces it,
\* unless one store takes both calls.
LEMMA FirstInvokes ==
    ASSUME TypeOK, IInv, TurnInv, NEW c \in Clients, NEW r \in Row,
           NEW x \in Valid \cup {Absent}, WriteFirst(c, r, x, "ok"), TurnsTaken'
    PROVE  Promise!Invoke(c, r, x) \/ Promise!InvokeAndApply(c, r, x)
  <1> DEFINE new == [client |-> c, row |-> r, val |-> x, ok |-> ("ok" = "ok")]
             P == {CallOf(w) : w \in writing}
  <1>1. writing' = writing \cup {new} /\ ~Busy(c) /\ RouteOf(r) = "Both"
    BY DEF WriteFirst
  <1>2. CallOf(new) = [client |-> c, row |-> r, val |-> x, done |-> Single \/ x # Absent]
    BY DEF CallOf
  <1> HIDE DEF new
  <1>3. {CallOf(w) : w \in writing'} = P \cup {CallOf(new)}
    BY <1>1
  <1>4. Call("Postgres", r, x, "ok") /\ pg[r] = ar[r]
    BY FirstIsAlone DEF WriteFirst, CallOrder
  <1>5. \A q \in Row : q # r => pg'[q] = pg[q] /\ ar'[q] = ar[q]
    BY <1>4 DEF Call, TypeOK
  <1>6. pg'[r] = x /\ ar'[r] = IF Single THEN x ELSE ar[r]
    BY <1>4 DEF Call, TypeOK
  <1>7. \A p \in P : p.client # c
    BY <1>1 DEF Busy, CallOf
  <1>8. CASE Single \/ x # Absent
    <2>1. RecOf(pg', ar') = [RecOf(pg, ar) EXCEPT ![r] = x]
      BY <1>1, <1>5, <1>6, <1>8 DEF RecOf, OneCopy, Visible
    <2>2. CallOf(new) = [client |-> c, row |-> r, val |-> x, done |-> TRUE]
      BY <1>2, <1>8
    <2> QED
      BY <1>3, <1>7, <2>1, <2>2
         DEF Promise!InvokeAndApply, Promise!Idle, Promise!Request, RecOf, CallOf
  <1>9. CASE ~Single /\ x = Absent
    <2>1. RecOf(pg', ar') = RecOf(pg, ar)
      BY <1>1, <1>4, <1>5, <1>6, <1>9 DEF RecOf, OneCopy, Visible
    <2>2. CallOf(new) = [client |-> c, row |-> r, val |-> x, done |-> FALSE]
      BY <1>2, <1>9
    <2> QED
      BY <1>3, <1>7, <2>1, <2>2
         DEF Promise!Invoke, Promise!Idle, Promise!Request, RecOf, CallOf
  <1> QED
    BY <1>8, <1>9

\* Its second call answers a put, and carries out a delete.
LEMMA SecondReturns ==
    ASSUME TypeOK, IInv, TurnInv, NEW w \in writing, WriteSecond(w, "ok")
    PROVE  Promise!ApplyAndReturn(CallOf(w)) \/ Promise!Return(CallOf(w))
  <1> DEFINE r == w.row
             x == w.val
  <1>1. r \in Row /\ RouteOf(r) = "Both" /\ x \in Cell /\ w.ok
    BY DEF TypeOK, WriteRec, BothRows, TurnInv
  <1>2. Call("Aruaru", r, x, "ok") /\ writing' = writing \ {w}
    BY DEF WriteSecond, CallOrder
  <1>3. pg[r] = x
    BY <1>1 DEF IInv, WritesUndisturbed, TurnInv
  <1>4. \A q \in Row : q # r => pg'[q] = pg[q] /\ ar'[q] = ar[q]
    BY <1>2 DEF Call, TypeOK
  <1>5. pg'[r] = x /\ ar'[r] = x
    BY <1>1, <1>2, <1>3 DEF Call, TypeOK
  <1>6. {CallOf(v) : v \in writing'} = {CallOf(v) : v \in writing} \ {CallOf(w)}
    <2>1. \A v \in writing : CallOf(v) = CallOf(w) => v = w
      BY DEF CallOf, TurnInv, TurnsTaken
    <2> QED
      BY <1>2, <2>1
  <1>7. CallOf(w).row = r /\ CallOf(w).val = x /\ CallOf(w).done = (Single \/ x # Absent)
    BY DEF CallOf
  <1>8. CASE Single \/ x # Absent
    <2>1. x # Absent \/ ar[r] = x
      BY <1>3, <1>8 DEF TurnInv, SingleIsOne
    <2>2. RecOf(pg', ar') = RecOf(pg, ar)
      BY <1>1, <1>3, <1>4, <1>5, <2>1 DEF RecOf, OneCopy, Visible
    <2> QED
      BY <1>6, <1>7, <1>8, <2>2 DEF Promise!Return, RecOf, CallOf
  <1>9. CASE ~Single /\ x = Absent
    <2>1. RecOf(pg', ar') = [RecOf(pg, ar) EXCEPT ![r] = x]
      BY <1>1, <1>4, <1>5 DEF RecOf, OneCopy, Visible
    <2> QED
      BY <1>6, <1>7, <1>9, <2>1 DEF Promise!ApplyAndReturn, RecOf, CallOf
  <1> QED
    BY <1>8, <1>9

\* Every step is a step of the single copy, or leaves it as it is.
LEMMA StepSimulated ==
    ASSUME NoDisturbance, TypeOK, IInv, TurnInv, [Next /\ TurnsTaken']_vars
    PROVE  Promise!Next \/ (RecOf(pg', ar') = RecOf(pg, ar) /\ writing' = writing)
  <1>1. ASSUME NEW c \in Clients, NEW r \in Row, NEW x \in Valid \cup {Absent},
               WriteSingle(c, r, x, "ok")
        PROVE  Promise!Next
    BY <1>1, SingleApplies DEF Promise!Next, Cell, Value
  <1>2. ASSUME NEW c \in Clients, NEW r \in Row, NEW x \in Valid \cup {Absent},
               WriteFirst(c, r, x, "ok"), TurnsTaken'
        PROVE  Promise!Next
    BY <1>2, FirstInvokes DEF Promise!Next, Cell, Value
  <1>3. ASSUME NEW w \in writing, WriteSecond(w, "ok")
        PROVE  Promise!Next
    BY <1>3, SecondReturns DEF Promise!Next, CallOf
  <1>4. CASE ReaderStep
    BY <1>4 DEF ReaderStep, GetMisses, GetFallsBack
  <1>5. CASE UNCHANGED vars
    BY <1>5 DEF vars
  <1> QED
    BY <1>1, <1>2, <1>3, <1>4, <1>5, TurnSteps

\* Tasks that take turns on each record cannot tell the two databases from one
\* store with atomic records (dual.rs:250, dual.rs:263, dual.rs:276), as long as no call
\* fails and no pass runs: each put and delete takes effect exactly once
\* between its call and its answer, also when both sides are one store.
THEOREM OneStore == NoDisturbance /\ TurnSpec => ActsAsOneStore
  <1> SUFFICES ASSUME NoDisturbance PROVE TurnSpec => ActsAsOneStore
    OBVIOUS
  <1>1. Init => Promise!Init /\ TurnInv
    <2> SUFFICES ASSUME Init PROVE Promise!Init /\ TurnInv
      OBVIOUS
    <2>1. Promise!Init
      BY DEF Init, Promise!Init, OneCopy, Visible
    <2> QED
      BY <2>1 DEF Init, TurnInv, TurnsTaken, SingleIsOne
  <1>2. TypeOK /\ IInv /\ TurnInv /\ [Next /\ TurnsTaken']_vars => TurnInv'
    <2>1. ASSUME TurnInv, UNCHANGED vars PROVE TurnInv'
      BY <2>1 DEF vars, TurnInv, TurnsTaken, SingleIsOne
    <2> QED
      BY <2>1, TurnInvStep
  <1>3. TypeOK /\ IInv /\ TurnInv /\ [Next /\ TurnsTaken']_vars
          => [Promise!Next]_<<RecOf(pg, ar), {CallOf(w) : w \in writing}>>
    BY StepSimulated
  <1>4. TurnSpec => Spec
    <2>1. [Next /\ TurnsTaken']_vars => [Next]_vars
      OBVIOUS
    <2> QED
      BY <2>1, PTL DEF TurnSpec, Spec
  <1>5. QED
    BY <1>1, <1>2, <1>3, <1>4, TypeCorrect, Invariant, PTL
       DEF TurnSpec, ActsAsOneStore, Promise!Spec, RecOf, CallOf

=============================================================================

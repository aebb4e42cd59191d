------------------------- MODULE RequestPathProofs --------------------------
(***************************************************************************)
(* The wrappers around a handler, for any requests, operations, limit,     *)
(* window, buffer and clock: a client stays within one budget per started  *)
(* window however its requests' readings of the clock cross, and the three *)
(* structures of the request metrics agree row by row.                     *)
(***************************************************************************)
EXTENDS RequestPath, FiniteSetTheorems, TLAPS

RequestRecords == [at : Places, now : 0 .. Horizon, op : Ops, ok : BOOLEAN, endless : BOOLEAN]
Windows == [start : 0 .. Horizon, count : Nat]

\* Whoever is to be recorded has no row yet.
Unrecorded == {"idle", "check", "retry", "handler", "month", "operation", "row"}
RowsComeLast == \A row \in Recorded : ~At(row.of, Unrecorded)

\* Each of the three queues holds a row once, and no two hold the same.
OnePlace ==
    /\ IsInjective(buffer) /\ IsInjective(batch) /\ IsInjective(sink)
    /\ ToSet(buffer) \cap ToSet(batch) = {}
    /\ (ToSet(buffer) \cup ToSet(batch)) \cap ToSet(sink) = {}
    /\ (ToSet(buffer) \cup ToSet(batch) \cup ToSet(sink)) \cap gone = {}

Among(places) == {r \in Requests : At(r, places)}
RowsFor(o) == {row \in Recorded : row.op = o}
ErrorsFor(o) == {row \in RowsFor(o) : ~row.ok}
LateFor(o) == {r \in Among({"row"}) : request[r].op = o}
LateErrors(o) == {r \in LateFor(o) : ~request[r].ok}

\* The books, with a name for each set that is counted.
Books ==
    /\ monthly = Cardinality(Recorded) + Cardinality(Among({"operation", "row"}))
    /\ \A o \in Ops :
          /\ perOp[o].count = Cardinality(RowsFor(o)) + Cardinality(LateFor(o))
          /\ perOp[o].errors = Cardinality(ErrorsFor(o)) + Cardinality(LateErrors(o))

MetricsInv == IsFiniteSet(Recorded) /\ RowsComeLast /\ OnePlace /\ Books

\* Before the window that is open, one budget for each started span; in it, what
\* its count allows.
BudgetInv ==
    IF window = <<>> THEN admitted = 0
    ELSE LET before == MaxRequests * ((window.start - first) \div Window)
         IN /\ first <= window.start
            /\ admitted <= before + window.count
            /\ admitted <= before + MaxRequests

PathIInv == PathTypeOK /\ BudgetInv /\ MetricsInv

-----------------------------------------------------------------------------
(* Arithmetic, rows and requests *)

\* A window that starts a whole span later, or more, counts one span more.
LEMMA NextSpan ==
    ASSUME NEW a \in Nat, NEW b \in Nat, NEW w \in Nat \ {0}, b >= a + w
    PROVE  (a \div w) \in Nat /\ (b \div w) \in Nat /\ b \div w >= a \div w + 1
BY SMTT(20)

LEMMA NoSpan == ASSUME NEW w \in Nat \ {0} PROVE 0 \div w = 0
BY SMTT(20)

\* What a span more adds to the budget.
LEMMA OneMoreBudget ==
    ASSUME NEW m \in Nat, NEW k \in Nat, NEW j \in Nat, j >= k + 1
    PROVE  m * k \in Nat /\ m * j \in Nat /\ m * j >= m * k + m
BY SMTT(20)

LEMMA BudgetOfSpans == ASSUME NEW m \in Nat, NEW k \in Nat PROVE m * (1 + k) = m * k + m /\ m * k \in Nat
BY SMTT(20)

\* Appending a row that is not there yet.
LEMMA AppendRow ==
    ASSUME NEW S, NEW s \in Seq(S), NEW x \in S, x \notin ToSet(s), IsInjective(s)
    PROVE  /\ Append(s, x) \in Seq(S) /\ IsInjective(Append(s, x))
           /\ ToSet(Append(s, x)) = ToSet(s) \cup {x}
<1>1. \A i \in DOMAIN s : s[i] # x
  BY DEF ToSet
<1>2. IsInjective(Append(s, x))
  BY <1>1 DEF IsInjective
<1>3. ASSUME NEW y PROVE y \in ToSet(Append(s, x)) <=> y \in ToSet(s) \cup {x}
  <2>1. \A i \in DOMAIN s : i \in DOMAIN Append(s, x) /\ Append(s, x)[i] = s[i]
    OBVIOUS
  <2>2. Len(s) + 1 \in DOMAIN Append(s, x) /\ Append(s, x)[Len(s) + 1] = x
    OBVIOUS
  <2>3. \A i \in DOMAIN Append(s, x) : i \in DOMAIN s \/ i = Len(s) + 1
    OBVIOUS
  <2> QED BY <2>1, <2>2, <2>3 DEF ToSet
<1> QED BY <1>2, <1>3

\* Dropping the oldest row.
LEMMA DropOldest ==
    ASSUME NEW S, NEW s \in Seq(S), s # <<>>, IsInjective(s)
    PROVE  /\ Tail(s) \in Seq(S) /\ IsInjective(Tail(s)) /\ Head(s) \in S
           /\ Head(s) \notin ToSet(Tail(s))
           /\ ToSet(s) = ToSet(Tail(s)) \cup {Head(s)}
<1>1. /\ Tail(s) \in Seq(S) /\ Head(s) = s[1] /\ 1 \in DOMAIN s
      /\ \A i \in DOMAIN Tail(s) : i \in Nat \ {0} /\ i + 1 \in DOMAIN s /\ Tail(s)[i] = s[i + 1]
      /\ \A i \in DOMAIN s : i = 1 \/ (i - 1 \in DOMAIN Tail(s) /\ Tail(s)[i - 1] = s[i])
  OBVIOUS
<1>2. IsInjective(Tail(s))
  <2> SUFFICES ASSUME NEW i \in DOMAIN Tail(s), NEW j \in DOMAIN Tail(s), Tail(s)[i] = Tail(s)[j]
               PROVE  i = j
    BY DEF IsInjective
  <2>1. i + 1 = j + 1
    BY <1>1 DEF IsInjective
  <2> QED BY <1>1, <2>1
<1>3. Head(s) \notin ToSet(Tail(s))
  <2> SUFFICES ASSUME NEW i \in DOMAIN Tail(s), Tail(s)[i] = Head(s) PROVE FALSE
    BY DEF ToSet
  <2>1. i + 1 = 1
    BY <1>1 DEF IsInjective
  <2> QED BY <1>1, <2>1
<1>4. ToSet(s) = ToSet(Tail(s)) \cup {Head(s)}
  <2>1. ASSUME NEW y \in ToSet(s) PROVE y \in ToSet(Tail(s)) \cup {Head(s)}
    <3>1. PICK i \in DOMAIN s : y = s[i]
      BY <2>1 DEF ToSet
    <3> QED BY <1>1, <3>1 DEF ToSet
  <2>2. ASSUME NEW y \in ToSet(Tail(s)) \cup {Head(s)} PROVE y \in ToSet(s)
    <3>1. CASE y = Head(s)
      BY <1>1, <3>1 DEF ToSet
    <3>2. CASE y \in ToSet(Tail(s))
      <4>1. PICK i \in DOMAIN Tail(s) : y = Tail(s)[i]
        BY <3>2 DEF ToSet
      <4> QED BY <1>1, <4>1 DEF ToSet
    <3> QED BY <2>2, <3>1, <3>2
  <2> QED BY <2>1, <2>2
<1> QED BY <1>1, <1>2, <1>3, <1>4

\* Putting one queue behind another that shares no row with it.
LEMMA JoinRows ==
    ASSUME NEW S, NEW s \in Seq(S), NEW t \in Seq(S)
    PROVE  /\ s \o t \in Seq(S)
           /\ ToSet(s \o t) = ToSet(s) \cup ToSet(t)
           /\ IsInjective(s) /\ IsInjective(t) /\ ToSet(s) \cap ToSet(t) = {} => IsInjective(s \o t)
<1>1. /\ s \o t \in Seq(S)
      /\ \A i \in DOMAIN s : i \in DOMAIN (s \o t) /\ (s \o t)[i] = s[i]
      /\ \A i \in DOMAIN t : i + Len(s) \in DOMAIN (s \o t) /\ (s \o t)[i + Len(s)] = t[i]
      /\ \A i \in DOMAIN (s \o t) :
            \/ i \in DOMAIN s
            \/ i \in Nat /\ i - Len(s) \in DOMAIN t /\ i \notin DOMAIN s
  OBVIOUS
<1>4. \A i \in DOMAIN (s \o t) : i \notin DOMAIN s => (s \o t)[i] = t[i - Len(s)]
  <2> SUFFICES ASSUME NEW i \in DOMAIN (s \o t), i \notin DOMAIN s
               PROVE  (s \o t)[i] = t[i - Len(s)]
    OBVIOUS
  <2>1. i - Len(s) \in DOMAIN t /\ (i - Len(s)) + Len(s) = i
    BY <1>1
  <2> QED BY <1>1, <2>1
<1>2. ToSet(s \o t) = ToSet(s) \cup ToSet(t)
  <2>1. ASSUME NEW y \in ToSet(s \o t) PROVE y \in ToSet(s) \cup ToSet(t)
    <3>1. PICK i \in DOMAIN (s \o t) : y = (s \o t)[i]
      BY <2>1 DEF ToSet
    <3> QED BY <1>1, <1>4, <3>1 DEF ToSet
  <2>2. ASSUME NEW y \in ToSet(s) PROVE y \in ToSet(s \o t)
    BY <1>1, <2>2 DEF ToSet
  <2>3. ASSUME NEW y \in ToSet(t) PROVE y \in ToSet(s \o t)
    <3>1. PICK i \in DOMAIN t : y = t[i]
      BY <2>3 DEF ToSet
    <3> QED BY <1>1, <3>1 DEF ToSet
  <2> QED BY <2>1, <2>2, <2>3
<1>3. ASSUME IsInjective(s), IsInjective(t), ToSet(s) \cap ToSet(t) = {}
      PROVE  IsInjective(s \o t)
  <2> SUFFICES ASSUME NEW i \in DOMAIN (s \o t), NEW j \in DOMAIN (s \o t),
                      (s \o t)[i] = (s \o t)[j]
               PROVE  i = j
    BY DEF IsInjective
  <2>1. \A a \in DOMAIN s, b \in DOMAIN t : s[a] # t[b]
    BY <1>3 DEF ToSet
  <2>2. CASE i \in DOMAIN s /\ j \in DOMAIN s
    BY <1>1, <1>3, <2>2 DEF IsInjective
  <2>3. CASE i \notin DOMAIN s /\ j \notin DOMAIN s
    <3>1. i - Len(s) = j - Len(s) /\ i \in Nat /\ j \in Nat
      BY <1>1, <1>3, <1>4, <2>3 DEF IsInjective
    <3> QED BY <3>1
  <2>4. CASE i \in DOMAIN s /\ j \notin DOMAIN s
    BY <1>1, <1>4, <2>1, <2>4
  <2>5. CASE i \notin DOMAIN s /\ j \in DOMAIN s
    BY <1>1, <1>4, <2>1, <2>5
  <2> QED BY <2>2, <2>3, <2>4, <2>5
<1> QED BY <1>1, <1>2, <1>3

\* Three queues, one behind the other.
LEMMA ThreeQueues ==
    ASSUME NEW S, NEW a \in Seq(S), NEW b \in Seq(S), NEW c \in Seq(S)
    PROVE  /\ ToSet(a \o b \o c) = ToSet(a) \cup ToSet(b) \cup ToSet(c)
           /\ /\ IsInjective(a) /\ IsInjective(b) /\ IsInjective(c)
              /\ ToSet(a) \cap ToSet(b) = {} /\ (ToSet(a) \cup ToSet(b)) \cap ToSet(c) = {}
              => IsInjective(a \o b \o c)
<1>1. /\ a \o b \in Seq(S) /\ ToSet(a \o b) = ToSet(a) \cup ToSet(b)
      /\ IsInjective(a) /\ IsInjective(b) /\ ToSet(a) \cap ToSet(b) = {} => IsInjective(a \o b)
  BY JoinRows
<1> DEFINE front == a \o b
<1>2. front \in Seq(S) /\ ToSet(front) = ToSet(a) \cup ToSet(b)
  BY <1>1
<1> HIDE DEF front
<1>3. ToSet(front \o c) = ToSet(front) \cup ToSet(c)
  BY <1>2, JoinRows
<1>4. IsInjective(front) /\ IsInjective(c) /\ ToSet(front) \cap ToSet(c) = {} => IsInjective(front \o c)
  BY <1>2, JoinRows
<1> QED BY <1>1, <1>2, <1>3, <1>4 DEF front

\* The rows recorded, place by place.
LEMMA RecordedRows ==
    ASSUME PathTypeOK
    PROVE  /\ Recorded = ToSet(buffer) \cup ToSet(batch) \cup ToSet(sink) \cup gone
           /\ OnePlace => IsInjective(AllRecorded) /\ ToSet(AllRecorded) \cap gone = {}
           /\ Recorded \subseteq MetricRows
<1>1. buffer \in Seq(MetricRows) /\ batch \in Seq(MetricRows) /\ sink \in Seq(MetricRows)
  BY DEF PathTypeOK
<1>2. /\ ToSet(AllRecorded) = ToSet(buffer) \cup ToSet(batch) \cup ToSet(sink)
      /\ OnePlace => IsInjective(AllRecorded)
  BY <1>1, ThreeQueues DEF OnePlace, AllRecorded
<1>3. \A s \in Seq(MetricRows) : ToSet(s) \subseteq MetricRows
  BY DEF ToSet
<1> QED BY <1>1, <1>2, <1>3 DEF Recorded, OnePlace, PathTypeOK

\* The same after a step that keeps the types.
LEMMA RecordedNext ==
    ASSUME PathTypeOK'
    PROVE  Recorded' = ToSet(buffer') \cup ToSet(batch') \cup ToSet(sink') \cup gone'
<1>1. buffer' \in Seq(MetricRows) /\ batch' \in Seq(MetricRows) /\ sink' \in Seq(MetricRows)
  BY DEF PathTypeOK, MetricRows
<1> QED BY <1>1, ThreeQueues DEF Recorded, AllRecorded

-----------------------------------------------------------------------------
(* The books, step by step *)

\* Every set that is counted is finite.
LEMMA CountedSets ==
    ASSUME IsFiniteSet(Recorded)
    PROVE  /\ \A S \in SUBSET Recorded : IsFiniteSet(S)
           /\ \A S \in SUBSET Requests : IsFiniteSet(S)
BY FS_Subset, PathAssumption

\* The set that is left when the books are read from the same rows and requests.
LEMMA SameBooks ==
    ASSUME MetricsInv, Recorded' = Recorded, UNCHANGED <<monthly, perOp>>,
           \A r \in Requests : request[r].at \in {"operation", "row"} \/ request'[r].at \in {"operation", "row"}
                               => request'[r] = request[r]
    PROVE  IsFiniteSet(Recorded)' /\ Books'
<1>1. Among({"operation", "row"})' = Among({"operation", "row"})
  BY DEF Among, At
<1>2. ASSUME NEW o \in Ops
      PROVE  /\ RowsFor(o)' = RowsFor(o) /\ ErrorsFor(o)' = ErrorsFor(o)
             /\ LateFor(o)' = LateFor(o) /\ LateErrors(o)' = LateErrors(o)
  <2>1. RowsFor(o)' = RowsFor(o) /\ ErrorsFor(o)' = ErrorsFor(o)
    BY DEF RowsFor, ErrorsFor
  <2>2. LateFor(o)' = LateFor(o)
    BY DEF LateFor, Among, At
  <2>3. LateErrors(o)' = LateErrors(o)
    BY <2>2 DEF LateErrors, LateFor, Among, At
  <2> QED BY <2>1, <2>2, <2>3
<1> QED BY <1>1, <1>2 DEF MetricsInv, Books

\* A request that moves elsewhere than through the locks of the metrics.
LEMMA MovesElsewhere ==
    ASSUME MetricsInv, PathTypeOK, NEW r \in Requests, NEW c \in RequestRecords,
           request' = [request EXCEPT ![r] = c],
           UNCHANGED <<metrics, flushing, gone>>,
           request[r].at \notin {"operation", "row"}, c.at \notin {"operation", "row"},
           c.at \in Unrecorded => At(r, Unrecorded)
    PROVE  MetricsInv'
<1>1. Recorded' = Recorded /\ UNCHANGED <<monthly, perOp, buffer, batch, sink, gone>>
  BY DEF Recorded, AllRecorded, metrics, flushing
<1>2. /\ request'[r] = c
      /\ \A q \in Requests \ {r} : request'[q] = request[q]
  BY DEF PathTypeOK
<1>3. IsFiniteSet(Recorded)' /\ Books'
  BY <1>1, <1>2, SameBooks
<1>4. RowsComeLast'
  <2> SUFFICES ASSUME NEW row \in Recorded PROVE ~At(row.of, Unrecorded)'
    BY <1>1 DEF RowsComeLast
  <2>1. row.of \in Requests /\ ~At(row.of, Unrecorded)
    BY RecordedRows DEF MetricRows, MetricsInv, RowsComeLast
  <2> QED BY <1>2, <2>1 DEF At
<1>5. OnePlace'
  BY <1>1 DEF MetricsInv, OnePlace
<1> QED BY <1>3, <1>4, <1>5 DEF MetricsInv

\* The first lock: the month counts the request.
LEMMA MonthKeeps ==
    ASSUME MetricsInv, PathTypeOK, NEW r \in Requests, RecordMonth(r)
    PROVE  MetricsInv'
<1>1. /\ UNCHANGED <<perOp, buffer, batch, sink, gone>> /\ monthly' = monthly + 1
      /\ At(r, {"month"}) /\ request'[r] = [request[r] EXCEPT !.at = "operation"]
      /\ \A q \in Requests \ {r} : request'[q] = request[q]
  BY DEF RecordMonth, Goes, history, flushing, PathTypeOK
<1>2. Recorded' = Recorded
  BY <1>1 DEF Recorded, AllRecorded
<1>3. request'[r].at = "operation"
  BY <1>1 DEF PathTypeOK
<1>4. /\ Among({"operation", "row"})' = Among({"operation", "row"}) \cup {r}
      /\ r \notin Among({"operation", "row"})
  BY <1>1, <1>3 DEF Among, At
<1>5. Cardinality(Among({"operation", "row"}))' = Cardinality(Among({"operation", "row"})) + 1
  <2>1. IsFiniteSet(Among({"operation", "row"}))
    BY CountedSets DEF MetricsInv, Among
  <2> QED BY <1>4, <2>1, FS_AddElement
<1>6. ASSUME NEW o \in Ops
      PROVE  /\ RowsFor(o)' = RowsFor(o) /\ ErrorsFor(o)' = ErrorsFor(o)
             /\ LateFor(o)' = LateFor(o) /\ LateErrors(o)' = LateErrors(o)
  <2>1. RowsFor(o)' = RowsFor(o) /\ ErrorsFor(o)' = ErrorsFor(o)
    BY <1>2 DEF RowsFor, ErrorsFor
  <2>2. LateFor(o)' = LateFor(o)
    BY <1>1, <1>3 DEF LateFor, Among, At
  <2>3. LateErrors(o)' = LateErrors(o)
    BY <1>1, <1>3, <2>2 DEF LateErrors, LateFor, Among, At
  <2> QED BY <2>1, <2>2, <2>3
<1>7. Books'
  <2>1. Cardinality(Recorded) \in Nat /\ Cardinality(Among({"operation", "row"})) \in Nat
    BY FS_CardinalityType, CountedSets DEF MetricsInv, Among
  <2> QED BY <1>1, <1>2, <1>5, <1>6, <2>1 DEF Books, MetricsInv
<1>8. RowsComeLast'
  <2> SUFFICES ASSUME NEW row \in Recorded PROVE ~At(row.of, Unrecorded)'
    BY <1>2 DEF RowsComeLast
  <2>1. row.of \in Requests /\ ~At(row.of, Unrecorded)
    BY RecordedRows DEF MetricRows, MetricsInv, RowsComeLast
  <2> QED BY <1>1, <2>1 DEF At, Unrecorded
<1> QED BY <1>1, <1>2, <1>7, <1>8 DEF MetricsInv, OnePlace

\* The second lock: the operation counts the request, and its error.
LEMMA OperationKeeps ==
    ASSUME MetricsInv, PathTypeOK, NEW r \in Requests, RecordOperation(r)
    PROVE  MetricsInv'
<1>0. PICK mine \in Ops : mine = request[r].op
  BY DEF PathTypeOK
<1>1. /\ UNCHANGED <<monthly, buffer, batch, sink, gone>> /\ At(r, {"operation"})
      /\ request'[r] = [request[r] EXCEPT !.at = "row"]
      /\ \A q \in Requests \ {r} : request'[q] = request[q]
      /\ request[r].ok \in BOOLEAN
  BY DEF RecordOperation, Goes, history, flushing, PathTypeOK
<1>2. Recorded' = Recorded
  BY <1>1 DEF Recorded, AllRecorded
<1>3. request'[r].at = "row" /\ request'[r].op = mine /\ request'[r].ok = request[r].ok
  BY <1>0, <1>1 DEF PathTypeOK
<1>4. /\ perOp'[mine].count = perOp[mine].count + 1
      /\ perOp'[mine].errors = perOp[mine].errors + (IF request[r].ok THEN 0 ELSE 1)
      /\ \A o \in Ops \ {mine} : perOp'[o] = perOp[o]
  BY <1>0, <1>1 DEF RecordOperation, PathTypeOK
<1>5. Among({"operation", "row"})' = Among({"operation", "row"})
  BY <1>1, <1>3 DEF Among, At
<1>6. ASSUME NEW o \in Ops
      PROVE  /\ RowsFor(o)' = RowsFor(o) /\ ErrorsFor(o)' = ErrorsFor(o)
  BY <1>2 DEF RowsFor, ErrorsFor
<1>7. ASSUME NEW o \in Ops \ {mine}
      PROVE  LateFor(o)' = LateFor(o) /\ LateErrors(o)' = LateErrors(o)
  <2>1. LateFor(o)' = LateFor(o)
    BY <1>0, <1>1, <1>3, <1>7 DEF LateFor, Among, At
  <2>2. \A q \in LateFor(o) : request'[q] = request[q]
    BY <1>0, <1>1, <1>7 DEF LateFor, Among, At
  <2> QED BY <2>1, <2>2 DEF LateErrors
<1>8. /\ LateFor(mine)' = LateFor(mine) \cup {r} /\ r \notin LateFor(mine)
      /\ LateErrors(mine)' = IF request[r].ok THEN LateErrors(mine) ELSE LateErrors(mine) \cup {r}
      /\ r \notin LateErrors(mine)
  <2>1. LateFor(mine)' = LateFor(mine) \cup {r} /\ r \notin LateFor(mine)
    BY <1>1, <1>3 DEF LateFor, Among, At
  <2>2. \A q \in LateFor(mine) : request'[q] = request[q]
    BY <1>1, <2>1 DEF LateFor, Among
  <2>3. LateErrors(mine)' = {q \in LateFor(mine) \cup {r} : ~request'[q].ok}
    BY <2>1 DEF LateErrors
  <2> QED BY <1>3, <2>1, <2>2, <2>3 DEF LateErrors
<1>9. /\ Cardinality(LateFor(mine))' = Cardinality(LateFor(mine)) + 1
      /\ Cardinality(LateErrors(mine))' = Cardinality(LateErrors(mine)) + (IF request[r].ok THEN 0 ELSE 1)
  <2>1. IsFiniteSet(LateFor(mine)) /\ IsFiniteSet(LateErrors(mine))
    BY CountedSets DEF MetricsInv, LateFor, LateErrors, Among
  <2>2. Cardinality(LateErrors(mine)) \in Nat
    BY <2>1, FS_CardinalityType
  <2>3. Cardinality(LateErrors(mine) \cup {r}) = Cardinality(LateErrors(mine)) + 1
    BY <1>8, <2>1, FS_AddElement
  <2>4. Cardinality(LateFor(mine) \cup {r}) = Cardinality(LateFor(mine)) + 1
    BY <1>8, <2>1, FS_AddElement
  <2> QED BY <1>1, <1>8, <2>2, <2>3, <2>4
<1>10. \A o \in Ops : /\ Cardinality(RowsFor(o)) \in Nat /\ Cardinality(ErrorsFor(o)) \in Nat
                      /\ Cardinality(LateFor(o)) \in Nat /\ Cardinality(LateErrors(o)) \in Nat
  BY FS_CardinalityType, CountedSets DEF MetricsInv, RowsFor, ErrorsFor, LateFor, LateErrors, Among
<1>11. Books'
  <2>1. ASSUME NEW o \in Ops
        PROVE  (/\ perOp[o].count = Cardinality(RowsFor(o)) + Cardinality(LateFor(o))
                /\ perOp[o].errors = Cardinality(ErrorsFor(o)) + Cardinality(LateErrors(o)))'
    <3>1. CASE o = mine
      <4>1. /\ perOp[mine].count = Cardinality(RowsFor(mine)) + Cardinality(LateFor(mine))
            /\ perOp[mine].errors = Cardinality(ErrorsFor(mine)) + Cardinality(LateErrors(mine))
        BY DEF Books, MetricsInv
      <4>2. perOp'[mine].count = Cardinality(RowsFor(mine))' + Cardinality(LateFor(mine))'
        BY <1>4, <1>6, <1>9, <1>10, <4>1
      <4>3. perOp'[mine].errors = Cardinality(ErrorsFor(mine))' + Cardinality(LateErrors(mine))'
        <5>1. CASE request[r].ok
          BY <1>4, <1>6, <1>9, <1>10, <4>1, <5>1
        <5>2. CASE ~request[r].ok
          BY <1>4, <1>6, <1>9, <1>10, <4>1, <5>2
        <5> QED BY <5>1, <5>2
      <4> QED BY <3>1, <4>2, <4>3
    <3>2. CASE o # mine
      BY <1>4, <1>6, <1>7, <3>2 DEF Books, MetricsInv
    <3> QED BY <3>1, <3>2
  <2> QED BY <1>1, <1>2, <1>5, <2>1 DEF Books, MetricsInv
<1>12. RowsComeLast'
  <2> SUFFICES ASSUME NEW row \in Recorded PROVE ~At(row.of, Unrecorded)'
    BY <1>2 DEF RowsComeLast
  <2>1. row.of \in Requests /\ ~At(row.of, Unrecorded)
    BY RecordedRows DEF MetricRows, MetricsInv, RowsComeLast
  <2> QED BY <1>1, <2>1 DEF At, Unrecorded
<1> QED BY <1>1, <1>2, <1>11, <1>12 DEF MetricsInv, OnePlace

\* The third lock: the row joins the buffer, and the oldest goes if it was full.
LEMMA RowKeeps ==
    ASSUME MetricsInv, PathTypeOK, PathTypeOK', NEW r \in Requests, RecordRow(r)
    PROVE  MetricsInv'
<1>1. PICK mine \in MetricRows : mine = RowOf(r)
  BY DEF RowOf, MetricRows, PathTypeOK
<1>2. /\ mine.of = r /\ mine.op = request[r].op /\ mine.ok = request[r].ok /\ mine.op \in Ops
  BY <1>1 DEF RowOf, MetricRows
<1>3. /\ UNCHANGED <<monthly, perOp, batch, sink>> /\ At(r, {"row"})
      /\ request'[r].at = "respond"
      /\ \A q \in Requests \ {r} : request'[q] = request[q]
  BY DEF RecordRow, Goes, flushing, PathTypeOK
<1>4. mine \notin Recorded
  BY <1>2, <1>3 DEF MetricsInv, RowsComeLast, At, Unrecorded
<1>5. /\ Recorded = ToSet(buffer) \cup ToSet(batch) \cup ToSet(sink) \cup gone
      /\ Recorded' = ToSet(buffer') \cup ToSet(batch') \cup ToSet(sink') \cup gone'
  BY RecordedRows, RecordedNext
<1>6. /\ IsInjective(buffer')
      /\ ToSet(buffer') \cup gone' = ToSet(buffer) \cup gone \cup {mine}
      /\ ToSet(buffer') \subseteq ToSet(buffer) \cup {mine}
      /\ gone' \cap ToSet(buffer') = {} /\ gone' \subseteq gone \cup ToSet(buffer)
  <2>1. buffer \in Seq(MetricRows) /\ IsInjective(buffer) /\ mine \notin ToSet(buffer) \cup gone
        /\ ToSet(buffer) \cap gone = {}
    BY <1>4, <1>5 DEF PathTypeOK, MetricsInv, OnePlace
  <2>2. CASE Len(buffer) >= MaxBuffered
    <3>1. buffer # <<>>
      BY <2>1, <2>2, PathAssumption
    <3>2. buffer' = Append(Tail(buffer), mine) /\ gone' = gone \cup {Head(buffer)}
      BY <1>1, <2>2 DEF RecordRow
    <3>3. /\ Tail(buffer) \in Seq(MetricRows) /\ IsInjective(Tail(buffer))
          /\ Head(buffer) \notin ToSet(Tail(buffer))
          /\ ToSet(buffer) = ToSet(Tail(buffer)) \cup {Head(buffer)}
      BY <2>1, <3>1, DropOldest
    <3>4. mine \notin ToSet(Tail(buffer)) /\ mine # Head(buffer)
      BY <2>1, <3>3
    <3> DEFINE rest == Tail(buffer)
    <3>6. rest \in Seq(MetricRows) /\ IsInjective(rest) /\ mine \notin ToSet(rest)
      BY <3>3, <3>4
    <3> HIDE DEF rest
    <3>7. IsInjective(Append(rest, mine)) /\ ToSet(Append(rest, mine)) = ToSet(rest) \cup {mine}
      BY <3>6, AppendRow
    <3>5. IsInjective(buffer') /\ ToSet(buffer') = ToSet(Tail(buffer)) \cup {mine}
      BY <3>2, <3>7 DEF rest
    <3> QED BY <2>1, <3>2, <3>3, <3>4, <3>5
  <2>3. CASE ~(Len(buffer) >= MaxBuffered)
    <3>1. buffer' = Append(buffer, mine) /\ gone' = gone
      BY <1>1, <2>3 DEF RecordRow
    <3>2. IsInjective(buffer') /\ ToSet(buffer') = ToSet(buffer) \cup {mine}
      BY <2>1, <3>1, AppendRow
    <3> QED BY <2>1, <3>1, <3>2
  <2> QED BY <2>2, <2>3
<1>7. Recorded' = Recorded \cup {mine} /\ IsFiniteSet(Recorded)'
      /\ Cardinality(Recorded)' = Cardinality(Recorded) + 1
  <2>1. Recorded' = Recorded \cup {mine}
    BY <1>3, <1>5, <1>6
  <2> QED BY <1>4, <2>1, FS_AddElement DEF MetricsInv
<1>8. OnePlace'
  BY <1>3, <1>4, <1>5, <1>6 DEF OnePlace, MetricsInv
<1>9. RowsComeLast'
  <2> SUFFICES ASSUME NEW row \in Recorded \cup {mine} PROVE ~At(row.of, Unrecorded)'
    BY <1>7 DEF RowsComeLast
  <2>1. CASE row = mine
    BY <1>2, <1>3, <2>1 DEF At, Unrecorded
  <2>2. CASE row \in Recorded
    <3>1. row.of \in Requests /\ ~At(row.of, Unrecorded)
      BY <2>2, RecordedRows DEF MetricRows, MetricsInv, RowsComeLast
    <3> QED BY <1>3, <3>1 DEF At, Unrecorded
  <2> QED BY <2>1, <2>2
<1>10. Cardinality(Among({"operation", "row"})) = Cardinality(Among({"operation", "row"}))' + 1
  <2>1. /\ Among({"operation", "row"}) = Among({"operation", "row"})' \cup {r}
        /\ r \notin Among({"operation", "row"})'
    BY <1>3 DEF Among, At
  <2>2. Among({"operation", "row"})' \in SUBSET Requests
    BY DEF Among
  <2>3. IsFiniteSet(Among({"operation", "row"})')
    BY <2>2, FS_Subset, PathAssumption
  <2> QED BY <2>1, <2>3, FS_AddElement
<1>11. ASSUME NEW o \in Ops \ {mine.op}
       PROVE  /\ RowsFor(o)' = RowsFor(o) /\ ErrorsFor(o)' = ErrorsFor(o)
              /\ LateFor(o)' = LateFor(o) /\ LateErrors(o)' = LateErrors(o)
  <2>1. RowsFor(o)' = RowsFor(o)
    BY <1>7, <1>11 DEF RowsFor
  <2>2. ErrorsFor(o)' = ErrorsFor(o)
    BY <2>1 DEF ErrorsFor
  <2>3. LateFor(o)' = LateFor(o)
    BY <1>2, <1>3, <1>11 DEF LateFor, Among, At
  <2>4. \A q \in LateFor(o) : request'[q] = request[q]
    BY <1>2, <1>3, <1>11 DEF LateFor, Among, At
  <2> QED BY <2>1, <2>2, <2>3, <2>4 DEF LateErrors
<1>12. PICK op \in Ops : op = mine.op
  BY <1>2
<1>13. /\ RowsFor(op)' = RowsFor(op) \cup {mine} /\ mine \notin RowsFor(op)
       /\ ErrorsFor(op)' = IF mine.ok THEN ErrorsFor(op) ELSE ErrorsFor(op) \cup {mine}
       /\ mine \notin ErrorsFor(op)
  BY <1>4, <1>7, <1>12 DEF RowsFor, ErrorsFor
<1>14. /\ LateFor(op) = LateFor(op)' \cup {r} /\ r \notin LateFor(op)'
       /\ LateErrors(op) = IF mine.ok THEN LateErrors(op)' ELSE LateErrors(op)' \cup {r}
       /\ r \notin LateErrors(op)'
  <2>1. LateFor(op) = LateFor(op)' \cup {r} /\ r \notin LateFor(op)'
    BY <1>2, <1>3, <1>12 DEF LateFor, Among, At
  <2>2. \A q \in LateFor(op)' : request'[q] = request[q]
    BY <1>3, <2>1 DEF LateFor, Among
  <2> QED BY <1>2, <2>1, <2>2 DEF LateErrors
<1>15. /\ IsFiniteSet(RowsFor(op)) /\ IsFiniteSet(ErrorsFor(op))
       /\ IsFiniteSet(LateFor(op)') /\ IsFiniteSet(LateErrors(op)')
  <2>1. LateFor(op)' \in SUBSET Requests /\ LateErrors(op)' \in SUBSET Requests
    BY DEF LateFor, LateErrors, Among
  <2>2. IsFiniteSet(LateFor(op)') /\ IsFiniteSet(LateErrors(op)')
    BY <2>1, FS_Subset, PathAssumption
  <2> QED BY <2>2, CountedSets DEF MetricsInv, RowsFor, ErrorsFor
<1>16. /\ Cardinality(RowsFor(op) \cup {mine}) = Cardinality(RowsFor(op)) + 1
       /\ Cardinality(ErrorsFor(op) \cup {mine}) = Cardinality(ErrorsFor(op)) + 1
       /\ Cardinality(LateFor(op)' \cup {r}) = Cardinality(LateFor(op)') + 1
       /\ Cardinality(LateErrors(op)' \cup {r}) = Cardinality(LateErrors(op)') + 1
       /\ Cardinality(RowsFor(op)) \in Nat /\ Cardinality(ErrorsFor(op)) \in Nat
       /\ Cardinality(LateFor(op)') \in Nat /\ Cardinality(LateErrors(op)') \in Nat
  <2>1. Cardinality(RowsFor(op) \cup {mine}) = Cardinality(RowsFor(op)) + 1
    BY <1>13, <1>15, FS_AddElement
  <2>2. Cardinality(ErrorsFor(op) \cup {mine}) = Cardinality(ErrorsFor(op)) + 1
    BY <1>13, <1>15, FS_AddElement
  <2>3. Cardinality(LateFor(op)' \cup {r}) = Cardinality(LateFor(op)') + 1
    BY <1>14, <1>15, FS_AddElement
  <2>4. Cardinality(LateErrors(op)' \cup {r}) = Cardinality(LateErrors(op)') + 1
    BY <1>14, <1>15, FS_AddElement
  <2> QED BY <1>15, <2>1, <2>2, <2>3, <2>4, FS_CardinalityType
<1>17. Books'
  <2>1. monthly' = Cardinality(Recorded)' + Cardinality(Among({"operation", "row"}))'
    <3>1. Cardinality(Recorded) \in Nat /\ Cardinality(Among({"operation", "row"}))' \in Nat
      <4>1. Among({"operation", "row"})' \in SUBSET Requests
        BY DEF Among
      <4>2. IsFiniteSet(Among({"operation", "row"})')
        BY <4>1, FS_Subset, PathAssumption
      <4> QED BY <4>2, FS_CardinalityType DEF MetricsInv
    <3> QED BY <1>3, <1>7, <1>10, <3>1 DEF Books, MetricsInv
  <2>2. ASSUME NEW o \in Ops
        PROVE  (/\ perOp[o].count = Cardinality(RowsFor(o)) + Cardinality(LateFor(o))
                /\ perOp[o].errors = Cardinality(ErrorsFor(o)) + Cardinality(LateErrors(o)))'
    <3>1. CASE o = op
      <4>1. /\ perOp[op].count = Cardinality(RowsFor(op)) + Cardinality(LateFor(op))
            /\ perOp[op].errors = Cardinality(ErrorsFor(op)) + Cardinality(LateErrors(op))
        BY DEF Books, MetricsInv
      <4>2. perOp'[op].count = Cardinality(RowsFor(op))' + Cardinality(LateFor(op))'
        BY <1>3, <1>13, <1>14, <1>16, <4>1
      <4>3. perOp'[op].errors = Cardinality(ErrorsFor(op))' + Cardinality(LateErrors(op))'
        <5>1. CASE mine.ok
          BY <1>3, <1>13, <1>14, <4>1, <5>1
        <5>2. CASE ~mine.ok
          BY <1>3, <1>13, <1>14, <1>16, <4>1, <5>2
        <5> QED BY <5>1, <5>2
      <4> QED BY <3>1, <4>2, <4>3
    <3>2. CASE o # op
      BY <1>3, <1>11, <1>12, <3>2 DEF Books, MetricsInv
    <3> QED BY <3>1, <3>2
  <2> QED BY <2>1, <2>2 DEF Books
<1> QED BY <1>7, <1>8, <1>9, <1>17 DEF MetricsInv

\* The flush task takes the buffer, and the sink has it or refuses it.
LEMMA FlushKeeps ==
    ASSUME MetricsInv, PathTypeOK, PathTypeOK', FlushTake \/ FlushWrite
    PROVE  MetricsInv'
<1>1. UNCHANGED <<request, monthly, perOp>>
  BY DEF FlushTake, FlushWrite, metrics
<1>2. /\ Recorded = ToSet(buffer) \cup ToSet(batch) \cup ToSet(sink) \cup gone
      /\ Recorded' = ToSet(buffer') \cup ToSet(batch') \cup ToSet(sink') \cup gone'
  BY RecordedRows, RecordedNext
<1>3. ToSet(<<>>) = {} /\ IsInjective(<<>>)
  BY DEF ToSet, IsInjective
<1>4. Recorded' = Recorded /\ OnePlace'
  <2>1. CASE FlushTake
    <3>1. batch = <<>> /\ batch' = buffer /\ buffer' = <<>> /\ UNCHANGED <<sink, gone>>
      BY <2>1 DEF FlushTake, history
    <3> QED BY <1>2, <1>3, <3>1 DEF MetricsInv, OnePlace
  <2>2. CASE FlushWrite
    <3>1. batch' = <<>> /\ UNCHANGED buffer
      BY <2>2 DEF FlushWrite, metrics
    <3>2. CASE sink' = sink \o batch /\ UNCHANGED gone
      <4>1. batch \in Seq(MetricRows) /\ sink \in Seq(MetricRows)
        BY DEF PathTypeOK
      <4>2. ToSet(sink') = ToSet(sink) \cup ToSet(batch) /\ IsInjective(sink')
        BY <3>2, <4>1, JoinRows DEF MetricsInv, OnePlace
      <4> QED BY <1>2, <1>3, <3>1, <3>2, <4>2 DEF MetricsInv, OnePlace
    <3>3. CASE UNCHANGED sink /\ gone' = gone \cup ToSet(batch)
      BY <1>2, <1>3, <3>1, <3>3 DEF MetricsInv, OnePlace
    <3> QED BY <2>2, <3>2, <3>3 DEF FlushWrite
  <2> QED BY <2>1, <2>2
<1>5. RowsComeLast'
  BY <1>1, <1>4 DEF MetricsInv, RowsComeLast, At
<1>6. IsFiniteSet(Recorded)' /\ Books'
  BY <1>1, <1>4, SameBooks
<1> QED BY <1>4, <1>5, <1>6 DEF MetricsInv

-----------------------------------------------------------------------------
(* Types and the budget *)

LEMMA FreshTyped == Fresh \in RequestRecords /\ Fresh.at = "idle"
BY PathAssumption DEF Fresh, RequestRecords, Places

\* An open window is no empty sequence.
LEMMA OpenWindow == ASSUME NEW w \in Windows PROVE w # <<>>
<1>1. DOMAIN w = {"start", "count"} /\ DOMAIN <<>> = {}
  BY DEF Windows
<1> QED BY <1>1

\* Every step of a request leaves it a request, and says which places it joins.
LEMMA RequestMoves ==
    ASSUME PathTypeOK, NEW r \in Requests, Enter(r) \/ Proceed(r) \/ Drop(r)
    PROVE  \E c \in RequestRecords :
              /\ request' = [request EXCEPT ![r] = c]
              /\ c.at = "operation" => RecordMonth(r)
              /\ c.at = "row" => RecordOperation(r)
              /\ At(r, {"month"}) => RecordMonth(r)
              /\ At(r, {"operation"}) => RecordOperation(r)
              /\ At(r, {"row"}) => RecordRow(r)
              /\ c.at \in Unrecorded => At(r, Unrecorded)
<1> DEFINE Fine(c) == /\ request' = [request EXCEPT ![r] = c]
                      /\ c.at = "operation" => RecordMonth(r)
                      /\ c.at = "row" => RecordOperation(r)
                      /\ At(r, {"month"}) => RecordMonth(r)
                      /\ At(r, {"operation"}) => RecordOperation(r)
                      /\ At(r, {"row"}) => RecordRow(r)
                      /\ c.at \in Unrecorded => At(r, Unrecorded)
<1> SUFFICES \E c \in RequestRecords : Fine(c)
  OBVIOUS
<1>1. PICK m \in RequestRecords : m = request[r]
  BY DEF PathTypeOK, RequestRecords
<1>2. ASSUME NEW place \in Places, Goes(r, place)
      PROVE  [m EXCEPT !.at = place] \in RequestRecords /\ [m EXCEPT !.at = place].at = place
             /\ request' = [request EXCEPT ![r] = [m EXCEPT !.at = place]]
  BY <1>1, <1>2 DEF Goes, RequestRecords, PathTypeOK
<1>3. CASE Enter(r)
  <2>1. CASE Goes(r, "respond")
    BY <1>2, <1>3, <2>1 DEF Enter, At, Unrecorded, Places
  <2>2. CASE \E o \in Ops : request' = [request EXCEPT ![r] = [Fresh EXCEPT !.at = "check", !.now = clock, !.op = o]]
    <3>1. PICK o \in Ops : request' = [request EXCEPT ![r] = [Fresh EXCEPT !.at = "check", !.now = clock, !.op = o]]
      BY <2>2
    <3>2. PICK c : c = [Fresh EXCEPT !.at = "check", !.now = clock, !.op = o]
      OBVIOUS
    <3>3. c \in RequestRecords /\ c.at = "check"
      BY <3>2, FreshTyped DEF RequestRecords, Places, PathTypeOK
    <3> QED BY <1>3, <3>1, <3>2, <3>3 DEF Enter, At, Unrecorded
  <2> QED BY <1>3, <2>1, <2>2 DEF Enter
<1>4. CASE Check(r)
  <2>1. PICK place \in {"handler", "retry"} :
           request' = [request EXCEPT ![r].at = place, ![r].now = 0]
    BY <1>4 DEF Check
  <2>2. PICK c : c = [m EXCEPT !.at = place, !.now = 0]
    OBVIOUS
  <2>4. 0 \in 0 .. Horizon /\ place \in Places
    BY PathAssumption DEF Places
  <2>5. c \in RequestRecords /\ c.at = place
    BY <2>2, <2>4 DEF RequestRecords
  <2>3. c \in RequestRecords /\ c.at = place /\ request' = [request EXCEPT ![r] = c]
    BY <1>1, <2>1, <2>2, <2>5 DEF PathTypeOK
  <2> QED BY <1>4, <2>3 DEF Check, At, Unrecorded
<1>5. CASE CheckFails(r)
  BY <1>2, <1>5 DEF CheckFails, At, Unrecorded, Places
<1>6. CASE RetryAfter(r)
  <2>2. PICK c : c = [m EXCEPT !.at = "month", !.ok = FALSE]
    OBVIOUS
  <2>3. c \in RequestRecords /\ c.at = "month" /\ request' = [request EXCEPT ![r] = c]
    BY <1>1, <1>6, <2>2 DEF RetryAfter, RequestRecords, Places, PathTypeOK
  <2> QED BY <1>6, <2>3 DEF RetryAfter, At, Unrecorded
<1>7. CASE Handle(r)
  <2>1. PICK ok \in BOOLEAN, endless \in BOOLEAN :
           request' = [request EXCEPT ![r].at = "month", ![r].ok = ok, ![r].endless = endless /\ ok]
    BY <1>7 DEF Handle
  <2>2. PICK c : c = [m EXCEPT !.at = "month", !.ok = ok, !.endless = endless /\ ok]
    OBVIOUS
  <2>4. (endless /\ ok) \in BOOLEAN
    OBVIOUS
  <2>3. c \in RequestRecords /\ c.at = "month" /\ request' = [request EXCEPT ![r] = c]
    BY <1>1, <2>1, <2>2, <2>4 DEF RequestRecords, Places, PathTypeOK
  <2> QED BY <1>7, <2>3 DEF Handle, At, Unrecorded
<1>8. CASE RecordMonth(r)
  <2>1. Goes(r, "operation") /\ At(r, {"month"})
    BY <1>8 DEF RecordMonth
  <2> QED BY <1>2, <1>8, <2>1 DEF At, Unrecorded, Places
<1>9. CASE RecordOperation(r)
  <2>1. Goes(r, "row") /\ At(r, {"operation"})
    BY <1>9 DEF RecordOperation
  <2> QED BY <1>2, <1>9, <2>1 DEF At, Unrecorded, Places
<1>10. CASE RecordRow(r)
  <2>1. Goes(r, "respond") /\ At(r, {"row"})
    BY <1>10 DEF RecordRow
  <2> QED BY <1>2, <1>10, <2>1 DEF At, Unrecorded, Places
<1>11. CASE Respond(r) \/ Drop(r)
  <2>1. PICK place \in {"answered", "dropped"} :
           /\ request' = [request EXCEPT ![r] = [Fresh EXCEPT !.at = place]]
           /\ At(r, {"handler", "respond", "check", "retry"})
    BY <1>11 DEF Respond, Drop, At
  <2>2. PICK c : c = [Fresh EXCEPT !.at = place]
    OBVIOUS
  <2>3. c \in RequestRecords /\ c.at = place
    BY <2>2, FreshTyped DEF RequestRecords, Places
  <2> QED BY <2>1, <2>2, <2>3 DEF At, Unrecorded
<1> QED BY <1>3, <1>4, <1>5, <1>6, <1>7, <1>8, <1>9, <1>10, <1>11 DEF Proceed

\* The window at the check: the one that is open, or a new one at the reading of
\* the clock, a whole span later or the first.
LEMMA WindowOf ==
    ASSUME PathTypeOK, NEW now \in 0 .. Horizon
    PROVE  /\ WindowAt(now) \in Windows
           /\ \/ window # <<>> /\ WindowAt(now) = window
              \/ /\ WindowAt(now) = [start |-> now, count |-> 0]
                 /\ window # <<>> => now >= window.start + Window
<1>1. CASE window = <<>>
  BY <1>1 DEF WindowAt, Windows
<1>2. CASE window # <<>>
  <2>1. window.start \in 0 .. Horizon /\ window \in Windows
    BY <1>2 DEF PathTypeOK, Windows
  <2> QED BY <1>2, <2>1, PathAssumption DEF WindowAt, Windows
<1> QED BY <1>1, <1>2

LEMMA CheckBudget ==
    ASSUME PathTypeOK, BudgetInv, NEW r \in Requests, Check(r)
    PROVE  /\ BudgetInv' /\ window' \in Windows /\ admitted' \in Nat /\ first' \in 0 .. Horizon
<1>0. MaxRequests \in Nat /\ Window \in Nat \ {0} /\ Horizon \in Nat /\ admitted \in Nat /\ first \in 0 .. Horizon
  BY PathAssumption DEF PathTypeOK
<1>1. PICK now \in 0 .. Horizon : now = IF shared THEN clock ELSE request[r].now
  BY DEF PathTypeOK
<1>2. PICK w \in Windows : w = WindowAt(now)
  BY WindowOf
<1>3. w.start \in Nat /\ w.start \in 0 .. Horizon /\ w.count \in Nat
  BY <1>0, <1>2 DEF Windows
<1> DEFINE pass == w.count < MaxRequests
<1>5. /\ window' = [w EXCEPT !.count = IF pass \/ shared THEN @ + 1 ELSE @]
      /\ admitted' = IF pass THEN admitted + 1 ELSE admitted
      /\ first' = IF window = <<>> THEN w.start ELSE first
  BY <1>1, <1>2 DEF Check
<1>6. /\ window' \in Windows /\ window'.start = w.start
      /\ window'.count >= w.count /\ (pass => window'.count = w.count + 1)
  BY <1>2, <1>3, <1>5 DEF Windows
<1>7. window' # <<>>
  BY <1>6, OpenWindow
<1>8. first' \in 0 .. Horizon /\ admitted' \in Nat /\ first' \in Nat
  BY <1>0, <1>3, <1>5
\* Before the step, seen from the window of the check.
<1>9. /\ first' <= w.start
      /\ \E spans \in Nat :
            /\ spans = (w.start - first') \div Window
            /\ admitted <= MaxRequests * spans + w.count
            /\ admitted <= MaxRequests * spans + MaxRequests
  <2>1. CASE window = <<>>
    <3>1. w = [start |-> now, count |-> 0] /\ admitted = 0 /\ first' = w.start
      BY <1>2, <1>5, <2>1, WindowOf DEF BudgetInv
    <3>2. (w.start - first') \div Window = 0
      BY <1>0, <1>3, <3>1, NoSpan
    <3> QED BY <1>0, <1>3, <3>1, <3>2, SMTT(20)
  <2>2. CASE window # <<>>
    <3>1. /\ first' = first /\ first <= window.start
          /\ window.start \in Nat /\ window.count \in Nat /\ first \in Nat
      BY <1>0, <1>5, <2>2 DEF BudgetInv, PathTypeOK
    <3>2. PICK a \in Nat : a = window.start - first
      BY <3>1
    <3>3. PICK k \in Nat : k = a \div Window
      BY <1>0, <3>2, NextSpan
    <3>4. /\ admitted <= MaxRequests * k + window.count
          /\ admitted <= MaxRequests * k + MaxRequests
      BY <2>2, <3>2, <3>3 DEF BudgetInv
    <3>5. CASE w = window
      BY <3>1, <3>2, <3>3, <3>4, <3>5
    <3>6. CASE w = [start |-> now, count |-> 0] /\ now >= window.start + Window
      <4>1. PICK b \in Nat : b = w.start - first /\ b >= a + Window
        BY <1>0, <3>1, <3>2, <3>6
      <4>2. PICK j \in Nat : j = b \div Window /\ j >= k + 1
        BY <1>0, <3>3, <4>1, NextSpan
      <4>3. MaxRequests * k \in Nat /\ MaxRequests * j \in Nat
            /\ MaxRequests * j >= MaxRequests * k + MaxRequests
        BY <1>0, <4>2, OneMoreBudget
      <4>4. PICK kk \in Nat, jj \in Nat : kk = MaxRequests * k /\ jj = MaxRequests * j
        BY <4>3
      <4>5. admitted <= jj /\ w.count = 0 /\ first' <= w.start
        BY <1>0, <3>1, <3>4, <3>6, <4>3, <4>4, <4>1
      <4>6. admitted <= jj + w.count /\ admitted <= jj + MaxRequests
        BY <1>0, <4>5
      <4> QED BY <3>1, <4>1, <4>2, <4>4, <4>5, <4>6
    <3> QED BY <1>2, <2>2, <3>5, <3>6, WindowOf
  <2> QED BY <2>1, <2>2
<1>10. PICK spans \in Nat : /\ spans = (w.start - first') \div Window
                           /\ admitted <= MaxRequests * spans + w.count
                           /\ admitted <= MaxRequests * spans + MaxRequests
  BY <1>9
<1>11. PICK before \in Nat : before = MaxRequests * spans
  BY <1>0, BudgetOfSpans
<1>14. admitted <= before + w.count /\ admitted <= before + MaxRequests
  BY <1>10, <1>11
<1>12. admitted' <= before + window'.count /\ admitted' <= before + MaxRequests
  <2>1. window'.count \in Nat
    BY <1>6 DEF Windows
  <2>2. CASE pass
    BY <1>0, <1>3, <1>5, <1>6, <1>14, <2>1, <2>2
  <2>3. CASE ~pass
    BY <1>0, <1>3, <1>5, <1>6, <1>14, <2>1, <2>3
  <2> QED BY <2>2, <2>3
<1>13. BudgetInv'
  BY <1>6, <1>7, <1>9, <1>10, <1>11, <1>12 DEF BudgetInv
<1> QED BY <1>6, <1>8, <1>13

-----------------------------------------------------------------------------
(* The whole *)

\* Whose step it is, and what it leaves alone.
LEMMA RowsTyped ==
    ASSUME PathTypeOK, NEW r \in Requests, RecordRow(r)
    PROVE  buffer' \in Seq(MetricRows) /\ gone' \subseteq MetricRows
<1>1. RowOf(r) \in MetricRows /\ buffer \in Seq(MetricRows) /\ gone \subseteq MetricRows
  BY DEF RowOf, MetricRows, PathTypeOK
<1>2. CASE Len(buffer) >= MaxBuffered
  <2>1. buffer # <<>>
    BY <1>1, <1>2, PathAssumption
  <2>2. Tail(buffer) \in Seq(MetricRows) /\ Head(buffer) \in MetricRows
    BY <1>1, <2>1
  <2>3. buffer' = Append(Tail(buffer), RowOf(r)) /\ gone' = gone \cup {Head(buffer)}
    BY <1>2 DEF RecordRow
  <2> QED BY <1>1, <2>2, <2>3
<1>3. CASE ~(Len(buffer) >= MaxBuffered)
  BY <1>1, <1>3 DEF RecordRow
<1> QED BY <1>2, <1>3

\* A request's step: only the check touches the window, only the record the metrics.
LEMMA RequestStep ==
    ASSUME PathIInv, NEW r \in Requests, Enter(r) \/ Proceed(r) \/ Drop(r)
    PROVE  PathIInv'
<1>0. PathTypeOK /\ BudgetInv /\ MetricsInv
  BY DEF PathIInv
<1>1. PICK c \in RequestRecords :
         /\ request' = [request EXCEPT ![r] = c]
         /\ c.at = "operation" => RecordMonth(r)
         /\ c.at = "row" => RecordOperation(r)
         /\ At(r, {"month"}) => RecordMonth(r)
         /\ At(r, {"operation"}) => RecordOperation(r)
         /\ At(r, {"row"}) => RecordRow(r)
         /\ c.at \in Unrecorded => At(r, Unrecorded)
  BY <1>0, RequestMoves
<1>2. request' \in [Requests -> RequestRecords] /\ UNCHANGED <<shared, clock, batch, sink>>
  BY <1>0, <1>1 DEF PathTypeOK, RequestRecords, Enter, Proceed, Drop, Check, CheckFails, RetryAfter, Handle,
                    RecordMonth, RecordOperation, RecordRow, Respond, metrics, flushing, history
<1>3. BudgetInv' /\ (window' = <<>> \/ window' \in Windows) /\ admitted' \in Nat /\ first' \in 0 .. Horizon
  <2>1. CASE Check(r)
    BY <1>0, <2>1, CheckBudget
  <2>2. CASE UNCHANGED <<window, admitted, first>>
    BY <1>0, <2>2 DEF BudgetInv, PathTypeOK, Windows
  <2> QED BY <2>1, <2>2 DEF Enter, Proceed, Drop, CheckFails, RetryAfter, Handle,
                            RecordMonth, RecordOperation, RecordRow, Respond, history
<1>4. monthly' \in Nat /\ perOp' \in [Ops -> [count : Nat, errors : Nat]]
  <2>1. CASE RecordMonth(r)
    BY <1>0, <2>1 DEF RecordMonth, PathTypeOK
  <2>2. CASE RecordOperation(r)
    <3>1. PICK o \in Ops : o = request[r].op
      BY <1>0 DEF PathTypeOK
    <3>2. PICK e \in {0, 1} : e = IF request[r].ok THEN 0 ELSE 1
      OBVIOUS
    <3>3. PICK s \in [count : Nat, errors : Nat] : s = perOp[o]
      BY <1>0 DEF PathTypeOK
    <3>4. PICK t : t = [s EXCEPT !.count = @ + 1, !.errors = @ + e]
      OBVIOUS
    <3>7. s.count + 1 \in Nat /\ s.errors + e \in Nat
      OBVIOUS
    <3>5. t \in [count : Nat, errors : Nat]
      BY <3>4, <3>7
    <3>6. perOp' = [perOp EXCEPT ![o] = t] /\ UNCHANGED monthly
      BY <1>0, <2>2, <3>1, <3>2, <3>3, <3>4 DEF RecordOperation, PathTypeOK
    <3> QED BY <1>0, <3>5, <3>6 DEF PathTypeOK
  <2>3. CASE UNCHANGED <<monthly, perOp>>
    BY <1>0, <2>3 DEF PathTypeOK
  <2> QED BY <2>1, <2>2, <2>3 DEF Enter, Proceed, Drop, Check, CheckFails, RetryAfter, Handle,
                                  RecordRow, Respond, metrics
<1>5. buffer' \in Seq(MetricRows) /\ gone' \subseteq MetricRows
  <2>1. CASE RecordRow(r)
    BY <1>0, <2>1, RowsTyped
  <2>2. CASE UNCHANGED <<buffer, gone>>
    BY <1>0, <2>2 DEF PathTypeOK
  <2> QED BY <2>1, <2>2 DEF Enter, Proceed, Drop, Check, CheckFails, RetryAfter, Handle,
                            RecordMonth, RecordOperation, Respond, metrics, history
<1>6. PathTypeOK'
  BY <1>0, <1>2, <1>3, <1>4, <1>5 DEF PathTypeOK, RequestRecords, Windows
<1>7. MetricsInv'
  <2>1. CASE RecordMonth(r)
    BY <1>0, <2>1, MonthKeeps
  <2>2. CASE RecordOperation(r)
    BY <1>0, <2>2, OperationKeeps
  <2>3. CASE RecordRow(r)
    BY <1>0, <1>6, <2>3, RowKeeps
  <2>4. CASE ~RecordMonth(r) /\ ~RecordOperation(r) /\ ~RecordRow(r)
    <3>1. UNCHANGED <<metrics, flushing, gone>>
      BY <2>4 DEF Enter, Proceed, Drop, Check, CheckFails, RetryAfter, Handle, Respond, metrics, flushing, history
    <3>2. request[r].at \notin {"operation", "row"} /\ c.at \notin {"operation", "row"}
      BY <1>1, <2>4 DEF At
    <3> QED BY <1>0, <1>1, <3>1, <3>2, MovesElsewhere
  <2> QED BY <2>1, <2>2, <2>3, <2>4
<1> QED BY <1>3, <1>6, <1>7 DEF PathIInv

\* The flush task, and the clock.
LEMMA FlushStep ==
    ASSUME PathIInv, FlushTake \/ FlushWrite
    PROVE  PathIInv'
<1>0. PathTypeOK /\ BudgetInv /\ MetricsInv
  BY DEF PathIInv
<1>1. UNCHANGED <<shared, clock, request, window, monthly, perOp, admitted, first>>
  BY DEF FlushTake, FlushWrite, metrics, history
<1>2. buffer \in Seq(MetricRows) /\ batch \in Seq(MetricRows) /\ sink \in Seq(MetricRows)
      /\ gone \subseteq MetricRows /\ ToSet(batch) \subseteq MetricRows
  BY <1>0 DEF PathTypeOK, ToSet
<1>3. buffer' \in Seq(MetricRows) /\ batch' \in Seq(MetricRows) /\ sink' \in Seq(MetricRows)
      /\ gone' \subseteq MetricRows
  <2>1. CASE FlushTake
    BY <1>2, <2>1 DEF FlushTake, history
  <2>2. CASE FlushWrite
    <3>1. sink \o batch \in Seq(MetricRows) /\ batch' = <<>> /\ UNCHANGED buffer
      BY <1>2, <2>2 DEF FlushWrite, metrics
    <3>2. sink' \in {sink, sink \o batch} /\ gone' \in {gone, gone \cup ToSet(batch)}
      BY <2>2 DEF FlushWrite
    <3>3. sink' \in Seq(MetricRows) /\ gone' \subseteq MetricRows
      BY <1>2, <3>1, <3>2
    <3>4. batch' \in Seq(MetricRows) /\ buffer' \in Seq(MetricRows)
      BY <1>2, <3>1
    <3> QED BY <3>3, <3>4
  <2> QED BY <2>1, <2>2
<1>4. PathTypeOK'
  BY <1>0, <1>1, <1>3 DEF PathTypeOK
<1>5. BudgetInv'
  BY <1>0, <1>1 DEF BudgetInv
<1> QED BY <1>0, <1>4, <1>5, FlushKeeps DEF PathIInv

LEMMA ClockStep ==
    ASSUME PathIInv, Pass \/ UNCHANGED pathVars
    PROVE  PathIInv'
<1>0. PathTypeOK /\ BudgetInv /\ MetricsInv
  BY DEF PathIInv
<1>1. UNCHANGED <<shared, request, window, monthly, perOp, buffer, batch, sink, gone, admitted, first>>
      /\ clock' \in 0 .. Horizon
  BY <1>0, PathAssumption DEF Pass, pathVars, metrics, flushing, history, PathTypeOK
<1>2. Recorded' = Recorded
  BY <1>1 DEF Recorded, AllRecorded
<1>3. IsFiniteSet(Recorded)' /\ Books'
  BY <1>0, <1>1, <1>2, SameBooks
<1>4. MetricsInv'
  BY <1>0, <1>1, <1>2, <1>3 DEF MetricsInv, RowsComeLast, OnePlace, At
<1>5. PathTypeOK' /\ BudgetInv'
  BY <1>0, <1>1 DEF PathTypeOK, BudgetInv
<1> QED BY <1>4, <1>5 DEF PathIInv

LEMMA PathStarts == PathInit => PathIInv
<1> SUFFICES ASSUME PathInit PROVE PathIInv
  OBVIOUS
<1>1. <<>> \in Seq(MetricRows) /\ ToSet(<<>>) = {} /\ IsInjective(<<>>)
  BY DEF ToSet, IsInjective
<1>2. PathTypeOK
  BY <1>1, FreshTyped, PathAssumption DEF PathInit, PathTypeOK, RequestRecords
<1>3. Recorded = {}
  BY <1>1, <1>2, RecordedRows DEF PathInit
<1>4. \A r \in Requests : request[r].at = "idle"
  BY FreshTyped DEF PathInit
<1>5. /\ Among({"operation", "row"}) = {}
      /\ \A o \in Ops : RowsFor(o) = {} /\ ErrorsFor(o) = {} /\ LateFor(o) = {} /\ LateErrors(o) = {}
  BY <1>3, <1>4 DEF Among, At, RowsFor, ErrorsFor, LateFor, LateErrors
<1>6. Books /\ IsFiniteSet(Recorded)
  <2>1. IsFiniteSet({}) /\ Cardinality({}) = 0
    BY FS_EmptySet
  <2>2. \A o \in Ops : perOp[o].count = 0 /\ perOp[o].errors = 0
    BY DEF PathInit
  <2>3. monthly = 0
    BY DEF PathInit
  <2>4. Cardinality(Recorded) = 0 /\ Cardinality(Among({"operation", "row"})) = 0 /\ IsFiniteSet(Recorded)
    BY <1>3, <1>5, <2>1
  <2>5. ASSUME NEW o \in Ops
        PROVE  /\ Cardinality(RowsFor(o)) = 0 /\ Cardinality(ErrorsFor(o)) = 0
               /\ Cardinality(LateFor(o)) = 0 /\ Cardinality(LateErrors(o)) = 0
    BY <1>5, <2>1
  <2> QED BY <2>2, <2>3, <2>4, <2>5 DEF Books
<1>7. RowsComeLast /\ OnePlace
  BY <1>1, <1>3 DEF PathInit, RowsComeLast, OnePlace
<1>8. BudgetInv
  BY DEF PathInit, BudgetInv
<1> QED BY <1>2, <1>6, <1>7, <1>8 DEF PathIInv, MetricsInv

LEMMA PathStep == PathIInv /\ [PathNext]_pathVars => PathIInv'
BY RequestStep, FlushStep, ClockStep DEF PathNext

LEMMA PathInvariant == PathSpec => []PathIInv
BY PathStarts, PathStep, PTL DEF PathSpec

\* The wrappers of open-runo-router (middleware_hyper.rs), the limiter and the
\* metrics (open-runo-security/src/lib.rs, request_metrics.rs) keep to their types.
THEOREM PathTyped == PathSpec => []PathTypeOK
<1>1. PathIInv => PathTypeOK
  BY DEF PathIInv
<1> QED BY <1>1, PathInvariant, PTL

LEMMA BudgetIsKept ==
    ASSUME PathIInv
    PROVE  WindowBudget
<1>1. CASE window = <<>>
  BY <1>1 DEF PathIInv, BudgetInv, WindowBudget
<1>2. CASE window # <<>>
  <2>1. /\ first <= window.start /\ window.start \in Nat /\ first \in Nat
        /\ admitted <= MaxRequests * ((window.start - first) \div Window) + MaxRequests
    BY <1>2, PathAssumption DEF PathIInv, BudgetInv, PathTypeOK
  <2>2. PICK a \in Nat : a = window.start - first
    BY <2>1
  <2>3. PICK k \in Nat : k = a \div Window
    BY <2>2, NextSpan, PathAssumption
  <2>4. MaxRequests * (1 + k) = MaxRequests * k + MaxRequests
    BY BudgetOfSpans, PathAssumption
  <2> QED BY <1>2, <2>1, <2>2, <2>3, <2>4 DEF WindowBudget
<1> QED BY <1>1, <1>2

LEMMA BooksAreKept ==
    ASSUME PathIInv
    PROVE  MetricsAddUp
<1>1. ToSet(AllRecorded) \cap gone = {} /\ IsInjective(AllRecorded)
  BY RecordedRows DEF PathIInv, MetricsInv
<1> QED BY <1>1 DEF PathIInv, MetricsInv, Books, MetricsAddUp, Among, RowsFor, ErrorsFor, LateFor, LateErrors

\* However the readings of the clock and the turns at the limiter's lock cross
\* (open-runo-security/src/lib.rs:80-136), a client gets one budget per started
\* window; and however requests interleave between the three locks of
\* RequestMetrics::record and with the flush task (request_metrics.rs:152-225), the
\* counts of the month and of every operation, and its errors, are those of the
\* rows, each of which is in exactly one place.
THEOREM BudgetAndBooks == PathSpec => []PathSound
<1>1. PathIInv => PathSound
  BY BudgetIsKept, BooksAreKept DEF PathSound
<1> QED BY <1>1, PathInvariant, PTL
=============================================================================

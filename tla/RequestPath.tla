---------------------------- MODULE RequestPath ----------------------------
(***************************************************************************)
(* What the router wraps around every handler (`wrap` in build_hyper_app,  *)
(* open-runo-router/src/lib.rs): compression, CORS preflight, metrics and  *)
(* the rate limit of middleware_hyper.rs, composed with RateLimiter and    *)
(* RedisRateLimiter (open-runo-security/src/lib.rs) and RequestMetrics     *)
(* with its flush task (open-runo-observability/src/request_metrics.rs).   *)
(* All requests come from one client key: keys share nothing.  Handlers    *)
(* run on several threads, so two tasks interleave between any two lock    *)
(* acquisitions; a task is dropped only where it awaits.                   *)
(***************************************************************************)
EXTENDS Integers, SequencesExt

CONSTANTS Requests, Ops,          \* requests; the operations (method, path) they call
          MaxRequests, Window,    \* the rate limit, in time steps
          MaxBuffered,            \* rows the metrics buffer holds
          Horizon                 \* bound: the clock stops here

ASSUME PathAssumption ==
    /\ MaxRequests \in Nat /\ Window \in Nat \ {0}
    /\ MaxBuffered \in Nat \ {0} /\ Horizon \in Nat
    /\ IsFiniteSet(Requests) /\ Ops # {}

VARIABLES
    shared,     \* is the limiter the Redis one? (fixed at start)
    clock,
    request,    \* per request: its place, its `now`, its operation, its outcome
    window,     \* the client's window: [start, count], <<>> before the first check
    monthly, perOp, buffer,     \* RequestMetrics, one lock each
    batch, sink, \* rows flush() has taken; rows the sink has
    gone,       \* history: rows dropped as the oldest, or refused by the sink
    admitted, first             \* history: requests let through; the first window's start
pathVars == <<shared, clock, request, window, monthly, perOp, buffer, batch, sink,
              gone, admitted, first>>
metrics == <<monthly, perOp, buffer>>
flushing == <<batch, sink>>
history == <<gone, admitted, first>>

Larger(a, b) == IF a > b THEN a ELSE b

At(r, places) == request[r].at \in places
Goes(r, place) == request' = [request EXCEPT ![r].at = place]
-----------------------------------------------------------------------------
(* with_compression and with_cors before the handler, with_shared_rate_limit *)

Fresh == [at |-> "idle", now |-> 0, op |-> CHOOSE o \in Ops : TRUE, ok |-> TRUE,
          endless |-> FALSE]

\* A preflight is answered by with_cors; any other request reads the clock.
Enter(r) ==
    /\ At(r, {"idle"})
    /\ \/ Goes(r, "respond")
       \/ \E o \in Ops : request' = [request EXCEPT ![r] =
              [Fresh EXCEPT !.at = "check", !.now = clock, !.op = o]]
    /\ UNCHANGED <<shared, clock, window, metrics, flushing, history>>

WindowAtWidened(now) ==                                  \* mutant
    IF window = <<>> \/ now # window.start
    THEN [start |-> now, count |-> 0] ELSE window
WindowAt(now) ==
    IF window = <<>> \/ now - window.start >= Window
    THEN [start |-> now, count |-> 0] ELSE window

\* RateLimiter::check under its lock, with the caller's now; the Lua script of
\* RedisRateLimiter under Redis's clock, which counts rejected requests too.
Check(r) ==
    /\ At(r, {"check"})
    /\ LET w == WindowAt(IF shared THEN clock ELSE request[r].now)
           pass == w.count < MaxRequests
       IN /\ window' = [w EXCEPT !.count = IF pass \/ shared THEN @ + 1 ELSE @]
          /\ request' = [request EXCEPT ![r].at = IF pass THEN "handler" ELSE "retry",
                                        ![r].now = 0]
          /\ admitted' = IF pass THEN admitted + 1 ELSE admitted
          /\ first' = IF window = <<>> THEN w.start ELSE first
    /\ UNCHANGED <<shared, clock, metrics, flushing, gone>>

\* A refused script call is an Err as well, and answered like an empty budget.
CheckFails(r) ==
    /\ At(r, {"check"}) /\ shared
    /\ Goes(r, "retry")
    /\ UNCHANGED <<shared, clock, window, metrics, flushing, history>>

\* seconds_until_reset, then 429.
RetryAfter(r) ==
    /\ At(r, {"retry"})
    /\ request' = [request EXCEPT ![r].at = "month", ![r].ok = FALSE]
    /\ UNCHANGED <<shared, clock, window, metrics, flushing, history>>

\* The handler answers; `endless` if the body goes on for ever (stream_events)
\* and the client accepts gzip, so that with_compression is to collect it.
Handle(r) ==
    /\ At(r, {"handler"})
    /\ \E ok, endless \in BOOLEAN :
          request' = [request EXCEPT ![r].at = "month", ![r].ok = ok,
                                     ![r].endless = endless /\ ok]
    /\ UNCHANGED <<shared, clock, window, metrics, flushing, history>>
-----------------------------------------------------------------------------
(* RequestMetrics::record: three locks, no await between them. *)

RecordMonth(r) ==
    /\ At(r, {"month"})
    /\ monthly' = monthly + 1
    /\ Goes(r, "operation")
    /\ UNCHANGED <<shared, clock, window, perOp, buffer, flushing, history>>

RecordOperation(r) ==
    /\ At(r, {"operation"})
    /\ perOp' = [perOp EXCEPT ![request[r].op].count = @ + 1,
                              ![request[r].op].errors = @ + IF request[r].ok THEN 0 ELSE 1]
    /\ Goes(r, "row")
    /\ UNCHANGED <<shared, clock, window, monthly, buffer, flushing, history>>

\* The row tells the operation and how it ended; `of` whose it is.
RowOf(r) == [of |-> r, op |-> request[r].op, ok |-> request[r].ok]

RecordRow(r) ==
    /\ At(r, {"row"})
    /\ LET full == Len(buffer) >= MaxBuffered
       IN /\ buffer' = Append(IF full THEN Tail(buffer) ELSE buffer, RowOf(r))
          /\ gone' = IF full THEN gone \cup {Head(buffer)} ELSE gone
    /\ Goes(r, "respond")
    /\ UNCHANGED <<shared, clock, window, monthly, perOp, flushing, admitted, first>>

\* with_compression collects the whole body of a client that accepts gzip.
Respond(r) ==
    /\ At(r, {"respond"})
    /\ ~request[r].endless
    /\ request' = [request EXCEPT ![r] = [Fresh EXCEPT !.at = "answered"]]
    /\ UNCHANGED <<shared, clock, window, metrics, flushing, history>>

\* The client hangs up where the task awaits.
Drop(r) ==
    /\ At(r, {"handler", "respond"}) \/ (shared /\ At(r, {"check", "retry"}))
    /\ request' = [request EXCEPT ![r] = [Fresh EXCEPT !.at = "dropped"]]
    /\ UNCHANGED <<shared, clock, window, metrics, flushing, history>>
-----------------------------------------------------------------------------
(* spawn_periodic_flush, time, and the whole *)

FlushCopies ==                                           \* mutant
    /\ batch = <<>> /\ buffer # <<>>
    /\ batch' = buffer /\ UNCHANGED <<buffer>>
    /\ UNCHANGED <<shared, clock, request, window, monthly, perOp, sink, history>>
FlushTake ==
    /\ batch = <<>> /\ buffer # <<>>
    /\ batch' = buffer /\ buffer' = <<>>
    /\ UNCHANGED <<shared, clock, request, window, monthly, perOp, sink, history>>

\* write_batch succeeds, or fails and the rows are not put back.
FlushWrite ==
    /\ batch # <<>> /\ batch' = <<>>
    /\ \/ sink' = sink \o batch /\ UNCHANGED gone
       \/ UNCHANGED sink /\ gone' = gone \cup ToSet(batch)
    /\ UNCHANGED <<shared, clock, request, window, metrics, admitted, first>>

Pass ==
    /\ clock < Horizon /\ clock' = clock + 1
    /\ UNCHANGED <<shared, request, window, metrics, flushing, history>>

PathInit ==
    /\ shared \in BOOLEAN
    /\ clock = 0
    /\ request = [r \in Requests |-> Fresh]
    /\ window = <<>>
    /\ monthly = 0
    /\ perOp = [o \in Ops |-> [count |-> 0, errors |-> 0]]
    /\ buffer = <<>> /\ batch = <<>> /\ sink = <<>> /\ gone = {}
    /\ admitted = 0 /\ first = 0

Proceed(r) ==
    \/ Check(r) \/ CheckFails(r) \/ RetryAfter(r) \/ Handle(r)
    \/ RecordMonth(r) \/ RecordOperation(r) \/ RecordRow(r) \/ Respond(r)

PathNext ==
    \/ \E r \in Requests : Enter(r) \/ Proceed(r) \/ Drop(r)
    \/ FlushTake \/ FlushWrite \/ Pass

\* The runtime polls every task that can go on; handlers return.
PathFair == \A r \in Requests : WF_pathVars(Proceed(r))

PathSpec == PathInit /\ [][PathNext]_pathVars
PathFairSpec == PathSpec /\ PathFair
-----------------------------------------------------------------------------
Places == {"idle", "check", "retry", "handler", "month", "operation", "row",
           "respond", "answered", "dropped"}

MetricRows == [of : Requests, op : Ops, ok : BOOLEAN]

PathTypeOK ==
    /\ shared \in BOOLEAN /\ clock \in 0 .. Horizon
    /\ request \in [Requests -> [at : Places, now : 0 .. Horizon, op : Ops,
                                 ok : BOOLEAN, endless : BOOLEAN]]
    /\ window = <<>> \/ window \in [start : 0 .. Horizon, count : Nat]
    /\ monthly \in Nat /\ perOp \in [Ops -> [count : Nat, errors : Nat]]
    /\ {buffer, batch, sink} \subseteq Seq(MetricRows)
    /\ gone \subseteq MetricRows /\ admitted \in Nat /\ first \in 0 .. Horizon

\* However the tasks' readings of the clock and their turns at the lock cross, the
\* client gets at most MaxRequests per window, and windows do not overlap: the
\* whole stays within one budget per started span of Window since the first.
WindowBudget ==
    admitted <= IF window = <<>> THEN 0
                ELSE MaxRequests * (1 + (window.start - first) \div Window)

AllRecorded == buffer \o batch \o sink

Recorded == ToSet(AllRecorded) \cup gone

\* The three structures of RequestMetrics agree, operation by operation, up to the
\* tasks between two locks: a month counts every request, an operation its
\* requests and its errors, and every row of a recorded request is in one place:
\* the buffer, the batch being written, the sink, or given up.
MetricsAddUp ==
    LET among(places) == {r \in Requests : At(r, places)}
        rows(o) == {row \in Recorded : row.op = o}
        late(o) == {r \in among({"row"}) : request[r].op = o}
    IN /\ monthly = Cardinality(Recorded) + Cardinality(among({"operation", "row"}))
       /\ \A o \in Ops :
             /\ perOp[o].count = Cardinality(rows(o)) + Cardinality(late(o))
             /\ perOp[o].errors = Cardinality({row \in rows(o) : ~row.ok})
                                  + Cardinality({r \in late(o) : ~request[r].ok})
       /\ ToSet(AllRecorded) \cap gone = {}
       /\ IsInjective(AllRecorded)

\* The wrappers around a handler keep their books: the budget and the metrics.
PathSound == WindowBudget /\ MetricsAddUp

\* A request that was let in is answered, or its client has left.
AnswersArrive ==
    \A r \in Requests : At(r, {"handler"}) ~> At(r, {"answered", "dropped"})
=============================================================================

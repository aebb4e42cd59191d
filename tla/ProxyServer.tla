----------------------------- MODULE ProxyServer -----------------------------
(***************************************************************************)
(* ThreadedProxyServer of open-runo-appserver (open-runo-appserver/src/    *)
(* server.rs) and proxy_once (proxy.rs): an accept thread, a bounded       *)
(* queue, worker threads, and stop().  Requests are routed by a            *)
(* SharedDispatcher (lib.rs) that tenants join and leave at run time.      *)
(***************************************************************************)
EXTENDS Integers, SequencesExt

CONSTANTS Sockets, Workers, QueueDepth, Hosts, NoSocket

ASSUME ProxyAssumption ==
    /\ IsFiniteSet(Workers) /\ Workers # {}
    /\ QueueDepth \in Nat \ {0}
    /\ Sockets \cap {"loop", "done", NoSocket} = {}

VARIABLES
    socket,     \* what became of each client connection
    backlog,    \* connections the kernel holds for accept()
    queue,      \* the sync_channel
    accept,     \* the accept thread: loop, or the connection to queue, or done
    worker,     \* per worker: its place and its connection
    shutdown,   \* the flag stop() sets
    routes,     \* hosts with an upstream
    stats,      \* ServerStats
    promised    \* history: queued at stop() with a worker sure to look again
proxyVars == <<socket, backlog, queue, accept, worker, shutdown, routes, stats, promised>>

Idle == [at |-> "recv", conn |-> NoSocket]
Gone == [at |-> "done", conn |-> NoSocket]

\* The channel's receiving end lives as long as a worker.
Listening == \E w \in Workers : worker[w] # Gone

Count(field) == stats' = [stats EXCEPT ![field] = @ + 1]
-----------------------------------------------------------------------------
(* The accept thread. *)

AcceptSocket ==
    /\ accept = "loop" /\ ~shutdown /\ backlog # <<>>
    /\ accept' = Head(backlog) /\ backlog' = Tail(backlog)
    /\ Count("accepted")
    /\ UNCHANGED <<socket, queue, worker, shutdown, routes, promised>>

AcceptFails ==
    /\ accept = "loop" /\ ~shutdown /\ stats.errors < Cardinality(Sockets)
    /\ Count("errors")
    /\ UNCHANGED <<socket, backlog, queue, accept, worker, shutdown, routes, promised>>

AcceptEnds ==
    /\ accept = "loop" /\ shutdown
    /\ accept' = "done"
    /\ UNCHANGED <<socket, backlog, queue, worker, shutdown, routes, stats, promised>>

Holding == accept \in Sockets

TrySend ==
    /\ Holding /\ Listening /\ Len(queue) < QueueDepth
    /\ queue' = Append(queue, accept)
    /\ accept' = "loop"
    /\ socket' = [socket EXCEPT ![accept] = "queued"]
    /\ UNCHANGED <<backlog, worker, shutdown, routes, stats, promised>>

TrySendFull ==
    /\ Holding /\ Listening /\ Len(queue) >= QueueDepth
    /\ Count("rejected") /\ socket' = [socket EXCEPT ![accept] = "rejected"]
    /\ accept' = "loop"
    /\ UNCHANGED <<backlog, queue, worker, shutdown, routes, promised>>

TrySendDisconnected ==
    /\ Holding /\ ~Listening
    /\ socket' = [socket EXCEPT ![accept] = "lost"]
    /\ accept' = "done"
    /\ UNCHANGED <<backlog, queue, worker, shutdown, routes, stats, promised>>
-----------------------------------------------------------------------------
(* A worker: recv_timeout, then proxy_once or a look at the flag. *)

Moves(w, at, conn) == worker' = [worker EXCEPT ![w] = [at |-> at, conn |-> conn]]

Recv(w) ==
    /\ worker[w].at = "recv" /\ queue # <<>>
    /\ Moves(w, "head", Head(queue)) /\ queue' = Tail(queue)
    /\ socket' = [socket EXCEPT ![Head(queue)] = "inhand"]
    /\ UNCHANGED <<backlog, accept, shutdown, routes, stats, promised>>

\* A timeout, or the channel closed; both come only with the queue empty.
RecvNothing(w) ==
    /\ worker[w].at = "recv" /\ queue = <<>>
    /\ Moves(w, "check", NoSocket)
    /\ UNCHANGED <<socket, backlog, queue, accept, shutdown, routes, stats, promised>>

\* The last worker to leave drops the channel and what is queued in it.
LeaveOnFlag(w) ==
    /\ worker' = [worker EXCEPT ![w] = Gone]
    /\ IF \A v \in Workers \ {w} : worker[v] = Gone
       THEN /\ queue' = <<>>
            /\ socket' = [c \in Sockets |-> IF Contains(queue, c) THEN "lost"
                                            ELSE socket[c]]
       ELSE UNCHANGED <<queue, socket>>
    /\ UNCHANGED <<backlog, accept, shutdown, routes, stats, promised>>

CheckFlag(w) ==
    /\ worker[w].at = "check"
    /\ IF shutdown THEN LeaveOnFlag(w)
       ELSE /\ Moves(w, "recv", NoSocket)
            /\ UNCHANGED <<socket, backlog, queue, accept, shutdown, routes, stats, promised>>

\* proxy_once ends, with Ok or an error; either way the worker looks for more.
AfterJobChecks(w) ==                                     \* mutant
    IF shutdown THEN Moves(w, "check", NoSocket) ELSE Moves(w, "recv", NoSocket)
AfterJob(w) == Moves(w, "recv", NoSocket)

JobEnds(w, how) ==
    /\ AfterJob(w)
    /\ Count(how)
    /\ socket' = [socket EXCEPT ![worker[w].conn] = how]
    /\ UNCHANGED <<backlog, queue, accept, shutdown, routes, promised>>

\* read_head: a malformed or oversized head, no Host, or a client that is too
\* slow ends the job, else the host is resolved.
ReadHeadFails(w) == worker[w].at = "head" /\ JobEnds(w, "errors")

Resolve(w, h) ==
    /\ worker[w].at = "head"
    /\ IF h \in routes
       THEN /\ Moves(w, "forward", worker[w].conn)
            /\ UNCHANGED <<socket, backlog, queue, accept, shutdown, routes, stats, promised>>
       ELSE JobEnds(w, "errors")

\* The body, the connection upstream, the request and the whole response; no
\* answer is written to the client unless all of it went well.
Forward(w) ==
    /\ worker[w].at = "forward"
    /\ \E how \in {"served", "errors"} : JobEnds(w, how)

WorkerStep(w) ==
    \/ Recv(w) \/ RecvNothing(w) \/ CheckFlag(w)
    \/ ReadHeadFails(w) \/ \E h \in Hosts : Resolve(w, h)
    \/ Forward(w)
-----------------------------------------------------------------------------
(* Clients, tenants, and stop(). *)

SocketConnects(c) ==
    /\ socket[c] = "none"
    /\ accept # "done"
    /\ socket' = [socket EXCEPT ![c] = "backlog"] /\ backlog' = Append(backlog, c)
    /\ UNCHANGED <<queue, accept, worker, shutdown, routes, stats, promised>>

Upsert(h) ==
    /\ h \notin routes /\ routes' = routes \cup {h}
    /\ UNCHANGED <<socket, backlog, queue, accept, worker, shutdown, stats, promised>>

RemoveRoute(h) ==
    /\ h \in routes /\ routes' = routes \ {h}
    /\ UNCHANGED <<socket, backlog, queue, accept, worker, shutdown, stats, promised>>

\* stop() sets the flag and joins the threads; dropping the server only sets it.
StopServer ==
    /\ ~shutdown /\ shutdown' = TRUE
    /\ promised' = IF \E w \in Workers : worker[w].at # "check" THEN ToSet(queue)
                   ELSE {}
    /\ UNCHANGED <<socket, backlog, queue, accept, worker, routes, stats>>

ProxyInit ==
    /\ socket = [c \in Sockets |-> "none"]
    /\ backlog = <<>> /\ queue = <<>>
    /\ accept = "loop"
    /\ worker = [w \in Workers |-> Idle]
    /\ shutdown = FALSE /\ routes = {}
    /\ stats = [accepted |-> 0, served |-> 0, rejected |-> 0, errors |-> 0]
    /\ promised = {}

AcceptStep == AcceptSocket \/ AcceptEnds \/ TrySend \/ TrySendFull \/ TrySendDisconnected

ProxyNext ==
    \/ AcceptStep \/ AcceptFails
    \/ \E w \in Workers : WorkerStep(w)
    \/ \E c \in Sockets : SocketConnects(c)
    \/ \E h \in Hosts : Upsert(h) \/ RemoveRoute(h)
    \/ StopServer

ProxySpec == ProxyInit /\ [][ProxyNext]_proxyVars

\* The operating system runs every thread, and every blocking read ends by its
\* timeout or the peer.
ProxyFair ==
    WF_proxyVars(AcceptStep) /\ \A w \in Workers : WF_proxyVars(WorkerStep(w))
-----------------------------------------------------------------------------
ProxyTypeOK ==
    /\ socket \in [Sockets -> {"none", "backlog", "queued", "inhand", "served", "errors",
                               "rejected", "lost"}]
    /\ backlog \in Seq(Sockets) /\ queue \in Seq(Sockets)
    /\ accept \in Sockets \cup {"loop", "done"}
    /\ worker \in [Workers -> [at : {"recv", "check", "head", "forward", "done"},
                               conn : Sockets \cup {NoSocket}]]
    /\ shutdown \in BOOLEAN /\ routes \subseteq Hosts
    /\ stats \in [{"accepted", "served", "rejected", "errors"} -> Nat]
    /\ promised \subseteq Sockets

\* A connection that was queued when stop() was called is handled before the
\* threads end, provided some worker had not just found the queue empty.
QueuedAtStopServed == \A c \in promised : socket[c] # "lost"

\* stop() returns: both kinds of thread end once the flag is set.
StopEnds == shutdown ~> (accept = "done" /\ ~Listening)
=============================================================================

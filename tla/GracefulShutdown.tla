--------------------------- MODULE GracefulShutdown ---------------------------
(***************************************************************************)
(* serve_with_shutdown of crates/open-runo-router/src/hyper_compat.rs and  *)
(* the main() that awaits it.  One task accepts; every connection is a     *)
(* task of its own that serves one request after the other and listens on  *)
(* a watch channel for the order to wind up; when the shutdown future      *)
(* resolves, the accepting task stops, raises the watch flag, joins the    *)
(* connection tasks and ends, and main() leaves the process.  A WebSocket  *)
(* upgrade ends the connection task and goes on in a task nobody joins.    *)
(***************************************************************************)
EXTENDS FiniteSets

CONSTANTS Conns      \* bound: the connections clients open

VARIABLES
    server,     \* the accepting task: "accepting", "draining", "done", "exited"
    signalled,  \* the shutdown future has resolved
    flag,       \* the value of the watch channel
    conn,       \* conn[c]: where connection c stands
    told,       \* connections whose task has seen the flag
    cut         \* history: <<c, state>>, the connections the exit severed

shutdownVars == <<server, signalled, flag, conn, told, cut>>

\* "backlog": connected, not accepted.  "idle": between requests.  "busy" and
\* "streaming": a request is being answered, in the second case by an event
\* stream that only the client ends.  "upgraded": a WebSocket.
ConnState == {"none", "backlog", "idle", "busy", "streaming", "upgraded", "closed"}

\* The connections whose task the JoinSet still holds.
Serving(c) == conn[c] \in {"idle", "busy", "streaming"}

-----------------------------------------------------------------------------
(* Operators marked "mutant" are plausible mistakes in what follows them.   *)

ShutdownInit ==
    /\ server = "accepting"
    /\ signalled = FALSE
    /\ flag = FALSE
    /\ conn = [c \in Conns |-> "none"]
    /\ told = {}
    /\ cut = {}

\* The listener lives until the accepting task ends, so clients can connect
\* while it drains; nobody accepts them any more.
Connect(c) ==
    /\ conn[c] = "none" /\ server \in {"accepting", "draining"}
    /\ conn' = [conn EXCEPT ![c] = "backlog"]
    /\ UNCHANGED <<server, signalled, flag, told, cut>>

Signal ==
    /\ ~signalled
    /\ signalled' = TRUE
    /\ UNCHANGED <<server, flag, conn, told, cut>>

\* select! is biased: the shutdown future is looked at before the listener.
Accept(c) ==
    /\ server = "accepting" /\ ~signalled
    /\ conn[c] = "backlog"
    /\ conn' = [conn EXCEPT ![c] = "idle"]
    /\ UNCHANGED <<server, signalled, flag, told, cut>>

StopUnasked ==                                         \* mutant
    /\ server = "accepting"
    /\ server' = "draining"
    /\ flag' = TRUE
    /\ UNCHANGED <<signalled, conn, told, cut>>
StopAccepting ==
    /\ server = "accepting" /\ signalled
    /\ server' = "draining"
    /\ flag' = TRUE
    /\ UNCHANGED <<signalled, conn, told, cut>>

\* A connection task sees the flag: hyper closes an idle connection at once
\* and one that answers a request after the answer.
WindUpBusyOnly(c) ==                                   \* mutant
    /\ flag /\ c \notin told /\ conn[c] \in {"busy", "streaming"}
    /\ told' = told \cup {c}
    /\ UNCHANGED <<server, signalled, flag, conn, cut>>
WindUp(c) ==
    /\ flag /\ c \notin told /\ Serving(c)
    /\ told' = told \cup {c}
    /\ conn' = [conn EXCEPT ![c] = IF @ = "idle" THEN "closed" ELSE @]
    /\ UNCHANGED <<server, signalled, flag, cut>>

Receive(c) ==
    /\ conn[c] = "idle" /\ server # "exited"
    /\ \E s \in {"busy", "streaming"} : conn' = [conn EXCEPT ![c] = s]
    /\ UNCHANGED <<server, signalled, flag, told, cut>>

AnswerKeepsAlive(c) ==                                 \* mutant
    /\ conn[c] = "busy" /\ server # "exited"
    /\ conn' = [conn EXCEPT ![c] = "idle"]
    /\ UNCHANGED <<server, signalled, flag, told, cut>>
Answer(c) ==
    /\ conn[c] = "busy" /\ server # "exited"
    /\ conn' = [conn EXCEPT ![c] = IF c \in told THEN "closed" ELSE "idle"]
    /\ UNCHANGED <<server, signalled, flag, told, cut>>

\* websocket_handler answers 101; the connection's future completes and the
\* socket goes to a task of its own.
Upgrade(c) ==
    /\ conn[c] = "busy" /\ server # "exited"
    /\ conn' = [conn EXCEPT ![c] = "upgraded"]
    /\ UNCHANGED <<server, signalled, flag, told, cut>>

HangUp(c) ==
    /\ conn[c] \notin {"none", "closed"}
    /\ conn' = [conn EXCEPT ![c] = "closed"]
    /\ UNCHANGED <<server, signalled, flag, told, cut>>

\* join_next() has returned None.  (Nobody in the repository waits on `drained`,
\* which notify_waiters() then fires.)
DrainedAtOnce ==                                       \* mutant
    /\ server = "draining"
    /\ server' = "done"
    /\ UNCHANGED <<signalled, flag, conn, told, cut>>
Drained ==
    /\ server = "draining" /\ \A c \in Conns : ~Serving(c)
    /\ server' = "done"
    /\ UNCHANGED <<signalled, flag, conn, told, cut>>

\* main() returns from handle.await: the runtime drops every task and socket.
Exit ==
    /\ server = "done"
    /\ server' = "exited"
    /\ cut' = {<<c, conn[c]>> : c \in {d \in Conns : conn[d] \notin {"none", "closed"}}}
    /\ conn' = [c \in Conns |-> IF conn[c] = "none" THEN "none" ELSE "closed"]
    /\ UNCHANGED <<signalled, flag, told>>

ConnTask(c) == WindUp(c) \/ Answer(c)
Client(c) == Connect(c) \/ Receive(c) \/ HangUp(c)
ShutdownNext ==
    \/ Signal \/ StopAccepting \/ Drained \/ Exit
    \/ \E c \in Conns : Accept(c) \/ ConnTask(c) \/ Upgrade(c) \/ Client(c)

ShutdownSpec == ShutdownInit /\ [][ShutdownNext]_shutdownVars

\* The runtime runs the tasks that can run, and a handler that does not stream
\* returns.  Nothing makes a client hang up, send or connect, or the signal come.
ShutdownFair ==
    /\ WF_shutdownVars(StopAccepting) /\ WF_shutdownVars(Drained) /\ WF_shutdownVars(Exit)
    /\ \A c \in Conns : WF_shutdownVars(WindUp(c)) /\ WF_shutdownVars(Answer(c) \/ Upgrade(c))
ShutdownFairSpec == ShutdownSpec /\ ShutdownFair

-----------------------------------------------------------------------------
(* Properties.                                                              *)

\* ShutdownTypeOK: the state is well typed, and nobody is told to wind up unless the
\* shutdown future has resolved (hyper_compat.rs:745 recalls a version in which
\* that happened).
ShutdownTypeOK ==
    /\ server \in {"accepting", "draining", "done", "exited"}
    /\ signalled \in BOOLEAN /\ flag \in BOOLEAN
    /\ conn \in [Conns -> ConnState]
    /\ told \subseteq Conns
    /\ cut \subseteq Conns \X ConnState
    /\ flag => signalled
    /\ told # {} => flag

\* A request that the server has begun to answer is answered to the end: the
\* process never leaves while one is in flight (hyper_compat.rs:758).
InFlightFinishes == \A c \in Conns : <<c, "busy">> \notin cut /\ <<c, "streaming">> \notin cut

\* Once a connection task has been told to wind up it takes no new request:
\* an answer is the last thing a told connection does.
ToldTakesNoMore == [][\A c \in Conns :
    (c \in told /\ conn[c] # "none") =>
        (conn'[c] = conn[c] \/ conn'[c] \in {"closed", "upgraded"})]_shutdownVars

\* After the signal the process exits, however many idle keep-alive
\* connections are open, provided event streams are closed by their clients.
NoStreams == \A c \in Conns : conn[c] # "streaming"
DrainsToExit == <>[]NoStreams => (signalled ~> (server = "exited"))
=============================================================================

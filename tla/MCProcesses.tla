----------------------------- MODULE MCProcesses -----------------------------
(***************************************************************************)
(* Small instances of the parts that run for as long as the process does:  *)
(* the drain of a shutdown, the supervisor of the application server, its  *)
(* proxy, the fan-out of events, a WebSocket, the ACME client, and the two *)
(* databases under callers that take turns.  None of these shares state    *)
(* with another in the code, so one run explores each from its own initial *)
(* states while the others rest in theirs.                                 *)
(***************************************************************************)
EXTENDS GracefulShutdown, Supervisor, ProxyServer, SchemaEvents, WebSocket, Acme,
        DualDatabase, TLC

CONSTANTS t1, t2, t3    \* the tables the routing below names

VARIABLE part           \* the one that moves

\* One table per routing target.
ThreeTargets == t1 :> "Both" @@ t2 :> "Postgres" @@ t3 :> "Aruaru"

allVars == <<part, shutdownVars, supervisorVars, proxyVars, eventsVars, wsVars, acmeVars, vars>>

ProcessesInit ==
    /\ part \in {"shutdown", "supervisor", "proxy", "events", "websocket", "acme", "turns"}
    /\ ShutdownInit /\ SupervisorInit /\ ProxyInit /\ EventsInit /\ WebSocketInit
    /\ AcmeInit /\ Init
    /\ part # "events" => topic = "schemas" /\ bridge

OthersRest ==
    /\ part # "shutdown" => UNCHANGED shutdownVars
    /\ part # "supervisor" => UNCHANGED supervisorVars
    /\ part # "proxy" => UNCHANGED proxyVars
    /\ part # "events" => UNCHANGED eventsVars
    /\ part # "websocket" => UNCHANGED wsVars
    /\ part # "acme" => UNCHANGED acmeVars
    /\ part # "turns" => UNCHANGED vars

ProcessesNext ==
    /\ \/ part = "shutdown" /\ ShutdownNext
       \/ part = "supervisor" /\ SupervisorNext
       \/ part = "proxy" /\ ProxyNext
       \/ part = "events" /\ EventsNext
       \/ part = "websocket" /\ WebSocketNext
       \/ part = "acme" /\ AcmeNext
       \/ part = "turns" /\ Next /\ TurnsTaken'
    /\ UNCHANGED part
    /\ OthersRest

\* ShutdownFair, SupervisorFair, ProxyFair, EventsFair and WebSocketFair, each asked
\* of the part that moves.
ProcessesFair ==
    /\ WF_shutdownVars(part = "shutdown" /\ StopAccepting)
    /\ WF_shutdownVars(part = "shutdown" /\ Drained)
    /\ WF_shutdownVars(part = "shutdown" /\ Exit)
    /\ \A c \in Conns :
          /\ WF_shutdownVars(part = "shutdown" /\ WindUp(c))
          /\ WF_shutdownVars(part = "shutdown" /\ (Answer(c) \/ Upgrade(c)))
    /\ WF_supervisorVars(part = "supervisor" /\ SupervisorTick)
    /\ WF_supervisorVars(part = "supervisor" /\ Elapse)
    /\ WF_proxyVars(part = "proxy" /\ AcceptStep)
    /\ \A w \in Workers : WF_proxyVars(part = "proxy" /\ WorkerStep(w))
    /\ \A s \in Subscribers : WF_eventsVars(part = "events" /\ Hear(s))
    /\ WF_eventsVars(part = "events" /\ Poll)
    /\ WF_wsVars(part = "websocket" /\ WebSocketServer)
    /\ WF_wsVars(part = "websocket" /\ ClientHears)

ProcessesSpec == ProcessesInit /\ [][ProcessesNext]_allVars /\ ProcessesFair

\* Every part is well typed.
ProcessesTypeOK ==
    /\ ShutdownTypeOK /\ SupervisorTypeOK /\ ProxyTypeOK /\ EventsTypeOK
    /\ WebSocketTypeOK /\ AcmeTypeOK /\ TypeOK

\* What is sent arrives: the last news at every subscriber that stays, the
\* history's length at the SSE stream, and every message at the client whose
\* connection stays up.
MessagesArrive == LastNewsArrives /\ EchoesArrive

\* No thread waits for ever: a supervisor that is polled leaves its backoff, and
\* the threads of a proxy that was told to stop end.
ThreadsMoveOn == BackoffEnds /\ StopEnds
=============================================================================

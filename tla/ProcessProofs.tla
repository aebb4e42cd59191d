--------------------------- MODULE ProcessProofs ----------------------------
(***************************************************************************)
(* The application server and the certificates of the router, for any      *)
(* restart policy, sockets, workers, queue depth and ACME orders: the      *)
(* supervisor keeps its child in hand, the proxy serves what was queued    *)
(* when it was told to stop, a challenge stays published for as long as    *)
(* the authority may look at it, and the four run side by side with types  *)
(* that hold.                                                              *)
(***************************************************************************)
EXTENDS MCProcesses, DualDatabaseProofs, ConnectionProofs

(* The supervisor *)

\* The doublings a backoff may take (min(16) in lib.rs), by enumeration.
LEMMA PowersOfTwo == \A n \in 0 .. 16 : 2 ^ n \in Nat
<1>1. /\ 2 ^ 0 \in Nat /\ 2 ^ 1 \in Nat /\ 2 ^ 2 \in Nat /\ 2 ^ 3 \in Nat /\ 2 ^ 4 \in Nat
      /\ 2 ^ 5 \in Nat /\ 2 ^ 6 \in Nat /\ 2 ^ 7 \in Nat /\ 2 ^ 8 \in Nat
  OBVIOUS
<1>2. /\ 2 ^ 9 \in Nat /\ 2 ^ 10 \in Nat /\ 2 ^ 11 \in Nat /\ 2 ^ 12 \in Nat
      /\ 2 ^ 13 \in Nat /\ 2 ^ 14 \in Nat /\ 2 ^ 15 \in Nat /\ 2 ^ 16 \in Nat
  OBVIOUS
<1>3. \A n \in {0, 1, 2, 3, 4, 5, 6, 7, 8} : 2 ^ n \in Nat
  BY <1>1, Zenon
<1>4. \A n \in {9, 10, 11, 12, 13, 14, 15, 16} : 2 ^ n \in Nat
  BY <1>2, Zenon
<1>5. \A n \in 0 .. 16 :
         n \in {0, 1, 2, 3, 4, 5, 6, 7, 8} \/ n \in {9, 10, 11, 12, 13, 14, 15, 16}
  OBVIOUS
<1> QED BY <1>3, <1>4, <1>5, Zenon

\* A backoff is no longer than max_backoff, after however many failures.
LEMMA BackoffTyped ==
    ASSUME NEW f \in 1 .. MaxRapid
    PROVE  Backoff(f) \in 0 .. MaxBackoff
<1>1. MaxRapid \in Nat /\ MaxBackoff \in Nat /\ BaseBackoff \in Nat
  BY SupervisorAssumption
<1>2. PICK n \in 0 .. 16 : n = Shorter(f - 1, 16)
  BY <1>1 DEF Shorter
<1>3. PICK power \in Nat : power = 2 ^ n
  BY <1>2, PowersOfTwo
<1>4. PICK long \in Nat : long = BaseBackoff * power
  BY <1>1, <1>3
<1> QED BY <1>1, <1>2, <1>3, <1>4 DEF Backoff, Shorter

\* A running child has not yet failed too often, and has lived no longer than its
\* age at the poll; each failure but the first stands for a quick death.
FailuresAreQuick ==
    /\ proc = "running" => failures < MaxRapid /\ lived <= age
    /\ proc \in {"running", "backoff", "gaveup"} => failures <= quick + 1
    /\ proc = "gaveup" => failures = MaxRapid

SupervisorIInv == SupervisorTypeOK /\ OneChild /\ FailuresAreQuick

\* Going into a backoff after the f-th failure, whatever it was.
LEMMA BackoffKeeps ==
    ASSUME SupervisorIInv, NEW f \in 1 .. MaxRapid, EnterBackoff(f),
           quick' \in 0 .. MaxRapid, f <= quick' + 1, UNCHANGED lived,
           astray' \in Nat, blind' \in 0 .. MaxLost, astray' <= blind'
    PROVE  SupervisorIInv'
<1>1. pause' \in 0 .. MaxBackoff
  BY BackoffTyped DEF EnterBackoff
<1>2. /\ proc' = "backoff" /\ failures' = f /\ child' = "none" /\ age' = 0
      /\ MaxRapid \in Nat /\ HealthyAfter \in Nat
  BY SupervisorAssumption DEF EnterBackoff
<1>3. SupervisorTypeOK'
  <2>1. failures' \in 0 .. MaxRapid /\ age' \in 0 .. HealthyAfter
    BY <1>2
  <2>2. lived' \in 0 .. HealthyAfter
    BY DEF SupervisorIInv, SupervisorTypeOK
  <2> QED BY <1>1, <1>2, <2>1, <2>2 DEF SupervisorTypeOK
<1>4. OneChild' /\ FailuresAreQuick'
  BY <1>2 DEF OneChild, FailuresAreQuick
<1> QED BY <1>3, <1>4 DEF SupervisorIInv

\* Spawning from a state without a child, with few enough failures so far.
LEMMA SpawnKeeps ==
    ASSUME SupervisorIInv, child # "alive", NEW prior \in 0 .. MaxRapid - 1,
           prior <= quick + 1, Spawn(prior)
    PROVE  SupervisorIInv'
<1> USE SupervisorAssumption DEF SupervisorIInv
<1>1. CASE proc' = "running"
  BY <1>1 DEF Spawn, EnterBackoff, SupervisorTypeOK, OneChild, FailuresAreQuick
<1>2. CASE EnterBackoff(prior + 1) /\ Failed /\ UNCHANGED <<astray, blind, lived>>
  <2>1. prior + 1 \in 1 .. MaxRapid /\ quick' \in 0 .. MaxRapid /\ prior + 1 <= quick' + 1
    BY <1>2 DEF Failed, Shorter, SupervisorTypeOK
  <2>2. astray' \in Nat /\ blind' \in 0 .. MaxLost /\ astray' <= blind'
    BY <1>2 DEF SupervisorTypeOK, OneChild
  <2> QED BY <1>2, <2>1, <2>2, BackoffKeeps
<1> QED BY <1>1, <1>2 DEF Spawn

\* tick(), from each state.
LEMMA TickKeeps ==
    ASSUME SupervisorIInv, SupervisorTick
    PROVE  SupervisorIInv'
<1> USE SupervisorAssumption DEF SupervisorIInv
<1>1. CASE TickFirst
  <2>1. child # "alive" /\ 0 \in 0 .. MaxRapid - 1 /\ 0 <= quick + 1
    BY <1>1 DEF TickFirst, OneChild, SupervisorTypeOK
  <2> QED BY <1>1, <2>1, SpawnKeeps DEF TickFirst
<1>2. CASE TickReap
  <2>1. PICK f : f = Counted(failures)
    OBVIOUS
  <2>2. f \in 1 .. MaxRapid /\ quick' \in 0 .. MaxRapid /\ f <= quick' + 1
    BY <1>2, <2>1 DEF TickReap, Counted, Died, Failed, Shorter, SupervisorTypeOK, FailuresAreQuick
  <2>3. EnterBackoff(f) /\ UNCHANGED <<astray, blind, lived>>
    BY <1>2, <2>1 DEF TickReap
  <2>4. astray' \in Nat /\ blind' \in 0 .. MaxLost /\ astray' <= blind'
    BY <2>3 DEF SupervisorTypeOK, OneChild
  <2> QED BY <2>2, <2>3, <2>4, BackoffKeeps
<1>3. CASE TickBlind
  <2>1. PICK f : f = failures + 1
    OBVIOUS
  <2>2. f \in 1 .. MaxRapid /\ quick' \in 0 .. MaxRapid /\ f <= quick' + 1
    BY <1>3, <2>1 DEF TickBlind, Failed, Shorter, SupervisorTypeOK, FailuresAreQuick
  <2>3. EnterBackoff(f) /\ UNCHANGED lived
    BY <1>3, <2>1 DEF TickBlind
  <2>4. astray' \in Nat /\ blind' \in 0 .. MaxLost /\ astray' <= blind'
    BY <1>3 DEF TickBlind, SupervisorTypeOK, OneChild
  <2> QED BY <2>2, <2>3, <2>4, BackoffKeeps
<1>4. CASE TickGiveUp
  BY <1>4 DEF TickGiveUp, SupervisorTypeOK, OneChild, FailuresAreQuick
<1>5. CASE TickAgain
  <2>1. child # "alive" /\ failures \in 0 .. MaxRapid - 1 /\ failures <= quick + 1
    BY <1>5 DEF TickAgain, OneChild, SupervisorTypeOK, FailuresAreQuick
  <2> QED BY <1>5, <2>1, SpawnKeeps DEF TickAgain
<1> QED BY <1>1, <1>2, <1>3, <1>4, <1>5 DEF SupervisorTick

LEMMA SupervisorNextIInv ==
    ASSUME SupervisorIInv, [SupervisorNext]_supervisorVars
    PROVE  SupervisorIInv'
<1> USE SupervisorAssumption DEF SupervisorIInv
<1>1. CASE SupervisorTick
  BY <1>1, TickKeeps
<1>2. CASE Stop
  BY <1>2 DEF Stop, Killed, SupervisorTypeOK, OneChild, FailuresAreQuick
<1>3. CASE Reset
  BY <1>3 DEF Reset, Killed, SupervisorTypeOK, OneChild, FailuresAreQuick
<1>4. CASE DropSupervisor
  BY <1>4 DEF DropSupervisor, Killed, SupervisorTypeOK, OneChild, FailuresAreQuick
<1>5. CASE ChildExits
  BY <1>5 DEF ChildExits, SupervisorTypeOK, OneChild, FailuresAreQuick
<1>6. CASE Elapse
  BY <1>6 DEF Elapse, SupervisorTypeOK, OneChild, FailuresAreQuick
<1>7. CASE UNCHANGED supervisorVars
  BY <1>7 DEF supervisorVars, SupervisorTypeOK, OneChild, FailuresAreQuick
<1> QED BY <1>1, <1>2, <1>3, <1>4, <1>5, <1>6, <1>7 DEF SupervisorNext

LEMMA SupervisorStarts == SupervisorInit => SupervisorIInv
BY SupervisorAssumption
   DEF SupervisorInit, SupervisorIInv, SupervisorTypeOK, OneChild, FailuresAreQuick

\* The supervisor's state (open-runo-appserver/src/lib.rs:103-176) keeps its types: the
\* counter stays within max_rapid_failures and no backoff exceeds max_backoff, the
\* doublings saturating at 2^16.
THEOREM SupervisorTyped == SupervisorSpec => []SupervisorTypeOK
<1>1. SupervisorIInv => SupervisorTypeOK
  BY DEF SupervisorIInv
<1> QED BY <1>1, SupervisorStarts, SupervisorNextIInv, PTL DEF SupervisorSpec

\* Supervisor (open-runo-appserver/src/lib.rs:182-271): through stops, resets, drop
\* and restarts no process is left running without a handle, but for a failed
\* try_wait, and giving up takes MaxRapid - 1 quick failures in a row.
THEOREM ChildInHand == SupervisorSpec => []ChildIsKept
<1>1. SupervisorIInv => ChildIsKept
  BY SupervisorAssumption
     DEF SupervisorIInv, SupervisorTypeOK, FailuresAreQuick, ChildIsKept, GiveUpIsEarned
<1> QED BY <1>1, SupervisorStarts, SupervisorNextIInv, PTL DEF SupervisorSpec
-----------------------------------------------------------------------------
(* The proxy *)

\* What the argument needs of the types.
ProxyTyped ==
    /\ DOMAIN socket = Sockets
    /\ backlog \in Seq(Sockets) /\ queue \in Seq(Sockets)
    /\ accept \in Sockets \cup {"loop", "done"}
    /\ DOMAIN worker = Workers
    /\ ~shutdown => \A w \in Workers : worker[w].at \in {"recv", "check", "head", "forward"}
    /\ shutdown \in BOOLEAN
    /\ promised \subseteq Sockets

\* A connection is in the kernel's hands, the accept thread's, or past them.
Waiting ==
    /\ \A i \in DOMAIN backlog : socket[backlog[i]] = "backlog"
    /\ \A i, j \in DOMAIN backlog : backlog[i] = backlog[j] => i = j
    /\ Holding => /\ socket[accept] = "backlog"
                  /\ \A i \in DOMAIN backlog : backlog[i] # accept
    /\ \A i \in DOMAIN queue : socket[queue[i]] \notin {"none", "backlog", "lost"}
    /\ \A c \in promised : socket[c] \notin {"none", "backlog", "lost"}
    /\ \A w \in Workers : worker[w].at \in {"head", "forward"} =>
          worker[w].conn \in Sockets /\ socket[worker[w].conn] \notin {"none", "backlog"}

\* A worker that will look at the queue before it looks at the flag.
LooksAgain(w) == worker[w].at \in {"recv", "head", "forward"}

PromiseKept ==
    (\E i \in DOMAIN queue : queue[i] \in promised) => \E w \in Workers : LooksAgain(w)

ProxyIInv == ProxyTyped /\ Waiting /\ PromiseKept

\* The accept thread.
LEMMA AcceptKeeps ==
    ASSUME ProxyIInv, AcceptStep \/ AcceptFails
    PROVE  ProxyIInv'
<1> USE DEF ProxyIInv
<1>1. CASE AcceptSocket
  <2>1. /\ accept' = backlog[1] /\ accept' \in Sockets /\ backlog' \in Seq(Sockets)
        /\ \A i \in DOMAIN backlog' : i + 1 \in DOMAIN backlog /\ i + 1 # 1
                                      /\ backlog'[i] = backlog[i + 1]
        /\ 1 \in DOMAIN backlog
    BY <1>1 DEF AcceptSocket, ProxyTyped
  <2>2. UNCHANGED <<socket, queue, worker, promised, shutdown>>
    BY <1>1 DEF AcceptSocket
  <2>3. ProxyTyped' /\ PromiseKept'
    BY <2>1, <2>2 DEF ProxyTyped, PromiseKept, LooksAgain
  <2>4. \A i, j \in DOMAIN backlog' : backlog'[i] = backlog'[j] => i = j
    <3> TAKE i, j \in DOMAIN backlog'
    <3>1. i \in Nat /\ j \in Nat
      BY <2>1
    <3> QED BY <2>1, <3>1 DEF Waiting
  <2>5. Waiting'
    BY <2>1, <2>2, <2>4 DEF Waiting, Holding
  <2> QED BY <2>3, <2>5
<1>2. CASE AcceptFails
  BY <1>2 DEF AcceptFails, ProxyTyped, Waiting, Holding, PromiseKept, LooksAgain
<1>3. CASE AcceptEnds
  BY <1>3, ProxyAssumption
     DEF AcceptEnds, ProxyTyped, Waiting, Holding, PromiseKept, LooksAgain
<1>4. CASE TrySend
  <2>1. /\ accept \in Sockets /\ socket[accept] = "backlog" /\ accept' = "loop"
        /\ queue' = Append(queue, accept) /\ queue' \in Seq(Sockets)
        /\ socket' = [socket EXCEPT ![accept] = "queued"]
        /\ UNCHANGED <<backlog, worker, promised, shutdown>>
    BY <1>4 DEF TrySend, Holding, ProxyTyped, Waiting
  <2>2. \A i \in DOMAIN queue' : queue'[i] = accept \/ (i \in DOMAIN queue /\ queue'[i] = queue[i])
    BY <2>1 DEF ProxyTyped
  <2>3. \A i \in DOMAIN queue : queue[i] \in Sockets
    BY DEF ProxyTyped
  <2>4. \A i \in DOMAIN backlog : backlog[i] \in Sockets
    BY DEF ProxyTyped
  <2>5. accept \notin promised
    BY <2>1 DEF Waiting
  <2>6. ProxyTyped' /\ ~Holding'
    BY <2>1, ProxyAssumption DEF ProxyTyped, Holding
  <2>7. Waiting'
    BY <1>4, <2>1, <2>2, <2>3, <2>4, <2>6 DEF ProxyTyped, Waiting, TrySend
  <2>8. PromiseKept'
    BY <2>1, <2>2, <2>5 DEF PromiseKept, LooksAgain
  <2> QED BY <2>6, <2>7, <2>8
<1>5. CASE TrySendFull \/ TrySendDisconnected
  <2>1. PICK how \in {"rejected", "lost"} :
          /\ accept \in Sockets /\ socket[accept] = "backlog" /\ accept' \in {"loop", "done"}
          /\ socket' = [socket EXCEPT ![accept] = how]
          /\ UNCHANGED <<backlog, queue, worker, promised, shutdown>>
    BY <1>5 DEF TrySendFull, TrySendDisconnected, Holding, ProxyTyped, Waiting
  <2>2. \A i \in DOMAIN queue : queue[i] \in Sockets /\ queue[i] # accept
    BY <2>1 DEF ProxyTyped, Waiting
  <2>3. \A i \in DOMAIN backlog : backlog[i] \in Sockets /\ backlog[i] # accept
    BY <1>5 DEF ProxyTyped, Waiting, TrySendFull, TrySendDisconnected
  <2>4. accept \notin promised
    BY <2>1 DEF Waiting
  <2>5. ProxyTyped' /\ ~Holding'
    BY <2>1, ProxyAssumption DEF ProxyTyped, Holding
  <2>6. Waiting'
    BY <2>1, <2>2, <2>3, <2>4, <2>5 DEF ProxyTyped, Waiting
  <2>7. PromiseKept'
    BY <2>1 DEF PromiseKept, LooksAgain
  <2> QED BY <2>5, <2>6, <2>7
<1> QED BY <1>1, <1>2, <1>3, <1>4, <1>5 DEF AcceptStep

\* A worker. Only one that found the queue empty leaves for the flag, and only when
\* all have left is the queue dropped.
LEMMA WorkerKeeps ==
    ASSUME ProxyIInv, NEW w \in Workers, WorkerStep(w)
    PROVE  ProxyIInv'
<1> USE DEF ProxyIInv
<1>1. CASE Recv(w)
  <2>1. /\ queue # <<>> /\ queue[1] \in Sockets /\ 1 \in DOMAIN queue
        /\ queue' = Tail(queue) /\ queue' \in Seq(Sockets)
        /\ worker' = [worker EXCEPT ![w] = [at |-> "head", conn |-> queue[1]]]
        /\ socket' = [socket EXCEPT ![queue[1]] = "inhand"]
        /\ UNCHANGED <<backlog, accept, promised, shutdown>>
    BY <1>1 DEF Recv, Moves, ProxyTyped
  <2>2. \A i \in DOMAIN queue' : i + 1 \in DOMAIN queue /\ queue'[i] = queue[i + 1]
    BY <2>1 DEF ProxyTyped
  <2>3. \A i \in DOMAIN backlog : backlog[i] \in Sockets /\ backlog[i] # queue[1]
    BY <2>1 DEF ProxyTyped, Waiting
  <2>4. \A i \in DOMAIN queue : queue[i] \in Sockets
    BY DEF ProxyTyped
  <2>5. Holding => accept # queue[1]
    BY <2>1 DEF Waiting
  <2>6. ProxyTyped'
    BY <2>1 DEF ProxyTyped
  <2>7. Waiting'
    BY <2>1, <2>2, <2>3, <2>4, <2>5 DEF ProxyTyped, Waiting, Holding
  <2>8. LooksAgain(w)'
    BY <2>1 DEF LooksAgain, ProxyTyped
  <2> QED BY <2>6, <2>7, <2>8 DEF PromiseKept
<1>2. CASE RecvNothing(w)
  BY <1>2 DEF RecvNothing, Moves, ProxyTyped, Waiting, Holding, PromiseKept
<1>3. CASE CheckFlag(w)
  <2>1. worker[w].at = "check" /\ UNCHANGED <<backlog, accept, promised>>
    BY <1>3 DEF CheckFlag, LeaveOnFlag
  <2>2. DOMAIN worker' = Workers /\ \A v \in Workers \ {w} : worker'[v] = worker[v]
    BY <1>3 DEF CheckFlag, LeaveOnFlag, Moves, ProxyTyped
  <2>0. UNCHANGED shutdown /\ (shutdown \/ worker'[w].at = "recv") /\ worker'[w].at \in {"recv", "done"}
    BY <1>3 DEF CheckFlag, LeaveOnFlag, Moves, Gone, ProxyTyped
  <2>3. CASE UNCHANGED <<queue, socket>>
    <3>1. (\E v \in Workers : LooksAgain(v)) => (\E v \in Workers : LooksAgain(v)')
      BY <2>1, <2>2 DEF LooksAgain
    <3> QED BY <2>0, <2>1, <2>2, <2>3, <3>1 DEF ProxyTyped, Waiting, Holding, PromiseKept
  <2>4. CASE /\ worker' = [worker EXCEPT ![w] = Gone]
             /\ \A v \in Workers \ {w} : worker[v] = Gone
             /\ queue' = <<>>
             /\ socket' = [c \in Sockets |-> IF Contains(queue, c) THEN "lost" ELSE socket[c]]
    <3>1. \A v \in Workers : ~LooksAgain(v)
      BY <2>1, <2>4 DEF LooksAgain, Gone
    <3>2. \A c \in Sockets : Contains(queue, c) <=> \E i \in DOMAIN queue : queue[i] = c
      BY DEF Contains, ProxyTyped
    <3>3. \A c \in promised : ~Contains(queue, c)
      BY <3>1, <3>2 DEF PromiseKept, ProxyTyped
    <3>4. \A i \in DOMAIN backlog : backlog[i] \in Sockets /\ ~Contains(queue, backlog[i])
      BY <3>2 DEF Waiting, ProxyTyped
    <3>5. Holding => accept \in Sockets /\ ~Contains(queue, accept)
      BY <3>2 DEF Waiting, Holding
    <3>6. ProxyTyped'
      BY <2>0, <2>1, <2>2, <2>4 DEF ProxyTyped
    <3>7. \A v \in Workers : worker'[v].at \notin {"head", "forward"}
      BY <2>4 DEF Gone, ProxyTyped
    <3>8. Waiting'
      BY <2>1, <2>4, <3>3, <3>4, <3>5, <3>7 DEF Waiting, Holding, ProxyTyped
    <3> QED BY <2>4, <3>6, <3>8 DEF PromiseKept
  <2> QED BY <1>3, <2>3, <2>4 DEF CheckFlag, LeaveOnFlag
<1>4. CASE \E h \in Hosts : Resolve(w, h) /\ h \in routes
  BY <1>4 DEF Resolve, Moves, ProxyTyped, Waiting, Holding, PromiseKept, LooksAgain
<1>5. ASSUME NEW how \in {"served", "errors"}, worker[w].at \in {"head", "forward"},
             JobEnds(w, how)
      PROVE  ProxyIInv'
  <2> DEFINE mine == worker[w].conn
  <2>1. /\ mine \in Sockets /\ socket[mine] \notin {"none", "backlog"}
        /\ worker' = [worker EXCEPT ![w] = [at |-> "recv", conn |-> NoSocket]]
        /\ socket' = [socket EXCEPT ![mine] = how]
        /\ UNCHANGED <<backlog, queue, accept, promised, shutdown>>
    BY <1>5 DEF JobEnds, AfterJob, Moves, Waiting
  <2>2. \A i \in DOMAIN backlog : backlog[i] \in Sockets /\ backlog[i] # mine
    BY <2>1 DEF ProxyTyped, Waiting
  <2>3. Holding => accept # mine
    BY <2>1 DEF Waiting
  <2>4. \A i \in DOMAIN queue : queue[i] \in Sockets
    BY DEF ProxyTyped
  <2> HIDE DEF mine
  <2>5. ProxyTyped'
    BY <2>1 DEF ProxyTyped
  <2>6. Waiting'
    BY <2>1, <2>2, <2>3, <2>4 DEF ProxyTyped, Waiting, Holding
  <2>7. LooksAgain(w)'
    BY <2>1 DEF LooksAgain, ProxyTyped
  <2> QED BY <2>5, <2>6, <2>7 DEF PromiseKept
<1>6. CASE ReadHeadFails(w) \/ (\E h \in Hosts : Resolve(w, h) /\ h \notin routes) \/ Forward(w)
  <2>1. \E how \in {"served", "errors"} : JobEnds(w, how) /\ worker[w].at \in {"head", "forward"}
    BY <1>6 DEF ReadHeadFails, Resolve, Forward
  <2> QED BY <2>1, <1>5
<1> QED BY <1>1, <1>2, <1>3, <1>4, <1>6 DEF WorkerStep

\* Clients, tenants and stop().
LEMMA OutsideKeeps ==
    ASSUME ProxyIInv,
           \/ \E c \in Sockets : SocketConnects(c)
           \/ \E h \in Hosts : Upsert(h) \/ RemoveRoute(h)
           \/ StopServer
    PROVE  ProxyIInv'
<1> USE DEF ProxyIInv
<1>1. ASSUME NEW c \in Sockets, SocketConnects(c) PROVE ProxyIInv'
  <2>1. /\ socket[c] = "none" /\ socket' = [socket EXCEPT ![c] = "backlog"]
        /\ backlog' = Append(backlog, c) /\ backlog' \in Seq(Sockets)
        /\ UNCHANGED <<queue, accept, worker, promised, shutdown>>
    BY <1>1 DEF SocketConnects, ProxyTyped
  <2>2. \A i \in DOMAIN backlog : backlog[i] \in Sockets /\ backlog[i] # c
    BY <2>1 DEF ProxyTyped, Waiting
  <2>3. \A i \in DOMAIN backlog' : \/ i \in DOMAIN backlog /\ backlog'[i] = backlog[i]
                                   \/ i = Len(backlog) + 1 /\ backlog'[i] = c
    BY <2>1 DEF ProxyTyped
  <2>4. \A i \in DOMAIN queue : queue[i] \in Sockets /\ queue[i] # c
    BY <2>1 DEF ProxyTyped, Waiting
  <2>5. Holding => accept # c
    BY <2>1 DEF Waiting
  <2>6. ProxyTyped' /\ PromiseKept'
    BY <2>1 DEF ProxyTyped, PromiseKept, LooksAgain
  <2>7. \A i, j \in DOMAIN backlog' : backlog'[i] = backlog'[j] => i = j
    BY <2>2, <2>3 DEF Waiting
  <2>8. Waiting'
    BY <2>1, <2>2, <2>3, <2>4, <2>5, <2>7 DEF ProxyTyped, Waiting, Holding
  <2> QED BY <2>6, <2>8
<1>2. CASE \E h \in Hosts : Upsert(h) \/ RemoveRoute(h)
  BY <1>2 DEF Upsert, RemoveRoute, ProxyTyped, Waiting, Holding, PromiseKept, LooksAgain
<1>3. CASE StopServer
  <2>1. UNCHANGED <<socket, backlog, queue, accept, worker>>
    BY <1>3 DEF StopServer
  <2>2. /\ promised' \subseteq ToSet(queue)
        /\ promised' # {} => \E w \in Workers : worker[w].at # "check"
    BY <1>3 DEF StopServer
  <2>3. \A c \in promised' : \E i \in DOMAIN queue : queue[i] = c
    BY <2>2 DEF ToSet
  <2>4. shutdown' = TRUE /\ \A w \in Workers : worker[w].at # "check" => LooksAgain(w)
    BY <1>3 DEF StopServer, ProxyTyped, LooksAgain
  <2>5. ProxyTyped' /\ Waiting'
    BY <2>1, <2>3, <2>4 DEF ProxyTyped, Waiting, Holding
  <2>6. \A w \in Workers : LooksAgain(w) => LooksAgain(w)'
    BY <2>1 DEF LooksAgain
  <2> QED BY <2>1, <2>2, <2>4, <2>5, <2>6 DEF PromiseKept
<1> QED BY <1>1, <1>2, <1>3

LEMMA ProxyNextIInv ==
    ASSUME ProxyIInv, [ProxyNext]_proxyVars
    PROVE  ProxyIInv'
<1>1. CASE ProxyNext
  BY <1>1, AcceptKeeps, WorkerKeeps, OutsideKeeps DEF ProxyNext
<1>2. CASE UNCHANGED proxyVars
  BY <1>2 DEF proxyVars, ProxyIInv, ProxyTyped, Waiting, Holding, PromiseKept, LooksAgain
<1> QED BY <1>1, <1>2

\* What a step counts.
Counters == {"accepted", "served", "rejected", "errors"}
LEMMA CountTyped ==
    ASSUME stats \in [Counters -> Nat], NEW field \in Counters, Count(field)
    PROVE  stats' \in [Counters -> Nat]
<1>1. stats[field] + 1 \in Nat
  OBVIOUS
<1> QED BY <1>1 DEF Count

LEMMA MovesTyped ==
    ASSUME ProxyTypeOK, NEW w \in Workers, NEW at \in {"recv", "check", "head", "forward", "done"},
           NEW c \in Sockets \cup {NoSocket}, worker' = [worker EXCEPT ![w] = [at |-> at, conn |-> c]]
    PROVE  worker' \in [Workers -> [at : {"recv", "check", "head", "forward", "done"},
                                    conn : Sockets \cup {NoSocket}]]
BY DEF ProxyTypeOK

LEMMA AcceptTyped ==
    ASSUME ProxyTypeOK, AcceptStep \/ AcceptFails
    PROVE  ProxyTypeOK'
<1>1. /\ stats \in [Counters -> Nat] /\ UNCHANGED <<worker, shutdown, routes, promised>>
  BY DEF ProxyTypeOK, Counters, AcceptStep, AcceptSocket, AcceptEnds, TrySend, TrySendFull,
         TrySendDisconnected, AcceptFails
<1>2. stats' \in [Counters -> Nat]
  <2>1. CASE \E field \in Counters : Count(field)
    BY <1>1, <2>1, CountTyped
  <2>2. CASE UNCHANGED stats
    BY <1>1, <2>2
  <2> QED BY <2>1, <2>2 DEF AcceptStep, AcceptSocket, AcceptEnds, TrySend, TrySendFull,
                            TrySendDisconnected, AcceptFails, Counters
<1>3. accept' \in Sockets \cup {"loop", "done"} /\ backlog' \in Seq(Sockets)
  <2>1. CASE AcceptSocket
    BY <2>1 DEF AcceptSocket, ProxyTypeOK
  <2>2. CASE ~AcceptSocket
    BY <2>2 DEF ProxyTypeOK, AcceptStep, AcceptEnds, TrySend, TrySendFull,
                TrySendDisconnected, AcceptFails
  <2> QED BY <2>1, <2>2
<1>4. queue' \in Seq(Sockets)
  <2>1. CASE TrySend
    BY <2>1 DEF TrySend, ProxyTypeOK, Holding
  <2>2. CASE ~TrySend
    <3>1. queue' = queue
      BY <2>2 DEF AcceptStep, AcceptSocket, AcceptEnds, TrySendFull, TrySendDisconnected, AcceptFails
    <3> QED BY <3>1 DEF ProxyTypeOK
  <2> QED BY <2>1, <2>2
<1>5. socket' = socket \/ \E how \in {"queued", "rejected", "lost"} : socket' = [socket EXCEPT ![accept] = how]
  BY DEF AcceptStep, AcceptSocket, AcceptEnds, TrySend, TrySendFull, TrySendDisconnected, AcceptFails
<1> QED BY <1>1, <1>2, <1>3, <1>4, <1>5 DEF ProxyTypeOK, Counters

LEMMA WorkerTyped ==
    ASSUME ProxyTypeOK, ProxyIInv, NEW w \in Workers, WorkerStep(w)
    PROVE  ProxyTypeOK'
<1>1. /\ stats \in [Counters -> Nat] /\ queue \in Seq(Sockets)
      /\ UNCHANGED <<backlog, accept, shutdown, routes, promised>>
  BY DEF ProxyTypeOK, Counters, WorkerStep, Recv, RecvNothing, CheckFlag, LeaveOnFlag, ReadHeadFails,
         Resolve, Forward, JobEnds
<1>2. CASE Recv(w)
  <2>1. PICK c \in Sockets : c = Head(queue)
    BY <1>1, <1>2 DEF Recv
  <2>2. worker' = [worker EXCEPT ![w] = [at |-> "head", conn |-> c]]
        /\ queue' \in Seq(Sockets) /\ socket' = [socket EXCEPT ![c] = "inhand"] /\ UNCHANGED stats
    BY <1>1, <1>2, <2>1 DEF Recv, Moves
  <2>3. worker' \in [Workers -> [at : {"recv", "check", "head", "forward", "done"},
                                 conn : Sockets \cup {NoSocket}]]
    BY <2>2, MovesTyped
  <2> QED BY <1>1, <2>2, <2>3 DEF ProxyTypeOK
<1>3. CASE RecvNothing(w)
  BY <1>1, <1>3, MovesTyped DEF RecvNothing, Moves, ProxyTypeOK
<1>4. CASE CheckFlag(w)
  <2>1. worker' \in [Workers -> [at : {"recv", "check", "head", "forward", "done"},
                                 conn : Sockets \cup {NoSocket}]]
    BY <1>4, MovesTyped DEF CheckFlag, LeaveOnFlag, Moves, Gone
  <2>2. /\ queue' = queue \/ queue' = <<>>
        /\ socket' = socket \/ socket' = [c \in Sockets |-> IF Contains(queue, c) THEN "lost" ELSE socket[c]]
        /\ UNCHANGED stats
    BY <1>4 DEF CheckFlag, LeaveOnFlag
  <2>3. queue' \in Seq(Sockets)
    <3>1. <<>> \in Seq(Sockets)
      OBVIOUS
    <3> QED BY <1>1, <2>2, <3>1
  <2>4. socket' \in [Sockets -> {"none", "backlog", "queued", "inhand", "served", "errors",
                                 "rejected", "lost"}]
    BY <2>2 DEF ProxyTypeOK
  <2> QED BY <1>1, <2>1, <2>2, <2>3, <2>4 DEF ProxyTypeOK
<1>5. ASSUME NEW how \in {"served", "errors"}, worker[w].at \in {"head", "forward"},
             JobEnds(w, how)
      PROVE  ProxyTypeOK'
  <2>1. PICK c \in Sockets : c = worker[w].conn
    BY <1>5 DEF ProxyIInv, Waiting
  <2>2. /\ worker' = [worker EXCEPT ![w] = [at |-> "recv", conn |-> NoSocket]]
        /\ socket' = [socket EXCEPT ![c] = how] /\ UNCHANGED queue /\ Count(how)
    BY <1>5, <2>1 DEF JobEnds, AfterJob, Moves
  <2>3. worker' \in [Workers -> [at : {"recv", "check", "head", "forward", "done"},
                                 conn : Sockets \cup {NoSocket}]]
    BY <2>2, MovesTyped
  <2>4. stats' \in [Counters -> Nat]
    BY <1>1, <2>2, CountTyped DEF Counters
  <2>5. socket' \in [Sockets -> {"none", "backlog", "queued", "inhand", "served", "errors",
                                 "rejected", "lost"}]
    BY <2>2 DEF ProxyTypeOK
  <2> QED BY <1>1, <2>2, <2>3, <2>4, <2>5 DEF ProxyTypeOK, Counters
<1>6. CASE ReadHeadFails(w) \/ (\E h \in Hosts : Resolve(w, h) /\ h \notin routes) \/ Forward(w)
  <2>1. \E how \in {"served", "errors"} : JobEnds(w, how) /\ worker[w].at \in {"head", "forward"}
    BY <1>6 DEF ReadHeadFails, Resolve, Forward
  <2> QED BY <2>1, <1>5
<1>7. CASE \E h \in Hosts : Resolve(w, h) /\ h \in routes
  <2>1. PICK c \in Sockets \cup {NoSocket} : c = worker[w].conn
    BY DEF ProxyTypeOK
  <2>2. worker' = [worker EXCEPT ![w] = [at |-> "forward", conn |-> c]]
        /\ UNCHANGED <<socket, queue, stats>>
    BY <1>7, <2>1 DEF Resolve, Moves
  <2>3. worker' \in [Workers -> [at : {"recv", "check", "head", "forward", "done"},
                                 conn : Sockets \cup {NoSocket}]]
    BY <2>2, MovesTyped
  <2> QED BY <1>1, <2>2, <2>3 DEF ProxyTypeOK
<1> QED BY <1>2, <1>3, <1>4, <1>6, <1>7 DEF WorkerStep

LEMMA OutsideTyped ==
    ASSUME ProxyTypeOK,
           \/ \E c \in Sockets : SocketConnects(c)
           \/ \E h \in Hosts : Upsert(h) \/ RemoveRoute(h)
           \/ StopServer \/ UNCHANGED proxyVars
    PROVE  ProxyTypeOK'
<1>1. ASSUME NEW c \in Sockets, SocketConnects(c) PROVE ProxyTypeOK'
  BY <1>1 DEF SocketConnects, ProxyTypeOK
<1>2. CASE \E h \in Hosts : Upsert(h) \/ RemoveRoute(h)
  BY <1>2 DEF Upsert, RemoveRoute, ProxyTypeOK
<1>3. CASE StopServer
  <2>1. ToSet(queue) \subseteq Sockets
    BY DEF ProxyTypeOK, ToSet
  <2> QED BY <1>3, <2>1 DEF StopServer, ProxyTypeOK
<1>4. CASE UNCHANGED proxyVars
  BY <1>4 DEF proxyVars, ProxyTypeOK
<1> QED BY <1>1, <1>2, <1>3, <1>4

LEMMA ProxyStarts == ProxyInit => ProxyIInv /\ ProxyTypeOK
<1> SUFFICES ASSUME ProxyInit PROVE ProxyIInv /\ ProxyTypeOK
  OBVIOUS
<1>1. <<>> \in Seq(Sockets)
  OBVIOUS
<1>2. ProxyTyped
  <2>1. \A w \in Workers : worker[w].at = "recv"
    BY DEF ProxyInit, Idle
  <2> QED BY <1>1, <2>1 DEF ProxyInit, ProxyTyped
<1>3. Waiting /\ PromiseKept
  BY ProxyAssumption DEF ProxyInit, Waiting, PromiseKept, Idle, Holding
<1>4. stats \in [Counters -> Nat]
  BY DEF ProxyInit, Counters
<1>5. ProxyTypeOK
  BY <1>1, <1>4 DEF ProxyInit, ProxyTypeOK, Counters, Idle
<1> QED BY <1>2, <1>3, <1>5 DEF ProxyIInv

LEMMA ProxyInvariant == ProxySpec => [](ProxyIInv /\ ProxyTypeOK)
<1>1. ProxyIInv /\ ProxyTypeOK /\ [ProxyNext]_proxyVars => (ProxyIInv /\ ProxyTypeOK)'
  BY ProxyNextIInv, AcceptTyped, WorkerTyped, OutsideTyped DEF ProxyNext
<1> QED BY <1>1, ProxyStarts, PTL DEF ProxySpec

\* ThreadedProxyServer (open-runo-appserver/src/server.rs:19-127): a worker forwards a
\* connection it holds, and every other place, counter and host is of its type.
THEOREM ProxyIsTyped == ProxySpec => []ProxyTypeOK
BY ProxyInvariant, PTL

\* The worker threads (open-runo-appserver/src/server.rs:96-127): a connection queued when
\* stop() is called is never dropped with the queue, provided some worker was not
\* just between finding the queue empty and looking at the flag.
THEOREM QueueIsServed == ProxySpec => []QueuedAtStopServed
<1>1. ProxyIInv => QueuedAtStopServed
  BY DEF ProxyIInv, Waiting, QueuedAtStopServed
<1> QED BY <1>1, ProxyInvariant, PTL

-----------------------------------------------------------------------------
(* The ACME client *)

\* From its publication to its removal a token is up, whatever the authority says.
Published ==
    \A o \in Orders :
        order[o].method = "http-01" /\ order[o].at \in {"respond", "poll", "unpublish"}
            => o \in tokens

\* There is always a poll left until the call fails.
PollsLeft == \A o \in Orders : order[o].polls < MaxAttempts

AcmeIInv == AcmeTypeOK /\ Published /\ PollsLeft

LEMMA AcmeStep ==
    ASSUME AcmeIInv, NEW o \in Orders,
           \/ Start(o) \/ Discover(o) \/ NewAccount(o) \/ PlaceOrder(o) \/ GetAuthorization(o)
           \/ Publish(o) \/ RespondToChallenge(o) \/ Validate(o) \/ PollAuthorization(o)
           \/ Unpublish(o) \/ FinalizeOrder(o) \/ DownloadCertificate(o) \/ Returned(o)
    PROVE  AcmeIInv'
<1> USE AcmeAssumption DEF AcmeIInv
<1> DEFINE Stations == {"idle", "discover", "account", "order", "authorization", "publish",
                     "respond", "poll", "unpublish", "finalize", "download", "certificate",
                     "refusal", "failed"}
           OneCall == [at : Stations, method : {"http-01", "tls-alpn-01"}, polls : 0 .. MaxAttempts]
           Statuses == {"none", "pending", "told", "valid", "invalid"}
<1>1. NewOrder \in OneCall /\ order \in [Orders -> OneCall] /\ order[o] \in OneCall
  BY DEF AcmeTypeOK, NewOrder
<1>2. ASSUME NEW r \in OneCall, order' = [order EXCEPT ![o] = r], r.polls < MaxAttempts,
             authority' \in [Orders -> Statuses],
             tokens' \subseteq Orders, resolver' \in Orders \cup {Nobody},
             tokens \ {o} \subseteq tokens',
             r.method = "http-01" /\ r.at \in {"respond", "poll", "unpublish"} => o \in tokens'
      PROVE  AcmeIInv'
  <2>1. AcmeTypeOK'
    BY <1>1, <1>2 DEF AcmeTypeOK
  <2>2. \A p \in Orders : order'[p] = IF p = o THEN r ELSE order[p]
    BY <1>1, <1>2
  <2>3. Published'
    BY <1>2, <2>2 DEF Published
  <2>4. PollsLeft'
    BY <1>2, <2>2 DEF PollsLeft
  <2> QED BY <2>1, <2>3, <2>4
<1>3. ASSUME NEW place \in Stations, OrderGoes(o, place), UNCHANGED Challenges,
             authority' \in [Orders -> Statuses],
             place \in {"respond", "poll", "unpublish"} => order[o].at \in {"respond", "poll"}
      PROVE  AcmeIInv'
  <2> DEFINE r == [order[o] EXCEPT !.at = place]
  <2>1. r \in OneCall /\ r.at = place /\ r.method = order[o].method /\ r.polls < MaxAttempts
    BY <1>1 DEF PollsLeft
  <2>2. order' = [order EXCEPT ![o] = r]
    BY <1>3 DEF OrderGoes
  <2>3. tokens' \subseteq Orders /\ resolver' \in Orders \cup {Nobody} /\ tokens' = tokens
    BY <1>3 DEF Challenges, AcmeTypeOK
  <2> HIDE DEF r
  <2>4. r.method = "http-01" /\ r.at \in {"respond", "poll", "unpublish"} => o \in tokens'
    BY <1>3, <2>1, <2>3 DEF Published
  <2> QED BY <1>2, <1>3, <2>1, <2>2, <2>3, <2>4
<1>4. CASE Start(o)
  <2>1. PICK method \in {"http-01", "tls-alpn-01"} :
          order' = [order EXCEPT ![o] = [NewOrder EXCEPT !.at = "discover", !.method = method]]
    BY <1>4 DEF Start
  <2> DEFINE r == [NewOrder EXCEPT !.at = "discover", !.method = method]
  <2>2. r \in OneCall /\ r.at = "discover" /\ r.polls < MaxAttempts
    <3>1. NewOrder.polls = 0 /\ 0 < MaxAttempts
      BY DEF NewOrder
    <3>2. r \in OneCall
      BY <1>1
    <3>3. r.at = "discover" /\ r.polls = NewOrder.polls
      BY <1>1
    <3> QED BY <3>1, <3>2, <3>3
  <2>3. authority' \in [Orders -> Statuses] /\ UNCHANGED Challenges
    BY <1>4 DEF Start, AcmeTypeOK
  <2>4. order' = [order EXCEPT ![o] = r]
    BY <2>1
  <2> HIDE DEF r
  <2> QED BY <1>2, <2>2, <2>3, <2>4 DEF Challenges, AcmeTypeOK
<1>5. CASE \/ Discover(o) \/ NewAccount(o) \/ PlaceOrder(o) \/ GetAuthorization(o)
           \/ FinalizeOrder(o)
  <2>1. \E place \in Stations : OrderGoes(o, place) /\ place \notin {"respond", "poll", "unpublish"}
    BY <1>5 DEF Discover, NewAccount, PlaceOrder, GetAuthorization, FinalizeOrder, PostJws
  <2>2. UNCHANGED Challenges /\ authority' \in [Orders -> Statuses]
    BY <1>5 DEF Discover, NewAccount, PlaceOrder, GetAuthorization, FinalizeOrder, AcmeTypeOK
  <2> QED BY <1>3, <2>1, <2>2
<1>6. CASE Publish(o)
  <2> DEFINE r == [order[o] EXCEPT !.at = "respond"]
  <2>1. r \in OneCall /\ r.method = order[o].method /\ order' = [order EXCEPT ![o] = r]
        /\ r.polls < MaxAttempts
    BY <1>1, <1>6 DEF Publish, OrderGoes, PollsLeft
  <2>2. /\ authority' \in [Orders -> Statuses]
        /\ tokens' \subseteq Orders /\ resolver' \in Orders \cup {Nobody}
        /\ tokens \subseteq tokens' /\ (order[o].method = "http-01" => o \in tokens')
    BY <1>6 DEF Publish, AcmeTypeOK
  <2> HIDE DEF r
  <2> QED BY <1>2, <2>1, <2>2
<1>7. CASE RespondToChallenge(o)
  <2>1. /\ order[o].at = "respond" /\ UNCHANGED Challenges
        /\ \E place \in {"poll", "failed"} : OrderGoes(o, place)
        /\ authority' \in [Orders -> Statuses]
    BY <1>7 DEF RespondToChallenge, OrderAt, PostJws, AcmeTypeOK
  <2> QED BY <1>3, <2>1
<1>8. CASE Validate(o)
  BY <1>8 DEF Validate, Challenges, AcmeTypeOK, Published, PollsLeft
<1>9. CASE PollAuthorization(o)
  <2>1. order[o].at = "poll" /\ UNCHANGED Challenges /\ authority' \in [Orders -> Statuses]
    BY <1>9 DEF PollAuthorization, OrderAt, AcmeTypeOK
  <2>2. CASE \E place \in {"unpublish", "failed"} : OrderGoes(o, place)
    BY <1>3, <2>1, <2>2
  <2>3. CASE /\ order' = [order EXCEPT ![o].polls = @ + 1]
             /\ order[o].polls + 1 # MaxAttempts
    <3> DEFINE r == [order[o] EXCEPT !.polls = @ + 1]
    <3>1. order[o].polls \in Nat /\ order[o].polls + 1 < MaxAttempts
      BY <1>1, <2>3 DEF PollsLeft
    <3>2. r \in OneCall /\ r.at = "poll" /\ r.method = order[o].method /\ r.polls < MaxAttempts
      BY <1>1, <2>1, <3>1
    <3>3. order' = [order EXCEPT ![o] = r]
      BY <2>3
    <3>4. tokens' = tokens /\ tokens \subseteq Orders /\ resolver' \in Orders \cup {Nobody}
      BY <2>1 DEF Challenges, AcmeTypeOK
    <3>5. order[o].method = "http-01" => o \in tokens
      BY <2>1 DEF Published
    <3> HIDE DEF r
    <3> QED BY <1>2, <2>1, <3>2, <3>3, <3>4, <3>5
  <2> QED BY <1>9, <2>2, <2>3 DEF PollAuthorization, PostJws
<1>10. CASE Unpublish(o)
  <2> DEFINE r == [order[o] EXCEPT !.at = "finalize"]
  <2>1. r \in OneCall /\ r.at = "finalize" /\ order' = [order EXCEPT ![o] = r]
        /\ r.polls < MaxAttempts
    BY <1>1, <1>10 DEF Unpublish, OrderGoes, PollsLeft
  <2>2. /\ authority' \in [Orders -> Statuses]
        /\ tokens' \subseteq Orders /\ resolver' \in Orders \cup {Nobody}
        /\ tokens \ {o} \subseteq tokens'
    BY <1>10 DEF Unpublish, AcmeTypeOK
  <2> HIDE DEF r
  <2> QED BY <1>2, <2>1, <2>2
<1>11. CASE DownloadCertificate(o)
  <2>1. PICK place \in {"certificate", "refusal", "failed"} :
          order' = [order EXCEPT ![o] = [NewOrder EXCEPT !.at = place]]
    BY <1>11 DEF DownloadCertificate
  <2> DEFINE r == [NewOrder EXCEPT !.at = place]
  <2>2. r \in OneCall /\ r.at = place /\ r.polls < MaxAttempts
    BY <1>1 DEF NewOrder
  <2>3. authority' \in [Orders -> Statuses] /\ UNCHANGED Challenges
    BY <1>11 DEF DownloadCertificate, AcmeTypeOK
  <2>4. order' = [order EXCEPT ![o] = r]
    BY <2>1
  <2> HIDE DEF r
  <2> QED BY <1>2, <2>2, <2>3, <2>4 DEF Challenges, AcmeTypeOK
<1>12. CASE Returned(o)
  <2>1. order' = [order EXCEPT ![o] = NewOrder] /\ NewOrder.at = "idle"
        /\ NewOrder.polls < MaxAttempts
    BY <1>12 DEF Returned, NewOrder
  <2>2. /\ authority' \in [Orders -> Statuses]
        /\ tokens' \subseteq Orders /\ resolver' \in Orders \cup {Nobody}
        /\ tokens \ {o} \subseteq tokens'
    BY <1>12 DEF Returned, AcmeTypeOK
  <2> QED BY <1>1, <1>2, <2>1, <2>2
<1> QED BY <1>4, <1>5, <1>6, <1>7, <1>8, <1>9, <1>10, <1>11, <1>12

LEMMA AcmeInvariant == AcmeSpec => []AcmeIInv
<1>1. AcmeInit => AcmeIInv
  BY AcmeAssumption DEF AcmeInit, AcmeIInv, AcmeTypeOK, Published, PollsLeft, NewOrder
<1>2. ASSUME AcmeIInv, [AcmeNext]_acmeVars PROVE AcmeIInv'
  <2>1. CASE UNCHANGED acmeVars
    BY <1>2, <2>1 DEF acmeVars, AcmeIInv, AcmeTypeOK, Published, PollsLeft
  <2> QED BY <1>2, <2>1, AcmeStep DEF AcmeNext
<1> QED BY <1>1, <1>2, PTL DEF AcmeSpec

\* The places of a call, its polls (at most max_attempts) and what is published keep
\* their types.
THEOREM AcmeTyped == AcmeSpec => []AcmeTypeOK
<1>1. AcmeIInv => AcmeTypeOK
  BY DEF AcmeIInv
<1> QED BY <1>1, AcmeInvariant, PTL

\* obtain_certificate_http01 (open-runo-router/src/acme.rs:493-525): whatever other
\* calls publish, remove or fail, the token is there while the authority may ask.
THEOREM TokenStaysUp == AcmeSpec => []ChallengeStaysUp
<1>1. AcmeIInv => ChallengeStaysUp
  BY DEF AcmeIInv, Published, ChallengeStaysUp, Serves, OrderAt
<1> QED BY <1>1, AcmeInvariant, PTL

-----------------------------------------------------------------------------
(* Side by side *)

\* Whichever part moves, the others rest: each behaves as it does alone.
LEMMA ProcessesStep ==
    ASSUME [ProcessesNext]_allVars
    PROVE  /\ [ShutdownNext]_shutdownVars /\ [SupervisorNext]_supervisorVars
           /\ [ProxyNext]_proxyVars /\ [EventsNext]_eventsVars /\ [WebSocketNext]_wsVars
           /\ [AcmeNext]_acmeVars /\ [Next /\ TurnsTaken']_vars
<1>1. CASE UNCHANGED allVars
  BY <1>1 DEF allVars
<1>2. CASE ProcessesNext
  <2>1. OthersRest
    BY <1>2 DEF ProcessesNext
  <2>2. CASE part = "shutdown" /\ ShutdownNext
    BY <2>1, <2>2 DEF OthersRest
  <2>3. CASE part = "supervisor" /\ SupervisorNext
    BY <2>1, <2>3 DEF OthersRest
  <2>4. CASE part = "proxy" /\ ProxyNext
    BY <2>1, <2>4 DEF OthersRest
  <2>5. CASE part = "events" /\ EventsNext
    BY <2>1, <2>5 DEF OthersRest
  <2>6. CASE part = "websocket" /\ WebSocketNext
    BY <2>1, <2>6 DEF OthersRest
  <2>7. CASE part = "acme" /\ AcmeNext
    BY <2>1, <2>7 DEF OthersRest
  <2>8. CASE part = "turns" /\ Next /\ TurnsTaken'
    BY <2>1, <2>8 DEF OthersRest
  <2> QED BY <1>2, <2>2, <2>3, <2>4, <2>5, <2>6, <2>7, <2>8 DEF ProcessesNext
<1> QED BY <1>1, <1>2

LEMMA ProcessesBehave ==
    ProcessesSpec => /\ ShutdownSpec /\ SupervisorSpec /\ ProxySpec /\ EventsSpec
                     /\ WebSocketSpec /\ AcmeSpec /\ TurnSpec
<1>1. ProcessesInit => /\ ShutdownInit /\ SupervisorInit /\ ProxyInit /\ EventsInit
                       /\ WebSocketInit /\ AcmeInit /\ Init
  BY DEF ProcessesInit
<1>2. [ProcessesNext]_allVars =>
        /\ [ShutdownNext]_shutdownVars /\ [SupervisorNext]_supervisorVars
        /\ [ProxyNext]_proxyVars /\ [EventsNext]_eventsVars /\ [WebSocketNext]_wsVars
        /\ [AcmeNext]_acmeVars /\ [Next /\ TurnsTaken']_vars
  BY ProcessesStep
<1> QED BY <1>1, <1>2, PTL
           DEF ProcessesSpec, ShutdownSpec, SupervisorSpec, ProxySpec, EventsSpec, WebSocketSpec,
               AcmeSpec, TurnSpec

\* Every part that runs for as long as the process does keeps its types while the others
\* move: the drain (graceful.rs), the supervisor and the proxy (open-runo-appserver), the
\* events (schema_registry.rs), the echo (hyper_compat.rs), ACME (acme.rs) and the two
\* databases under callers that take turns (dual.rs).
THEOREM ProcessesTyped == ProcessesSpec => []ProcessesTypeOK
<1>1. TurnSpec => Spec
  <2>1. [Next /\ TurnsTaken']_vars => [Next]_vars
    OBVIOUS
  <2> QED BY <2>1, PTL DEF TurnSpec, Spec
<1>2. ShutdownTypeOK /\ SupervisorTypeOK /\ ProxyTypeOK /\ EventsTypeOK
        /\ WebSocketTypeOK /\ AcmeTypeOK /\ TypeOK => ProcessesTypeOK
  BY DEF ProcessesTypeOK
<1> QED BY <1>1, <1>2, ProcessesBehave, ShutdownTyped, SupervisorTyped, ProxyIsTyped, EventsTyped,
           SocketTyped, AcmeTyped, TypeCorrect, PTL
=============================================================================

----------------------------- MODULE Supervisor -----------------------------
(***************************************************************************)
(* Supervisor of open-runo-appserver (open-runo-appserver/src/lib.rs): one *)
(* child process, polled by tick(), restarted after an exponential backoff *)
(* and given up after max_rapid_failures.  Time is counted in steps of an  *)
(* arbitrary unit; `age` is what now - started gives at a poll, `pause`    *)
(* what is left of a backoff.                                              *)
(***************************************************************************)
EXTENDS Integers

CONSTANTS BaseBackoff, MaxBackoff, MaxRapid, HealthyAfter,   \* RestartPolicy
          MaxLost        \* bound: children the supervisor may lose sight of

ASSUME SupervisorAssumption ==
    /\ BaseBackoff \in Nat /\ MaxBackoff \in Nat /\ HealthyAfter \in Nat
    /\ MaxRapid \in Nat \ {0}
    /\ MaxLost \in Nat

VARIABLES
    proc,       \* ProcState: notstarted, running, backoff, gaveup, and dropped
    failures,   \* the counter carried by running, backoff and gaveup
    pause, age,
    child,      \* the process behind the handle: none, alive, dead (not reaped)
    astray,     \* processes alive without a handle
    blind,      \* history: try_wait calls that failed
    lived,      \* history: how long the child has really lived
    quick       \* history: failed starts and deaths before HealthyAfter, in a row
supervisorVars == <<proc, failures, pause, age, child, astray, blind, lived, quick>>

Shorter(a, b) == IF a < b THEN a ELSE b

Backoff(f) == Shorter(BaseBackoff * 2 ^ Shorter(f - 1, 16), MaxBackoff)

EnterBackoff(f) ==
    /\ proc' = "backoff" /\ failures' = f /\ pause' = Backoff(f)
    /\ child' = "none" /\ age' = 0

Failed == quick' = Shorter(quick + 1, MaxRapid)
Died == IF lived >= HealthyAfter THEN quick' = 0 ELSE Failed

\* spawn(): a second process beside one that still runs would go astray.
Spawn(prior) ==
    \/ /\ proc' = "running" /\ failures' = prior /\ pause' = 0
       /\ child' = "alive" /\ age' = 0 /\ lived' = 0
       /\ astray' = astray + (IF child = "alive" THEN 1 ELSE 0)
       /\ UNCHANGED <<blind, quick>>
    \/ /\ EnterBackoff(prior + 1) /\ Failed
       /\ UNCHANGED <<astray, blind, lived>>
-----------------------------------------------------------------------------
(* tick(), by the state it finds; a poll that finds the child up, or a     *)
(* backoff that is not over, changes nothing.                              *)

TickFirst == proc = "notstarted" /\ Spawn(0)

CountFromZero(prior) ==                                  \* mutant
    IF age >= HealthyAfter THEN MaxRapid ELSE prior + 1
Counted(prior) == IF age >= HealthyAfter THEN 1 ELSE prior + 1

TickReap ==
    /\ proc = "running" /\ child = "dead"
    /\ EnterBackoff(Counted(failures)) /\ Died
    /\ UNCHANGED <<astray, blind, lived>>

\* try_wait fails: the handle is dropped, which leaves the process running.
TickBlind ==
    /\ proc = "running" /\ blind < MaxLost
    /\ EnterBackoff(failures + 1) /\ Failed
    /\ blind' = blind + 1
    /\ astray' = astray + (IF child = "alive" THEN 1 ELSE 0)
    /\ UNCHANGED lived

TickGiveUp ==
    /\ proc = "backoff" /\ failures >= MaxRapid
    /\ proc' = "gaveup"
    /\ UNCHANGED <<failures, pause, age, child, astray, blind, lived, quick>>

TickAgainEarly ==                                        \* mutant
    /\ proc = "backoff" /\ failures < MaxRapid
    /\ \/ pause = 0 /\ Spawn(failures)
       \/ pause > 0 /\ EnterBackoff(failures) /\ UNCHANGED <<astray, blind, lived, quick>>
TickAgain ==
    /\ proc = "backoff" /\ failures < MaxRapid /\ pause = 0
    /\ Spawn(failures)

SupervisorTick == TickFirst \/ TickReap \/ TickBlind \/ TickGiveUp \/ TickAgain
-----------------------------------------------------------------------------
(* stop(), reset() and drop, and the world outside. *)

\* kill and wait: the exit status is kept for the next poll to find.
Killed == IF proc = "running" THEN "dead" ELSE child

Stop ==
    /\ proc = "running" /\ child = "alive"
    /\ child' = Killed
    /\ UNCHANGED <<proc, failures, pause, age, astray, blind, lived, quick>>

ResetWithoutStop ==                                      \* mutant
    /\ proc \notin {"notstarted", "dropped"}
    /\ proc' = "notstarted" /\ failures' = 0 /\ pause' = 0 /\ age' = 0
    /\ child' = "none" /\ quick' = 0
    /\ astray' = astray + (IF child = "alive" THEN 1 ELSE 0)
    /\ UNCHANGED <<blind, lived>>
Reset ==
    /\ proc \notin {"notstarted", "dropped"}
    /\ proc' = "notstarted" /\ failures' = 0 /\ pause' = 0 /\ age' = 0
    /\ child' = "none" /\ quick' = 0
    /\ astray' = astray + (IF Killed = "alive" THEN 1 ELSE 0)
    /\ UNCHANGED <<blind, lived>>

DropSupervisor ==
    /\ proc # "dropped"
    /\ proc' = "dropped" /\ child' = "none"
    /\ astray' = astray + (IF Killed = "alive" THEN 1 ELSE 0)
    /\ UNCHANGED <<failures, pause, age, blind, lived, quick>>

ChildExits ==
    /\ child = "alive" /\ child' = "dead"
    /\ UNCHANGED <<proc, failures, pause, age, astray, blind, lived, quick>>

Elapse ==
    /\ \/ proc = "running" /\ age < HealthyAfter
       \/ proc = "backoff" /\ pause > 0
    /\ age' = IF proc = "running" THEN age + 1 ELSE age
    /\ lived' = IF child = "alive" THEN age + 1 ELSE lived
    /\ pause' = IF proc = "backoff" THEN pause - 1 ELSE pause
    /\ UNCHANGED <<proc, failures, child, astray, blind, quick>>

SupervisorInit ==
    /\ proc = "notstarted" /\ failures = 0 /\ pause = 0 /\ age = 0
    /\ child = "none" /\ astray = 0 /\ blind = 0 /\ lived = 0 /\ quick = 0

SupervisorNext == SupervisorTick \/ Stop \/ Reset \/ DropSupervisor \/ ChildExits \/ Elapse

\* The caller polls (doc comment of Supervisor), and time passes.
SupervisorFair ==
    WF_supervisorVars(SupervisorTick) /\ WF_supervisorVars(Elapse)

SupervisorSpec == SupervisorInit /\ [][SupervisorNext]_supervisorVars
-----------------------------------------------------------------------------
SupervisorTypeOK ==
    /\ proc \in {"notstarted", "running", "backoff", "gaveup", "dropped"}
    /\ failures \in 0 .. MaxRapid
    /\ pause \in 0 .. MaxBackoff
    /\ age \in 0 .. HealthyAfter /\ lived \in 0 .. HealthyAfter
    /\ child \in {"none", "alive", "dead"}
    /\ astray \in Nat /\ blind \in 0 .. MaxLost
    /\ quick \in 0 .. MaxRapid

\* No process outlives the supervisor's knowledge of it, through stops, resets,
\* restarts and drop, except one whose try_wait failed.
OneChild ==
    /\ astray <= blind
    /\ child = "alive" => proc = "running"

\* A supervisor gives up only after at least MaxRapid - 1 quick deaths in a row
\* (a death after a healthy run counts as the first failure, lib.rs:208), however
\* late the polls see the deaths.
GiveUpIsEarned == proc = "gaveup" => quick >= MaxRapid - 1

\* The supervisor has its child in hand: it loses none, and does not give it up early.
ChildIsKept == OneChild /\ GiveUpIsEarned

\* A polled supervisor never stays in one backoff: it has a child again, has
\* given up, or was reset.
BackoffEnds == []<>(proc # "backoff")
=============================================================================

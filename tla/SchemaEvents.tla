---------------------------- MODULE SchemaEvents ----------------------------
(***************************************************************************)
(* A schema version from its registration to those who follow it: the      *)
(* three registering handlers (handlers_hyper.rs), SchemaRegistry, the     *)
(* broadcast broker of AppState (state.rs) with its WebSocket and GraphQL  *)
(* subscribers, the Redis bridge (edfs.rs), and the SSE stream over the    *)
(* change history.  One service in one namespace: others share nothing.    *)
(* Subscribers fetch the schema when they hear of it.                      *)
(***************************************************************************)
EXTENDS Integers, Sequences

CONSTANTS Registrars, Subscribers, Stages,
          Capacity,                 \* EVENT_CAPACITY
          MaxVersions, MaxEvents,   \* bounds: registrations, events on the broker
          MaxInstant,               \* bound: the clock
          MaxCommits                \* bound: changes committed to the history

ASSUME EventsAssumption ==
    /\ Capacity \in Nat \ {0}
    /\ {MaxVersions, MaxEvents, MaxInstant, MaxCommits} \subseteq Nat

VARIABLES
    topic,      \* what the behaviour is about: schemas or history, which share nothing
    versions,   \* the registry, in order of registration: [stage, created_at]
    wallclock,
    registrar,  \* per call: its place, the version it registered
    events,     \* everything ever sent on the broker: version numbers, 0 for remote ones
    link, bridge, \* messages on their way from Redis; is the bridge task running?
    subscriber, \* its place in events, the last news, what it fetched on it
    commits, polled             \* the length of the change history; what SSE last told
eventsVars == <<topic, versions, wallclock, registrar, events, link, bridge, subscriber,
                commits, polled>>
registry == <<versions, wallclock>>
broker == <<events, link, bridge>>
stream == <<topic, commits, polled>>

News == Len(events)
Off == [open |-> FALSE, pos |-> 0, heard |-> 0, fetched |-> 0]
-----------------------------------------------------------------------------
(* SchemaRegistry *)

OfStage(s) == {n \in DOMAIN versions : versions[n].stage = s}
LatestInFirstOfTies(s) ==                                \* mutant
    CHOOSE n \in OfStage(s) : \A m \in OfStage(s) :
        \/ versions[m].at < versions[n].at
        \/ versions[m].at = versions[n].at /\ m >= n
\* max_by_key returns the last of several maxima.
LatestIn(s) ==
    CHOOSE n \in OfStage(s) : \A m \in OfStage(s) :
        \/ versions[m].at < versions[n].at
        \/ versions[m].at = versions[n].at /\ m <= n

RegisterIn(s) == versions' = Append(versions, [stage |-> s, at |-> wallclock])

\* The clock may stand still between two registrations.
Wallclock ==
    /\ wallclock < MaxInstant /\ wallclock' = wallclock + 1
    /\ UNCHANGED <<versions, registrar, broker, subscriber, stream>>
-----------------------------------------------------------------------------
(* register_schema_and_respond, after any of the three request formats *)

\* A JSON, multipart or raw body that authenticates and reads; the others end.
Called(r) ==
    /\ topic = "schemas" /\ registrar[r].at = "idle"
    /\ Len(versions) < MaxVersions

Register(r) ==
    /\ Called(r)
    /\ \E s \in Stages : RegisterIn(s)
    /\ registrar' = [registrar EXCEPT ![r] = [at |-> "audit", version |-> Len(versions) + 1]]
    /\ UNCHANGED <<wallclock, broker, subscriber, stream>>

AuditRegistered(r) ==
    /\ registrar[r].at = "audit"
    /\ registrar' = [registrar EXCEPT ![r].at = "send"]
    /\ UNCHANGED <<registry, broker, subscriber, stream>>

SendNews(r) ==
    /\ registrar[r].at = "send" /\ News < MaxEvents
    /\ events' = Append(events, registrar[r].version)
    /\ registrar' = [registrar EXCEPT ![r].at = "publish"]
    /\ UNCHANGED <<registry, link, bridge, subscriber, stream>>

\* Redis delivers to every subscribed bridge, this process's own included; a
\* publish that fails, or an EDFS that is off, only ends the call.
PublishNews(r) ==
    /\ registrar[r].at = "publish"
    /\ link' \in {link} \cup (IF bridge THEN {Append(link, registrar[r].version)} ELSE {})
    /\ registrar' = [registrar EXCEPT ![r] = [at |-> "idle", version |-> 0]]
    /\ UNCHANGED <<registry, events, bridge, subscriber, stream>>

\* The client hangs up while the handler awaits the audit log or Redis.
LeaveStream(r) ==
    /\ registrar[r].at \in {"audit", "publish"}
    /\ registrar' = [registrar EXCEPT ![r] = [at |-> "idle", version |-> 0]]
    /\ UNCHANGED <<registry, broker, subscriber, stream>>
-----------------------------------------------------------------------------
(* spawn_bridge *)

\* Another instance publishes; a payload that does not decode is dropped.
RemoteNews ==
    /\ topic = "schemas" /\ bridge /\ Len(link) < 1
    /\ link' = Append(link, 0)
    /\ UNCHANGED <<registry, registrar, events, bridge, subscriber, stream>>

Forwards ==
    /\ bridge /\ link # <<>> /\ link' = Tail(link)
    /\ \/ News < MaxEvents /\ events' = Append(events, Head(link))
       \/ Head(link) = 0 /\ UNCHANGED events
    /\ UNCHANGED <<registry, registrar, bridge, subscriber, stream>>

\* The connection breaks: the stream and with it the task end, for good.
BridgeEnds ==
    /\ bridge /\ bridge' = FALSE /\ link' = <<>>
    /\ UNCHANGED <<registry, registrar, events, subscriber, stream>>
-----------------------------------------------------------------------------
(* ws_events_handler and SubscriptionRoot.schema_events *)

Subscribe(s) ==
    /\ topic = "schemas" /\ ~subscriber[s].open
    /\ subscriber' = [subscriber EXCEPT ![s] = [Off EXCEPT !.open = TRUE, !.pos = News]]
    /\ UNCHANGED <<registry, registrar, broker, stream>>

Oldest == IF News > Capacity THEN News - Capacity ELSE 0

SkipToEnd(s) == News                                     \* mutant
\* Lagged(n): the receiver goes on at the oldest event the broker still has.
SkipTo(s) == Oldest

Hear(s) ==
    /\ subscriber[s].open /\ subscriber[s].pos < News
    /\ subscriber' = IF subscriber[s].pos < Oldest
                     THEN [subscriber EXCEPT ![s].pos = SkipTo(s)]
                     ELSE [subscriber EXCEPT ![s].pos = @ + 1, ![s].fetched = 0,
                                             ![s].heard = events[subscriber[s].pos + 1]]
    /\ UNCHANGED <<registry, registrar, broker, stream>>

\* get_schema_handler, or the query `schema`, for the stage the news is about.
GetSchema(s) ==
    /\ subscriber[s].heard \in DOMAIN versions /\ subscriber[s].fetched = 0
    /\ subscriber' = [subscriber EXCEPT ![s].fetched =
                         LatestIn(versions[subscriber[s].heard].stage)]
    /\ UNCHANGED <<registry, registrar, broker, stream>>

\* Sending fails, or the client closes.
Unsubscribe(s) ==
    /\ subscriber[s].open
    /\ subscriber' = [subscriber EXCEPT ![s] = Off]
    /\ UNCHANGED <<registry, registrar, broker, stream>>
-----------------------------------------------------------------------------
(* stream_events_handler, polling the history that others commit to *)

CommitChange ==
    /\ topic = "history" /\ commits < MaxCommits /\ commits' = commits + 1
    /\ UNCHANGED <<registry, registrar, broker, subscriber, topic, polled>>

\* A change is announced once, with the new length; otherwise a heartbeat.
Poll ==
    /\ polled < commits /\ polled' = commits
    /\ UNCHANGED <<registry, registrar, broker, subscriber, topic, commits>>
-----------------------------------------------------------------------------
EventsInit ==
    /\ topic \in {"schemas", "history"}
    /\ versions = <<>> /\ wallclock = 0
    /\ registrar = [r \in Registrars |-> [at |-> "idle", version |-> 0]]
    /\ events = <<>> /\ link = <<>> /\ bridge \in BOOLEAN
    /\ subscriber = [s \in Subscribers |-> Off]
    /\ commits = 0 /\ polled = 0

Registering(r) == AuditRegistered(r) \/ SendNews(r) \/ PublishNews(r)

EventsNext ==
    \/ \E r \in Registrars : Register(r) \/ Registering(r) \/ LeaveStream(r)
    \/ RemoteNews \/ Forwards \/ BridgeEnds \/ Wallclock
    \/ \E s \in Subscribers : Subscribe(s) \/ Hear(s) \/ GetSchema(s) \/ Unsubscribe(s)
    \/ CommitChange \/ Poll

\* Receivers are polled while there is news, the SSE timer fires.
EventsFair ==
    /\ \A s \in Subscribers : WF_eventsVars(Hear(s))
    /\ WF_eventsVars(Poll)

EventsSpec == EventsInit /\ [][EventsNext]_eventsVars
-----------------------------------------------------------------------------
EventsTypeOK ==
    /\ topic \in {"schemas", "history"}
    /\ \A n \in DOMAIN versions :
          versions[n].stage \in Stages /\ versions[n].at \in 0 .. wallclock
    /\ wallclock \in 0 .. MaxInstant
    /\ registrar \in [Registrars -> [at : {"idle", "audit", "send", "publish"},
                                     version : 0 .. MaxVersions]]
    /\ \A n \in DOMAIN events : events[n] \in 0 .. Len(versions)
    /\ \A n \in DOMAIN link : link[n] \in 0 .. Len(versions)
    /\ bridge \in BOOLEAN
    /\ subscriber \in [Subscribers -> [open : BOOLEAN, pos : 0 .. News,
                                       heard : 0 .. MaxVersions, fetched : 0 .. MaxVersions]]
    /\ commits \in 0 .. MaxCommits /\ polled \in 0 .. commits

\* Whoever hears of a version and fetches the schema of its stage gets that version
\* or a later one: the news never runs ahead of the registry, also when it comes
\* twice (over the bridge), late, or two versions have the same created_at.
NewsIsReadable ==
    \A s \in Subscribers : subscriber[s].fetched # 0 => subscriber[s].fetched >= subscriber[s].heard

LastNews == IF News = 0 THEN 0 ELSE events[News]

\* However far a subscriber falls behind, skipping what the broker has dropped, it
\* comes to hear the last news, or leaves; and the SSE stream to tell the history's
\* length.
LastNewsArrives ==
    /\ \A s \in Subscribers :
          (subscriber[s].open /\ subscriber[s].pos < News)
             ~> (~subscriber[s].open \/ subscriber[s].heard = LastNews)
    /\ []<>(polled = commits)
=============================================================================

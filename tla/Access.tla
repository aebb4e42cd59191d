------------------------------- MODULE Access -------------------------------
(***************************************************************************)
(* Who a request speaks for: KeyGuardian::verify and issue (keyring.rs),   *)
(* the cookie sessions (session.rs) and authenticate_with_session          *)
(* (auth_hyper.rs).  One process is modelled; the api_keys table is shared *)
(* with other instances.  The ratio that quarantines a key is a choice:    *)
(* what the floating point averages say is not modelled.                   *)
(***************************************************************************)
EXTENDS Integers, FiniteSets

CONSTANTS Callers, KeyIds,
          Life, SessionTtl, Cooldown,     \* expires_at, SESSION_TTL_HOURS, cooldown
          Warmup,                         \* warmup_requests
          Bedtime                         \* bound: the clock stops here

ASSUME AccessAssumption ==
    /\ {Life, SessionTtl, Cooldown} \subseteq Nat \ {0}
    /\ Warmup \in Nat /\ Bedtime \in Nat
    /\ KeyIds # {}

VARIABLES
    time,
    apiKeys,       \* the table: [revoked, expires] per stored key, <<>> for none
    knownNonempty, \* of this process
    issuing,       \* is an issue() of this process between the row and the flag?
    usage,         \* per key: requests, last_seen (-1 for none), suspended_until (0 for none)
    sessions,      \* per key it was opened with: expires_at, 0 for none
    caller,        \* the requests: where they are and what they were given
    seen,          \* history: this process has met a key
    sentence       \* history: the latest end of a quarantine, per key
accessVars == <<time, apiKeys, knownNonempty, issuing, usage, sessions, caller, seen, sentence>>
table == <<apiKeys, sessions>>
memory == <<knownNonempty, issuing, usage>>
past == <<seen, sentence>>

NoUsage == [requests |-> 0, last |-> -1, until |-> 0]
Resting == [at |-> "rest", key |-> CHOOSE k \in KeyIds : TRUE, now |-> 0,
            login |-> FALSE, knew |-> FALSE]

CallerAt(c, place) == caller[c].at = place
Moves(c, place) == caller' = [caller EXCEPT ![c].at = place]
Ends(c, answer) ==
    caller' = [caller EXCEPT ![c] =
        [Resting EXCEPT !.at = answer, !.knew = answer = "dev" /\ caller[c].knew]]
-----------------------------------------------------------------------------
(* verify(key, Utc::now()), from authenticate_with_session, check_api_key  *)
(* and session_login_handler                                               *)

PresentKey(c) ==
    /\ CallerAt(c, "rest")
    /\ \E k \in KeyIds, login \in BOOLEAN :
          caller' = [caller EXCEPT ![c] =
              [at |-> IF knownNonempty THEN "get" ELSE "list", key |-> k,
               now |-> time, login |-> login, knew |-> seen]]
    /\ UNCHANGED <<time, table, memory, past>>

\* The caller gets the identity, or goes on to open a session with it.
Passes(c, as) == IF caller[c].login THEN Moves(c, "create") ELSE Ends(c, as)

\* An empty registry, or one that cannot be read, lets everyone in as "dev".
ListKeysForgets(c) ==                                    \* mutant
    /\ CallerAt(c, "list")
    /\ \/ /\ \E k \in KeyIds : apiKeys[k] # <<>>
          /\ Moves(c, "get") /\ seen' = TRUE
       \/ Passes(c, "dev") /\ UNCHANGED seen
    /\ UNCHANGED <<time, table, memory, sentence>>
ListKeys(c) ==
    /\ CallerAt(c, "list")
    /\ \/ /\ \E k \in KeyIds : apiKeys[k] # <<>>
          /\ Moves(c, "get") /\ knownNonempty' = TRUE /\ seen' = TRUE
       \/ Passes(c, "dev") /\ UNCHANGED <<knownNonempty, seen>>
    /\ UNCHANGED <<time, table, issuing, usage, sentence>>

\* Unknown, revoked or unreadable: rejected; expired: removed on sight first.
GetKey(c) ==
    /\ CallerAt(c, "get")
    /\ LET row == apiKeys[caller[c].key]
       IN \/ Ends(c, "rejected")
          \/ /\ row # <<>> /\ ~row.revoked
             /\ Moves(c, IF caller[c].now >= row.expires THEN "clean" ELSE "learn")
    /\ UNCHANGED <<time, table, memory, past>>

CleanKey(c) ==
    /\ CallerAt(c, "clean")
    /\ \/ apiKeys' = [apiKeys EXCEPT ![caller[c].key] = <<>>]
       \/ UNCHANGED apiKeys                             \* the delete fails
    /\ Ends(c, "rejected")
    /\ UNCHANGED <<time, sessions, memory, past>>

QuarantinedOnce(u, now) == now < u.until /\ u.last >= now    \* mutant
Quarantined(u, now) == now < u.until

\* The usage lock, with the caller's own (perhaps old) now.  A gap can only be
\* anomalous after the warm-up and if it is not zero.
Learn(c) ==
    LET k == caller[c].key  u == usage[k]  now == caller[c].now
    IN /\ CallerAt(c, "learn")
       /\ IF Quarantined(u, now)
          THEN Ends(c, "suspended") /\ UNCHANGED <<usage, sentence>>
          ELSE \/ /\ u.requests >= Warmup /\ u.last >= 0 /\ now > u.last
                  /\ usage' = [usage EXCEPT ![k].until = now + Cooldown]
                  /\ sentence' = [sentence EXCEPT ![k] = now + Cooldown]
                  /\ Ends(c, "suspended")
               \/ /\ usage' = [usage EXCEPT ![k] =
                      [requests |-> IF @.requests < Warmup THEN @.requests + 1 ELSE Warmup,
                       last |-> now, until |-> 0]]
                  /\ Passes(c, "ok") /\ UNCHANGED sentence
       /\ UNCHANGED <<time, table, knownNonempty, issuing, seen>>
-----------------------------------------------------------------------------
(* Sessions *)

\* The new session expires SessionTtl after it is stored; a Redis store that
\* cannot be written loses it, and the login is answered all the same.
CreateSession(c) ==
    /\ CallerAt(c, "create")
    /\ \/ sessions' = [sessions EXCEPT ![caller[c].key] = time + SessionTtl]
       \/ UNCHANGED sessions
    /\ Ends(c, "ok")
    /\ UNCHANGED <<time, apiKeys, memory, past>>

\* A request with the cookie: an expired session is evicted, a state-changing
\* request without the session's CSRF token refused.
PresentCookie(c) ==
    /\ CallerAt(c, "rest")
    /\ \E k \in KeyIds, changing, token \in BOOLEAN :
          LET live == sessions[k] > time
          IN /\ sessions' = [sessions EXCEPT ![k] = IF live THEN @ ELSE 0]
             /\ caller' = [caller EXCEPT ![c].at =
                   IF ~live THEN "rejected"
                   ELSE IF changing /\ ~token THEN "forbidden" ELSE "ok"]
    /\ UNCHANGED <<time, apiKeys, memory, past>>

Logout(k) ==
    /\ sessions[k] # 0
    /\ sessions' = [sessions EXCEPT ![k] = 0]
    /\ UNCHANGED <<time, apiKeys, memory, caller, past>>
-----------------------------------------------------------------------------
(* Keys come and go; the process restarts. *)

\* issue() writes the row, then sets the flag; another instance only writes.
GrantKey(k) ==
    /\ apiKeys[k] = <<>>
    /\ apiKeys' = [apiKeys EXCEPT ![k] = [revoked |-> FALSE, expires |-> time + Life]]
    /\ issuing' \in {TRUE, issuing}
    /\ UNCHANGED <<time, sessions, knownNonempty, usage, caller, past>>

NoteIssued ==
    /\ issuing
    /\ issuing' = FALSE /\ knownNonempty' = TRUE /\ seen' = TRUE
    /\ UNCHANGED <<time, table, usage, caller, sentence>>

RevokeKey(k) ==
    /\ apiKeys[k] # <<>> /\ ~apiKeys[k].revoked
    /\ apiKeys' = [apiKeys EXCEPT ![k].revoked = TRUE]
    /\ UNCHANGED <<time, sessions, memory, caller, past>>

\* What the process had learned is gone, and so are its in-memory sessions.
RestartProcess ==
    /\ knownNonempty' = FALSE /\ issuing' = FALSE /\ usage' = [k \in KeyIds |-> NoUsage]
    /\ sessions' = [k \in KeyIds |-> 0]
    /\ caller' = [c \in Callers |-> Resting]
    /\ seen' = FALSE /\ sentence' = [k \in KeyIds |-> 0]
    /\ UNCHANGED <<time, apiKeys>>

\* The answered caller comes again.
AskAgain(c) ==
    /\ caller[c].at \in {"dev", "ok", "rejected", "suspended", "forbidden"}
    /\ caller' = [caller EXCEPT ![c] = Resting]
    /\ UNCHANGED <<time, table, memory, past>>

Later ==
    /\ time < Bedtime /\ time' = time + 1
    /\ UNCHANGED <<table, memory, caller, past>>

AccessInit ==
    /\ time = 0 /\ apiKeys = [k \in KeyIds |-> <<>>]
    /\ knownNonempty = FALSE /\ issuing = FALSE /\ usage = [k \in KeyIds |-> NoUsage]
    /\ sessions = [k \in KeyIds |-> 0]
    /\ caller = [c \in Callers |-> Resting]
    /\ seen = FALSE /\ sentence = [k \in KeyIds |-> 0]

AccessNext ==
    \/ \E c \in Callers :
          \/ PresentKey(c) \/ ListKeys(c) \/ GetKey(c) \/ CleanKey(c) \/ Learn(c)
          \/ CreateSession(c) \/ PresentCookie(c) \/ AskAgain(c)
    \/ \E k \in KeyIds : GrantKey(k) \/ RevokeKey(k) \/ Logout(k)
    \/ NoteIssued \/ RestartProcess \/ Later

AccessSpec == AccessInit /\ [][AccessNext]_accessVars
-----------------------------------------------------------------------------
Stops == {"rest", "list", "get", "clean", "learn", "create",
          "dev", "ok", "rejected", "suspended", "forbidden"}

AccessTypeOK ==
    /\ time \in 0 .. Bedtime
    /\ apiKeys \in [KeyIds -> {<<>>} \cup [revoked : BOOLEAN, expires : Nat]]
    /\ {knownNonempty, issuing, seen} \subseteq BOOLEAN
    /\ usage \in [KeyIds -> [requests : 0 .. Warmup, last : -1 .. Bedtime, until : Nat]]
    /\ sessions \in [KeyIds -> Nat] /\ sentence \in [KeyIds -> Nat]
    /\ caller \in [Callers -> [at : Stops, key : KeyIds, now : 0 .. Bedtime,
                               login : BOOLEAN, knew : BOOLEAN]]

\* A process that has met a key (issued it, or found it when it looked) never
\* treats a later request as the permissive dev mode, though every key may expire
\* and be cleaned from the table meanwhile.
ClosedStaysClosed == \A c \in Callers : caller[c].knew => ~CallerAt(c, "dev")

\* A quarantined key is let in again only after its cooldown is over by the real
\* clock, however old the now of the request is that finds it.
QuarantineHolds ==
    [][\A c \in Callers :
          CallerAt(c, "learn") /\ caller'[c].at \in {"ok", "create"}
             => time >= sentence[caller[c].key]]_accessVars
=============================================================================

----------------------------- MODULE AccessProofs ---------------------------
(***************************************************************************)
(* Who may call, and what the calls do, for any callers, keys, lifetimes   *)
(* and clock. Access: its types, that a process which knows a key does not *)
(* fall back to the permissive mode, and that a quarantine lasts.          *)
(* AdminCalls: that one deletion of a flag wins. ApiClient: that a call is *)
(* tried again with a key of its own. AdminPages: that no page stays shut. *)
(***************************************************************************)
EXTENDS Access, AdminCalls, ApiClient, AdminPages, FiniteSetTheorems, TLAPS

-----------------------------------------------------------------------------
(* Access *)

\* Whoever looks at the whole registry came before the process had met a key.
FirstMeeting ==
    /\ seen => knownNonempty
    /\ \A c \in Callers : caller[c].at \in {"list", "dev"} => ~caller[c].knew

\* The sentence in force is the one passed last, or it has been served; nobody
\* brings a now from the future.
SentenceServed ==
    /\ \A k \in KeyIds : \/ usage[k].until = sentence[k]
                         \/ usage[k].until = 0 /\ sentence[k] <= time
    /\ \A c \in Callers : caller[c].now <= time

IInv == AccessTypeOK /\ FirstMeeting /\ SentenceServed

\* What is assumed of each constant by itself.
LEMMA Durations ==
    /\ Life \in Nat /\ SessionTtl \in Nat /\ Cooldown \in Nat
    /\ Warmup \in Nat /\ Bedtime \in Nat
<1>1. {Life, SessionTtl, Cooldown} \subseteq Nat
  BY AccessAssumption
<1> QED BY <1>1, AccessAssumption

\* A fresh caller has a key to present.
LEMMA RestingTyped ==
    Resting \in [at : Stops, key : KeyIds, now : 0 .. Bedtime, login : BOOLEAN, knew : BOOLEAN]
BY AccessAssumption, Durations DEF Resting, Stops

LEMMA InitIInv == AccessInit => IInv
<1> SUFFICES ASSUME AccessInit PROVE IInv
  OBVIOUS
<1>1. /\ usage \in [KeyIds -> [requests : 0 .. Warmup, last : -1 .. Bedtime, until : Nat]]
      /\ sessions \in [KeyIds -> Nat] /\ sentence \in [KeyIds -> Nat]
      /\ time \in 0 .. Bedtime
  BY Durations DEF AccessInit, NoUsage
<1>2. apiKeys \in [KeyIds -> {<<>>} \cup [revoked : BOOLEAN, expires : Nat]]
  BY DEF AccessInit
<1>3. {knownNonempty, issuing, seen} \subseteq BOOLEAN
  BY DEF AccessInit
<1>4. \A c \in Callers : caller[c] = Resting
  BY DEF AccessInit
<1>5. FirstMeeting /\ SentenceServed
  BY <1>4 DEF AccessInit, FirstMeeting, SentenceServed, Resting, NoUsage
<1> QED BY <1>1, <1>2, <1>3, <1>5, RestingTyped DEF IInv, AccessTypeOK, AccessInit

\* What every step of one caller does to the callers: it replaces that one by a
\* well typed record that is at the registry, or in dev mode, only with reason.
LEMMA CallerReplaced ==
    ASSUME IInv, NEW c \in Callers,
           NEW r \in [at : Stops, key : KeyIds, now : 0 .. Bedtime, login : BOOLEAN,
                      knew : BOOLEAN],
           caller' = [caller EXCEPT ![c] = r],
           r.at \in {"list", "dev"} => ~r.knew,
           r.now <= time, time' = time,
           seen' => knownNonempty'
    PROVE  /\ caller' \in [Callers -> [at : Stops, key : KeyIds, now : 0 .. Bedtime,
                                       login : BOOLEAN, knew : BOOLEAN]]
           /\ FirstMeeting'
           /\ \A d \in Callers : caller'[d].now <= time'
BY DEF IInv, AccessTypeOK, FirstMeeting, SentenceServed

\* The two ways a request goes on: to an answer, or to another place.
LEMMA Answered ==
    ASSUME IInv, NEW c \in Callers, NEW answer \in Stops \ {"list"}, Ends(c, answer),
           answer = "dev" => ~caller[c].knew,
           time' = time, seen' => knownNonempty'
    PROVE  /\ caller' \in [Callers -> [at : Stops, key : KeyIds, now : 0 .. Bedtime,
                                       login : BOOLEAN, knew : BOOLEAN]]
           /\ FirstMeeting'
           /\ \A d \in Callers : caller'[d].now <= time'
<1> DEFINE r == [Resting EXCEPT !.at = answer, !.knew = answer = "dev" /\ caller[c].knew]
<1>1. r \in [at : Stops, key : KeyIds, now : 0 .. Bedtime, login : BOOLEAN, knew : BOOLEAN]
  BY RestingTyped
<1>2. r.at = answer /\ (answer = "dev" => ~r.knew) /\ r.now = 0
  BY RestingTyped DEF Resting
<1>3. caller' = [caller EXCEPT ![c] = r]
  BY DEF Ends
<1>4. r.now <= time
  BY <1>2 DEF IInv, AccessTypeOK
<1> HIDE DEF r
<1> QED BY <1>1, <1>2, <1>3, <1>4, CallerReplaced

LEMMA MovedOn ==
    ASSUME IInv, NEW c \in Callers, NEW place \in Stops \ {"list", "dev"}, Moves(c, place),
           time' = time, seen' => knownNonempty'
    PROVE  /\ caller' \in [Callers -> [at : Stops, key : KeyIds, now : 0 .. Bedtime,
                                       login : BOOLEAN, knew : BOOLEAN]]
           /\ FirstMeeting'
           /\ \A d \in Callers : caller'[d].now <= time'
<1> DEFINE r == [caller[c] EXCEPT !.at = place]
<1>1. r \in [at : Stops, key : KeyIds, now : 0 .. Bedtime, login : BOOLEAN, knew : BOOLEAN]
  BY DEF IInv, AccessTypeOK
<1>2. r.at = place /\ r.now = caller[c].now
  BY DEF IInv, AccessTypeOK
<1>3. caller' = [caller EXCEPT ![c] = r]
  BY DEF Moves
<1>4. r.now <= time
  BY <1>2 DEF IInv, SentenceServed
<1> HIDE DEF r
<1> QED BY <1>1, <1>2, <1>3, <1>4, CallerReplaced

LEMMA Passed ==
    ASSUME IInv, NEW c \in Callers, NEW answer \in {"dev", "ok"}, Passes(c, answer),
           answer = "dev" => ~caller[c].knew,
           time' = time, seen' => knownNonempty'
    PROVE  /\ caller' \in [Callers -> [at : Stops, key : KeyIds, now : 0 .. Bedtime,
                                       login : BOOLEAN, knew : BOOLEAN]]
           /\ FirstMeeting'
           /\ \A d \in Callers : caller'[d].now <= time'
<1>1. CASE caller[c].login
  <2>1. Moves(c, "create") /\ "create" \in Stops \ {"list", "dev"}
    BY <1>1 DEF Passes, Stops
  <2> QED BY <2>1, MovedOn
<1>2. CASE ~caller[c].login
  <2>1. Ends(c, answer) /\ answer \in Stops \ {"list"}
    BY <1>2 DEF Passes, Stops
  <2> QED BY <2>1, Answered
<1> QED BY <1>1, <1>2

\* The steps of verify, of a login and of a request with a cookie.
LEMMA CallerStep ==
    ASSUME IInv, NEW c \in Callers,
           \/ PresentKey(c) \/ ListKeys(c) \/ GetKey(c) \/ CleanKey(c) \/ Learn(c)
           \/ CreateSession(c) \/ PresentCookie(c) \/ AskAgain(c)
    PROVE  IInv'
<1> USE DEF IInv
<1> DEFINE CallersFine ==
        /\ caller' \in [Callers -> [at : Stops, key : KeyIds, now : 0 .. Bedtime,
                                    login : BOOLEAN, knew : BOOLEAN]]
        /\ FirstMeeting'
        /\ \A d \in Callers : caller'[d].now <= time'
<1>1. CASE PresentKey(c)
  <2>1. PICK k \in KeyIds, login \in BOOLEAN :
          caller' = [caller EXCEPT ![c] =
              [at |-> IF knownNonempty THEN "get" ELSE "list", key |-> k,
               now |-> time, login |-> login, knew |-> seen]]
    BY <1>1 DEF PresentKey
  <2> DEFINE r == [at |-> IF knownNonempty THEN "get" ELSE "list", key |-> k,
                   now |-> time, login |-> login, knew |-> seen]
  <2>2. r \in [at : Stops, key : KeyIds, now : 0 .. Bedtime, login : BOOLEAN, knew : BOOLEAN]
    BY DEF AccessTypeOK, Stops
  <2>3. (r.at \in {"list", "dev"} => ~r.knew) /\ r.now <= time
    BY DEF FirstMeeting, AccessTypeOK
  <2>4. UNCHANGED <<time, table, memory, past>> /\ caller' = [caller EXCEPT ![c] = r]
    BY <1>1, <2>1 DEF PresentKey
  <2>5. seen' => knownNonempty'
    BY <2>4 DEF FirstMeeting, memory, past
  <2> HIDE DEF r
  <2>6. CallersFine
    BY <2>2, <2>3, <2>4, <2>5, CallerReplaced
  <2> QED BY <2>4, <2>6 DEF AccessTypeOK, SentenceServed, table, memory, past
<1>2. CASE ListKeys(c)
  <2>1. UNCHANGED <<time, table, issuing, usage, sentence>>
    BY <1>2 DEF ListKeys
  <2>2. {knownNonempty, seen}' \subseteq BOOLEAN /\ (seen' => knownNonempty')
    <3>1. CASE knownNonempty' = TRUE /\ seen' = TRUE
      BY <3>1
    <3>2. CASE UNCHANGED <<knownNonempty, seen>>
      BY <3>2 DEF AccessTypeOK, FirstMeeting
    <3> QED BY <1>2, <3>1, <3>2 DEF ListKeys
  <2>3. CASE Moves(c, "get")
    <3>1. "get" \in Stops \ {"list", "dev"}
      BY DEF Stops
    <3>2. CallersFine
      BY <2>1, <2>2, <2>3, <3>1, MovedOn
    <3> QED BY <2>1, <2>2, <3>2 DEF AccessTypeOK, SentenceServed, table
  <2>4. CASE Passes(c, "dev")
    <3>1. ~caller[c].knew
      BY <1>2 DEF ListKeys, CallerAt, FirstMeeting
    <3>2. CallersFine
      BY <2>1, <2>2, <2>4, <3>1, Passed
    <3> QED BY <2>1, <2>2, <3>2 DEF AccessTypeOK, SentenceServed, table
  <2> QED BY <1>2, <2>3, <2>4 DEF ListKeys
<1>3. CASE GetKey(c)
  <2>1. UNCHANGED <<time, table, memory, past>>
    BY <1>3 DEF GetKey
  <2>2. seen' => knownNonempty'
    BY <2>1 DEF FirstMeeting, memory, past
  <2>3. CASE Ends(c, "rejected")
    <3>1. "rejected" \in Stops \ {"list"}
      BY DEF Stops
    <3>2. CallersFine
      BY <2>1, <2>2, <2>3, <3>1, Answered
    <3> QED BY <2>1, <3>2 DEF AccessTypeOK, SentenceServed, table, memory, past
  <2>4. CASE \E place \in {"clean", "learn"} : Moves(c, place)
    <3>1. PICK place \in {"clean", "learn"} : Moves(c, place)
      BY <2>4
    <3>2. place \in Stops \ {"list", "dev"}
      BY DEF Stops
    <3>3. CallersFine
      BY <2>1, <2>2, <3>1, <3>2, MovedOn
    <3> QED BY <2>1, <3>3 DEF AccessTypeOK, SentenceServed, table, memory, past
  <2> QED BY <1>3, <2>3, <2>4 DEF GetKey
<1>4. CASE CleanKey(c)
  <2>1. UNCHANGED <<time, sessions, memory, past>> /\ Ends(c, "rejected")
    BY <1>4 DEF CleanKey
  <2>2. seen' => knownNonempty'
    BY <2>1 DEF FirstMeeting, memory, past
  <2>3. "rejected" \in Stops \ {"list"}
    BY DEF Stops
  <2>4. CallersFine
    BY <2>1, <2>2, <2>3, Answered
  <2>5. apiKeys' \in [KeyIds -> {<<>>} \cup [revoked : BOOLEAN, expires : Nat]]
    BY <1>4 DEF CleanKey, AccessTypeOK
  <2> QED BY <2>1, <2>4, <2>5 DEF AccessTypeOK, SentenceServed, memory, past
<1>5. CASE Learn(c)
  <2> DEFINE k == caller[c].key
             now == caller[c].now
  <2>1. UNCHANGED <<time, table, knownNonempty, issuing, seen>>
    BY <1>5 DEF Learn
  <2>2. (seen' => knownNonempty') /\ k \in KeyIds /\ now \in 0 .. Bedtime /\ now <= time
    BY <2>1 DEF FirstMeeting, AccessTypeOK, SentenceServed
  <2>3. CASE Ends(c, "suspended") /\ UNCHANGED <<usage, sentence>>
    <3>1. "suspended" \in Stops \ {"list"}
      BY DEF Stops
    <3>2. CallersFine
      BY <2>1, <2>2, <2>3, <3>1, Answered
    <3> QED BY <2>1, <2>3, <3>2 DEF AccessTypeOK, SentenceServed, table
  <2>4. CASE /\ usage' = [usage EXCEPT ![k].until = now + Cooldown]
             /\ sentence' = [sentence EXCEPT ![k] = now + Cooldown]
             /\ Ends(c, "suspended")
    <3>1. "suspended" \in Stops \ {"list"}
      BY DEF Stops
    <3>2. CallersFine
      BY <2>1, <2>2, <2>4, <3>1, Answered
    <3>3. now + Cooldown \in Nat
      BY <2>2, Durations
    <3>4. usage' \in [KeyIds -> [requests : 0 .. Warmup, last : -1 .. Bedtime, until : Nat]]
      BY <2>2, <2>4, <3>3 DEF AccessTypeOK
    <3>5. \A j \in KeyIds : usage'[j].until = IF j = k THEN now + Cooldown ELSE usage[j].until
      BY <2>2, <2>4 DEF AccessTypeOK
    <3>6. SentenceServed' /\ sentence' \in [KeyIds -> Nat]
      BY <2>1, <2>2, <2>4, <3>2, <3>3, <3>5 DEF AccessTypeOK, SentenceServed
    <3> QED BY <2>1, <3>2, <3>4, <3>6 DEF AccessTypeOK, table
  <2>5. CASE /\ ~Quarantined(usage[k], now)
             /\ usage' = [usage EXCEPT ![k] =
                    [requests |-> IF @.requests < Warmup THEN @.requests + 1 ELSE Warmup,
                     last |-> now, until |-> 0]]
             /\ Passes(c, "ok") /\ UNCHANGED sentence
    <3>1. CallersFine
      BY <2>1, <2>2, <2>5, Passed
    <3>2. usage' \in [KeyIds -> [requests : 0 .. Warmup, last : -1 .. Bedtime, until : Nat]]
      <4>1. /\ (IF usage[k].requests < Warmup THEN usage[k].requests + 1 ELSE Warmup) \in 0 .. Warmup
            /\ now \in -1 .. Bedtime
        BY <2>2, Durations DEF AccessTypeOK
      <4> QED BY <2>2, <2>5, <4>1 DEF AccessTypeOK
    <3>3. \A j \in KeyIds : usage'[j].until = IF j = k THEN 0 ELSE usage[j].until
      BY <2>2, <2>5 DEF AccessTypeOK
    <3>4. sentence[k] <= time
      BY <2>2, <2>5 DEF Quarantined, SentenceServed, AccessTypeOK
    <3>5. SentenceServed'
      BY <2>1, <2>2, <2>5, <3>1, <3>3, <3>4 DEF SentenceServed
    <3> QED BY <2>1, <2>5, <3>1, <3>2, <3>5 DEF AccessTypeOK, table
  <2> QED BY <1>5, <2>3, <2>4, <2>5 DEF Learn
<1>6. CASE CreateSession(c)
  <2>1. UNCHANGED <<time, apiKeys, memory, past>> /\ Ends(c, "ok")
    BY <1>6 DEF CreateSession
  <2>2. seen' => knownNonempty'
    BY <2>1 DEF FirstMeeting, memory, past
  <2>3. "ok" \in Stops \ {"list"}
    BY DEF Stops
  <2>4. CallersFine
    BY <2>1, <2>2, <2>3, Answered
  <2>5. sessions' \in [KeyIds -> Nat]
    <3>1. time + SessionTtl \in Nat
      BY Durations DEF AccessTypeOK
    <3> QED BY <1>6, <3>1 DEF CreateSession, AccessTypeOK
  <2> QED BY <2>1, <2>4, <2>5 DEF AccessTypeOK, SentenceServed, memory, past
<1>7. CASE PresentCookie(c)
  <2>1. UNCHANGED <<time, apiKeys, memory, past>>
    BY <1>7 DEF PresentCookie
  <2>2. seen' => knownNonempty'
    BY <2>1 DEF FirstMeeting, memory, past
  <2>3. PICK place \in {"rejected", "forbidden", "ok"} : caller' = [caller EXCEPT ![c].at = place]
    BY <1>7 DEF PresentCookie
  <2>4. Moves(c, place) /\ place \in Stops \ {"list", "dev"}
    BY <2>3 DEF Moves, Stops
  <2>5. CallersFine
    BY <2>1, <2>2, <2>4, MovedOn
  <2>6. sessions' \in [KeyIds -> Nat]
    BY <1>7 DEF PresentCookie, AccessTypeOK
  <2> QED BY <2>1, <2>5, <2>6 DEF AccessTypeOK, SentenceServed, memory, past
<1>8. CASE AskAgain(c)
  <2>1. UNCHANGED <<time, table, memory, past>> /\ caller' = [caller EXCEPT ![c] = Resting]
    BY <1>8 DEF AskAgain
  <2>2. seen' => knownNonempty'
    BY <2>1 DEF FirstMeeting, memory, past
  <2>3. Resting.at \notin {"list", "dev"} /\ Resting.now <= time
    BY DEF Resting, AccessTypeOK
  <2>4. CallersFine
    BY <2>1, <2>2, <2>3, RestingTyped, CallerReplaced
  <2> QED BY <2>1, <2>4 DEF AccessTypeOK, SentenceServed, table, memory, past
<1> QED BY <1>1, <1>2, <1>3, <1>4, <1>5, <1>6, <1>7, <1>8

\* Keys that come and go, the clock, and a restart.
LEMMA OtherStep ==
    ASSUME IInv,
           \/ \E k \in KeyIds : GrantKey(k) \/ RevokeKey(k) \/ Logout(k)
           \/ NoteIssued \/ RestartProcess \/ Later
    PROVE  IInv'
<1> USE DEF IInv
<1>1. ASSUME NEW k \in KeyIds, GrantKey(k) PROVE IInv'
  <2>1. UNCHANGED <<time, sessions, knownNonempty, usage, caller, past>>
    BY <1>1 DEF GrantKey
  <2>2. time + Life \in Nat
    BY Durations DEF AccessTypeOK
  <2>3. apiKeys' \in [KeyIds -> {<<>>} \cup [revoked : BOOLEAN, expires : Nat]]
    BY <1>1, <2>2 DEF GrantKey, AccessTypeOK
  <2>4. issuing' \in BOOLEAN
    BY <1>1 DEF GrantKey, AccessTypeOK
  <2> QED BY <2>1, <2>3, <2>4 DEF AccessTypeOK, FirstMeeting, SentenceServed, past
<1>2. ASSUME NEW k \in KeyIds, RevokeKey(k) PROVE IInv'
  <2>1. UNCHANGED <<time, sessions, memory, caller, past>>
    BY <1>2 DEF RevokeKey
  <2>2. apiKeys' = [apiKeys EXCEPT ![k].revoked = TRUE] /\ apiKeys[k] # <<>>
    BY <1>2 DEF RevokeKey
  <2>3. apiKeys[k] \in [revoked : BOOLEAN, expires : Nat]
    BY <2>2 DEF AccessTypeOK
  <2>4. [apiKeys[k] EXCEPT !.revoked = TRUE] \in [revoked : BOOLEAN, expires : Nat]
    BY <2>3
  <2>5. apiKeys' \in [KeyIds -> {<<>>} \cup [revoked : BOOLEAN, expires : Nat]]
    BY <2>2, <2>4 DEF AccessTypeOK
  <2> QED BY <2>1, <2>5 DEF AccessTypeOK, FirstMeeting, SentenceServed, memory, past
<1>3. ASSUME NEW k \in KeyIds, Logout(k) PROVE IInv'
  BY <1>3 DEF Logout, AccessTypeOK, FirstMeeting, SentenceServed, memory, past
<1>4. CASE NoteIssued
  BY <1>4 DEF NoteIssued, AccessTypeOK, FirstMeeting, SentenceServed, table
<1>5. CASE RestartProcess
  <2>1. /\ usage' \in [KeyIds -> [requests : 0 .. Warmup, last : -1 .. Bedtime, until : Nat]]
        /\ sessions' \in [KeyIds -> Nat] /\ sentence' \in [KeyIds -> Nat]
    BY <1>5, Durations DEF RestartProcess, NoUsage
  <2>2. \A c \in Callers : caller'[c] = Resting
    BY <1>5 DEF RestartProcess
  <2>3. FirstMeeting' /\ SentenceServed'
    BY <1>5, <2>2 DEF RestartProcess, FirstMeeting, SentenceServed, Resting, NoUsage, AccessTypeOK
  <2>4. {knownNonempty, issuing, seen}' \subseteq BOOLEAN
    BY <1>5 DEF RestartProcess
  <2> QED BY <1>5, <2>1, <2>3, <2>4, RestingTyped DEF RestartProcess, AccessTypeOK
<1>6. CASE Later
  <2>1. time' \in 0 .. Bedtime /\ time' = time + 1 /\ UNCHANGED <<table, memory, caller, past>>
    BY <1>6, Durations DEF Later, AccessTypeOK
  <2>2. SentenceServed'
    BY <2>1 DEF SentenceServed, AccessTypeOK, memory, past
  <2> QED BY <2>1, <2>2 DEF AccessTypeOK, FirstMeeting, table, memory, past
<1> QED BY <1>1, <1>2, <1>3, <1>4, <1>5, <1>6

LEMMA NextIInv ==
    ASSUME IInv, [AccessNext]_accessVars
    PROVE  IInv'
<1>1. CASE AccessNext
  BY <1>1, CallerStep, OtherStep DEF AccessNext
<1>2. CASE UNCHANGED accessVars
  BY <1>2 DEF accessVars, table, memory, past, IInv, AccessTypeOK, FirstMeeting,
              SentenceServed
<1> QED BY <1>1, <1>2

LEMMA Invariant == AccessSpec => []IInv
BY InitIInv, NextIInv, PTL DEF AccessSpec

\* The tables of keys, usage and sessions, and what the requests carry, keep their
\* types, whatever the callers and the clock do.
THEOREM AccessTyped == AccessSpec => []AccessTypeOK
<1>1. IInv => AccessTypeOK
  BY DEF IInv
<1> QED BY <1>1, Invariant, PTL

\* verify() (keyring.rs:189-227): once this process has met a key, no request that
\* comes later is let in as "dev", though the table may be empty again.
THEOREM NoWayBackToDev == AccessSpec => []ClosedStaysClosed
<1>1. IInv => ClosedStaysClosed
  BY DEF IInv, FirstMeeting, ClosedStaysClosed, CallerAt
<1> QED BY <1>1, Invariant, PTL

\* verify() (keyring.rs:228-290): whatever order requests reach the usage lock in,
\* and however old their now, a quarantined key is let in only when its cooldown is
\* over.
THEOREM QuarantineIsServed == AccessSpec => QuarantineHolds
<1>1. ASSUME IInv, [AccessNext]_accessVars,
             NEW c \in Callers, CallerAt(c, "learn"), caller'[c].at \in {"ok", "create"}
      PROVE  time >= sentence[caller[c].key]
  <2> USE DEF IInv
  <2>1. /\ caller[c].key \in KeyIds /\ caller[c].now \in 0 .. Bedtime /\ caller[c].now <= time
        /\ caller[c].at = "learn"
    BY <1>1 DEF AccessTypeOK, SentenceServed, CallerAt
  <2>2. Learn(c)
    <3>1. ASSUME NEW d \in Callers, d # c, NEW r, caller' = [caller EXCEPT ![d] = r]
          PROVE  FALSE
      BY <1>1, <2>1, <3>1 DEF AccessTypeOK
    <3>2. ASSUME NEW d \in Callers, d # c,
                 \/ PresentKey(d) \/ ListKeys(d) \/ GetKey(d) \/ CleanKey(d) \/ Learn(d)
                 \/ CreateSession(d) \/ PresentCookie(d) \/ AskAgain(d)
          PROVE  FALSE
      <4>1. \E r : caller' = [caller EXCEPT ![d] = r]
        BY <3>2 DEF PresentKey, ListKeys, GetKey, CleanKey, Learn, CreateSession,
                    PresentCookie, AskAgain, Ends, Moves, Passes
      <4> QED BY <3>1, <3>2, <4>1
    <3>3. ~PresentKey(c) /\ ~ListKeys(c) /\ ~GetKey(c) /\ ~CleanKey(c)
          /\ ~CreateSession(c) /\ ~PresentCookie(c) /\ ~AskAgain(c)
      BY <2>1 DEF PresentKey, ListKeys, GetKey, CleanKey, CreateSession, PresentCookie,
                  AskAgain, CallerAt
    <3>4. caller' # caller /\ ~RestartProcess
      BY <1>1, <2>1 DEF AccessTypeOK, RestartProcess, Resting
    <3>5. ~Later /\ ~NoteIssued /\ \A k \in KeyIds : ~GrantKey(k) /\ ~RevokeKey(k) /\ ~Logout(k)
      BY <3>4 DEF Later, NoteIssued, GrantKey, RevokeKey, Logout
    <3> QED BY <1>1, <3>2, <3>3, <3>4, <3>5 DEF AccessNext, accessVars
  <2>3. ~Ends(c, "suspended")
    <3>1. SUFFICES ASSUME Ends(c, "suspended") PROVE FALSE
      OBVIOUS
    <3>2. caller'[c] = [Resting EXCEPT !.at = "suspended",
                          !.knew = "suspended" = "dev" /\ caller[c].knew]
      BY <1>1, <3>1 DEF Ends, AccessTypeOK
    <3>3. caller'[c].at = "suspended"
      BY <3>2, RestingTyped
    <3> QED BY <1>1, <3>3
  <2>4. ~Quarantined(usage[caller[c].key], caller[c].now)
    BY <2>2, <2>3 DEF Learn
  <2>5. usage[caller[c].key].until \in Nat /\ sentence[caller[c].key] \in Nat /\ time \in Nat
    BY <1>1, <2>1 DEF AccessTypeOK
  <2>6. usage[caller[c].key].until <= caller[c].now
    BY <2>1, <2>4, <2>5 DEF Quarantined
  <2> QED BY <1>1, <2>1, <2>5, <2>6 DEF SentenceServed
<1>2. ASSUME IInv, [AccessNext]_accessVars
      PROVE  [\A c \in Callers :
                 CallerAt(c, "learn") /\ caller'[c].at \in {"ok", "create"}
                    => time >= sentence[caller[c].key]]_accessVars
  BY <1>1, <1>2
<1> QED BY <1>2, Invariant, PTL DEF AccessSpec, QuarantineHolds

-----------------------------------------------------------------------------
(* AdminCalls *)

(* What the places of a call say of the desk it is made at, and what the    *)
(* history says of the flags it has seen go.                                *)

Errands == [at : AdminPlaces, op : {"none"} \cup UNION {OpsAt[d] : d \in Desks}, key : Rows \cup {Idle.key},
            todo : SUBSET Rows, copy : [Rows -> 0 .. 1]]

\* A call is one its desk takes, and only the backup, group and graph desks keep
\* calls in places other than the one where the work is done in one step.
CallOfDesk(c) ==
    /\ errand[c].at # "idle" => errand[c].op \in OpsAt[desk]
    /\ errand[c].at \in {"listing", "write", "restoring"} => desk = "backups"
    /\ errand[c].at = "put" => desk = "groups"
    /\ errand[c].at = "store" => desk = "graph"

\* A flag whose deletion was answered is gone until the next upsert.
DeletedIsGone == \A k \in Rows : deletions[k] # 0 => deletions[k] = 1 /\ rows[k] = 0

AdminShape ==
    /\ desk \in Desks
    /\ rows \in [Rows -> 0 .. 1]
    /\ file \in [rows : [Rows -> 0 .. 1], state : {"none", "torn", "whole"}]
    /\ errand \in [Admins -> Errands]
    /\ deletions \in [Rows -> Nat]

AdminInv ==
    /\ AdminShape
    /\ \A c \in Admins : CallOfDesk(c)
    /\ desk # "flags" => deletions = NoRow
    /\ DeletedIsGone

LEMMA NoRowType == NoRow \in [Rows -> 0 .. 1] /\ NoRow \in [Rows -> Nat]
  BY DEF NoRow

LEMMA IdleType == Idle \in Errands
  <1> DEFINE key0 == CHOOSE k \in Rows : TRUE
  <1>1. Idle.key = key0
    BY DEF Idle
  <1>2. Idle = [at |-> "idle", op |-> "none", key |-> key0, todo |-> {}, copy |-> NoRow]
    BY DEF Idle
  <1>3. "idle" \in AdminPlaces 
    BY DEF AdminPlaces
  <1> HIDE DEF key0
  <1> QED
    BY <1>1, <1>2, <1>3, NoRowType DEF Errands

LEMMA IdlePlace == Idle.at = "idle"
  BY DEF Idle

LEMMA RowSet ==
  ASSUME AdminShape, NEW k, NEW n \in 0 .. 1
  PROVE  [rows EXCEPT ![k] = n] \in [Rows -> 0 .. 1]
  BY DEF AdminShape

LEMMA DeskOf ==
  ASSUME NEW d \in Desks, NEW op \in OpsAt[d]
  PROVE  /\ op \in {"flag_upsert", "flag_list", "flag_get", "flag_delete", "flag_evaluate"}
              => d = "flags"
         /\ op \in {"backup_export", "backup_import", "restore_latest"} => d = "backups"
         /\ op \in {"group_create", "group_replace", "group_delete"} => d = "groups"
         /\ op = "compose" => d = "graph"
         /\ op \in {"db_put", "db_delete", "query_register", "purge_page", "purge_all",
                    "self_issue"} => d # "flags"
  <1>1. d \in {"records", "backups", "flags", "queries", "groups", "pages", "keys", "graph"}
    BY DEF Desks, OpsAt
  <1>2. CASE d = "records"
    BY <1>2 DEF OpsAt
  <1>3. CASE d = "backups"
    BY <1>3 DEF OpsAt
  <1>4. CASE d = "flags"
    BY <1>4 DEF OpsAt
  <1>5. CASE d = "queries"
    BY <1>5 DEF OpsAt
  <1>6. CASE d = "groups"
    BY <1>6 DEF OpsAt
  <1>7. CASE d = "pages"
    BY <1>7 DEF OpsAt
  <1>8. CASE d = "keys"
    BY <1>8 DEF OpsAt
  <1>9. CASE d = "graph"
    BY <1>9 DEF OpsAt
  <1> QED
    BY <1>1, <1>2, <1>3, <1>4, <1>5, <1>6, <1>7, <1>8, <1>9

\* A step that only moves one call from place to place.
LEMMA CallMoves ==
  ASSUME AdminInv, NEW c \in Admins, NEW e \in Errands, Still,
         errand' = [errand EXCEPT ![c] = e],
         e.at # "idle" => e.op \in OpsAt[desk],
         e.at \in {"listing", "write", "restoring"} => desk = "backups",
         e.at = "put" => desk = "groups",
         e.at = "store" => desk = "graph"
  PROVE  AdminInv'
  <1>1. AdminShape'
    BY DEF Still, AdminInv, AdminShape
  <1>2. \A b \in Admins : errand'[b] = IF b = c THEN e ELSE errand[b]
    BY DEF AdminInv, AdminShape
  <1>3. \A b \in Admins : CallOfDesk(b)'
    BY <1>2 DEF AdminInv, CallOfDesk, Still
  <1>4. (desk # "flags" => deletions = NoRow)' /\ DeletedIsGone'
    BY DEF AdminInv, DeletedIsGone, Still, NoRow
  <1> QED
    BY <1>1, <1>3, <1>4 DEF AdminInv

\* A step of a call that changes what another desk than the one of flags administers.
LEMMA RowsChange ==
  ASSUME AdminInv, NEW c \in Admins, NEW e \in Errands, NEW v \in [Rows -> 0 .. 1],
         desk # "flags", Only(v), errand' = [errand EXCEPT ![c] = e],
         e.at \in {"ok", "audit", "restoring"}, e.op \in OpsAt[desk],
         e.at = "restoring" => desk = "backups"
  PROVE  AdminInv'
  <1>1. AdminShape'
    BY DEF Only, AdminInv, AdminShape
  <1>2. \A b \in Admins : errand'[b] = IF b = c THEN e ELSE errand[b]
    BY DEF AdminInv, AdminShape
  <1>3. \A b \in Admins : CallOfDesk(b)'
    BY <1>2 DEF AdminInv, CallOfDesk, Only
  <1>4. (desk # "flags" => deletions = NoRow)' /\ DeletedIsGone'
    BY DEF AdminInv, DeletedIsGone, Only, NoRow
  <1> QED
    BY <1>1, <1>3, <1>4 DEF AdminInv

\* DeskGoes changes the place and nothing else of the call.
LEMMA GoesTo ==
  ASSUME AdminShape, NEW c \in Admins, NEW p \in AdminPlaces, DeskGoes(c, p)
  PROVE  /\ [errand[c] EXCEPT !.at = p] \in Errands
         /\ errand' = [errand EXCEPT ![c] = [errand[c] EXCEPT !.at = p]]
  BY DEF AdminShape, DeskGoes, Errands

\* Where a call may go without going through rows.
QuietPlaces == {"audit", "ok", "failed", "not_found", "conflict", "unsupported"}
                  \cup IF desk = "groups" THEN {"put"} ELSE {}

LEMMA AreQuiet ==
  /\ "audit" \in QuietPlaces /\ "ok" \in QuietPlaces /\ "failed" \in QuietPlaces
  /\ "not_found" \in QuietPlaces /\ "conflict" \in QuietPlaces
  /\ "unsupported" \in QuietPlaces
  /\ desk = "groups" => "put" \in QuietPlaces
  BY DEF QuietPlaces

LEMMA GoesQuietly ==
  ASSUME AdminInv, NEW c \in Admins, NEW p \in QuietPlaces, DeskGoes(c, p), Still,
         errand[c].at # "idle"
  PROVE  AdminInv'
  <1> DEFINE e == [errand[c] EXCEPT !.at = p]
  <1>1. p \in AdminPlaces
    BY DEF AdminPlaces, QuietPlaces
  <1>2. e \in Errands /\ errand' = [errand EXCEPT ![c] = e]
    BY <1>1, GoesTo DEF AdminInv
  <1>3. e.at = p /\ e.op = errand[c].op
    BY DEF AdminInv, AdminShape, Errands
  <1>4. e.op \in OpsAt[desk]
    BY <1>3 DEF AdminInv, CallOfDesk
  <1>5. p \notin {"listing", "write", "restoring", "store"} /\ (p = "put" => desk = "groups")
    BY DEF QuietPlaces
  <1> HIDE DEF e
  <1> QED
    BY <1>2, <1>3, <1>4, <1>5, CallMoves

LEMMA GoesWriting ==
  ASSUME AdminInv, NEW c \in Admins, NEW v \in [Rows -> 0 .. 1], desk # "flags",
         errand[c].at # "idle", DeskGoes(c, "audit"), Only(v)
  PROVE  AdminInv'
  <1> DEFINE e == [errand[c] EXCEPT !.at = "audit"]
  <1>1. e \in Errands /\ errand' = [errand EXCEPT ![c] = e]
    <2>1. "audit" \in AdminPlaces
      BY DEF AdminPlaces
    <2> QED
      BY <2>1, GoesTo DEF AdminInv
  <1>2. e.at = "audit" /\ e.op = errand[c].op
    BY DEF AdminInv, AdminShape, Errands
  <1>3. e.op \in OpsAt[desk]
    BY <1>2 DEF AdminInv, CallOfDesk
  <1> HIDE DEF e
  <1> QED
    BY <1>1, <1>2, <1>3, RowsChange

-----------------------------------------------------------------------------
LEMMA DoneAtADesk ==
  ASSUME AdminInv, NEW c \in Admins, errand[c].at # "idle"
  PROVE  errand[c].op \in OpsAt[desk] /\ desk \in Desks
  BY DEF AdminInv, AdminShape, CallOfDesk

LEMMA ServedStep ==
  ASSUME AdminInv, NEW c \in Admins, Ask(c) \/ Fails(c) \/ Audit(c) \/ Leave(c)
  PROVE  AdminInv'
  <1>1. ASSUME Ask(c) PROVE AdminInv'
    <2>1. PICK op \in OpsAt[desk], k \in Rows :
             errand' = [errand EXCEPT ![c] = [Idle EXCEPT !.at = "act", !.op = op, !.key = k]]
      BY <1>1 DEF Ask
    <2> DEFINE e == [Idle EXCEPT !.at = "act", !.op = op, !.key = k]
    <2>2. e \in Errands /\ e.at = "act" /\ e.op = op
      <3>1. "act" \in AdminPlaces
        BY DEF AdminPlaces
      <3>2. op \in {"none"} \cup UNION {OpsAt[d] : d \in Desks}
        BY DEF AdminInv, AdminShape
      <3> QED
        BY <3>1, <3>2, IdleType DEF Errands
    <2>3. errand' = [errand EXCEPT ![c] = e]
      BY <2>1
    <2> HIDE DEF e
    <2> QED
      BY <1>1, <2>2, <2>3, CallMoves DEF Ask
  <1>2. ASSUME Fails(c) PROVE AdminInv'
    BY <1>2, AreQuiet, GoesQuietly DEF Fails
  <1>3. ASSUME Audit(c) PROVE AdminInv'
    <2>1. PICK left \in SUBSET Rows :
             errand' = [errand EXCEPT ![c].at = IF left = {} THEN "ok" ELSE "audit",
                                      ![c].todo = left]
      <3>1. errand[c].todo \in SUBSET Rows
        BY DEF AdminInv, AdminShape, Errands
      <3>2. PICK left \in IF errand[c].todo = {} THEN {{}}
                            ELSE {errand[c].todo \ {k} : k \in errand[c].todo} :
                errand' = [errand EXCEPT ![c].at = IF left = {} THEN "ok" ELSE "audit",
                                         ![c].todo = left]
        BY <1>3 DEF Audit
      <3>3. left \in SUBSET Rows
        BY <3>1, <3>2
      <3> QED
        BY <3>2, <3>3
    <2> DEFINE p == IF left = {} THEN "ok" ELSE "audit"
               e == [errand[c] EXCEPT !.at = p, !.todo = left]
    <2>2. e \in Errands /\ e.at = p /\ e.op = errand[c].op
      BY ZenonT(60) DEF Errands, AdminPlaces, AdminInv, AdminShape
    <2>3. errand' = [errand EXCEPT ![c] = e]
      BY <2>1 DEF AdminInv, AdminShape, Errands
    <2>4. e.op \in OpsAt[desk]
      BY <1>3, <2>2, DoneAtADesk DEF Audit
    <2>5. p \in {"ok", "audit"}
      OBVIOUS
    <2> HIDE DEF e, p
    <2> QED
      BY <1>3, <2>2, <2>3, <2>4, <2>5, CallMoves DEF Audit
  <1>4. ASSUME Leave(c) PROVE AdminInv'
    BY <1>4, IdleType, CallMoves DEF Leave, Idle
  <1> QED
    BY <1>1, <1>2, <1>3, <1>4

LEMMA RecordsStep ==
  ASSUME AdminInv, NEW c \in Admins, RecordsNext(c)
  PROVE  AdminInv'
  <1>1. ASSUME DbList(c) \/ DbGet(c) \/ DbGetAtCommit(c) PROVE AdminInv'
    BY <1>1, AreQuiet, GoesQuietly DEF DbList, DbGet, DbGetAtCommit, Doing
  <1>2. ASSUME DbPut(c) \/ DbDelete(c) PROVE AdminInv'
    <2>1. Doing(c, "db_put") \/ Doing(c, "db_delete")
      BY <1>2 DEF DbPut, DbDelete
    <2>2. desk # "flags" /\ errand[c].at # "idle"
      BY <2>1, DoneAtADesk, DeskOf DEF Doing
    <2>3. PICK n \in 0 .. 1 : Only([rows EXCEPT ![Named(c)] = n]) /\ DeskGoes(c, "audit")
      BY <1>2 DEF DbPut, DbDelete
    <2> QED
      BY <2>2, <2>3, GoesWriting DEF AdminInv, AdminShape
  <1>3. ASSUME IntegrityCheck(c) PROVE AdminInv'
    <2>1. PICK healed \in SUBSET Rows :
             \/ errand' = [errand EXCEPT ![c].at = IF healed = {} THEN "ok" ELSE "audit",
                                         ![c].todo = healed]
             \/ DeskGoes(c, "failed")
      BY <1>3 DEF IntegrityCheck
    <2>2. CASE DeskGoes(c, "failed")
      BY <1>3, <2>2, AreQuiet, GoesQuietly DEF IntegrityCheck, Doing
    <2>3. CASE errand' = [errand EXCEPT ![c].at = IF healed = {} THEN "ok" ELSE "audit",
                                        ![c].todo = healed]
      <3> DEFINE p == IF healed = {} THEN "ok" ELSE "audit"
                 e == [errand[c] EXCEPT !.at = p, !.todo = healed]
      <3>1. e \in Errands /\ e.at = p /\ e.op = errand[c].op
        BY ZenonT(60) DEF Errands, AdminPlaces, AdminInv, AdminShape
      <3>2. errand' = [errand EXCEPT ![c] = e]
        BY <2>3 DEF AdminInv, AdminShape, Errands
      <3>3. e.op \in OpsAt[desk]
        BY <1>3, <3>1, DoneAtADesk DEF IntegrityCheck, Doing
      <3>4. p \in {"ok", "audit"}
        OBVIOUS
      <3> HIDE DEF e, p
      <3> QED
        BY <1>3, <3>1, <3>2, <3>3, <3>4, CallMoves DEF IntegrityCheck
    <2> QED
      BY <2>1, <2>2, <2>3
  <1> QED
    BY <1>1, <1>2, <1>3 DEF RecordsNext

LEMMA ImportsAtBackups ==
  ASSUME AdminInv, NEW c \in Admins, desk = "backups", errand[c].at # "idle",
         Import(c), Still
  PROVE  AdminInv'
  <1>1. CASE file.state = "whole"
    <2> DEFINE held == {k \in Rows : file.rows[k] # 0}
               p == IF held = {} THEN "audit" ELSE "restoring"
               e == [errand[c] EXCEPT !.at = p, !.todo = held]
    <2>1. held \in SUBSET Rows /\ p \in {"audit", "restoring"}
      OBVIOUS
    <2>2. errand' = [errand EXCEPT ![c].at = p, ![c].todo = held]
      BY <1>1 DEF Import
    <2> HIDE DEF held, p
    <2>3. e \in Errands /\ e.at = p /\ e.op = errand[c].op
      BY <2>1 DEF Errands, AdminPlaces, AdminInv, AdminShape
    <2>4. errand' = [errand EXCEPT ![c] = e]
      BY <2>2 DEF AdminInv, AdminShape, Errands
    <2>5. e.op \in OpsAt[desk]
      BY <2>3, DoneAtADesk
    <2> HIDE DEF e
    <2> QED
      BY <2>1, <2>3, <2>4, <2>5, CallMoves
  <1>2. CASE file.state # "whole"
    BY <1>2, AreQuiet, GoesQuietly DEF Import
  <1> QED
    BY <1>1, <1>2

LEMMA BackupsStep ==
  ASSUME AdminInv, NEW c \in Admins, BackupsNext(c)
  PROVE  AdminInv'
  <1>1. ASSUME BackupExport(c) PROVE AdminInv'
    <2> DEFINE e == [errand[c] EXCEPT !.at = "listing", !.todo = Rows]
    <2>1. e \in Errands /\ e.at = "listing" /\ e.op = errand[c].op
      BY DEF Errands, AdminPlaces, AdminInv, AdminShape
    <2>2. errand' = [errand EXCEPT ![c] = e]
      BY <1>1 DEF BackupExport, AdminInv, AdminShape, Errands
    <2>3. errand[c].op \in OpsAt[desk] /\ desk = "backups"
      BY <1>1, DoneAtADesk, DeskOf DEF BackupExport, Doing
    <2> HIDE DEF e
    <2> QED
      BY <1>1, <2>1, <2>2, <2>3, CallMoves DEF BackupExport
  <1>2. ASSUME BackupTable(c) PROVE AdminInv'
    <2>1. errand[c].op \in OpsAt[desk] /\ desk = "backups"
      BY <1>2, DoneAtADesk DEF BackupTable, AdminInv, CallOfDesk
    <2>2. ASSUME NEW k \in errand[c].todo,
                 errand' = [errand EXCEPT ![c].copy[k] = rows[k], ![c].todo = @ \ {k},
                              ![c].at = IF errand[c].todo = {k} THEN "write" ELSE @]
          PROVE  AdminInv'
      <3> DEFINE p == IF errand[c].todo = {k} THEN "write" ELSE errand[c].at
                 e == [errand[c] EXCEPT !.copy = [errand[c].copy EXCEPT ![k] = rows[k]],
                                        !.todo = errand[c].todo \ {k}, !.at = p]
      <3>1. p \in {"listing", "write"}
        BY <1>2 DEF BackupTable
      <3>2. errand' = [errand EXCEPT ![c] = e]
        BY <2>2 DEF AdminInv, AdminShape, Errands
      <3> HIDE DEF p
      <3>3. e \in Errands /\ e.at = p /\ e.op = errand[c].op
        <4>1. [errand[c].copy EXCEPT ![k] = rows[k]] \in [Rows -> 0 .. 1]
          BY DEF AdminInv, AdminShape, Errands
        <4>2. errand[c].todo \ {k} \in SUBSET Rows /\ p \in AdminPlaces
          BY <3>1 DEF AdminInv, AdminShape, Errands, AdminPlaces
        <4> QED
          BY <4>1, <4>2, ZenonT(60) DEF AdminInv, AdminShape, Errands
      <3> HIDE DEF e
      <3> QED
        BY <1>2, <2>1, <3>1, <3>2, <3>3, CallMoves DEF BackupTable
    <2>3. ASSUME DeskGoes(c, "failed") PROVE AdminInv'
      BY <1>2, <2>3, AreQuiet, GoesQuietly DEF BackupTable
    <2> QED
      BY <1>2, <2>2, <2>3 DEF BackupTable
  <1>3. ASSUME BackupWrite(c) PROVE AdminInv'
    <2>1. ASSUME file' = [rows |-> errand[c].copy, state |-> "whole"],
                 errand' = [errand EXCEPT ![c].at = "audit", ![c].copy = NoRow]
          PROVE  AdminInv'
      <3> DEFINE e == [errand[c] EXCEPT !.at = "audit", !.copy = NoRow]
      <3>1. e \in Errands /\ e.at = "audit" /\ e.op = errand[c].op
        BY NoRowType DEF Errands, AdminPlaces, AdminInv, AdminShape
      <3>2. errand' = [errand EXCEPT ![c] = e]
        BY <2>1 DEF AdminInv, AdminShape, Errands
      <3>3. e.op \in OpsAt[desk]
        BY <1>3, <3>1, DoneAtADesk DEF BackupWrite
      <3> HIDE DEF e
      <3>4. AdminShape'
        <4>1. file' \in [rows : [Rows -> 0 .. 1], state : {"none", "torn", "whole"}]
          BY <2>1 DEF AdminInv, AdminShape, Errands
        <4> QED
          BY <1>3, <3>1, <3>2, <4>1 DEF BackupWrite, AdminInv, AdminShape
      <3>5. \A b \in Admins : errand'[b] = IF b = c THEN e ELSE errand[b]
        BY <3>2 DEF AdminInv, AdminShape
      <3>6. \A b \in Admins : CallOfDesk(b)'
        BY <1>3, <3>1, <3>3, <3>5 DEF AdminInv, CallOfDesk, BackupWrite
      <3>7. (desk # "flags" => deletions = NoRow)' /\ DeletedIsGone'
        BY <1>3 DEF AdminInv, DeletedIsGone, BackupWrite, NoRow
      <3> QED
        BY <3>4, <3>6, <3>7 DEF AdminInv
    <2>2. ASSUME UNCHANGED file, DeskGoes(c, "failed") PROVE AdminInv'
      BY <1>3, <2>2, AreQuiet, GoesQuietly DEF BackupWrite, Still
    <2> QED
      BY <1>3, <2>1, <2>2 DEF BackupWrite
  <1>4. ASSUME BackupImport(c) PROVE AdminInv'
    BY <1>4, DoneAtADesk, DeskOf, ImportsAtBackups DEF BackupImport, Doing
  <1>5. ASSUME RestoreLatest(c) PROVE AdminInv'
    <2>1. desk = "backups" /\ errand[c].at # "idle"
      BY <1>5, DoneAtADesk, DeskOf DEF RestoreLatest, Doing
    <2>2. CASE file.state = "none"
      BY <1>5, <2>1, <2>2, AreQuiet, GoesQuietly DEF RestoreLatest
    <2>3. CASE file.state # "none"
      BY <1>5, <2>1, <2>3, ImportsAtBackups DEF RestoreLatest
    <2> QED
      BY <2>2, <2>3
  <1>6. ASSUME RestoreRow(c) PROVE AdminInv'
    <2>1. errand[c].op \in OpsAt[desk] /\ desk = "backups"
      BY <1>6, DoneAtADesk DEF RestoreRow, AdminInv, CallOfDesk
    <2>2. ASSUME NEW k \in errand[c].todo,
                 errand' = [errand EXCEPT ![c].todo = @ \ {k},
                              ![c].at = IF errand[c].todo = {k} THEN "audit" ELSE @],
                 Only([rows EXCEPT ![k] = 1])
          PROVE  AdminInv'
      <3> DEFINE p == IF errand[c].todo = {k} THEN "audit" ELSE errand[c].at
                 e == [errand[c] EXCEPT !.todo = errand[c].todo \ {k}, !.at = p]
      <3>1. p \in {"audit", "restoring"}
        BY <1>6 DEF RestoreRow
      <3>2. errand' = [errand EXCEPT ![c] = e]
        BY <2>2 DEF AdminInv, AdminShape, Errands
      <3> HIDE DEF p
      <3>3. e \in Errands /\ e.at = p /\ e.op = errand[c].op
        BY <3>1 DEF AdminInv, AdminShape, Errands, AdminPlaces
      <3>4. [rows EXCEPT ![k] = 1] \in [Rows -> 0 .. 1]
        BY RowSet DEF AdminInv
      <3> HIDE DEF e
      <3> QED
        BY <2>1, <2>2, <3>1, <3>2, <3>3, <3>4, RowsChange
    <2>3. ASSUME errand' = [errand EXCEPT ![c].at = "failed", ![c].todo = {}], Still
          PROVE  AdminInv'
      <3> DEFINE e == [errand[c] EXCEPT !.at = "failed", !.todo = {}]
      <3>1. errand' = [errand EXCEPT ![c] = e]
        BY <2>3 DEF AdminInv, AdminShape, Errands
      <3>2. e \in Errands /\ e.at = "failed" /\ e.op = errand[c].op
        BY DEF AdminInv, AdminShape, Errands, AdminPlaces
      <3> HIDE DEF e
      <3> QED
        BY <2>1, <2>3, <3>1, <3>2, CallMoves
    <2> QED
      BY <1>6, <2>2, <2>3 DEF RestoreRow
  <1>7. ASSUME ExportSql(c) \/ ExportCsv(c) PROVE AdminInv'
    BY <1>7, AreQuiet, GoesQuietly DEF ExportSql, ExportCsv, Doing
  <1> QED
    BY <1>1, <1>2, <1>3, <1>4, <1>5, <1>6, <1>7 DEF BackupsNext

\* The registry of flags: what is deleted was there, and is gone after.
LEMMA FlagsStep ==
  ASSUME AdminInv, NEW c \in Admins, FlagsNext(c)
  PROVE  AdminInv'
  <1>1. ASSUME NEW n \in 0 .. 1, NEW m \in 0 .. 1, n = 0 \/ m = 0,
               Doing(c, "flag_upsert") \/ Doing(c, "flag_delete"),
               rows' = [rows EXCEPT ![Named(c)] = n],
               deletions' = [deletions EXCEPT ![Named(c)] = m],
               DeskGoes(c, "audit"), UNCHANGED <<desk, file>>
        PROVE  AdminInv'
    <2>1. errand[c].op \in OpsAt[desk] /\ desk = "flags"
      BY <1>1, DoneAtADesk, DeskOf DEF Doing
    <2> DEFINE e == [errand[c] EXCEPT !.at = "audit"]
    <2>2. "audit" \in AdminPlaces
      BY DEF AdminPlaces
    <2>3. e \in Errands /\ errand' = [errand EXCEPT ![c] = e]
      BY <1>1, <2>2, GoesTo DEF AdminInv
    <2>4. e.at = "audit" /\ e.op = errand[c].op
      BY DEF AdminInv, AdminShape, Errands
    <2> HIDE DEF e
    <2>5. AdminShape'
      <3>1. rows' \in [Rows -> 0 .. 1]
        BY <1>1, RowSet DEF AdminInv
      <3>2. deletions' \in [Rows -> Nat]
        <4>1. m \in Nat /\ deletions \in [Rows -> Nat]
          BY DEF AdminInv, AdminShape
        <4>2. [deletions EXCEPT ![Named(c)] = m] \in [Rows -> Nat]
          BY <4>1
        <4> QED
          BY <1>1, <4>2
      <3> QED
        BY <1>1, <2>3, <3>1, <3>2 DEF AdminInv, AdminShape
    <2>6. \A b \in Admins : errand'[b] = IF b = c THEN e ELSE errand[b]
      BY <2>3 DEF AdminInv, AdminShape
    <2>7. \A b \in Admins : CallOfDesk(b)'
      BY <1>1, <2>1, <2>4, <2>6 DEF AdminInv, CallOfDesk
    <2>8. DeletedIsGone'
      BY <1>1 DEF AdminInv, AdminShape, DeletedIsGone
    <2> QED
      BY <1>1, <2>1, <2>5, <2>7, <2>8 DEF AdminInv
  <1>2. ASSUME FlagUpsert(c) PROVE AdminInv'
    <2>1. 1 \in 0 .. 1 /\ 0 \in 0 .. 1
      OBVIOUS
    <2>2. /\ Doing(c, "flag_upsert") /\ DeskGoes(c, "audit") /\ UNCHANGED <<desk, file>>
          /\ rows' = [rows EXCEPT ![Named(c)] = 1]
          /\ deletions' = [deletions EXCEPT ![Named(c)] = 0]
      BY <1>2 DEF FlagUpsert
    <2> QED
      BY <1>1, <2>1, <2>2, Zenon
  <1>3. ASSUME FlagDelete(c) PROVE AdminInv'
    <2>1. CASE rows[Named(c)] = 0
      BY <1>3, <2>1, AreQuiet, GoesQuietly DEF FlagDelete, Doing
    <2>2. CASE rows[Named(c)] # 0
      <3>1. deletions' = [deletions EXCEPT ![Named(c)] = 1]
        BY <1>3, <2>2 DEF FlagDelete, AdminInv, AdminShape, DeletedIsGone
      <3>2. 0 \in 0 .. 1 /\ 1 \in 0 .. 1
        OBVIOUS
      <3>3. /\ Doing(c, "flag_delete") /\ DeskGoes(c, "audit") /\ UNCHANGED <<desk, file>>
            /\ rows' = [rows EXCEPT ![Named(c)] = 0]
        BY <1>3, <2>2 DEF FlagDelete
      <3> QED
        BY <1>1, <3>1, <3>2, <3>3, Zenon
    <2> QED
      BY <2>1, <2>2
  <1>4. ASSUME FlagList(c) \/ FlagGet(c) \/ FlagEvaluate(c) PROVE AdminInv'
    BY <1>4, AreQuiet, GoesQuietly DEF FlagList, FlagGet, FlagEvaluate, Doing
  <1> QED
    BY <1>2, <1>3, <1>4 DEF FlagsNext

LEMMA OthersStep ==
  ASSUME AdminInv, NEW c \in Admins, OthersNext(c)
  PROVE  AdminInv'
  <1>1. ASSUME QueryGet(c) \/ GroupList(c) \/ GroupGet(c) \/ FederationStatus(c)
        PROVE  AdminInv'
    BY <1>1, AreQuiet, GoesQuietly
       DEF QueryGet, GroupList, GroupGet, FederationStatus, Doing
  <1>2. ASSUME QueryRegister(c) \/ GroupDelete(c) \/ PurgePage(c) \/ PurgeAllPages(c)
                  \/ SelfIssueKey(c)
        PROVE  AdminInv'
    <2>1. PICK op \in {"query_register", "group_delete", "purge_page", "purge_all",
                       "self_issue"} : Doing(c, op)
      BY <1>2 DEF QueryRegister, GroupDelete, PurgePage, PurgeAllPages, SelfIssueKey
    <2>2. desk # "flags" /\ errand[c].at # "idle"
      BY <2>1, DoneAtADesk, DeskOf DEF Doing
    <2>3. PICK v \in [Rows -> 0 .. 1] : Only(v) /\ DeskGoes(c, "audit")
      <3>1. \A n \in 0 .. 1 : [rows EXCEPT ![Named(c)] = n] \in [Rows -> 0 .. 1]
        BY RowSet DEF AdminInv
      <3> QED
        <4>1. \/ Only([rows EXCEPT ![Named(c)] = 1]) /\ DeskGoes(c, "audit")
              \/ Only([rows EXCEPT ![Named(c)] = 0]) /\ DeskGoes(c, "audit")
              \/ Only(NoRow) /\ DeskGoes(c, "audit")
          BY <1>2 DEF QueryRegister, GroupDelete, PurgePage, PurgeAllPages, SelfIssueKey
        <4>2. /\ [rows EXCEPT ![Named(c)] = 1] \in [Rows -> 0 .. 1]
              /\ [rows EXCEPT ![Named(c)] = 0] \in [Rows -> 0 .. 1]
          BY <3>1
        <4> QED
          BY <4>1, <4>2, NoRowType, Zenon
    <2> QED
      BY <2>2, <2>3, GoesWriting
  <1>3. ASSUME GroupCreate(c) \/ GroupReplace(c) PROVE AdminInv'
    <2>1. desk = "groups" /\ errand[c].at # "idle"
      BY <1>3, DoneAtADesk, DeskOf DEF GroupCreate, GroupReplace, Doing
    <2> QED
      BY <1>3, <2>1, AreQuiet, GoesQuietly DEF GroupCreate, GroupReplace
  <1>4. ASSUME GroupPut(c) PROVE AdminInv'
    <2>1. desk # "flags" /\ errand[c].at # "idle"
      BY <1>4 DEF GroupPut, AdminInv, CallOfDesk
    <2>2. [rows EXCEPT ![Named(c)] = 1] \in [Rows -> 0 .. 1]
      BY RowSet DEF AdminInv
    <2> QED
      BY <1>4, <2>1, <2>2, AreQuiet, GoesQuietly, GoesWriting DEF GroupPut
  <1>5. ASSUME Compose(c) PROVE AdminInv'
    <2>1. PICK next \in [Rows -> 0 .. 1] :
             errand' = [errand EXCEPT ![c].at = "store", ![c].copy = next,
                                      ![c].todo = Breaking(rows, next)]
      BY <1>5 DEF Compose
    <2> DEFINE e == [errand[c] EXCEPT !.at = "store", !.copy = next,
                                      !.todo = Breaking(rows, next)]
    <2>2. e \in Errands /\ e.at = "store" /\ e.op = errand[c].op
      BY ZenonT(60) DEF Errands, AdminPlaces, AdminInv, AdminShape, Breaking
    <2>3. errand' = [errand EXCEPT ![c] = e]
      BY <2>1 DEF AdminInv, AdminShape, Errands
    <2>4. errand[c].op \in OpsAt[desk] /\ desk = "graph"
      BY <1>5, DoneAtADesk, DeskOf DEF Compose, Doing
    <2> HIDE DEF e
    <2> QED
      BY <1>5, <2>2, <2>3, <2>4, CallMoves DEF Compose
  <1>6. ASSUME StoreGraph(c) PROVE AdminInv'
    <2> DEFINE e == [errand[c] EXCEPT !.at = "ok", !.copy = NoRow]
    <2>1. e \in Errands /\ e.at = "ok" /\ e.op = errand[c].op
      BY NoRowType DEF Errands, AdminPlaces, AdminInv, AdminShape
    <2>2. errand' = [errand EXCEPT ![c] = e]
      BY <1>6 DEF StoreGraph, AdminInv, AdminShape, Errands
    <2>3. desk # "flags" /\ errand[c].op \in OpsAt[desk]
      BY <1>6, DoneAtADesk DEF StoreGraph, AdminInv, CallOfDesk
    <2>4. errand[c].copy \in [Rows -> 0 .. 1]
      BY DEF AdminInv, AdminShape, Errands
    <2> HIDE DEF e
    <2> QED
      BY <1>6, <2>1, <2>2, <2>3, <2>4, RowsChange DEF StoreGraph
  <1> QED
    BY <1>1, <1>2, <1>3, <1>4, <1>5, <1>6 DEF OthersNext

LEMMA CrashForgetsCalls ==
  ASSUME AdminInv, CrashRouter
  PROVE  AdminInv'
  <1>1. \A b \in Admins : errand'[b] = Idle
    BY DEF CrashRouter
  <1>2. AdminShape'
    BY NoRowType, IdleType DEF CrashRouter, AdminInv, AdminShape
  <1>3. \A b \in Admins : CallOfDesk(b)'
    BY <1>1, IdlePlace DEF CallOfDesk
  <1>4. (desk # "flags" => deletions = NoRow)' /\ DeletedIsGone'
    BY DEF CrashRouter, DeletedIsGone, NoRow
  <1> QED
    BY <1>2, <1>3, <1>4 DEF AdminInv

LEMMA AdminInvariant == AdminSpec => []AdminInv
  <1>1. AdminInit => AdminInv
    <2> SUFFICES ASSUME AdminInit PROVE AdminInv
      OBVIOUS
    <2>1. AdminShape
      BY NoRowType, IdleType DEF AdminInit, AdminShape, Desks
    <2>2. \A b \in Admins : CallOfDesk(b)
      BY DEF AdminInit, CallOfDesk, Idle
    <2> QED
      BY <2>1, <2>2 DEF AdminInit, AdminInv, DeletedIsGone, NoRow
  <1>2. AdminInv /\ [AdminNext]_adminVars => AdminInv'
    <2> SUFFICES ASSUME AdminInv, [AdminNext]_adminVars PROVE AdminInv'
      OBVIOUS
    <2>1. CASE UNCHANGED adminVars
      BY <2>1 DEF adminVars, AdminInv, AdminShape, CallOfDesk, DeletedIsGone
    <2> QED
      BY <2>1, ServedStep, RecordsStep, BackupsStep, FlagsStep, OthersStep,
         CrashForgetsCalls DEF AdminNext
  <1> QED
    BY <1>1, <1>2, PTL DEF AdminSpec

\* The calls of the control plane (handlers_hyper.rs:249-2219) and what they leave at
\* each desk: rows, flags, queries, groups, pages and backups keep their types.
THEOREM AdminTyped == AdminSpec => []AdminTypeOK
  <1>1. AdminInv => AdminTypeOK
    BY DEF AdminInv, AdminShape, AdminTypeOK, CallOfDesk, Errands
  <1> QED
    BY <1>1, AdminInvariant, PTL

\* feature_flag_delete_handler (handlers_hyper.rs:2153-2185): at most one caller is
\* told that it deleted a flag, whatever the callers, the rows and the order of their
\* steps, and whichever calls are dropped on the way.
THEOREM OneWinner == AdminSpec => []OneDeleteWins
  <1>1. AdminInv => OneDeleteWins
    BY DEF AdminInv, AdminShape, DeletedIsGone, OneDeleteWins
  <1> QED
    BY <1>1, AdminInvariant, PTL

-----------------------------------------------------------------------------
(* ApiClient *)

\* A call's second try has a key the server issued for it after the first was
\* refused, and accepts unless it dropped its keys again.
SecondTry(c) ==
    apiCall[c].tries = 1 =>
        /\ apiCall[c].at \in {"issued", "fetch"} =>
              apiCall[c].key \in live \/ apiCall[c].since < refusals
        /\ apiCall[c].at # "key"
        /\ apiCall[c].at = "401" => apiCall[c].since < refusals

CallPlaces == {"free", "key", "asking", "issued", "fetch", "ok", "other", "401", "told"}
CallReplies == {"none", "ok", "unreadable", "refused", "failed", "no answer"}
CallRecords == [at : CallPlaces, key : Nat, tries : {0, 1}, since : Nat,
                what : Functions \cup {"none"}, told : CallReplies, deed : BOOLEAN]

ClientInv ==
    /\ ClientTypeOK
    /\ apiCall \in [Calls -> CallRecords]
    /\ \A c \in Calls : SecondTry(c)

LEMMA PlacesOfCalls ==
    /\ "free" \in CallPlaces /\ "key" \in CallPlaces /\ "asking" \in CallPlaces
    /\ "issued" \in CallPlaces /\ "fetch" \in CallPlaces /\ "ok" \in CallPlaces
    /\ "other" \in CallPlaces /\ "401" \in CallPlaces /\ "told" \in CallPlaces
    /\ "none" \in CallReplies /\ "ok" \in CallReplies /\ "unreadable" \in CallReplies
    /\ "refused" \in CallReplies /\ "failed" \in CallReplies /\ "no answer" \in CallReplies
  BY DEF CallPlaces, CallReplies

LEMMA FreeIsRecord ==
    /\ Free \in CallRecords /\ Free.tries = 0 /\ Free.key = 0 /\ Free.since = 0
    /\ \A what \in Functions : /\ Begun(what) \in CallRecords /\ Begun(what).tries = 0
                                /\ Begun(what).key = 0 /\ Begun(what).since = 0
  <1>1. Free \in CallRecords /\ Free.tries = 0 /\ Free.key = 0 /\ Free.since = 0
    BY PlacesOfCalls DEF Free, CallRecords
  <1>2. ASSUME NEW what \in Functions
        PROVE  /\ Begun(what) \in CallRecords /\ Begun(what).tries = 0
               /\ Begun(what).key = 0 /\ Begun(what).since = 0
    BY <1>1, PlacesOfCalls DEF Begun, CallRecords
  <1> QED
    BY <1>1, <1>2

\* A call that moves on, with another key or its own.
LEMMA MovesWithKey ==
  ASSUME apiCall \in [Calls -> CallRecords], NEW c \in Calls, NEW a \in CallPlaces, NEW k \in Nat,
         apiCall' = [apiCall EXCEPT ![c].at = a, ![c].key = k]
  PROVE  /\ apiCall' \in [Calls -> CallRecords]
         /\ \A d \in Calls \ {c} : apiCall'[d] = apiCall[d]
         /\ apiCall'[c].at = a /\ apiCall'[c].key = k /\ apiCall'[c].since = apiCall[c].since
         /\ apiCall'[c].tries = apiCall[c].tries
  <1>1. PICK y : y = [apiCall[c] EXCEPT !.at = a, !.key = k]
    OBVIOUS
  <1>2. apiCall' = [apiCall EXCEPT ![c] = y]
    BY <1>1
  <1>3. /\ y \in CallRecords /\ y.at = a /\ y.key = k
        /\ y.since = apiCall[c].since /\ y.tries = apiCall[c].tries
    BY <1>1 DEF CallRecords
  <1> QED
    BY <1>2, <1>3

LEMMA MovesCall ==
  ASSUME apiCall \in [Calls -> CallRecords], NEW c \in Calls, NEW a \in CallPlaces,
         apiCall' = [apiCall EXCEPT ![c].at = a]
  PROVE  /\ apiCall' \in [Calls -> CallRecords]
         /\ \A d \in Calls \ {c} : apiCall'[d] = apiCall[d]
         /\ apiCall'[c].at = a /\ apiCall'[c].key = apiCall[c].key
         /\ apiCall'[c].since = apiCall[c].since /\ apiCall'[c].tries = apiCall[c].tries
  <1>1. PICK y : y = [apiCall[c] EXCEPT !.at = a]
    OBVIOUS
  <1>2. apiCall' = [apiCall EXCEPT ![c] = y]
    BY <1>1
  <1>3. /\ y \in CallRecords /\ y.at = a /\ y.key = apiCall[c].key
        /\ y.since = apiCall[c].since /\ y.tries = apiCall[c].tries
    BY <1>1 DEF CallRecords
  <1> QED
    BY <1>2, <1>3

LEMMA ClientStarts == ClientInit => ClientInv
  <1> SUFFICES ASSUME ClientInit PROVE ClientInv
    OBVIOUS
  <1>1. apiCall \in [Calls -> CallRecords] /\ \A c \in Calls : apiCall[c].tries = 0
    BY FreeIsRecord DEF ClientInit
  <1>2. ClientTypeOK
    BY ClientAssumption DEF ClientInit, ClientTypeOK, Free
  <1> QED
    BY <1>1, <1>2 DEF ClientInv, SecondTry

LEMMA TellsCall ==
  ASSUME NEW c \in Calls, apiCall \in [Calls -> CallRecords],
         NEW told \in CallReplies, apiCall' = Tell(c, told)
  PROVE  /\ apiCall' \in [Calls -> CallRecords]
         /\ \A d \in Calls \ {c} : apiCall'[d] = apiCall[d]
         /\ apiCall'[c].at = "told" /\ apiCall'[c].key = 0 /\ apiCall'[c].since = 0
  <1>1. PICK y : y = [apiCall[c] EXCEPT !.at = "told", !.told = told, !.key = 0, !.since = 0]
    OBVIOUS
  <1>2. apiCall' = [apiCall EXCEPT ![c] = y]
    BY <1>1 DEF Tell
  <1>3. "told" \in CallPlaces
    BY PlacesOfCalls
  <1>4. y \in CallRecords /\ y.at = "told" /\ y.key = 0 /\ y.since = 0
    BY <1>1, <1>3 DEF CallRecords
  <1> QED
    BY <1>2, <1>4

\* A step of one call that leaves the server's keys alone.
LEMMA OneCall ==
  ASSUME ClientInv, NEW c \in Calls, UNCHANGED serverKeys,
         cached' \in [Pages -> 0 .. issued], stored' \in 0 .. issued,
         apiCall' \in [Calls -> CallRecords],
         \A d \in Calls \ {c} : apiCall'[d] = apiCall[d],
         apiCall'[c].key \in 0 .. issued, apiCall'[c].since \in 0 .. refusals,
         SecondTry(c)'
  PROVE  ClientInv'
  <1>1. issued' = issued /\ live' = live /\ refusals' = refusals
    BY DEF serverKeys
  <1>2. ASSUME NEW d \in Calls
        PROVE  /\ apiCall'[d].key \in 0 .. issued /\ apiCall'[d].since \in 0 .. refusals
               /\ apiCall'[d].at \in CallPlaces /\ SecondTry(d)'
    <2>1. apiCall'[d] \in CallRecords
      OBVIOUS
    <2>2. apiCall'[d].at \in CallPlaces
      BY <2>1 DEF CallRecords
    <2>3. CASE d = c
      BY <2>2, <2>3
    <2>4. CASE d # c
      BY <1>1, <2>2, <2>4 DEF ClientInv, ClientTypeOK, SecondTry
    <2> QED
      BY <2>3, <2>4
  <1>3. ClientTypeOK'
    BY <1>1, <1>2 DEF ClientTypeOK, ClientInv, CallPlaces
  <1> QED
    BY <1>2, <1>3 DEF ClientInv

LEMMA ClientStep ==
  ASSUME ClientInv, [ClientNext]_clientVars
  PROVE  ClientInv'
  <1> DEFINE R(c) == apiCall[c]
  <1>1. /\ apiCall \in [Calls -> CallRecords] /\ cached \in [Pages -> 0 .. issued]
        /\ stored \in 0 .. issued /\ issued \in Nat /\ live \subseteq 1 .. issued /\ refusals \in Nat
        /\ \A c \in Calls : /\ apiCall[c].key \in 0 .. issued /\ apiCall[c].since \in 0 .. refusals
                            /\ PageOf[c] \in Pages
    BY ClientAssumption DEF ClientInv, ClientTypeOK
  <1>2. CASE UNCHANGED clientVars
    BY <1>2 DEF clientVars, ClientInv, ClientTypeOK, SecondTry
  <1>3. ASSUME NEW c \in Calls, Begin(c) PROVE ClientInv'
    <2>1. PICK what \in Functions : apiCall' = [apiCall EXCEPT ![c] = Begun(what)]
      BY <1>3 DEF Begin
    <2>2. Begun(what) \in CallRecords /\ Begun(what).tries = 0 /\ Begun(what).key = 0
          /\ Begun(what).since = 0
      BY FreeIsRecord
    <2>3. SecondTry(c)'
      BY <1>1, <2>1, <2>2 DEF SecondTry
    <2> QED
      BY <1>1, <1>3, <2>1, <2>2, <2>3, OneCall DEF Begin
  <1>4. ASSUME NEW c \in Calls, KeyAtHand(c) PROVE ClientInv'
    <2>1. PICK key \in 0 .. issued :
            /\ apiCall[c].at = "key" /\ key # 0
            /\ cached' = [cached EXCEPT ![PageOf[c]] = key]
            /\ apiCall' = [apiCall EXCEPT ![c].at = "fetch", ![c].key = key]
            /\ stored' = stored
      BY <1>1, <1>4 DEF KeyAtHand, Cached
    <2>2. "fetch" \in CallPlaces /\ key \in Nat
      <3>1. key \in Nat
        BY <1>1
      <3> QED
        BY <3>1, PlacesOfCalls
    <2>3. /\ apiCall' \in [Calls -> CallRecords] /\ \A d \in Calls \ {c} : apiCall'[d] = apiCall[d]
          /\ apiCall'[c].tries = apiCall[c].tries /\ apiCall'[c].key = key
          /\ apiCall'[c].since = apiCall[c].since
      BY <1>1, <2>1, <2>2, MovesWithKey
    <2>4. SecondTry(c)'
      BY <1>1, <2>1, <2>3 DEF SecondTry, ClientInv
    <2> QED
      BY <1>1, <1>4, <2>1, <2>2, <2>3, <2>4, OneCall DEF KeyAtHand
  <1>5. ASSUME NEW c \in Calls, AskForKey(c) PROVE ClientInv'
    <2>1. "asking" \in CallPlaces
      BY PlacesOfCalls
    <2>2. /\ apiCall' \in [Calls -> CallRecords] /\ \A d \in Calls \ {c} : apiCall'[d] = apiCall[d]
          /\ apiCall'[c].at = "asking" /\ apiCall'[c].key = apiCall[c].key
          /\ apiCall'[c].since = apiCall[c].since
      BY <1>1, <1>5, <2>1, MovesCall DEF AskForKey
    <2> QED
      BY <1>1, <1>5, <2>2, OneCall DEF AskForKey, SecondTry
  <1>6. ASSUME NEW c \in Calls, IssueOwnKey(c) PROVE ClientInv'
    <2>1. /\ issued' = issued + 1 /\ live' = live \cup {issued + 1} /\ issued < MaxKeys
          /\ apiCall' = [apiCall EXCEPT ![c].at = "issued", ![c].key = issued + 1]
          /\ UNCHANGED <<cached, stored, refusals>>
      BY <1>6 DEF IssueOwnKey
    <2>2. "issued" \in CallPlaces /\ issued + 1 \in Nat
      <3>1. issued + 1 \in Nat
        BY <1>1
      <3> QED
        BY <3>1, PlacesOfCalls
    <2>3. /\ apiCall' \in [Calls -> CallRecords] /\ \A d \in Calls \ {c} : apiCall'[d] = apiCall[d]
          /\ apiCall'[c].at = "issued" /\ apiCall'[c].key = issued + 1
          /\ apiCall'[c].since = apiCall[c].since
      <3>1. PICK y : y = [apiCall[c] EXCEPT !.at = "issued", !.key = issued + 1]
        OBVIOUS
      <3>2. apiCall' = [apiCall EXCEPT ![c] = y]
        BY <2>1, <3>1
      <3>3. apiCall[c] \in CallRecords
        BY <1>1
      <3>4. y \in CallRecords /\ y.at = "issued" /\ y.key = issued + 1 /\ y.since = apiCall[c].since
        BY <2>2, <3>1, <3>3 DEF CallRecords
      <3> QED
        BY <1>1, <3>2, <3>4
    <2>4. ASSUME NEW d \in Calls
          PROVE  /\ apiCall'[d].key \in 0 .. issued' /\ apiCall'[d].since \in 0 .. refusals'
                 /\ SecondTry(d)' /\ apiCall'[d].at \in CallPlaces
      <3>1. CASE d = c
        BY <1>1, <2>1, <2>2, <2>3, <3>1 DEF SecondTry
      <3>2. CASE d # c
        <4>1. apiCall'[d] = apiCall[d] /\ SecondTry(d) /\ apiCall[d] \in CallRecords
          BY <1>1, <2>3, <3>2 DEF ClientInv
        <4>2. apiCall[d].at \in CallPlaces
          BY <4>1 DEF CallRecords
        <4>3. SecondTry(d)'
          BY <2>1, <4>1 DEF SecondTry
        <4> QED
          <5>1. apiCall'[d].key \in 0 .. issued' /\ apiCall'[d].since \in 0 .. refusals'
            BY <1>1, <2>1, <4>1
          <5>2. apiCall'[d].at \in CallPlaces
            BY <4>1, <4>2
          <5> QED
            BY <4>3, <5>1, <5>2
      <3> QED
        BY <3>1, <3>2
    <2>5. /\ issued' \in 0 .. MaxKeys /\ live' \subseteq 1 .. issued'
          /\ cached' \in [Pages -> 0 .. issued'] /\ stored' \in 0 .. issued'
          /\ refusals' \in 0 .. MaxRefusals
      BY <1>1, <2>1, ClientAssumption DEF ClientInv, ClientTypeOK
    <2> QED
      BY <2>3, <2>4, <2>5 DEF ClientInv, ClientTypeOK, CallPlaces
  <1>7. ASSUME NEW c \in Calls, KeepKey(c) PROVE ClientInv'
    <2>1. "fetch" \in CallPlaces
      BY PlacesOfCalls
    <2>2. /\ apiCall' \in [Calls -> CallRecords] /\ \A d \in Calls \ {c} : apiCall'[d] = apiCall[d]
          /\ apiCall'[c].at = "fetch" /\ apiCall'[c].key = apiCall[c].key
          /\ apiCall'[c].since = apiCall[c].since /\ apiCall'[c].tries = apiCall[c].tries
      BY <1>1, <1>7, <2>1, MovesCall DEF KeepKey
    <2>3. SecondTry(c)'
      BY <1>7, <2>2 DEF SecondTry, KeepKey, serverKeys, ClientInv
    <2> QED
      BY <1>1, <1>7, <2>2, <2>3, OneCall DEF KeepKey
  <1>8. ASSUME NEW c \in Calls, ServerActs(c) PROVE ClientInv'
    <2>1. PICK status \in {"ok", "other", "401"} :
            /\ status = "401" => apiCall[c].key \notin live
            /\ apiCall' = [apiCall EXCEPT ![c].at = status, ![c].deed = (status = "ok")]
      BY <1>8 DEF ServerActs
    <2>2. PICK y : y = [apiCall[c] EXCEPT !.at = status, !.deed = (status = "ok")]
      OBVIOUS
    <2>3. apiCall' = [apiCall EXCEPT ![c] = y]
      BY <2>1, <2>2
    <2>4. status \in CallPlaces /\ apiCall[c] \in CallRecords
      BY <1>1, PlacesOfCalls
    <2>5. /\ y \in CallRecords /\ y.at = status /\ y.key = apiCall[c].key
          /\ y.since = apiCall[c].since /\ y.tries = apiCall[c].tries
      BY <2>2, <2>4 DEF CallRecords
    <2>6. /\ apiCall' \in [Calls -> CallRecords] /\ \A d \in Calls \ {c} : apiCall'[d] = apiCall[d]
          /\ apiCall'[c] = y
      BY <1>1, <2>3, <2>5
    <2>7. SecondTry(c)'
      BY <1>8, <2>1, <2>5, <2>6 DEF SecondTry, ServerActs, serverKeys, ClientInv
    <2> QED
      BY <1>1, <1>8, <2>5, <2>6, <2>7, OneCall DEF ServerActs
  <1>9. ASSUME NEW c \in Calls, Refused(c) PROVE ClientInv'
    <2>1. /\ stored' = 0 /\ cached' \in [Pages -> 0 .. issued]
          /\ apiCall' = [apiCall EXCEPT ![c].at = "asking", ![c].key = 0, ![c].tries = 1,
                                        ![c].since = refusals]
      BY <1>1, <1>9 DEF Refused, ClearCachedApiKey
    <2>2. PICK y : y = [apiCall[c] EXCEPT !.at = "asking", !.key = 0, !.tries = 1, !.since = refusals]
      OBVIOUS
    <2>3. apiCall' = [apiCall EXCEPT ![c] = y]
      BY <2>1, <2>2
    <2>4. "asking" \in CallPlaces /\ apiCall[c] \in CallRecords
      BY <1>1, PlacesOfCalls
    <2>5. y \in CallRecords /\ y.at = "asking" /\ y.key = 0 /\ y.since = refusals
      BY <1>1, <2>2, <2>4 DEF CallRecords
    <2>6. /\ apiCall' \in [Calls -> CallRecords] /\ \A d \in Calls \ {c} : apiCall'[d] = apiCall[d]
          /\ apiCall'[c] = y
      BY <1>1, <2>3, <2>5
    <2> QED
      BY <1>1, <1>9, <2>1, <2>5, <2>6, OneCall DEF Refused, SecondTry
  <1>10. ASSUME NEW c \in Calls, Failed(c) \/ BodyRead(c) \/ FetchFails(c) PROVE ClientInv'
    <2>1. PICK told \in CallReplies : apiCall' = Tell(c, told)
      BY <1>10, PlacesOfCalls DEF Failed, BodyRead, FetchFails
    <2>2. UNCHANGED <<cached, stored, serverKeys>>
      BY <1>10 DEF Failed, BodyRead, FetchFails
    <2>3. /\ apiCall' \in [Calls -> CallRecords]
          /\ \A d \in Calls \ {c} : apiCall'[d] = apiCall[d]
          /\ apiCall'[c].at = "told" /\ apiCall'[c].key = 0 /\ apiCall'[c].since = 0
      BY <1>1, <2>1, TellsCall
    <2> QED
      BY <1>1, <2>2, <2>3, OneCall DEF SecondTry
  <1>11. ASSUME NEW c \in Calls, Read(c) PROVE ClientInv'
    BY <1>1, <1>11, FreeIsRecord, OneCall DEF Read, SecondTry
  <1>12. CASE KeysDie
    <2>1. refusals' = refusals + 1 /\ refusals < MaxRefusals /\ live' = {}
          /\ UNCHANGED <<cached, stored, issued, apiCall>>
      BY <1>12 DEF KeysDie
    <2>2. \A c \in Calls : apiCall[c].since < refusals'
      BY <1>1, <2>1
    <2>3. ClientTypeOK'
      BY <1>1, <2>1, ClientAssumption DEF ClientInv, ClientTypeOK
    <2>4. \A c \in Calls : SecondTry(c)'
      BY <2>1, <2>2 DEF ClientInv, SecondTry
    <2> QED
      BY <1>1, <2>1, <2>3, <2>4 DEF ClientInv
  <1>13. ASSUME NEW p \in Pages, Reload(p) PROVE ClientInv'
    <2>1. /\ cached' \in [Pages -> 0 .. issued] /\ UNCHANGED <<stored, issued, live, refusals>>
          /\ apiCall' \in [Calls -> CallRecords]
          /\ \A c \in Calls : apiCall'[c] = Free \/ apiCall'[c] = apiCall[c]
      BY <1>1, <1>13, FreeIsRecord DEF Reload, serverKeys
    <2>2. ASSUME NEW c \in Calls
          PROVE  /\ SecondTry(c)' /\ apiCall'[c].key \in 0 .. issued
                 /\ apiCall'[c].since \in 0 .. refusals /\ apiCall'[c].at \in CallPlaces
      <3>1. apiCall'[c] \in CallRecords
        BY <2>1
      <3>2. apiCall'[c].at \in CallPlaces
        BY <3>1 DEF CallRecords
      <3> QED
        BY <1>1, <2>1, <3>2, FreeIsRecord DEF SecondTry, ClientInv
    <2>3. ClientTypeOK'
      BY <1>1, <2>1, <2>2 DEF ClientInv, ClientTypeOK, CallPlaces
    <2> QED
      BY <2>1, <2>2, <2>3 DEF ClientInv
  <1> QED
    BY <1>2, <1>3, <1>4, <1>5, <1>6, <1>7, <1>8, <1>9, <1>10, <1>11, <1>12, <1>13
       DEF ClientNext, Calling

LEMMA ClientInvariant == ClientSpec => []ClientInv
  <1>1. ClientInit => ClientInv
    BY ClientStarts
  <1>2. ClientInv /\ [ClientNext]_clientVars => ClientInv'
    BY ClientStep
  <1> QED
    BY <1>1, <1>2, PTL DEF ClientSpec

\* The calls of the admin client (api.rs:22-214), the key each of its tabs remembers
\* and the one they share in the storage keep their types.
THEOREM ClientTyped == ClientSpec => []ClientTypeOK
  <1>1. ClientInv => ClientTypeOK
    BY DEF ClientInv
  <1> QED
    BY <1>1, ClientInvariant, PTL

\* send (api.rs:162-194): a refused key reaches the user only when the server dropped
\* its keys again after the call had noticed it once, for any tabs, calls and reloads.
THEOREM FreshRetry == ClientSpec => []RetryHasFreshKey
  <1>1. ClientInv => RetryHasFreshKey
    BY DEF ClientInv, SecondTry, RetryHasFreshKey
  <1> QED
    BY <1>1, ClientInvariant, PTL

-----------------------------------------------------------------------------
(* AdminPages                                                              *)

\* The page a button is on.
Home(name) ==
    CASE name \in {"health_check"} -> "dashboard"
      [] name \in {"register-btn", "upload-btn", "hist-btn"} -> "schemas"
      [] name \in {"refresh-status-btn"} -> "federation"
      [] name \in {"route-btn"} -> "ai-routing"
      [] name \in {"db-list-btn", "db-get-btn", "db-put-btn", "db-delete-btn"} -> "db"
      [] name \in {"scim-refresh-btn", "scim-create-btn", "scim-delete-btn"} -> "scim"
      [] name \in {"pq-register-btn", "pq-fetch-btn"} -> "persisted-queries"
      [] name \in {"ff-refresh-btn", "ff-upsert-btn", "ff-eval-btn", "ff-delete-btn"} -> "feature-flags"
      [] name \in {"cache-purge-btn", "cache-purge-all-btn", "cache-stats-btn", "backup-export-btn",
                   "integrity-check-btn"} -> "cache-backup"
      [] name \in {"analytics-refresh-btn", "operations_summary"} -> "analytics"
      [] OTHER -> "nowhere"

\* A page's buttons have names of their own, the tasks they start are on the page,
\* and no more than one loads with it.
Tidy(page, tasks) ==
    /\ \A t \in tasks : Home(t.name) = page
    /\ \A t, u \in tasks : t.name = u.name \/ (t.loads /\ u.loads) => t = u
    /\ \A t \in tasks : \A next \in {t.then, t.else} \ {"none"} :
          next # t.name /\ \E u \in tasks : u.name = next

LEMMA DashboardTidy == Tidy("dashboard", DashboardPage)
  <1>1. PICK a :
          /\ DashboardPage = {a}
          /\ a = Loads(Task("health_check", "health-status"))
    BY DEF DashboardPage
  <1>2. a.name = "health_check" /\ a.loads /\ a.then = "none" /\ a.else = "none"
    BY <1>1 DEF Task, Loads
  <1> QED
    BY <1>1, <1>2 DEF Tidy, Home

LEMMA SchemasTidy == Tidy("schemas", SchemasPage)
  <1>1. PICK a, b, c :
          /\ SchemasPage = {a, b, c}
          /\ a = Shuts(Task("register-btn", "register-msg"))
          /\ b = Shuts(Task("upload-btn", "upload-msg"))
          /\ c = Task("hist-btn", "history-list")
    BY DEF SchemasPage
  <1>2. a.name = "register-btn" /\ ~a.loads /\ a.then = "none" /\ a.else = "none"
    BY <1>1 DEF Task, Shuts
  <1>3. b.name = "upload-btn" /\ ~b.loads /\ b.then = "none" /\ b.else = "none"
    BY <1>1 DEF Task, Shuts
  <1>4. c.name = "hist-btn" /\ ~c.loads /\ c.then = "none" /\ c.else = "none"
    BY <1>1 DEF Task
  <1> QED
    BY <1>1, <1>2, <1>3, <1>4 DEF Tidy, Home

LEMMA FederationTidy == Tidy("federation", FederationPage)
  <1>1. PICK a :
          /\ FederationPage = {a}
          /\ a = Loads(Task("refresh-status-btn", "federation-status"))
    BY DEF FederationPage
  <1>2. a.name = "refresh-status-btn" /\ a.loads /\ a.then = "none" /\ a.else = "none"
    BY <1>1 DEF Task, Loads
  <1> QED
    BY <1>1, <1>2 DEF Tidy, Home

LEMMA AiRoutingTidy == Tidy("ai-routing", AiRoutingPage)
  <1>1. PICK a :
          /\ AiRoutingPage = {a}
          /\ a = Task("route-btn", "route-result")
    BY DEF AiRoutingPage
  <1>2. a.name = "route-btn" /\ ~a.loads /\ a.then = "none" /\ a.else = "none"
    BY <1>1 DEF Task
  <1> QED
    BY <1>1, <1>2 DEF Tidy, Home

LEMMA DatabaseTidy == Tidy("db", DatabasePage)
  <1>1. PICK a, b, c, d :
          /\ DatabasePage = {a, b, c, d}
          /\ a = Task("db-list-btn", "db-list-result")
          /\ b = Task("db-get-btn", "db-record-result")
          /\ c = Shuts(Task("db-put-btn", "db-record-result"))
          /\ d = Confirms(Task("db-delete-btn", "db-record-result"))
    BY DEF DatabasePage
  <1>2. a.name = "db-list-btn" /\ ~a.loads /\ a.then = "none" /\ a.else = "none"
    BY <1>1 DEF Task
  <1>3. b.name = "db-get-btn" /\ ~b.loads /\ b.then = "none" /\ b.else = "none"
    BY <1>1 DEF Task
  <1>4. c.name = "db-put-btn" /\ ~c.loads /\ c.then = "none" /\ c.else = "none"
    BY <1>1 DEF Task, Shuts
  <1>5. d.name = "db-delete-btn" /\ ~d.loads /\ d.then = "none" /\ d.else = "none"
    BY <1>1 DEF Task, Shuts, Confirms
  <1> QED
    BY <1>1, <1>2, <1>3, <1>4, <1>5 DEF Tidy, Home

LEMMA ScimTidy == Tidy("scim", ScimPage)
  <1>1. PICK a, b, c :
          /\ ScimPage = {a, b, c}
          /\ a = Loads(Task("scim-refresh-btn", "scim-user-list"))
          /\ b = Then(Shuts(Task("scim-create-btn", "scim-create-msg")), "scim-refresh-btn")
          /\ c = Then(Confirms(Task("scim-delete-btn", "scim-delete-msg")), "scim-refresh-btn")
    BY DEF ScimPage
  <1>2. a.name = "scim-refresh-btn" /\ a.loads /\ a.then = "none" /\ a.else = "none"
    BY <1>1 DEF Task, Loads
  <1>3. b.name = "scim-create-btn" /\ ~b.loads /\ b.then = "scim-refresh-btn" /\ b.else = "none"
    BY <1>1 DEF Task, Shuts, Then
  <1>4. c.name = "scim-delete-btn" /\ ~c.loads /\ c.then = "scim-refresh-btn" /\ c.else = "none"
    BY <1>1 DEF Task, Shuts, Confirms, Then
  <1> QED
    BY <1>1, <1>2, <1>3, <1>4 DEF Tidy, Home

LEMMA QueriesTidy == Tidy("persisted-queries", PersistedQueriesPage)
  <1>1. PICK a, b :
          /\ PersistedQueriesPage = {a, b}
          /\ a = Task("pq-register-btn", "pq-register-result")
          /\ b = Task("pq-fetch-btn", "pq-fetch-result")
    BY DEF PersistedQueriesPage
  <1>2. a.name = "pq-register-btn" /\ ~a.loads /\ a.then = "none" /\ a.else = "none"
    BY <1>1 DEF Task
  <1>3. b.name = "pq-fetch-btn" /\ ~b.loads /\ b.then = "none" /\ b.else = "none"
    BY <1>1 DEF Task
  <1> QED
    BY <1>1, <1>2, <1>3 DEF Tidy, Home

LEMMA FlagsTidy == Tidy("feature-flags", FeatureFlagsPage)
  <1>1. PICK a, b, c, d :
          /\ FeatureFlagsPage = {a, b, c, d}
          /\ a = Loads(Task("ff-refresh-btn", "ff-list"))
          /\ b = Then(Shuts(Task("ff-upsert-btn", "ff-upsert-msg")), "ff-refresh-btn")
          /\ c = Task("ff-eval-btn", "ff-eval-result")
          /\ d = Then(Confirms(Task("ff-delete-btn", "ff-delete-msg")), "ff-refresh-btn")
    BY DEF FeatureFlagsPage
  <1>2. a.name = "ff-refresh-btn" /\ a.loads /\ a.then = "none" /\ a.else = "none"
    BY <1>1 DEF Task, Loads
  <1>3. b.name = "ff-upsert-btn" /\ ~b.loads /\ b.then = "ff-refresh-btn" /\ b.else = "none"
    BY <1>1 DEF Task, Shuts, Then
  <1>4. c.name = "ff-eval-btn" /\ ~c.loads /\ c.then = "none" /\ c.else = "none"
    BY <1>1 DEF Task
  <1>5. d.name = "ff-delete-btn" /\ ~d.loads /\ d.then = "ff-refresh-btn" /\ d.else = "none"
    BY <1>1 DEF Task, Shuts, Confirms, Then
  <1> QED
    BY <1>1, <1>2, <1>3, <1>4, <1>5 DEF Tidy, Home

LEMMA BackupTidy == Tidy("cache-backup", CacheBackupPage)
  <1>1. PICK a, b, c, d, e :
          /\ CacheBackupPage = {a, b, c, d, e}
          /\ a = Task("cache-purge-btn", "cache-result")
          /\ b = Confirms(Task("cache-purge-all-btn", "cache-result"))
          /\ c = Task("cache-stats-btn", "cache-result")
          /\ d = Task("backup-export-btn", "backup-result")
          /\ e = Task("integrity-check-btn", "backup-result")
    BY DEF CacheBackupPage
  <1>2. a.name = "cache-purge-btn" /\ ~a.loads /\ a.then = "none" /\ a.else = "none"
    BY <1>1 DEF Task
  <1>3. b.name = "cache-purge-all-btn" /\ ~b.loads /\ b.then = "none" /\ b.else = "none"
    BY <1>1 DEF Task, Shuts, Confirms
  <1>4. c.name = "cache-stats-btn" /\ ~c.loads /\ c.then = "none" /\ c.else = "none"
    BY <1>1 DEF Task
  <1>5. d.name = "backup-export-btn" /\ ~d.loads /\ d.then = "none" /\ d.else = "none"
    BY <1>1 DEF Task
  <1>6. e.name = "integrity-check-btn" /\ ~e.loads /\ e.then = "none" /\ e.else = "none"
    BY <1>1 DEF Task
  <1> QED
    BY <1>1, <1>2, <1>3, <1>4, <1>5, <1>6 DEF Tidy, Home

LEMMA AnalyticsTidy == Tidy("analytics", AnalyticsPage)
  <1>1. PICK a, b : AnalyticsPage = {a, b}
            /\ a = [Loads(Task("analytics-refresh-btn", "analytics-months-body"))
                      EXCEPT !.spins = FALSE, !.then = "operations_summary", !.else = "operations_summary"]
            /\ b = [Task("operations_summary", "analytics-ops-body") EXCEPT !.spins = FALSE]
    BY DEF AnalyticsPage
  <1>2. /\ a.name = "analytics-refresh-btn" /\ a.loads /\ a.then = "operations_summary"
        /\ a.else = "operations_summary"
    BY <1>1 DEF Loads, Task
  <1>3. /\ b.name = "operations_summary" /\ ~b.loads /\ b.then = "none" /\ b.else = "none"
    BY <1>1 DEF Task
  <1> QED
    BY <1>1, <1>2, <1>3 DEF Tidy, Home

LEMMA PagesTidy == \A page \in Links : Tidy(page, TasksOf(page))
  BY DashboardTidy, SchemasTidy, FederationTidy, AiRoutingTidy, DatabaseTidy, ScimTidy, QueriesTidy,
     FlagsTidy, BackupTidy, AnalyticsTidy DEF Links, TasksOf

LEMMA PagesAreLinks == Visited \cup {"dashboard"} \subseteq Links /\ MaxTasks \in Nat \ {0}
  BY PagesAssumption DEF Links

\* A name is one task's, and what a task starts is a task of the same page.
LEMMA NamesAreOnes ==
  ASSUME NEW t \in PageTasks, NEW u \in PageTasks, t.name = u.name
  PROVE  t = u
  <1>1. PICK p \in Links, q \in Links : t \in TasksOf(p) /\ u \in TasksOf(q)
    BY PagesAreLinks DEF PageTasks
  <1>2. Home(t.name) = p /\ Home(u.name) = q
    BY <1>1, PagesTidy DEF Tidy
  <1> QED
    BY <1>1, <1>2, PagesTidy DEF Tidy

LEMMA StartsATask ==
  ASSUME NEW t \in PageTasks, NEW next \in {t.then, t.else}, next # "none"
  PROVE  /\ t.name \in TaskNames /\ next \in TaskNames /\ next # t.name
         /\ TaskNamed(next) \in PageTasks /\ TaskNamed(next).name = next
  <1>1. PICK p \in Visited \cup {"dashboard"} : t \in TasksOf(p)
    BY DEF PageTasks
  <1>2. next # t.name /\ \E u \in TasksOf(p) : u.name = next
    BY <1>1, PagesAreLinks, PagesTidy DEF Tidy
  <1>3. \E u \in PageTasks : u.name = next
    BY <1>1, <1>2 DEF PageTasks
  <1> QED
    BY <1>2, <1>3 DEF TaskNamed, TaskNames

LEMMA FewNames == IsFiniteSet(TaskNames)
  <1> DEFINE Five(a, b, c, d, e) == ((({a} \cup {b}) \cup {c}) \cup {d}) \cup {e}
  <1>1. \A a, b, c, d, e : IsFiniteSet(Five(a, b, c, d, e))
    <2> TAKE a, b, c, d, e
    <2>1. IsFiniteSet({a} \cup {b})
      BY FS_Singleton, FS_AddElement
    <2>2. IsFiniteSet(({a} \cup {b}) \cup {c})
      BY <2>1, FS_AddElement
    <2>3. IsFiniteSet((({a} \cup {b}) \cup {c}) \cup {d})
      BY <2>2, FS_AddElement
    <2> QED
      BY <2>3, FS_AddElement
  <1> DEFINE One == Five("health_check", "register-btn", "upload-btn", "hist-btn", "refresh-status-btn")
             Two == Five("route-btn", "db-list-btn", "db-get-btn", "db-put-btn", "db-delete-btn")
             Three == Five("scim-refresh-btn", "scim-create-btn", "scim-delete-btn",
                           "pq-register-btn", "pq-fetch-btn")
             Four == Five("ff-refresh-btn", "ff-upsert-btn", "ff-eval-btn", "ff-delete-btn",
                          "analytics-refresh-btn")
             Rest == Five("cache-purge-btn", "cache-purge-all-btn", "cache-stats-btn",
                          "backup-export-btn", "integrity-check-btn") \cup {"operations_summary"}
             Names == (((One \cup Two) \cup Three) \cup Four) \cup Rest
  <1>2. IsFiniteSet(Names)
    <2>1. IsFiniteSet(One) /\ IsFiniteSet(Two) /\ IsFiniteSet(Three) /\ IsFiniteSet(Four)
      BY <1>1
    <2>2. IsFiniteSet(Rest)
      <3>1. IsFiniteSet(Five("cache-purge-btn", "cache-purge-all-btn", "cache-stats-btn",
                             "backup-export-btn", "integrity-check-btn"))
        BY <1>1
      <3> HIDE DEF Five
      <3> QED
        BY <3>1, FS_AddElement
    <2> HIDE DEF One, Two, Three, Four, Rest
    <2> QED
      BY <2>1, <2>2, FS_Union
  <1>3. \A t \in PageTasks : t.name \in Names
    <2> SUFFICES ASSUME NEW t \in PageTasks PROVE t.name \in Names
      OBVIOUS
    <2>1. PICK p \in Links : Home(t.name) = p
      BY PagesAreLinks, PagesTidy DEF PageTasks, Tidy
    <2> QED
      BY <2>1 DEF Links, Home
  <1>4. TaskNames \in SUBSET Names
    BY <1>3 DEF TaskNames
  <1> QED
    BY <1>2, <1>4, FS_Subset

(* Counting the tasks that wait                                            *)

Ahead(w) == {q \in TaskNames \X (1 .. MaxTasks) : q[2] <= w[q[1]]}
Waits == [TaskNames -> 0 .. MaxTasks]

LEMMA AheadFinite ==
  ASSUME NEW w
  PROVE  IsFiniteSet(Ahead(w)) /\ Cardinality(Ahead(w)) \in Nat
  <1>1. IsFiniteSet(1 .. MaxTasks)
    BY PagesAreLinks, FS_Interval
  <1>2. IsFiniteSet(TaskNames \X (1 .. MaxTasks)) /\ Ahead(w) \in SUBSET (TaskNames \X (1 .. MaxTasks))
    BY <1>1, FewNames, FS_Product DEF Ahead
  <1>3. IsFiniteSet(Ahead(w))
    BY <1>2, FS_Subset
  <1> QED
    BY <1>3, FS_CardinalityType

LEMMA AheadHasRoom ==
  ASSUME NEW w \in Waits, NEW n \in TaskNames, Cardinality(Ahead(w)) < MaxTasks
  PROVE  w[n] < MaxTasks
  <1> SUFFICES ASSUME w[n] = MaxTasks PROVE FALSE
    BY PagesAreLinks DEF Waits
  <1>1. ({n} \X (1 .. MaxTasks)) \in SUBSET Ahead(w)
    BY DEF Ahead
  <1>2. IsFiniteSet({n}) /\ Cardinality({n}) = 1
    BY FS_Singleton
  <1>3. IsFiniteSet(1 .. MaxTasks) /\ Cardinality(1 .. MaxTasks) = MaxTasks
    <2>1. 1 \in Int /\ MaxTasks \in Int /\ ~(1 > MaxTasks) /\ MaxTasks - 1 + 1 = MaxTasks
      BY PagesAreLinks
    <2>2. /\ IsFiniteSet(1 .. MaxTasks)
          /\ Cardinality(1 .. MaxTasks) = IF 1 > MaxTasks THEN 0 ELSE MaxTasks - 1 + 1
      BY <2>1, FS_Interval
    <2> QED
      BY <2>1, <2>2
  <1>4. Cardinality({n} \X (1 .. MaxTasks)) = Cardinality({n}) * Cardinality(1 .. MaxTasks)
    BY <1>2, <1>3, FS_Product
  <1>5. Cardinality({n} \X (1 .. MaxTasks)) <= Cardinality(Ahead(w))
    BY <1>1, AheadFinite, FS_Subset
  <1> QED
    BY <1>2, <1>3, <1>4, <1>5, PagesAreLinks, AheadFinite

LEMMA AheadMore ==
  ASSUME NEW w \in Waits, NEW n \in TaskNames, Cardinality(Ahead(w)) < MaxTasks
  PROVE  /\ [w EXCEPT ![n] = w[n] + 1] \in Waits
         /\ Cardinality(Ahead([w EXCEPT ![n] = w[n] + 1])) = Cardinality(Ahead(w)) + 1
  <1>1. w[n] \in 0 .. MaxTasks /\ w[n] + 1 \in 1 .. MaxTasks /\ MaxTasks \in Nat
    BY AheadHasRoom, PagesAreLinks DEF Waits
  <1>2. PICK v : v = [w EXCEPT ![n] = w[n] + 1]
    OBVIOUS
  <1>3. v \in Waits /\ v[n] = w[n] + 1 /\ \A m \in TaskNames \ {n} : v[m] = w[m]
    BY <1>1, <1>2 DEF Waits
  <1>4. <<n, w[n] + 1>> \notin Ahead(w)
    BY <1>1 DEF Ahead
  <1>5. Ahead(v) = Ahead(w) \cup {<<n, w[n] + 1>>}
    <2>1. ASSUME NEW q \in TaskNames \X (1 .. MaxTasks)
          PROVE  q[2] <= v[q[1]] <=> q[2] <= w[q[1]] \/ q = <<n, w[n] + 1>>
      <3>1. CASE q[1] = n
        BY <1>1, <1>3, <3>1, <2>1
      <3>2. CASE q[1] # n
        BY <1>3, <3>2, <2>1
      <3> QED
        BY <3>1, <3>2
    <2>2. <<n, w[n] + 1>> \in TaskNames \X (1 .. MaxTasks)
      BY <1>1
    <2> QED
      BY <2>1, <2>2 DEF Ahead
  <1>6. Cardinality(Ahead(w) \cup {<<n, w[n] + 1>>}) = Cardinality(Ahead(w)) + 1
    BY <1>4, AheadFinite, FS_AddElement
  <1> QED
    BY <1>2, <1>3, <1>5, <1>6

LEMMA AheadLess ==
  ASSUME NEW w \in Waits, NEW n \in TaskNames, w[n] > 0
  PROVE  /\ [w EXCEPT ![n] = w[n] - 1] \in Waits
         /\ Cardinality(Ahead([w EXCEPT ![n] = w[n] - 1])) = Cardinality(Ahead(w)) - 1
  <1>1. w[n] \in 1 .. MaxTasks /\ w[n] - 1 \in 0 .. MaxTasks /\ MaxTasks \in Nat
    BY PagesAreLinks DEF Waits
  <1>2. PICK v : v = [w EXCEPT ![n] = w[n] - 1]
    OBVIOUS
  <1>3. v \in Waits /\ v[n] = w[n] - 1 /\ \A m \in TaskNames \ {n} : v[m] = w[m]
    BY <1>1, <1>2 DEF Waits
  <1>4. <<n, w[n]>> \in Ahead(w)
    BY <1>1 DEF Ahead
  <1>5. Ahead(v) = Ahead(w) \ {<<n, w[n]>>}
    <2>1. ASSUME NEW q \in TaskNames \X (1 .. MaxTasks)
          PROVE  q[2] <= v[q[1]] <=> q[2] <= w[q[1]] /\ q # <<n, w[n]>>
      <3>1. CASE q[1] = n
        BY <1>1, <1>3, <3>1, <2>1
      <3>2. CASE q[1] # n
        BY <1>3, <3>2, <2>1
      <3> QED
        BY <3>1, <3>2
    <2> QED
      BY <2>1 DEF Ahead
  <1> QED
    BY <1>2, <1>3, <1>4, <1>5, AheadFinite, FS_RemoveElement

(* The user and the answers                                                *)

PagesInv == PagesTypeOK /\ Alive <= MaxTasks /\ NothingHangs

LEMMA OfThePage ==
  ASSUME NEW page \in Visited \cup {"dashboard"}, NEW t \in TasksOf(page)
  PROVE  t \in PageTasks /\ t.name \in TaskNames /\ t.out \in Outs(page)
  BY DEF PageTasks, TaskNames, Outs

\* More tasks wait than before, of which one reports in each element that spins.
LEMMA Startable ==
  ASSUME PagesInv, NEW t \in PageTasks, Alive < MaxTasks, waiting' = OneMore(t.name)
  PROVE  /\ waiting' \in Waits /\ Alive' <= MaxTasks /\ waiting'[t.name] > 0
         /\ \A n \in TaskNames : waiting'[n] >= waiting[n]
  <1>1. t.name \in TaskNames /\ waiting \in Waits /\ Alive = Cardinality(Ahead(waiting))
    BY DEF TaskNames, PagesInv, PagesTypeOK, Waits, Alive, Ahead
  <1>2. Alive' = Cardinality(Ahead(waiting'))
    BY DEF Alive, Ahead
  <1>3. waiting' = [waiting EXCEPT ![t.name] = waiting[t.name] + 1]
    BY DEF OneMore
  <1>4. waiting' \in Waits /\ Alive' = Alive + 1
    BY <1>1, <1>2, <1>3, AheadMore
  <1>5. Alive \in Nat /\ \A n \in TaskNames : waiting[n] \in Nat
    BY <1>1, AheadFinite, PagesAreLinks DEF Waits
  <1> QED
    BY <1>1, <1>3, <1>4, <1>5, PagesAreLinks DEF Waits

LEMMA NavigateStep ==
  ASSUME PagesInv, NEW page \in Visited, Navigate(page)
  PROVE  PagesInv'
  <1>1. /\ shown' = page /\ disabled' = {} /\ busy' = {t.out : t \in {r \in Rendered(page) : r.spins}}
        /\ waiting' = [n \in TaskNames |->
                         waiting[n] + Cardinality({t \in Rendered(page) : t.name = n})]
        /\ Alive + Cardinality(Rendered(page)) <= MaxTasks
    BY DEF Navigate
  <1>2. waiting \in Waits /\ \A n \in TaskNames : waiting[n] \in Nat
    BY PagesAreLinks DEF PagesInv, PagesTypeOK, Waits
  <1>3. busy' \subseteq Outs(page)
    BY <1>1 DEF Rendered, Outs
  <1>4. CASE Rendered(page) = {}
    <2>1. \A n \in TaskNames : {t \in Rendered(page) : t.name = n} = {}
      BY <1>4
    <2>2. \A n \in TaskNames : waiting'[n] = waiting[n]
      BY <1>1, <1>2, <2>1, FS_EmptySet
    <2>3. waiting' = waiting /\ busy' = {}
      BY <1>1, <1>2, <1>4, <2>2 DEF Waits
    <2> QED
      BY <1>1, <2>3 DEF PagesInv, PagesTypeOK, NothingHangs, Alive
  <1>5. CASE Rendered(page) # {}
    <2>1. PICK r : r \in Rendered(page)
      BY <1>5
    <2>2. Rendered(page) = {r}
      BY <2>1, PagesAreLinks, PagesTidy DEF Rendered, Tidy
    <2>3. r \in PageTasks /\ r.name \in TaskNames
      BY <2>1, OfThePage DEF Rendered
    <2>4. \A n \in TaskNames : {t \in Rendered(page) : t.name = n} = IF n = r.name THEN {r} ELSE {}
      BY <2>2
    <2>5. \A n \in TaskNames : waiting'[n] = waiting[n] + (IF n = r.name THEN 1 ELSE 0)
      BY <1>1, <2>4, FS_EmptySet, FS_Singleton
    <2>6. waiting' = OneMore(r.name)
      <3>1. waiting' = [n \in TaskNames |-> IF n = r.name THEN waiting[n] + 1 ELSE waiting[n]]
        BY <1>1, <1>2, <2>5
      <3> QED
        BY <1>2, <2>3, <3>1 DEF OneMore, Waits
    <2>7. Alive < MaxTasks
      <3>1. Cardinality(Rendered(page)) = 1
        BY <2>2, FS_Singleton
      <3>2. Alive \in Nat
        BY AheadFinite DEF Alive, Ahead
      <3> QED
        BY <1>1, <3>1, <3>2, PagesAreLinks
    <2>8. /\ waiting' \in Waits /\ Alive' <= MaxTasks /\ waiting'[r.name] > 0
      BY <2>3, <2>6, <2>7, Startable
    <2>9. \A out \in busy' : out = r.out
      BY <1>1, <2>2
    <2> QED
      BY <1>1, <1>3, <2>3, <2>8, <2>9 DEF PagesInv, PagesTypeOK, NothingHangs, Waits
  <1> QED
    BY <1>4, <1>5

LEMMA ClickStep ==
  ASSUME PagesInv, NEW t \in PageTasks, Click(t)
  PROVE  PagesInv'
  <1>1. /\ t \in Buttons(shown) /\ Alive < MaxTasks /\ waiting' = OneMore(t.name) /\ shown' = shown
        /\ disabled' \subseteq disabled \cup {t.name} /\ busy' \subseteq busy \cup {t.out}
    BY DEF Click
  <1>2. /\ waiting' \in Waits /\ Alive' <= MaxTasks /\ waiting'[t.name] > 0
        /\ \A n \in TaskNames : waiting'[n] >= waiting[n]
    BY <1>1, Startable
  <1>3. \A n \in TaskNames : waiting[n] \in Nat /\ waiting'[n] \in Nat
    BY <1>2, PagesAreLinks DEF PagesInv, PagesTypeOK, Waits
  <1>4. disabled' \subseteq {u.name : u \in Buttons(shown)} /\ busy' \subseteq Outs(shown)
    BY <1>1 DEF PagesInv, PagesTypeOK, Buttons, Outs
  <1>5. disabled \subseteq TaskNames
    BY OfThePage DEF PagesInv, PagesTypeOK, Buttons
  <1>6. \A name \in disabled' : waiting'[name] > 0
    BY <1>1, <1>2, <1>3, <1>5 DEF PagesInv, NothingHangs
  <1>7. \A out \in busy' : \E u \in PageTasks : u.out = out /\ waiting'[u.name] > 0
    <2> TAKE out \in busy'
    <2>1. CASE out = t.out
      BY <1>2, <2>1
    <2>2. CASE out # t.out
      <3>1. PICK u \in PageTasks : u.out = out /\ waiting[u.name] > 0
        BY <1>1, <2>2 DEF PagesInv, NothingHangs
      <3>2. u.name \in TaskNames
        BY DEF TaskNames
      <3> QED
        BY <1>2, <1>3, <3>1, <3>2
    <2> QED
      BY <2>1, <2>2
  <1> QED
    BY <1>1, <1>2, <1>4, <1>6, <1>7 DEF PagesInv, PagesTypeOK, NothingHangs, Waits

LEMMA AnswerStep ==
  ASSUME PagesInv, NEW t \in PageTasks, AnswerShown(t)
  PROVE  PagesInv'
  <1>1. PICK next \in {t.then, t.else} :
          /\ disabled' = disabled \ {t.name}
          /\ IF next = "none"
             THEN busy' = busy \ {t.out} /\ waiting' = [waiting EXCEPT ![t.name] = @ - 1]
             ELSE /\ busy' = (busy \ {t.out}) \cup
                        (IF TaskNamed(next).spins THEN {TaskNamed(next).out} \cap Outs(shown) ELSE {})
                  /\ waiting' = [waiting EXCEPT ![t.name] = @ - 1, ![next] = @ + 1]
    BY DEF AnswerShown, Reopen, Report
  <1>2. shown' = shown /\ waiting[t.name] > 0
    BY DEF AnswerShown
  <1>3. /\ t.name \in TaskNames /\ waiting \in Waits /\ Alive = Cardinality(Ahead(waiting))
        /\ Alive <= MaxTasks
    BY DEF TaskNames, PagesInv, PagesTypeOK, Waits, Alive, Ahead
  <1>4. PICK v \in Waits : /\ v = [waiting EXCEPT ![t.name] = waiting[t.name] - 1]
                           /\ Cardinality(Ahead(v)) = Alive - 1
    BY <1>2, <1>3, AheadLess
  <1>5. Alive \in Nat /\ MaxTasks \in Nat
    BY <1>3, AheadFinite, PagesAreLinks
  <1>6. /\ waiting' \in Waits /\ Alive' <= MaxTasks
        /\ \A n \in TaskNames \ {t.name} : waiting'[n] >= waiting[n]
        /\ next # "none" => waiting'[next] > 0
    <2>1. Alive' = Cardinality(Ahead(waiting'))
      BY DEF Alive, Ahead
    <2>2. \A n \in TaskNames : v[n] \in Nat /\ (n # t.name => v[n] = waiting[n])
      BY <1>3, <1>4, <1>5 DEF Waits
    <2>3. CASE next = "none"
      <3>1. waiting' = v
        BY <1>1, <1>4, <2>3
      <3> QED
        BY <1>3, <1>4, <1>5, <2>1, <2>2, <2>3, <3>1
    <2>4. CASE next # "none"
      <3>1. next \in TaskNames /\ next # t.name
        BY <2>4, StartsATask
      <3>2. waiting' = [v EXCEPT ![next] = v[next] + 1]
        BY <1>1, <1>3, <1>4, <2>4, <3>1 DEF Waits
      <3>3. waiting' \in Waits /\ Alive' = (Alive - 1) + 1
        <4>1. Cardinality(Ahead(v)) < MaxTasks
          BY <1>3, <1>4, <1>5
        <4> QED
          BY <1>4, <2>1, <3>1, <3>2, <4>1, AheadMore
      <3>4. \A n \in TaskNames : waiting'[n] = IF n = next THEN v[n] + 1 ELSE v[n]
        BY <3>2 DEF Waits
      <3> QED
        BY <1>3, <1>5, <2>2, <3>1, <3>3, <3>4
    <2> QED
      BY <2>3, <2>4
  <1>7. disabled' \subseteq {u.name : u \in Buttons(shown)} /\ busy' \subseteq Outs(shown)
    BY <1>1 DEF PagesInv, PagesTypeOK
  <1>8. \A n \in TaskNames : waiting[n] \in Nat /\ waiting'[n] \in Nat
    BY <1>3, <1>5, <1>6 DEF Waits
  <1>9. \A name \in disabled' : waiting'[name] > 0
    <2>1. disabled \subseteq TaskNames
      BY OfThePage DEF PagesInv, PagesTypeOK, Buttons
    <2> QED
      BY <1>1, <1>6, <1>8, <2>1 DEF PagesInv, NothingHangs
  <1>10. \A out \in busy' : \E u \in PageTasks : u.out = out /\ waiting'[u.name] > 0
    <2> TAKE out \in busy'
    <2>1. CASE out \in busy \ {t.out}
      <3>1. PICK u \in PageTasks : u.out = out /\ waiting[u.name] > 0
        BY <2>1 DEF PagesInv, NothingHangs
      <3>2. u.name \in TaskNames /\ u.name # t.name
        BY <2>1, <3>1, NamesAreOnes DEF TaskNames
      <3> QED
        BY <1>6, <1>8, <3>1, <3>2
    <2>2. CASE out \notin busy \ {t.out}
      <3>1. next # "none" /\ out = TaskNamed(next).out
        BY <1>1, <2>2
      <3> QED
        BY <1>6, <3>1, StartsATask
    <2> QED
      BY <2>1, <2>2
  <1> QED
    BY <1>2, <1>6, <1>7, <1>9, <1>10 DEF PagesInv, PagesTypeOK, NothingHangs, Waits

LEMMA PagesStart ==
  ASSUME PagesInit
  PROVE  PagesInv
  <1>1. PICK h : h \in DashboardPage /\ h.name = "health_check" /\ h.out = "health-status"
    <2>1. PICK h : h = Loads(Task("health_check", "health-status"))
      OBVIOUS
    <2>2. h.name = "health_check" /\ h.out = "health-status"
      BY <2>1 DEF Loads, Task
    <2> QED
      BY <2>1, <2>2 DEF DashboardPage
  <1>2. h \in TasksOf("dashboard")
    BY <1>1 DEF TasksOf
  <1>3. /\ h \in PageTasks /\ "health_check" \in TaskNames /\ "health-status" \in Outs("dashboard")
    BY <1>1, <1>2, OfThePage
  <1>4. waiting = [n \in TaskNames |-> IF n = "health_check" THEN 1 ELSE 0]
    BY DEF PagesInit
  <1>5. waiting \in [TaskNames -> 0 .. MaxTasks] /\ waiting["health_check"] = 1
    BY <1>3, <1>4, PagesAreLinks
  <1>6. Ahead(waiting) = {<<"health_check", 1>>}
    <2>1. ASSUME NEW q \in TaskNames \X (1 .. MaxTasks)
          PROVE  q[2] <= waiting[q[1]] <=> q = <<"health_check", 1>>
      <3>1. CASE q[1] = "health_check"
        BY <1>5, <3>1, <2>1, PagesAreLinks
      <3>2. CASE q[1] # "health_check"
        BY <1>4, <3>2, <2>1, PagesAreLinks
      <3> QED
        BY <3>1, <3>2
    <2>2. <<"health_check", 1>> \in TaskNames \X (1 .. MaxTasks)
      BY <1>3, PagesAreLinks
    <2> QED
      BY <2>1, <2>2 DEF Ahead
  <1>7. Alive <= MaxTasks
    <2>1. Alive = 1
      BY <1>6, FS_Singleton DEF Alive, Ahead
    <2> QED
      BY <2>1, PagesAreLinks
  <1>8. NothingHangs
    BY <1>1, <1>3, <1>5 DEF PagesInit, NothingHangs
  <1> QED
    BY <1>3, <1>5, <1>7, <1>8 DEF PagesInit, PagesInv, PagesTypeOK

LEMMA PagesStep ==
  ASSUME PagesInv, [PagesNext]_pageVars
  PROVE  PagesInv'
  <1>1. CASE UploadNothing
    <2>1. /\ UNCHANGED <<shown, waiting>> /\ disabled' \subseteq disabled /\ busy' \subseteq busy
      BY <1>1 DEF UploadNothing, NoFile
    <2> QED
      BY <2>1 DEF PagesInv, PagesTypeOK, NothingHangs, Alive
  <1>2. CASE UNCHANGED pageVars
    BY <1>2 DEF pageVars, PagesInv, PagesTypeOK, NothingHangs, Alive
  <1> QED
    BY <1>1, <1>2, NavigateStep, ClickStep, AnswerStep DEF PagesNext

LEMMA PagesInvariant == PagesSpec => []PagesInv
  <1>1. PagesInit => PagesInv
    BY PagesStart
  <1>2. PagesInv /\ [PagesNext]_pageVars => PagesInv'
    BY PagesStep
  <1> QED
    BY <1>1, <1>2, PTL DEF PagesSpec

\* The pages (apps/desktop-wasm/src/pages.rs): no more tasks wait than the bound says,
\* only buttons of the page that is shown are shut, and only its elements spin.
THEOREM PagesTyped == PagesSpec => []PagesTypeOK
  <1>1. PagesInv => PagesTypeOK
    BY DEF PagesInv
  <1> QED
    BY <1>1, PagesInvariant, PTL

\* set_disabled, set_text and what a click starts (apps/desktop-wasm/src/pages.rs): on any
\* set of pages a button that is shut has a task that will open it, and an element that
\* says "loading" one that will report in it, also after the user left and came back.
THEOREM NoPageHangs == PagesSpec => []NothingHangs
  <1>1. PagesInv => NothingHangs
    BY DEF PagesInv
  <1> QED
    BY <1>1, PagesInvariant, PTL
=============================================================================

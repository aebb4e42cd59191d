-------------------------------- MODULE Acme --------------------------------
(***************************************************************************)
(* acme.rs: obtaining certificates from an ACME authority, by the HTTP-01  *)
(* challenge (ChallengeStore) and by TLS-ALPN-01 (TlsAlpnResolver), by     *)
(* concurrent calls for one domain.  Every message is signed and carries a *)
(* nonce, kept from the last answer or fetched; it may be refused or lost. *)
(* The authority validates a challenge by asking this server for it.       *)
(***************************************************************************)
EXTENDS Integers

CONSTANTS Orders,                 \* calls under way, each with its own account and order
          MaxAttempts             \* of poll_authorization_until_valid; 20 in the code

ASSUME AcmeAssumption == MaxAttempts \in Nat \ {0}

Nobody == "nobody"

VARIABLES
    order,       \* per call: its place, its method, the polls it made
    tokens,      \* ChallengeStore: the calls whose token is published
    resolver,    \* TlsAlpnResolver: the call whose validation certificate it has
    authority    \* per call, what the authority says of its authorization
acmeVars == <<order, tokens, resolver, authority>>

NewOrder == [at |-> "idle", method |-> "http-01", polls |-> 0]
OrderAt(o, place) == order[o].at = place
OrderGoes(o, place) == order' = [order EXCEPT ![o].at = place]
Challenges == <<tokens, resolver>>
-----------------------------------------------------------------------------
\* post_jws: fetching a nonce, sending, reading the answer may fail, or the answer
\* be an error; else the call goes on to one of the given places.
PostJws(o, places) ==
    \E place \in places \cup {"failed"} : OrderGoes(o, place)

Start(o) ==
    /\ OrderAt(o, "idle")
    /\ \E method \in {"http-01", "tls-alpn-01"} :
          order' = [order EXCEPT ![o] = [NewOrder EXCEPT !.at = "discover", !.method = method]]
    /\ authority' = [authority EXCEPT ![o] = "pending"]
    /\ UNCHANGED <<Challenges>>

\* A fresh account key; nothing is signed yet.
Discover(o) ==
    /\ OrderAt(o, "discover")
    /\ OrderGoes(o, "account") \/ OrderGoes(o, "failed")
    /\ UNCHANGED <<Challenges, authority>>

NewAccount(o) ==
    /\ OrderAt(o, "account") /\ PostJws(o, {"order"})
    /\ UNCHANGED <<Challenges, authority>>

PlaceOrder(o) ==
    /\ OrderAt(o, "order") /\ PostJws(o, {"authorization"})
    /\ UNCHANGED <<Challenges, authority>>

\* The authority may offer no challenge of the method.
GetAuthorization(o) ==
    /\ OrderAt(o, "authorization") /\ PostJws(o, {"publish"})
    /\ UNCHANGED <<Challenges, authority>>

PublishLater(o) ==                                       \* mutant
    /\ OrderAt(o, "publish") /\ OrderGoes(o, "respond")
    /\ UNCHANGED <<Challenges, authority>>
\* The token's key authorization, or a certificate for the domain with its digest.
Publish(o) ==
    /\ OrderAt(o, "publish")
    /\ OrderGoes(o, "respond")
    /\ IF order[o].method = "http-01"
       THEN tokens' = tokens \cup {o} /\ UNCHANGED resolver
       ELSE resolver' = o /\ UNCHANGED tokens
    /\ UNCHANGED <<authority>>

\* The authority may validate from when it is told, which it may be though the
\* answer is lost.
RespondToChallenge(o) ==
    /\ OrderAt(o, "respond") /\ PostJws(o, {"poll"})
    /\ authority' = [authority EXCEPT ![o] = "told"]
    /\ UNCHANGED Challenges

Serves(o) == IF order[o].method = "http-01" THEN o \in tokens ELSE resolver = o

\* The authority asks for the token (challenge_response_handler) or opens a
\* connection with ALPN acme-tls/1 (TlsAlpnResolver::resolve).
Validate(o) ==
    /\ authority[o] = "told" /\ ~OrderAt(o, "failed")
    /\ authority' = [authority EXCEPT ![o] = IF Serves(o) THEN "valid" ELSE "invalid"]
    /\ UNCHANGED <<order, Challenges>>

\* One poll; pending waits half a second for the next, another status is the end.
PollAuthorization(o) ==
    /\ OrderAt(o, "poll")
    /\ CASE authority[o] = "valid" -> PostJws(o, {"unpublish"})
         [] authority[o] = "invalid" -> PostJws(o, {})
         [] OTHER -> IF order[o].polls + 1 = MaxAttempts THEN PostJws(o, {})
                     ELSE \/ order' = [order EXCEPT ![o].polls = @ + 1]
                          \/ PostJws(o, {})
    /\ UNCHANGED <<Challenges, authority>>

\* Whoever's certificate the resolver has for the domain is removed.
Unpublish(o) ==
    /\ OrderAt(o, "unpublish")
    /\ OrderGoes(o, "finalize")
    /\ IF order[o].method = "http-01"
       THEN tokens' = tokens \ {o} /\ UNCHANGED resolver
       ELSE resolver' = Nobody /\ UNCHANGED tokens
    /\ UNCHANGED <<authority>>

\* An order that is still being processed has no certificate URL: an error here.
FinalizeOrder(o) ==
    /\ OrderAt(o, "finalize") /\ PostJws(o, {"download"})
    /\ UNCHANGED <<Challenges, authority>>

\* The status of the answer is not looked at: its body is the result.
DownloadCertificate(o) ==
    /\ OrderAt(o, "download")
    /\ \E place \in {"certificate", "refusal", "failed"} :
          order' = [order EXCEPT ![o] = [NewOrder EXCEPT !.at = place]]
    /\ UNCHANGED <<Challenges, authority>>

\* The call has returned and another may be made.  What a failed one left published
\* stays there, but is of no use to the next, whose token is another.
Returned(o) ==
    /\ order[o].at \in {"certificate", "refusal", "failed"}
    /\ order' = [order EXCEPT ![o] = NewOrder]
    /\ authority' = [authority EXCEPT ![o] = "none"]
    /\ tokens' = tokens \ {o} /\ resolver' = IF resolver = o THEN Nobody ELSE resolver
-----------------------------------------------------------------------------
AcmeInit ==
    /\ order = [o \in Orders |-> NewOrder]
    /\ tokens = {} /\ resolver = Nobody
    /\ authority = [o \in Orders |-> "none"]

AcmeNext ==
    \E o \in Orders :
       \/ Start(o) \/ Discover(o) \/ NewAccount(o) \/ PlaceOrder(o) \/ GetAuthorization(o)
       \/ Publish(o) \/ RespondToChallenge(o) \/ Validate(o) \/ PollAuthorization(o)
       \/ Unpublish(o) \/ FinalizeOrder(o) \/ DownloadCertificate(o) \/ Returned(o)

AcmeSpec == AcmeInit /\ [][AcmeNext]_acmeVars
-----------------------------------------------------------------------------
AcmeTypeOK ==
    /\ order \in [Orders -> [at : {"idle", "discover", "account", "order", "authorization",
                                   "publish", "respond", "poll", "unpublish", "finalize",
                                   "download", "certificate", "refusal", "failed"},
                             method : {"http-01", "tls-alpn-01"},
                             polls : 0 .. MaxAttempts]]
    /\ tokens \subseteq Orders /\ resolver \in Orders \cup {Nobody}
    /\ authority \in [Orders -> {"none", "pending", "told", "valid", "invalid"}]

\* Whatever else is under way, from when the authority may ask for an HTTP-01
\* challenge until it has judged it, the server has the answer.
ChallengeStaysUp ==
    \A o \in Orders : order[o].method = "http-01" /\ authority[o] = "told" /\ OrderAt(o, "poll")
                         => Serves(o)
=============================================================================

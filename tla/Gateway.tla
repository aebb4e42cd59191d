------------------------------ MODULE Gateway ------------------------------
(***************************************************************************)
(* POST /graphql (open-runo-gateway, graphql_hyper.rs and its twin in      *)
(* lib.rs): the document is resolved through PersistedQueryStore, answered *)
(* from the response cache, or executed against the state of the router    *)
(* and cached.  A document stands for its hash; it is one that the cache   *)
(* takes (is_cacheable_query) or one it does not.                          *)
(***************************************************************************)
EXTENDS Integers, FiniteSets

CONSTANTS Posts,                  \* concurrent requests
          Docs, Cacheable,        \* documents; those that begin like a query
          Ttl,                    \* CacheConfig.ttl
          Slack,                  \* bound: the longest a request takes from execute to set
          Sunset, MaxChanges      \* bounds: the clock, changes of the router's state

ASSUME GatewayAssumption ==
    /\ Docs # {} /\ Cacheable \subseteq Docs
    /\ Ttl \in Nat \ {0} /\ {Slack, Sunset, MaxChanges} \subseteq Nat

VARIABLES
    mode,         \* EnforcementMode: disabled, allow, enforce
    tick,
    registered,   \* the persisted queries
    version,      \* of what the router would answer now
    replaced,     \* history: when each earlier version was replaced
    responses,    \* the cache: per document <<>> or [version, until]
    post          \* per request: its place, hash and document, the version it answers
gatewayVars == <<mode, tick, registered, version, replaced, responses, post>>

Waiting == [at |-> "idle", hash |-> "none", raw |-> FALSE, doc |-> CHOOSE d \in Docs : TRUE,
            answer |-> 0, since |-> 0]

PostAt(p, place) == post[p].at = place
PostGoes(p, place) == post' = [post EXCEPT ![p].at = place]

\* A cached answer is looked for only when the cache is on and takes the document.
Onward(p, d) ==
    post' = [post EXCEPT ![p] = [Waiting EXCEPT !.doc = d,
                                    !.at = IF d \in Cacheable THEN "lookup" ELSE "execute"]]
Rejected(p) == post' = [post EXCEPT ![p] = [Waiting EXCEPT !.at = "error"]]
-----------------------------------------------------------------------------
\* The hash is right, wrong or missing; the document may be missing too.  Without
\* a hash, and unless only registered queries may run, nothing is resolved.
PostQuery(p) ==
    /\ PostAt(p, "idle")
    /\ \E d \in Docs, hash \in {"right", "wrong", "none"}, raw \in BOOLEAN :
          /\ hash = "wrong" => raw
          /\ IF hash # "none" \/ mode = "enforce"
             THEN post' = [post EXCEPT ![p] = [Waiting EXCEPT !.at = "resolve", !.doc = d,
                                                             !.hash = hash, !.raw = raw]]
             ELSE IF raw THEN Onward(p, d) ELSE Rejected(p)
    /\ UNCHANGED <<mode, tick, registered, version, replaced, responses>>

ResolveTrusting(p) ==                                    \* mutant
    /\ PostAt(p, "resolve")
    /\ registered' = registered
    /\ IF post[p].raw THEN Onward(p, post[p].doc) ELSE Rejected(p)
    /\ UNCHANGED <<mode, tick, version, replaced, responses>>
\* PersistedQueryStore::resolve, by mode; any database call in it may fail.
Resolve(p) ==
    LET known == post[p].doc \in registered
        found == /\ IF known THEN Onward(p, post[p].doc) ELSE Rejected(p)
                 /\ UNCHANGED registered
    IN /\ PostAt(p, "resolve")
       /\ \/ Rejected(p) /\ UNCHANGED registered
          \/ /\ mode = "disabled" /\ UNCHANGED registered
             /\ IF post[p].raw THEN Onward(p, post[p].doc) ELSE Rejected(p)
          \/ /\ mode = "allow" /\ post[p].hash = "right" /\ post[p].raw
             /\ registered' = registered \cup {post[p].doc}
             /\ Onward(p, post[p].doc)
          \/ mode = "allow" /\ post[p].hash = "right" /\ ~post[p].raw /\ found
          \/ mode = "enforce" /\ post[p].hash = "right" /\ found
       /\ UNCHANGED <<mode, tick, version, replaced, responses>>

\* A cached response within its time to live is the answer.
Lookup(p) ==
    /\ PostAt(p, "lookup")
    /\ LET entry == responses[post[p].doc]
       IN IF entry # <<>> /\ tick < entry.until
          THEN post' = [post EXCEPT ![p].at = "answered", ![p].answer = entry.version]
          ELSE PostGoes(p, "execute")
    /\ UNCHANGED <<mode, tick, registered, version, replaced, responses>>

\* schema.execute: health, schema, schema_history, federation_status; only an
\* answer without errors goes to the cache.
Execute(p) ==
    /\ PostAt(p, "execute")
    /\ \/ post' = [post EXCEPT ![p].answer = version, ![p].since = tick,
                   ![p].at = IF post[p].doc \in Cacheable THEN "store" ELSE "answered"]
       \/ Rejected(p)
    /\ UNCHANGED <<mode, tick, registered, version, replaced, responses>>

StoreForLonger(p) ==                                     \* mutant
    /\ PostAt(p, "store")
    /\ responses' = [responses EXCEPT ![post[p].doc] =
          [version |-> post[p].answer,
           until |-> (IF @ # <<>> /\ @.until > tick THEN @.until ELSE tick) + Ttl]]
    /\ PostGoes(p, "answered")
    /\ UNCHANGED <<mode, tick, registered, version, replaced>>
Store(p) ==
    /\ PostAt(p, "store")
    /\ responses' = [responses EXCEPT ![post[p].doc] =
                        [version |-> post[p].answer, until |-> tick + Ttl]]
    /\ PostGoes(p, "answered")
    /\ UNCHANGED <<mode, tick, registered, version, replaced>>

NextPost(p) ==
    /\ ~PostAt(p, "idle")
    /\ post' = [post EXCEPT ![p] = Waiting]
    /\ UNCHANGED <<mode, tick, registered, version, replaced, responses>>
-----------------------------------------------------------------------------
\* Registered over REST; and the state the queries read changes.
RegisterQuery ==
    /\ \E d \in Docs \ registered : registered' = registered \cup {d}
    /\ UNCHANGED <<mode, tick, version, replaced, responses, post>>

StateChanges ==
    /\ version < MaxChanges
    /\ version' = version + 1 /\ replaced' = [replaced EXCEPT ![version] = tick]
    /\ UNCHANGED <<mode, tick, registered, responses, post>>

TickGateway ==
    /\ tick < Sunset
    /\ \A p \in Posts : PostAt(p, "store") => tick - post[p].since < Slack
    /\ \A p \in Posts : ~PostAt(p, "answered")
    /\ tick' = tick + 1
    /\ UNCHANGED <<mode, registered, version, replaced, responses, post>>

GatewayInit ==
    /\ mode \in {"disabled", "allow", "enforce"}
    /\ tick = 0 /\ registered = {} /\ version = 0
    /\ replaced = [v \in 0 .. MaxChanges |-> Sunset]
    /\ responses = [d \in Docs |-> <<>>]
    /\ post = [p \in Posts |-> Waiting]

GatewayNext ==
    \/ \E p \in Posts : \/ PostQuery(p) \/ Resolve(p) \/ Lookup(p) \/ Execute(p)
                        \/ Store(p) \/ NextPost(p)
    \/ RegisterQuery \/ StateChanges \/ TickGateway

GatewaySpec == GatewayInit /\ [][GatewayNext]_gatewayVars
-----------------------------------------------------------------------------
GatewayTypeOK ==
    /\ mode \in {"disabled", "allow", "enforce"} /\ tick \in 0 .. Sunset
    /\ registered \subseteq Docs /\ version \in 0 .. MaxChanges
    /\ replaced \in [0 .. MaxChanges -> 0 .. Sunset]
    /\ responses \in [Docs -> {<<>>} \cup [version : 0 .. version, until : Nat]]
    /\ post \in [Posts -> [at : {"idle", "resolve", "lookup", "execute", "store",
                                 "answered", "error"},
                           hash : {"right", "wrong", "none"}, raw : BOOLEAN, doc : Docs,
                           answer : 0 .. version, since : 0 .. Sunset]]

\* With trusted documents only, nothing is executed or answered from the cache but
\* what was registered; and whatever the requests' order at the cache, an answer is
\* at most Ttl (and the time its request took to store it) behind the router.
AnswersAreFaithful ==
    \A p \in Posts :
        /\ mode = "enforce" /\ post[p].at \in {"lookup", "execute", "store", "answered"}
              => post[p].doc \in registered
        /\ PostAt(p, "answered") => tick - replaced[post[p].answer] <= Ttl + Slack
=============================================================================

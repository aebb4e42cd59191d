----------------------------- MODULE StoreProofs ----------------------------
(***************************************************************************)
(* What keeps data for later. Gateway: what it answers is not further      *)
(* behind the router than it may be. ModelKeeping: a save never loses what *)
(* was learned. FederatedDatabase and Backends: reads find the last write, *)
(* and a verified copy is whole. CachePredictor: a page that keeps coming  *)
(* back is admitted, and the one seen longest ago is forgotten first. At   *)
(* the end the same is concluded for all of them side by side, as MCStores *)
(* puts them.                                                              *)
(***************************************************************************)
EXTENDS MCStores, HtmlPageCacheProofs, WellFoundedInduction, TLAPS

-----------------------------------------------------------------------------
(* Gateway *)

Place == {"idle", "resolve", "lookup", "execute", "store", "answered", "error"}
Request == [at : Place, hash : {"right", "wrong", "none"}, raw : BOOLEAN, doc : Docs,
            answer : 0 .. version, since : 0 .. Sunset]

\* With trusted documents only, a request past resolve() has a registered one.
OnlyRegistered ==
    \A p \in Posts :
        mode = "enforce" /\ post[p].at \in {"lookup", "execute", "store", "answered"}
            => post[p].doc \in registered

\* What the router would answer now is not replaced yet; the rest was, by now.
ReplacedByNow ==
    \A v \in 0 .. MaxChanges : IF v < version THEN replaced[v] <= tick ELSE replaced[v] = Sunset

\* An answer on its way to the cache was the router's when it was made, and is not
\* older than the slack; so what is cached expires within Ttl + Slack of being out
\* of date, and what was answered is not further behind.
StoredInTime ==
    \A p \in Posts : PostAt(p, "store") =>
        /\ post[p].since <= tick /\ tick <= post[p].since + Slack
        /\ post[p].since <= replaced[post[p].answer]
CachedInTime ==
    \A d \in Docs : responses[d] # <<>> =>
        /\ responses[d].until <= tick + Ttl
        /\ responses[d].until <= replaced[responses[d].version] + Ttl + Slack
AnsweredInTime ==
    \A p \in Posts : PostAt(p, "answered") => tick <= replaced[post[p].answer] + Ttl + Slack

GatewayIInv == /\ GatewayTypeOK /\ OnlyRegistered /\ ReplacedByNow
        /\ StoredInTime /\ CachedInTime /\ AnsweredInTime

LEMMA Bounds == Ttl \in Nat /\ Slack \in Nat /\ Sunset \in Nat /\ MaxChanges \in Nat
<1>1. {Slack, Sunset, MaxChanges} \subseteq Nat
  BY GatewayAssumption
<1> QED BY <1>1, GatewayAssumption

LEMMA WaitingTyped ==
    ASSUME GatewayTypeOK, NEW d \in Docs
    PROVE  /\ Waiting \in Request
           /\ \A place \in Place : [Waiting EXCEPT !.doc = d, !.at = place] \in Request
<1>1. /\ (CHOOSE c \in Docs : TRUE) \in Docs
      /\ 0 \in 0 .. version /\ 0 \in 0 .. Sunset
  BY GatewayAssumption, Bounds DEF GatewayTypeOK
<1>2. Waiting \in Request
  BY <1>1 DEF Waiting, Request, Place
<1> QED BY <1>2 DEF Request

LEMMA GatewayInitIInv == GatewayInit => GatewayIInv
<1> SUFFICES ASSUME GatewayInit PROVE GatewayIInv
  OBVIOUS
<1>1. /\ tick \in 0 .. Sunset /\ version \in 0 .. MaxChanges /\ version = 0 /\ tick = 0
      /\ replaced \in [0 .. MaxChanges -> 0 .. Sunset]
      /\ responses \in [Docs -> {<<>>} \cup [version : 0 .. version, until : Nat]]
  BY Bounds DEF GatewayInit
<1>2. \A p \in Posts : post[p] = Waiting
  BY DEF GatewayInit
<1>3. Waiting \in Request
  BY <1>1, GatewayAssumption, Bounds DEF Waiting, Request, Place
<1>4. GatewayTypeOK
  BY <1>1, <1>3 DEF GatewayTypeOK, GatewayInit, Request, Place
<1>5. ReplacedByNow
  BY <1>1 DEF GatewayInit, ReplacedByNow
<1>6. OnlyRegistered /\ StoredInTime /\ AnsweredInTime
  <2>1. Waiting.at = "idle"
    BY DEF Waiting
  <2> QED BY <1>2, <2>1 DEF OnlyRegistered, StoredInTime, AnsweredInTime, PostAt
<1>7. CachedInTime
  BY DEF GatewayInit, CachedInTime
<1> QED BY <1>4, <1>5, <1>6, <1>7 DEF GatewayIInv

\* What a request's step may do to the requests.
LEMMA RequestReplaced ==
    ASSUME GatewayIInv, NEW p \in Posts, NEW r \in Request,
           post' = [post EXCEPT ![p] = r],
           UNCHANGED <<mode, tick, version, replaced>>,
           registered \subseteq registered', registered' \subseteq Docs,
           mode = "enforce" /\ r.at \in {"lookup", "execute", "store", "answered"}
               => r.doc \in registered',
           r.at = "store" => /\ r.since <= tick /\ tick <= r.since + Slack
                             /\ r.since <= replaced[r.answer],
           r.at = "answered" => tick <= replaced[r.answer] + Ttl + Slack
    PROVE  /\ post' \in [Posts -> Request]
           /\ OnlyRegistered' /\ StoredInTime' /\ AnsweredInTime' /\ ReplacedByNow'
<1>1. post \in [Posts -> Request]
  BY DEF GatewayIInv, GatewayTypeOK, Request, Place
<1>2. \A q \in Posts : post'[q] = IF q = p THEN r ELSE post[q]
  BY <1>1
<1> QED BY <1>1, <1>2 DEF GatewayIInv, OnlyRegistered, StoredInTime, AnsweredInTime, ReplacedByNow, PostAt

\* A request that is rejected, or goes on with its document.
LEMMA RejectedKeeps ==
    ASSUME GatewayIInv, NEW p \in Posts, Rejected(p),
           UNCHANGED <<mode, tick, registered, version, replaced, responses>>
    PROVE  GatewayIInv'
<1> DEFINE r == [Waiting EXCEPT !.at = "error"]
<1>1. r \in Request /\ r.at = "error"
  <2>1. Waiting \in Request /\ "error" \in Place
    BY WaitingTyped, GatewayAssumption DEF GatewayIInv, Place
  <2> QED BY <2>1 DEF Request
<1>2. post' = [post EXCEPT ![p] = r] /\ registered \subseteq Docs
  BY DEF Rejected, GatewayIInv, GatewayTypeOK
<1> HIDE DEF r
<1>3. post' \in [Posts -> Request]
      /\ OnlyRegistered' /\ StoredInTime' /\ AnsweredInTime' /\ ReplacedByNow'
  BY <1>1, <1>2, RequestReplaced
<1> QED BY <1>3 DEF GatewayIInv, GatewayTypeOK, Request, Place, CachedInTime

LEMMA OnwardKeeps ==
    ASSUME GatewayIInv, NEW p \in Posts, NEW d \in Docs, Onward(p, d),
           UNCHANGED <<mode, tick, version, replaced, responses>>,
           registered \subseteq registered', registered' \subseteq Docs,
           mode = "enforce" => d \in registered'
    PROVE  GatewayIInv'
<1> DEFINE place == IF d \in Cacheable THEN "lookup" ELSE "execute"
           r == [Waiting EXCEPT !.doc = d, !.at = place]
<1>1. r \in Request /\ r.at \in {"lookup", "execute"} /\ r.doc = d
  <2>1. GatewayTypeOK /\ place \in Place /\ place \in {"lookup", "execute"}
    BY DEF GatewayIInv, Place
  <2> HIDE DEF place
  <2>2. Waiting \in Request
    BY <2>1, WaitingTyped
  <2> QED BY <2>1, <2>2, WaitingTyped DEF Request
<1>2. post' = [post EXCEPT ![p] = r]
  BY DEF Onward
<1> HIDE DEF r
<1>3. post' \in [Posts -> Request]
      /\ OnlyRegistered' /\ StoredInTime' /\ AnsweredInTime' /\ ReplacedByNow'
  BY <1>1, <1>2, RequestReplaced
<1> QED BY <1>3 DEF GatewayIInv, GatewayTypeOK, Request, Place, CachedInTime

LEMMA QueryStep ==
    ASSUME GatewayIInv, NEW p \in Posts, PostQuery(p) \/ Resolve(p)
    PROVE  GatewayIInv'
<1> USE DEF GatewayIInv
<1>1. CASE PostQuery(p)
  <2>1. UNCHANGED <<mode, tick, registered, version, replaced, responses>>
        /\ registered \subseteq Docs
    BY <1>1 DEF PostQuery, GatewayTypeOK
  <2>2. PICK d \in Docs, hash \in {"right", "wrong", "none"}, raw \in BOOLEAN :
          IF hash # "none" \/ mode = "enforce"
          THEN post' = [post EXCEPT ![p] = [Waiting EXCEPT !.at = "resolve", !.doc = d,
                                                             !.hash = hash, !.raw = raw]]
          ELSE IF raw THEN Onward(p, d) ELSE Rejected(p)
    BY <1>1 DEF PostQuery
  <2>3. CASE hash # "none" \/ mode = "enforce"
    <3> DEFINE r == [Waiting EXCEPT !.at = "resolve", !.doc = d, !.hash = hash, !.raw = raw]
    <3>1. r \in Request /\ r.at = "resolve"
      <4>1. Waiting \in Request /\ "resolve" \in Place
        BY WaitingTyped DEF Place
      <4> QED BY <4>1 DEF Request
    <3>2. post' = [post EXCEPT ![p] = r]
      BY <2>2, <2>3
    <3> HIDE DEF r
    <3>3. post' \in [Posts -> Request]
          /\ OnlyRegistered' /\ StoredInTime' /\ AnsweredInTime' /\ ReplacedByNow'
      BY <2>1, <3>1, <3>2, RequestReplaced
    <3> QED BY <2>1, <3>3 DEF GatewayTypeOK, Request, Place, CachedInTime
  <2>4. CASE hash = "none" /\ mode # "enforce"
    BY <2>1, <2>2, <2>4, OnwardKeeps, RejectedKeeps
  <2> QED BY <2>3, <2>4
<1>2. CASE Resolve(p)
  <2>1. UNCHANGED <<mode, tick, version, replaced, responses>> /\ post[p].doc \in Docs
    BY <1>2 DEF Resolve, GatewayTypeOK
  <2>2. CASE Rejected(p) /\ UNCHANGED registered
    BY <2>1, <2>2, RejectedKeeps
  <2>3. CASE /\ Onward(p, post[p].doc)
             /\ registered' = registered \/ (registered' = registered \cup {post[p].doc})
             /\ mode = "enforce" => post[p].doc \in registered
    <3>1. registered \subseteq registered' /\ registered' \subseteq Docs
      BY <2>1, <2>3 DEF GatewayTypeOK
    <3> QED BY <2>1, <2>3, <3>1, OnwardKeeps
  <2> QED BY <1>2, <2>2, <2>3 DEF Resolve
<1> QED BY <1>1, <1>2

LEMMA AnswerStep ==
    ASSUME GatewayIInv, NEW p \in Posts, Lookup(p) \/ Execute(p) \/ Store(p) \/ NextPost(p)
    PROVE  GatewayIInv'
<1> USE DEF GatewayIInv
<1> DEFINE PostsFine == post' \in [Posts -> Request]
               /\ OnlyRegistered' /\ StoredInTime' /\ AnsweredInTime' /\ ReplacedByNow'
<1>0. post[p] \in Request /\ registered \subseteq Docs /\ post[p].doc \in Docs
  BY DEF GatewayTypeOK, Request, Place
<1>1. CASE Lookup(p)
  <2> DEFINE entry == responses[post[p].doc]
  <2>1. UNCHANGED <<mode, tick, registered, version, replaced, responses>>
    BY <1>1 DEF Lookup
  <2>2. post[p].at = "lookup" /\ (mode = "enforce" => post[p].doc \in registered)
    BY <1>1 DEF Lookup, PostAt, OnlyRegistered
  <2>3. CASE entry # <<>> /\ tick < entry.until
    <3> DEFINE r == [post[p] EXCEPT !.at = "answered", !.answer = entry.version]
    <3>1. entry \in [version : 0 .. version, until : Nat]
      BY <1>0, <2>3 DEF GatewayTypeOK
    <3>2. tick <= replaced[entry.version] + Ttl + Slack
      <4>1. entry.until <= replaced[entry.version] + Ttl + Slack
        BY <1>0, <2>3 DEF CachedInTime
      <4>2. tick \in Int /\ entry.until \in Int /\ replaced[entry.version] \in Int
        BY <3>1, Bounds DEF GatewayTypeOK
      <4> QED BY <2>3, <4>1, <4>2, Bounds
    <3>3. r \in Request /\ r.at = "answered" /\ r.answer = entry.version /\ r.doc = post[p].doc
      BY <1>0, <3>1 DEF Request, Place
    <3>4. post' = [post EXCEPT ![p] = r]
      BY <1>0, <1>1, <2>3 DEF Lookup, GatewayTypeOK
    <3> HIDE DEF r, entry
    <3>5. PostsFine
      BY <1>0, <2>1, <2>2, <3>2, <3>3, <3>4, RequestReplaced
    <3> QED BY <2>1, <3>5 DEF GatewayTypeOK, Request, Place, CachedInTime
  <2>4. CASE ~(entry # <<>> /\ tick < entry.until)
    <3> DEFINE r == [post[p] EXCEPT !.at = "execute"]
    <3>1. r \in Request /\ r.at = "execute" /\ r.doc = post[p].doc
      BY <1>0 DEF Request, Place
    <3>2. post' = [post EXCEPT ![p] = r]
      BY <1>0, <1>1, <2>4 DEF Lookup, PostGoes, GatewayTypeOK
    <3> HIDE DEF r
    <3>3. PostsFine
      BY <1>0, <2>1, <2>2, <3>1, <3>2, RequestReplaced
    <3> QED BY <2>1, <3>3 DEF GatewayTypeOK, Request, Place, CachedInTime
  <2> QED BY <2>3, <2>4
<1>2. CASE Execute(p)
  <2>1. UNCHANGED <<mode, tick, registered, version, replaced, responses>>
    BY <1>2 DEF Execute
  <2>2. post[p].at = "execute" /\ (mode = "enforce" => post[p].doc \in registered)
    BY <1>2 DEF Execute, PostAt, OnlyRegistered
  <2>3. CASE Rejected(p)
    BY <2>1, <2>3, RejectedKeeps
  <2>4. CASE ~Rejected(p)
    <3> DEFINE place == IF post[p].doc \in Cacheable THEN "store" ELSE "answered"
               r == [post[p] EXCEPT !.answer = version, !.since = tick, !.at = place]
    <3>1. /\ r \in Request /\ r.at = place /\ place \in {"store", "answered"}
          /\ r.answer = version /\ r.since = tick /\ r.doc = post[p].doc
      <4>1. place \in Place /\ place \in {"store", "answered"}
        BY DEF Place
      <4>2. version \in 0 .. version /\ tick \in 0 .. Sunset
        BY Bounds DEF GatewayTypeOK
      <4> HIDE DEF place
      <4> QED BY <1>0, <4>1, <4>2 DEF Request
    <3>2. post' = [post EXCEPT ![p] = r]
      BY <1>0, <1>2, <2>4 DEF Execute, GatewayTypeOK
    <3>3. replaced[version] = Sunset /\ tick <= Sunset /\ tick \in Nat
      BY Bounds DEF ReplacedByNow, GatewayTypeOK
    <3>4. /\ r.since <= tick /\ tick <= r.since + Slack /\ r.since <= replaced[r.answer]
          /\ tick <= replaced[r.answer] + Ttl + Slack
      BY <3>1, <3>3, Bounds
    <3> HIDE DEF r, place
    <3>5. PostsFine
      BY <1>0, <2>1, <2>2, <3>1, <3>2, <3>4, RequestReplaced
    <3> QED BY <2>1, <3>5 DEF GatewayTypeOK, Request, Place, CachedInTime
  <2> QED BY <2>3, <2>4
<1>3. CASE Store(p)
  <2> DEFINE d == post[p].doc
             e == [version |-> post[p].answer, until |-> tick + Ttl]
             r == [post[p] EXCEPT !.at = "answered"]
  <2>1. UNCHANGED <<mode, tick, registered, version, replaced>>
        /\ responses' = [responses EXCEPT ![d] = e]
    BY <1>3 DEF Store
  <2>2. post[p].at = "store" /\ (mode = "enforce" => post[p].doc \in registered)
    BY <1>3 DEF Store, PostAt, OnlyRegistered
  <2>3. /\ post[p].since <= tick /\ tick <= post[p].since + Slack
        /\ post[p].since <= replaced[post[p].answer]
        /\ post[p].since \in Nat /\ tick \in Nat /\ replaced[post[p].answer] \in Nat
        /\ post[p].answer \in 0 .. version
    <3>1. /\ post[p].since <= tick /\ tick <= post[p].since + Slack
          /\ post[p].since <= replaced[post[p].answer]
      BY <1>0, <2>2 DEF StoredInTime, PostAt
    <3>2. post[p].since \in 0 .. Sunset /\ post[p].answer \in 0 .. version
      BY <1>0 DEF Request
    <3>3. /\ tick \in Nat /\ version \in 0 .. MaxChanges
          /\ replaced \in [0 .. MaxChanges -> 0 .. Sunset]
      BY <1>0, Bounds DEF GatewayTypeOK
    <3>4. replaced[post[p].answer] \in Nat
      BY <3>2, <3>3, Bounds
    <3> QED BY <3>1, <3>2, <3>3, <3>4, Bounds
  <2>4. tick <= replaced[post[p].answer] + Ttl + Slack
    BY <2>3, Bounds
  <2>5. r \in Request /\ r.at = "answered" /\ r.answer = post[p].answer /\ r.doc = post[p].doc
    BY <1>0 DEF Request, Place
  <2>6. post' = [post EXCEPT ![p] = r]
    BY <1>0, <1>3 DEF Store, PostGoes, GatewayTypeOK
  <2>7. /\ e \in [version : 0 .. version, until : Nat]
        /\ e.until <= tick + Ttl /\ e.until <= replaced[e.version] + Ttl + Slack
    BY <2>3, Bounds
  <2> HIDE DEF r, e, d
  <2>8. PostsFine
    BY <1>0, <2>1, <2>2, <2>4, <2>5, <2>6, RequestReplaced
  <2>9. /\ responses' \in [Docs -> {<<>>} \cup [version : 0 .. version, until : Nat]]
        /\ \A c \in Docs : responses'[c] = e \/ responses'[c] = responses[c]
    BY <2>1, <2>7 DEF GatewayTypeOK
  <2>10. CachedInTime'
    BY <2>1, <2>7, <2>9 DEF CachedInTime
  <2> QED BY <2>1, <2>8, <2>9, <2>10 DEF GatewayTypeOK, Request, Place
<1>4. CASE NextPost(p)
  <2>1. UNCHANGED <<mode, tick, registered, version, replaced, responses>>
        /\ post' = [post EXCEPT ![p] = Waiting]
    BY <1>4 DEF NextPost
  <2>2. Waiting \in Request /\ Waiting.at = "idle"
    <3>1. Waiting.at = "idle"
      BY DEF Waiting
    <3> QED BY <1>0, <3>1, WaitingTyped
  <2>3. PostsFine
    BY <1>0, <2>1, <2>2, RequestReplaced
  <2> QED BY <2>1, <2>3 DEF GatewayTypeOK, Request, Place, CachedInTime
<1> QED BY <1>1, <1>2, <1>3, <1>4

\* Registrations over REST, changes of what the router would answer, and time.
LEMMA WorldStep ==
    ASSUME GatewayIInv, RegisterQuery \/ StateChanges \/ TickGateway
    PROVE  GatewayIInv'
<1> USE DEF GatewayIInv
<1>1. CASE RegisterQuery
  <2>1. /\ UNCHANGED <<mode, tick, version, replaced, responses, post>>
        /\ registered \subseteq registered' /\ registered' \subseteq Docs
    BY <1>1 DEF RegisterQuery, GatewayTypeOK
  <2> QED BY <2>1 DEF GatewayTypeOK, OnlyRegistered, ReplacedByNow, StoredInTime, CachedInTime,
                      AnsweredInTime, PostAt
<1>2. CASE StateChanges
  <2>1. /\ UNCHANGED <<mode, tick, registered, responses, post>>
        /\ version' = version + 1 /\ version < MaxChanges
        /\ replaced' = [replaced EXCEPT ![version] = tick]
    BY <1>2 DEF StateChanges
  <2>2. /\ version \in Nat /\ version' \in 0 .. MaxChanges /\ tick \in 0 .. Sunset /\ tick \in Nat
        /\ replaced' \in [0 .. MaxChanges -> 0 .. Sunset]
        /\ \A v \in 0 .. MaxChanges : replaced'[v] = IF v = version THEN tick ELSE replaced[v]
        /\ \A v \in 0 .. MaxChanges : replaced[v] \in Nat
        /\ 0 .. version \subseteq 0 .. version' /\ 0 .. version \subseteq 0 .. MaxChanges
    BY <2>1, Bounds DEF GatewayTypeOK
  <2>3. post' \in [Posts -> [at : Place, hash : {"right", "wrong", "none"}, raw : BOOLEAN,
                             doc : Docs, answer : 0 .. version', since : 0 .. Sunset]]
    <3>1. post \in [Posts -> Request]
      BY DEF GatewayTypeOK, Request, Place
    <3> QED BY <2>1, <2>2, <3>1 DEF Request
  <2>4. responses' \in [Docs -> {<<>>} \cup [version : 0 .. version', until : Nat]]
    <3>1. \A d \in Docs : responses[d] \in {<<>>} \cup [version : 0 .. version', until : Nat]
      BY <2>2 DEF GatewayTypeOK
    <3> QED BY <2>1, <3>1 DEF GatewayTypeOK
  <2>5. ReplacedByNow'
    BY <2>1, <2>2 DEF ReplacedByNow
  <2>6. StoredInTime'
    <3> SUFFICES ASSUME NEW p \in Posts, PostAt(p, "store")'
                 PROVE  /\ post[p].since <= tick /\ tick <= post[p].since + Slack
                        /\ post[p].since <= replaced'[post[p].answer]
      BY <2>1 DEF StoredInTime
    <3>1. post[p].answer \in 0 .. MaxChanges
      BY <2>2 DEF GatewayTypeOK
    <3> QED BY <2>1, <2>2, <3>1 DEF StoredInTime, PostAt
  <2>7. CachedInTime'
    <3> SUFFICES ASSUME NEW d \in Docs, responses[d] # <<>>
                 PROVE  /\ responses[d].until <= tick + Ttl
                        /\ responses[d].until <= replaced'[responses[d].version] + Ttl + Slack
      BY <2>1 DEF CachedInTime
    <3>1. responses[d] \in [version : 0 .. version, until : Nat]
      BY DEF GatewayTypeOK
    <3>2. responses[d].version \in 0 .. MaxChanges /\ responses[d].until \in Nat
      BY <2>2, <3>1
    <3>3. /\ responses[d].until <= tick + Ttl
          /\ responses[d].until <= replaced[responses[d].version] + Ttl + Slack
      BY DEF CachedInTime
    <3>4. CASE responses[d].version = version
      <4>1. replaced'[responses[d].version] = tick
        BY <2>2, <3>2, <3>4
      <4>2. \A n \in Nat : n <= tick + Ttl => n <= tick + Ttl + Slack
        BY <2>2, Bounds
      <4> QED BY <3>2, <3>3, <4>1, <4>2
    <3>5. CASE responses[d].version # version
      BY <2>2, <3>2, <3>3, <3>5
    <3> QED BY <3>4, <3>5
  <2>8. AnsweredInTime'
    <3> SUFFICES ASSUME NEW p \in Posts, PostAt(p, "answered")'
                 PROVE  tick <= replaced'[post[p].answer] + Ttl + Slack
      BY <2>1 DEF AnsweredInTime
    <3>1. post[p].answer \in 0 .. MaxChanges
      BY <2>2 DEF GatewayTypeOK
    <3>2. CASE post[p].answer = version
      <4>1. replaced'[post[p].answer] = tick
        BY <2>2, <3>1, <3>2
      <4>2. tick <= tick + Ttl + Slack
        BY <2>2, Bounds
      <4> QED BY <4>1, <4>2
    <3>3. CASE post[p].answer # version
      <4>1. replaced'[post[p].answer] = replaced[post[p].answer]
        BY <2>2, <3>1, <3>3
      <4> QED BY <2>1, <4>1 DEF AnsweredInTime, PostAt
    <3> QED BY <3>2, <3>3
  <2>9. OnlyRegistered'
    BY <2>1 DEF OnlyRegistered
  <2> QED BY <2>1, <2>2, <2>3, <2>4, <2>5, <2>6, <2>7, <2>8, <2>9 DEF GatewayTypeOK, Place
<1>3. CASE TickGateway
  <2>1. /\ UNCHANGED <<mode, registered, version, replaced, responses, post>>
        /\ tick' = tick + 1 /\ tick' \in 0 .. Sunset /\ tick \in Nat
        /\ \A p \in Posts : PostAt(p, "store") => tick - post[p].since < Slack
        /\ \A p \in Posts : ~PostAt(p, "answered")
    BY <1>3, Bounds DEF TickGateway, GatewayTypeOK
  <2>2. ReplacedByNow'
    BY <2>1, Bounds DEF ReplacedByNow, GatewayTypeOK
  <2>3. StoredInTime'
    <3> SUFFICES ASSUME NEW p \in Posts, PostAt(p, "store")
                 PROVE  /\ post[p].since <= tick' /\ tick' <= post[p].since + Slack
                        /\ post[p].since <= replaced[post[p].answer]
      BY <2>1 DEF StoredInTime, PostAt
    <3>1. post[p].since \in Nat
      BY Bounds DEF GatewayTypeOK
    <3> QED BY <2>1, <3>1, Bounds DEF StoredInTime
  <2>4. CachedInTime'
    <3> SUFFICES ASSUME NEW d \in Docs, responses[d] # <<>>
                 PROVE  /\ responses[d].until <= tick' + Ttl
                        /\ responses[d].until <= replaced[responses[d].version] + Ttl + Slack
      BY <2>1 DEF CachedInTime
    <3>1. responses[d].until \in Nat
      BY DEF GatewayTypeOK
    <3> QED BY <2>1, <3>1, Bounds DEF CachedInTime
  <2>5. OnlyRegistered' /\ AnsweredInTime'
    BY <2>1 DEF OnlyRegistered, AnsweredInTime, PostAt
  <2> QED BY <2>1, <2>2, <2>3, <2>4, <2>5 DEF GatewayTypeOK
<1> QED BY <1>1, <1>2, <1>3

LEMMA GatewayNextIInv ==
    ASSUME GatewayIInv, [GatewayNext]_gatewayVars
    PROVE  GatewayIInv'
<1>1. CASE GatewayNext
  BY <1>1, QueryStep, AnswerStep, WorldStep DEF GatewayNext
<1>2. CASE UNCHANGED gatewayVars
  BY <1>2 DEF gatewayVars, GatewayIInv, GatewayTypeOK, OnlyRegistered, ReplacedByNow, StoredInTime,
              CachedInTime, AnsweredInTime, PostAt
<1> QED BY <1>1, <1>2

LEMMA GatewayInvariant == GatewaySpec => []GatewayIInv
BY GatewayInitIInv, GatewayNextIInv, PTL DEF GatewaySpec

\* The store of persisted queries, the response cache and the requests keep their types.
THEOREM GatewayTyped == GatewaySpec => []GatewayTypeOK
<1>1. GatewayIInv => GatewayTypeOK
  BY DEF GatewayIInv
<1> QED BY <1>1, GatewayInvariant, PTL

\* resolve() (open-runo-persisted-queries/src/lib.rs) and graphql_post_handler
\* (open-runo-gateway/src/graphql_hyper.rs): under enforce nothing runs that was not
\* registered, and no answer is further behind the router than Ttl and the time its
\* request took, in whatever order requests, changes and stores come.
THEOREM Faithful == GatewaySpec => []AnswersAreFaithful
<1>1. GatewayIInv => AnswersAreFaithful
  <2> SUFFICES ASSUME GatewayIInv, NEW p \in Posts
               PROVE  /\ mode = "enforce"
                            /\ post[p].at \in {"lookup", "execute", "store", "answered"}
                         => post[p].doc \in registered
                      /\ PostAt(p, "answered")
                            => tick - replaced[post[p].answer] <= Ttl + Slack
    BY DEF AnswersAreFaithful
  <2>1. /\ post[p].answer \in 0 .. MaxChanges /\ tick \in Nat
        /\ replaced[post[p].answer] \in Nat
    BY Bounds DEF GatewayIInv, GatewayTypeOK
  <2> QED BY <2>1, Bounds DEF GatewayIInv, OnlyRegistered, AnsweredInTime
<1> QED BY <1>1, GatewayInvariant, PTL

-----------------------------------------------------------------------------
(* ModelKeeping *)

\* A model that goes on from the stored one has learned at least as much, and so had
\* each sound snapshot, which what is learned now has not fallen behind. Until the
\* restore is over nothing goes on from the stored model.
GoesOnFromStored ==
    /\ goesOn => learned >= stored
    /\ \A s \in Savers : saves[s] # NoSave => saves[s].model >= 0
    /\ \A s \in Savers : saves[s].sound =>
          /\ saves[s].model >= stored
          /\ goesOn => learned >= saves[s].model
    /\ restoring # "done" => ~goesOn /\ \A s \in Savers : ~saves[s].sound

KeepingIInv == KeepingTypeOK /\ GoesOnFromStored

LEMMA KeepingStep ==
    ASSUME KeepingIInv, [KeepingNext]_keepingVars
    PROVE  KeepingIInv'
<1> USE KeepingAssumption DEF KeepingIInv
<1> DEFINE Save == [model : -1 .. MaxLearned, sound : BOOLEAN]
<1>0. /\ restoring \in {"get", "apply", "done"} /\ goesOn \in BOOLEAN
      /\ fetched \in 0 .. MaxLearned /\ learned \in 0 .. MaxLearned /\ stored \in 0 .. MaxLearned
      /\ saves \in [Savers -> Save] /\ NoSave \in Save /\ ~NoSave.sound
  BY DEF KeepingTypeOK, NoSave
<1>1. CASE Learn
  BY <1>0, <1>1 DEF Learn, KeepingTypeOK, GoesOnFromStored
<1>2. CASE FetchModel
  BY <1>0, <1>2 DEF FetchModel, KeepingTypeOK, GoesOnFromStored
<1>7. CASE RestoreModel
  <2>1. /\ learned' = fetched \/ (fetched = 0 /\ learned' = learned)
        /\ goesOn' = (stored = fetched) /\ restoring' = "done" /\ restoring = "apply"
        /\ UNCHANGED <<fetched, stored, saves>>
    BY <1>7 DEF RestoreModel
  <2>2. \A s \in Savers : ~saves[s].sound
    BY <2>1 DEF GoesOnFromStored
  <2>3. KeepingTypeOK' /\ (goesOn' => learned' >= stored)
    BY <1>0, <2>1 DEF KeepingTypeOK
  <2> QED BY <2>1, <2>2, <2>3 DEF GoesOnFromStored
<1>3. ASSUME NEW s \in Savers, TakeSnapshot(s) PROVE KeepingIInv'
  <2> DEFINE r == [model |-> learned, sound |-> goesOn]
  <2>1. saves' = [saves EXCEPT ![s] = r] /\ UNCHANGED <<restoring, fetched, learned, stored, goesOn>>
    BY <1>3 DEF TakeSnapshot
  <2>2. r \in Save /\ r.model = learned /\ r.sound = goesOn
    BY <1>0
  <2> HIDE DEF r
  <2>3. KeepingTypeOK' /\ \A t \in Savers : saves'[t] = IF t = s THEN r ELSE saves[t]
    BY <1>0, <2>1, <2>2 DEF KeepingTypeOK
  <2>4. GoesOnFromStored'
    BY <1>0, <2>1, <2>2, <2>3 DEF GoesOnFromStored
  <2> QED BY <2>3, <2>4
<1>4. ASSUME NEW s \in Savers, SaveModel(s) PROVE KeepingIInv'
  <2>1. UNCHANGED <<restoring, fetched, learned>> /\ saves[s] # NoSave
    BY <1>4 DEF SaveModel
  <2>2. CASE UNCHANGED <<stored, goesOn>> /\ saves' = [saves EXCEPT ![s] = NoSave]
    <3>1. KeepingTypeOK' /\ \A t \in Savers : saves'[t] = IF t = s THEN NoSave ELSE saves[t]
      BY <1>0, <2>1, <2>2 DEF KeepingTypeOK
    <3> QED BY <1>0, <2>1, <2>2, <3>1 DEF GoesOnFromStored
  <2>3. CASE /\ stored' = saves[s].model /\ goesOn' = (goesOn /\ saves[s].sound)
             /\ saves' = [t \in Savers |-> IF t = s \/ saves[t] = NoSave THEN NoSave
                                           ELSE [saves[t] EXCEPT !.sound = FALSE]]
    <3>1. /\ saves[s] \in Save
          /\ saves[s].model \in 0 .. MaxLearned
      BY <2>1 DEF KeepingTypeOK, GoesOnFromStored
    <3>2. \A t \in Savers : /\ saves'[t] \in Save
                            /\ ~saves'[t].sound
                            /\ saves'[t] = NoSave \/ saves'[t].model = saves[t].model
                            /\ saves'[t] # NoSave => saves[t] # NoSave
      BY <1>0, <2>3 DEF KeepingTypeOK
    <3>3. DOMAIN saves' = Savers /\ saves' = [t \in Savers |-> saves'[t]]
      BY <2>3
    <3>4. saves' \in [Savers -> Save]
      BY <3>2, <3>3
    <3>5. KeepingTypeOK'
      BY <1>0, <2>1, <2>3, <3>1, <3>4 DEF KeepingTypeOK
    <3>6. goesOn' => learned' >= stored'
      BY <1>0, <2>1, <2>3, <3>1 DEF GoesOnFromStored
    <3>7. \A t \in Savers : saves'[t] # NoSave => saves'[t].model >= 0
      BY <3>2 DEF GoesOnFromStored
    <3>8. restoring' # "done" => ~goesOn'
      BY <2>1, <2>3 DEF GoesOnFromStored
    <3> QED BY <3>2, <3>5, <3>6, <3>7, <3>8 DEF GoesOnFromStored
  <2> QED BY <1>4, <2>2, <2>3 DEF SaveModel
<1>5. CASE RouterRestarts
  <2>1. /\ saves' \in [Savers -> [model : -1 .. MaxLearned, sound : BOOLEAN]]
        /\ \A s \in Savers : saves'[s] = NoSave
        /\ restoring' = "get" /\ fetched' = 0 /\ learned' = 0 /\ ~goesOn' /\ goesOn' \in BOOLEAN
        /\ UNCHANGED stored
    BY <1>0, <1>5 DEF RouterRestarts
  <2>2. KeepingTypeOK'
    BY <1>0, <2>1 DEF KeepingTypeOK
  <2>3. GoesOnFromStored'
    BY <1>0, <2>1 DEF GoesOnFromStored
  <2> QED BY <2>2, <2>3
<1>6. CASE UNCHANGED keepingVars
  BY <1>0, <1>6 DEF keepingVars, KeepingTypeOK, GoesOnFromStored
<1> QED BY <1>1, <1>2, <1>3, <1>4, <1>5, <1>6, <1>7 DEF KeepingNext

LEMMA KeepingInvariant == KeepingSpec => []KeepingIInv
<1>1. KeepingInit => KeepingIInv
  <2> SUFFICES ASSUME KeepingInit PROVE KeepingIInv
    OBVIOUS
  <2>1. NoSave \in [model : -1 .. MaxLearned, sound : BOOLEAN] /\ ~NoSave.sound
    BY KeepingAssumption DEF NoSave
  <2>2. /\ saves \in [Savers -> [model : -1 .. MaxLearned, sound : BOOLEAN]]
        /\ \A s \in Savers : saves[s] = NoSave
        /\ restoring = "get" /\ fetched = 0 /\ learned = 0 /\ stored = 0 /\ goesOn = FALSE
    BY <2>1 DEF KeepingInit
  <2>3. KeepingTypeOK
    <3>1. 0 \in 0 .. MaxLearned
      BY KeepingAssumption
    <3> QED BY <2>2, <3>1 DEF KeepingTypeOK
  <2>4. GoesOnFromStored
    BY <2>1, <2>2 DEF GoesOnFromStored
  <2> QED BY <2>3, <2>4 DEF KeepingIInv
<1> QED BY <1>1, KeepingStep, PTL DEF KeepingSpec

\* What restore_model, save_model and the learning in between keep (maintenance.rs:55-92)
\* is of its type, and no save holds more than could be learned.
THEOREM KeepingTyped == KeepingSpec => []KeepingTypeOK
<1>1. KeepingIInv => KeepingTypeOK
  BY DEF KeepingIInv
<1> QED BY <1>1, KeepingInvariant, PTL

\* save_model and restore_model (open-runo-router/src/maintenance.rs:55-92): a save
\* that goes on from the stored model never puts back one that has learned less,
\* however restarts, failures and backups interleave with it.
THEOREM LearningIsKept == KeepingSpec => SoundSaveKeepsLearning
<1>1. ASSUME KeepingIInv, NEW s \in Savers, saves[s].sound, SaveModel(s)
      PROVE  stored' >= stored
  <2>1. saves[s].model >= stored /\ stored \in Int
    BY <1>1, KeepingAssumption DEF KeepingIInv, KeepingTypeOK, GoesOnFromStored
  <2> QED BY <1>1, <2>1 DEF SaveModel
<1>2. ASSUME KeepingIInv, [KeepingNext]_keepingVars
      PROVE  [(\E s \in Savers : saves[s].sound /\ SaveModel(s))
                  => stored' >= stored]_keepingVars
  BY <1>1, <1>2
<1> QED BY <1>2, KeepingInvariant, PTL DEF KeepingSpec, SoundSaveKeepsLearning

-----------------------------------------------------------------------------
(* FederatedDatabase *)

\* What the members hold when the last write left v and was acknowledged.
Holds(v) == IF v = 0 THEN \A m \in Members : copies[m] = 0 ELSE copies[Owner] = v

\* A write that nothing has disturbed has reached the members before its place.
WritesSoFar(u) ==
    Writing(u) =>
        /\ call[u].at \in Members
        /\ call[u].op = "put" => /\ call[u].value # 0
                                 /\ ~placement.broadcast => call[u].at = Owner
        /\ call[u].op = "delete" => call[u].value = 0
        /\ call[u].ok =>
              /\ Alone(u)
              /\ call[u].op = "delete" \/ placement.broadcast =>
                    \A m \in 1 .. call[u].at - 1 : copies[m] = call[u].value

\* A read whose expectation no write has voided: where it is, and what it has found.
ReadsSoFar(u) ==
    call[u].op \in {"get", "list", "answer"} /\ call[u].expect # Unknown =>
        /\ call[u].expect = known
        /\ call[u].op = "get" /\ call[u].at > 0 => known = 0
        /\ call[u].op = "list" /\ known = 0 => call[u].value = 0
        /\ call[u].op = "answer" => call[u].value = known

FedInv ==
    /\ FedTypeOK
    /\ dialled = Up => Owner \in Members
    /\ dialled # Up => \A u \in Users : call[u].op = "none"
    /\ known # Unknown => Holds(known) /\ \A u \in Users : ~Writing(u)
    /\ \A u \in Users : WritesSoFar(u) /\ ReadsSoFar(u)

CallSet == [op : {"none", "put", "delete", "get", "list", "answer"},
            at : 0 .. MemberCount, value : 0 .. MaxWritten,
            ok : BOOLEAN, expect : {Unknown} \cup 0 .. MaxWritten]

LEMMA RestingIs ==
    Resting \in CallSet /\ Resting.op = "none"
  BY FederatedAssumption DEF Resting, CallSet, Unknown

LEMMA FedTypes ==
  ASSUME FedInv
  PROVE  /\ call \in [Users -> CallSet] /\ copies \in [Members -> 0 .. MaxWritten]
         /\ placement.broadcast \in BOOLEAN /\ Owner \in 0 .. MemberCount
         /\ written \in 1 .. MaxWritten /\ known \in {Unknown} \cup 0 .. MaxWritten
         /\ MemberCount \in Nat \ {0} /\ MaxWritten \in Nat \ {0} /\ dialled \in Refused .. Up
  BY FederatedAssumption DEF FedInv, FedTypeOK, CallSet, Owner

LEMMA FedStarts == FedInit => FedInv
  <1> SUFFICES ASSUME FedInit PROVE FedInv
    OBVIOUS
  <1>1. \A u \in Users : call[u] = Resting
    BY DEF FedInit
  <1>2. call \in [Users -> CallSet]
    BY RestingIs DEF FedInit
  <1>3. FedTypeOK
    <2>1. /\ dialled \in Refused .. Up /\ copies \in [Members -> 0 .. MaxWritten]
          /\ written \in 1 .. MaxWritten
      BY FederatedAssumption DEF FedInit, Refused, Up
    <2> QED
      BY <1>2, <2>1 DEF FedInit, FedTypeOK, CallSet
  <1>4. dialled # Up
    BY FederatedAssumption DEF FedInit, Up
  <1> QED
    BY <1>1, <1>3, <1>4, RestingIs DEF FedInit, FedInv, WritesSoFar, ReadsSoFar, Writing

\* A call that reads moves on: nothing it reads from changes.
LEMMA ReadsOn ==
  ASSUME FedInv, NEW u \in Users, NEW c \in CallSet, c.op \notin {"put", "delete"},
         ~Writing(u), call' = [call EXCEPT ![u] = c],
         UNCHANGED <<dialled, placement, copies, written, known>>,
         dialled # Up => c.op = "none",
         ReadsSoFar(u)'
  PROVE  FedInv'
  <1>1. call' \in [Users -> CallSet] /\ call'[u] = c
        /\ \A w \in Users \ {u} : call'[w] = call[w]
    BY FedTypes
  <1>2. FedTypeOK'
    BY <1>1 DEF FedInv, FedTypeOK, CallSet
  <1>3. \A w \in Users : Writing(w)' => w # u /\ Writing(w)
    BY <1>1 DEF Writing
  <1>4. \A w \in Users \ {u} : Alone(w) => Alone(w)'
    BY <1>3 DEF Alone
  <1>5. ASSUME NEW w \in Users PROVE WritesSoFar(w)' /\ ReadsSoFar(w)'
    <2>1. CASE w = u
      BY <1>3, <2>1 DEF WritesSoFar
    <2>2. CASE w # u
      BY <1>1, <1>3, <1>4, <2>2 DEF WritesSoFar, ReadsSoFar, FedInv, Owner
    <2> QED
      BY <2>1, <2>2
  <1> QED
    BY <1>1, <1>2, <1>3, <1>5 DEF FedInv, Holds, Owner

LEMMA DialStep ==
  ASSUME FedInv, ConnectMember \/ Build
  PROVE  FedInv'
  <1>1. /\ dialled # Up /\ UNCHANGED <<placement, copies, written, known, call>>
        /\ dialled' \in Refused .. Up /\ (dialled' = Up => Owner \in Members)
    BY FedTypes DEF ConnectMember, Build, Up, Refused
  <1>2. \A u \in Users : call[u].op = "none"
    BY <1>1 DEF FedInv
  <1>3. FedTypeOK'
    BY <1>1 DEF FedInv, FedTypeOK
  <1> QED
    BY <1>1, <1>2, <1>3 DEF FedInv, WritesSoFar, ReadsSoFar, Writing, Holds, Owner

LEMMA BeginStep ==
  ASSUME FedInv, NEW u \in Users, PutBegins(u) \/ DeleteBegins(u)
  PROVE  FedInv'
  <1>1. PICK op \in {"put", "delete"}, at \in Members, value \in 0 .. MaxWritten :
          /\ Begin(u, op, at, value) /\ (op = "delete" <=> value = 0)
          /\ op = "put" /\ ~placement.broadcast => at = Owner
          /\ op = "delete" \/ placement.broadcast => at = 1
          /\ written' \in 1 .. MaxWritten
    <2>1. 1 \in Members /\ (PutBegins(u) => Owner \in Members)
      BY FedTypes DEF Members, PutBegins, FedInv
    <2>2. CASE PutBegins(u)
      <3>1. /\ Begin(u, "put", IF placement.broadcast THEN 1 ELSE Owner, written + 1)
            /\ written' = written + 1 /\ written < MaxWritten
        BY <2>2 DEF PutBegins
      <3>2. written + 1 \in 1 .. MaxWritten /\ written + 1 # 0
        BY <3>1, FedTypes
      <3>3. (IF placement.broadcast THEN 1 ELSE Owner) \in Members
        BY <2>1, <2>2
      <3> QED
        BY <3>1, <3>2, <3>3
    <2>3. CASE DeleteBegins(u)
      <3>1. Begin(u, "delete", 1, 0) /\ written' = written
        BY <2>3 DEF DeleteBegins
      <3> QED
        BY <2>1, <3>1, FedTypes
    <2> QED
      BY <2>2, <2>3
  <1>2. /\ dialled = Up /\ call[u].op = "none" /\ known' = Unknown
        /\ UNCHANGED <<dialled, placement, copies>>
    BY DEF PutBegins, DeleteBegins, Begin
  <1> DEFINE c == [Resting EXCEPT !.op = op, !.at = at, !.value = value, !.ok = Alone(u)]
  <1>3. call' = [w \in Users |->
                   IF w = u THEN c
                   ELSE IF Writing(w) THEN [call[w] EXCEPT !.ok = FALSE]
                   ELSE [call[w] EXCEPT !.expect = Unknown]]
    BY <1>1 DEF Begin
  <1>4. /\ c \in CallSet /\ c.op = op /\ c.at = at /\ c.value = value /\ c.ok = Alone(u)
    <2>1. Resting = [op |-> "none", at |-> 0, value |-> 0, ok |-> TRUE, expect |-> Unknown]
      BY DEF Resting
    <2>2. c = [op |-> op, at |-> at, value |-> value, ok |-> Alone(u), expect |-> Unknown]
      <3>1. PICK b : b = Alone(u)
        OBVIOUS
      <3>2. c = [Resting EXCEPT !.op = op, !.at = at, !.value = value, !.ok = b]
        BY <3>1
      <3> HIDE DEF c
      <3>3. c = [op |-> op, at |-> at, value |-> value, ok |-> b, expect |-> Unknown]
        BY <2>1, <3>2
      <3> QED
        BY <3>1, <3>3
    <2>3. at \in 0 .. MemberCount /\ Alone(u) \in BOOLEAN
      BY DEF Members, Alone
    <2> QED
      BY <2>2, <2>3 DEF CallSet
  <1> HIDE DEF c
  <1>5. ASSUME NEW w \in Users \ {u}
        PROVE  /\ call'[w] \in CallSet /\ call'[w].op = call[w].op /\ call'[w].at = call[w].at
               /\ call'[w].value = call[w].value
               /\ Writing(w) => call'[w].ok = FALSE
               /\ ~Writing(w) => call'[w].expect = Unknown
    <2>1. PICK x \in CallSet : x = call[w]
      BY FedTypes
    <2>2. /\ [x EXCEPT !.ok = FALSE] \in CallSet /\ [x EXCEPT !.ok = FALSE].op = x.op
          /\ [x EXCEPT !.ok = FALSE].at = x.at /\ [x EXCEPT !.ok = FALSE].value = x.value
          /\ [x EXCEPT !.ok = FALSE].ok = FALSE
      BY DEF CallSet
    <2>3. /\ [x EXCEPT !.expect = Unknown] \in CallSet /\ [x EXCEPT !.expect = Unknown].op = x.op
          /\ [x EXCEPT !.expect = Unknown].at = x.at
          /\ [x EXCEPT !.expect = Unknown].value = x.value
          /\ [x EXCEPT !.expect = Unknown].expect = Unknown
      BY DEF CallSet
    <2>4. call'[w] = IF Writing(w) THEN [x EXCEPT !.ok = FALSE] ELSE [x EXCEPT !.expect = Unknown]
      BY <1>3, <2>1
    <2> QED
      BY <2>1, <2>2, <2>3, <2>4
  <1>6. call' \in [Users -> CallSet] /\ call'[u] = c
    BY <1>3, <1>4, <1>5
  <1>7. FedTypeOK'
    BY <1>1, <1>2, <1>6 DEF FedInv, FedTypeOK, CallSet
  <1>8. ASSUME NEW w \in Users PROVE WritesSoFar(w)' /\ ReadsSoFar(w)'
    <2>1. CASE w = u
      <3>1. ReadsSoFar(w)'
        BY <1>1, <1>4, <1>6, <2>1 DEF ReadsSoFar
      <3>2. c.ok => Alone(u)'
        BY <1>4, <1>5 DEF Alone, Writing
      <3>3. 1 .. 1 - 1 = {}
        OBVIOUS
      <3>4. WritesSoFar(w)'
        BY <1>1, <1>2, <1>4, <1>6, <2>1, <3>2, <3>3 DEF WritesSoFar, Owner
      <3> QED
        BY <3>1, <3>4
    <2>2. CASE w # u
      <3>1. ReadsSoFar(w)'
        BY <1>5, <2>2 DEF ReadsSoFar, Writing
      <3>2. WritesSoFar(w)'
        BY <1>2, <1>5, <2>2 DEF FedInv, WritesSoFar, Writing, Owner
      <3> QED
        BY <3>1, <3>2
    <2> QED
      BY <2>1, <2>2
  <1> QED
    BY <1>2, <1>7, <1>8 DEF FedInv, Owner

LEMMA WalkStep ==
  ASSUME FedInv, NEW u \in Users, NEW more \in BOOLEAN, WalkOn(u, more),
         more => call[u].at < MemberCount /\ (call[u].op = "delete" \/ placement.broadcast),
         call[u].op = "delete" \/ placement.broadcast => (more <=> call[u].at < MemberCount)
  PROVE  FedInv'
  <1> DEFINE m == call[u].at
             v == call[u].value
  <1>1. PICK ok \in BOOLEAN :
          /\ MemberWrites(m, v, ok)
          /\ IF more
             THEN /\ call' = [call EXCEPT ![u].at = @ + 1, ![u].ok = @ /\ ok]
                  /\ UNCHANGED known
             ELSE /\ Ends(u)
                  /\ known' = IF call[u].ok /\ ok THEN v ELSE known
    BY DEF WalkOn
  <1>2. Writing(u) /\ UNCHANGED <<dialled, placement, written>>
    BY DEF WalkOn
  <1>3. /\ m \in Members /\ m \in Nat /\ v \in 0 .. MaxWritten /\ call[u] \in CallSet
        /\ known = Unknown /\ Writing(u) /\ WritesSoFar(u)
    <2>1. m \in Members /\ m \in Nat /\ WritesSoFar(u) /\ known = Unknown
      BY <1>2 DEF FedInv, WritesSoFar, Members
    <2>2. call[u] \in CallSet
      BY FedTypes
    <2> QED
      BY <1>2, <2>1, <2>2 DEF CallSet
  <1>4. /\ copies' \in [Members -> 0 .. MaxWritten]
        /\ ok => copies' = [copies EXCEPT ![m] = v]
    BY <1>1, <1>3, FedTypes DEF MemberWrites
  <1>5. \A w \in Users \ {u} : Writing(w) => ~call[w].ok
    BY <1>2 DEF FedInv, WritesSoFar, Alone
  <1>6. \A w \in Users \ {u} : call[w].op \in {"get", "list", "answer"} => call[w].expect = Unknown
    BY <1>3 DEF FedInv, ReadsSoFar
  <1> HIDE DEF m, v
  <1>7. CASE more
    <2>1. PICK c : c = [call[u] EXCEPT !.at = m + 1, !.ok = call[u].ok /\ ok]
      OBVIOUS
    <2>2. call' = [call EXCEPT ![u] = c] /\ known' = known
      BY <1>1, <1>7, <2>1 DEF m
    <2>3. m + 1 \in 0 .. MemberCount /\ m + 1 \in Members
      BY <1>3, <1>7, FedTypes DEF m, Members
    <2>4. /\ c \in CallSet /\ c.op = call[u].op /\ c.at = m + 1 /\ c.value = v
          /\ c.ok = (call[u].ok /\ ok)
      BY <1>3, <2>1, <2>3 DEF CallSet, v
    <2>5. call' \in [Users -> CallSet] /\ call'[u] = c /\ \A w \in Users \ {u} : call'[w] = call[w]
      BY <2>2, <2>4, FedTypes
    <2>6. FedTypeOK'
      BY <1>2, <1>4, <2>2, <2>5 DEF FedInv, FedTypeOK, CallSet
    <2>7. \A w \in Users : Writing(w)' <=> Writing(w)
      BY <2>4, <2>5 DEF Writing
    <2>8. ASSUME NEW w \in Users PROVE WritesSoFar(w)' /\ ReadsSoFar(w)'
      <3>1. CASE w # u
        BY <1>2, <1>5, <1>6, <2>2, <2>5, <2>7, <3>1 DEF FedInv, WritesSoFar, ReadsSoFar, Owner
      <3>2. CASE w = u
        <4>1. ReadsSoFar(w)'
          BY <1>3, <2>4, <2>5, <3>2 DEF ReadsSoFar, Writing
        <4>2. c.ok => Alone(u)'
          BY <1>3, <2>4, <2>7 DEF WritesSoFar, Alone
        <4>3. ASSUME c.ok, NEW k \in 1 .. m PROVE copies'[k] = v
          <5>1. ok /\ copies' = [copies EXCEPT ![m] = v] /\ call[u].ok
            BY <1>4, <2>4, <4>3
          <5>2. k \in Members
            BY <1>3, FedTypes DEF Members
          <5>3. k # m => k \in 1 .. m - 1
            BY <1>3
          <5>4. k # m => copies[k] = v
            BY <1>3, <1>7, <5>1, <5>3 DEF WritesSoFar, m, v
          <5> QED
            BY <5>1, <5>2, <5>4, FedTypes
        <4>4. (m + 1) - 1 = m
          BY <1>3
        <4>5. WritesSoFar(w)'
          BY <1>2, <1>3, <1>7, <2>3, <2>4, <2>5, <3>2, <4>2, <4>3, <4>4 DEF WritesSoFar, Owner, Writing, v
        <4> QED
          BY <4>1, <4>5
      <3> QED
        BY <3>1, <3>2
    <2> QED
      BY <1>2, <1>3, <2>2, <2>4, <2>5, <2>6, <2>8, FedTypes DEF FedInv, Owner
  <1>8. CASE ~more
    <2>1. /\ call' = [call EXCEPT ![u] = Resting]
          /\ known' = IF call[u].ok /\ ok THEN v ELSE Unknown
      BY <1>1, <1>3, <1>8 DEF Ends
    <2>2. call' \in [Users -> CallSet] /\ call'[u] = Resting /\ \A w \in Users \ {u} : call'[w] = call[w]
      BY <2>1, FedTypes, RestingIs
    <2>3. FedTypeOK'
      BY <1>2, <1>3, <1>4, <2>1, <2>2 DEF FedInv, FedTypeOK, CallSet, v
    <2>4. \A w \in Users : Writing(w)' => w # u /\ Writing(w)
      BY <2>2, RestingIs DEF Writing
    <2>5. ASSUME NEW w \in Users PROVE WritesSoFar(w)' /\ ReadsSoFar(w)'
      <3>1. CASE w # u
        BY <1>2, <1>5, <1>6, <2>2, <2>4, <3>1 DEF FedInv, WritesSoFar, ReadsSoFar, Owner
      <3>2. CASE w = u
        BY <2>2, <2>4, <3>2, RestingIs DEF WritesSoFar, ReadsSoFar
      <3> QED
        BY <3>1, <3>2
    <2>6. ASSUME known' # Unknown PROVE Holds(known)' /\ \A w \in Users : ~Writing(w)'
      <3>1. call[u].ok /\ ok /\ known' = v /\ copies' = [copies EXCEPT ![m] = v] /\ Alone(u)
        BY <1>3, <1>4, <2>1, <2>6 DEF WritesSoFar
      <3>2. \A w \in Users : ~Writing(w)'
        BY <2>4, <3>1 DEF Alone
      <3>3. copies'[m] = v
        BY <1>3, <3>1, FedTypes
      <3>4. CASE call[u].op = "delete" \/ placement.broadcast
        <4>1. m = MemberCount
          BY <1>3, <1>8, <3>4, FedTypes DEF m, Members
        <4>2. ASSUME NEW k \in Members PROVE copies'[k] = v
          <5>1. k # m => k \in 1 .. m - 1
            BY <4>1, FedTypes DEF Members
          <5>2. k # m => copies[k] = v
            BY <1>3, <3>1, <3>4, <5>1 DEF WritesSoFar, m, v
          <5> QED
            BY <3>1, <3>3, <5>2, FedTypes
        <4>3. Owner \in Members
          BY <1>2 DEF FedInv, Writing
        <4> QED
          BY <1>2, <3>1, <3>2, <4>2, <4>3 DEF Holds, Owner
      <3>5. CASE call[u].op = "put" /\ ~placement.broadcast
        <4>1. m = Owner /\ v # 0
          BY <1>3, <3>5 DEF WritesSoFar, m, v
        <4> QED
          BY <1>2, <3>1, <3>2, <3>3, <4>1 DEF Holds, Owner
      <3> QED
        BY <1>3, <3>4, <3>5 DEF Writing
    <2>7. dialled # Up => \A w \in Users : call'[w].op = "none"
      BY <1>2, <1>3 DEF FedInv, Writing
    <2> QED
      BY <1>2, <2>3, <2>5, <2>6, <2>7 DEF FedInv, Owner
  <1> QED
    BY <1>7, <1>8

LEMMA ReadStep ==
  ASSUME FedInv, NEW u \in Users,
         ReadBegins(u) \/ GetMember(u) \/ ListMember(u) \/ Answered(u)
  PROVE  FedInv'
  <1>1. UNCHANGED <<dialled, placement, copies, written, known>> /\ ~Writing(u)
    BY DEF ReadBegins, GetMember, ListMember, Answered, Writing
  <1>2. call[u] \in CallSet
    BY FedTypes
  <1>3. ASSUME Ends(u) PROVE FedInv'
    <2>1. call' = [call EXCEPT ![u] = Resting] /\ call'[u] = Resting
      BY <1>3, FedTypes DEF Ends
    <2>2. ReadsSoFar(u)'
      BY <2>1, RestingIs DEF ReadsSoFar
    <2> QED
      BY <1>1, <2>1, <2>2, RestingIs, ReadsOn
  <1>4. ASSUME NEW v \in 0 .. MaxWritten, Found(u, v), call[u].op \in {"get", "list"},
               call[u].expect # Unknown => v = known
        PROVE  FedInv'
    <2>1. PICK c : c = [call[u] EXCEPT !.op = "answer", !.value = v, !.at = 0]
      OBVIOUS
    <2>2. call' = [call EXCEPT ![u] = c]
      BY <1>4, <2>1 DEF Found
    <2>3. /\ c \in CallSet /\ c.op = "answer" /\ c.value = v /\ c.expect = call[u].expect
      <3>1. 0 \in 0 .. MemberCount
        BY FedTypes
      <3> QED
        BY <1>2, <2>1, <3>1 DEF CallSet
    <2>4. call'[u] = c
      BY <2>2, FedTypes
    <2>5. ReadsSoFar(u)'
      BY <1>1, <1>4, <2>3, <2>4 DEF ReadsSoFar, FedInv
    <2>6. dialled = Up
      BY <1>4 DEF FedInv
    <2> QED
      BY <1>1, <2>2, <2>3, <2>5, <2>6, ReadsOn
  <1>5. CASE ReadBegins(u)
    <2>1. PICK op \in {"get", "list"} :
            call' = [call EXCEPT ![u] = [Resting EXCEPT !.op = op, !.expect = known,
                                           !.at = IF op = "get" THEN 0 ELSE MemberCount]]
      BY <1>5 DEF ReadBegins
    <2> DEFINE c == [Resting EXCEPT !.op = op, !.expect = known,
                                    !.at = IF op = "get" THEN 0 ELSE MemberCount]
    <2>2. c = [op |-> op, at |-> IF op = "get" THEN 0 ELSE MemberCount, value |-> 0, ok |-> TRUE,
               expect |-> known]
      <3>1. PICK n : n = IF op = "get" THEN 0 ELSE MemberCount
        OBVIOUS
      <3>2. c = [Resting EXCEPT !.op = op, !.expect = known, !.at = n]
        BY <3>1
      <3> HIDE DEF c
      <3>3. c = [op |-> op, at |-> n, value |-> 0, ok |-> TRUE, expect |-> known]
        BY <3>2 DEF Resting
      <3> QED
        BY <3>1, <3>3
    <2>3. c \in CallSet
      <3>1. (IF op = "get" THEN 0 ELSE MemberCount) \in 0 .. MemberCount /\ 0 \in 0 .. MaxWritten
        BY FedTypes
      <3>2. known \in {Unknown} \cup 0 .. MaxWritten
        BY FedTypes
      <3> QED
        BY <2>2, <3>1, <3>2 DEF CallSet
    <2>4. call' = [call EXCEPT ![u] = c]
      BY <2>1
    <2>5. c.op \in {"get", "list"} /\ c.value = 0 /\ c.expect = known /\ (c.op = "get" => c.at = 0)
      BY <2>2
    <2> HIDE DEF c
    <2>6. PICK x \in CallSet : x = c
      BY <2>3
    <2>7. call' = [call EXCEPT ![u] = x] /\ call'[u] = x
      BY <2>4, <2>6, FedTypes
    <2>8. ReadsSoFar(u)'
      BY <1>1, <2>5, <2>6, <2>7 DEF ReadsSoFar
    <2>9. dialled = Up
      BY <1>5 DEF ReadBegins
    <2> QED
      BY <1>1, <2>5, <2>6, <2>7, <2>8, <2>9, ReadsOn
  <1>6. CASE GetMember(u)
    <2> DEFINE m == IF call[u].at = 0 THEN Owner ELSE call[u].at
    <2>1. dialled = Up /\ Owner \in Members /\ call[u].op = "get"
      BY <1>6 DEF GetMember, FedInv
    <2>2. m \in Members /\ call[u].at \in 0 .. MemberCount
      BY <1>2, <2>1, FedTypes DEF Members, CallSet
    <2>3. copies[m] \in 0 .. MaxWritten
      BY <2>2, FedTypes
    <2>4. \/ Ends(u)
          \/ (copies[m] # 0 \/ call[u].at = MemberCount) /\ Found(u, copies[m])
          \/ copies[m] = 0 /\ call[u].at # MemberCount /\ call' = [call EXCEPT ![u].at = @ + 1]
      BY <1>6 DEF GetMember
    <2>5. ASSUME call[u].expect # Unknown
          PROVE  /\ copies[m] # 0 \/ call[u].at = MemberCount => copies[m] = known
                 /\ copies[m] = 0 => known = 0
      <3>1. known = call[u].expect /\ Holds(known) /\ (call[u].at > 0 => known = 0)
        BY <2>1, <2>5 DEF FedInv, ReadsSoFar
      <3>2. known = 0 => copies[m] = 0
        BY <2>2, <3>1 DEF Holds
      <3>3. known # 0 => copies[m] = known /\ call[u].at = 0
        BY <2>2, <3>1 DEF Holds
      <3> QED
        BY <3>2, <3>3
    <2> HIDE DEF m
    <2>6. CASE copies[m] = 0 /\ call[u].at # MemberCount /\ call' = [call EXCEPT ![u].at = @ + 1]
      <3>1. PICK c : c = [call[u] EXCEPT !.at = call[u].at + 1]
        OBVIOUS
      <3>2. call' = [call EXCEPT ![u] = c]
        BY <2>6, <3>1
      <3>3. call[u].at + 1 \in 0 .. MemberCount
        BY <2>2, <2>6, FedTypes
      <3>4. c \in CallSet /\ c.op = "get" /\ c.expect = call[u].expect
        BY <1>2, <2>1, <3>1, <3>3 DEF CallSet
      <3>5. call'[u] = c
        BY <3>2, FedTypes
      <3>6. ReadsSoFar(u)'
        BY <1>1, <2>1, <2>5, <2>6, <3>4, <3>5 DEF ReadsSoFar, FedInv
      <3> QED
        BY <1>1, <2>1, <3>2, <3>4, <3>6, ReadsOn
    <2> QED
      BY <1>3, <1>4, <2>1, <2>3, <2>4, <2>5, <2>6
  <1>7. CASE ListMember(u)
    <2> DEFINE m == IF call[u].at = 0 THEN Owner ELSE call[u].at
               merged == IF copies[m] # 0 THEN copies[m] ELSE call[u].value
    <2>1. dialled = Up /\ Owner \in Members /\ call[u].op = "list"
      BY <1>7 DEF ListMember, FedInv
    <2>2. m \in Members /\ call[u].at \in 0 .. MemberCount /\ call[u].value \in 0 .. MaxWritten
      BY <1>2, <2>1, FedTypes DEF Members, CallSet
    <2>3. merged \in 0 .. MaxWritten
      BY <2>2, FedTypes
    <2>4. \/ Ends(u)
          \/ call[u].at = 0 /\ Found(u, merged)
          \/ call[u].at # 0 /\ call' = [call EXCEPT ![u].at = @ - 1, ![u].value = merged]
      BY <1>7 DEF ListMember
    <2>5. ASSUME call[u].expect # Unknown
          PROVE  /\ call[u].at = 0 => merged = known
                 /\ known = 0 => merged = 0
      <3>1. known = call[u].expect /\ Holds(known) /\ (known = 0 => call[u].value = 0)
        BY <2>1, <2>5 DEF FedInv, ReadsSoFar
      <3>2. known = 0 => merged = 0
        BY <2>2, <3>1 DEF Holds
      <3>3. known # 0 /\ call[u].at = 0 => merged = known
        BY <2>2, <3>1 DEF Holds
      <3> QED
        BY <3>2, <3>3
    <2> HIDE DEF m, merged
    <2>6. CASE call[u].at # 0 /\ call' = [call EXCEPT ![u].at = @ - 1, ![u].value = merged]
      <3>1. PICK c : c = [call[u] EXCEPT !.at = call[u].at - 1, !.value = merged]
        OBVIOUS
      <3>2. call' = [call EXCEPT ![u] = c]
        BY <2>6, <3>1
      <3>3. call[u].at - 1 \in 0 .. MemberCount
        BY <2>2, <2>6, FedTypes
      <3>4. c \in CallSet /\ c.op = "list" /\ c.expect = call[u].expect /\ c.value = merged
        BY <1>2, <2>1, <2>3, <3>1, <3>3 DEF CallSet
      <3>5. call'[u] = c
        BY <3>2, FedTypes
      <3>6. ReadsSoFar(u)'
        BY <1>1, <2>1, <2>5, <3>4, <3>5 DEF ReadsSoFar, FedInv
      <3> QED
        BY <1>1, <2>1, <3>2, <3>4, <3>6, ReadsOn
    <2> QED
      BY <1>3, <1>4, <2>1, <2>3, <2>4, <2>5, <2>6
  <1>8. CASE Answered(u)
    BY <1>3, <1>8 DEF Answered
  <1> QED
    BY <1>5, <1>6, <1>7, <1>8

LEMMA FedStep ==
  ASSUME FedInv, [FedNext]_fedVars
  PROVE  FedInv'
  <1>1. CASE UNCHANGED fedVars
    BY <1>1 DEF fedVars, FedInv, FedTypeOK, WritesSoFar, ReadsSoFar, Holds, Owner, Writing, Alone
  <1>2. ASSUME NEW u \in Users, PutMember(u) PROVE FedInv'
    <2>1. WalkOn(u, placement.broadcast /\ call[u].at < MemberCount)
      BY <1>2 DEF PutMember
    <2>2. (placement.broadcast /\ call[u].at < MemberCount) \in BOOLEAN /\ call[u].op # "delete"
      BY <1>2 DEF PutMember
    <2> QED
      BY <2>1, <2>2, WalkStep
  <1>3. ASSUME NEW u \in Users, DeleteMember(u) PROVE FedInv'
    <2>1. WalkOn(u, call[u].at < MemberCount) /\ call[u].op = "delete"
      BY <1>3 DEF DeleteMember
    <2>2. (call[u].at < MemberCount) \in BOOLEAN
      OBVIOUS
    <2> QED
      BY <2>1, <2>2, WalkStep
  <1> QED
    BY <1>1, <1>2, <1>3, DialStep, BeginStep, ReadStep DEF FedNext

LEMMA FedInvariant == FedSpec => []FedInv
  <1>1. FedInv /\ [FedNext]_fedVars => FedInv'
    BY FedStep
  <1> QED
    BY <1>1, FedStarts, PTL DEF FedSpec

\* The members of FederatedBackend (federated.rs:30-209), its placement and the calls
\* that walk over the members keep their types.
THEOREM FedTyped == FedSpec => []FedTypeOK
  <1>1. FedInv => FedTypeOK
    BY DEF FedInv
  <1> QED
    BY <1>1, FedInvariant, PTL

\* FederatedBackend's get and list (federated.rs:166-178, 192-209) answer what the last
\* write left, if it was acknowledged and no other overlapped it, for any number of
\* members, users and writes, wherever old copies are and whichever members fail.
THEOREM LastWriteFound == FedSpec => []ReadsFindLastWrite
  <1>1. FedInv => ReadsFindLastWrite
    BY DEF FedInv, ReadsSoFar, ReadsFindLastWrite
  <1> QED
    BY <1>1, FedInvariant, PTL

-----------------------------------------------------------------------------
(* Least and last numbers *)

LEMMA NatHasLeast ==
  ASSUME NEW T, T \subseteq Nat, T # {}
  PROVE  \E m \in T : \A k \in T : m <= k
  <1> DEFINE R == OpToRel(<, Nat)
  <1>1. PICK m \in T : \A k \in T : <<k, m>> \notin R
    <2>1. IsWellFoundedOn(R, Nat)
      BY NatLessThanWellFounded
    <2> HIDE DEF R
    <2> QED
      BY <2>1, WFMin
  <1>2. \A k \in T : ~(k < m)
    BY <1>1 DEF OpToRel
  <1> QED
    BY <1>2
LEMMA HasLast ==
  ASSUME NEW T, NEW n \in Nat, T \subseteq 0 .. n, T # {}
  PROVE  \E m \in T : \A k \in T : k <= m
  <1> DEFINE U == {b \in Nat : \A k \in T : k <= b}
  <1>1. U \subseteq Nat /\ n \in U
    OBVIOUS
  <1>2. PICK b \in U : \A k \in U : b <= k
    BY <1>1, NatHasLeast
  <1>3. b \in T
    <2> SUFFICES ASSUME b \notin T PROVE FALSE
      OBVIOUS
    <2>1. b \in Nat /\ \A k \in T : k <= b
      OBVIOUS
    <2>2. ASSUME NEW k \in T PROVE k \in Nat /\ k <= b - 1
      BY <2>1
    <2>3. PICK k \in T : TRUE
      OBVIOUS
    <2>4. b - 1 \in Nat
      BY <2>1, <2>2, <2>3
    <2>5. b - 1 \in U
      BY <2>2, <2>4
    <2> QED
      BY <1>2, <2>1, <2>5
  <1> QED
    BY <1>3

-----------------------------------------------------------------------------
(* Backends *)

Writes(s) == session[s].op \in {"put", "delete"}
Moves(s) == session[s].op \in {"transfer", "verify"}

\* What the rows hold when all that is known of a key is its last write.
SettledRows(k) ==
    settled[k] # Unsure =>
        /\ \A v \in held[k] : v <= settled[k]
        /\ settled[k] # Absent => settled[k] \in held[k]
                                  /\ (backend.write = "indexed" => k \in index)

\* A write under way, and how far one that no other overlaps has come.
WriteUnderWay(s) ==
    Writes(s) =>
        LET k == session[s].key
        IN /\ k \in RowKeys /\ settled[k] = Unsure /\ session[s].at \in {"begin", "index"}
           /\ \A w \in Sessions : session[w].expect[k] = Unsure
           /\ session[s].op = "put" => session[s].value \in 1 .. puts
           /\ session[s].op = "delete" => session[s].value = Absent
           /\ session[s].ok =>
                 /\ \A w \in Sessions \ {s} : ~(Writes(w) /\ session[w].key = k)
                 /\ session[s].at = "begin" /\ session[s].op = "put" =>
                       \A v \in held[k] : v < session[s].value
                 /\ session[s].at = "index" => held[k] = {session[s].value} \ {Absent}

\* A read has, or will still find, each row it may rely on; a comparison may have
\* found it in the target already.
ReadUnderWay(s) ==
    session[s].op \in {"get", "list", "verify"} =>
        \A k \in RowKeys : session[s].expect[k] # Unsure =>
            /\ \A v \in 1 .. MaxPuts : <<k, v>> \in session[s].got => v <= session[s].expect[k]
            /\ \/ session[s].expect[k] = Absent
               \/ session[s].at = "members" /\ k \in session[s].todo
               \/ <<k, session[s].expect[k]>> \in session[s].got
               \/ /\ session[s].op = "verify" /\ session[s].at = "done"
                  /\ session[s].clean => target[k] = session[s].expect[k]

SessionSet == [op : {"none", "put", "delete", "get", "list", "transfer", "verify"},
               at : {"begin", "index", "members", "done"}, key : RowKeys \cup {AtRest.key},
               value : Absent .. MaxPuts, todo : SUBSET RowKeys,
               got : SUBSET (RowKeys \X (1 .. MaxPuts)), ok : BOOLEAN, clean : BOOLEAN,
               expect : [RowKeys -> Unsure .. MaxPuts]]

BackInv ==
    /\ BackendsTypeOK
    /\ session \in [Sessions -> SessionSet]
    /\ \A k \in RowKeys : SettledRows(k) /\ (\A v \in held[k] : v <= puts)
    /\ \A s \in Sessions : \A k \in RowKeys :
          session[s].expect[k] # Unsure => session[s].expect[k] = settled[k]
    /\ \A s \in Sessions : WriteUnderWay(s) /\ ReadUnderWay(s)
    /\ \A s, w \in Sessions : Moves(s) /\ Moves(w) => s = w

\* The highest of a set of numbers is what no other exceeds.
LEMMA HighestIs ==
  ASSUME NEW S \in SUBSET Int, NEW v \in S, \A x \in S : x <= v
  PROVE  Max(S) = v
  <1>1. \A y \in S : v >= y
    OBVIOUS
  <1>2. Max(S) \in S /\ \A y \in S : Max(S) >= y
    BY <1>1 DEF Max
  <1>3. PICK m \in S : m = Max(S) /\ \A y \in S : m >= y
    BY <1>2
  <1>4. m >= v /\ m <= v /\ m \in Int /\ v \in Int
    BY <1>3
  <1>5. m = v
    BY <1>4
  <1> QED
    BY <1>3, <1>5

LEMMA RestIs ==
  /\ AtRest.op = "none" /\ AtRest \in SessionSet
  /\ \A k \in RowKeys : AtRest.expect[k] = Unsure
  <1>1. Absent \in Absent .. MaxPuts /\ Unsure \in Unsure .. MaxPuts
    BY BackendsAssumption DEF Absent, Unsure
  <1>2. PICK r : r = CHOOSE k \in RowKeys : TRUE
    OBVIOUS
  <1>3. AtRest = [op |-> "none", at |-> "begin", key |-> r, value |-> Absent, todo |-> {}, got |-> {},
                  ok |-> TRUE, clean |-> TRUE, expect |-> [k \in RowKeys |-> Unsure]]
    BY <1>2 DEF AtRest
  <1>4. AtRest.key = r
    BY <1>3
  <1>5. AtRest \in SessionSet
    BY <1>1, <1>3, <1>4 DEF SessionSet
  <1> QED
    BY <1>3, <1>5

LEMMA BackTypes ==
  ASSUME BackInv
  PROVE  /\ session \in [Sessions -> SessionSet] /\ held \in [RowKeys -> SUBSET (1 .. MaxPuts)]
         /\ index \subseteq RowKeys /\ target \in [RowKeys -> Absent .. MaxPuts]
         /\ puts \in 1 .. MaxPuts /\ settled \in [RowKeys -> Unsure .. MaxPuts]
         /\ MaxPuts \in Nat \ {0} /\ Absent = 0 /\ Unsure = -1
  BY BackendsAssumption DEF BackInv, BackendsTypeOK, Absent, Unsure

LEMMA NewestIs ==
  ASSUME BackInv, NEW k \in RowKeys, settled[k] # Unsure
  PROVE  Newest(k) = settled[k]
  <1>1. held[k] \in SUBSET (1 .. MaxPuts) /\ SettledRows(k) /\ settled[k] \in Unsure .. MaxPuts
    BY BackTypes DEF BackInv
  <1>2. CASE settled[k] = Absent
    <2>1. held[k] = {}
      BY <1>1, <1>2, BackTypes DEF SettledRows
    <2> QED
      BY <1>2, <2>1 DEF Newest
  <1>3. CASE settled[k] # Absent
    <2>1. settled[k] \in held[k] /\ \A v \in held[k] : v <= settled[k]
      BY <1>1, <1>3 DEF SettledRows
    <2>2. Max(held[k]) = settled[k]
      BY <1>1, <2>1, HighestIs
    <2> QED
      BY <2>1, <2>2 DEF Newest
  <1> QED
    BY <1>2, <1>3

LEMMA NewestTyped ==
  ASSUME BackInv, NEW k \in RowKeys, Newest(k) # Absent
  PROVE  Newest(k) \in 1 .. MaxPuts
  <1>1. held[k] \in SUBSET (1 .. MaxPuts) /\ held[k] # {} /\ Newest(k) = Max(held[k])
    BY BackTypes DEF Newest
  <1>2. PICK m \in held[k] : \A v \in held[k] : v <= m
    <2>1. MaxPuts \in Nat /\ held[k] \subseteq 0 .. MaxPuts
      BY <1>1, BackTypes
    <2> QED
      BY <1>1, <2>1, HasLast
  <1>3. Max(held[k]) = m
    BY <1>1, <1>2, HighestIs
  <1> QED
    BY <1>1, <1>2, <1>3

\* A session that does not write moves on: the rows and what is known of them stay.
LEMMA ReadsMoveOn ==
  ASSUME BackInv, NEW s \in Sessions, NEW c \in SessionSet,
         ~Writes(s), c.op \notin {"put", "delete"},
         session' = [session EXCEPT ![s] = c],
         UNCHANGED <<backend, held, index, puts, settled>>,
         target' \in [RowKeys -> Absent .. MaxPuts],
         target' = target \/ (Moves(s) /\ c.op = "transfer"),
         c.op \in {"transfer", "verify"} => \A w \in Sessions \ {s} : ~Moves(w),
         \A k \in RowKeys : c.expect[k] # Unsure => c.expect[k] = settled[k],
         ReadUnderWay(s)'
  PROVE  BackInv'
  <1>1. /\ session' \in [Sessions -> SessionSet] /\ session'[s] = c
        /\ \A w \in Sessions \ {s} : session'[w] = session[w]
    BY BackTypes
  <1>2. BackendsTypeOK'
    BY <1>1 DEF BackInv, BackendsTypeOK, SessionSet
  <1>3. \A k \in RowKeys : SettledRows(k)' /\ (\A v \in held'[k] : v <= puts')
    BY DEF BackInv, SettledRows
  <1>4. \A w \in Sessions : \A k \in RowKeys :
          session'[w].expect[k] # Unsure => session'[w].expect[k] = settled'[k]
    BY <1>1 DEF BackInv
  <1>5. \A w \in Sessions : Writes(w)' <=> (w # s /\ Writes(w))
    BY <1>1 DEF Writes
  <1>6. ASSUME NEW w \in Sessions PROVE WriteUnderWay(w)'
    <2>1. CASE ~Writes(w)'
      BY <2>1 DEF WriteUnderWay
    <2>2. CASE Writes(w)'
      <3>1. w # s /\ Writes(w) /\ session'[w] = session[w] /\ WriteUnderWay(w)
        BY <1>1, <1>5, <2>2 DEF BackInv
      <3> DEFINE k == session[w].key
      <3>2. k \in RowKeys /\ settled[k] = Unsure /\ \A x \in Sessions : session[x].expect[k] = Unsure
        BY <3>1 DEF WriteUnderWay
      <3>3. \A x \in Sessions : session'[x].expect[k] = Unsure
        BY <1>1, <3>2
      <3>4. session[w].ok => \A x \in Sessions \ {w} : ~(Writes(x)' /\ session'[x].key = k)
        BY <1>1, <1>5, <3>1 DEF WriteUnderWay
      <3> QED
        BY <3>1, <3>2, <3>3, <3>4 DEF WriteUnderWay
    <2> QED
      BY <2>1, <2>2
  <1>7. ASSUME NEW w \in Sessions PROVE ReadUnderWay(w)'
    <2>1. CASE w = s
      BY <2>1
    <2>2. CASE w # s
      <3>1. session'[w] = session[w] /\ ReadUnderWay(w)
        BY <1>1, <2>2 DEF BackInv
      <3>2. target' = target \/ session[w].op # "verify"
        BY <2>2 DEF BackInv, Moves
      <3> QED
        BY <3>1, <3>2 DEF ReadUnderWay
    <2> QED
      BY <2>1, <2>2
  <1>8. \A v, w \in Sessions : Moves(v)' /\ Moves(w)' => v = w
    BY <1>1 DEF BackInv, Moves
  <1> QED
    BY <1>1, <1>2, <1>3, <1>4, <1>6, <1>7, <1>8 DEF BackInv

\* A session that is done with what it did.
LEMMA SessionRests ==
  ASSUME BackInv, NEW s \in Sessions, ~Writes(s), Rest(s),
         UNCHANGED <<backend, held, index, target, puts, settled>>
  PROVE  BackInv'
  <1>1. session' = [session EXCEPT ![s] = AtRest] /\ session'[s] = AtRest
    BY BackTypes DEF Rest
  <1>2. ReadUnderWay(s)'
    BY <1>1, RestIs DEF ReadUnderWay
  <1> QED
    BY <1>1, <1>2, RestIs, BackTypes, ReadsMoveOn

\* What a list that begins is, and has or will find.
LEMMA ListStep ==
  ASSUME BackInv, NEW s \in Sessions, NEW op \in {"list", "transfer", "verify"}, ~Writes(s),
         ListBegins(s, op), UNCHANGED <<backend, held, index, target, puts, settled>>,
         op \in {"transfer", "verify"} => \A w \in Sessions \ {s} : ~Moves(w)
  PROVE  BackInv'
  <1> DEFINE indexed == backend.write = "indexed"
             at == IF indexed THEN "members" ELSE "done"
             todo == IF indexed THEN index ELSE {}
             got == IF indexed THEN {} ELSE AllRows
  <1>1. PICK a, t, g : a = at /\ t = todo /\ g = got
    OBVIOUS
  <1>2. PICK c : c = [AtRest EXCEPT !.op = op, !.expect = settled, !.at = a, !.todo = t, !.got = g]
    OBVIOUS
  <1>3. session' = [session EXCEPT ![s] = c]
    BY <1>1, <1>2 DEF ListBegins
  <1>4. AllRows \in SUBSET (RowKeys \X (1 .. MaxPuts))
    BY DEF AllRows
  <1>5. /\ a \in {"begin", "index", "members", "done"} /\ t \in SUBSET RowKeys
        /\ g \in SUBSET (RowKeys \X (1 .. MaxPuts))
    BY <1>1, <1>4, BackTypes
  <1>6. /\ c \in SessionSet /\ c.op = op /\ c.expect = settled /\ c.at = a /\ c.todo = t /\ c.got = g
    BY <1>2, <1>5, RestIs, BackTypes DEF SessionSet
  <1>7. session'[s] = c
    BY <1>3, BackTypes
  <1>8. ReadUnderWay(s)'
    <2> SUFFICES ASSUME NEW k \in RowKeys, settled[k] # Unsure
                 PROVE  /\ \A v \in 1 .. MaxPuts : <<k, v>> \in g => v <= settled[k]
                        /\ \/ settled[k] = Absent
                           \/ a = "members" /\ k \in t
                           \/ <<k, settled[k]>> \in g
      BY <1>6, <1>7 DEF ReadUnderWay
    <2>1. /\ \A v \in held[k] : v <= settled[k]
          /\ settled[k] # Absent => settled[k] \in held[k] /\ (indexed => k \in index)
      BY DEF BackInv, SettledRows
    <2>2. CASE indexed
      BY <1>1, <2>1, <2>2
    <2>3. CASE ~indexed
      <3>1. g = AllRows
        BY <1>1, <2>3
      <3>2. \A v \in 1 .. MaxPuts : <<k, v>> \in g <=> v \in held[k]
        BY <3>1 DEF AllRows
      <3>3. \A v \in held[k] : v \in 1 .. MaxPuts
        BY BackTypes
      <3> QED
        BY <2>1, <3>2, <3>3
    <2> QED
      BY <2>2, <2>3
  <1>9. \A k \in RowKeys : c.expect[k] # Unsure => c.expect[k] = settled[k]
    BY <1>6
  <1> QED
    BY <1>3, <1>6, <1>8, <1>9, BackTypes, ReadsMoveOn

\* The rows that reading key k adds: none, or its newest.
NewestRows(k) == {<<k, v>> : v \in {Newest(k)} \ {Absent}}

LEMMA NewestRowsAre ==
  ASSUME BackInv, NEW k \in RowKeys
  PROVE  /\ NewestRows(k) \in SUBSET (RowKeys \X (1 .. MaxPuts))
         /\ \A row \in NewestRows(k) : row = <<k, Newest(k)>>
         /\ settled[k] # Unsure =>
               /\ \A v \in 1 .. MaxPuts : <<k, v>> \in NewestRows(k) => v <= settled[k]
               /\ settled[k] # Absent => <<k, settled[k]>> \in NewestRows(k)
  <1>1. \A row \in NewestRows(k) : row = <<k, Newest(k)>> /\ Newest(k) # Absent
    BY DEF NewestRows
  <1>2. NewestRows(k) \in SUBSET (RowKeys \X (1 .. MaxPuts))
    BY <1>1, NewestTyped
  <1>3. ASSUME settled[k] # Unsure
        PROVE  /\ \A v \in 1 .. MaxPuts : <<k, v>> \in NewestRows(k) => v <= settled[k]
               /\ settled[k] # Absent => <<k, settled[k]>> \in NewestRows(k)
    <2>1. Newest(k) = settled[k] /\ settled[k] \in Unsure .. MaxPuts
      BY <1>3, NewestIs, BackTypes
    <2>2. \A v \in 1 .. MaxPuts : <<k, v>> \in NewestRows(k) => v = Newest(k)
      BY <1>1
    <2>3. Newest(k) # Absent => <<k, Newest(k)>> \in NewestRows(k)
      BY DEF NewestRows
    <2> QED
      BY <2>1, <2>2, <2>3, BackTypes
  <1> QED
    BY <1>1, <1>2, <1>3

LEMMA GetStep ==
  ASSUME BackInv, NEW s \in Sessions, Get(s)
  PROVE  BackInv'
  <1>1. PICK k \in RowKeys : session' = [session EXCEPT ![s] =
             [AtRest EXCEPT !.op = "get", !.at = "done", !.expect[k] = settled[k],
                            !.got = {<<k, v>> : v \in {Newest(k)} \ {Absent}}]]
    BY DEF Get
  <1>2. PICK g : g = NewestRows(k)
    OBVIOUS
  <1>3. PICK e : e = [AtRest.expect EXCEPT ![k] = settled[k]]
    OBVIOUS
  <1>4. AtRest.expect \in [RowKeys -> Unsure .. MaxPuts]
    BY RestIs DEF SessionSet
  <1>5. /\ e \in [RowKeys -> Unsure .. MaxPuts] /\ e[k] = settled[k]
        /\ \A j \in RowKeys \ {k} : e[j] = Unsure
    BY <1>3, <1>4, RestIs, BackTypes
  <1>6. PICK c : c = [AtRest EXCEPT !.op = "get", !.at = "done", !.expect = e, !.got = g]
    OBVIOUS
  <1>7. c = [AtRest EXCEPT !.op = "get", !.at = "done", !.expect[k] = settled[k],
                            !.got = {<<k, v>> : v \in {Newest(k)} \ {Absent}}]
    BY <1>2, <1>3, <1>6 DEF NewestRows
  <1>8. session' = [session EXCEPT ![s] = c]
    BY <1>1, <1>7
  <1>9. /\ c \in SessionSet /\ c.op = "get" /\ c.at = "done" /\ c.expect = e /\ c.got = g
    BY <1>2, <1>5, <1>6, RestIs, NewestRowsAre DEF SessionSet
  <1>10. session'[s] = c
    BY <1>8, BackTypes
  <1>11. ReadUnderWay(s)'
    <2> SUFFICES ASSUME NEW j \in RowKeys, e[j] # Unsure
                 PROVE  /\ \A v \in 1 .. MaxPuts : <<j, v>> \in g => v <= e[j]
                        /\ e[j] = Absent \/ <<j, e[j]>> \in g
      BY <1>9, <1>10 DEF ReadUnderWay
    <2>1. j = k
      BY <1>5
    <2> QED
      BY <1>2, <1>5, <2>1, NewestRowsAre
  <1>12. ~Writes(s) /\ UNCHANGED <<backend, held, index, target, puts, settled>>
    BY DEF Get, Writes
  <1>13. \A j \in RowKeys : c.expect[j] # Unsure => c.expect[j] = settled[j]
    BY <1>5, <1>9
  <1> QED
    BY <1>8, <1>9, <1>11, <1>12, <1>13, BackTypes, ReadsMoveOn

LEMMA ListSideStep ==
  ASSUME BackInv, NEW s \in Sessions, ListSide(s)
  PROVE  BackInv'
  <1>1. /\ session[s].at = "members" /\ UNCHANGED <<backend, held, index, target, puts, settled>>
        /\ session[s] \in SessionSet /\ ~Writes(s)
    BY BackTypes DEF ListSide, BackInv, WriteUnderWay
  <1>2. \A k \in RowKeys : session[s].expect[k] # Unsure => session[s].expect[k] = settled[k]
    BY DEF BackInv
  <1>3. session[s].op \in {"transfer", "verify"} => \A w \in Sessions \ {s} : ~Moves(w)
    BY DEF BackInv, Moves
  <1>4. CASE session[s].todo = {}
    <2>1. PICK c : c = [session[s] EXCEPT !.at = "done"]
      OBVIOUS
    <2>2. session' = [session EXCEPT ![s] = c]
      BY <1>4, <2>1 DEF ListSide
    <2>3. /\ c \in SessionSet /\ c.op = session[s].op /\ c.at = "done" /\ c.got = session[s].got
          /\ c.expect = session[s].expect
      BY <1>1, <2>1 DEF SessionSet
    <2>4. session'[s] = c
      BY <2>2, BackTypes
    <2>5. ReadUnderWay(s)'
      BY <1>1, <1>4, <2>3, <2>4 DEF BackInv, ReadUnderWay
    <2> QED
      BY <1>1, <1>2, <1>3, <2>2, <2>3, <2>5, BackTypes, ReadsMoveOn DEF Writes
  <1>5. CASE session[s].todo # {}
    <2>1. PICK k \in session[s].todo :
            session' = [session EXCEPT ![s].todo = @ \ {k},
                          ![s].got = @ \cup {<<k, v>> : v \in {Newest(k)} \ {Absent}}]
      BY <1>5 DEF ListSide
    <2>2. PICK t, g : t = session[s].todo \ {k} /\ g = session[s].got \cup NewestRows(k)
      OBVIOUS
    <2>3. PICK c : c = [session[s] EXCEPT !.todo = t, !.got = g]
      OBVIOUS
    <2>4. session' = [session EXCEPT ![s] = c]
      BY <2>1, <2>2, <2>3, BackTypes DEF NewestRows
    <2>5. k \in RowKeys /\ t \in SUBSET RowKeys /\ g \in SUBSET (RowKeys \X (1 .. MaxPuts))
      <3>1. k \in RowKeys /\ t \in SUBSET RowKeys /\ session[s].got \in SUBSET (RowKeys \X (1 .. MaxPuts))
        BY <1>1, <2>1, <2>2 DEF SessionSet
      <3> QED
        BY <2>2, <3>1, NewestRowsAre
    <2>6. /\ c \in SessionSet /\ c.op = session[s].op /\ c.at = "members" /\ c.got = g
          /\ c.todo = t /\ c.expect = session[s].expect
      BY <1>1, <2>3, <2>5 DEF SessionSet
    <2>7. session'[s] = c
      BY <2>4, BackTypes
    <2>8. ReadUnderWay(s)'
      <3> SUFFICES ASSUME NEW j \in RowKeys, session[s].op \in {"get", "list", "verify"},
                          session[s].expect[j] # Unsure
                   PROVE  /\ \A v \in 1 .. MaxPuts : <<j, v>> \in g => v <= session[s].expect[j]
                          /\ \/ session[s].expect[j] = Absent
                             \/ j \in t
                             \/ <<j, session[s].expect[j]>> \in g
        BY <2>6, <2>7 DEF ReadUnderWay
      <3>1. session[s].expect[j] = settled[j]
        BY <1>2
      <3>2. /\ \A v \in 1 .. MaxPuts : <<j, v>> \in session[s].got => v <= settled[j]
            /\ \/ settled[j] = Absent
               \/ j \in session[s].todo
               \/ <<j, settled[j]>> \in session[s].got
        BY <1>1, <3>1 DEF BackInv, ReadUnderWay
      <3>3. CASE j = k
        <4>1. /\ \A v \in 1 .. MaxPuts : <<j, v>> \in NewestRows(k) => v <= settled[j]
              /\ settled[j] # Absent => <<j, settled[j]>> \in NewestRows(k)
          BY <3>1, <3>3, NewestRowsAre
        <4> QED
          BY <2>2, <3>1, <3>2, <4>1
      <3>4. CASE j # k
        <4>1. \A v : <<j, v>> \in g <=> <<j, v>> \in session[s].got
          <5>1. \A v : <<j, v>> \notin NewestRows(k)
            BY <3>4 DEF NewestRows
          <5> QED
            BY <2>2, <5>1
        <4>2. j \in session[s].todo => j \in t
          BY <2>2, <3>4
        <4> QED
          BY <3>1, <3>2, <4>1, <4>2
      <3> QED
        BY <3>3, <3>4
    <2> QED
      BY <1>1, <1>2, <1>3, <2>4, <2>6, <2>8, BackTypes, ReadsMoveOn DEF Writes
  <1> QED
    BY <1>4, <1>5

LEMMA CopyStep ==
  ASSUME BackInv, NEW s \in Sessions, CopyRow(s)
  PROVE  BackInv'
  <1>1. /\ session[s].op = "transfer" /\ UNCHANGED <<backend, held, index, puts, settled>>
        /\ session[s] \in SessionSet /\ ~Writes(s) /\ Moves(s)
    BY BackTypes DEF CopyRow, Op, Writes, Moves
  <1>2. \A w \in Sessions \ {s} : ~Moves(w)
    BY <1>1 DEF BackInv
  <1>3. CASE session[s].got = {}
    BY <1>1, <1>2, <1>3, ListStep DEF CopyRow
  <1>4. CASE session[s].got # {}
    <2>1. PICK row \in session[s].got :
               /\ target' = [target EXCEPT ![row[1]] = row[2]]
               /\ session' = [session EXCEPT ![s].got = @ \ {row}]
      BY <1>4 DEF CopyRow
    <2>2. PICK g : g = session[s].got \ {row}
      OBVIOUS
    <2>3. PICK c : c = [session[s] EXCEPT !.got = g]
      OBVIOUS
    <2>4. session' = [session EXCEPT ![s] = c]
      BY <2>1, <2>2, <2>3
    <2>5. session[s].got \in SUBSET (RowKeys \X (1 .. MaxPuts))
      BY <1>1 DEF SessionSet
    <2>6. c \in SessionSet /\ c.op = "transfer" /\ c.expect = session[s].expect
      BY <1>1, <2>2, <2>3, <2>5 DEF SessionSet
    <2>7. target' \in [RowKeys -> Absent .. MaxPuts]
      BY <2>1, <2>5, BackTypes
    <2>8. session'[s] = c
      BY <2>4, BackTypes
    <2>9. ReadUnderWay(s)'
      BY <2>6, <2>8 DEF ReadUnderWay
    <2>10. \A k \in RowKeys : c.expect[k] # Unsure => c.expect[k] = settled[k]
      BY <2>6 DEF BackInv
    <2> QED
      BY <1>1, <1>2, <2>4, <2>6, <2>7, <2>9, <2>10, ReadsMoveOn
  <1> QED
    BY <1>3, <1>4

LEMMA VerifyStep ==
  ASSUME BackInv, NEW s \in Sessions, VerifyRow(s)
  PROVE  BackInv'
  <1>1. /\ session[s].op = "verify" /\ session[s].at = "done"
        /\ UNCHANGED <<backend, held, index, target, puts, settled>>
        /\ session[s] \in SessionSet /\ ~Writes(s) /\ Moves(s)
    BY BackTypes DEF VerifyRow, Op, Writes, Moves
  <1>2. PICK row \in session[s].got :
          session' = [session EXCEPT ![s].got = @ \ {row},
                                     ![s].clean = @ /\ target[row[1]] = row[2]]
    BY DEF VerifyRow
  <1>3. PICK g, b : g = session[s].got \ {row} /\ b = (session[s].clean /\ target[row[1]] = row[2])
    OBVIOUS
  <1>4. PICK c : c = [session[s] EXCEPT !.got = g, !.clean = b]
    OBVIOUS
  <1>5. session' = [session EXCEPT ![s] = c]
    BY <1>2, <1>3, <1>4, BackTypes
  <1>6. session[s].got \in SUBSET (RowKeys \X (1 .. MaxPuts)) /\ b \in BOOLEAN
    BY <1>1, <1>3 DEF SessionSet
  <1>7. /\ c \in SessionSet /\ c.op = "verify" /\ c.at = "done" /\ c.got = g /\ c.clean = b
        /\ c.expect = session[s].expect
    BY <1>1, <1>3, <1>4, <1>6 DEF SessionSet
  <1>8. session'[s] = c
    BY <1>5, BackTypes
  <1>9. ReadUnderWay(s)'
    <2> SUFFICES ASSUME NEW k \in RowKeys, session[s].expect[k] # Unsure
                 PROVE  /\ \A v \in 1 .. MaxPuts : <<k, v>> \in g => v <= session[s].expect[k]
                        /\ \/ session[s].expect[k] = Absent
                           \/ <<k, session[s].expect[k]>> \in g
                           \/ b => target[k] = session[s].expect[k]
      BY <1>1, <1>7, <1>8 DEF ReadUnderWay
    <2>1. /\ \A v \in 1 .. MaxPuts : <<k, v>> \in session[s].got => v <= session[s].expect[k]
          /\ \/ session[s].expect[k] = Absent
             \/ <<k, session[s].expect[k]>> \in session[s].got
             \/ session[s].clean => target[k] = session[s].expect[k]
      BY <1>1 DEF BackInv, ReadUnderWay
    <2>2. row = <<k, session[s].expect[k]>> => row[1] = k /\ row[2] = session[s].expect[k]
      OBVIOUS
    <2> QED
      BY <1>3, <2>1, <2>2
  <1>10. \A k \in RowKeys : c.expect[k] # Unsure => c.expect[k] = settled[k]
    BY <1>7 DEF BackInv
  <1>11. \A w \in Sessions \ {s} : ~Moves(w)
    BY <1>1 DEF BackInv
  <1> QED
    BY <1>1, <1>5, <1>7, <1>9, <1>10, <1>11, BackTypes, ReadsMoveOn

\* A write ends, done or not: its rows are written, or as they were.
LEMMA WriteIsOver ==
  ASSUME BackInv, NEW s \in Sessions, Writes(s), Rest(s),
         NEW k \in RowKeys, k = session[s].key,
         UNCHANGED <<backend, target, puts>>,
         held' \in [RowKeys -> SUBSET (1 .. MaxPuts)], \A v \in held'[k] : v <= puts,
         \A j \in RowKeys \ {k} : held'[j] = held[j],
         index' \subseteq RowKeys, \A j \in RowKeys \ {k} : j \in index => j \in index',
         \/ settled' = settled
         \/ /\ session[s].ok /\ settled' = [settled EXCEPT ![k] = session[s].value]
            /\ \A v \in held'[k] : v <= session[s].value
            /\ session[s].value # Absent =>
                  session[s].value \in held'[k] /\ (backend.write = "indexed" => k \in index')
  PROVE  BackInv'
  <1>1. session' = [session EXCEPT ![s] = AtRest]
    BY DEF Rest
  <1>2. /\ session' \in [Sessions -> SessionSet] /\ session'[s] = AtRest
        /\ \A w \in Sessions \ {s} : session'[w] = session[w]
    BY <1>1, BackTypes, RestIs
  <1>3. /\ settled[k] = Unsure /\ \A w \in Sessions : session[w].expect[k] = Unsure
        /\ session[s].ok => \A w \in Sessions \ {s} : ~(Writes(w) /\ session[w].key = k)
    BY DEF BackInv, WriteUnderWay
  <1>4. session[s].value \in Unsure .. MaxPuts
    <2>1. session[s] \in SessionSet
      BY BackTypes
    <2>2. session[s].value \in Absent .. MaxPuts
      BY <2>1 DEF SessionSet
    <2> QED
      BY <2>2, BackTypes
  <1>5. /\ settled' \in [RowKeys -> Unsure .. MaxPuts]
        /\ \A j \in RowKeys \ {k} : settled'[j] = settled[j]
        /\ settled'[k] # Unsure => session[s].ok /\ settled'[k] = session[s].value
    BY <1>3, <1>4, BackTypes
  <1>6. BackendsTypeOK'
    BY <1>2, <1>5 DEF BackInv, BackendsTypeOK, SessionSet
  <1>7. ASSUME NEW j \in RowKeys PROVE SettledRows(j)' /\ (\A v \in held'[j] : v <= puts')
    <2>1. CASE j = k
      BY <1>3, <1>5, <2>1, BackTypes DEF SettledRows
    <2>2. CASE j # k
      BY <1>5, <2>2 DEF BackInv, SettledRows
    <2> QED
      BY <2>1, <2>2
  <1>8. ASSUME NEW w \in Sessions, NEW j \in RowKeys, session'[w].expect[j] # Unsure
        PROVE  session'[w].expect[j] = settled'[j]
    <2>1. w # s /\ session'[w] = session[w]
      BY <1>2, <1>8, RestIs
    <2>2. j # k
      BY <1>3, <1>8, <2>1
    <2> QED
      BY <1>5, <1>8, <2>1, <2>2 DEF BackInv
  <1>9. \A w \in Sessions : Writes(w)' <=> (w # s /\ Writes(w))
    BY <1>2, RestIs DEF Writes
  <1>10. ASSUME NEW w \in Sessions PROVE WriteUnderWay(w)'
    <2>1. CASE ~Writes(w)'
      BY <2>1 DEF WriteUnderWay
    <2>2. CASE Writes(w)'
      <3>1. w # s /\ Writes(w) /\ session'[w] = session[w] /\ WriteUnderWay(w)
        BY <1>2, <1>9, <2>2 DEF BackInv
      <3>2. PICK x \in RowKeys : x = session[w].key
        BY <3>1 DEF WriteUnderWay
      <3>3. \A y \in Sessions : session'[y].expect[x] = Unsure
        BY <1>2, <3>1, <3>2, RestIs DEF WriteUnderWay
      <3>4. \A y \in Sessions \ {w} : Writes(y)' /\ session'[y].key = x => Writes(y) /\ session[y].key = x
        BY <1>2, <1>9
      <3>5. x = k => ~session[s].ok /\ ~session[w].ok
        BY <1>3, <3>1, <3>2 DEF WriteUnderWay
      <3>6. settled'[x] = Unsure
        BY <1>5, <3>1, <3>2, <3>5 DEF WriteUnderWay
      <3> QED
        BY <3>1, <3>2, <3>3, <3>4, <3>5, <3>6 DEF WriteUnderWay
    <2> QED
      BY <2>1, <2>2
  <1>11. ASSUME NEW w \in Sessions PROVE ReadUnderWay(w)'
    BY <1>2, RestIs DEF BackInv, ReadUnderWay
  <1>12. \A v, w \in Sessions : Moves(v)' /\ Moves(w)' => v = w
    BY <1>2, RestIs DEF BackInv, Moves
  <1> QED
    BY <1>2, <1>6, <1>7, <1>8, <1>10, <1>11, <1>12 DEF BackInv

\* The row of a write is written, and its key is not yet in the set of keys, or still is.
LEMMA RowIsWritten ==
  ASSUME BackInv, NEW s \in Sessions, Writes(s),
         NEW k \in RowKeys, k = session[s].key,
         session' = [session EXCEPT ![s].at = "index"],
         UNCHANGED <<backend, target, puts, index, settled>>,
         held' = [held EXCEPT ![k] = {session[s].value} \ {Absent}]
  PROVE  BackInv'
  <1>1. PICK c : c = [session[s] EXCEPT !.at = "index"]
    OBVIOUS
  <1>2. session' = [session EXCEPT ![s] = c] /\ session[s] \in SessionSet
    BY <1>1, BackTypes
  <1>3. /\ c \in SessionSet /\ c.op = session[s].op /\ c.key = k /\ c.at = "index"
        /\ c.value = session[s].value /\ c.ok = session[s].ok /\ c.expect = session[s].expect
    BY <1>1, <1>2 DEF SessionSet
  <1>4. /\ session' \in [Sessions -> SessionSet] /\ session'[s] = c
        /\ \A w \in Sessions \ {s} : session'[w] = session[w]
    BY <1>2, <1>3, BackTypes
  <1>5. WriteUnderWay(s) /\ settled[k] = Unsure
    BY DEF BackInv, WriteUnderWay
  <1>6. {session[s].value} \ {Absent} \in SUBSET (1 .. puts) /\ puts \in 1 .. MaxPuts
    BY <1>5, BackTypes DEF WriteUnderWay, Writes
  <1>7. /\ held' \in [RowKeys -> SUBSET (1 .. MaxPuts)] /\ held'[k] = {session[s].value} \ {Absent}
        /\ \A j \in RowKeys \ {k} : held'[j] = held[j]
    BY <1>6, BackTypes
  <1>8. BackendsTypeOK'
    BY <1>4, <1>7 DEF BackInv, BackendsTypeOK, SessionSet
  <1>9. ASSUME NEW j \in RowKeys PROVE SettledRows(j)' /\ (\A v \in held'[j] : v <= puts')
    BY <1>5, <1>6, <1>7 DEF BackInv, SettledRows
  <1>10. \A w \in Sessions : \A j \in RowKeys :
          session'[w].expect[j] # Unsure => session'[w].expect[j] = settled'[j]
    BY <1>3, <1>4 DEF BackInv
  <1>11. \A w \in Sessions : /\ Writes(w)' <=> Writes(w)
                             /\ session'[w].key = session[w].key /\ session'[w].ok = session[w].ok
                             /\ session'[w].expect = session[w].expect
    BY <1>3, <1>4 DEF Writes
  <1>12. ASSUME NEW w \in Sessions, Writes(w) PROVE WriteUnderWay(w)'
    <2>1. WriteUnderWay(w) /\ session[w].key \in RowKeys
      BY <1>12 DEF BackInv, WriteUnderWay
    <2>2. CASE w = s
      BY <1>3, <1>4, <1>5, <1>7, <1>11, <2>2 DEF WriteUnderWay
    <2>3. CASE w # s
      <3>1. session[w].ok => session[w].key # k
        BY <2>1, <2>3, <1>12 DEF WriteUnderWay
      <3>2. session'[w] = session[w]
        BY <1>4, <2>3
      <3>3. session[w].ok => held'[session[w].key] = held[session[w].key]
        BY <1>7, <2>1, <3>1
      <3>4. PICK x \in RowKeys : x = session[w].key
        BY <2>1
      <3> QED
        BY <1>11, <1>12, <2>1, <3>2, <3>3, <3>4 DEF WriteUnderWay
    <2> QED
      BY <2>2, <2>3
  <1>13. ASSUME NEW w \in Sessions PROVE ReadUnderWay(w)'
    <2>1. CASE w = s
      BY <1>3, <1>4, <2>1 DEF ReadUnderWay, Writes
    <2>2. CASE w # s
      BY <1>4, <2>2 DEF BackInv, ReadUnderWay
    <2> QED
      BY <2>1, <2>2
  <1>14. \A v, w \in Sessions : Moves(v)' /\ Moves(w)' => v = w
    BY <1>3, <1>4 DEF BackInv, Moves
  <1>15. \A w \in Sessions : WriteUnderWay(w)'
    BY <1>11, <1>12 DEF WriteUnderWay
  <1> QED
    BY <1>4, <1>8, <1>9, <1>10, <1>13, <1>14, <1>15 DEF BackInv

LEMMA WriteBeginStep ==
  ASSUME BackInv, NEW s \in Sessions, NEW op \in {"put", "delete"}, NEW k \in RowKeys,
         NEW v \in Absent .. MaxPuts, WriteBegins(s, op, k, v),
         UNCHANGED <<backend, held, index, target>>,
         puts' \in 1 .. MaxPuts, puts <= puts',
         op = "put" => v \in 1 .. puts' /\ puts < v,
         op = "delete" => v = Absent
  PROVE  BackInv'
  <1> DEFINE over(w) == session[w].op \in {"put", "delete"} /\ session[w].key = k
  <1>1. PICK b : b = \A x \in Sessions : ~over(x)
    OBVIOUS
  <1>2. PICK c : c = [AtRest EXCEPT !.op = op, !.key = k, !.value = v, !.ok = b]
    OBVIOUS
  <1>3. session' = [w \in Sessions |->
             IF w = s THEN c ELSE [session[w] EXCEPT !.ok = @ /\ ~over(w), !.expect[k] = Unsure]]
    BY <1>1, <1>2 DEF WriteBegins
  <1>4. /\ session[s].op = "none" /\ settled' = [settled EXCEPT ![k] = Unsure]
    BY DEF WriteBegins
  <1>5. b \in BOOLEAN /\ b = \A x \in Sessions : ~over(x)
    BY <1>1
  <1>6. AtRest.at = "begin"
    BY DEF AtRest
  <1>7. /\ c \in SessionSet /\ c.op = op /\ c.key = k /\ c.value = v /\ c.ok = b /\ c.at = "begin"
        /\ c.expect = AtRest.expect
    BY <1>2, <1>5, <1>6, RestIs DEF SessionSet
  <1>8. ASSUME NEW w \in Sessions \ {s}
        PROVE  /\ session'[w] \in SessionSet /\ session'[w].op = session[w].op
               /\ session'[w].key = session[w].key /\ session'[w].value = session[w].value
               /\ session'[w].at = session[w].at /\ session'[w].todo = session[w].todo
               /\ session'[w].got = session[w].got /\ session'[w].clean = session[w].clean
               /\ session'[w].ok = (session[w].ok /\ ~over(w))
               /\ session'[w].expect[k] = Unsure
               /\ \A j \in RowKeys \ {k} : session'[w].expect[j] = session[w].expect[j]
    <2>1. PICK x \in SessionSet : x = session[w]
      BY BackTypes
    <2>2. PICK ok : ok = (x.ok /\ ~over(w))
      OBVIOUS
    <2>3. PICK e : e = [x.expect EXCEPT ![k] = Unsure]
      OBVIOUS
    <2>4. x.expect \in [RowKeys -> Unsure .. MaxPuts] /\ Unsure \in Unsure .. MaxPuts /\ ok \in BOOLEAN
      <3>1. x.expect \in [RowKeys -> Unsure .. MaxPuts] /\ x.ok \in BOOLEAN
        BY <2>1 DEF SessionSet
      <3>2. Unsure \in Unsure .. MaxPuts
        BY BackTypes
      <3> QED
        BY <2>2, <3>1, <3>2
    <2>5. /\ e \in [RowKeys -> Unsure .. MaxPuts] /\ e[k] = Unsure
          /\ \A j \in RowKeys \ {k} : e[j] = x.expect[j]
      BY <2>3, <2>4
    <2>6. PICK y : y = [x EXCEPT !.ok = ok, !.expect = e]
      OBVIOUS
    <2>7. y = [session[w] EXCEPT !.ok = @ /\ ~over(w), !.expect[k] = Unsure]
      BY <2>1, <2>2, <2>3, <2>6
    <2>8. session'[w] = y
      BY <1>3, <2>7
    <2>9. /\ y \in SessionSet /\ y.op = x.op /\ y.key = x.key /\ y.value = x.value /\ y.at = x.at
          /\ y.todo = x.todo /\ y.got = x.got /\ y.clean = x.clean /\ y.ok = ok /\ y.expect = e
      BY <2>1, <2>4, <2>5, <2>6 DEF SessionSet
    <2> QED
      BY <2>1, <2>2, <2>5, <2>8, <2>9
  <1>9. session' \in [Sessions -> SessionSet] /\ session'[s] = c
    BY <1>3, <1>7, <1>8
  <1>10. BackendsTypeOK'
    <2>1. settled' \in [RowKeys -> Unsure .. MaxPuts]
      BY <1>4, BackTypes
    <2> QED
      BY <1>9, <2>1 DEF BackInv, BackendsTypeOK, SessionSet
  <1>11. /\ settled'[k] = Unsure /\ \A j \in RowKeys \ {k} : settled'[j] = settled[j]
    BY <1>4, BackTypes
  <1>12. ASSUME NEW j \in RowKeys PROVE SettledRows(j)' /\ (\A x \in held'[j] : x <= puts')
    <2>1. held[j] \in SUBSET (1 .. MaxPuts) /\ puts \in 1 .. MaxPuts /\ \A x \in held[j] : x <= puts
      BY BackTypes DEF BackInv
    <2>2. \A x \in held'[j] : x <= puts'
      BY <2>1
    <2>3. SettledRows(j)'
      BY <1>11 DEF BackInv, SettledRows
    <2> QED
      BY <2>2, <2>3
  <1>13. ASSUME NEW w \in Sessions, NEW j \in RowKeys, session'[w].expect[j] # Unsure
         PROVE  session'[w].expect[j] = settled'[j]
    <2>1. w # s /\ j # k
      BY <1>7, <1>8, <1>9, <1>13, RestIs
    <2> QED
      BY <1>8, <1>11, <1>13, <2>1 DEF BackInv
  <1>14. \A w \in Sessions : session'[w].expect[k] = Unsure
    BY <1>7, <1>8, <1>9, RestIs
  <1>15. ASSUME NEW w \in Sessions, Writes(w)' PROVE WriteUnderWay(w)'
    <2>1. CASE w = s
      <3>1. b => \A x \in Sessions \ {s} : ~(Writes(x)' /\ session'[x].key = k)
        BY <1>5, <1>8 DEF Writes
      <3>2. op = "put" => \A x \in held[k] : x < v
        <4>1. held[k] \in SUBSET (1 .. MaxPuts) /\ puts \in 1 .. MaxPuts /\ \A x \in held[k] : x <= puts
          BY BackTypes DEF BackInv
        <4> QED
          BY <4>1
      <3> QED
        BY <1>7, <1>9, <1>11, <1>14, <2>1, <3>1, <3>2 DEF WriteUnderWay
    <2>2. CASE w # s
      <3>1. Writes(w) /\ WriteUnderWay(w)
        BY <1>8, <1>15, <2>2 DEF BackInv, Writes
      <3>2. PICK x \in RowKeys : x = session[w].key
        BY <3>1 DEF WriteUnderWay
      <3>3. settled'[x] = Unsure /\ \A y \in Sessions : session'[y].expect[x] = Unsure
        BY <1>7, <1>8, <1>9, <1>11, <1>14, <3>1, <3>2, RestIs DEF WriteUnderWay
      <3>4. session'[w].ok => x # k /\ session[w].ok
        BY <1>8, <2>2, <3>1, <3>2 DEF Writes
      <3>5. session'[w].ok => \A y \in Sessions \ {w} : ~(Writes(y)' /\ session'[y].key = x)
        <4> SUFFICES ASSUME session'[w].ok, NEW y \in Sessions \ {w}, Writes(y)', session'[y].key = x
                     PROVE  FALSE
          OBVIOUS
        <4>1. y # s
          BY <1>7, <1>9, <3>4
        <4>2. Writes(y) /\ session[y].key = x
          BY <1>8, <4>1 DEF Writes
        <4> QED
          BY <3>1, <3>2, <3>4, <4>2 DEF WriteUnderWay
      <3>6. session'[w].op = "put" => session'[w].value \in 1 .. puts'
        <4>1. session[w].op = "put" => session[w].value \in 1 .. puts
          BY <3>1 DEF WriteUnderWay
        <4>2. puts \in 1 .. MaxPuts
          BY BackTypes
        <4> QED
          BY <1>8, <2>2, <4>1, <4>2
      <3> QED
        BY <1>8, <2>2, <3>1, <3>2, <3>3, <3>4, <3>5, <3>6 DEF WriteUnderWay
    <2> QED
      BY <2>1, <2>2
  <1>16. ASSUME NEW w \in Sessions PROVE ReadUnderWay(w)'
    <2>1. CASE w = s
      BY <1>7, <1>9, <2>1 DEF ReadUnderWay
    <2>2. CASE w # s
      <3> SUFFICES ASSUME session[w].op \in {"get", "list", "verify"},
                          NEW j \in RowKeys, session'[w].expect[j] # Unsure
                   PROVE  /\ \A x \in 1 .. MaxPuts : <<j, x>> \in session'[w].got => x <= session'[w].expect[j]
                          /\ \/ session'[w].expect[j] = Absent
                             \/ session'[w].at = "members" /\ j \in session'[w].todo
                             \/ <<j, session'[w].expect[j]>> \in session'[w].got
                             \/ /\ session'[w].op = "verify" /\ session'[w].at = "done"
                                /\ session'[w].clean => target[j] = session'[w].expect[j]
        BY <1>8, <2>2 DEF ReadUnderWay
      <3>1. j # k
        BY <1>14
      <3>2. session'[w].expect[j] = session[w].expect[j]
        BY <1>8, <2>2, <3>1
      <3> QED
        BY <1>8, <2>2, <3>2 DEF BackInv, ReadUnderWay
    <2> QED
      BY <2>1, <2>2
  <1>17. \A x, w \in Sessions : Moves(x)' /\ Moves(w)' => x = w
    <2>1. \A w \in Sessions : Moves(w)' => w # s /\ Moves(w)
      BY <1>7, <1>8, <1>9 DEF Moves
    <2> QED
      BY <2>1 DEF BackInv
  <1>18. \A w \in Sessions : WriteUnderWay(w)'
    BY <1>15 DEF WriteUnderWay
  <1> QED
    BY <1>9, <1>10, <1>12, <1>13, <1>16, <1>17, <1>18 DEF BackInv

\* The calls that write, and the steps of a write.
LEMMA WriteStep ==
  ASSUME BackInv, NEW s \in Sessions,
         PutCall(s) \/ DeleteCall(s) \/ WriteFails(s) \/ PutRow(s) \/ PutIndex(s)
            \/ DeleteRow(s) \/ DeleteIndex(s)
  PROVE  BackInv'
  <1>1. CASE PutCall(s)
    <2>1. PICK k \in RowKeys : WriteBegins(s, "put", k, puts + 1)
      BY <1>1 DEF PutCall
    <2>2. puts + 1 \in Absent .. MaxPuts /\ puts' \in 1 .. MaxPuts /\ puts <= puts'
          /\ puts + 1 \in 1 .. puts' /\ puts < puts + 1
      BY <1>1, BackTypes DEF PutCall
    <2>3. UNCHANGED <<backend, held, index, target>>
      BY <1>1 DEF PutCall
    <2> QED
      BY <2>1, <2>2, <2>3, WriteBeginStep
  <1>2. CASE DeleteCall(s)
    <2>1. PICK k \in RowKeys : WriteBegins(s, "delete", k, Absent)
      BY <1>2 DEF DeleteCall
    <2>2. Absent \in Absent .. MaxPuts /\ puts' \in 1 .. MaxPuts /\ puts <= puts'
      BY <1>2, BackTypes DEF DeleteCall
    <2>3. UNCHANGED <<backend, held, index, target>>
      BY <1>2 DEF DeleteCall
    <2> QED
      BY <2>1, <2>2, <2>3, WriteBeginStep
  <1>3. ASSUME Writes(s)
        PROVE  /\ session[s].key \in RowKeys /\ WriteUnderWay(s)
               /\ held[session[s].key] \in SUBSET (1 .. MaxPuts)
               /\ \A v \in held[session[s].key] : v <= puts
    BY <1>3, BackTypes DEF BackInv, WriteUnderWay
  <1>4. CASE WriteFails(s)
    <2>1. Writes(s) /\ Rest(s) /\ UNCHANGED <<backend, held, index, target, puts, settled>>
      BY <1>4 DEF WriteFails, Writes
    <2> QED
      BY <1>3, <2>1, BackTypes, WriteIsOver
  <1>5. ASSUME WriteEnds(s)
        PROVE  /\ Rest(s)
               /\ \/ settled' = settled
                  \/ session[s].ok /\ settled' = [settled EXCEPT ![session[s].key] = session[s].value]
    BY <1>5 DEF WriteEnds
  <1>6. CASE PutRow(s)
    <2>1. /\ Writes(s) /\ UNCHANGED <<backend, index, target, puts>>
          /\ session[s].op = "put" /\ session[s].at = "begin"
      BY <1>6 DEF PutRow, Op, Writes
    <2>2. PICK k \in RowKeys : k = session[s].key
      BY <1>3, <2>1
    <2>3. session[s].value \in 1 .. puts /\ puts \in 1 .. MaxPuts /\ Absent = 0
      BY <1>3, <2>1, BackTypes DEF WriteUnderWay
    <2>4. CASE backend.write = "indexed"
      <3>1. session' = [session EXCEPT ![s].at = "index"] /\ UNCHANGED settled
        BY <1>6, <2>4 DEF PutRow
      <3>2. held' = [held EXCEPT ![k] = {session[s].value}]
        BY <1>6, <2>2, <2>4 DEF PutRow
      <3>3. {session[s].value} = {session[s].value} \ {Absent}
        BY <2>3
      <3> QED
        BY <2>1, <2>2, <3>1, <3>2, <3>3, RowIsWritten
    <2>5. CASE backend.write # "indexed"
      <3>1. WriteEnds(s)
        BY <1>6, <2>5 DEF PutRow
      <3>2. held' = [held EXCEPT ![k] = IF backend.write = "append" THEN held[k] \cup {session[s].value}
                                        ELSE {session[s].value}]
        BY <1>6, <2>2 DEF PutRow
      <3>3. PICK h : h = IF backend.write = "append" THEN held[k] \cup {session[s].value}
                         ELSE {session[s].value}
        OBVIOUS
      <3>4. /\ h \in SUBSET (1 .. MaxPuts) /\ \A v \in h : v <= puts
            /\ session[s].value \in h
            /\ session[s].ok => \A v \in h : v <= session[s].value
        <4>1. /\ held[k] \in SUBSET (1 .. MaxPuts) /\ \A v \in held[k] : v <= puts
              /\ session[s].ok => \A v \in held[k] : v < session[s].value
          BY <1>3, <2>1, <2>2 DEF WriteUnderWay
        <4>2. PICK n \in 1 .. MaxPuts : n = session[s].value /\ n <= puts
          BY <2>3, BackTypes
        <4>3. h = held[k] \cup {n} \/ h = {n}
          BY <3>3, <4>2
        <4>4. \A v \in held[k] \cup {n} : v \in 1 .. MaxPuts /\ v <= puts
          BY <4>1, <4>2
        <4>5. session[s].ok => \A v \in held[k] \cup {n} : v <= n
          <5>1. \A v \in held[k] : v \in Int
            BY <4>1
          <5> QED
            BY <4>1, <4>2, <5>1
        <4> QED
          BY <4>2, <4>3, <4>4, <4>5
      <3>5. /\ held' \in [RowKeys -> SUBSET (1 .. MaxPuts)] /\ held'[k] = h
            /\ \A j \in RowKeys \ {k} : held'[j] = held[j]
        BY <3>2, <3>3, <3>4, BackTypes
      <3>6. index' \subseteq RowKeys /\ \A j \in RowKeys \ {k} : j \in index => j \in index'
        BY <2>1, BackTypes
      <3> QED
        BY <1>5, <2>1, <2>2, <2>5, <3>1, <3>4, <3>5, <3>6, WriteIsOver
    <2> QED
      BY <2>4, <2>5
  <1>7. CASE DeleteRow(s)
    <2>1. /\ Writes(s) /\ UNCHANGED <<backend, index, target, puts>>
          /\ session[s].op = "delete" /\ session[s].at = "begin"
      BY <1>7 DEF DeleteRow, Op, Writes
    <2>2. PICK k \in RowKeys : k = session[s].key
      BY <1>3, <2>1
    <2>3. session[s].value = Absent
      BY <1>3, <2>1 DEF WriteUnderWay
    <2>4. held' = [held EXCEPT ![k] = {}]
      BY <1>7, <2>2 DEF DeleteRow
    <2>5. CASE backend.write = "indexed"
      <3>1. session' = [session EXCEPT ![s].at = "index"] /\ UNCHANGED settled
        BY <1>7, <2>5 DEF DeleteRow
      <3>2. {} = {session[s].value} \ {Absent}
        BY <2>3
      <3> QED
        BY <2>1, <2>2, <2>4, <3>1, <3>2, RowIsWritten
    <2>6. CASE backend.write # "indexed"
      <3>1. WriteEnds(s)
        BY <1>7, <2>6 DEF DeleteRow
      <3>2. /\ held' \in [RowKeys -> SUBSET (1 .. MaxPuts)] /\ held'[k] = {}
            /\ \A j \in RowKeys \ {k} : held'[j] = held[j]
        BY <2>4, BackTypes
      <3>3. index' \subseteq RowKeys /\ \A j \in RowKeys \ {k} : j \in index => j \in index'
        BY <2>1, BackTypes
      <3> QED
        BY <1>5, <2>1, <2>2, <2>3, <3>1, <3>2, <3>3, WriteIsOver
    <2> QED
      BY <2>5, <2>6
  <1>8. CASE PutIndex(s) \/ DeleteIndex(s)
    <2>1. /\ Writes(s) /\ WriteEnds(s) /\ UNCHANGED <<backend, held, target, puts>>
          /\ session[s].at = "index"
      BY <1>8 DEF PutIndex, DeleteIndex, Op, Writes
    <2>2. PICK k \in RowKeys : k = session[s].key
      BY <1>3, <2>1
    <2>3. /\ session[s].ok => held[k] = {session[s].value} \ {Absent}
          /\ session[s].op = "delete" => session[s].value = Absent
          /\ session[s].op = "put" => session[s].value \in 1 .. puts
      BY <1>3, <2>1, <2>2 DEF WriteUnderWay
    <2>4. /\ index' \subseteq RowKeys /\ \A j \in RowKeys \ {k} : j \in index => j \in index'
          /\ session[s].op = "put" => k \in index'
      BY <1>8, <2>2, BackTypes DEF PutIndex, DeleteIndex, Op
    <2>5. /\ held' \in [RowKeys -> SUBSET (1 .. MaxPuts)] /\ held'[k] = held[k]
          /\ (\A v \in held'[k] : v <= puts) /\ \A j \in RowKeys \ {k} : held'[j] = held[j]
      BY <1>3, <2>1, <2>2, BackTypes
    <2>6. session[s].ok => \A v \in held'[k] : v <= session[s].value
      <3>1. session[s].value \in Absent .. MaxPuts
        <4>1. session[s] \in SessionSet
          BY BackTypes
        <4> QED
          BY <4>1 DEF SessionSet
      <3>2. session[s].value \in Int
        BY <3>1, BackTypes
      <3> QED
        BY <2>3, <2>5, <3>2
    <2>7. session[s].ok /\ session[s].value # Absent => session[s].value \in held'[k] /\ k \in index'
      <3>1. session[s].value # Absent => session[s].op = "put"
        BY <2>1, <2>3 DEF Writes
      <3> QED
        BY <2>3, <2>4, <2>5, <3>1
    <2> QED
      BY <1>5, <2>1, <2>2, <2>4, <2>5, <2>6, <2>7, WriteIsOver
  <1> QED
    BY <1>1, <1>2, <1>4, <1>6, <1>7, <1>8

LEMMA BackStarts == BackendsInit => BackInv
  <1> SUFFICES ASSUME BackendsInit PROVE BackInv
    OBVIOUS
  <1>1. \A s \in Sessions : session[s] = AtRest
    BY DEF BackendsInit
  <1>2. session \in [Sessions -> SessionSet]
    BY RestIs DEF BackendsInit
  <1>3. /\ held = [k \in RowKeys |-> {}] /\ index = {} /\ puts = 1
        /\ settled = [k \in RowKeys |-> Absent] /\ target \in [RowKeys -> {Absent, 1}]
        /\ backend \in DbBackends
    BY DEF BackendsInit
  <1>4. BackendsTypeOK
    <2>1. /\ {Absent, 1} \subseteq Absent .. MaxPuts /\ Absent \in Unsure .. MaxPuts /\ 1 \in 1 .. MaxPuts
      BY BackendsAssumption DEF Absent, Unsure
    <2>2. /\ held \in [RowKeys -> SUBSET (1 .. MaxPuts)] /\ target \in [RowKeys -> Absent .. MaxPuts]
          /\ settled \in [RowKeys -> Unsure .. MaxPuts]
      BY <1>3, <2>1
    <2> QED
      BY <1>2, <1>3, <2>1, <2>2 DEF BackendsTypeOK, SessionSet
  <1>5. \A k \in RowKeys : SettledRows(k) /\ \A v \in held[k] : v <= puts
    BY <1>3 DEF SettledRows
  <1>6. \A s \in Sessions : ~Writes(s) /\ ~Moves(s) /\ session[s].op = "none"
    BY <1>1, RestIs DEF Writes, Moves
  <1> QED
    BY <1>1, <1>2, <1>4, <1>5, <1>6, RestIs DEF BackInv, WriteUnderWay, ReadUnderWay

LEMMA BackStep ==
  ASSUME BackInv, [BackendsNext]_backendVars
  PROVE  BackInv'
  <1>1. CASE UNCHANGED backendVars
    BY <1>1 DEF backendVars, BackInv, BackendsTypeOK, SettledRows, WriteUnderWay, ReadUnderWay, Writes,
                Moves
  <1>2. ASSUME NEW s \in Sessions, List(s) PROVE BackInv'
    BY <1>2, ListStep DEF List, Writes
  <1>3. ASSUME NEW s \in Sessions, Transfer(s) PROVE BackInv'
    BY <1>3, ListStep DEF Transfer, Writes, Moves
  <1>4. ASSUME NEW s \in Sessions, ReadEnds(s) PROVE BackInv'
    BY <1>4, SessionRests DEF ReadEnds, Writes
  <1> QED
    BY <1>1, <1>2, <1>3, <1>4, WriteStep, GetStep, ListSideStep, CopyStep, VerifyStep DEF BackendsNext

LEMMA BackInvariant == BackendsSpec => []BackInv
  <1>1. BackInv /\ [BackendsNext]_backendVars => BackInv'
    BY BackStep
  <1> QED
    BY <1>1, BackStarts, PTL DEF BackendsSpec

\* A table of any of the backends (open-runo-db/src/lib.rs:50-909), and the table it is
\* copied to (migrate.rs:22-106), keep their types.
THEOREM BackendsTyped == BackendsSpec => []BackendsTypeOK
  <1>1. BackInv => BackendsTypeOK
    BY DEF BackInv
  <1> QED
    BY <1>1, BackInvariant, PTL

\* DbBackend's get and list, also RedisBackend's in its two steps (lib.rs:799-837), find
\* each row whose last write was acknowledged and overlapped no other, and none that was
\* so deleted, for any sessions, rows and writes.
THEOREM SettledRowsRead == BackendsSpec => []ReadsHaveSettledRows
  <1>1. BackInv => ReadsHaveSettledRows
    <2> SUFFICES ASSUME BackInv, NEW s \in Sessions, session[s].op \in {"get", "list"},
                        session[s].at = "done", NEW k \in RowKeys
                 PROVE  LET found == {row[2] : row \in {r \in session[s].got : r[1] = k}}
                        IN CASE session[s].expect[k] = Unsure -> TRUE
                             [] session[s].expect[k] = Absent -> found = {}
                             [] OTHER -> session[s].expect[k] = Max(found \cup {Absent})
      BY DEF ReadsHaveSettledRows
    <2> DEFINE found == {row[2] : row \in {r \in session[s].got : r[1] = k}}
               e == session[s].expect[k]
    <2>1. session[s].got \in SUBSET (RowKeys \X (1 .. MaxPuts)) /\ e \in Unsure .. MaxPuts
      <3>1. session[s] \in SessionSet
        BY BackTypes
      <3> QED
        BY <3>1 DEF SessionSet
    <2>2. \A v : v \in found <=> <<k, v>> \in session[s].got
      BY <2>1
    <2>3. found \in SUBSET (1 .. MaxPuts)
      BY <2>1, <2>2
    <2>4. e # Unsure => /\ \A v \in found : v <= e
                        /\ e # Absent => e \in found
      BY <2>2, <2>3 DEF BackInv, ReadUnderWay
    <2> HIDE DEF found, e
    <2>5. e = Absent => found = {}
      BY <2>3, <2>4, BackTypes
    <2>6. e # Unsure /\ e # Absent => e = Max(found \cup {Absent})
      <3> SUFFICES ASSUME e # Unsure, e # Absent PROVE Max(found \cup {Absent}) = e
        OBVIOUS
      <3>1. found \cup {Absent} \in SUBSET Int /\ e \in found \cup {Absent}
        <4>1. MaxPuts \in Nat /\ Absent \in Int
          BY BackTypes
        <4>2. found \subseteq Int
          BY <2>3, <4>1
        <4> QED
          BY <2>4, <4>1, <4>2
      <3>2. \A x \in found \cup {Absent} : x <= e
        BY <2>1, <2>4, BackTypes
      <3> QED
        BY <3>1, <3>2, HighestIs
    <2>7. CASE e = Unsure
      BY <2>7, BackTypes DEF e
    <2>8. CASE e # Unsure
      BY <2>5, <2>6, <2>8 DEF e, found
    <2> QED
      BY <2>7, <2>8
  <1> QED
    BY <1>1, BackInvariant, PTL

\* transfer_verified (migrate.rs:45-106): when it reports no issue, every settled row
\* that nobody wrote since the second listing is in the target.
THEOREM CleanCopyIsWhole == BackendsSpec => []VerifiedCopyIsWhole
  <1>1. BackInv => VerifiedCopyIsWhole
    <2> SUFFICES ASSUME BackInv, NEW s \in Sessions, Verified(s), NEW k \in RowKeys,
                        session[s].expect[k] > Absent
                 PROVE  target[k] = session[s].expect[k]
      BY DEF VerifiedCopyIsWhole
    <2>1. session[s].expect[k] # Unsure /\ session[s].expect[k] # Absent
      <3>1. session[s] \in SessionSet
        BY BackTypes
      <3>2. session[s].expect[k] \in Unsure .. MaxPuts
        BY <3>1 DEF SessionSet
      <3> QED
        BY <3>2, BackTypes
    <2>2. session[s].op = "verify" /\ session[s].at = "done" /\ session[s].got = {} /\ session[s].clean
      BY DEF Verified, Op
    <2> QED
      BY <2>1, <2>2 DEF BackInv, ReadUnderWay
  <1> QED
    BY <1>1, BackInvariant, PTL

-----------------------------------------------------------------------------
(* CachePredictor *)

StatsSet == [requests : 0 .. 2, arrival : NotYet .. LastSecond, update : NotYet .. LastSecond,
             cost : NotYet .. MaxCost, seen : 0 .. LastSecond, updated : NotYet .. LastSecond]

\* A table whose entries were last seen, and last updated, in the past.
TableSound(table, names) ==
    /\ DOMAIN table \subseteq names
    /\ \A k \in DOMAIN table :
          table[k] \in StatsSet /\ table[k].seen <= second /\ table[k].updated <= second

\* What a page's entry has learned of its requests is what happened since it was
\* last forgotten, and no average exceeds the longest of what was averaged.
PageSound(p) ==
    /\ p \notin DOMAIN keys => asked[p] = NotYet /\ slowest[p] = NotYet
    /\ p \in DOMAIN keys =>
          /\ keys[p].requests = 0 => asked[p] = NotYet /\ slowest[p] = NotYet /\ keys[p].arrival = NotYet
          /\ keys[p].requests # 0 => asked[p] = keys[p].seen
          /\ keys[p].arrival <= slowest[p]
          /\ keys[p].arrival = NotYet => slowest[p] = NotYet

PredInv ==
    /\ PredictorTypeOK /\ SteadyPageAdmitted
    /\ TableSound(keys, Paths) /\ TableSound(patterns, Patterns)
    /\ asked \in [Paths -> NotYet .. LastSecond] /\ slowest \in [Paths -> NotYet .. LastSecond]
    /\ \A p \in Paths : PageSound(p)

LEMMA LowestIs ==
  ASSUME NEW S \in SUBSET Int, NEW v \in S, \A x \in S : v <= x
  PROVE  Min(S) = v
  <1>1. Min(S) \in S /\ \A y \in S : Min(S) <= y
    BY DEF Min
  <1>2. PICK m \in S : m = Min(S) /\ \A y \in S : m <= y
    BY <1>1
  <1>3. m >= v /\ m <= v /\ m \in Int /\ v \in Int
    BY <1>2
  <1>4. m = v
    BY <1>3
  <1> QED
    BY <1>2, <1>4

LEMMA OfTwo ==
  ASSUME NEW a \in Int, NEW b \in Int
  PROVE  /\ Max({a, b}) = IF a >= b THEN a ELSE b
         /\ Min({a, b}) = IF a <= b THEN a ELSE b
  <1>1. {a, b} \in SUBSET Int
    OBVIOUS
  <1>2. Max({a, b}) = IF a >= b THEN a ELSE b
    <2>1. CASE a >= b
      <3>1. a \in {a, b} /\ \A x \in {a, b} : x <= a
        BY <2>1
      <3>2. Max({a, b}) = a
        BY <1>1, <3>1, HighestIs
      <3> QED
        BY <2>1, <3>2
    <2>2. CASE ~(a >= b)
      <3>1. b \in {a, b} /\ \A x \in {a, b} : x <= b
        BY <2>2
      <3>2. Max({a, b}) = b
        BY <1>1, <3>1, HighestIs
      <3> QED
        BY <2>2, <3>2
    <2> QED
      BY <2>1, <2>2
  <1>3. Min({a, b}) = IF a <= b THEN a ELSE b
    <2>1. CASE a <= b
      <3>1. a \in {a, b} /\ \A x \in {a, b} : a <= x
        BY <2>1
      <3>2. Min({a, b}) = a
        BY <1>1, <3>1, LowestIs
      <3> QED
        BY <2>1, <3>2
    <2>2. CASE ~(a <= b)
      <3>1. b \in {a, b} /\ \A x \in {a, b} : b <= x
        BY <2>2
      <3>2. Min({a, b}) = b
        BY <1>1, <3>1, LowestIs
      <3> QED
        BY <2>2, <3>2
    <2> QED
      BY <2>1, <2>2
  <1> QED
    BY <1>2, <1>3

\* An average that moves stays between what it was and what it is moved by.
LEMMA MovedIs ==
  ASSUME NEW most \in Nat, NEW prev \in NotYet .. most, NEW new \in 0 .. most, NEW a \in Moved(prev, new)
  PROVE  a \in 0 .. most /\ (a <= prev \/ a <= new) /\ (prev = NotYet => a = new)
  <1>1. CASE prev = NotYet
    BY <1>1 DEF Moved, NotYet
  <1>2. CASE prev # NotYet
    <2>1. prev \in 0 .. most /\ prev \in Int /\ new \in Int
      BY <1>2 DEF NotYet
    <2>2. a \in Min({prev, new}) .. Max({prev, new})
      BY <1>2 DEF Moved
    <2>3. /\ Max({prev, new}) = IF prev >= new THEN prev ELSE new
          /\ Min({prev, new}) = IF prev <= new THEN prev ELSE new
      BY <2>1, OfTwo
    <2> QED
      BY <1>2, <2>1, <2>2, <2>3
  <1> QED
    BY <1>1, <1>2

\* A table that gives up entries keeps the others as they are, and gives up none that
\* was seen later than one it keeps.
LEMMA BoundIs ==
  ASSUME NEW table, NEW bound \in Bound(table)
  PROVE  /\ DOMAIN bound \subseteq DOMAIN table
         /\ \A k \in DOMAIN bound : bound[k] = table[k]
         /\ \A k \in DOMAIN table \ DOMAIN bound : \A j \in DOMAIN bound : table[k].seen <= table[j].seen
  <1>1. CASE bound = table
    BY <1>1
  <1>2. CASE bound # table
    <2>1. PICK gone \in SUBSET DOMAIN table :
            /\ bound = [k \in DOMAIN table \ gone |-> table[k]]
            /\ \A k \in gone, j \in DOMAIN table \ gone : table[k].seen <= table[j].seen
      BY <1>2 DEF Bound
    <2> QED
      BY <2>1
  <1> QED
    BY <1>1, <1>2

Sound(s) == s \in StatsSet /\ s.seen <= second /\ s.updated <= second

LEMMA ConstantsAre ==
  /\ MaxCost \in Nat /\ LastSecond \in Nat /\ NotYet = -1 /\ MinTtl \in Nat \ {0} /\ MaxTtl \in Nat
  /\ MinTtl <= MaxTtl /\ DefaultTtl \in Nat \ {0} /\ HitsWanted \in Nat
  BY PredictorAssumption DEF NotYet

LEMMA LearntIs ==
  ASSUME second \in 0 .. LastSecond, NEW table, NEW names, TableSound(table, names), NEW k
  PROVE  /\ Sound(Learnt(table, k))
         /\ k \notin DOMAIN table => /\ Learnt(table, k).requests = 0 /\ Learnt(table, k).arrival = NotYet
                                     /\ Learnt(table, k).seen = second
         /\ k \in DOMAIN table => Learnt(table, k) = table[k]
  <1>1. Stats = [requests |-> 0, arrival |-> NotYet, update |-> NotYet, cost |-> NotYet,
                 seen |-> second, updated |-> NotYet]
    BY DEF Stats
  <1>2. /\ NotYet \in NotYet .. LastSecond /\ NotYet \in NotYet .. MaxCost /\ second \in 0 .. LastSecond
        /\ 0 \in 0 .. 2 /\ NotYet <= second /\ second <= second
    BY ConstantsAre
  <1>3. Sound(Stats) /\ Stats.requests = 0 /\ Stats.arrival = NotYet /\ Stats.seen = second
    BY <1>1, <1>2 DEF Sound, StatsSet
  <1>4. CASE k \in DOMAIN table
    BY <1>4 DEF Learnt, TableSound, Sound
  <1>5. CASE k \notin DOMAIN table
    BY <1>3, <1>5 DEF Learnt
  <1> QED
    BY <1>4, <1>5

LEMMA RequestSeen ==
  ASSUME second \in 0 .. LastSecond, NEW s, Sound(s), NEW r \in ObserveRequest(s)
  PROVE  /\ Sound(r) /\ r.seen = second
         /\ s.requests = 0 => r.requests = 1 /\ r.arrival = s.arrival
         /\ s.requests # 0 => /\ r.requests = 2 /\ r.arrival \in 0 .. LastSecond
                              /\ r.arrival <= s.arrival \/ r.arrival <= second - s.seen
  <1>0. second \in 0 .. LastSecond /\ 1 \in 0 .. 2 /\ 2 \in 0 .. 2 /\ second <= second
    BY ConstantsAre
  <1>1. s \in StatsSet /\ s.seen <= second /\ s.updated <= second
    BY DEF Sound
  <1>2. CASE s.requests = 0
    <2>1. r = [s EXCEPT !.requests = 1, !.seen = second]
      BY <1>2 DEF ObserveRequest
    <2> QED
      BY <1>0, <1>1, <1>2, <2>1 DEF Sound, StatsSet
  <1>3. CASE s.requests # 0
    <2>1. PICK a \in Moved(s.arrival, second - s.seen) :
            r = [s EXCEPT !.requests = 2, !.seen = second, !.arrival = a]
      BY <1>3 DEF ObserveRequest
    <2>2. s.arrival \in NotYet .. LastSecond /\ s.seen \in 0 .. LastSecond
      BY <1>1 DEF StatsSet
    <2>3. second - s.seen \in 0 .. LastSecond
      BY <1>1, <2>2, ConstantsAre
    <2>4. a \in 0 .. LastSecond /\ (a <= s.arrival \/ a <= second - s.seen)
      BY <2>1, <2>2, <2>3, ConstantsAre, MovedIs
    <2>5. a \in NotYet .. LastSecond
      BY <2>4, ConstantsAre
    <2>6. r \in StatsSet /\ r.seen = second /\ r.updated = s.updated /\ r.requests = 2 /\ r.arrival = a
      BY <1>0, <1>1, <2>1, <2>5 DEF StatsSet
    <2> QED
      BY <1>0, <1>1, <1>3, <2>4, <2>6 DEF Sound
  <1> QED
    BY <1>2, <1>3

\* Renders and purges teach nothing about requests.
LEMMA LessonSeen ==
  ASSUME second \in 0 .. LastSecond, NEW s, Sound(s), NEW cost \in 0 .. MaxCost,
         NEW r \in ObserveRenderCost(s, cost) \cup ObserveUpdate(s)
  PROVE  Sound(r) /\ r.requests = s.requests /\ r.arrival = s.arrival /\ r.seen = s.seen
  <1>1. s \in StatsSet /\ s.seen <= second /\ s.updated <= second /\ second <= second
    BY DEF Sound
  <1>2. CASE r \in ObserveRenderCost(s, cost)
    <2>1. PICK c \in Moved(s.cost, cost) : r = [s EXCEPT !.cost = c]
      BY <1>2 DEF ObserveRenderCost
    <2>2. s.cost \in NotYet .. MaxCost
      BY <1>1 DEF StatsSet
    <2>3. c \in 0 .. MaxCost
      BY <2>1, <2>2, ConstantsAre, MovedIs
    <2>4. c \in NotYet .. MaxCost
      BY <2>3, ConstantsAre
    <2> QED
      BY <1>1, <2>1, <2>4 DEF Sound, StatsSet
  <1>3. CASE r \in ObserveUpdate(s)
    <2>1. second \in NotYet .. LastSecond
      BY ConstantsAre
    <2>2. CASE s.updated = NotYet
      <3>1. r = [s EXCEPT !.updated = second]
        BY <1>3, <2>2 DEF ObserveUpdate
      <3> QED
        BY <1>1, <2>1, <3>1 DEF Sound, StatsSet
    <2>3. CASE s.updated # NotYet
      <3>1. PICK u \in Moved(s.update, second - s.updated) :
              r = [s EXCEPT !.updated = second, !.update = u]
        BY <1>3, <2>3 DEF ObserveUpdate
      <3>2. s.update \in NotYet .. LastSecond /\ s.updated \in NotYet .. LastSecond
        BY <1>1 DEF StatsSet
      <3>3. second - s.updated \in 0 .. LastSecond
        BY <1>1, <2>3, <3>2, ConstantsAre
      <3>4. u \in 0 .. LastSecond
        BY <3>1, <3>2, <3>3, ConstantsAre, MovedIs
      <3>5. u \in NotYet .. LastSecond
        BY <3>4, ConstantsAre
      <3> QED
        BY <1>1, <2>1, <3>1, <3>5 DEF Sound, StatsSet
    <2> QED
      BY <2>2, <2>3
  <1> QED
    BY <1>2, <1>3

\* What is worked out for a page is a number, whichever entry it comes from.
LEMMA KnownIs ==
  ASSUME NEW ks, NEW ps, TableSound(ks, Paths), TableSound(ps, Patterns), NEW p
  PROVE  /\ Known(ks, ps, p, "update") \in Int /\ Cost(ks, ps, p) \in Nat
         /\ p \in DOMAIN ks /\ ks[p].arrival # NotYet => Known(ks, ps, p, "arrival") = ks[p].arrival
  <1>1. \A k \in DOMAIN ks : ks[k].update \in Int /\ ks[k].cost \in Int
    BY ConstantsAre DEF TableSound, StatsSet
  <1>2. \A k \in DOMAIN ps : ps[k].update \in Int /\ ps[k].cost \in Int
    BY ConstantsAre DEF TableSound, StatsSet
  <1>3. Known(ks, ps, p, "update") \in Int /\ Known(ks, ps, p, "cost") \in Int
    BY <1>1, <1>2, ConstantsAre DEF Known
  <1>4. Cost(ks, ps, p) \in Nat
    <2>1. PICK c \in Int : c = Known(ks, ps, p, "cost")
      BY <1>3
    <2>2. Max({0, c}) = IF 0 >= c THEN 0 ELSE c
      BY OfTwo
    <2>3. Cost(ks, ps, p) = Max({0, c})
      BY <2>1 DEF Cost
    <2> QED
      BY <2>2, <2>3
  <1>5. p \in DOMAIN ks /\ ks[p].arrival # NotYet => Known(ks, ps, p, "arrival") = ks[p].arrival
    BY DEF Known
  <1> QED
    BY <1>3, <1>4, <1>5

LEMMA TtlIs ==
  ASSUME NEW ks, NEW ps, TableSound(ks, Paths), TableSound(ps, Patterns), NEW p
  PROVE  SuggestTtl(ks, ps, p) \in Nat /\ SuggestTtl(ks, ps, p) >= MinTtl
  <1>1. PICK u \in Int, c \in Nat : u = Known(ks, ps, p, "update") /\ c = Cost(ks, ps, p)
    BY KnownIs
  <1>2. DefaultTtl * (1 + c) \in Int /\ u \div 2 \in Int
    BY ConstantsAre
  <1>3. PICK ttl \in Int : ttl = IF u # NotYet THEN u \div 2 ELSE DefaultTtl * (1 + c)
    BY <1>2
  <1>4. SuggestTtl(ks, ps, p) = Min({MaxTtl, Max({MinTtl, ttl})})
    BY <1>1, <1>3 DEF SuggestTtl
  <1>5. PICK m \in Int : m = Max({MinTtl, ttl}) /\ m >= MinTtl
    <2>1. Max({MinTtl, ttl}) = IF MinTtl >= ttl THEN MinTtl ELSE ttl
      BY ConstantsAre, OfTwo
    <2> QED
      BY <2>1, ConstantsAre
  <1>6. Min({MaxTtl, m}) = IF MaxTtl <= m THEN MaxTtl ELSE m
    BY ConstantsAre, OfTwo
  <1> QED
    BY <1>4, <1>5, <1>6, ConstantsAre

LEMMA TimesAtMost ==
  ASSUME NEW n \in Nat, NEW a \in Nat, NEW b \in Nat, a <= b
  PROVE  n * a <= n * b
  <1>1. PICK d \in Nat : b = a + d
    <2>1. b - a \in Nat /\ b = a + (b - a)
      OBVIOUS
    <2> QED
      BY <2>1
  <1>2. n * b = n * a + n * d /\ n * d \in Nat
    BY <1>1
  <1> QED
    BY <1>2

\* An interval that is short enough for the shortest time to live admits the page.
LEMMA ShortAdmits ==
  ASSUME NEW ks, NEW ps, TableSound(ks, Paths), TableSound(ps, Patterns), NEW p \in DOMAIN ks,
         NEW most \in Nat, ks[p].arrival \in 0 .. most, HitsWanted * most <= MinTtl
  PROVE  Admits(ks, ps, p)
  <1>1. PICK i \in Nat : i = ks[p].arrival /\ i <= most /\ i # NotYet
    BY ConstantsAre
  <1>2. Known(ks, ps, p, "arrival") = i
    BY <1>1, KnownIs
  <1>3. PICK t \in Nat, c \in Nat : t = SuggestTtl(ks, ps, p) /\ t >= MinTtl /\ c = Cost(ks, ps, p)
    BY TtlIs, KnownIs
  <1>4. HitsWanted * i <= HitsWanted * most
    BY <1>1, ConstantsAre, TimesAtMost
  <1>5. t * 1 <= t * (1 + c)
    <2>1. 1 <= 1 + c /\ 1 + c \in Nat
      OBVIOUS
    <2> QED
      BY <2>1, TimesAtMost
  <1>6. t * (1 + c) >= HitsWanted * i
    <2>1. PICK x \in Int, y \in Int, z \in Int : x = t * (1 + c) /\ y = HitsWanted * i /\ z = HitsWanted * most
      <3>1. t * (1 + c) \in Int /\ HitsWanted * i \in Int /\ HitsWanted * most \in Int
        BY ConstantsAre
      <3> QED
        BY <3>1
    <2>2. t <= x /\ y <= z /\ z <= MinTtl
      BY <1>4, <1>5, <2>1
    <2> QED
      BY <1>3, <2>1, <2>2, ConstantsAre
  <1> QED
    BY <1>1, <1>2, <1>3, <1>6 DEF Admits

\* Both tables stay sound when the entries of a page are replaced by sound ones.
LEMMA TableStays ==
  ASSUME NEW table, NEW names, TableSound(table, names), NEW k \in names, NEW s, Sound(s)
  PROVE  TableSound(With(table, k, s), names)
  <1> DEFINE new == With(table, k, s)
  <1>1. /\ DOMAIN new = DOMAIN table \cup {k} /\ new[k] = s
        /\ \A j \in DOMAIN table \ {k} : new[j] = table[j]
    BY DEF With
  <1> HIDE DEF new
  <1>2. TableSound(new, names)
    BY <1>1 DEF TableSound, Sound
  <1> QED
    BY <1>2 DEF new

LEMMA TypedTables ==
  ASSUME second' \in 0 .. LastSecond, lessons' \in 0 .. MaxLessons,
         TableSound(keys, Paths)', TableSound(patterns, Patterns)',
         decision' = <<>> \/ decision' \in Paths \X BOOLEAN
  PROVE  PredictorTypeOK'
  <1>1. DOMAIN keys' \subseteq Paths /\ DOMAIN patterns' \subseteq Patterns
    BY DEF TableSound
  <1>2. ASSUME NEW k \in DOMAIN keys'
        PROVE  /\ {keys'[k].arrival, keys'[k].update, keys'[k].updated} \subseteq NotYet .. LastSecond
               /\ keys'[k].requests \in 0 .. 2 /\ keys'[k].cost \in NotYet .. MaxCost
               /\ keys'[k].seen \in 0 .. LastSecond
    <2>1. keys'[k] \in StatsSet
      BY DEF TableSound
    <2> QED
      BY <2>1 DEF StatsSet
  <1> QED
    BY <1>1, <1>2 DEF PredictorTypeOK

LEMMA AskStep ==
  ASSUME PredInv, NEW p \in Paths, ObserveAndDecide(p)
  PROVE  PredInv'
  <1>1. /\ second \in 0 .. LastSecond /\ lessons \in 0 .. MaxLessons
        /\ UNCHANGED <<second, lessons>>
        /\ decision' = <<p, Admits(keys', patterns', p)>>
    BY DEF ObserveAndDecide, PredInv, PredictorTypeOK
  <1>2. PICK bk \in Bound(keys), bp \in Bound(patterns) :
          /\ \E s \in ObserveRequest(Learnt(bk, p)), q \in ObserveRequest(Learnt(bp, PatternOf(p))) :
                keys' = With(bk, p, s) /\ patterns' = With(bp, PatternOf(p), q)
          /\ asked' = [k \in Paths |-> IF k = p THEN second
                                       ELSE IF k \in DOMAIN bk THEN asked[k] ELSE NotYet]
          /\ slowest' = [k \in Paths |->
                IF k \notin DOMAIN bk THEN NotYet
                ELSE IF k = p /\ asked[p] # NotYet THEN Max({slowest[p], second - asked[p]})
                ELSE slowest[k]]
    BY DEF ObserveAndDecide
  <1>3. PICK s \in ObserveRequest(Learnt(bk, p)), q \in ObserveRequest(Learnt(bp, PatternOf(p))) :
                keys' = With(bk, p, s) /\ patterns' = With(bp, PatternOf(p), q)
    BY <1>2
  <1>4. TableSound(keys, Paths) /\ TableSound(patterns, Patterns)
    BY DEF PredInv
  <1>5. /\ DOMAIN bk \subseteq DOMAIN keys /\ \A k \in DOMAIN bk : bk[k] = keys[k]
        /\ TableSound(bk, Paths) /\ TableSound(bp, Patterns)
    <2>1. /\ DOMAIN bk \subseteq DOMAIN keys /\ \A k \in DOMAIN bk : bk[k] = keys[k]
          /\ DOMAIN bp \subseteq DOMAIN patterns /\ \A k \in DOMAIN bp : bp[k] = patterns[k]
      BY BoundIs
    <2> QED
      BY <1>4, <2>1 DEF TableSound
  <1>6. PatternOf(p) \in Patterns
    BY DEF Patterns
  <1>7. Sound(s) /\ Sound(q)
    BY <1>1, <1>5, LearntIs, RequestSeen
  <1>8. TableSound(keys', Paths) /\ TableSound(patterns', Patterns)
    BY <1>3, <1>5, <1>6, <1>7, TableStays
  <1>9. /\ DOMAIN keys' = DOMAIN bk \cup {p} /\ keys'[p] = s
        /\ \A k \in DOMAIN bk \ {p} : keys'[k] = keys[k]
    BY <1>3, <1>5 DEF With
  <1>10. TableSound(keys, Paths)' /\ TableSound(patterns, Patterns)'
    BY <1>1, <1>8 DEF TableSound
  <1>11. PredictorTypeOK'
    <2>1. Admits(keys', patterns', p) \in BOOLEAN
      BY DEF Admits
    <2> QED
      BY <1>1, <1>10, <2>1, TypedTables
  <1>12. asked[p] \in NotYet .. LastSecond /\ slowest[p] \in NotYet .. LastSecond /\ PageSound(p)
    BY DEF PredInv
  <1>13. ASSUME p \in DOMAIN bk, asked[p] # NotYet
         PROVE  /\ slowest'[p] \in 0 .. LastSecond /\ slowest[p] <= slowest'[p]
                /\ second - asked[p] <= slowest'[p]
    <2>1. keys[p].seen = asked[p] /\ keys[p].seen <= second /\ p \in DOMAIN keys
      BY <1>4, <1>5, <1>12, <1>13 DEF PageSound, TableSound
    <2>2. PICK g \in 0 .. LastSecond, m \in NotYet .. LastSecond : g = second - asked[p] /\ m = slowest[p]
      <3>1. second - asked[p] \in 0 .. LastSecond
        BY <1>1, <1>12, <1>13, <2>1, ConstantsAre
      <3> QED
        BY <1>12, <3>1
    <2>3. slowest'[p] = Max({m, g})
      BY <1>2, <1>13, <2>2
    <2>4. g \in Int /\ m \in Int
      BY ConstantsAre
    <2>5. Max({m, g}) = IF m >= g THEN m ELSE g
      BY <2>4, OfTwo
    <2> QED
      BY <2>2, <2>3, <2>5, ConstantsAre
  <1>14. /\ asked' \in [Paths -> NotYet .. LastSecond] /\ slowest' \in [Paths -> NotYet .. LastSecond]
    <2>1. NotYet \in NotYet .. LastSecond /\ second \in NotYet .. LastSecond
      BY <1>1, ConstantsAre
    <2>2. asked' \in [Paths -> NotYet .. LastSecond]
      BY <1>2, <2>1 DEF PredInv
    <2>3. ASSUME NEW k \in Paths PROVE slowest'[k] \in NotYet .. LastSecond
      <3>1. slowest[k] \in NotYet .. LastSecond
        BY DEF PredInv
      <3>2. CASE k = p /\ k \in DOMAIN bk /\ asked[p] # NotYet
        BY <1>13, <3>2, ConstantsAre
      <3>3. CASE ~(k = p /\ k \in DOMAIN bk /\ asked[p] # NotYet)
        BY <1>2, <2>1, <3>1, <3>3
      <3> QED
        BY <3>2, <3>3
    <2>4. slowest' = [k \in Paths |-> slowest'[k]]
      BY <1>2
    <2> QED
      BY <2>2, <2>3, <2>4
  <1>15. ASSUME NEW k \in Paths PROVE PageSound(k)'
    <2>1. CASE k # p
      <3>1. asked[k] \in NotYet .. LastSecond /\ slowest[k] \in NotYet .. LastSecond /\ PageSound(k)
        BY DEF PredInv
      <3>2. CASE k \in DOMAIN bk
        <4>1. /\ k \in DOMAIN keys /\ k \in DOMAIN keys' /\ keys'[k] = keys[k]
              /\ asked'[k] = asked[k] /\ slowest'[k] = slowest[k]
          BY <1>2, <1>5, <1>9, <2>1, <3>2
        <4> QED
          BY <3>1, <4>1 DEF PageSound
      <3>3. CASE k \notin DOMAIN bk
        <4>1. k \notin DOMAIN keys' /\ asked'[k] = NotYet /\ slowest'[k] = NotYet
          BY <1>2, <1>9, <2>1, <3>3
        <4> QED
          BY <4>1 DEF PageSound
      <3> QED
        BY <3>2, <3>3
    <2>2. CASE k = p
      <3>1. asked'[p] = second
        BY <1>2
      <3>2. CASE p \notin DOMAIN bk
        <4>1. slowest'[p] = NotYet
          BY <1>2, <3>2
        <4>2. Learnt(bk, p).requests = 0 /\ Learnt(bk, p).arrival = NotYet /\ Sound(Learnt(bk, p))
          BY <1>1, <1>5, <3>2, LearntIs
        <4>3. s.requests = 1 /\ s.arrival = NotYet /\ s.seen = second
          BY <1>1, <4>2, RequestSeen
        <4> QED
          BY <1>9, <2>2, <3>1, <4>1, <4>3, ConstantsAre DEF PageSound
      <3>3. CASE p \in DOMAIN bk
        <4>1. Learnt(bk, p) = keys[p] /\ Sound(Learnt(bk, p)) /\ p \in DOMAIN keys
          BY <1>1, <1>5, <3>3, LearntIs
        <4>2. CASE keys[p].requests = 0
          <5>1. asked[p] = NotYet /\ slowest[p] = NotYet /\ keys[p].arrival = NotYet
            BY <1>12, <4>1, <4>2 DEF PageSound
          <5>2. slowest'[p] = NotYet
            BY <1>2, <3>3, <5>1
          <5>3. s.requests = 1 /\ s.arrival = NotYet /\ s.seen = second
            BY <1>1, <4>1, <4>2, <5>1, RequestSeen
          <5> QED
            BY <1>9, <2>2, <3>1, <5>2, <5>3, ConstantsAre DEF PageSound
        <4>3. CASE keys[p].requests # 0
          <5>1. /\ asked[p] = keys[p].seen /\ keys[p].arrival <= slowest[p]
            BY <1>12, <4>1, <4>3 DEF PageSound
          <5>2. keys[p].seen \in 0 .. LastSecond /\ keys[p].arrival \in NotYet .. LastSecond
            BY <4>1 DEF Sound, StatsSet
          <5>3. asked[p] # NotYet
            BY <5>1, <5>2, ConstantsAre
          <5>4. /\ slowest'[p] \in 0 .. LastSecond /\ slowest[p] <= slowest'[p]
                /\ second - asked[p] <= slowest'[p]
            BY <1>13, <3>3, <5>3
          <5>5. /\ s.seen = second /\ s.requests = 2 /\ s.arrival \in 0 .. LastSecond
                /\ s.arrival <= keys[p].arrival \/ s.arrival <= second - keys[p].seen
            BY <1>1, <4>1, <4>3, RequestSeen
          <5>6. s.arrival <= slowest'[p]
            <6>1. PICK x \in Int, y \in Int, z \in Int, t \in Int :
                    x = s.arrival /\ y = slowest'[p] /\ z = keys[p].arrival /\ t = slowest[p]
              BY <1>12, <5>2, <5>4, <5>5, ConstantsAre
            <6>2. x <= z \/ x <= y
              <7>1. second - keys[p].seen <= y
                BY <5>1, <5>4, <6>1
              <7>2. second - keys[p].seen \in Int
                BY <1>1, <5>2
              <7> QED
                BY <5>5, <6>1, <7>1, <7>2
            <6> QED
              BY <5>1, <5>4, <6>1, <6>2
          <5>7. s.arrival # NotYet /\ s.requests # 0
            BY <5>5, ConstantsAre
          <5> QED
            BY <1>9, <2>2, <3>1, <5>5, <5>6, <5>7 DEF PageSound
        <4> QED
          BY <4>2, <4>3
      <3> QED
        BY <3>2, <3>3
    <2> QED
      BY <2>1, <2>2
  <1>16. SteadyPageAdmitted'
    <2> SUFFICES ASSUME slowest'[p] # NotYet, HitsWanted * slowest'[p] <= MinTtl
                 PROVE  Admits(keys', patterns', p)
      BY <1>1 DEF SteadyPageAdmitted
    <2>1. slowest'[p] \in 0 .. LastSecond
      BY <1>14, ConstantsAre
    <2>2. PICK ks, ps : ks = keys' /\ ps = patterns'
      OBVIOUS
    <2>3. PICK most \in Nat : most = slowest'[p]
      BY <2>1, ConstantsAre
    <2>4. /\ p \in DOMAIN ks /\ ks[p].arrival # NotYet /\ ks[p].arrival <= most
      BY <1>9, <1>15, <2>2, <2>3 DEF PageSound
    <2>5. ks[p].arrival \in NotYet .. LastSecond
      BY <1>8, <2>2, <2>4 DEF TableSound, StatsSet
    <2>6. ks[p].arrival \in 0 .. most
      BY <2>4, <2>5, ConstantsAre
    <2>7. Admits(ks, ps, p)
      BY <1>8, <2>2, <2>3, <2>4, <2>6, ShortAdmits
    <2> QED
      BY <2>2, <2>7
  <1> QED
    BY <1>10, <1>11, <1>14, <1>15, <1>16 DEF PredInv

LEMMA LearnStep ==
  ASSUME PredInv, NEW p \in Paths, ObserveRender(p) \/ ObservePurge(p)
  PROVE  PredInv'
  <1>1. /\ second \in 0 .. LastSecond /\ lessons' \in 0 .. MaxLessons
        /\ UNCHANGED <<second, asked, slowest>> /\ decision' = <<>>
    <2>1. /\ second \in 0 .. LastSecond /\ lessons \in 0 .. MaxLessons /\ lessons < MaxLessons
          /\ lessons' = lessons + 1
      BY DEF ObserveRender, ObservePurge, Lesson, PredInv, PredictorTypeOK
    <2>2. MaxLessons \in Nat
      BY PredictorAssumption
    <2> QED
      BY <2>1, <2>2 DEF ObserveRender, ObservePurge, Lesson
  <1>2. TableSound(keys, Paths) /\ TableSound(patterns, Patterns)
    BY DEF PredInv
  <1>3. Sound(Learnt(keys, p)) /\ Sound(Learnt(patterns, PatternOf(p)))
    BY <1>1, <1>2, LearntIs
  <1>4. PICK cost \in 0 .. MaxCost :
          \E s \in ObserveRenderCost(Learnt(keys, p), cost) \cup ObserveUpdate(Learnt(keys, p)),
             q \in ObserveRenderCost(Learnt(patterns, PatternOf(p)), cost)
                      \cup ObserveUpdate(Learnt(patterns, PatternOf(p))) :
             keys' = With(keys, p, s) /\ patterns' = With(patterns, PatternOf(p), q)
    <2>1. CASE ObserveRender(p)
      BY <2>1 DEF ObserveRender
    <2>2. CASE ObservePurge(p)
      <3>1. 0 \in 0 .. MaxCost
        BY ConstantsAre
      <3> QED
        BY <2>2, <3>1 DEF ObservePurge
    <2> QED
      BY <2>1, <2>2
  <1>4a. PICK s \in ObserveRenderCost(Learnt(keys, p), cost) \cup ObserveUpdate(Learnt(keys, p)),
             q \in ObserveRenderCost(Learnt(patterns, PatternOf(p)), cost)
                      \cup ObserveUpdate(Learnt(patterns, PatternOf(p))) :
             keys' = With(keys, p, s) /\ patterns' = With(patterns, PatternOf(p), q)
    BY <1>4
  <1>5. /\ Sound(s) /\ s.requests = Learnt(keys, p).requests /\ s.arrival = Learnt(keys, p).arrival
        /\ s.seen = Learnt(keys, p).seen
    BY <1>1, <1>3, LessonSeen
  <1>6. Sound(q)
    BY <1>1, <1>3, LessonSeen
  <1>7. PatternOf(p) \in Patterns
    BY DEF Patterns
  <1>8. TableSound(keys', Paths) /\ TableSound(patterns', Patterns)
    BY <1>2, <1>4a, <1>5, <1>6, <1>7, TableStays
  <1>9. TableSound(keys, Paths)' /\ TableSound(patterns, Patterns)'
    BY <1>1, <1>8 DEF TableSound
  <1>10. PredictorTypeOK'
    BY <1>1, <1>9, TypedTables
  <1>11. /\ DOMAIN keys' = DOMAIN keys \cup {p} /\ keys'[p] = s
         /\ \A k \in DOMAIN keys \ {p} : keys'[k] = keys[k]
    BY <1>4a DEF With
  <1>12. ASSUME NEW k \in Paths PROVE PageSound(k)'
    <2>1. PageSound(k)
      BY DEF PredInv
    <2>2. CASE k # p
      BY <1>1, <1>11, <2>1, <2>2 DEF PageSound
    <2>3. CASE k = p /\ p \in DOMAIN keys
      <3>1. Learnt(keys, p) = keys[p]
        BY <1>1, <1>2, <2>3, LearntIs
      <3> QED
        BY <1>1, <1>5, <1>11, <2>1, <2>3, <3>1 DEF PageSound
    <2>4. CASE k = p /\ p \notin DOMAIN keys
      <3>1. Learnt(keys, p).requests = 0 /\ Learnt(keys, p).arrival = NotYet
        BY <1>1, <1>2, <2>4, LearntIs
      <3>2. asked[p] = NotYet /\ slowest[p] = NotYet
        BY <2>1, <2>4 DEF PageSound
      <3> QED
        BY <1>1, <1>5, <1>11, <2>4, <3>1, <3>2, ConstantsAre DEF PageSound
    <2> QED
      BY <2>2, <2>3, <2>4
  <1>13. SteadyPageAdmitted'
    BY <1>1 DEF SteadyPageAdmitted
  <1> QED
    BY <1>1, <1>9, <1>10, <1>12, <1>13 DEF PredInv

LEMMA SecondStep ==
  ASSUME PredInv, NextSecond
  PROVE  PredInv'
  <1>1. /\ second \in 0 .. LastSecond /\ second < LastSecond /\ second' = second + 1 /\ decision' = <<>>
        /\ UNCHANGED <<lessons, keys, patterns, asked, slowest>> /\ lessons \in 0 .. MaxLessons
    BY DEF NextSecond, PredInv, PredictorTypeOK
  <1>2. second' \in 0 .. LastSecond /\ \A n \in Int : n <= second => n <= second'
    BY <1>1, ConstantsAre
  <1>4. TableSound(keys, Paths)' /\ TableSound(patterns, Patterns)'
    <2>1. TableSound(keys, Paths) /\ TableSound(patterns, Patterns)
      BY DEF PredInv
    <2>2. \A k \in DOMAIN keys : keys[k].seen \in Int /\ keys[k].updated \in Int
      BY <2>1, ConstantsAre DEF TableSound, StatsSet
    <2>3. \A k \in DOMAIN patterns : patterns[k].seen \in Int /\ patterns[k].updated \in Int
      BY <2>1, ConstantsAre DEF TableSound, StatsSet
    <2> QED
      BY <1>1, <1>2, <2>1, <2>2, <2>3 DEF TableSound
  <1>5. PredictorTypeOK'
    BY <1>1, <1>2, <1>4, TypedTables
  <1>6. \A p \in Paths : PageSound(p)'
    BY <1>1 DEF PredInv, PageSound
  <1>7. SteadyPageAdmitted'
    BY <1>1 DEF SteadyPageAdmitted
  <1> QED
    BY <1>1, <1>4, <1>5, <1>6, <1>7 DEF PredInv

LEMMA PredictorStarts == PredictorInit => PredInv
  <1> SUFFICES ASSUME PredictorInit PROVE PredInv
    OBVIOUS
  <1>1. /\ second = 0 /\ lessons = 0 /\ keys = <<>> /\ patterns = <<>> /\ decision = <<>>
        /\ asked = [p \in Paths |-> NotYet] /\ slowest = [p \in Paths |-> NotYet]
    BY DEF PredictorInit
  <1>2. DOMAIN keys = {} /\ DOMAIN patterns = {}
    BY <1>1
  <1>3. TableSound(keys, Paths) /\ TableSound(patterns, Patterns)
    BY <1>2 DEF TableSound
  <1>4. second \in 0 .. LastSecond /\ lessons \in 0 .. MaxLessons /\ NotYet \in NotYet .. LastSecond
    BY <1>1, ConstantsAre, PredictorAssumption
  <1>5. PredictorTypeOK
    BY <1>1, <1>2, <1>3, <1>4 DEF PredictorTypeOK, TableSound
  <1>6. \A p \in Paths : PageSound(p)
    BY <1>1, <1>2 DEF PageSound
  <1> QED
    BY <1>1, <1>3, <1>4, <1>5, <1>6 DEF PredInv, SteadyPageAdmitted

LEMMA PredictorStep ==
  ASSUME PredInv, [PredictorNext]_predictorVars
  PROVE  PredInv'
  <1>1. CASE UNCHANGED predictorVars
    BY <1>1 DEF predictorVars, PredInv, PredictorTypeOK, SteadyPageAdmitted, TableSound, PageSound
  <1> QED
    BY <1>1, AskStep, LearnStep, SecondStep DEF PredictorNext

LEMMA PredictorInvariant == PredictorSpec => []PredInv
  <1>1. PredInv /\ [PredictorNext]_predictorVars => PredInv'
    BY PredictorStep
  <1> QED
    BY <1>1, PredictorStarts, PTL DEF PredictorSpec

\* What CachePredictor knows per page and per pattern (predictor.rs:37-98) is of its type,
\* whatever it observes and forgets.
THEOREM PredictorTyped == PredictorSpec => []PredictorTypeOK
  <1>1. PredInv => PredictorTypeOK
    BY DEF PredInv
  <1> QED
    BY <1>1, PredictorInvariant, PTL

\* observe_and_decide (predictor.rs:237-297): a page that has kept coming back often
\* enough for the shortest time to live is admitted, whatever was learned of its renders
\* and purges, for any configuration with min_ttl <= max_ttl.
THEOREM SteadyAdmitted == PredictorSpec => []SteadyPageAdmitted
  <1>1. PredInv => SteadyPageAdmitted
    BY DEF PredInv
  <1> QED
    BY <1>1, PredictorInvariant, PTL

LEMMA ForgetsInOrder ==
  ASSUME PredInv, [PredictorNext]_predictorVars
  PROVE  [LeastRecentGoes]_predictorVars
  <1>1. TableSound(keys, Paths)
    BY DEF PredInv
  <1>2. ASSUME NEW p \in Paths, ObserveAndDecide(p) PROVE LeastRecentGoes
    <2>1. PICK bk \in Bound(keys), bp \in Bound(patterns) :
            \E s \in ObserveRequest(Learnt(bk, p)) : keys' = With(bk, p, s)
      BY <1>2 DEF ObserveAndDecide
    <2>2. PICK s \in ObserveRequest(Learnt(bk, p)) : keys' = With(bk, p, s)
      BY <2>1
    <2>3. /\ DOMAIN bk \subseteq DOMAIN keys /\ \A k \in DOMAIN bk : bk[k] = keys[k]
          /\ \A k \in DOMAIN keys \ DOMAIN bk : \A j \in DOMAIN bk : keys[k].seen <= keys[j].seen
      BY BoundIs
    <2>4. DOMAIN keys' = DOMAIN bk \cup {p} /\ keys'[p] = s
      BY <2>2 DEF With
    <2>5. decision' # <<>> /\ decision'[1] = p
      BY <1>2 DEF ObserveAndDecide
    <2>6. p \notin DOMAIN bk => s.requests = 1
      <3>1. second \in 0 .. LastSecond /\ TableSound(bk, Paths)
        BY <1>1, <2>3 DEF TableSound, PredInv, PredictorTypeOK
      <3> QED
        BY <3>1, LearntIs, RequestSeen
    <2> QED
      BY <2>3, <2>4, <2>5, <2>6 DEF LeastRecentGoes
  <1>3. ASSUME NEW p \in Paths, ObserveRender(p) \/ ObservePurge(p) PROVE LeastRecentGoes
    <2>1. \E s : keys' = With(keys, p, s)
      BY <1>3 DEF ObserveRender, ObservePurge
    <2>2. DOMAIN keys \subseteq DOMAIN keys'
      BY <2>1 DEF With
    <2> QED
      BY <2>2 DEF LeastRecentGoes
  <1>4. NextSecond => LeastRecentGoes
    BY DEF NextSecond, LeastRecentGoes
  <1> QED
    BY <1>2, <1>3, <1>4 DEF PredictorNext

\* CachePredictor::bound (predictor.rs:394-408): a page is forgotten only while none seen
\* longer ago is kept, for any size of the table.
THEOREM ForgetsOldest == PredictorSpec => ForgetsLeastRecent
  <1>1. PredInv /\ [PredictorNext]_predictorVars => [LeastRecentGoes]_predictorVars
    BY ForgetsInOrder
  <1> QED
    BY <1>1, PredictorInvariant, PTL DEF PredictorSpec, ForgetsLeastRecent

-----------------------------------------------------------------------------
(* Side by side *)

\* Whichever part moves, the others rest: each behaves as it does alone.
LEMMA PartsStep ==
  ASSUME [StoresNext]_allVars
  PROVE  /\ [Next]_vars /\ [PredictorNext]_predictorVars /\ [KeepingNext]_keepingVars
         /\ [GatewayNext]_gatewayVars /\ [BackendsNext]_backendVars /\ [FedNext]_fedVars
  <1>1. CASE UNCHANGED allVars
    BY <1>1 DEF allVars
  <1>2. CASE StoresNext
    <2>1. OthersRest
      BY <1>2 DEF StoresNext
    <2>2. CASE part = "pages" /\ Next
      BY <2>1, <2>2 DEF OthersRest
    <2>3. CASE part \in {"predictor", "crowd"} /\ PredictorNext
      BY <2>1, <2>3 DEF OthersRest
    <2>4. CASE part = "keeping" /\ KeepingNext
      BY <2>1, <2>4 DEF OthersRest
    <2>5. CASE part = "gateway" /\ GatewayNext
      BY <2>1, <2>5 DEF OthersRest
    <2>6. CASE part = "backends" /\ BackendsNext
      BY <2>1, <2>6 DEF OthersRest
    <2>7. CASE part = "federated" /\ FedNext
      BY <2>1, <2>7 DEF OthersRest
    <2> QED
      BY <1>2, <2>2, <2>3, <2>4, <2>5, <2>6, <2>7 DEF StoresNext
  <1> QED
    BY <1>1, <1>2

LEMMA PartsBehave ==
  StoresSpec => /\ Spec /\ PredictorSpec /\ KeepingSpec /\ GatewaySpec /\ BackendsSpec /\ FedSpec
  <1>1. StoresInit => /\ Init /\ PredictorInit /\ KeepingInit /\ GatewayInit /\ BackendsInit /\ FedInit
    BY DEF StoresInit
  <1>2. [StoresNext]_allVars =>
          /\ [Next]_vars /\ [PredictorNext]_predictorVars /\ [KeepingNext]_keepingVars
          /\ [GatewayNext]_gatewayVars /\ [BackendsNext]_backendVars /\ [FedNext]_fedVars
    BY PartsStep
  <1> QED
    BY <1>1, <1>2, PTL
       DEF StoresSpec, Spec, PredictorSpec, KeepingSpec, GatewaySpec, BackendsSpec, FedSpec

\* Every part that keeps data for later (html_cache.rs, predictor.rs, maintenance.rs,
\* open-runo-gateway, open-runo-db) keeps its types while the others rest.
THEOREM StoresTyped == StoresSpec => []StoresTypeOK
  <1>1. TypeOK /\ PredictorTypeOK /\ KeepingTypeOK /\ GatewayTypeOK /\ BackendsTypeOK /\ FedTypeOK
          => StoresTypeOK
    BY DEF StoresTypeOK
  <1> QED
    BY <1>1, PartsBehave, CacheTyped, PredictorTyped, KeepingTyped, GatewayTyped, BackendsTyped,
       FedTyped, PTL

\* The reads of DbBackend, of FederatedBackend (federated.rs:166-209) and of a verified
\* migration (migrate.rs:45-106) find the rows that were last written.
THEOREM RowsFound == StoresSpec => []RowsAreFound
  <1>1. ReadsHaveSettledRows /\ VerifiedCopyIsWhole /\ ReadsFindLastWrite => RowsAreFound
    BY DEF RowsAreFound
  <1> QED
    BY <1>1, PartsBehave, SettledRowsRead, CleanCopyIsWhole, LastWriteFound, PTL

\* InMemoryTtlCache::set (open-runo-cache/src/lib.rs:86-108) and CachePredictor::bound
\* (predictor.rs:394-408) make room for a new page in order.
THEOREM RoomIsMadeInOrder == StoresSpec => GivesWayInOrder
  BY PartsBehave, EvictsInOrder, ForgetsOldest, PTL DEF GivesWayInOrder
=============================================================================

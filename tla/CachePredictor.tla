--------------------------- MODULE CachePredictor ---------------------------
(***************************************************************************)
(* CachePredictor (open-runo-cache, predictor.rs): what it learns from     *)
(* requests, renders and purges, and what it decides.  Times are whole     *)
(* seconds; an average that is moved by a new observation may come to any  *)
(* value between the two.  Every method holds the one lock.                *)
(***************************************************************************)
EXTENDS Integers, FiniteSets, Sequences, FiniteSetsExt

CONSTANTS Paths,                  \* the pages: sequences of segments
          MaxTracked,             \* PredictorConfig: entries per table,
          HitsWanted,                \* min_expected_hits,
          MinTtl, MaxTtl, DefaultTtl,
          MaxCost, LastSecond,    \* bounds: seconds a render takes, the clock,
          MaxLessons              \* renders and purges observed

\* MinTtl <= MaxTtl is the operator's to see to: clamp panics otherwise.
ASSUME PredictorAssumption ==
    /\ MaxTracked \in Nat \ {0} /\ HitsWanted \in Nat /\ {MaxCost, LastSecond, MaxLessons} \subseteq Nat
    /\ MinTtl \in Nat \ {0} /\ MaxTtl \in Nat /\ MinTtl <= MaxTtl /\ DefaultTtl \in Nat \ {0}

VARIABLES
    second,
    lessons,          \* number of renders and purges observed
    keys, patterns,   \* Tables: what is known per page and per pattern of pages
    decision,         \* what observe_and_decide just answered: <<page, admitted>>, or <<>>
    asked, slowest    \* history, per page since it was last forgotten: its last request,
                      \* the longest time between two; None before
predictorVars == <<second, lessons, keys, patterns, decision, asked, slowest>>

NotYet == -1

\* A segment is [length, digits, joined]: its length, how many of its characters are
\* digits, whether it has "-" or "_"; what is not a number does not matter here.
IsVariableSegment(seg) ==
    /\ seg.digits > 0
    /\ seg.digits * 2 >= seg.length \/ seg.length >= 16 \/ seg.joined

PatternOf(path) ==
    [i \in DOMAIN path |-> IF IsVariableSegment(path[i]) THEN "*" ELSE path[i].name]
Patterns == {PatternOf(p) : p \in Paths}

Stats == [requests |-> 0, arrival |-> NotYet, update |-> NotYet, cost |-> NotYet,
          seen |-> second, updated |-> NotYet]

Learnt(table, k) == IF k \in DOMAIN table THEN table[k] ELSE Stats
With(table, k, stats) == [j \in DOMAIN table \cup {k} |-> IF j = k THEN stats ELSE table[j]]

\* The values prev * (1 - ALPHA) + new * ALPHA may have.
Moved(prev, new) == IF prev = NotYet THEN {new} ELSE Min({prev, new}) .. Max({prev, new})

ObserveRequestKeepsSeen(s) ==                            \* mutant
    IF s.requests = 0 THEN {[s EXCEPT !.requests = 1, !.seen = second]}
    ELSE {[s EXCEPT !.requests = 2, !.arrival = a] : a \in Moved(s.arrival, second - s.seen)}
\* One request, or more than one: more is not asked.
ObserveRequest(s) ==
    IF s.requests = 0 THEN {[s EXCEPT !.requests = 1, !.seen = second]}
    ELSE {[s EXCEPT !.requests = 2, !.seen = second, !.arrival = a] :
             a \in Moved(s.arrival, second - s.seen)}
ObserveRenderCost(s, cost) == {[s EXCEPT !.cost = c] : c \in Moved(s.cost, cost)}
ObserveUpdate(s) ==
    IF s.updated = NotYet THEN {[s EXCEPT !.updated = second]}
    ELSE {[s EXCEPT !.updated = second, !.update = u] : u \in Moved(s.update, second - s.updated)}

BoundNewest(table) ==                                    \* mutant
    IF Cardinality(DOMAIN table) < MaxTracked THEN {table}
    ELSE {[k \in DOMAIN table \ gone |-> table[k]] :
             gone \in {g \in SUBSET DOMAIN table :
                         /\ Cardinality(g) = MaxTracked \div 2
                         /\ \A k \in g, j \in DOMAIN table \ g : table[k].seen >= table[j].seen}}
\* A full table forgets its least recently seen half.
Bound(table) ==
    IF Cardinality(DOMAIN table) < MaxTracked THEN {table}
    ELSE {[k \in DOMAIN table \ gone |-> table[k]] :
             gone \in {g \in SUBSET DOMAIN table :
                         /\ Cardinality(g) = MaxTracked \div 2
                         /\ \A k \in g, j \in DOMAIN table \ g : table[k].seen <= table[j].seen}}

\* What the page's own entry knows, or else its pattern's.
Known(ks, ps, p, field) ==
    LET own == IF p \in DOMAIN ks THEN ks[p][field] ELSE NotYet
        all == IF PatternOf(p) \in DOMAIN ps THEN ps[PatternOf(p)][field] ELSE NotYet
    IN IF own # NotYet THEN own ELSE all
Cost(ks, ps, p) == Max({0, Known(ks, ps, p, "cost")})

SuggestTtl(ks, ps, p) ==
    LET update == Known(ks, ps, p, "update")
        ttl == IF update # NotYet THEN update \div 2 ELSE DefaultTtl * (1 + Cost(ks, ps, p))
    IN Min({MaxTtl, Max({MinTtl, ttl})})

\* Expected requests within the TTL, against a threshold that the render cost lowers.
\* (With two requests an entry has an interval.)
Admits(ks, ps, p) ==
    LET interval == Known(ks, ps, p, "arrival")
    IN /\ interval # NotYet
       /\ \/ interval = 0
          \/ SuggestTtl(ks, ps, p) * (1 + Cost(ks, ps, p)) >= HitsWanted * interval
-----------------------------------------------------------------------------
ObserveAndDecide(p) ==
    /\ \E bk \in Bound(keys), bp \in Bound(patterns) :
          /\ \E s \in ObserveRequest(Learnt(bk, p)), q \in ObserveRequest(Learnt(bp, PatternOf(p))) :
                keys' = With(bk, p, s) /\ patterns' = With(bp, PatternOf(p), q)
          /\ asked' = [k \in Paths |-> IF k = p THEN second
                                       ELSE IF k \in DOMAIN bk THEN asked[k] ELSE NotYet]
          /\ slowest' = [k \in Paths |->
                IF k \notin DOMAIN bk THEN NotYet
                ELSE IF k = p /\ asked[p] # NotYet THEN Max({slowest[p], second - asked[p]})
                ELSE slowest[k]]
    /\ decision' = <<p, Admits(keys', patterns', p)>>
    /\ UNCHANGED <<second, lessons>>

Lesson ==
    /\ lessons < MaxLessons /\ lessons' = lessons + 1
    /\ decision' = <<>>
    /\ UNCHANGED <<second, asked, slowest>>

ObserveRender(p) ==
    /\ \E cost \in 0 .. MaxCost :
       \E s \in ObserveRenderCost(Learnt(keys, p), cost),
          q \in ObserveRenderCost(Learnt(patterns, PatternOf(p)), cost) :
             keys' = With(keys, p, s) /\ patterns' = With(patterns, PatternOf(p), q)
    /\ Lesson

ObservePurge(p) ==
    /\ \E s \in ObserveUpdate(Learnt(keys, p)), q \in ObserveUpdate(Learnt(patterns, PatternOf(p))) :
          keys' = With(keys, p, s) /\ patterns' = With(patterns, PatternOf(p), q)
    /\ Lesson

NextSecond ==
    /\ second < LastSecond /\ second' = second + 1
    /\ decision' = <<>>
    /\ UNCHANGED <<lessons, keys, patterns, asked, slowest>>

PredictorInit ==
    /\ second = 0 /\ lessons = 0 /\ keys = <<>> /\ patterns = <<>> /\ decision = <<>>
    /\ asked = [p \in Paths |-> NotYet] /\ slowest = [p \in Paths |-> NotYet]

PredictorNext ==
    \/ \E p \in Paths : ObserveAndDecide(p) \/ ObserveRender(p) \/ ObservePurge(p)
    \/ NextSecond

PredictorSpec == PredictorInit /\ [][PredictorNext]_predictorVars
-----------------------------------------------------------------------------
PredictorTypeOK ==
    /\ second \in 0 .. LastSecond /\ lessons \in 0 .. MaxLessons
    /\ DOMAIN keys \subseteq Paths /\ DOMAIN patterns \subseteq Patterns
    /\ \A k \in DOMAIN keys :
          /\ {keys[k].arrival, keys[k].update, keys[k].updated} \subseteq NotYet .. LastSecond
          /\ keys[k].requests \in 0 .. 2 /\ keys[k].cost \in NotYet .. MaxCost
          /\ keys[k].seen \in 0 .. LastSecond
    /\ decision = <<>> \/ decision \in Paths \X BOOLEAN

\* Whatever was learned of renders and purges, a page that has kept coming back
\* often enough for the shortest time to live, since it was last forgotten, is
\* admitted at each request after the first.
SteadyPageAdmitted ==
    decision # <<>> /\ slowest[decision[1]] # NotYet =>
        (HitsWanted * slowest[decision[1]] <= MinTtl => decision[2])

\* A page is forgotten only while no page seen longer ago is kept; the page just asked
\* for may have been forgotten too, and starts over.
LeastRecentGoes ==
    \A k \in DOMAIN keys \ DOMAIN keys' : \A j \in DOMAIN keys \cap DOMAIN keys' :
        \/ keys[k].seen <= keys[j].seen
        \/ decision' # <<>> /\ decision'[1] = j /\ keys'[j].requests = 1
ForgetsLeastRecent == [][LeastRecentGoes]_predictorVars
=============================================================================

------------------------------ MODULE MCStores ------------------------------
(***************************************************************************)
(* Small instances of what keeps data for later: the page cache with more  *)
(* pages than it holds, the predictor that decides what it keeps and the   *)
(* copy of its model in the database, the response cache of the GraphQL    *)
(* gateway, the backends of one database and the federation of several.    *)
(* The predictor is explored twice: with two pages and what it learns of   *)
(* them, and with a crowd of four that fill its table, of which it then    *)
(* forgets two.                                                            *)
(* One run explores each from its own initial states while the others rest *)
(* in theirs.                                                              *)
(***************************************************************************)
EXTENDS HtmlPageCache, CachePredictor, ModelKeeping, Gateway, Backends, FederatedDatabase, TLC

VARIABLE part    \* the one that moves

\* Requests, pages and posts are interchangeable.
Symmetric == Permutations(Clients) \cup Permutations(Keys) \cup Permutations(Posts)

\* How many lock identities can be in use at once, and one more.
Locks == 1 .. (Cardinality(Keys) + Cardinality(Tasks))

\* Pages of one pattern: two, and two more.
Word(n) == [name |-> n, length |-> 4, digits |-> 0, joined |-> FALSE]
Id(n) == [name |-> n, length |-> 2, digits |-> 2, joined |-> FALSE]
TwoPages == {<<Word("page"), Id("7")>>, <<Word("page"), Id("8")>>}
FourPages == TwoPages \cup {<<Word("page"), Id("9")>>, <<Word("page"), Id("10")>>}

allVars == <<part, vars, predictorVars, keepingVars, gatewayVars, backendVars, fedVars>>

StoresInit ==
    /\ part \in {"pages", "predictor", "crowd", "keeping", "gateway", "backends", "federated"}
    /\ Init /\ PredictorInit /\ KeepingInit /\ GatewayInit /\ BackendsInit /\ FedInit
    /\ part # "gateway" => mode = "disabled"
    /\ part # "backends" => backend = InMemoryBackend /\ target = [k \in RowKeys |-> Absent]
    /\ part # "federated" =>
          /\ placement = [broadcast |-> TRUE, owner |-> 0]
          /\ copies = [m \in Members |-> 0]

OthersRest ==
    /\ part # "pages" => UNCHANGED vars
    /\ part \notin {"predictor", "crowd"} => UNCHANGED predictorVars
    /\ part # "keeping" => UNCHANGED keepingVars
    /\ part # "gateway" => UNCHANGED gatewayVars
    /\ part # "backends" => UNCHANGED backendVars
    /\ part # "federated" => UNCHANGED fedVars

StoresNext ==
    /\ \/ part = "pages" /\ Next
       \/ part = "predictor" /\ PredictorNext /\ DOMAIN keys' \subseteq TwoPages
       \/ part = "crowd" /\ PredictorNext /\ UNCHANGED lessons /\ second' <= 1
       \/ part = "keeping" /\ KeepingNext
       \/ part = "gateway" /\ GatewayNext
       \/ part = "backends" /\ BackendsNext
       \/ part = "federated" /\ FedNext
    /\ UNCHANGED part
    /\ OthersRest

StoresSpec == StoresInit /\ [][StoresNext]_allVars

\* The part that moves is well typed.
StoresTypeOK ==
    /\ part = "pages" => TypeOK
    /\ part \in {"predictor", "crowd"} => PredictorTypeOK
    /\ part = "keeping" => KeepingTypeOK
    /\ part = "gateway" => GatewayTypeOK
    /\ part = "backends" => BackendsTypeOK
    /\ part = "federated" => FedTypeOK

\* What a read finds in a database, whatever it is made of: the row last written
\* and, in the database migrated to, every row of the source.
RowsAreFound == ReadsHaveSettledRows /\ VerifiedCopyIsWhole /\ ReadsFindLastWrite

\* A full cache gives way in order: the pages to expire first, and in the predictor
\* the pages seen longest ago, make room for a new one.
GivesWayInOrder == EvictsSoonest /\ ForgetsLeastRecent
=============================================================================

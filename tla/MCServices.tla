----------------------------- MODULE MCServices -----------------------------
(***************************************************************************)
(* Small instances of what answers a request, from the browser to the      *)
(* handlers: the pages of the admin client, their virtual DOM and its API  *)
(* calls, the routes, the middleware around a handler, the check of keys   *)
(* and sessions, the control-plane handlers, the SCIM users and the gRPC   *)
(* endpoint.  In each the rest of the system is part of the environment,   *)
(* so one run explores each from its own initial states while the others   *)
(* rest in theirs.                                                         *)
(***************************************************************************)
EXTENDS AdminPages, VirtualDom, ApiClient, HttpRouting, RequestPath, Access, AdminCalls,
        Identity, GrpcHealth, TLC

CONSTANTS b1, b2, f1, f2    \* two tabs of the browser and a call of each

VARIABLE part               \* the one that moves

CallOwner == f1 :> b1 @@ f2 :> b2

\* Users, keys, names and handlers are interchangeable.
Symmetric == Permutations(Names) \cup Permutations(Ids)
                \cup Permutations(Keys) \cup Permutations(Tasks)

-----------------------------------------------------------------------------
(* What the component of the virtual DOM renders: lists of one to three     *)
(* keyed items in any order, lists without keys, and other elements.        *)

NoAttrs == [n \in {} |-> "x"]
Class(v) == [n \in {"class"} |-> v]
Row(key, attrs, click, text) == Element("li", key, attrs, click, <<Text(text)>>)
Item == [k \in {"k1", "k2", "k3"} |->
            Row(k, IF k = "k1" THEN Class("on") ELSE NoAttrs,
                IF k = "k2" THEN "h0" ELSE "none", k)]
List(children) == Element("ul", "none", NoAttrs, "none", children)
Orders(n) == {s \in [1 .. n -> {"k1", "k2", "k3"}] : IsInjective(s)}
Loose == {Text("x"), Text("y"), Row("none", Class("off"), "h1", "x"),
          Element("p", "k1", NoAttrs, "none", <<>>)}
LooseLists == {s \in UNION {[1 .. n -> Loose] : n \in 1 .. 2} :
                  ~\E i, j \in DOMAIN s :
                      i # j /\ NodeKey(s[i]) # "none" /\ NodeKey(s[i]) = NodeKey(s[j])}
AllTrees ==
    {List([i \in DOMAIN s |-> Item[s[i]]]) : s \in UNION {Orders(n) : n \in 0 .. 3}}
        \cup {List(s) : s \in LooseLists}
        \cup {Text("x"), Row("none", Class("on"), "h1", "y"),
              List(<<Row("k1", Class("off"), "none", "z"), Item["k3"]>>)}
AtStart == {Blank, Text("x")}

-----------------------------------------------------------------------------
allVars == <<part, pageVars, domVars, clientVars, routingVars, pathVars, accessVars,
             adminVars, identityVars, grpcVars>>

ServicesInit ==
    /\ part \in {"pages", "dom", "client", "routing", "path", "access", "admin",
                 "identity", "grpc"}
    /\ PagesInit /\ DomInit /\ ClientInit /\ RoutingInit /\ PathInit /\ AccessInit
    /\ AdminInit /\ IdentityInit /\ GrpcInit
    /\ part # "dom" => document = Blank
    /\ part # "path" => shared = FALSE
    /\ part # "admin" => desk = "flags"

OthersRest ==
    /\ part # "pages" => UNCHANGED pageVars
    /\ part # "dom" => UNCHANGED domVars
    /\ part # "client" => UNCHANGED clientVars
    /\ part # "routing" => UNCHANGED routingVars
    /\ part # "path" => UNCHANGED pathVars
    /\ part # "access" => UNCHANGED accessVars
    /\ part # "admin" => UNCHANGED adminVars
    /\ part # "identity" => UNCHANGED identityVars
    /\ part # "grpc" => UNCHANGED grpcVars

ServicesNext ==
    /\ \/ part = "pages" /\ PagesNext
       \/ part = "dom" /\ DomNext
       \/ part = "client" /\ ClientNext
       \/ part = "routing" /\ RoutingNext
       \/ part = "path" /\ PathNext
       \/ part = "access" /\ AccessNext
       \/ part = "admin" /\ AdminNext
       \/ part = "identity" /\ IdentityNext
       \/ part = "grpc" /\ GrpcNext
    /\ UNCHANGED part
    /\ OthersRest

ServicesSpec == ServicesInit /\ [][ServicesNext]_allVars

\* The part that moves is well typed.
ServicesTypeOK ==
    /\ part = "pages" => PagesTypeOK
    /\ part = "dom" => DomTypeOK
    /\ part = "client" => ClientTypeOK
    /\ part = "routing" => RoutingTypeOK
    /\ part = "path" => PathTypeOK
    /\ part = "access" => AccessTypeOK
    /\ part = "admin" => AdminTypeOK
    /\ part = "identity" => IdentityTypeOK
    /\ part = "grpc" => GrpcTypeOK

\* What the user of the admin client may rely on: no page stays shut or loading
\* when nothing is under way, a call refused for its key is made again with a
\* fresh one, and the document shows what the state says.
ClientHolds == NothingHangs /\ RetryHasFreshKey /\ DocumentShowsTree /\ NothingForgotten
=============================================================================

----------------------------- MODULE HttpRouting -----------------------------
(***************************************************************************)
(* The router of crates/open-runo-router: the table that build_hyper_app   *)
(* of lib.rs registers, the preflight routes added to it, the dispatch of  *)
(* hyper_compat.rs and what the wrappers of middleware_hyper.rs add to an  *)
(* answer.  A path is the sequence of its segments; a pattern's segment    *)
(* that begins with ":" is a parameter.                                    *)
(***************************************************************************)
EXTENDS Integers, Sequences, SequencesExt

CONSTANTS
    Allowed,        \* OPEN_RUNO_CORS_ALLOWED_ORIGINS; none allows every origin
    Origins         \* bound: the origins requests come from

VARIABLES
    routes,     \* the routes registered so far, in order
    serving,    \* the table is complete
    exchange    \* history: the last request and its answer

routingVars == <<routes, serving, exchange>>

Methods == {"GET", "POST", "PUT", "DELETE", "OPTIONS"}

\* parse_pattern: what begins with a colon names a parameter.
Parameters == {":token", ":service", ":table", ":key", ":commit_id", ":hash",
               ":id", ":name"}

Route(method, path, name) ==
    [method |-> method, path |-> path, name |-> name, wrapped |-> TRUE]
Unwrapped(method, path, name) == [Route(method, path, name) EXCEPT !.wrapped = FALSE]

-----------------------------------------------------------------------------
(* The table, in the order of registration.                                 *)

PublicRoutes == <<
    Route("GET", <<"health">>, "health"),
    Route("GET", <<"healthz">>, "health"),
    Route("GET", <<"api", "openapi.json">>, "openapi"),
    Route("GET", <<".well-known", "acme-challenge", ":token">>, "challenge_response"),
    Route("POST", <<"api", "keys", "self-issue">>, "self_issue_key"),
    Route("POST", <<"mcp">>, "mcp"),
    Route("POST", <<"api", "session", "login">>, "session_login"),
    Route("POST", <<"api", "session", "logout">>, "session_logout")>>

SchemaRoutes == <<
    Route("POST", <<"api", "schemas">>, "register_schema"),
    Route("POST", <<"api", "schemas", "upload">>, "register_schema_upload"),
    Route("POST", <<"api", "schemas", "upload-raw">>, "register_schema_upload_raw"),
    Route("GET", <<"api", "schemas", ":service">>, "get_schema"),
    Route("GET", <<"api", "schemas", ":service", "history">>, "get_schema_history"),
    Route("POST", <<"api", "federation", "compose">>, "compose_schemas"),
    Route("GET", <<"api", "federation", "status">>, "federation_status"),
    Route("POST", <<"api", "ai", "route">>, "route_request")>>

TableRoutesFirst == <<                                   \* mutant
    Route("GET", <<"api", "db", ":table">>, "db_list"),
    Route("GET", <<"api", "db", "status">>, "db_status"),
    Route("GET", <<"api", "db", "routing">>, "db_routing")>>
TableRoutes == <<
    Route("GET", <<"api", "db", "status">>, "db_status"),
    Route("GET", <<"api", "db", "routing">>, "db_routing"),
    Route("GET", <<"api", "db", ":table">>, "db_list")>>

DatabaseRoutes == <<
    Route("GET", <<"api", "db", ":table", ":key">>, "db_get"),
    Route("GET", <<"api", "db", ":table", ":key", "at", ":commit_id">>, "db_get_at_commit"),
    Route("PUT", <<"api", "db", ":table", ":key">>, "db_put"),
    Route("DELETE", <<"api", "db", ":table", ":key">>, "db_delete"),
    Route("POST", <<"api", "cache", "purge">>, "purge_page"),
    Route("POST", <<"api", "cache", "purge-all">>, "purge_all_pages"),
    Route("GET", <<"api", "cache", "ai-stats">>, "ai_stats"),
    Route("POST", <<"api", "backup", "export">>, "backup_export"),
    Route("POST", <<"api", "backup", "import">>, "backup_import"),
    Route("POST", <<"api", "backup", "restore-latest">>, "backup_restore_latest"),
    Route("POST", <<"api", "migrate", "export-sql">>, "migrate_export_sql"),
    Route("POST", <<"api", "migrate", "export-csv">>, "migrate_export_csv"),
    Route("POST", <<"api", "integrity", "check">>, "integrity_check"),
    Route("POST", <<"api", "persisted-queries">>, "register_persisted_query"),
    Route("GET", <<"api", "persisted-queries", ":hash">>, "get_persisted_query")>>

ScimRoutesForGroups == <<                                \* mutant
    Route("GET", <<"scim", "v2", "Users">>, "scim_list_users"),
    Route("POST", <<"scim", "v2", "Users">>, "scim_create_user"),
    Route("GET", <<"scim", "v2", "Users", ":id">>, "scim_get_user"),
    Route("DELETE", <<"scim", "v2", "Users", ":id">>, "scim_delete_user")>>
ScimRoutes == <<
    Route("GET", <<"scim", "v2", "Users">>, "scim_list_users"),
    Route("POST", <<"scim", "v2", "Users">>, "scim_create_user"),
    Route("GET", <<"scim", "v2", "Users", ":id">>, "scim_get_user"),
    Route("PUT", <<"scim", "v2", "Users", ":id">>, "scim_replace_user"),
    Route("DELETE", <<"scim", "v2", "Users", ":id">>, "scim_delete_user"),
    Route("GET", <<"scim", "v2", "Groups">>, "scim_list_groups"),
    Route("POST", <<"scim", "v2", "Groups">>, "scim_create_group"),
    Route("GET", <<"scim", "v2", "Groups", ":id">>, "scim_get_group"),
    Route("PUT", <<"scim", "v2", "Groups", ":id">>, "scim_replace_group"),
    Route("DELETE", <<"scim", "v2", "Groups", ":id">>, "scim_delete_group")>>

\* The two WebSocket endpoints are registered bare.
EventRoutes == <<
    Route("GET", <<"api", "events">>, "stream_events"),
    Unwrapped("GET", <<"api", "ws-echo">>, "ws_echo"),
    Unwrapped("GET", <<"api", "ws-events">>, "ws_events")>>

FlagRoutes == <<
    Route("POST", <<"api", "feature-flags">>, "feature_flag_upsert"),
    Route("GET", <<"api", "feature-flags">>, "feature_flag_list"),
    Route("GET", <<"api", "feature-flags", ":name">>, "feature_flag_get"),
    Route("DELETE", <<"api", "feature-flags", ":name">>, "feature_flag_delete"),
    Route("GET", <<"api", "feature-flags", ":name", "evaluate">>, "feature_flag_evaluate"),
    Route("GET", <<"api", "analytics", "requests-per-month">>, "requests_per_month"),
    Route("GET", <<"api", "analytics", "operations">>, "operations_summary")>>

StaticRoutes == <<
    Route("GET", <<>>, "static"),
    Route("GET", <<"pkg", "open_runo_desktop_wasm.js">>, "static"),
    Route("GET", <<"pkg", "open_runo_desktop_wasm_bg.wasm">>, "static"),
    Route("GET", <<"manifest.json">>, "static"),
    Route("GET", <<"icon.svg">>, "static")>>

Table ==
    PublicRoutes \o SchemaRoutes \o TableRoutes \o DatabaseRoutes \o ScimRoutes
        \o EventRoutes \o FlagRoutes \o StaticRoutes

-----------------------------------------------------------------------------
(* spec() of openapi.rs, "matching the endpoint table": what a client that  *)
(* generates its code from the document may call.                           *)

Operations(methods, path) == {<<m, path>> : m \in methods}

DocumentedSchemas ==
    Operations({"GET"}, <<"health">>) \cup Operations({"GET"}, <<"healthz">>)
    \cup Operations({"POST"}, <<"api", "schemas">>)
    \cup Operations({"GET"}, <<"api", "schemas", ":service">>)
    \cup Operations({"GET"}, <<"api", "schemas", ":service", "history">>)
    \cup Operations({"POST"}, <<"api", "federation", "compose">>)
    \cup Operations({"GET"}, <<"api", "federation", "status">>)
    \cup Operations({"POST"}, <<"api", "ai", "route">>)

DocumentedDatabase ==
    Operations({"GET"}, <<"api", "db", "status">>)
    \cup Operations({"GET"}, <<"api", "db", "routing">>)
    \cup Operations({"GET"}, <<"api", "db", ":table">>)
    \cup Operations({"GET", "PUT", "DELETE"}, <<"api", "db", ":table", ":key">>)
    \cup {<<"POST", <<"api", "cache", what>>>> : what \in {"purge", "purge-all"}}
    \cup Operations({"GET"}, <<"api", "cache", "ai-stats">>)
    \cup {<<"POST", <<"api", "backup", what>>>> :
              what \in {"export", "import", "restore-latest"}}
    \cup {<<"POST", <<"api", "migrate", what>>>> : what \in {"export-sql", "export-csv"}}
    \cup Operations({"POST"}, <<"api", "integrity", "check">>)

DocumentedQueries ==
    Operations({"POST"}, <<"api", "persisted-queries">>)
    \cup Operations({"GET"}, <<"api", "persisted-queries", ":hash">>)
    \cup Operations({"GET", "POST"}, <<"api", "feature-flags">>)
    \cup Operations({"GET", "DELETE"}, <<"api", "feature-flags", ":name">>)
    \cup Operations({"GET"}, <<"api", "feature-flags", ":name", "evaluate">>)

DocumentedScim ==
    UNION {Operations({"GET", "POST"}, <<"scim", "v2", what>>)
              \cup Operations({"GET", "PUT", "DELETE"}, <<"scim", "v2", what, ":id">>) :
                  what \in {"Users", "Groups"}}
    \cup Operations({"GET"}, <<"api", "events">>)

Documented == DocumentedSchemas \cup DocumentedDatabase \cup DocumentedQueries \cup DocumentedScim

-----------------------------------------------------------------------------

\* The calls of route() follow on each other, and nobody looks at the table between.
RegisterRoutes ==
    /\ ~serving /\ routes = <<>>
    /\ routes' = Table
    /\ UNCHANGED <<serving, exchange>>

\* with_cors_preflight: an OPTIONS route for every pattern that has none.
Preflight(path) == Unwrapped("OPTIONS", path, "preflight")
CandidatesReading ==                                     \* mutant
    SelectSeq(routes, LAMBDA r : r.method = "GET")
Candidates == SelectSeq(routes, LAMBDA r : r.method # "OPTIONS")
HasOptions(table, path) ==
    \E r \in Range(table) : r.method = "OPTIONS" /\ r.path = path
PreflightRoutes ==
    LET first(i) == \A j \in 1 .. i - 1 : Candidates[j].path # Candidates[i].path
        added == SelectSeq([i \in DOMAIN Candidates |-> i],
                           LAMBDA i : first(i) /\ ~HasOptions(routes, Candidates[i].path))
    IN  [n \in DOMAIN added |-> Preflight(Candidates[added[n]].path)]
AddPreflight ==
    /\ ~serving /\ routes # <<>>
    /\ routes' = routes \o PreflightRoutes
    /\ serving' = TRUE
    /\ UNCHANGED exchange

-----------------------------------------------------------------------------
(* Dispatch.                                                                *)

Matches(route, path) ==
    /\ Len(route.path) = Len(path)
    /\ \A i \in DOMAIN path : route.path[i] \in Parameters \/ route.path[i] = path[i]

Bindings(route, path) ==
    {<<route.path[i], path[i]>> : i \in {j \in DOMAIN path : route.path[j] \in Parameters}}

\* The first route of the method that matches; none: 405 when another method
\* has one, else 404.
Dispatch(method, path) ==
    SelectSeq(routes, LAMBDA r : r.method = method /\ Matches(r, path))
NoRoute(path) == IF \E r \in Range(routes) : Matches(r, path) THEN 405 ELSE 404

\* with_cors: what the browser is told of its origin.
AllowOrigin(origin) ==
    CASE origin = "none" -> "*"
      [] origin # "none" /\ (Allowed = {} \/ origin \in Allowed) -> origin
      [] OTHER -> "null"

\* with_static_cache_headers: by the extension of the last segment alone.
Asset(path) ==
    path # <<>> /\ Last(path) \in {"open_runo_desktop_wasm.js", "app.js",
                                   "open_runo_desktop_wasm_bg.wasm", "icon.svg"}

\* What the handler answers: its status, and whether it is an event stream,
\* which brings a Cache-Control of its own.
Handlers(route) ==
    CASE route.name = "stream_events" -> {200, 401, 429}
      [] route.name \in {"static", "health"} -> {200, 404, 429, 503}
      [] OTHER -> {200, 201, 204, 400, 401, 404, 429}

\* wrap of build_hyper_app, from the inside out: tracing names the request,
\* CORS answers a preflight itself and tells the origin, and the answer to an
\* asset's path is kept by the client whatever its status.
Wrapped(route, status, origin, id) ==
    [status |-> status, route |-> route.name,
     origin |-> IF route.wrapped \/ route.name = "preflight" THEN AllowOrigin(origin) ELSE "none",
     id     |-> IF ~route.wrapped THEN "none" ELSE IF id = "none" THEN "minted" ELSE id]

Kept(route, path) == route.wrapped /\ route.name # "stream_events" /\ Asset(path)

\* The words a request's segment can hold where a route has a parameter.
Words == {"x", "status", "routing", "upload", "history", "app.js"}
Concrete(path, word) == [i \in DOMAIN path |-> IF path[i] \in Parameters THEN word ELSE path[i]]
Paths ==
    {Concrete(Table[i].path, word) : i \in DOMAIN Table, word \in Words}
        \cup {<<"nowhere">>, <<"api">>}

Nothing == [method |-> "none"]

Bare(status) == [status |-> status, route |-> "none", origin |-> "none", id |-> "none"]

Request(method, path, origin, id) ==
    /\ serving /\ exchange = Nothing
    /\ LET found == Dispatch(method, path) IN
       IF found = <<>>
       THEN exchange' = [method |-> method, path |-> path, from |-> origin,
                         answer |-> Bare(NoRoute(path)), kept |-> FALSE, bound |-> {}]
       ELSE \E status \in IF Head(found).name = "preflight" THEN {200}
                          ELSE Handlers(Head(found)) :
            exchange' = [method |-> method, path |-> path, from |-> origin,
                         answer |-> Wrapped(Head(found), status, origin, id),
                         kept |-> Kept(Head(found), path),
                         bound |-> Bindings(Head(found), path)]
    /\ UNCHANGED <<routes, serving>>

AnswerRead ==
    /\ exchange # Nothing
    /\ exchange' = Nothing
    /\ UNCHANGED <<routes, serving>>

-----------------------------------------------------------------------------

RoutingInit == routes = <<>> /\ serving = FALSE /\ exchange = Nothing

RoutingNext ==
    \/ RegisterRoutes \/ AddPreflight \/ AnswerRead
    \/ \E m \in Methods, p \in Paths, o \in Origins \cup {"none"}, id \in {"none", "own"} :
        Request(m, p, o, id)

RoutingSpec == RoutingInit /\ [][RoutingNext]_routingVars

RoutingTypeOK ==
    /\ serving \in BOOLEAN
    /\ \A r \in Range(routes) : r.method \in Methods
    /\ exchange.method \in Methods \cup {"none"}

-----------------------------------------------------------------------------

\* A request goes to the route that spells its path out, never to one that
\* takes a part of it for a parameter: at the first segment where the chosen
\* route differs from another that matches, the chosen one is the literal.
SpecificRouteWins ==
    exchange # Nothing =>
        LET found == Dispatch(exchange.method, exchange.path) IN
        \A i \in DOMAIN found : \A s \in DOMAIN exchange.path :
            (/\ found[1].path[s] # found[i].path[s]
             /\ \A t \in 1 .. s - 1 : found[1].path[t] = found[i].path[t])
                => found[1].path[s] \notin Parameters

\* A browser may call from another origin whatever any route serves: OPTIONS
\* on the path of a route is answered 200 and tells the origin, for every
\* method of it, also where the handler itself is not wrapped.
PreflightAnswered ==
    (exchange.method = "OPTIONS" /\ exchange.answer.status # 404) =>
        /\ exchange.answer.status = 200
        /\ exchange.answer.origin = AllowOrigin(exchange.from)

\* The document a client is generated from is true of the table: every operation
\* it describes reaches, with any value of its parameters but the words the table
\* spells out, the route of that very path.
DocumentedIsRouted ==
    serving => \A operation \in Documented :
        LET found == Dispatch(operation[1], Concrete(operation[2], "x")) IN
        found # <<>> /\ Head(found).path = operation[2]

\* The router reaches what it should: the specific route, the preflight answer, and
\* everything the document names.
RoutesAreReached == SpecificRouteWins /\ PreflightAnswered /\ DocumentedIsRouted
=============================================================================

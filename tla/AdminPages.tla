----------------------------- MODULE AdminPages -----------------------------
(***************************************************************************)
(* The pages of the admin application (apps/desktop-wasm/src/pages.rs).    *)
(* Rendering a page replaces #content; what a click starts goes on as a    *)
(* task of its own, which finds its elements by id when its answer comes,  *)
(* on whatever page is shown then.  A click, and the task it starts up to  *)
(* the first await, run before the user can do anything else.              *)
(***************************************************************************)
EXTENDS Integers, FiniteSets

CONSTANTS
    Visited,        \* bound: the pages the user goes to
    MaxTasks        \* bound: tasks that wait for an answer

VARIABLES
    shown,      \* the page in #content
    disabled,   \* the buttons of it that set_disabled has shut
    busy,       \* the elements that show "loading…", "saving…" and the like
    waiting     \* [PageTasks -> how many of it wait for an answer]

pageVars == <<shown, disabled, busy, waiting>>
-----------------------------------------------------------------------------
(* What a button's task does: the element it reports in; whether it shuts  *)
(* the button meanwhile; whether the user must confirm; what it starts     *)
(* when it succeeds, and when it fails.                                    *)

Task(name, out) ==
    [name |-> name, out |-> out, shuts |-> FALSE, confirms |-> FALSE, spins |-> TRUE,
     loads |-> FALSE, then |-> "none", else |-> "none"]
Loads(task) == [task EXCEPT !.loads = TRUE]              \* also when the page is rendered
Shuts(task) == [task EXCEPT !.shuts = TRUE]
Confirms(task) == [Shuts(task) EXCEPT !.confirms = TRUE]
Then(task, next) == [task EXCEPT !.then = next]

DashboardPage == {Loads(Task("health_check", "health-status"))}

SchemasPage == {
    Shuts(Task("register-btn", "register-msg")),
    Shuts(Task("upload-btn", "upload-msg")),
    Task("hist-btn", "history-list")}

FederationPage == {Loads(Task("refresh-status-btn", "federation-status"))}

AiRoutingPage == {Task("route-btn", "route-result")}

DatabasePage == {
    Task("db-list-btn", "db-list-result"),
    Task("db-get-btn", "db-record-result"),
    Shuts(Task("db-put-btn", "db-record-result")),
    Confirms(Task("db-delete-btn", "db-record-result"))}

ScimPage == {
    Loads(Task("scim-refresh-btn", "scim-user-list")),
    Then(Shuts(Task("scim-create-btn", "scim-create-msg")), "scim-refresh-btn"),
    Then(Confirms(Task("scim-delete-btn", "scim-delete-msg")), "scim-refresh-btn")}

PersistedQueriesPage == {
    Task("pq-register-btn", "pq-register-result"),
    Task("pq-fetch-btn", "pq-fetch-result")}

FeatureFlagsPage == {
    Loads(Task("ff-refresh-btn", "ff-list")),
    Then(Shuts(Task("ff-upsert-btn", "ff-upsert-msg")), "ff-refresh-btn"),
    Task("ff-eval-btn", "ff-eval-result"),
    Then(Confirms(Task("ff-delete-btn", "ff-delete-msg")), "ff-refresh-btn")}

CacheBackupPage == {
    Task("cache-purge-btn", "cache-result"),
    Confirms(Task("cache-purge-all-btn", "cache-result")),
    Task("cache-stats-btn", "cache-result"),
    Task("backup-export-btn", "backup-result"),
    Task("integrity-check-btn", "backup-result")}

\* One task asks for both tables, the second whatever came of the first.
AnalyticsPage == {
    [Loads(Task("analytics-refresh-btn", "analytics-months-body"))
        EXCEPT !.spins = FALSE, !.then = "operations_summary", !.else = "operations_summary"],
    [Task("operations_summary", "analytics-ops-body") EXCEPT !.spins = FALSE]}

TasksOf(page) ==
    CASE page = "dashboard" -> DashboardPage
      [] page = "schemas" -> SchemasPage
      [] page = "federation" -> FederationPage
      [] page = "ai-routing" -> AiRoutingPage
      [] page = "db" -> DatabasePage
      [] page = "scim" -> ScimPage
      [] page = "persisted-queries" -> PersistedQueriesPage
      [] page = "feature-flags" -> FeatureFlagsPage
      [] page = "cache-backup" -> CacheBackupPage
      [] page = "analytics" -> AnalyticsPage

Links == {"dashboard", "schemas", "federation", "ai-routing", "db", "scim",
          "persisted-queries", "feature-flags", "cache-backup", "analytics"}
ASSUME PagesAssumption == Visited \subseteq Links /\ MaxTasks \in Nat \ {0}

PageTasks == UNION {TasksOf(page) : page \in Visited \cup {"dashboard"}}
TaskNames == {t.name : t \in PageTasks}
TaskNamed(name) == CHOOSE t \in PageTasks : t.name = name
Buttons(page) == {t \in TasksOf(page) : t.name \notin {"health_check", "operations_summary"}}
Outs(page) == {t.out : t \in TasksOf(page)}

Alive == Cardinality({q \in TaskNames \X (1 .. MaxTasks) : q[2] <= waiting[q[1]]})
OneMore(name) == [waiting EXCEPT ![name] = @ + 1]
-----------------------------------------------------------------------------
\* navigate: the page is rendered, and what loads with it is asked for.
Rendered(page) == {t \in TasksOf(page) : t.loads}
Navigate(page) ==
    /\ Alive + Cardinality(Rendered(page)) <= MaxTasks
    /\ shown' = page /\ disabled' = {}
    /\ busy' = {t.out : t \in {r \in Rendered(page) : r.spins}}
    /\ waiting' = [n \in TaskNames |-> waiting[n] + Cardinality({t \in Rendered(page) : t.name = n})]

\* A button that confirms may be declined, which does nothing.
Click(t) ==
    /\ t \in Buttons(shown) /\ t.name \notin disabled /\ Alive < MaxTasks
    /\ disabled' = IF t.shuts THEN disabled \cup {t.name} ELSE disabled
    /\ busy' = IF t.spins THEN busy \cup {t.out} ELSE busy
    /\ waiting' = OneMore(t.name)
    /\ UNCHANGED shown

ShutForGood(t) ==                                        \* mutant
    /\ disabled' = disabled \cup {t.name} /\ UNCHANGED busy
\* upload-btn without a file: "choose a file first", and the button opens again.
NoFile(t) ==
    /\ disabled' = disabled \ {t.name} /\ busy' = busy \ {t.out}
UploadNothing ==
    /\ shown = "schemas" /\ "upload-btn" \notin disabled
    /\ NoFile(TaskNamed("upload-btn"))
    /\ UNCHANGED <<shown, waiting>>

\* set_text and set_disabled do nothing where the page has no such element.
Report(t) == busy' = busy \ {t.out}
ReopenAfterSuccess(t, next) ==                           \* mutant
    disabled' = IF next = t.then THEN disabled \ {t.name} ELSE disabled
Reopen(t, next) == disabled' = disabled \ {t.name}

\* The answer: the task tells it, starts the next one if there is one (a list
\* says "loading…" again where it is shown), and opens its button.
AnswerShown(t) ==
    /\ waiting[t.name] > 0
    /\ \E next \in {t.then, t.else} :
          /\ Reopen(t, next)
          /\ IF next = "none"
             THEN Report(t) /\ waiting' = [waiting EXCEPT ![t.name] = @ - 1]
             ELSE /\ busy' = (busy \ {t.out}) \cup
                        (IF TaskNamed(next).spins THEN {TaskNamed(next).out} \cap Outs(shown) ELSE {})
                  /\ waiting' = [waiting EXCEPT ![t.name] = @ - 1, ![next] = @ + 1]
    /\ UNCHANGED shown
-----------------------------------------------------------------------------
\* mount: the dashboard first.
PagesInit ==
    /\ shown = "dashboard" /\ disabled = {} /\ busy = {"health-status"}
    /\ waiting = [n \in TaskNames |-> IF n = "health_check" THEN 1 ELSE 0]

PagesNext ==
    \/ \E page \in Visited : Navigate(page)
    \/ \E t \in PageTasks : Click(t) \/ AnswerShown(t)
    \/ UploadNothing

PagesSpec == PagesInit /\ [][PagesNext]_pageVars
-----------------------------------------------------------------------------
PagesTypeOK ==
    /\ shown \in Visited \cup {"dashboard"}
    /\ disabled \subseteq {t.name : t \in Buttons(shown)} /\ busy \subseteq Outs(shown)
    /\ waiting \in [TaskNames -> 0 .. MaxTasks]

\* No page hangs, also one the user left and came back to while its tasks were
\* still waiting: a button that is shut is shut by a task that will open it, and an
\* element that says "loading…" has a task that will report in it.
NothingHangs ==
    /\ \A name \in disabled : waiting[name] > 0
    /\ \A out \in busy : \E t \in PageTasks : t.out = out /\ waiting[t.name] > 0
=============================================================================

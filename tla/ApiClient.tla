----------------------------- MODULE ApiClient -----------------------------
(***************************************************************************)
(* The client of the admin pages (apps/desktop-wasm/src/api.rs): calls     *)
(* that get a key for themselves, from the page's memory, the browser's    *)
(* localStorage or POST /api/keys/self-issue, and that drop a key the      *)
(* server refuses and try once more.  A page is one thread: between two    *)
(* awaits a call runs alone in its page; the storage is shared by all.     *)
(***************************************************************************)
EXTENDS Integers

CONSTANTS
    Pages,          \* the tabs that show the application
    Calls,          \* the calls under way, each of a page
    PageOf,         \* [Calls -> Pages]
    Functions,      \* bound: the functions of api.rs the pages call
    MaxKeys,        \* bound: keys the server issues
    MaxRefusals     \* bound: how often the server stops accepting every key it issued

ASSUME ClientAssumption ==
    /\ PageOf \in [Calls -> Pages]
    /\ Functions \subseteq {"list", "register_schema_upload", "scim_delete_user"}
    /\ {MaxKeys, MaxRefusals} \subseteq Nat

VARIABLES
    cached,     \* CACHED_KEY of each page
    stored,     \* the item of localStorage; 0: none
    issued,     \* how many keys the server has issued: 1 .. issued
    live,       \* those it accepts
    refusals,   \* how often it has dropped them: they expire or are revoked
    apiCall     \* [at, key, tries, since, what, told, deed]

clientVars == <<cached, stored, issued, live, refusals, apiCall>>
serverKeys == <<issued, live, refusals>>

\* What the server answers when it does what it is asked: a body of JSON, or
\* none (204, scim_delete_user_handler).
BodyOf(what) == IF what = "scim_delete_user" THEN "empty" ELSE "json"

Free == [at |-> "free", key |-> 0, tries |-> 0, since |-> 0, what |-> "none",
         told |-> "none", deed |-> FALSE]
Begun(what) == [Free EXCEPT !.at = "key", !.what = what]

Tell(c, told) == [apiCall EXCEPT ![c].at = "told", ![c].told = told, ![c].key = 0, ![c].since = 0]
-----------------------------------------------------------------------------
(* send, or register_schema_upload, which does the same for a form *)

Begin(c) ==
    /\ apiCall[c] = Free
    /\ \E what \in Functions : apiCall' = [apiCall EXCEPT ![c] = Begun(what)]
    /\ UNCHANGED <<cached, stored, serverKeys>>

Cached(c) == cached[PageOf[c]]

\* get_or_issue_api_key: memory, then storage, which memory remembers.
KeyAtHand(c) ==
    /\ apiCall[c].at = "key"
    /\ LET key == IF Cached(c) # 0 THEN Cached(c) ELSE stored IN
       /\ key # 0
       /\ cached' = [cached EXCEPT ![PageOf[c]] = key]
       /\ apiCall' = [apiCall EXCEPT ![c].at = "fetch", ![c].key = key]
    /\ UNCHANGED <<stored, serverKeys>>

AskForKey(c) ==
    /\ apiCall[c].at = "key" /\ Cached(c) = 0 /\ stored = 0
    /\ apiCall' = [apiCall EXCEPT ![c].at = "asking"]
    /\ UNCHANGED <<cached, stored, serverKeys>>

IssueOwnKey(c) ==
    /\ apiCall[c].at = "asking" /\ issued < MaxKeys
    /\ issued' = issued + 1 /\ live' = live \cup {issued + 1}
    /\ apiCall' = [apiCall EXCEPT ![c].at = "issued", ![c].key = issued + 1]
    /\ UNCHANGED <<cached, stored, refusals>>

\* The answer comes: the call's own key, whatever others keep meanwhile.
KeepKey(c) ==
    /\ apiCall[c].at = "issued"
    /\ cached' = [cached EXCEPT ![PageOf[c]] = apiCall[c].key]
    /\ stored' = apiCall[c].key
    /\ apiCall' = [apiCall EXCEPT ![c].at = "fetch"]
    /\ UNCHANGED serverKeys

\* The server has done what it was asked, or has not; it answers accordingly.
ServerActs(c) ==
    /\ apiCall[c].at = "fetch"
    /\ \E status \in IF apiCall[c].key \in live THEN {"ok", "other"} ELSE {"401"} :
          apiCall' = [apiCall EXCEPT ![c].at = status, ![c].deed = status = "ok"]
    /\ UNCHANGED <<cached, stored, serverKeys>>

ClearMemory(c) == cached' = [cached EXCEPT ![PageOf[c]] = 0] /\ stored' = stored  \* mutant
\* clear_cached_api_key
ClearCachedApiKey(c) == cached' = [cached EXCEPT ![PageOf[c]] = 0] /\ stored' = 0

\* 401: once more, with a key asked for at once, without an await between.
Refused(c) ==
    /\ apiCall[c].at = "401" /\ apiCall[c].tries = 0
    /\ ClearCachedApiKey(c)
    /\ apiCall' = [apiCall EXCEPT ![c].at = IF stored' = 0 THEN "asking" ELSE "key",
                                  ![c].key = 0, ![c].tries = 1, ![c].since = refusals]
    /\ UNCHANGED serverKeys

\* Still refused, or any other status: the message names it.
Failed(c) ==
    /\ \/ apiCall[c].at = "401" /\ apiCall[c].tries = 1 /\ apiCall' = Tell(c, "refused")
       \/ apiCall[c].at = "other" /\ apiCall' = Tell(c, "failed")
    /\ UNCHANGED <<cached, stored, serverKeys>>

\* The body is read as JSON whatever the function does with it.
BodyRead(c) ==
    /\ apiCall[c].at = "ok"
    /\ apiCall' = Tell(c, IF BodyOf(apiCall[c].what) = "json" THEN "ok" ELSE "unreadable")
    /\ UNCHANGED <<cached, stored, serverKeys>>

\* A fetch that finds no server, or loses it: also after the deed.
FetchFails(c) ==
    /\ apiCall[c].at \in {"asking", "issued", "fetch", "401", "ok", "other"}
    /\ apiCall' = Tell(c, "no answer")
    /\ UNCHANGED <<cached, stored, serverKeys>>

Read(c) ==
    /\ apiCall[c].at = "told" /\ apiCall' = [apiCall EXCEPT ![c] = Free]
    /\ UNCHANGED <<cached, stored, serverKeys>>
-----------------------------------------------------------------------------
(* Around them *)

KeysDie ==
    /\ refusals < MaxRefusals /\ refusals' = refusals + 1 /\ live' = {}
    /\ UNCHANGED <<cached, stored, issued, apiCall>>

\* The user reloads a page: its memory and its calls are gone.
Reload(p) ==
    /\ cached' = [cached EXCEPT ![p] = 0]
    /\ apiCall' = [c \in Calls |-> IF PageOf[c] = p THEN Free ELSE apiCall[c]]
    /\ UNCHANGED <<stored, serverKeys>>
-----------------------------------------------------------------------------
ClientInit ==
    /\ cached = [p \in Pages |-> 0] /\ stored = 0
    /\ issued = 0 /\ live = {} /\ refusals = 0
    /\ apiCall = [c \in Calls |-> Free]

Calling(c) ==
    \/ Begin(c) \/ KeyAtHand(c) \/ AskForKey(c) \/ KeepKey(c)
    \/ Refused(c) \/ Failed(c) \/ BodyRead(c) \/ Read(c)

ClientNext ==
    \/ \E c \in Calls : Calling(c) \/ IssueOwnKey(c) \/ ServerActs(c) \/ FetchFails(c)
    \/ KeysDie \/ \E p \in Pages : Reload(p)

ClientSpec == ClientInit /\ [][ClientNext]_clientVars
-----------------------------------------------------------------------------
ClientTypeOK ==
    /\ issued \in 0 .. MaxKeys /\ live \subseteq 1 .. issued /\ refusals \in 0 .. MaxRefusals
    /\ cached \in [Pages -> 0 .. issued] /\ stored \in 0 .. issued
    /\ \A c \in Calls :
          /\ apiCall[c].at \in {"free", "key", "asking", "issued", "fetch", "ok", "other",
                                "401", "told"}
          /\ apiCall[c].key \in 0 .. issued /\ apiCall[c].since \in 0 .. refusals

\* "Transparently self-issue a new one and retry once, rather than surfacing a
\* confusing 401": a user is told of a refused key only when the server dropped
\* its keys again after the call had already noticed it once, whatever other
\* calls and other tabs put into the memory and the storage between.
RetryHasFreshKey ==
    \A c \in Calls : apiCall[c].at = "401" /\ apiCall[c].tries = 1 => apiCall[c].since < refusals

\* A page that is told something went wrong is told so because it did, or because
\* no answer came: an answer that came in full and reports success is reported so.
SuccessIsTold == \A c \in Calls : apiCall[c].told = "unreadable" => ~apiCall[c].deed
=============================================================================

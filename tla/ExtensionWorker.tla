--------------------------- MODULE ExtensionWorker ---------------------------
(***************************************************************************)
(* The background of the browser extension: the service worker             *)
(* (extension/background/service-worker.js) with its storage and API       *)
(* helpers (extension/lib), and the popup that sends it messages           *)
(* (extension/popup/popup.js).                                             *)
(*                                                                         *)
(* Every handler is a task cut at its requests to the server, at the       *)
(* permission it waits for and between unregistering and registering the   *)
(* scripts; Tasks bounds how many overlap.  Other calls of chrome.* take   *)
(* effect before anything else happens.  The browser may stop the worker   *)
(* at any of these cuts: its memory is gone, chrome.storage and the        *)
(* registered scripts stay.  Closing the popup ends its own code, not the  *)
(* handlers it has started.                                                *)
(*                                                                         *)
(* A controller stands for its URL and its origin.  What the server shows  *)
(* (traffic, versions, threat data) is left out, and so are the badge, the *)
(* theme, the toggles, pendingOrigin (only DEBUG shows it) and messages no *)
(* one sends.  The server never answers 403 here.  chrome.* calls fail     *)
(* only where the outcome depends on it: registering an id twice.          *)
(***************************************************************************)
EXTENDS Naturals

CONSTANTS
    Controllers,   \* UniFi controllers
    Tokens,        \* API tokens a user may enter
    Tasks,         \* bound: handlers of the worker that overlap
    MaxEvents      \* bound: browser events, messages of content scripts, clicks

None == "none"
Default == "default"            \* DEFAULT_BASE_URL, http://localhost:8090
Servers == {Default, "https"}   \* "https": an address the user enters

ASSUME ExtensionAssumption ==
    /\ None \notin Controllers \cup Tokens
    /\ MaxEvents \in Nat

VARIABLES
    server,    \* whether it wants tokens, and the ones it accepts
    sync,      \* chrome.storage.sync
    local,     \* chrome.storage.local
    memory,    \* module variables of the worker and of api-client.js
    access,    \* host permissions the user has granted
    scripts,   \* the controller 'uli-controller' is registered for
    task,      \* the handlers that are running
    inbox,     \* events and messages the worker has not taken up
    popup,
    kept,      \* a registration was let through, and neither a reset nor a stop undid it
    unproven,  \* history: tokens that count as validated without a test of their own
    events     \* how much of MaxEvents is used

workerVars == <<server, sync, local, memory, access, scripts, task,
                inbox, popup, kept, unproven, events>>

Optional(S) == S \cup {None}

Server == [auth : BOOLEAN, accepts : SUBSET Tokens]
Settings == [url : Optional(Servers), controller : Optional(Controllers), configured : BOOLEAN]
Secrets == [token : Optional(Tokens), validated : BOOLEAN]
Memory == [base : Optional(Servers), token : Optional(Tokens), discovering : BOOLEAN]

Ops == {"discover", "lookup", "traffic", "connect", "granted", "added",
        "saveToken", "clearToken", "disconnect"}
Message == [op : Ops, url : Optional(Servers), token : Optional(Tokens),
            controller : Optional(Controllers), popup : BOOLEAN]

Points == {"idle", "stored", "default", "health", "unifi", "permission", "register",
           "answer", "validate"}
Task == [at : Points, msg : Message]

Popup == [view : {"closed", "loading", "setup", "gate", "connected"},
          waits : BOOLEAN,                                 \* for the answer to a click
          traffic : {"none", "asked", "ok", "refused", "failed", "edit"},
          hasToken : BOOLEAN, validated : BOOLEAN,         \* GET_API_TOKEN
          tested : Optional(Tokens),                       \* history: what "ok" was said to
          controller : Optional(Controllers),              \* the one it shows
          asks : Optional(Controllers)]                    \* the permission dialog

Msg(op) == [op |-> op, url |-> None, token |-> None, controller |-> None, popup |-> FALSE]
Idle == [at |-> "idle", msg |-> Msg("lookup")]
Closed == [view |-> "closed", waits |-> FALSE, traffic |-> "none", hasToken |-> FALSE,
           validated |-> FALSE, tested |-> None, controller |-> None, asks |-> None]

\* A fresh installation, or the start of a browser that knows its server and perhaps
\* a controller and a token; onInstalled or onStartup fires.
Fresh ==
    /\ sync = [url |-> None, controller |-> None, configured |-> FALSE]
    /\ local = [token |-> None, validated |-> TRUE]
    /\ access = {} /\ scripts = None

Known ==
    /\ sync \in [url : {"https"}, controller : Optional(Controllers), configured : {TRUE}]
    /\ local \in [token : Optional(server.accepts), validated : {TRUE}]
    /\ access \in {{}, {sync.controller} \ {None}}
    /\ scripts = IF access = {} THEN None ELSE sync.controller

WorkerInit ==
    /\ server \in Server /\ (~server.auth => server.accepts = Tokens)
    /\ Fresh \/ Known
    /\ memory = [base |-> None, token |-> None, discovering |-> FALSE]
    /\ task = [t \in Tasks |-> Idle]
    /\ inbox = {Msg("discover")}
    /\ popup = Closed
    /\ kept = FALSE /\ unproven = {} /\ events = 0

At(t, point) == task[t].at = point
Msgs(ops) == {m \in inbox : m.op \in ops}
Event == events < MaxEvents /\ events' = events + 1

\* Does the server answer 401 to a request with this token?
Refuses(token) == server.auth /\ token \notin server.accepts

\* The 401 handler: the stored token counts as invalid.
Marked == [local EXCEPT !.validated = FALSE]
Forgotten == [token |-> None, validated |-> TRUE]

\* A message first restores what the worker has forgotten.
Restored == [memory EXCEPT !.base = IF @ = None THEN sync.url ELSE @,
                           !.token = IF @ = None THEN local.token ELSE @]

\* What the popup, while it is open, makes of the answer to a message of its own.
Answered(m, ok) ==
    IF ~m.popup THEN popup
    ELSE IF m.op = "disconnect" THEN [popup EXCEPT !.view = "setup"]
    ELSE IF \/ m.op = "connect" /\ ok
            \/ m.op = "granted" /\ popup.traffic = "edit"
            \/ m.op = "saveToken" /\ ok /\ popup.view = "gate"
         THEN [popup EXCEPT !.view = "loading", !.traffic = "none", !.waits = FALSE]
    ELSE [popup EXCEPT !.waits = FALSE]

\* A handler takes up a message that needs a request, goes on, or returns; the
\* finally block of discover lets the next one in.
Takes(m) == inbox' = inbox \ {m}
Begins(t, m, point) ==
    /\ At(t, "idle")
    /\ task' = [task EXCEPT ![t] = [at |-> point, msg |-> m]]

Continues(t, point, m) ==
    task' = [task EXCEPT ![t] = [at |-> point, msg |-> m]] /\ UNCHANGED popup

\* Mutant: without the finally block of discover.
ReturnsStillDiscovering(t, after, ok) ==
    /\ task' = [task EXCEPT ![t] = Idle]
    /\ memory' = after
    /\ popup' = Answered(task[t].msg, ok)

Returns(t, after, ok) ==
    /\ task' = [task EXCEPT ![t] = Idle]
    /\ memory' = [after EXCEPT !.discovering = @ /\ task[t].msg.op # "discover"]
    /\ popup' = Answered(task[t].msg, ok)

\* A request carries the address and the token of the moment it leaves.
Sending(m, after) == [m EXCEPT !.url = after.base, !.token = after.token]

------------------------------------------------------------------------------
\* Finding the server, and the controller behind it.

\* One discover at a time.  The settings are read here and used to its end.
BeginDiscover(t) ==
    \E m \in Msgs({"discover"}) :
        /\ Takes(m)
        /\ IF memory.discovering THEN UNCHANGED <<task, memory>>
           ELSE /\ Begins(t, [m EXCEPT !.url = sync.url, !.controller = sync.controller],
                          IF sync.url = None THEN "default" ELSE "stored")
                /\ memory' = [memory EXCEPT !.discovering = TRUE,
                                  !.token = IF local.token # None THEN local.token ELSE @]
        /\ UNCHANGED <<server, sync, local, access, scripts, popup, kept, unproven, events>>

\* Mutant: the controller is stored where the address belongs.
OnConnectedSwapped(t, url, controller) ==
    LET m == [task[t].msg EXCEPT !.url = None, !.controller = controller]
        after == [memory EXCEPT !.base = url]
    IN /\ memory' = after
       /\ sync' = [sync EXCEPT !.url = controller, !.configured = TRUE]
       /\ IF controller = None THEN Continues(t, "unifi", Sending(m, after))
          ELSE Continues(t, "permission", m)

\* onConnected: registers for the controller of the settings it was given, or asks
\* the server for one.
OnConnected(t, url, controller) ==
    LET m == [task[t].msg EXCEPT !.url = None, !.controller = controller]
        after == [memory EXCEPT !.base = url]
    IN /\ memory' = after
       /\ sync' = [sync EXCEPT !.url = url, !.configured = TRUE]
       /\ IF controller = None THEN Continues(t, "unifi", Sending(m, after))
          ELSE Continues(t, "permission", m)

DiscoverStored(t) ==
    /\ At(t, "stored")
    /\ \/ OnConnected(t, task[t].msg.url, task[t].msg.controller)
       \/ Continues(t, "default", [task[t].msg EXCEPT !.url = None]) /\ UNCHANGED <<memory, sync>>
    /\ UNCHANGED <<server, local, access, scripts, inbox, kept, unproven, events>>

\* Then localhost, unless nothing answers there or it wants a token.
DiscoverDefault(t) ==
    /\ At(t, "default")
    /\ \/ ~server.auth /\ OnConnected(t, Default, task[t].msg.controller)
       \/ Returns(t, memory, TRUE) /\ UNCHANGED sync
    /\ UNCHANGED <<server, local, access, scripts, inbox, kept, unproven, events>>

BeginConnect(t) ==
    \E m \in Msgs({"connect"}) :
        /\ Takes(m)
        /\ Begins(t, m, "health")
        /\ memory' = Restored
        /\ UNCHANGED <<server, sync, local, access, scripts, popup, kept, unproven, events>>

\* SET_BASE_URL: the address is stored once its health check succeeds.
SetBaseUrl(t) ==
    /\ At(t, "health")
    /\ \/ OnConnected(t, task[t].msg.url, sync.controller)
       \/ Returns(t, memory, FALSE) /\ UNCHANGED sync
    /\ UNCHANGED <<server, local, access, scripts, inbox, kept, unproven, events>>

\* fetchUniFiSettings names a host, is refused, or gives nothing.
FetchUniFiSettings(t) ==
    LET m == task[t].msg IN
    /\ At(t, "unifi")
    /\ \/ /\ m.url # None /\ ~Refuses(m.token)
          /\ \E c \in Controllers :
                /\ sync' = [sync EXCEPT !.controller = c]
                /\ Continues(t, "permission", [m EXCEPT !.url = None, !.token = None, !.controller = c])
          /\ UNCHANGED <<local, memory>>
       \/ /\ local' = IF m.url # None /\ Refuses(m.token) THEN Marked ELSE local
          /\ Returns(t, memory, TRUE)
          /\ UNCHANGED sync
       \/ Returns(t, memory, TRUE) /\ UNCHANGED <<sync, local>>
    /\ UNCHANGED <<server, access, scripts, inbox, kept, unproven, events>>

------------------------------------------------------------------------------
\* Registering the content scripts.

\* PERMISSION_GRANTED names the controller; permissions.onAdded registers only for
\* the one that is stored now.
BeginRegistration(t) ==
    \E m \in Msgs({"granted", "added"}) :
        /\ Takes(m)
        /\ IF m.op = "granted" \/ sync.controller = m.controller
           THEN Begins(t, m, "permission") ELSE UNCHANGED task
        /\ memory' = IF m.op = "granted" THEN Restored ELSE memory
        /\ UNCHANGED <<server, sync, local, access, scripts, popup, kept, unproven, events>>

\* The permission is looked for five times; with it, what is registered goes first.
Unregister(t) ==
    /\ At(t, "permission")
    /\ IF task[t].msg.controller \in access
       THEN /\ scripts' = None /\ kept' = TRUE
            /\ Continues(t, "register", task[t].msg)
            /\ UNCHANGED memory
       ELSE Returns(t, memory, TRUE) /\ UNCHANGED <<scripts, kept>>
    /\ UNCHANGED <<server, sync, local, access, inbox, unproven, events>>

\* Mutant: what is registered by then is taken away in favour of nothing.
RegisterOrRemove(t) ==
    /\ At(t, "register")
    /\ scripts' = IF scripts = None THEN task[t].msg.controller ELSE None
    /\ Returns(t, memory, TRUE)
    /\ UNCHANGED <<server, sync, local, access, inbox, kept, unproven, events>>

\* An id that is registered already is an error, and the handler gives up.
Register(t) ==
    /\ At(t, "register")
    /\ scripts' = IF scripts = None THEN task[t].msg.controller ELSE scripts
    /\ Returns(t, memory, TRUE)
    /\ UNCHANGED <<server, sync, local, access, inbox, kept, unproven, events>>

------------------------------------------------------------------------------
\* Requests with a token, and the token itself.

\* TRAFFIC_STATS of the popup, BATCH_THREAT_LOOKUP of the content scripts.
BeginRequest(t) ==
    \E m \in Msgs({"lookup", "traffic"}) :
        /\ Takes(m)
        /\ memory' = Restored
        /\ Begins(t, Sending(m, Restored), "answer")
        /\ UNCHANGED <<server, sync, local, access, scripts, popup, kept, unproven, events>>

RequestAnswered(t) ==
    LET m == task[t].msg
        Gives(result) == popup' = IF m.popup THEN [popup EXCEPT !.traffic = result, !.tested = m.token]
                                  ELSE popup
    IN /\ At(t, "answer")
       /\ task' = [task EXCEPT ![t] = Idle]
       /\ \/ Gives("failed") /\ UNCHANGED local
          \/ m.url # None /\ Refuses(m.token) /\ Gives("refused") /\ local' = Marked
          \/ m.url # None /\ ~Refuses(m.token) /\ Gives("ok") /\ UNCHANGED local
       /\ UNCHANGED <<server, sync, memory, access, scripts, inbox, kept, unproven, events>>

\* SET_API_TOKEN: without a server the token is stored as it is; otherwise it is put
\* to the test, and the other handlers use it from now on.
BeginSaveToken(t) ==
    \E m \in Msgs({"saveToken"}) :
        /\ Takes(m)
        /\ memory' = [Restored EXCEPT !.token = m.token]
        /\ IF Restored.base = None
           THEN /\ local' = [token |-> m.token, validated |-> TRUE]
                /\ unproven' = unproven \cup {m.token}
                /\ popup' = Answered(m, TRUE)
                /\ UNCHANGED task
           ELSE Begins(t, m, "validate") /\ UNCHANGED <<local, popup, unproven>>
        /\ UNCHANGED <<server, sync, access, scripts, kept, events>>

\* It is stored; without a controller, the server is asked for one.
TokenAccepted(t) ==
    /\ At(t, "validate") /\ ~Refuses(task[t].msg.token)
    /\ local' = [token |-> task[t].msg.token, validated |-> TRUE]
    /\ IF sync.controller = None
       THEN Continues(t, "unifi", Sending(task[t].msg, memory)) /\ UNCHANGED memory
       ELSE Returns(t, memory, TRUE)
    /\ UNCHANGED <<server, sync, access, scripts, inbox, kept, unproven, events>>

\* The token stored before stays, and is the one the 401 handler marks.
TokenRejected(t) ==
    /\ At(t, "validate") /\ Refuses(task[t].msg.token)
    /\ local' = Marked
    /\ Returns(t, [memory EXCEPT !.token = None], FALSE)
    /\ UNCHANGED <<server, sync, access, scripts, inbox, kept, unproven, events>>

\* Mutant: no answer counts as an approval.
TokenUntestedApproved(t) ==
    /\ At(t, "validate")
    /\ local' = [token |-> task[t].msg.token, validated |-> TRUE]
    /\ Returns(t, memory, TRUE)
    /\ UNCHANGED <<server, sync, access, scripts, inbox, kept, unproven, events>>

\* No answer: the token is stored as not validated.
TokenUntested(t) ==
    /\ At(t, "validate")
    /\ local' = [token |-> task[t].msg.token, validated |-> FALSE]
    /\ Returns(t, memory, TRUE)
    /\ UNCHANGED <<server, sync, access, scripts, inbox, kept, unproven, events>>

ClearApiToken ==
    \E m \in Msgs({"clearToken"}) :
        /\ memory' = [Restored EXCEPT !.token = None]
        /\ local' = Forgotten
        /\ Takes(m)
        /\ popup' = Answered(m, TRUE)
        /\ UNCHANGED <<server, sync, access, scripts, task, kept, unproven, events>>

Disconnect ==
    \E m \in Msgs({"disconnect"}) :
        /\ memory' = [memory EXCEPT !.base = None, !.token = None]
        /\ local' = Forgotten
        /\ scripts' = None /\ kept' = FALSE
        /\ Takes(m)
        /\ popup' = Answered(m, TRUE)
        /\ UNCHANGED <<server, sync, access, task, unproven, events>>

------------------------------------------------------------------------------
\* The popup.

Send(m) == inbox' = inbox \cup {m}
FromPopup(op) == [Msg(op) EXCEPT !.popup = TRUE]

\* init: GET_CONFIG, and for a configured extension the requests of showConnected.
InitPopup ==
    /\ popup.view = "loading" /\ popup.traffic = "none"
    /\ IF sync.url = None \/ ~sync.configured
       THEN popup' = [popup EXCEPT !.view = "setup"] /\ UNCHANGED <<inbox, memory>>
       ELSE /\ memory' = Restored
            /\ popup' = [popup EXCEPT !.traffic = "asked",
                            !.hasToken = Restored.token # None, !.validated = local.validated, !.controller = sync.controller]
            /\ Send(FromPopup("traffic"))
    /\ UNCHANGED <<server, sync, local, access, scripts, task, kept, unproven, events>>

\* showConnected: the gate if the server answers but refuses, otherwise the overview,
\* which also upgrades a token that was not validated before: the one stored now, be it
\* the one the requests were made with or not.
ShowConnected ==
    /\ popup.view = "loading" /\ popup.traffic \in {"ok", "refused", "failed"}
    /\ \E reachable \in BOOLEAN :
          LET gate == /\ reachable /\ popup.traffic = "refused"
                      /\ ~popup.hasToken \/ ~popup.validated
              upgrade == ~gate /\ popup.hasToken /\ ~popup.validated /\ popup.traffic = "ok"
          IN /\ popup' = [popup EXCEPT !.view = IF gate THEN "gate" ELSE "connected",
                              !.traffic = "none", !.hasToken = FALSE, !.validated = FALSE,
                              !.tested = None]
             /\ local' = [local EXCEPT !.validated = @ \/ upgrade]
             /\ unproven' = IF upgrade THEN unproven \cup ({local.token} \ {popup.tested, None})
                            ELSE unproven
    /\ UNCHANGED <<server, sync, memory, access, scripts, task, inbox, kept, events>>

OpenPopup ==
    /\ Event
    /\ popup.view = "closed" /\ popup.asks = None
    /\ popup' = [Closed EXCEPT !.view = "loading"]
    /\ UNCHANGED <<server, sync, local, memory, access, scripts, task, inbox, kept, unproven>>

\* The handlers go on, and answer no one; so does the permission dialog.
ClosePopup ==
    /\ Event
    /\ popup.view # "closed"
    /\ popup' = [Closed EXCEPT !.asks = popup.asks]
    /\ inbox' = {[m EXCEPT !.popup = FALSE] : m \in inbox}
    /\ task' = [t \in Tasks |-> [task[t] EXCEPT !.msg.popup = FALSE]]
    /\ UNCHANGED <<server, sync, local, memory, access, scripts, kept, unproven>>

Connect ==
    /\ Event
    /\ popup.view = "setup" /\ ~popup.waits
    /\ popup' = [popup EXCEPT !.waits = TRUE]
    /\ \E u \in Servers : Send([FromPopup("connect") EXCEPT !.url = u])
    /\ UNCHANGED <<server, sync, local, memory, access, scripts, task, kept, unproven>>

\* The gate takes a token over https only; the overview, if the server wants tokens.
TokenField ==
    \/ popup.view = "gate" /\ sync.url # Default
    \/ popup.view = "connected" /\ (server.auth \/ sync.url # Default)

SaveToken ==
    /\ Event
    /\ TokenField /\ ~popup.waits
    /\ popup' = [popup EXCEPT !.waits = TRUE]
    /\ \E token \in Tokens : Send([FromPopup("saveToken") EXCEPT !.token = token])
    /\ UNCHANGED <<server, sync, local, memory, access, scripts, task, kept, unproven>>

ClearToken ==
    /\ Event
    /\ TokenField /\ popup.view = "connected"
    /\ Send(FromPopup("clearToken"))
    /\ UNCHANGED <<server, sync, local, memory, access, scripts, task, popup, kept, unproven>>

\* The address is stored before the dialog, which may close the popup.
SaveController ==
    /\ Event
    /\ popup.view = "connected" /\ ~popup.waits /\ popup.asks = None
    /\ \E c \in Controllers :
          /\ sync' = [sync EXCEPT !.controller = c]
          /\ popup' = [popup EXCEPT !.waits = TRUE, !.asks = c, !.traffic = "edit"]
    /\ UNCHANGED <<server, local, memory, access, scripts, task, inbox, kept, unproven>>

GrantAccess ==
    /\ Event
    /\ popup.view = "connected" /\ ~popup.waits /\ popup.asks = None
    /\ popup.controller # None /\ popup.controller \notin access
    /\ popup' = [popup EXCEPT !.waits = TRUE, !.asks = popup.controller]
    /\ UNCHANGED <<server, sync, local, memory, access, scripts, task, inbox, kept, unproven>>

\* The browser tells the worker of a new permission, and so does an open popup.
PermissionGranted ==
    LET c == popup.asks
        told == IF c \in access THEN {} ELSE {[Msg("added") EXCEPT !.controller = c]}
        asked == IF popup.view = "closed" THEN {}
                 ELSE {[FromPopup("granted") EXCEPT !.controller = c]}
    IN /\ c # None
       /\ access' = access \cup {c}
       /\ inbox' = inbox \cup told \cup asked
       /\ popup' = [popup EXCEPT !.asks = None]
       /\ UNCHANGED <<server, sync, local, memory, scripts, task, kept, unproven, events>>

PermissionDenied ==
    /\ popup.asks # None
    /\ popup' = IF popup.traffic = "edit"
                THEN [popup EXCEPT !.asks = None, !.waits = FALSE, !.view = "loading", !.traffic = "none"]
                ELSE [popup EXCEPT !.asks = None, !.waits = FALSE]
    /\ UNCHANGED <<server, sync, local, memory, access, scripts, task, inbox, kept, unproven, events>>

\* performDisconnect: permissions and settings go first, then the worker is told.
Reset ==
    /\ Event
    /\ popup.view \in {"gate", "connected"}
    /\ access' = {}
    /\ sync' = [url |-> None, controller |-> None, configured |-> FALSE]
    /\ Send(FromPopup("disconnect"))
    /\ UNCHANGED <<server, local, memory, scripts, task, popup, kept, unproven>>

------------------------------------------------------------------------------
\* The browser.

Startup ==
    /\ Event
    /\ Send(Msg("discover"))
    /\ UNCHANGED <<server, sync, local, memory, access, scripts, task, popup, kept, unproven>>

ContentLookup ==
    /\ Event
    /\ scripts # None
    /\ Send(Msg("lookup"))
    /\ UNCHANGED <<server, sync, local, memory, access, scripts, task, popup, kept, unproven>>

\* Mutant: the popup does not see that its message failed.
StopWorkerUnseen ==
    /\ Event
    /\ memory' = [base |-> None, token |-> None, discovering |-> FALSE]
    /\ task' = [t \in Tasks |-> Idle]
    /\ kept' = (kept /\ \A t \in Tasks : ~At(t, "register"))
    /\ UNCHANGED <<server, sync, local, access, scripts, inbox, popup, unproven>>

\* The browser stops the worker; the popup's messages fail.
StopWorker ==
    /\ Event
    /\ memory' = [base |-> None, token |-> None, discovering |-> FALSE]
    /\ task' = [t \in Tasks |-> Idle]
    /\ kept' = (kept /\ \A t \in Tasks : ~At(t, "register"))
    /\ popup' = IF \E t \in Tasks : task[t].msg.popup
                THEN [popup EXCEPT !.waits = FALSE,
                         !.traffic = IF @ = "asked" THEN "failed" ELSE @]
                ELSE popup
    /\ UNCHANGED <<server, sync, local, access, scripts, inbox, unproven>>

Handler(t) ==
    \/ BeginDiscover(t) \/ DiscoverStored(t) \/ DiscoverDefault(t)
    \/ BeginConnect(t) \/ SetBaseUrl(t) \/ FetchUniFiSettings(t)
    \/ BeginRegistration(t) \/ Unregister(t) \/ Register(t)
    \/ BeginRequest(t) \/ RequestAnswered(t)
    \/ BeginSaveToken(t) \/ TokenAccepted(t) \/ TokenRejected(t) \/ TokenUntested(t)

PopupStep == InitPopup \/ ShowConnected
WorkerProgress == PopupStep \/ \E t \in Tasks : Handler(t)

UserStep ==
    \/ OpenPopup \/ ClosePopup \/ Connect \/ SaveToken \/ ClearToken
    \/ SaveController \/ GrantAccess \/ PermissionGranted \/ PermissionDenied \/ Reset

WorkerNext ==
    \/ WorkerProgress
    \/ ClearApiToken \/ Disconnect
    \/ UserStep
    \/ Startup \/ ContentLookup \/ StopWorker

------------------------------------------------------------------------------
WorkerTypeOK ==
    /\ server \in Server /\ sync \in Settings /\ local \in Secrets /\ memory \in Memory
    /\ access \in SUBSET Controllers /\ scripts \in Optional(Controllers)
    /\ task \in [Tasks -> Task] /\ inbox \in SUBSET Message /\ popup \in Popup
    /\ kept \in BOOLEAN /\ unproven \in SUBSET Tokens /\ events \in 0..MaxEvents

\* A token is stored as validated only if the server does not refuse it, whatever crosses
\* it: requests of an older token, failing tests, stops of the worker.  The exceptions are
\* a token that was saved before any server was known (SET_API_TOKEN) and one that the
\* popup upgraded when the answer had been to another (popup.js showConnected).
ValidatedMeansAccepted ==
    local.validated /\ local.token # None => ~Refuses(local.token) \/ local.token \in unproven

\* Two registrations may overlap (permissions.onAdded and the popup's message come
\* at once): whatever their order, once one was let through the scripts are
\* registered as soon as none is between its two calls of the browser.
ScriptsSurviveOverlap ==
    kept /\ (\A t \in Tasks : ~At(t, "register")) => scripts # None

\* A discovery ends on every path, so that the flag lets the next one in.
DiscoveryEnds == memory.discovering ~> ~memory.discovering

\* The popup leaves its blank state whatever fails: the server, the worker or a token.
PopupShows == popup.view = "loading" ~> popup.view # "loading"
==============================================================================

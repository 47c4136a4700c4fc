---------------------------- MODULE ControllerTab ----------------------------
(***************************************************************************)
(* The "Insights Plus" tab that the extension puts into a page of the      *)
(* UniFi controller (extension/content/tab-injector.js, the configuration  *)
(* of shared-utils.js, the injection of controller-detector.js and of      *)
(* service-worker.js).                                                     *)
(*                                                                         *)
(* The page lives long: it is a single-page application that renders and   *)
(* re-renders its header, and the browser may put it into its back/forward *)
(* cache and bring it back, with the DOM and every closure as they were.   *)
(* Each run of bootstrap() has variables of its own: a "boot".  A boot     *)
(* that has been torn down keeps the handlers of the elements it created.  *)
(*                                                                         *)
(* Of the tab it matters which boot made it; of an overlay, whether it is  *)
(* shown; of a URL, whether it differs.  Styling, icons and the theme are  *)
(* left out.                                                               *)
(***************************************************************************)
EXTENDS Naturals, FiniteSets

CONSTANTS
    IPs,         \* addresses a badge of the page may lead to
    Boots,       \* bound: runs of bootstrap that get past its guard, 1..n
    MaxActs      \* bound: clicks, route changes, renderings, restores

NoIP == "none"
NoBoot == 0
Routes == {1, 2}

ASSUME ControllerTabAssumption ==
    /\ NoIP \notin IPs
    /\ Boots = 1..Cardinality(Boots)
    /\ MaxActs \in Nat

VARIABLES
    page,      \* "shown", or "cached" by the browser
    header,    \* the portal header is rendered (it is not on the login page)
    config,    \* window.__uliConfig: what ensureConfig has cached
    started,   \* window.__uliTabInjectorStarted
    boot,      \* the runs of bootstrap
    tab,       \* the boot whose tab is in the header
    route,     \* location.href
    strayed,   \* history: the router has moved on under an embed, and no hook has seen it
    asked,     \* the address of the last badge that was clicked
    acts       \* how much of MaxActs is used

tabVars == <<page, header, config, started, boot, tab, route, strayed, asked, acts>>

\* "configuring": in ensureConfig; "waiting": for the header; "live": set up;
\* "torn": torn down; "over": returned early.
Phases == {"unused", "configuring", "waiting", "live", "torn", "over"}
Boot == [phase : Phases, active : BOOLEAN,
         overlay : {"none", "hidden", "shown"}, loaded : BOOLEAN,
         pending : IPs \cup {NoIP}, delivered : IPs \cup {NoIP}, lastUrl : Routes,
         opened : Routes]   \* history: the route its embed was opened over

Unused == [phase |-> "unused", active |-> FALSE, overlay |-> "none", loaded |-> FALSE,
           pending |-> NoIP, delivered |-> NoIP, lastUrl |-> 1, opened |-> 1]

\* No settings yet; with them, the tab is wanted or it is not (the toggle is off, or
\* no server is known).
Configs == {"none", "wanted", "unwanted"}

TabInit ==
    /\ page = "shown" /\ header \in BOOLEAN
    /\ config = "none" /\ started = FALSE
    /\ boot = [b \in Boots |-> Unused]
    /\ tab = NoBoot /\ route = 1 /\ strayed = FALSE /\ asked = NoIP /\ acts = 0

Act == page = "shown" /\ acts < MaxActs /\ acts' = acts + 1
Phase(b, p) == boot[b].phase = p
Live == {b \in Boots : Phase(b, "live")}
With(b, new) == boot' = [boot EXCEPT ![b] = new]

------------------------------------------------------------------------------
\* Starting.

\* Mutant: without the flag.
BootstrapAgain ==
    \E b \in Boots :
        /\ Phase(b, "unused") /\ \A a \in 1..(b - 1) : ~Phase(a, "unused")
        /\ started' = TRUE
        /\ With(b, [Unused EXCEPT !.phase = "configuring"])

\* bootstrap(): the flag keeps a second run out.
Bootstrap ==
    IF started THEN UNCHANGED <<started, boot>>
    ELSE \E b \in Boots :
            /\ Phase(b, "unused") /\ \A a \in 1..(b - 1) : ~Phase(a, "unused")
            /\ started' = TRUE
            /\ With(b, [Unused EXCEPT !.phase = "configuring"])

\* The registered script at page load, executeScript into an open tab, or both.
Inject ==
    /\ Act
    /\ Bootstrap
    /\ UNCHANGED <<page, header, config, tab, route, strayed, asked>>

\* ensureConfig: the worker's answer is cached; a failure lets a later run try again.
\* A run that goes on takes the URL of now for the one it has seen last.
EnsureConfig(b) ==
    /\ page = "shown" /\ Phase(b, "configuring")
    /\ \/ /\ config = "none"
          /\ started' = FALSE
          /\ With(b, [boot[b] EXCEPT !.phase = "over"])
          /\ UNCHANGED config
       \/ \E c \in (IF config = "none" THEN Configs \ {"none"} ELSE {config}) :
             /\ config' = c
             /\ With(b, IF c = "wanted"
                        THEN [boot[b] EXCEPT !.phase = "waiting", !.lastUrl = route]
                        ELSE [boot[b] EXCEPT !.phase = "over"])
             /\ UNCHANGED started
    /\ UNCHANGED <<page, header, tab, route, strayed, asked, acts>>

\* The tab container is there: the tab goes in unless the header has one, the
\* observers and the history hooks are set up.
SetUp(b) ==
    /\ page = "shown" /\ Phase(b, "waiting") /\ header
    /\ tab' = IF tab = NoBoot THEN b ELSE tab
    /\ With(b, [boot[b] EXCEPT !.phase = "live"])
    /\ UNCHANGED <<page, header, config, started, route, strayed, asked, acts>>

\* The header observer puts the tab back after a rendering.
Reinject(b) ==
    /\ page = "shown" /\ b \in Live /\ header /\ tab = NoBoot
    /\ tab' = b
    /\ UNCHANGED <<page, header, config, started, boot, route, strayed, asked, acts>>

------------------------------------------------------------------------------
\* The embedded application.

\* A removed overlay is made anew, with an iframe that loads again.
Activated(r) ==
    [r EXCEPT !.active = TRUE, !.overlay = "shown", !.lastUrl = route, !.opened = route,
              !.loaded = @ /\ r.overlay # "none",
              !.delivered = IF r.overlay = "none" THEN NoIP ELSE @]

Deactivated(r) ==
    [r EXCEPT !.active = FALSE, !.overlay = IF @ = "shown" THEN "hidden" ELSE @]

\* The tab's own handler, and with it its variables, is that of the boot that made it.
ClickTab ==
    /\ Act
    /\ tab # NoBoot
    /\ With(tab, IF boot[tab].active THEN Deactivated(boot[tab]) ELSE Activated(boot[tab]))
    /\ strayed' = (strayed /\ (tab \in Live => boot[tab].active))
    /\ UNCHANGED <<page, header, config, started, tab, route, asked>>

\* Mutant: the address is noted and the embed stays.
RouteSeenOnly(r, url) == [r EXCEPT !.lastUrl = url]

\* onPossibleRouteChange, of every boot whose hooks are in place.
RouteSeen(r, url) ==
    IF r.active /\ url # r.lastUrl THEN [Deactivated(r) EXCEPT !.lastUrl = url]
    ELSE [r EXCEPT !.lastUrl = url]

Routed(url) == [b \in Boots |-> IF b \in Live THEN RouteSeen(boot[b], url) ELSE boot[b]]

\* popstate and hashchange reach the hooks.  pushState and replaceState of the page's
\* own router do not: the hooks replace the functions of the content script's world
\* only.  The application may replace the body's children and remove overlays that are
\* not in use.
RouteChange ==
    /\ Act
    /\ \E url \in Routes \ {route}, seen, removed \in BOOLEAN :
          LET after == IF seen THEN Routed(url) ELSE boot IN
          /\ route' = url
          /\ strayed' = (~seen /\ \E b \in Live : boot[b].active)
          /\ boot' = [b \in Boots |->
                IF removed /\ after[b].overlay = "hidden"
                THEN [after[b] EXCEPT !.overlay = "none"] ELSE after[b]]
    /\ UNCHANGED <<page, header, config, started, tab, asked>>

\* A click on a tab of UniFi reaches the listener of the boot that made our tab, and
\* then, if it leads elsewhere, the router.
ClickUniFiTab ==
    /\ Act
    /\ tab # NoBoot
    /\ With(tab, Deactivated(boot[tab]))
    /\ UNCHANGED <<page, header, config, started, tab, route, strayed, asked>>

Escape ==
    /\ Act
    /\ \E b \in Live : boot[b].active
    /\ boot' = [b \in Boots |-> IF b \in Live THEN Deactivated(boot[b]) ELSE boot[b]]
    /\ UNCHANGED <<page, header, config, started, tab, route, strayed, asked>>

\* Mutant: queued, also for an iframe that has loaded.
NavigatedQueued(r, ip) ==
    LET on == IF r.active THEN r ELSE Activated(r) IN [on EXCEPT !.pending = ip]

\* onUliNavigate: shown first; a loaded iframe gets the address at once, one that is
\* still loading finds it when it is done.
Navigated(r, ip) ==
    LET on == IF r.active THEN r ELSE Activated(r) IN
    IF on.loaded THEN [on EXCEPT !.delivered = ip] ELSE [on EXCEPT !.pending = ip]

ClickBadge ==
    /\ Act
    /\ config = "wanted" /\ Live # {}
    /\ \E ip \in IPs :
          /\ asked' = ip
          /\ boot' = [b \in Boots |-> IF b \in Live THEN Navigated(boot[b], ip) ELSE boot[b]]
    /\ strayed' = (strayed /\ \A b \in Live : boot[b].active)
    /\ UNCHANGED <<page, header, config, started, tab, route>>

\* Mutant: an iframe that something is queued for has no load handler.
IframeLoadUnless(b) ==
    /\ page = "shown" /\ boot[b].overlay # "none" /\ ~boot[b].loaded /\ boot[b].pending = NoIP
    /\ With(b, [boot[b] EXCEPT !.loaded = TRUE])
    /\ UNCHANGED <<page, header, config, started, tab, route, strayed, asked, acts>>

IframeLoad(b) ==
    /\ page = "shown" /\ boot[b].overlay # "none" /\ ~boot[b].loaded
    /\ With(b, [boot[b] EXCEPT !.loaded = TRUE, !.pending = NoIP,
                   !.delivered = IF boot[b].pending # NoIP THEN boot[b].pending ELSE @])
    /\ UNCHANGED <<page, header, config, started, tab, route, strayed, asked, acts>>

------------------------------------------------------------------------------
\* The page.

\* Login renders the header, logout takes it away with our tab.
RenderHeader ==
    /\ Act
    /\ header' \in BOOLEAN
    /\ tab' = NoBoot
    /\ UNCHANGED <<page, config, started, boot, route, strayed, asked>>

\* pagehide: a live boot is torn down, one that waits for the header returns; the
\* DOM and the variables stay.
PageHide ==
    /\ page = "shown"
    /\ page' = "cached"
    /\ started' = (started /\ Live = {})
    /\ boot' = [b \in Boots |->
          CASE Phase(b, "live") -> [boot[b] EXCEPT !.phase = "torn"]
            [] Phase(b, "waiting") -> [boot[b] EXCEPT !.phase = "over"]
            [] OTHER -> boot[b]]
    /\ UNCHANGED <<header, config, tab, route, strayed, asked, acts>>

\* pageshow from the cache: bootstrap runs again if the flag lets it.
PageShow ==
    /\ page = "cached" /\ acts < MaxActs /\ acts' = acts + 1
    /\ page' = "shown"
    /\ IF \E b \in Boots : ~Phase(b, "unused") THEN Bootstrap ELSE UNCHANGED <<started, boot>>
    /\ UNCHANGED <<header, config, tab, route, strayed, asked>>

TabProgress == \E b \in Boots : EnsureConfig(b) \/ SetUp(b) \/ Reinject(b) \/ IframeLoad(b)

TabNext ==
    \/ TabProgress
    \/ Inject \/ ClickTab \/ RouteChange \/ ClickUniFiTab \/ Escape \/ ClickBadge
    \/ RenderHeader \/ PageHide \/ PageShow

------------------------------------------------------------------------------
TabTypeOK ==
    /\ page \in {"shown", "cached"} /\ header \in BOOLEAN /\ config \in Configs
    /\ started \in BOOLEAN /\ boot \in [Boots -> Boot] /\ tab \in Boots \cup {NoBoot}
    /\ route \in Routes /\ strayed \in BOOLEAN /\ asked \in IPs \cup {NoIP} /\ acts \in 0..MaxActs

\* However often the scripts are injected and the page restored, one boot at most
\* listens to the page, and only while the flag says so.
OneBootListens ==
    LET running == {b \in Boots : boot[b].phase \in {"configuring", "waiting", "live"}}
    IN Cardinality(running) <= 1 /\ (running # {} => started)

\* A badge that was clicked is what the newest embed shows, as soon as it has loaded:
\* nothing is delivered out of order, and nothing stays queued behind a loaded iframe.
LastClickShown ==
    \A b \in Live :
        /\ boot[b].pending # NoIP => ~boot[b].loaded /\ boot[b].pending = asked
        /\ boot[b].pending = NoIP /\ boot[b].delivered # NoIP => boot[b].delivered = asked

\* An address that is queued is handed over (the newest, by LastClickShown), unless the
\* page is left, or takes the embed away while it loads.
ClickArrives ==
    (\E b \in Live : boot[b].pending # NoIP) ~>
        (page = "cached" \/ \A b \in Live : boot[b].pending = NoIP \/ boot[b].overlay = "none")

\* The safety net under an embed on show.  Through clicks, restores of the page, new
\* boots and event after event, an embed of a boot that listens lies over the route it
\* was opened over, and over another one only while nothing that reaches the hooks has
\* happened since the router moved on.  (A torn boot's embed has no safety net.)
EmbedOverItsRoute ==
    \A b \in Live : boot[b].overlay = "shown" /\ ~strayed => boot[b].opened = route
==============================================================================

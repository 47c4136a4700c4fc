---------------------------- MODULE ExtensionProofs ----------------------------
(***************************************************************************)
(* Proofs about the extension, for every number of controllers, tokens,    *)
(* handlers, boots and events: which boot of the tab listens to the page,  *)
(* over which route an embed stays on show, that overlapping               *)
(* registrations leave the scripts registered, what "validated" says of a  *)
(* token, that the cache of threat data keeps its limit and an answer from *)
(* it is complete, the types of the whole, and that whoever waits has an   *)
(* answer to come.  A step of another part leaves a part's variables       *)
(* alone, so that each invariant is proved of the steps of its own part.   *)
(***************************************************************************)
EXTENDS Extension, FiniteSetTheorems, SequenceTheorems, WellFoundedInduction, TLAPS

------------------------------------------------------------------------------
\* The tab.

Runs(r) == r.phase \in {"configuring", "waiting", "live"}

Early == {"unused", "configuring", "waiting"}

\* What each boot knows: it has an embed on show only while it takes itself for active,
\* which it is not before it is set up; the URL it has seen last is then the one the
\* embed was opened over, and, if it listens, the page's, unless the router has strayed.
Knows(r, url, away) ==
    /\ r \in Boot
    /\ r.overlay = "shown" => r.active
    /\ r.active => r.lastUrl = r.opened /\ r.phase \notin Early
    /\ r.phase = "live" /\ r.active /\ ~away => r.opened = url

TabInv ==
    /\ route \in Routes /\ strayed \in BOOLEAN
    /\ started \in BOOLEAN /\ tab \in Boots \cup {NoBoot}
    /\ boot \in [Boots -> Boot]
    /\ \A b \in Boots : Knows(boot[b], route, strayed)
    /\ tab # NoBoot => boot[tab].phase \notin Early
    /\ \A a, b \in Boots : Runs(boot[a]) /\ Runs(boot[b]) => a = b
    /\ \A b \in Boots : Runs(boot[b]) => started

\* The record of one boot changes.
LEMMA WithOne ==
    ASSUME TabInv, NEW b \in Boots, NEW new \in Boot, With(b, new)
    PROVE /\ boot' \in [Boots -> Boot] /\ boot'[b] = new
          /\ \A a \in Boots : a # b => boot'[a] = boot[a]
  BY DEF TabInv, With

\* A step that changes what one boot knows, but not whether it runs.
LEMMA KeepsRunning ==
    ASSUME TabInv, UNCHANGED <<route, started>>, tab' = tab,
           NEW b \in Boots, NEW new, strayed' \in BOOLEAN, Knows(new, route, strayed'),
           strayed' = strayed \/ boot[b].phase = "live",
           new.phase = boot[b].phase, With(b, new)
    PROVE TabInv'
  <1>0. new \in Boot
    BY DEF Knows
  <1>1. /\ boot' \in [Boots -> Boot] /\ boot'[b] = new
        /\ \A a \in Boots : a # b => boot'[a] = boot[a]
    BY <1>0, WithOne
  <1>2. \A a \in Boots : boot'[a].phase = boot[a].phase
    BY <1>1
  <1>3. ASSUME NEW a \in Boots PROVE Knows(boot'[a], route, strayed')
    <2>1. CASE a = b
      BY <1>1, <2>1
    <2>2. CASE a # b /\ strayed' = strayed
      BY <1>1, <2>2 DEF TabInv
    <2>3. CASE a # b /\ boot[b].phase = "live"
      <3>1. boot[a].phase # "live"
        BY <2>3 DEF TabInv, Runs
      <3>2. Knows(boot[a], route, strayed)
        BY DEF TabInv
      <3> QED
        BY <1>1, <2>3, <3>1, <3>2 DEF Knows
    <2> QED
      BY <2>1, <2>2, <2>3
  <1> QED
    BY <1>1, <1>2, <1>3 DEF TabInv, Runs

LEMMA DeactivatedKnows ==
    ASSUME NEW url \in Routes, NEW away, NEW r, Knows(r, url, away)
    PROVE Knows(Deactivated(r), url, away) /\ Deactivated(r).phase = r.phase
          /\ Deactivated(r).overlay # "shown"
  <1>1. r \in Boot
    BY DEF Knows
  <1>2. Deactivated(r) \in Boot
    BY <1>1 DEF Deactivated, Boot
  <1>3. /\ Deactivated(r).active = FALSE /\ Deactivated(r).phase = r.phase
        /\ Deactivated(r).overlay # "shown"
    BY <1>1 DEF Deactivated, Boot
  <1> QED
    BY <1>2, <1>3 DEF Knows

LEMMA ActivatedKnows ==
    ASSUME route \in Routes, NEW r \in Boot, r.phase \notin Early, NEW away
    PROVE Knows(Activated(r), route, away) /\ Activated(r).phase = r.phase
  <1>1. (r.loaded /\ r.overlay # "none") \in BOOLEAN
    OBVIOUS
  <1>2. (IF r.overlay = "none" THEN NoIP ELSE r.delivered) \in IPs \cup {NoIP}
    BY DEF Boot
  <1>3. /\ Activated(r) \in Boot /\ Activated(r).phase = r.phase
        /\ Activated(r).lastUrl = route /\ Activated(r).opened = route
        /\ Activated(r).active = TRUE
    <2> DEFINE l == r.loaded /\ r.overlay # "none"
               d == IF r.overlay = "none" THEN NoIP ELSE r.delivered
    <2>1. Activated(r) = [r EXCEPT !.active = TRUE, !.overlay = "shown", !.lastUrl = route,
                                   !.opened = route, !.loaded = l, !.delivered = d]
      BY DEF Activated
    <2>2. l \in BOOLEAN /\ d \in IPs \cup {NoIP}
      BY <1>1, <1>2
    <2> HIDE DEF l, d
    <2> DEFINE s == [r EXCEPT !.active = TRUE, !.overlay = "shown", !.lastUrl = route,
                              !.opened = route, !.loaded = l, !.delivered = d]
    <2>3. /\ s \in Boot /\ s.phase = r.phase /\ s.lastUrl = route /\ s.opened = route
          /\ s.active = TRUE
      BY <2>2 DEF Boot
    <2> HIDE DEF s
    <2>4. Activated(r) = s
      BY <2>1 DEF s
    <2> QED
      BY <2>3, <2>4
  <1> QED
    BY <1>3 DEF Knows

\* What a hook makes of an event that brings the page to url: the embed is hidden, or it
\* was opened over url.
LEMMA RouteSeenKnows ==
    ASSUME NEW from, NEW was, NEW r, Knows(r, from, was), NEW url \in Routes
    PROVE Knows(RouteSeen(r, url), url, FALSE) /\ RouteSeen(r, url).phase = r.phase
  <1>1. r \in Boot
    BY DEF Knows
  <1>2. Deactivated(r) \in Boot /\ Deactivated(r).phase = r.phase
        /\ Deactivated(r).overlay # "shown" /\ Deactivated(r).active = FALSE
    BY <1>1 DEF Deactivated, Boot
  <1>3. CASE r.active /\ url # r.lastUrl
    <2>1. RouteSeen(r, url) = [Deactivated(r) EXCEPT !.lastUrl = url]
      BY <1>3 DEF RouteSeen
    <2>2. ASSUME NEW d \in Boot, d.overlay # "shown", d.active = FALSE
          PROVE LET s == [d EXCEPT !.lastUrl = url]
                IN Knows(s, url, FALSE) /\ s.phase = d.phase
      BY <2>2 DEF Boot, Knows
    <2> QED
      BY <1>2, <2>1, <2>2
  <1>4. CASE ~(r.active /\ url # r.lastUrl)
    <2> DEFINE s == [r EXCEPT !.lastUrl = url]
    <2>1. RouteSeen(r, url) = s
      BY <1>4 DEF RouteSeen
    <2>2. /\ s \in Boot /\ s.lastUrl = url /\ s.phase = r.phase /\ s.active = r.active
          /\ s.overlay = r.overlay /\ s.opened = r.opened
      BY <1>1 DEF Boot
    <2>3. r.active => r.lastUrl = url /\ r.opened = url
      BY <1>4 DEF Knows
    <2> HIDE DEF s
    <2> QED
      BY <2>1, <2>2, <2>3 DEF Knows
  <1> QED
    BY <1>3, <1>4

\* A badge reaches a boot that listens; one that it has to activate opens over the page's
\* route, and then no router has strayed.
LEMMA NavigatedKnows ==
    ASSUME route \in Routes, NEW away, NEW r, Knows(r, route, away), r.phase = "live", NEW ip \in IPs,
           NEW now, now = (away /\ r.active)
    PROVE Knows(Navigated(r, ip), route, now) /\ Navigated(r, ip).phase = r.phase
  <1> DEFINE on == IF r.active THEN r ELSE Activated(r)
  <1>1. Knows(on, route, now) /\ on.phase = r.phase
    <2>1. CASE r.active
      BY <2>1 DEF Knows
    <2>2. CASE ~r.active
      BY <2>2, ActivatedKnows DEF Knows, Early
    <2> QED
      BY <2>1, <2>2
  <1>2. Navigated(r, ip) = IF on.loaded THEN [on EXCEPT !.delivered = ip]
                           ELSE [on EXCEPT !.pending = ip]
    BY DEF Navigated
  <1>3. ASSUME NEW s, Knows(s, route, now)
        PROVE /\ Knows([s EXCEPT !.delivered = ip], route, now)
              /\ [s EXCEPT !.delivered = ip].phase = s.phase
              /\ Knows([s EXCEPT !.pending = ip], route, now)
              /\ [s EXCEPT !.pending = ip].phase = s.phase
    BY <1>3 DEF Knows, Boot
  <1> QED
    BY <1>1, <1>2, <1>3

LEMMA TabInitInv == Init => TabInv
  <1> SUFFICES ASSUME Init PROVE TabInv
    OBVIOUS
  <1>1. /\ Unused \in Boot /\ Unused.phase = "unused" /\ Unused.overlay = "none"
        /\ Unused.active = FALSE
    BY DEF Unused, Boot, Phases, Routes
  <1>2. /\ route = 1 /\ strayed = FALSE /\ started = FALSE /\ tab = NoBoot
        /\ boot = [b \in Boots |-> Unused]
    BY DEF Init, TabInit
  <1> QED
    BY <1>1, <1>2 DEF TabInv, Knows, Runs, Routes

\* A new run starts only where none is running.
LEMMA BootstrapInv == ASSUME TabInv, Bootstrap, UNCHANGED <<route, strayed, tab>> PROVE TabInv'
  <1>1. CASE started
    BY <1>1 DEF Bootstrap, TabInv
  <1>2. CASE ~started
    <2>1. PICK b \in Boots : /\ Phase(b, "unused") /\ started' = TRUE
                             /\ With(b, [Unused EXCEPT !.phase = "configuring"])
      BY <1>2 DEF Bootstrap
    <2> DEFINE new == [Unused EXCEPT !.phase = "configuring"]
    <2>2. /\ new \in Boot /\ new.phase = "configuring" /\ new.overlay = "none"
          /\ new.active = FALSE
      BY DEF Unused, Boot, Phases, Routes
    <2> HIDE DEF new
    <2>3. /\ boot' \in [Boots -> Boot] /\ boot'[b] = new
          /\ \A a \in Boots : a # b => boot'[a] = boot[a]
      BY <2>1, <2>2, WithOne DEF new
    <2>4. \A a \in Boots : ~Runs(boot[a])
      BY <1>2 DEF TabInv
    <2>5. tab # NoBoot => tab \in Boots /\ tab # b
      BY <2>1 DEF TabInv, Phase, Early
    <2>6. tab' # NoBoot => boot'[tab'].phase \notin Early
      BY <2>3, <2>5 DEF TabInv
    <2>7. \A a \in Boots : Knows(boot'[a], route', strayed')
      BY <2>2, <2>3 DEF TabInv, Knows
    <2> QED
      BY <2>1, <2>2, <2>3, <2>4, <2>6, <2>7 DEF TabInv, Runs
  <1> QED
    BY <1>1, <1>2

\* A run goes on, or ends; the others are as they were.
LEMMA EnsureConfigInv == ASSUME TabInv, NEW b \in Boots, EnsureConfig(b) PROVE TabInv'
  <1>0. boot[b] \in Boot /\ boot[b].active = FALSE /\ boot[b].overlay # "shown" /\ route \in Routes
    BY DEF TabInv, Knows, EnsureConfig, Phase, Early, Boot
  <1>1. /\ LET w == [boot[b] EXCEPT !.phase = "waiting", !.lastUrl = route]
           IN w \in Boot /\ w.phase = "waiting" /\ w.active = FALSE /\ w.overlay # "shown"
        /\ LET o == [boot[b] EXCEPT !.phase = "over"]
           IN o \in Boot /\ o.phase = "over" /\ o.active = FALSE /\ o.overlay # "shown"
    BY <1>0 DEF Boot, Phases
  <1>2. PICK new \in Boot : /\ With(b, new) /\ new.phase \in {"over", "waiting"}
                            /\ new.active = FALSE /\ new.overlay # "shown"
                            /\ started' = started \/ (started' = FALSE /\ new.phase = "over")
    BY <1>1 DEF EnsureConfig
  <1>3. Phase(b, "configuring") /\ UNCHANGED <<route, strayed, tab>>
    BY DEF EnsureConfig
  <1>4. /\ boot' \in [Boots -> Boot] /\ boot'[b] = new
        /\ \A a \in Boots : a # b => boot'[a] = boot[a]
    BY <1>2, WithOne
  <1>6. \A a \in Boots : Runs(boot[a]) => a = b
    BY <1>3 DEF TabInv, Runs, Phase
  <1>9. /\ started' \in BOOLEAN
        /\ started' = FALSE => ~Runs(boot'[b])
    <2>1. started = TRUE
      BY <1>3 DEF TabInv, Runs, Phase
    <2>2. started' = TRUE \/ (started' = FALSE /\ boot'[b].phase = "over")
      BY <1>2, <1>4, <2>1
    <2> QED
      BY <2>2 DEF Runs
  <1>11. \A a \in Boots : Knows(boot'[a], route, strayed)
    BY <1>2, <1>4 DEF TabInv, Knows
  <1>12. tab' # NoBoot => boot'[tab'].phase \notin Early
    <2>1. tab # NoBoot => tab \in Boots /\ tab # b
      BY <1>3 DEF TabInv, Phase, Early
    <2> QED
      BY <1>3, <1>4, <2>1 DEF TabInv
  <1> QED
    BY <1>3, <1>4, <1>6, <1>9, <1>11, <1>12 DEF TabInv, Runs

LEMMA SetUpInv == ASSUME TabInv, NEW b \in Boots, SetUp(b) PROVE TabInv'
  <1> DEFINE new == [boot[b] EXCEPT !.phase = "live"]
  <1>1. boot[b] \in Boot /\ boot[b].phase = "waiting" /\ boot[b].active = FALSE
        /\ boot[b].overlay # "shown"
    BY DEF TabInv, SetUp, Phase, Knows, Early, Boot
  <1>2. new \in Boot /\ new.active = FALSE /\ new.overlay # "shown" /\ new.phase = "live"
    BY <1>1 DEF Boot, Phases
  <1> HIDE DEF new
  <1>3. /\ boot' \in [Boots -> Boot] /\ boot'[b] = new
        /\ \A a \in Boots : a # b => boot'[a] = boot[a]
    BY <1>2, WithOne DEF SetUp, new
  <1>4. \A a \in Boots : Runs(boot'[a]) <=> Runs(boot[a])
    BY <1>1, <1>2, <1>3 DEF Runs
  <1>5. UNCHANGED <<route, strayed, started>> /\ tab' \in Boots \cup {NoBoot}
    BY DEF SetUp, TabInv
  <1>6. \A a \in Boots : Knows(boot'[a], route, strayed)
    BY <1>2, <1>3 DEF TabInv, Knows
  <1>7. tab' # NoBoot => boot'[tab'].phase \notin Early
    <2>1. tab' = b \/ (tab' = tab /\ tab \in Boots)
      BY DEF SetUp, TabInv
    <2>2. CASE tab' = b
      BY <1>2, <1>3, <2>2 DEF Early
    <2>3. CASE tab' = tab /\ tab \in Boots /\ tab # b
      BY <1>3, <2>3 DEF TabInv
    <2> QED
      BY <2>1, <2>2, <2>3
  <1> QED
    BY <1>3, <1>4, <1>5, <1>6, <1>7 DEF TabInv

LEMMA IframeLoadInv == ASSUME TabInv, NEW b \in Boots, IframeLoad(b) PROVE TabInv'
  <1> DEFINE new == [boot[b] EXCEPT !.loaded = TRUE, !.pending = NoIP,
                        !.delivered = IF boot[b].pending # NoIP THEN boot[b].pending ELSE @]
  <1>1. boot[b] \in Boot /\ Knows(boot[b], route, strayed) /\ strayed \in BOOLEAN
    BY DEF TabInv
  <1>2. /\ new \in Boot /\ new.phase = boot[b].phase /\ new.active = boot[b].active
        /\ new.overlay = boot[b].overlay /\ new.lastUrl = boot[b].lastUrl
        /\ new.opened = boot[b].opened
    BY <1>1 DEF Boot
  <1>3. With(b, new) /\ UNCHANGED <<route, strayed, started, tab>>
    BY DEF IframeLoad
  <1> HIDE DEF new
  <1>4. Knows(new, route, strayed)
    BY <1>1, <1>2 DEF Knows
  <1> QED
    BY <1>1, <1>2, <1>3, <1>4, KeepsRunning

LEMMA ReinjectInv == ASSUME TabInv, NEW b \in Boots, Reinject(b) PROVE TabInv'
  BY DEF Reinject, TabInv, Live, Phase, Early

LEMMA ClickTabInv == ASSUME TabInv, ClickTab PROVE TabInv'
  <1>1. /\ tab \in Boots /\ Knows(boot[tab], route, strayed) /\ route \in Routes
        /\ strayed \in BOOLEAN /\ boot[tab].phase \notin Early /\ boot[tab] \in Boot
    BY DEF TabInv, ClickTab
  <1>2. /\ UNCHANGED <<route, started, tab>>
        /\ strayed' = (strayed /\ (tab \in Live => boot[tab].active))
        /\ With(tab, IF boot[tab].active THEN Deactivated(boot[tab]) ELSE Activated(boot[tab]))
    BY DEF ClickTab
  <1>3. strayed' \in BOOLEAN /\ (strayed' = strayed \/ boot[tab].phase = "live")
    BY <1>1, <1>2 DEF Live, Phase
  <1>4. CASE boot[tab].active
    <2>1. strayed' = strayed /\ With(tab, Deactivated(boot[tab]))
      BY <1>1, <1>2, <1>4
    <2>2. Knows(Deactivated(boot[tab]), route, strayed') /\ Deactivated(boot[tab]).phase = boot[tab].phase
      BY <1>1, <2>1, DeactivatedKnows
    <2> QED
      BY <1>1, <1>2, <1>3, <2>1, <2>2, KeepsRunning
  <1>5. CASE ~boot[tab].active
    <2>1. With(tab, Activated(boot[tab]))
      BY <1>2, <1>5
    <2>2. Knows(Activated(boot[tab]), route, strayed') /\ Activated(boot[tab]).phase = boot[tab].phase
      BY <1>1, ActivatedKnows
    <2> QED
      BY <1>1, <1>2, <1>3, <2>1, <2>2, KeepsRunning
  <1> QED
    BY <1>4, <1>5

LEMMA ClickUniFiTabInv == ASSUME TabInv, ClickUniFiTab PROVE TabInv'
  <1>1. tab \in Boots /\ Knows(boot[tab], route, strayed) /\ route \in Routes /\ strayed \in BOOLEAN
    BY DEF TabInv, ClickUniFiTab
  <1>2. Knows(Deactivated(boot[tab]), route, strayed) /\ Deactivated(boot[tab]).phase = boot[tab].phase
    BY <1>1, DeactivatedKnows
  <1>3. With(tab, Deactivated(boot[tab])) /\ UNCHANGED <<route, strayed, started, tab>>
    BY DEF ClickUniFiTab
  <1> QED
    BY <1>1, <1>2, <1>3, KeepsRunning

\* A step in which every boot may change, but none starts or ends.
LEMMA EveryBoot ==
    ASSUME TabInv, UNCHANGED <<started, tab>>, route' \in Routes, strayed' \in BOOLEAN,
           boot' = [b \in Boots |-> boot'[b]],
           \A b \in Boots : Knows(boot'[b], route', strayed') /\ boot'[b].phase = boot[b].phase
    PROVE TabInv'
  <1>1. boot' \in [Boots -> Boot]
    BY DEF Knows
  <1>2. \A b \in Boots : Runs(boot'[b]) <=> Runs(boot[b])
    BY DEF Runs
  <1> QED
    BY <1>1, <1>2 DEF TabInv

LEMMA EscapeInv == ASSUME TabInv, Escape PROVE TabInv'
  <1>1. boot' = [b \in Boots |-> IF b \in Live THEN Deactivated(boot[b]) ELSE boot[b]]
    BY DEF Escape
  <1>2. \A b \in Boots : Knows(boot'[b], route, strayed) /\ boot'[b].phase = boot[b].phase
    BY <1>1, DeactivatedKnows DEF TabInv
  <1> QED
    BY <1>1, <1>2, EveryBoot DEF Escape, TabInv

LEMMA ClickBadgeInv == ASSUME TabInv, ClickBadge PROVE TabInv'
  <1>1. PICK ip \in IPs :
          boot' = [b \in Boots |-> IF b \in Live THEN Navigated(boot[b], ip) ELSE boot[b]]
    BY DEF ClickBadge
  <1>2. /\ strayed' = (strayed /\ \A b \in Live : boot[b].active)
        /\ UNCHANGED <<started, tab, route>> /\ strayed \in BOOLEAN /\ route \in Routes
    BY DEF ClickBadge, TabInv
  <1>3. ASSUME NEW b \in Boots
        PROVE Knows(boot'[b], route, strayed') /\ boot'[b].phase = boot[b].phase
    <2>1. Knows(boot[b], route, strayed)
      BY DEF TabInv
    <2>2. CASE b \in Live
      <3>1. Live = {b} /\ boot[b].phase = "live"
        BY <2>2 DEF TabInv, Runs, Live, Phase
      <3>2. strayed' = (strayed /\ boot[b].active)
        BY <1>2, <3>1
      <3> QED
        BY <1>1, <1>2, <2>1, <2>2, <3>1, <3>2, NavigatedKnows
    <2>3. CASE b \notin Live
      BY <1>1, <2>1, <2>3 DEF Knows, Live, Phase
    <2> QED
      BY <2>2, <2>3
  <1> QED
    BY <1>1, <1>2, <1>3, EveryBoot

LEMMA RouteChangeInv == ASSUME TabInv, RouteChange PROVE TabInv'
  <1>1. UNCHANGED <<started, tab>>
    BY DEF RouteChange
  <1>2. PICK url \in Routes \ {route}, seen \in BOOLEAN, removed \in BOOLEAN :
          /\ route' = url
          /\ strayed' = (~seen /\ \E b \in Live : boot[b].active)
          /\ boot' = [b \in Boots |->
                IF removed /\ (IF seen THEN Routed(url) ELSE boot)[b].overlay = "hidden"
                THEN [(IF seen THEN Routed(url) ELSE boot)[b] EXCEPT !.overlay = "none"]
                ELSE (IF seen THEN Routed(url) ELSE boot)[b]]
    BY Zenon DEF RouteChange
  <1> DEFINE after == IF seen THEN Routed(url) ELSE boot
  <1>3. strayed' \in BOOLEAN
    BY <1>2
  <1>4. ASSUME NEW b \in Boots
        PROVE Knows(after[b], url, strayed') /\ after[b].phase = boot[b].phase
    <2>1. Knows(boot[b], route, strayed)
      BY DEF TabInv
    <2>2. CASE seen /\ b \in Live
      <3>1. after[b] = RouteSeen(boot[b], url)
        BY <2>2 DEF Routed
      <3>2. /\ Knows(RouteSeen(boot[b], url), url, FALSE)
            /\ RouteSeen(boot[b], url).phase = boot[b].phase
        BY <1>2, <2>1, RouteSeenKnows, Zenon
      <3> QED
        BY <3>1, <3>2 DEF Knows
    <2>3. CASE b \notin Live
      <3>1. after[b] = boot[b] /\ boot[b].phase # "live"
        BY <2>3 DEF Routed, Live, Phase
      <3> QED
        BY <2>1, <3>1 DEF Knows
    <2>4. CASE ~seen /\ b \in Live
      <3>1. after[b] = boot[b] /\ (boot[b].active => strayed')
        BY <1>2, <2>4
      <3> QED
        BY <2>1, <3>1 DEF Knows
    <2> QED
      BY <2>2, <2>3, <2>4
  <1>5. ASSUME NEW r, Knows(r, url, strayed')
        PROVE /\ Knows([r EXCEPT !.overlay = "none"], url, strayed')
              /\ [r EXCEPT !.overlay = "none"].phase = r.phase
    BY <1>5 DEF Knows, Boot
  <1>6. boot' = [b \in Boots |-> IF removed /\ after[b].overlay = "hidden"
                                 THEN [after[b] EXCEPT !.overlay = "none"] ELSE after[b]]
    BY <1>2
  <1> HIDE DEF after
  <1>7. ASSUME NEW b \in Boots
        PROVE Knows(boot'[b], route', strayed') /\ boot'[b].phase = boot[b].phase
    <2>1. boot'[b] = after[b] \/ boot'[b] = [after[b] EXCEPT !.overlay = "none"]
      BY <1>6
    <2>2. Knows(after[b], url, strayed') /\ after[b].phase = boot[b].phase
      BY <1>4
    <2>3. Knows(boot'[b], url, strayed') /\ boot'[b].phase = boot[b].phase
      BY <1>5, <2>1, <2>2, Zenon
    <2> QED
      BY <1>2, <2>3
  <1> QED
    BY <1>1, <1>2, <1>3, <1>6, <1>7, EveryBoot

\* The one that runs is torn down or returns; one that still asks for its
\* configuration goes on, and the flag stays up for it.
LEMMA PageHideInv == ASSUME TabInv, PageHide PROVE TabInv'
  <1> DEFINE left(b) == CASE Phase(b, "live") -> [boot[b] EXCEPT !.phase = "torn"]
                          [] Phase(b, "waiting") -> [boot[b] EXCEPT !.phase = "over"]
                          [] OTHER -> boot[b]
  <1>1. boot' = [b \in Boots |-> left(b)] /\ started' = (started /\ Live = {})
    BY DEF PageHide
  <1>2. ASSUME NEW b \in Boots
        PROVE /\ Knows(left(b), route, strayed)
              /\ Runs(left(b)) => boot[b].phase = "configuring"
              /\ boot[b].phase \notin Early => left(b).phase \notin Early
    <2>1. boot[b] \in Boot /\ Knows(boot[b], route, strayed)
      BY DEF TabInv
    <2>2. ASSUME NEW p \in {"torn", "over"}
          PROVE LET r == [boot[b] EXCEPT !.phase = p]
                IN Knows(r, route, strayed) /\ ~Runs(r) /\ r.phase \notin Early
      BY <2>1 DEF Knows, Boot, Phases, Runs, Early
    <2>3. CASE Phase(b, "live")
      BY <2>2, <2>3
    <2>4. CASE Phase(b, "waiting")
      BY <2>2, <2>4 DEF Phase
    <2>5. CASE ~Phase(b, "live") /\ ~Phase(b, "waiting")
      BY <2>1, <2>5 DEF Phase, Runs
    <2> QED
      BY <2>3, <2>4, <2>5
  <1> HIDE DEF left
  <1>3. ASSUME NEW b \in Boots, Runs(left(b)) PROVE Live = {} /\ started /\ Runs(boot[b])
    <2>1. boot[b].phase = "configuring"
      BY <1>2, <1>3
    <2>2. \A a \in Boots : Runs(boot[a]) => a = b
      BY <2>1 DEF TabInv, Runs
    <2> QED
      BY <2>1, <2>2 DEF Live, Phase, Runs, TabInv
  <1>4. boot' \in [Boots -> Boot] /\ \A b \in Boots : boot'[b] = left(b)
    BY <1>1, <1>2 DEF Knows
  <1> QED
    BY <1>1, <1>2, <1>3, <1>4 DEF TabInv, PageHide

LEMMA TabNextInv == ASSUME TabInv, TabNext PROVE TabInv'
  <1>1. ASSUME NEW b \in Boots, EnsureConfig(b) \/ SetUp(b) \/ Reinject(b) \/ IframeLoad(b)
        PROVE TabInv'
    BY <1>1, ReinjectInv, EnsureConfigInv, SetUpInv, IframeLoadInv
  <1>2. CASE Inject
    BY <1>2, BootstrapInv DEF Inject
  <1>3. CASE RenderHeader
    BY <1>3 DEF RenderHeader, TabInv
  <1>4. CASE PageShow
    <2>1. CASE Bootstrap
      BY <1>4, <2>1, BootstrapInv DEF PageShow
    <2>2. CASE UNCHANGED <<started, boot>>
      BY <1>4, <2>2 DEF PageShow, TabInv
    <2> QED
      BY <1>4, <2>1, <2>2 DEF PageShow
  <1> QED
    BY <1>1, <1>2, <1>3, <1>4, ClickTabInv, RouteChangeInv, ClickUniFiTabInv, EscapeInv,
       ClickBadgeInv, PageHideInv DEF TabNext, TabProgress

LEMMA TabStepInv == TabInv /\ [Next]_vars => TabInv'
  <1> SUFFICES ASSUME TabInv, [Next]_vars PROVE TabInv'
    OBVIOUS
  <1>1. CASE Tab(TabNext)
    BY <1>1, TabNextInv DEF Tab
  <1>2. CASE UNCHANGED tabVars
    BY <1>2 DEF tabVars, TabInv
  <1> QED
    BY <1>1, <1>2 DEF Next, vars, Worker, Badges

\* One boot at most listens to the page and works on it, and only while the flag says
\* so: however often the scripts are injected and the page comes back from the cache.
THEOREM OneBootListensAlways == Spec => []OneBootListens
  <1>1. TabInv => OneBootListens
    <2> SUFFICES ASSUME TabInv PROVE OneBootListens
      OBVIOUS
    <2> DEFINE running == {b \in Boots : boot[b].phase \in {"configuring", "waiting", "live"}}
    <2>1. CASE running = {}
      BY <2>1, FS_EmptySet DEF OneBootListens
    <2>2. CASE running # {}
      <3>1. PICK b \in running : TRUE
        BY <2>2
      <3>2. running = {b}
        BY <3>1 DEF TabInv, Runs
      <3>3. Cardinality(running) = 1
        BY <3>2, FS_Singleton
      <3>4. started
        BY <3>1 DEF TabInv, Runs
      <3> QED
        BY <3>3, <3>4 DEF OneBootListens
    <2> QED
      BY <2>1, <2>2
  <1> QED
    BY <1>1, TabInitInv, TabStepInv, PTL DEF Spec

\* Through every history of clicks, restores, boots and events, an embed of a boot that
\* listens is on show over another route than the one it was opened over only while the
\* page's router has moved on since the last event that reached the hooks.
THEOREM EmbedOverItsRouteAlways == Spec => []EmbedOverItsRoute
  <1>1. TabInv => EmbedOverItsRoute
    BY DEF TabInv, Knows, EmbedOverItsRoute, Live, Phase
  <1> QED
    BY <1>1, TabInitInv, TabStepInv, PTL DEF Spec

\* What is queued in a boot that listens is the last address that was clicked, and
\* waits for an iframe that has not loaded; otherwise that address has been delivered.
\* Nothing reaches a boot before it listens.
Delivers(r, ip) ==
    /\ r.phase \in {"unused", "configuring", "waiting"} => r.pending = NoIP /\ r.delivered = NoIP
    /\ r.phase = "live" /\ r.pending # NoIP => ~r.loaded /\ r.pending = ip
    /\ r.phase = "live" /\ r.pending = NoIP /\ r.delivered # NoIP => r.delivered = ip

ClickInv == TabInv /\ \A b \in Boots : Delivers(boot[b], asked)

LEMMA HandlersDeliver ==
    ASSUME NEW r \in Boot, NEW ip, Delivers(r, ip), NEW url
    PROVE /\ Delivers(Deactivated(r), ip) /\ Delivers(Activated(r), ip)
          /\ Delivers(RouteSeen(r, url), ip)
          /\ Delivers([RouteSeen(r, url) EXCEPT !.overlay = "none"], ip)
          /\ Delivers([r EXCEPT !.overlay = "none"], ip)
  <1>1. Delivers(Deactivated(r), ip)
    BY DEF Deactivated, Delivers, Boot
  <1>2. Delivers(Activated(r), ip)
    BY DEF Activated, Delivers, Boot
  <1>3. Delivers(RouteSeen(r, url), ip)
    BY DEF RouteSeen, Deactivated, Delivers, Boot
  <1>4. Delivers([RouteSeen(r, url) EXCEPT !.overlay = "none"], ip)
    BY DEF RouteSeen, Deactivated, Delivers, Boot
  <1>5. Delivers([r EXCEPT !.overlay = "none"], ip)
    BY DEF Delivers, Boot
  <1> QED
    BY <1>1, <1>2, <1>3, <1>4, <1>5

LEMMA NavigatedDelivers ==
    ASSUME NEW r \in Boot, r.phase = "live", NEW old, Delivers(r, old), NEW ip \in IPs
    PROVE Delivers(Navigated(r, ip), ip)
  <1>1. ip # NoIP
    BY ControllerTabAssumption
  <1>2. CASE r.active
    BY <1>1, <1>2 DEF Navigated, Delivers, Boot
  <1>3. CASE ~r.active
    BY <1>1, <1>3 DEF Navigated, Activated, Delivers, Boot
  <1> QED
    BY <1>2, <1>3

LEMMA ClickInitInv == Init => ClickInv
  <1> SUFFICES ASSUME Init PROVE ClickInv
    OBVIOUS
  <1>1. \A b \in Boots : boot[b] = Unused
    BY DEF Init, TabInit
  <1>2. Delivers(Unused, asked)
    BY DEF Unused, Delivers
  <1> QED
    BY <1>1, <1>2, TabInitInv DEF ClickInv

\* One boot changes.
LEMMA DeliversOne ==
    ASSUME ClickInv, NEW b \in Boots, NEW new, With(b, new), Delivers(new, asked), UNCHANGED asked
    PROVE \A a \in Boots : Delivers(boot'[a], asked')
  BY DEF ClickInv, TabInv, With

LEMMA BootstrapDelivers ==
    ASSUME ClickInv, Bootstrap, UNCHANGED asked
    PROVE \A a \in Boots : Delivers(boot'[a], asked')
  <1>1. CASE started
    BY <1>1 DEF Bootstrap, ClickInv
  <1>2. CASE ~started
    <2>1. PICK b \in Boots : With(b, [Unused EXCEPT !.phase = "configuring"])
      BY <1>2 DEF Bootstrap
    <2>2. Delivers([Unused EXCEPT !.phase = "configuring"], asked)
      BY DEF Unused, Delivers
    <2> QED
      BY <2>1, <2>2, DeliversOne
  <1> QED
    BY <1>1, <1>2

LEMMA OneBootDelivers ==
    ASSUME ClickInv, NEW b \in Boots,
           EnsureConfig(b) \/ SetUp(b) \/ Reinject(b) \/ IframeLoad(b)
    PROVE \A a \in Boots : Delivers(boot'[a], asked')
  <1>1. boot[b] \in Boot /\ Delivers(boot[b], asked)
    BY DEF ClickInv, TabInv
  <1>2. CASE EnsureConfig(b)
    <2>1. PICK new : /\ With(b, new)
                     /\ new \in {[boot[b] EXCEPT !.phase = "over"],
                               [boot[b] EXCEPT !.phase = "waiting", !.lastUrl = route]}
      BY <1>2 DEF EnsureConfig
    <2>2. boot[b].phase = "configuring" /\ UNCHANGED asked
      BY <1>2 DEF EnsureConfig, Phase
    <2>3. Delivers(new, asked)
      BY <1>1, <2>1, <2>2 DEF Delivers, Boot
    <2> QED
      BY <2>1, <2>2, <2>3, DeliversOne
  <1>3. CASE SetUp(b)
    <2>1. boot[b].phase = "waiting" /\ With(b, [boot[b] EXCEPT !.phase = "live"])
          /\ UNCHANGED asked
      BY <1>3 DEF SetUp, Phase
    <2>2. Delivers([boot[b] EXCEPT !.phase = "live"], asked)
      BY <1>1, <2>1 DEF Delivers, Boot
    <2> QED
      BY <2>1, <2>2, DeliversOne
  <1>4. CASE Reinject(b)
    BY <1>4 DEF Reinject, ClickInv
  <1>5. CASE IframeLoad(b)
    <2> DEFINE new == [boot[b] EXCEPT !.loaded = TRUE, !.pending = NoIP,
                         !.delivered = IF boot[b].pending # NoIP THEN boot[b].pending ELSE @]
    <2>1. Delivers(new, asked)
      BY <1>1 DEF Delivers, Boot
    <2>2. With(b, new) /\ UNCHANGED asked
      BY <1>5 DEF IframeLoad
    <2> QED
      BY <2>1, <2>2, DeliversOne
  <1> QED
    BY <1>2, <1>3, <1>4, <1>5

LEMMA EveryBootDelivers ==
    ASSUME ClickInv, Escape \/ ClickBadge \/ RouteChange \/ PageHide
    PROVE \A b \in Boots : Delivers(boot'[b], asked')
  <1>0. \A b \in Boots : boot[b] \in Boot /\ Delivers(boot[b], asked)
    BY DEF ClickInv, TabInv
  <1>1. CASE Escape
    <2>1. UNCHANGED asked /\ \A b \in Boots : boot'[b] \in {boot[b], Deactivated(boot[b])}
      BY <1>1 DEF Escape
    <2> QED
      BY <1>0, <2>1, HandlersDeliver
  <1>2. CASE ClickBadge
    <2>1. PICK ip \in IPs : /\ asked' = ip
            /\ boot' = [b \in Boots |-> IF b \in Live THEN Navigated(boot[b], ip) ELSE boot[b]]
      BY <1>2 DEF ClickBadge
    <2>2. ASSUME NEW b \in Boots PROVE Delivers(boot'[b], asked')
      <3>1. CASE b \in Live
        BY <1>0, <2>1, <3>1, NavigatedDelivers DEF Live, Phase
      <3>2. CASE b \notin Live
        BY <1>0, <2>1, <3>2 DEF Live, Phase, Delivers
      <3> QED
        BY <3>1, <3>2
    <2> QED
      BY <2>2
  <1>3. CASE RouteChange
    <2>0. PICK url \in Routes, seen \in BOOLEAN, removed \in BOOLEAN :
            boot' = [b \in Boots |->
                IF removed /\ (IF seen THEN Routed(url) ELSE boot)[b].overlay = "hidden"
                THEN [(IF seen THEN Routed(url) ELSE boot)[b] EXCEPT !.overlay = "none"]
                ELSE (IF seen THEN Routed(url) ELSE boot)[b]]
      BY <1>3, Zenon DEF RouteChange
    <2> DEFINE after == IF seen THEN Routed(url) ELSE boot
    <2>1. boot' = [b \in Boots |-> IF removed /\ after[b].overlay = "hidden"
                                   THEN [after[b] EXCEPT !.overlay = "none"] ELSE after[b]]
      BY <2>0
    <2>2. \A b \in Boots : after[b] \in {boot[b], RouteSeen(boot[b], url)}
      BY DEF Routed
    <2> HIDE DEF after
    <2>3. UNCHANGED asked
      BY <1>3 DEF RouteChange
    <2>4. ASSUME NEW b \in Boots PROVE Delivers(boot'[b], asked)
      <3>1. boot'[b] \in {after[b], [after[b] EXCEPT !.overlay = "none"]}
        BY <2>1
      <3>2. /\ Delivers(boot[b], asked) /\ Delivers([boot[b] EXCEPT !.overlay = "none"], asked)
            /\ Delivers(RouteSeen(boot[b], url), asked)
            /\ Delivers([RouteSeen(boot[b], url) EXCEPT !.overlay = "none"], asked)
        BY <1>0, HandlersDeliver
      <3>3. CASE after[b] = boot[b]
        BY <3>1, <3>2, <3>3
      <3>4. CASE after[b] = RouteSeen(boot[b], url)
        BY <3>1, <3>2, <3>4
      <3> QED
        BY <2>2, <3>3, <3>4
    <2> QED
      BY <2>3, <2>4
  <1>4. CASE PageHide
    <2>1. UNCHANGED asked
      BY <1>4 DEF PageHide
    <2>2. ASSUME NEW b \in Boots PROVE Delivers(boot'[b], asked')
      <3>1. \/ boot'[b] = [boot[b] EXCEPT !.phase = "torn"]
            \/ boot'[b] = [boot[b] EXCEPT !.phase = "over"]
            \/ boot'[b] = boot[b]
        BY <1>4 DEF PageHide
      <3> QED
        BY <1>0, <2>1, <3>1 DEF Delivers, Boot
    <2> QED
      BY <2>2
  <1> QED
    BY <1>1, <1>2, <1>3, <1>4

LEMMA ClickNextDelivers ==
    ASSUME ClickInv, TabNext PROVE \A b \in Boots : Delivers(boot'[b], asked')
  <1>1. CASE TabProgress
    BY <1>1, OneBootDelivers DEF TabProgress
  <1>2. CASE Inject
    BY <1>2, BootstrapDelivers DEF Inject
  <1>3. CASE PageShow
    <2>1. CASE Bootstrap
      BY <1>3, <2>1, BootstrapDelivers DEF PageShow
    <2>2. CASE UNCHANGED boot
      BY <1>3, <2>2 DEF PageShow, ClickInv
    <2> QED
      BY <1>3, <2>1, <2>2 DEF PageShow
  <1>4. CASE RenderHeader
    BY <1>4 DEF RenderHeader, ClickInv
  <1>5. CASE ClickTab \/ ClickUniFiTab
    <2>1. tab \in Boots /\ UNCHANGED asked
      BY <1>5 DEF ClickTab, ClickUniFiTab, ClickInv, TabInv
    <2>2. PICK new \in {Deactivated(boot[tab]), Activated(boot[tab])} : With(tab, new)
      BY <1>5 DEF ClickTab, ClickUniFiTab
    <2>3. Delivers(new, asked)
      BY <2>1, <2>2, HandlersDeliver DEF ClickInv, TabInv
    <2> QED
      BY <2>1, <2>2, <2>3, DeliversOne
  <1> QED
    BY <1>1, <1>2, <1>3, <1>4, <1>5, EveryBootDelivers DEF TabNext

\* The embed a listening boot shows is of the badge that was clicked last, or will be
\* as soon as it has loaded.
THEOREM LastClickShownAlways == Spec => []LastClickShown
  <1>1. ClickInv /\ [Next]_vars => ClickInv'
    <2> SUFFICES ASSUME ClickInv, [Next]_vars PROVE ClickInv'
      OBVIOUS
    <2>1. TabInv'
      BY TabStepInv DEF ClickInv
    <2>2. CASE Tab(TabNext)
      BY <2>1, <2>2, ClickNextDelivers DEF Tab, ClickInv
    <2>3. CASE UNCHANGED tabVars
      BY <2>1, <2>3 DEF tabVars, ClickInv
    <2> QED
      BY <2>2, <2>3 DEF Next, vars, Worker, Badges
  <1>2. ClickInv => LastClickShown
    BY DEF ClickInv, Delivers, LastClickShown, Live, Phase
  <1> QED
    BY <1>1, <1>2, ClickInitInv, PTL DEF Spec

------------------------------------------------------------------------------
\* The worker: types.

WorkerTypes ==
    /\ server \in Server /\ sync \in Settings /\ local \in Secrets /\ memory \in Memory
    /\ access \in SUBSET Controllers /\ scripts \in Optional(Controllers)
    /\ task \in [Tasks -> Task] /\ inbox \in SUBSET Message /\ popup \in Popup
    /\ kept \in BOOLEAN

LEMMA MsgTyped == \A op \in Ops : Msg(op) \in Message
  BY DEF Msg, Message, Optional

LEMMA MessageEdits ==
    ASSUME NEW m \in Message, NEW u \in Optional(Servers), NEW c \in Optional(Controllers),
           NEW k \in Optional(Tokens), NEW p \in BOOLEAN
    PROVE /\ [m EXCEPT !.url = u] \in Message /\ [m EXCEPT !.controller = c] \in Message
          /\ [m EXCEPT !.token = k] \in Message /\ [m EXCEPT !.popup = p] \in Message
          /\ [m EXCEPT !.url = u, !.controller = c] \in Message
          /\ [m EXCEPT !.url = u, !.token = k] \in Message
          /\ [m EXCEPT !.url = u, !.token = k, !.controller = c] \in Message
  BY DEF Message

LEMMA NoneOptional == \A S : None \in Optional(S) /\ S \subseteq Optional(S)
  BY DEF Optional

LEMMA RestoredTyped == ASSUME WorkerTypes PROVE Restored \in Memory
  <1>1. /\ sync.url \in Optional(Servers) /\ local.token \in Optional(Tokens)
        /\ memory.base \in Optional(Servers) /\ memory.token \in Optional(Tokens)
    BY DEF WorkerTypes, Settings, Secrets, Memory
  <1>2. ASSUME NEW u \in Optional(Servers), NEW k \in Optional(Tokens)
        PROVE [memory EXCEPT !.base = u, !.token = k] \in Memory
    BY DEF WorkerTypes, Memory
  <1> QED
    BY <1>1, <1>2 DEF Restored

LEMMA MemoryEdits ==
    ASSUME NEW mem \in Memory, NEW u \in Optional(Servers), NEW k \in Optional(Tokens),
           NEW d \in BOOLEAN
    PROVE /\ [mem EXCEPT !.base = u] \in Memory /\ [mem EXCEPT !.token = k] \in Memory
          /\ [mem EXCEPT !.discovering = d] \in Memory
          /\ [mem EXCEPT !.base = u, !.token = k] \in Memory
          /\ [mem EXCEPT !.discovering = d, !.token = k] \in Memory
  BY DEF Memory

LEMMA SendingTyped ==
    ASSUME NEW m \in Message, NEW mem \in Memory PROVE Sending(m, mem) \in Message
  BY DEF Sending, Message, Memory

LEMMA AnsweredTyped ==
    ASSUME WorkerTypes, NEW m, NEW ok PROVE Answered(m, ok) \in Popup
  <1>1. popup \in Popup
    BY DEF WorkerTypes
  <1>2. [popup EXCEPT !.view = "setup"] \in Popup
    BY <1>1 DEF Popup
  <1>3. [popup EXCEPT !.view = "loading", !.traffic = "none", !.waits = FALSE] \in Popup
    BY <1>1 DEF Popup
  <1>4. [popup EXCEPT !.waits = FALSE] \in Popup
    BY <1>1 DEF Popup
  <1> QED
    BY <1>1, <1>2, <1>3, <1>4 DEF Answered

LEMMA TaskOne ==
    ASSUME WorkerTypes, NEW t \in Tasks, NEW new \in Task, task' = [task EXCEPT ![t] = new]
    PROVE /\ task' \in [Tasks -> Task] /\ task'[t] = new
          /\ \A u \in Tasks : u # t => task'[u] = task[u]
  BY DEF WorkerTypes

LEMMA BeginsTyped ==
    ASSUME WorkerTypes, NEW t \in Tasks, NEW m \in Message, NEW point \in Points,
           Begins(t, m, point)
    PROVE task' \in [Tasks -> Task]
  <1>1. [at |-> point, msg |-> m] \in Task
    BY DEF Task
  <1> QED
    BY <1>1, TaskOne DEF Begins

LEMMA ContinuesTyped ==
    ASSUME WorkerTypes, NEW t \in Tasks, NEW m \in Message, NEW point \in Points,
           Continues(t, point, m)
    PROVE task' \in [Tasks -> Task] /\ popup' \in Popup
  <1>1. [at |-> point, msg |-> m] \in Task
    BY DEF Task
  <1> QED
    BY <1>1, TaskOne DEF Continues, WorkerTypes

LEMMA IdleTyped == Idle \in Task
  BY MsgTyped DEF Idle, Task, Points, Ops

LEMMA ReturnsTyped ==
    ASSUME WorkerTypes, NEW t \in Tasks, NEW after \in Memory, NEW ok, Returns(t, after, ok)
    PROVE task' \in [Tasks -> Task] /\ memory' \in Memory /\ popup' \in Popup
  <1>1. (after.discovering /\ task[t].msg.op # "discover") \in BOOLEAN
    OBVIOUS
  <1>2. memory' \in Memory
    BY <1>1, MemoryEdits DEF Returns, Memory
  <1> QED
    BY <1>2, TaskOne, IdleTyped, AnsweredTyped DEF Returns

\* The message of a handler.
LEMMA TaskMsg == ASSUME WorkerTypes, NEW t \in Tasks PROVE task[t].msg \in Message
  BY DEF WorkerTypes, Task

LEMMA MessageFields ==
    ASSUME NEW m \in Message
    PROVE m.url \in Optional(Servers) /\ m.controller \in Optional(Controllers)
          /\ m.token \in Optional(Tokens)
  BY DEF Message

LEMMA OnConnectedTyped ==
    ASSUME WorkerTypes, NEW t \in Tasks, NEW url \in Optional(Servers),
           NEW controller \in Optional(Controllers), OnConnected(t, url, controller)
    PROVE /\ memory' \in Memory /\ sync' \in Settings /\ task' \in [Tasks -> Task] /\ popup' \in Popup
  <1> DEFINE m == [task[t].msg EXCEPT !.url = None, !.controller = controller]
             after == [memory EXCEPT !.base = url]
  <1>1. m \in Message
    BY TaskMsg, MessageEdits, NoneOptional
  <1>2. after \in Memory
    BY MemoryEdits, NoneOptional DEF WorkerTypes
  <1>3. [sync EXCEPT !.url = url, !.configured = TRUE] \in Settings
    BY DEF WorkerTypes, Settings
  <1>4. Sending(m, after) \in Message
    BY <1>1, <1>2, SendingTyped
  <1> HIDE DEF m, after
  <1>5. Continues(t, "unifi", Sending(m, after)) \/ Continues(t, "permission", m)
    BY DEF OnConnected, m, after
  <1>6. task' \in [Tasks -> Task] /\ popup' \in Popup
    BY <1>1, <1>4, <1>5, ContinuesTyped DEF Points
  <1>7. memory' = after /\ sync' = [sync EXCEPT !.url = url, !.configured = TRUE]
    BY DEF OnConnected, after
  <1> QED
    BY <1>2, <1>3, <1>6, <1>7

LEMMA MarkedTyped == ASSUME WorkerTypes PROVE Marked \in Secrets /\ Forgotten \in Secrets
  BY NoneOptional DEF WorkerTypes, Marked, Forgotten, Secrets

\* The handlers that look for a server and a controller.
LEMMA DiscoveryTyped ==
    ASSUME WorkerTypes, NEW t \in Tasks,
           \/ BeginDiscover(t) \/ DiscoverStored(t) \/ DiscoverDefault(t)
           \/ BeginConnect(t) \/ SetBaseUrl(t) \/ FetchUniFiSettings(t)
    PROVE WorkerTypes'
  <1> DEFINE msg == task[t].msg
  <1>0. msg \in Message /\ msg.url \in Optional(Servers) /\ msg.controller \in Optional(Controllers)
    BY TaskMsg, MessageFields
  <1>a. /\ sync.url \in Optional(Servers) /\ sync.controller \in Optional(Controllers)
        /\ local.token \in Optional(Tokens) /\ memory.token \in Optional(Tokens)
        /\ memory \in Memory
    BY DEF WorkerTypes, Settings, Secrets, Memory
  <1>b. None \in Optional(Servers) /\ None \in Optional(Tokens) /\ Default \in Optional(Servers)
    BY DEF Optional, Servers
  <1>1. CASE BeginDiscover(t)
    <2>1. PICK m \in inbox :
            /\ Takes(m)
            /\ \/ UNCHANGED <<task, memory>>
               \/ /\ Begins(t, [m EXCEPT !.url = sync.url, !.controller = sync.controller],
                            IF sync.url = None THEN "default" ELSE "stored")
                  /\ memory' = [memory EXCEPT !.discovering = TRUE,
                                    !.token = IF local.token # None THEN local.token ELSE @]
            /\ UNCHANGED <<server, sync, local, access, scripts, popup, kept>>
      BY <1>1 DEF BeginDiscover, Msgs
    <2>2. m \in Message
      BY DEF WorkerTypes
    <2>3. [m EXCEPT !.url = sync.url, !.controller = sync.controller] \in Message
      BY <1>a, <1>b, <2>2, MessageEdits
    <2>4. (IF sync.url = None THEN "default" ELSE "stored") \in Points
      BY DEF Points
    <2>5. [memory EXCEPT !.discovering = TRUE,
              !.token = IF local.token # None THEN local.token ELSE @] \in Memory
      BY <1>a DEF Memory
    <2>6. task' \in [Tasks -> Task] /\ memory' \in Memory
      BY <2>1, <2>3, <2>4, <2>5, BeginsTyped DEF WorkerTypes
    <2> QED
      BY <2>1, <2>6 DEF WorkerTypes, Takes
  <1>2. CASE DiscoverStored(t)
    <2>1. memory' \in Memory /\ sync' \in Settings /\ task' \in [Tasks -> Task] /\ popup' \in Popup
      <3>1. CASE OnConnected(t, task[t].msg.url, task[t].msg.controller)
        BY <1>0, <3>1, OnConnectedTyped
      <3>2. CASE Continues(t, "default", [task[t].msg EXCEPT !.url = None]) /\ UNCHANGED <<memory, sync>>
        <4>1. [task[t].msg EXCEPT !.url = None] \in Message
          BY <1>0, <1>b, MessageEdits, NoneOptional
        <4> QED
          BY <3>2, <4>1, ContinuesTyped DEF Points, WorkerTypes
      <3> QED
        BY <1>2, <3>1, <3>2 DEF DiscoverStored
    <2> QED
      BY <1>2, <2>1 DEF DiscoverStored, WorkerTypes
  <1>3. CASE DiscoverDefault(t)
    <2>1. memory' \in Memory /\ sync' \in Settings /\ task' \in [Tasks -> Task] /\ popup' \in Popup
      <3>1. CASE OnConnected(t, Default, task[t].msg.controller)
        BY <1>0, <1>b, <3>1, OnConnectedTyped
      <3>2. CASE Returns(t, memory, TRUE) /\ UNCHANGED sync
        BY <1>a, <3>2, ReturnsTyped DEF WorkerTypes
      <3> QED
        BY <1>3, <3>1, <3>2 DEF DiscoverDefault
    <2> QED
      BY <1>3, <2>1 DEF DiscoverDefault, WorkerTypes
  <1>4. CASE BeginConnect(t)
    <2>1. PICK m \in inbox : Takes(m) /\ Begins(t, m, "health")
      BY <1>4 DEF BeginConnect, Msgs
    <2>2. task' \in [Tasks -> Task]
      BY <2>1, BeginsTyped DEF WorkerTypes, Points
    <2> QED
      BY <1>4, <2>1, <2>2, RestoredTyped DEF BeginConnect, WorkerTypes, Takes
  <1>5. CASE SetBaseUrl(t)
    <2>1. memory' \in Memory /\ sync' \in Settings /\ task' \in [Tasks -> Task] /\ popup' \in Popup
      <3>1. CASE OnConnected(t, task[t].msg.url, sync.controller)
        BY <1>0, <1>a, <3>1, OnConnectedTyped
      <3>2. CASE Returns(t, memory, FALSE) /\ UNCHANGED sync
        BY <1>a, <3>2, ReturnsTyped DEF WorkerTypes
      <3> QED
        BY <1>5, <3>1, <3>2 DEF SetBaseUrl
    <2> QED
      BY <1>5, <2>1 DEF SetBaseUrl, WorkerTypes
  <1>6. CASE FetchUniFiSettings(t)
    <2>1. /\ memory' \in Memory /\ sync' \in Settings /\ task' \in [Tasks -> Task] /\ popup' \in Popup
          /\ local' \in Secrets
      <3>1. CASE UNCHANGED <<local, memory>> /\
                 \E c \in Controllers :
                    /\ sync' = [sync EXCEPT !.controller = c]
                    /\ Continues(t, "permission",
                          [msg EXCEPT !.url = None, !.token = None, !.controller = c])
        <4>1. PICK c \in Controllers :
                    /\ sync' = [sync EXCEPT !.controller = c]
                    /\ Continues(t, "permission",
                          [msg EXCEPT !.url = None, !.token = None, !.controller = c])
          BY <3>1
        <4>2. c \in Optional(Controllers)
          BY DEF Optional
        <4>3. [msg EXCEPT !.url = None, !.token = None, !.controller = c] \in Message
          BY <1>0, <4>2 DEF Message, Optional
        <4>4. task' \in [Tasks -> Task] /\ popup' \in Popup
          BY <4>1, <4>3, ContinuesTyped DEF Points
        <4>5. sync' \in Settings
          BY <4>1, <4>2 DEF WorkerTypes, Settings
        <4> QED
          BY <3>1, <4>4, <4>5 DEF WorkerTypes
      <3>2. CASE Returns(t, memory, TRUE) /\ UNCHANGED sync /\ local' \in {local, Marked}
        BY <1>a, <3>2, ReturnsTyped, MarkedTyped DEF WorkerTypes
      <3> QED
        BY <1>6, <3>1, <3>2 DEF FetchUniFiSettings
    <2> QED
      BY <1>6, <2>1 DEF FetchUniFiSettings, WorkerTypes
  <1> QED
    BY <1>1, <1>2, <1>3, <1>4, <1>5, <1>6

\* The handlers that register scripts, make requests and deal with tokens.
LEMMA RequestsTyped ==
    ASSUME WorkerTypes, NEW t \in Tasks,
           \/ BeginRegistration(t) \/ Unregister(t) \/ Register(t)
           \/ BeginRequest(t) \/ RequestAnswered(t)
           \/ BeginSaveToken(t) \/ TokenAccepted(t) \/ TokenRejected(t) \/ TokenUntested(t)
    PROVE WorkerTypes'
  <1> DEFINE msg == task[t].msg
  <1>0. /\ msg \in Message /\ msg.url \in Optional(Servers) /\ msg.token \in Optional(Tokens)
        /\ msg.controller \in Optional(Controllers)
    BY TaskMsg, MessageFields
  <1>a. memory \in Memory /\ popup \in Popup /\ Restored \in Memory
    BY RestoredTyped DEF WorkerTypes
  <1>1. CASE BeginRegistration(t)
    <2>1. PICK m \in inbox : /\ Takes(m)
                             /\ Begins(t, m, "permission") \/ UNCHANGED task
                             /\ memory' \in {Restored, memory}
                             /\ UNCHANGED <<server, sync, local, access, scripts, popup, kept>>
      BY <1>1 DEF BeginRegistration, Msgs
    <2>2. task' \in [Tasks -> Task]
      BY <2>1, BeginsTyped DEF WorkerTypes, Points
    <2> QED
      BY <1>a, <2>1, <2>2 DEF WorkerTypes, Takes
  <1>2. CASE Unregister(t)
    <2>1. \/ Continues(t, "register", task[t].msg) /\ UNCHANGED memory
          \/ Returns(t, memory, TRUE)
      BY <1>2 DEF Unregister
    <2>2. task' \in [Tasks -> Task] /\ popup' \in Popup /\ memory' \in Memory
      BY <1>0, <1>a, <2>1, ContinuesTyped, ReturnsTyped DEF Points
    <2>3. scripts' \in Optional(Controllers) /\ kept' \in BOOLEAN
      BY <1>2, NoneOptional DEF Unregister, WorkerTypes
    <2> QED
      BY <1>2, <2>2, <2>3 DEF Unregister, WorkerTypes
  <1>3. CASE Register(t)
    <2>1. task' \in [Tasks -> Task] /\ popup' \in Popup /\ memory' \in Memory
      BY <1>3, <1>a, ReturnsTyped DEF Register
    <2>2. scripts' \in Optional(Controllers)
      BY <1>3, <1>0 DEF Register, WorkerTypes
    <2> QED
      BY <1>3, <2>1, <2>2 DEF Register, WorkerTypes
  <1>4. CASE BeginRequest(t)
    <2>1. PICK m \in inbox : Takes(m) /\ Begins(t, Sending(m, Restored), "answer")
      BY <1>4 DEF BeginRequest, Msgs
    <2>2. task' \in [Tasks -> Task]
      BY <1>a, <2>1, BeginsTyped, SendingTyped DEF WorkerTypes, Points
    <2> QED
      BY <1>4, <1>a, <2>1, <2>2 DEF BeginRequest, WorkerTypes, Takes
  <1>5. CASE RequestAnswered(t)
    <2>1. task' = [task EXCEPT ![t] = Idle] /\ local' \in {local, Marked}
      BY <1>5 DEF RequestAnswered
    <2>2. PICK result \in {"ok", "refused", "failed"} :
            popup' = IF msg.popup THEN [popup EXCEPT !.traffic = result, !.tested = msg.token]
                     ELSE popup
      BY <1>5 DEF RequestAnswered
    <2>3. [popup EXCEPT !.traffic = result, !.tested = msg.token] \in Popup
      BY <1>0, <1>a DEF Popup
    <2> QED
      BY <1>5, <1>a, <2>1, <2>2, <2>3, TaskOne, IdleTyped, MarkedTyped
      DEF RequestAnswered, WorkerTypes
  <1>6. CASE BeginSaveToken(t)
    <2>1. PICK m \in inbox :
            /\ Takes(m) /\ memory' = [Restored EXCEPT !.token = m.token]
            /\ \/ /\ local' = [token |-> m.token, validated |-> TRUE]
                  /\ popup' = Answered(m, TRUE) /\ UNCHANGED task
               \/ Begins(t, m, "validate") /\ UNCHANGED <<local, popup>>
            /\ UNCHANGED <<server, sync, access, scripts, kept>>
      BY <1>6 DEF BeginSaveToken, Msgs
    <2>2. m \in Message /\ m.token \in Optional(Tokens)
      BY MessageFields DEF WorkerTypes
    <2>3. memory' \in Memory
      BY <1>a, <2>1, <2>2, MemoryEdits, NoneOptional
    <2>4. [token |-> m.token, validated |-> TRUE] \in Secrets
      BY <2>2 DEF Secrets
    <2>5. local' \in Secrets /\ popup' \in Popup /\ task' \in [Tasks -> Task]
      BY <1>a, <2>1, <2>2, <2>4, AnsweredTyped, BeginsTyped DEF WorkerTypes, Points
    <2> QED
      BY <2>1, <2>3, <2>5 DEF WorkerTypes, Takes
  <1>7. CASE TokenAccepted(t)
    <2>1. /\ local' = [token |-> task[t].msg.token, validated |-> TRUE]
          /\ \/ Continues(t, "unifi", Sending(msg, memory)) /\ UNCHANGED memory
             \/ Returns(t, memory, TRUE)
      BY <1>7 DEF TokenAccepted
    <2>2. local' \in Secrets
      BY <1>0, <2>1 DEF Secrets
    <2>3. task' \in [Tasks -> Task] /\ popup' \in Popup /\ memory' \in Memory
      BY <1>0, <1>a, <2>1, ContinuesTyped, ReturnsTyped, SendingTyped DEF Points
    <2> QED
      BY <1>7, <2>2, <2>3 DEF TokenAccepted, WorkerTypes
  <1>8. CASE TokenRejected(t)
    <2>1. [memory EXCEPT !.token = None] \in Memory
      BY <1>a, MemoryEdits, NoneOptional
    <2>2. task' \in [Tasks -> Task] /\ popup' \in Popup /\ memory' \in Memory
      BY <1>8, <2>1, ReturnsTyped DEF TokenRejected
    <2> QED
      BY <1>8, <2>2, MarkedTyped DEF TokenRejected, WorkerTypes
  <1>9. CASE TokenUntested(t)
    <2>1. task' \in [Tasks -> Task] /\ popup' \in Popup /\ memory' \in Memory
      BY <1>9, <1>a, ReturnsTyped DEF TokenUntested
    <2>2. local' \in Secrets
      BY <1>9, <1>0 DEF TokenUntested, Secrets
    <2> QED
      BY <1>9, <2>1, <2>2 DEF TokenUntested, WorkerTypes
  <1> QED
    BY <1>1, <1>2, <1>3, <1>4, <1>5, <1>6, <1>7, <1>8, <1>9

LEMMA FromPopupTyped ==
    ASSUME NEW op \in Ops, NEW u \in Optional(Servers), NEW c \in Optional(Controllers),
           NEW k \in Optional(Tokens)
    PROVE /\ FromPopup(op) \in Message /\ [FromPopup(op) EXCEPT !.url = u] \in Message
          /\ [FromPopup(op) EXCEPT !.token = k] \in Message
          /\ [FromPopup(op) EXCEPT !.controller = c] \in Message
          /\ [Msg(op) EXCEPT !.controller = c] \in Message
  <1>1. Msg(op) \in Message
    BY MsgTyped
  <1>2. FromPopup(op) \in Message
    BY <1>1 DEF FromPopup, Message
  <1> QED
    BY <1>1, <1>2 DEF Message

LEMMA PopupEdits ==
    ASSUME NEW p \in Popup, NEW c \in Optional(Controllers), NEW b \in BOOLEAN, NEW d \in BOOLEAN
    PROVE /\ [p EXCEPT !.view = "setup"] \in Popup
          /\ [p EXCEPT !.waits = TRUE] \in Popup
          /\ [p EXCEPT !.traffic = "asked", !.hasToken = b, !.validated = d, !.controller = c] \in Popup
          /\ [p EXCEPT !.waits = TRUE, !.asks = c, !.traffic = "edit"] \in Popup
          /\ [p EXCEPT !.waits = TRUE, !.asks = c] \in Popup
          /\ [p EXCEPT !.asks = c] \in Popup
          /\ [p EXCEPT !.asks = c, !.waits = FALSE] \in Popup
          /\ [p EXCEPT !.asks = c, !.waits = FALSE, !.view = "loading", !.traffic = "none"] \in Popup
  BY DEF Popup

LEMMA ClosedTyped ==
    ASSUME NEW c \in Optional(Controllers)
    PROVE /\ Closed \in Popup /\ [Closed EXCEPT !.view = "loading"] \in Popup
          /\ [Closed EXCEPT !.asks = c] \in Popup
  BY NoneOptional DEF Closed, Popup

\* What the user and the browser do, and the messages that need no handler.
LEMMA UserTyped ==
    ASSUME WorkerTypes,
           PopupStep \/ ClearApiToken \/ Disconnect \/ UserStep \/ Startup \/ ContentLookup \/ StopWorker
    PROVE WorkerTypes'
  <1>a. /\ popup \in Popup /\ memory \in Memory /\ Restored \in Memory /\ inbox \subseteq Message
        /\ local \in Secrets /\ sync \in Settings
    BY RestoredTyped DEF WorkerTypes
  <1>b. /\ sync.controller \in Optional(Controllers) /\ local.validated \in BOOLEAN
        /\ popup.controller \in Optional(Controllers) /\ popup.asks \in Optional(Controllers)
    BY <1>a DEF Settings, Secrets, Popup
  <1>c. None \in Optional(Servers) /\ None \in Optional(Tokens) /\ None \in Optional(Controllers)
    BY NoneOptional
  <1>d. Servers \subseteq Optional(Servers) /\ Tokens \subseteq Optional(Tokens)
        /\ Controllers \subseteq Optional(Controllers)
    BY NoneOptional
  <1>1. CASE InitPopup
    <2>1. [popup EXCEPT !.traffic = "asked", !.hasToken = Restored.token # None,
              !.validated = local.validated, !.controller = sync.controller] \in Popup
      <3>1. (Restored.token # None) \in BOOLEAN
        OBVIOUS
      <3> QED
        BY <1>a, <1>b, <3>1, PopupEdits
    <2>2. [popup EXCEPT !.view = "setup"] \in Popup
      BY <1>a, <1>b, PopupEdits
    <2>3. FromPopup("traffic") \in Message
      BY <1>c, FromPopupTyped DEF Ops
    <2>4. popup' \in Popup /\ memory' \in Memory /\ inbox' \subseteq Message
      BY <1>1, <1>a, <2>1, <2>2, <2>3 DEF InitPopup, Send
    <2> QED
      BY <1>1, <2>4 DEF InitPopup, WorkerTypes
  <1>2. CASE ShowConnected
    <2>1. PICK view \in {"gate", "connected"} :
            popup' = [popup EXCEPT !.view = view, !.traffic = "none", !.hasToken = FALSE,
                         !.validated = FALSE, !.tested = None]
      BY <1>2 DEF ShowConnected
    <2>2. popup' \in Popup
      BY <1>a, <1>c, <2>1 DEF Popup
    <2>3. PICK upgrade \in BOOLEAN : local' = [local EXCEPT !.validated = @ \/ upgrade]
      BY <1>2 DEF ShowConnected
    <2>4. local' \in Secrets
      BY <1>a, <2>3 DEF Secrets
    <2> QED
      BY <1>2, <2>2, <2>4 DEF ShowConnected, WorkerTypes
  <1>3. CASE ClearApiToken
    <2>1. PICK m \in inbox : Takes(m) /\ popup' = Answered(m, TRUE)
      BY <1>3 DEF ClearApiToken, Msgs
    <2>2. memory' \in Memory
      BY <1>3, <1>a, <1>c, MemoryEdits DEF ClearApiToken
    <2> QED
      BY <1>3, <2>1, <2>2, AnsweredTyped, MarkedTyped DEF ClearApiToken, WorkerTypes, Takes
  <1>4. CASE Disconnect
    <2>1. PICK m \in inbox : Takes(m) /\ popup' = Answered(m, TRUE)
      BY <1>4 DEF Disconnect, Msgs
    <2>2. memory' \in Memory
      <3>1. [memory EXCEPT !.base = None, !.token = None] \in Memory
        BY <1>a, <1>c DEF Memory
      <3> QED
        BY <1>4, <3>1 DEF Disconnect
    <2> QED
      BY <1>4, <1>c, <2>1, <2>2, AnsweredTyped, MarkedTyped DEF Disconnect, WorkerTypes, Takes
  <1>5. CASE OpenPopup
    BY <1>5, <1>c, ClosedTyped DEF OpenPopup, WorkerTypes
  <1>6. CASE ClosePopup
    <2>1. \A m \in Message : [m EXCEPT !.popup = FALSE] \in Message
      BY DEF Message
    <2>2. \A k \in Task : [k EXCEPT !.msg.popup = FALSE] \in Task
      <3>1. ASSUME NEW k \in Task PROVE [k EXCEPT !.msg.popup = FALSE] \in Task
        <4>1. [k.msg EXCEPT !.popup = FALSE] \in Message
          BY <2>1 DEF Task
        <4>2. ASSUME NEW m \in Message PROVE [k EXCEPT !.msg = m] \in Task
          BY DEF Task
        <4>3. [k EXCEPT !.msg.popup = FALSE] = [k EXCEPT !.msg = [k.msg EXCEPT !.popup = FALSE]]
          BY DEF Task
        <4> QED
          BY <4>1, <4>2, <4>3
      <3> QED
        BY <3>1
    <2>3. inbox' \subseteq Message /\ task' \in [Tasks -> Task]
      BY <1>6, <1>a, <2>1, <2>2 DEF ClosePopup, WorkerTypes
    <2>4. popup' \in Popup
      BY <1>6, <1>b, ClosedTyped DEF ClosePopup
    <2> QED
      BY <1>6, <2>3, <2>4 DEF ClosePopup, WorkerTypes
  <1>7. CASE Connect
    <2>1. inbox' \subseteq Message
      BY <1>7, <1>a, <1>c, <1>d, FromPopupTyped DEF Connect, Send, Ops
    <2>2. popup' \in Popup
      BY <1>7, <1>a, <1>b, PopupEdits DEF Connect
    <2> QED
      BY <1>7, <2>1, <2>2 DEF Connect, WorkerTypes
  <1>8. CASE SaveToken
    <2>1. inbox' \subseteq Message
      BY <1>8, <1>a, <1>c, <1>d, FromPopupTyped DEF SaveToken, Send, Ops
    <2>2. popup' \in Popup
      BY <1>8, <1>a, <1>b, PopupEdits DEF SaveToken
    <2> QED
      BY <1>8, <2>1, <2>2 DEF SaveToken, WorkerTypes
  <1>9. CASE ClearToken
    <2>1. inbox' \subseteq Message
      BY <1>9, <1>a, <1>c, FromPopupTyped DEF ClearToken, Send, Ops
    <2> QED
      BY <1>9, <2>1 DEF ClearToken, WorkerTypes
  <1>10. CASE SaveController
    <2>1. PICK c \in Controllers :
            /\ sync' = [sync EXCEPT !.controller = c]
            /\ popup' = [popup EXCEPT !.waits = TRUE, !.asks = c, !.traffic = "edit"]
      BY <1>10 DEF SaveController
    <2>2. sync' \in Settings
      BY <1>a, <1>d, <2>1 DEF Settings
    <2>3. popup' \in Popup
      BY <1>a, <1>b, <1>d, <2>1, PopupEdits
    <2> QED
      BY <1>10, <2>2, <2>3 DEF SaveController, WorkerTypes
  <1>11. CASE GrantAccess
    <2>1. popup' \in Popup
      BY <1>11, <1>a, <1>b, PopupEdits DEF GrantAccess
    <2> QED
      BY <1>11, <2>1 DEF GrantAccess, WorkerTypes
  <1>12. CASE PermissionGranted
    <2>1. popup.asks \in Controllers
      BY <1>12, <1>b DEF PermissionGranted, Optional
    <2>2. inbox' \subseteq inbox \cup {[Msg("added") EXCEPT !.controller = popup.asks]}
                       \cup {[FromPopup("granted") EXCEPT !.controller = popup.asks]}
      BY <1>12 DEF PermissionGranted
    <2>3. inbox' \subseteq Message
      <3>1. /\ [Msg("added") EXCEPT !.controller = popup.asks] \in Message
            /\ [FromPopup("granted") EXCEPT !.controller = popup.asks] \in Message
        BY <1>b, <1>c, FromPopupTyped DEF Ops
      <3> QED
        BY <1>a, <2>2, <3>1
    <2>4. popup' \in Popup
      <3>1. [popup EXCEPT !.asks = None] \in Popup
        BY <1>a, <1>c DEF Popup
      <3> QED
        BY <1>12, <3>1 DEF PermissionGranted
    <2> QED
      BY <1>12, <2>1, <2>3, <2>4 DEF PermissionGranted, WorkerTypes
  <1>13. CASE PermissionDenied
    <2>1. popup' \in Popup
      BY <1>13, <1>a, <1>c, <1>b, PopupEdits DEF PermissionDenied
    <2> QED
      BY <1>13, <2>1 DEF PermissionDenied, WorkerTypes
  <1>14. CASE Reset
    <2>1. inbox' \subseteq Message
      BY <1>14, <1>a, <1>c, FromPopupTyped DEF Reset, Send, Ops
    <2>2. sync' \in Settings
      BY <1>14, <1>c DEF Reset, Settings
    <2> QED
      BY <1>14, <2>1, <2>2 DEF Reset, WorkerTypes
  <1>15. CASE Startup
    <2>1. inbox' \subseteq Message
      BY <1>15, <1>a, MsgTyped DEF Startup, Send, Ops
    <2> QED
      BY <1>15, <2>1 DEF Startup, WorkerTypes
  <1>16. CASE ContentLookup
    <2>1. inbox' \subseteq Message
      BY <1>16, <1>a, MsgTyped DEF ContentLookup, Send, Ops
    <2> QED
      BY <1>16, <2>1 DEF ContentLookup, WorkerTypes
  <1>17. CASE StopWorker
    <2>1. [base |-> None, token |-> None, discovering |-> FALSE] \in Memory
      BY <1>c DEF Memory
    <2>2. task' \in [Tasks -> Task]
      BY <1>17, IdleTyped DEF StopWorker
    <2>3. PICK result \in {"failed", popup.traffic} :
            popup' \in {popup, [popup EXCEPT !.waits = FALSE, !.traffic = result]}
      BY <1>17 DEF StopWorker
    <2>4. popup' \in Popup
      BY <1>a, <2>3 DEF Popup
    <2>5. kept' \in BOOLEAN
      BY <1>17 DEF StopWorker, WorkerTypes
    <2> QED
      BY <1>17, <2>1, <2>2, <2>4, <2>5 DEF StopWorker, WorkerTypes
  <1> QED
    BY <1>1, <1>2, <1>3, <1>4, <1>5, <1>6, <1>7, <1>8, <1>9, <1>10, <1>11, <1>12, <1>13,
       <1>14, <1>15, <1>16, <1>17 DEF PopupStep, UserStep

LEMMA WorkerTypesInit == Init => WorkerTypes
  <1> SUFFICES ASSUME Init PROVE WorkerTypes
    OBVIOUS
  <1>1. server \in Server /\ (Fresh \/ Known)
    BY DEF Init, WorkerInit
  <1>2. sync \in Settings /\ local \in Secrets /\ access \in SUBSET Controllers
        /\ scripts \in Optional(Controllers)
    <2>1. CASE Fresh
      BY <2>1 DEF Fresh, Settings, Secrets, Optional
    <2>2. CASE Known
      <3>1. server.accepts \subseteq Tokens
        BY <1>1 DEF Server
      <3>2. sync \in Settings
        BY <2>2 DEF Known, Settings, Optional, Servers
      <3>3. local \in Secrets
        BY <2>2, <3>1 DEF Known, Secrets, Optional
      <3>4. access \in SUBSET Controllers
        BY <2>2, <3>2 DEF Known, Settings, Optional
      <3>5. scripts \in Optional(Controllers)
        BY <2>2, <3>2 DEF Known, Settings, Optional
      <3> QED
        BY <3>2, <3>3, <3>4, <3>5
    <2> QED
      BY <1>1, <2>1, <2>2
  <1>3. memory \in Memory
    BY DEF Init, WorkerInit, Memory, Optional
  <1>4. task \in [Tasks -> Task]
    BY IdleTyped DEF Init, WorkerInit
  <1>5. inbox \in SUBSET Message
    BY MsgTyped DEF Init, WorkerInit, Ops
  <1>6. popup \in Popup /\ kept \in BOOLEAN
    BY ClosedTyped, NoneOptional DEF Init, WorkerInit
  <1> QED
    BY <1>1, <1>2, <1>3, <1>4, <1>5, <1>6 DEF WorkerTypes

LEMMA WorkerTypesStep == WorkerTypes /\ [Next]_vars => WorkerTypes'
  <1> SUFFICES ASSUME WorkerTypes, [Next]_vars PROVE WorkerTypes'
    OBVIOUS
  <1>1. CASE Worker(WorkerNext)
    <2>1. ASSUME NEW t \in Tasks, Handler(t) PROVE WorkerTypes'
      BY <2>1, DiscoveryTyped, RequestsTyped DEF Handler
    <2> QED
      BY <1>1, <2>1, UserTyped DEF Worker, WorkerNext, WorkerProgress
  <1>2. CASE UNCHANGED workerVars
    BY <1>2 DEF workerVars, WorkerTypes
  <1> QED
    BY <1>1, <1>2 DEF Next, vars, Tab, Badges

------------------------------------------------------------------------------
\* The worker: registrations that overlap.

\* A handler between its two calls of the browser has a controller to register; once
\* one was let through, something is registered or a handler is there to do it.
ScriptsInv ==
    /\ WorkerTypes
    /\ \A t \in Tasks : At(t, "register") => task[t].msg.controller \in Controllers
    /\ kept => scripts # None \/ \E t \in Tasks : At(t, "register")

\* A handler goes to another point than "register"; the other handlers stay.
Passes(t) ==
    /\ task' = task \/ task'[t].at # "register"
    /\ \A u \in Tasks : u # t => task'[u] = task[u]

LEMMA ScriptsElsewhere ==
    ASSUME ScriptsInv, UNCHANGED <<scripts, kept>>, WorkerTypes', NEW t \in Tasks,
           ~At(t, "register"), Passes(t)
    PROVE ScriptsInv'
  <1>1. \A u \in Tasks : At(u, "register")' <=> At(u, "register")
    BY DEF At, Passes
  <1>2. \A u \in Tasks : At(u, "register") => task'[u] = task[u]
    BY DEF At, Passes
  <1>3. \A u \in Tasks : At(u, "register")' => task'[u].msg.controller \in Controllers
    BY <1>1, <1>2 DEF ScriptsInv
  <1>4. kept' => scripts' # None \/ \E u \in Tasks : At(u, "register")'
    BY <1>1 DEF ScriptsInv
  <1> QED
    BY <1>3, <1>4 DEF ScriptsInv

LEMMA BeginsPasses ==
    ASSUME WorkerTypes, NEW t \in Tasks, NEW m, NEW point, Begins(t, m, point), point # "register"
    PROVE ~At(t, "register") /\ Passes(t)
  BY DEF WorkerTypes, Begins, At, Passes

LEMMA ContinuesPasses ==
    ASSUME WorkerTypes, NEW t \in Tasks, NEW m, NEW point, Continues(t, point, m), point # "register"
    PROVE Passes(t)
  BY DEF WorkerTypes, Continues, Passes

LEMMA ReturnsPasses ==
    ASSUME WorkerTypes, NEW t \in Tasks, NEW after, NEW ok, Returns(t, after, ok)
    PROVE Passes(t)
  BY DEF WorkerTypes, Returns, Idle, Passes

LEMMA HandlerScripts ==
    ASSUME ScriptsInv, WorkerTypes', NEW t \in Tasks, Handler(t) PROVE ScriptsInv'
  <1>0. WorkerTypes
    BY DEF ScriptsInv
  <1>1. CASE BeginDiscover(t) \/ BeginConnect(t) \/ BeginRequest(t) \/ BeginSaveToken(t)
             \/ BeginRegistration(t)
    <2>1. UNCHANGED <<scripts, kept>>
      BY <1>1 DEF BeginDiscover, BeginConnect, BeginRequest, BeginSaveToken, BeginRegistration
    <2>2. UNCHANGED task \/ (~At(t, "register") /\ Passes(t))
      <3>1. CASE BeginDiscover(t)
        <4>1. ASSUME NEW m, Begins(t, m, IF sync.url = None THEN "default" ELSE "stored")
              PROVE ~At(t, "register") /\ Passes(t)
          <5>1. (IF sync.url = None THEN "default" ELSE "stored") # "register"
            OBVIOUS
          <5> QED
            BY <1>0, <4>1, <5>1, BeginsPasses
        <4> QED
          BY <3>1, <4>1 DEF BeginDiscover
      <3>2. CASE BeginConnect(t)
        BY <1>0, <3>2, BeginsPasses DEF BeginConnect
      <3>3. CASE BeginRequest(t)
        BY <1>0, <3>3, BeginsPasses DEF BeginRequest
      <3>4. CASE BeginSaveToken(t)
        BY <1>0, <3>4, BeginsPasses DEF BeginSaveToken
      <3>5. CASE BeginRegistration(t)
        BY <1>0, <3>5, BeginsPasses DEF BeginRegistration
      <3> QED
        BY <1>1, <3>1, <3>2, <3>3, <3>4, <3>5
    <2>3. CASE UNCHANGED task
      BY <2>1, <2>3 DEF ScriptsInv, At
    <2> QED
      BY <2>1, <2>2, <2>3, ScriptsElsewhere
  <1>2. CASE DiscoverStored(t) \/ DiscoverDefault(t) \/ SetBaseUrl(t) \/ FetchUniFiSettings(t)
    <2>1. UNCHANGED <<scripts, kept>> /\ ~At(t, "register")
      BY <1>2 DEF DiscoverStored, DiscoverDefault, SetBaseUrl, FetchUniFiSettings, At
    <2>2. ASSUME NEW url, NEW c, OnConnected(t, url, c) PROVE Passes(t)
      <3>1. \/ Continues(t, "unifi", Sending([task[t].msg EXCEPT !.url = None, !.controller = c],
                                             [memory EXCEPT !.base = url]))
            \/ Continues(t, "permission", [task[t].msg EXCEPT !.url = None, !.controller = c])
        BY <2>2 DEF OnConnected
      <3> QED
        BY <1>0, <3>1, ContinuesPasses
    <2>3. Passes(t)
      <3>1. CASE DiscoverStored(t)
        BY <1>0, <2>2, <3>1, ContinuesPasses DEF DiscoverStored
      <3>2. CASE DiscoverDefault(t)
        BY <1>0, <2>2, <3>2, ReturnsPasses DEF DiscoverDefault
      <3>3. CASE SetBaseUrl(t)
        BY <1>0, <2>2, <3>3, ReturnsPasses DEF SetBaseUrl
      <3>4. CASE FetchUniFiSettings(t)
        BY <1>0, <3>4, ContinuesPasses, ReturnsPasses DEF FetchUniFiSettings
      <3> QED
        BY <1>2, <3>1, <3>2, <3>3, <3>4
    <2> QED
      BY <2>1, <2>3, ScriptsElsewhere
  <1>3. CASE RequestAnswered(t) \/ TokenAccepted(t) \/ TokenRejected(t) \/ TokenUntested(t)
    <2>1. UNCHANGED <<scripts, kept>> /\ ~At(t, "register")
      BY <1>3 DEF RequestAnswered, TokenAccepted, TokenRejected, TokenUntested, At
    <2>2. Passes(t)
      <3>1. CASE RequestAnswered(t)
        BY <1>0, <3>1 DEF RequestAnswered, WorkerTypes, Idle, Passes
      <3>2. CASE TokenAccepted(t)
        BY <1>0, <3>2, ContinuesPasses, ReturnsPasses DEF TokenAccepted
      <3>3. CASE TokenRejected(t)
        BY <1>0, <3>3, ReturnsPasses DEF TokenRejected
      <3>4. CASE TokenUntested(t)
        BY <1>0, <3>4, ReturnsPasses DEF TokenUntested
      <3> QED
        BY <1>3, <3>1, <3>2, <3>3, <3>4
    <2> QED
      BY <2>1, <2>2, ScriptsElsewhere
  <1>4. CASE Unregister(t)
    <2>0. ~At(t, "register") /\ access \subseteq Controllers
      BY <1>0, <1>4 DEF Unregister, At, WorkerTypes
    <2>1. CASE task[t].msg.controller \in access
      <3>1. task' = [task EXCEPT ![t] = [at |-> "register", msg |-> task[t].msg]]
        BY <1>4, <2>1 DEF Unregister, Continues
      <3>2. /\ task'[t].at = "register" /\ task'[t].msg = task[t].msg
            /\ \A u \in Tasks : u # t => task'[u] = task[u]
        BY <1>0, <3>1 DEF WorkerTypes
      <3>3. task[t].msg.controller \in Controllers
        BY <2>0, <2>1
      <3> QED
        BY <3>2, <3>3 DEF ScriptsInv, At
    <2>2. CASE task[t].msg.controller \notin access
      <3>1. Returns(t, memory, TRUE) /\ UNCHANGED <<scripts, kept>>
        BY <1>4, <2>2 DEF Unregister
      <3> QED
        BY <1>0, <2>0, <3>1, ReturnsPasses, ScriptsElsewhere
    <2> QED
      BY <2>1, <2>2
  <1>5. CASE Register(t)
    <2>1. task[t].msg.controller \in Controllers
      BY <1>5 DEF Register, ScriptsInv
    <2>2. task[t].msg.controller # None
      BY <2>1, ExtensionAssumption
    <2>3. scripts' # None
      BY <1>5, <2>2 DEF Register
    <2>4. task'[t].at # "register" /\ \A u \in Tasks : u # t => task'[u] = task[u]
      BY <1>0, <1>5 DEF Register, WorkerTypes, Returns, Idle
    <2> QED
      BY <2>3, <2>4 DEF ScriptsInv, At
  <1> QED
    BY <1>1, <1>2, <1>3, <1>4, <1>5 DEF Handler

LEMMA UserScripts ==
    ASSUME ScriptsInv, WorkerTypes',
           PopupStep \/ ClearApiToken \/ Disconnect \/ UserStep \/ Startup \/ ContentLookup \/ StopWorker
    PROVE ScriptsInv'
  <1>1. CASE Disconnect
    BY <1>1 DEF Disconnect, ScriptsInv, At
  <1>2. CASE StopWorker
    <2>1. \A u \in Tasks : task'[u].at = "idle"
      BY <1>2 DEF StopWorker, Idle
    <2> QED
      BY <1>2, <2>1 DEF StopWorker, ScriptsInv, At
  <1>3. CASE ClosePopup
    <2>1. UNCHANGED <<scripts, kept>>
      BY <1>3 DEF ClosePopup
    <2>2. ASSUME NEW u \in Tasks
          PROVE task'[u].at = task[u].at /\ task'[u].msg.controller = task[u].msg.controller
      <3>1. task'[u] = [task[u] EXCEPT !.msg.popup = FALSE] /\ task[u] \in Task
        BY <1>3 DEF ClosePopup, ScriptsInv, WorkerTypes
      <3> QED
        BY <3>1 DEF Task, Message
    <2> QED
      BY <2>1, <2>2 DEF ScriptsInv, At
  <1>4. CASE UNCHANGED <<scripts, kept, task>>
    BY <1>4 DEF ScriptsInv, At
  <1> QED
    BY <1>1, <1>2, <1>3, <1>4 DEF PopupStep, UserStep, InitPopup, ShowConnected, ClearApiToken,
       OpenPopup, Connect, SaveToken, ClearToken, SaveController, GrantAccess, PermissionGranted,
       PermissionDenied, Reset, Startup, ContentLookup

\* Once a registration was let through, the scripts are registered as soon as no
\* handler is between its two calls, in whatever order the handlers overlap.
THEOREM ScriptsSurviveOverlapAlways == Spec => []ScriptsSurviveOverlap
  <1>1. Init => ScriptsInv
    <2> SUFFICES ASSUME Init PROVE ScriptsInv
      OBVIOUS
    <2>1. kept = FALSE /\ \A t \in Tasks : task[t].at = "idle"
      BY DEF Init, WorkerInit, Idle
    <2> QED
      BY <2>1, WorkerTypesInit DEF ScriptsInv, At
  <1>2. ScriptsInv /\ [Next]_vars => ScriptsInv'
    <2> SUFFICES ASSUME ScriptsInv, [Next]_vars PROVE ScriptsInv'
      OBVIOUS
    <2>1. WorkerTypes'
      BY WorkerTypesStep DEF ScriptsInv
    <2>2. CASE Worker(WorkerNext)
      BY <2>1, <2>2, HandlerScripts, UserScripts DEF Worker, WorkerNext, WorkerProgress
    <2>3. CASE UNCHANGED workerVars
      BY <2>1, <2>3 DEF workerVars, ScriptsInv, At
    <2> QED
      BY <2>2, <2>3 DEF Next, vars, Tab, Badges
  <1>3. ScriptsInv => ScriptsSurviveOverlap
    BY DEF ScriptsInv, ScriptsSurviveOverlap
  <1> QED
    BY <1>1, <1>2, <1>3, PTL DEF Spec

------------------------------------------------------------------------------
\* The worker: what is known of a token.

ValidInv ==
    /\ WorkerTypes
    /\ ValidatedMeansAccepted
    /\ popup.traffic = "ok" => ~Refuses(popup.tested)

\* The answer the popup has, if it has one after the step, is one it had before.
SameAnswer == popup'.traffic = "ok" => popup.traffic = "ok" /\ popup'.tested = popup.tested

LEMMA ValidKept ==
    ASSUME ValidInv, WorkerTypes', UNCHANGED server, unproven \subseteq unproven', SameAnswer,
           \/ UNCHANGED local
           \/ local'.validated = FALSE
           \/ local'.token = None
           \/ ~Refuses(local'.token)
           \/ local'.token \in unproven'
    PROVE ValidInv'
  BY DEF ValidInv, ValidatedMeansAccepted, Refuses, SameAnswer

LEMMA SameAnswers ==
    ASSUME WorkerTypes
    PROVE /\ \A m, ok : popup' = Answered(m, ok) => SameAnswer
          /\ \A t, point, m : Continues(t, point, m) => SameAnswer
          /\ \A t, after, ok : Returns(t, after, ok) => SameAnswer
          /\ \A t, url, c : OnConnected(t, url, c) => SameAnswer
          /\ UNCHANGED popup => SameAnswer
  <1>0. popup \in Popup
    BY DEF WorkerTypes
  <1>1. ASSUME NEW m, NEW ok
        PROVE Answered(m, ok).traffic = "ok" =>
                popup.traffic = "ok" /\ Answered(m, ok).tested = popup.tested
    BY <1>0 DEF Answered, Popup
  <1>2. \A m, ok : popup' = Answered(m, ok) => SameAnswer
    BY <1>1 DEF SameAnswer
  <1>3. UNCHANGED popup => SameAnswer
    BY DEF SameAnswer
  <1>4. \A t, point, m : Continues(t, point, m) => SameAnswer
    BY <1>3 DEF Continues
  <1>5. \A t, after, ok : Returns(t, after, ok) => SameAnswer
    BY <1>2 DEF Returns
  <1>6. \A t, url, c : OnConnected(t, url, c) => SameAnswer
    BY <1>4 DEF OnConnected
  <1> QED
    BY <1>2, <1>3, <1>4, <1>5, <1>6

LEMMA HandlerValid ==
    ASSUME ValidInv, WorkerTypes', NEW t \in Tasks, Handler(t) PROVE ValidInv'
  <1>0. WorkerTypes /\ UNCHANGED server
    BY DEF ValidInv, Handler, BeginDiscover, DiscoverStored, DiscoverDefault, BeginConnect,
           SetBaseUrl, FetchUniFiSettings, BeginRegistration, Unregister, Register, BeginRequest,
           RequestAnswered, BeginSaveToken, TokenAccepted, TokenRejected, TokenUntested
  <1>m. Marked.validated = FALSE
    BY <1>0 DEF Marked, WorkerTypes, Secrets
  <1>1. CASE BeginDiscover(t) \/ BeginConnect(t) \/ BeginRequest(t) \/ BeginRegistration(t)
    BY <1>0, <1>1, SameAnswers, ValidKept
    DEF BeginDiscover, BeginConnect, BeginRequest, BeginRegistration
  <1>2. CASE DiscoverStored(t) \/ DiscoverDefault(t) \/ SetBaseUrl(t)
    <2>1. UNCHANGED <<local, unproven>>
      BY <1>2 DEF DiscoverStored, DiscoverDefault, SetBaseUrl
    <2>2. SameAnswer
      BY <1>0, <1>2, SameAnswers DEF DiscoverStored, DiscoverDefault, SetBaseUrl
    <2> QED
      BY <1>0, <2>1, <2>2, ValidKept
  <1>3. CASE FetchUniFiSettings(t)
    <2>1. UNCHANGED unproven /\ (UNCHANGED local \/ local' = Marked)
      BY <1>3 DEF FetchUniFiSettings
    <2>2. SameAnswer
      BY <1>0, <1>3, SameAnswers DEF FetchUniFiSettings
    <2> QED
      BY <1>0, <1>m, <2>1, <2>2, ValidKept
  <1>4. CASE Unregister(t) \/ Register(t)
    <2>1. UNCHANGED <<local, unproven>>
      BY <1>4 DEF Unregister, Register
    <2>2. SameAnswer
      BY <1>0, <1>4, SameAnswers DEF Unregister, Register
    <2> QED
      BY <1>0, <2>1, <2>2, ValidKept
  <1>5. CASE RequestAnswered(t)
    <2> DEFINE m == task[t].msg
    <2>0. popup \in Popup /\ UNCHANGED unproven
      BY <1>0, <1>5 DEF WorkerTypes, RequestAnswered
    <2>1. PICK result \in {"failed", "refused", "ok"} :
            /\ popup' = IF m.popup THEN [popup EXCEPT !.traffic = result, !.tested = m.token]
                        ELSE popup
            /\ result = "ok" => ~Refuses(m.token)
            /\ UNCHANGED local \/ local' = Marked
      BY <1>5 DEF RequestAnswered
    <2>2. UNCHANGED local \/ local'.validated = FALSE
      BY <1>m, <2>1
    <2>3. popup'.traffic = "ok" => ~Refuses(popup'.tested)
      <3>1. CASE m.popup
        BY <2>0, <2>1, <3>1 DEF Popup
      <3>2. CASE ~m.popup
        BY <2>1, <3>2 DEF ValidInv
      <3> QED
        BY <3>1, <3>2
    <2> QED
      BY <1>0, <2>0, <2>2, <2>3 DEF ValidInv, ValidatedMeansAccepted, Refuses
  <1>6. CASE BeginSaveToken(t)
    <2>1. PICK k \in inbox :
            \/ /\ local' = [token |-> k.token, validated |-> TRUE]
               /\ unproven' = unproven \cup {k.token}
               /\ popup' = Answered(k, TRUE)
            \/ UNCHANGED <<local, popup, unproven>>
      BY <1>6 DEF BeginSaveToken, Msgs
    <2>2. SameAnswer
      BY <1>0, <2>1, SameAnswers
    <2>3. CASE UNCHANGED <<local, popup, unproven>>
      BY <1>0, <2>2, <2>3, ValidKept
    <2>4. CASE local' = [token |-> k.token, validated |-> TRUE] /\ unproven' = unproven \cup {k.token}
      <3>1. local'.token = k.token /\ k.token \in unproven' /\ unproven \subseteq unproven'
        BY <2>4
      <3> QED
        BY <1>0, <2>2, <3>1, ValidKept
    <2> QED
      BY <2>1, <2>3, <2>4
  <1>7. CASE TokenAccepted(t)
    <2>1. UNCHANGED unproven /\ ~Refuses(local'.token)
      <3>1. ~Refuses(task[t].msg.token) /\ local' = [token |-> task[t].msg.token, validated |-> TRUE]
            /\ UNCHANGED unproven
        BY <1>7 DEF TokenAccepted
      <3>2. local'.token = task[t].msg.token
        BY <3>1
      <3> QED
        BY <3>1, <3>2
    <2>2. SameAnswer
      BY <1>0, <1>7, SameAnswers DEF TokenAccepted
    <2> QED
      BY <1>0, <2>1, <2>2, ValidKept
  <1>8. CASE TokenRejected(t) \/ TokenUntested(t)
    <2>1. UNCHANGED unproven /\ local'.validated = FALSE
      <3>1. CASE TokenRejected(t)
        BY <1>m, <3>1 DEF TokenRejected
      <3>2. CASE TokenUntested(t)
        BY <3>2 DEF TokenUntested
      <3> QED
        BY <1>8, <3>1, <3>2
    <2>2. SameAnswer
      BY <1>0, <1>8, SameAnswers DEF TokenRejected, TokenUntested
    <2> QED
      BY <1>0, <2>1, <2>2, ValidKept
  <1> QED
    BY <1>1, <1>2, <1>3, <1>4, <1>5, <1>6, <1>7, <1>8 DEF Handler

LEMMA UserValid ==
    ASSUME ValidInv, WorkerTypes',
           PopupStep \/ ClearApiToken \/ Disconnect \/ UserStep \/ Startup \/ ContentLookup \/ StopWorker
    PROVE ValidInv'
  <1>0. WorkerTypes /\ popup \in Popup /\ local \in Secrets
    BY DEF ValidInv, WorkerTypes
  <1>1. CASE ShowConnected
    <2>0. UNCHANGED server /\ unproven \subseteq unproven'
      BY <1>1 DEF ShowConnected
    <2>1. PICK upgrade \in BOOLEAN :
            /\ upgrade => popup.traffic = "ok"
            /\ local' = [local EXCEPT !.validated = @ \/ upgrade]
            /\ unproven' = IF upgrade THEN unproven \cup ({local.token} \ {popup.tested, None})
                           ELSE unproven
      BY <1>1 DEF ShowConnected
    <2>2. SameAnswer
      <3>1. PICK view : popup' = [popup EXCEPT !.view = view, !.traffic = "none",
                                     !.hasToken = FALSE, !.validated = FALSE, !.tested = None]
        BY <1>1 DEF ShowConnected
      <3> QED
        BY <1>0, <3>1 DEF SameAnswer, Popup
    <2>3. local'.token = local.token
      BY <1>0, <2>1 DEF Secrets
    <2>4. CASE upgrade
      <3>1. \/ local.token = None
            \/ local.token = popup.tested
            \/ local.token \in unproven'
        BY <2>1, <2>4
      <3>2. ~Refuses(popup.tested)
        BY <2>1, <2>4 DEF ValidInv
      <3> QED
        BY <2>0, <2>2, <2>3, <3>1, <3>2, ValidKept
    <2>5. CASE ~upgrade
      <3>1. local' = local
        BY <1>0, <2>1, <2>5 DEF Secrets
      <3> QED
        BY <2>0, <2>2, <3>1, ValidKept
    <2> QED
      BY <2>4, <2>5
  <1>2. CASE InitPopup
    <2>1. UNCHANGED <<server, local, unproven>>
      BY <1>2 DEF InitPopup
    <2>2. SameAnswer
      BY <1>0, <1>2 DEF InitPopup, SameAnswer, Popup
    <2> QED
      BY <2>1, <2>2, ValidKept
  <1>3. CASE ClearApiToken \/ Disconnect
    <2>1. UNCHANGED <<server, unproven>> /\ local' = Forgotten
      BY <1>3 DEF ClearApiToken, Disconnect
    <2>3. Forgotten.token = None
      BY DEF Forgotten
    <2>2. SameAnswer
      BY <1>0, <1>3, SameAnswers DEF ClearApiToken, Disconnect
    <2> QED
      BY <2>1, <2>2, <2>3, ValidKept
  <1>4. CASE UserStep
    <2>1. UNCHANGED <<server, local, unproven>>
      BY <1>4 DEF UserStep, OpenPopup, ClosePopup, Connect, SaveToken, ClearToken, SaveController,
                  GrantAccess, PermissionGranted, PermissionDenied, Reset
    <2>2. SameAnswer
      <3>1. CASE OpenPopup \/ ClosePopup
        BY <3>1 DEF OpenPopup, ClosePopup, Closed, SameAnswer
      <3>2. CASE Connect \/ SaveToken \/ ClearToken \/ GrantAccess \/ PermissionGranted \/ Reset
        BY <1>0, <3>2 DEF Connect, SaveToken, ClearToken, GrantAccess, PermissionGranted, Reset,
                          SameAnswer, Popup
      <3>3. CASE SaveController
        BY <1>0, <3>3 DEF SaveController, SameAnswer, Popup
      <3>4. CASE PermissionDenied
        BY <1>0, <3>4 DEF PermissionDenied, SameAnswer, Popup
      <3> QED
        BY <1>4, <3>1, <3>2, <3>3, <3>4 DEF UserStep
    <2> QED
      BY <2>1, <2>2, ValidKept
  <1>5. CASE Startup \/ ContentLookup
    BY <1>0, <1>5, SameAnswers, ValidKept DEF Startup, ContentLookup
  <1>6. CASE StopWorker
    <2>1. UNCHANGED <<server, local, unproven>>
      BY <1>6 DEF StopWorker
    <2>2. SameAnswer
      BY <1>0, <1>6 DEF StopWorker, SameAnswer, Popup
    <2> QED
      BY <2>1, <2>2, ValidKept
  <1> QED
    BY <1>1, <1>2, <1>3, <1>4, <1>5, <1>6 DEF PopupStep

\* A token counts as validated only if the server does not refuse it, but for the ones
\* saved without a server and the ones upgraded for another's sake.
THEOREM ValidatedMeansAcceptedAlways == Spec => []ValidatedMeansAccepted
  <1>1. Init => ValidInv
    <2> SUFFICES ASSUME Init PROVE ValidInv
      OBVIOUS
    <2>1. popup.traffic = "none"
      BY DEF Init, WorkerInit, Closed
    <2>2. local.token = None \/ ~Refuses(local.token)
      <3>1. CASE Fresh
        BY <3>1 DEF Fresh
      <3>2. CASE Known
        BY <3>2 DEF Known, Optional, Refuses
      <3> QED
        BY <3>1, <3>2 DEF Init, WorkerInit
    <2> QED
      BY <2>1, <2>2, WorkerTypesInit DEF ValidInv, ValidatedMeansAccepted
  <1>2. ValidInv /\ [Next]_vars => ValidInv'
    <2> SUFFICES ASSUME ValidInv, [Next]_vars PROVE ValidInv'
      OBVIOUS
    <2>1. WorkerTypes'
      BY WorkerTypesStep DEF ValidInv
    <2>2. CASE Worker(WorkerNext)
      BY <2>1, <2>2, HandlerValid, UserValid DEF Worker, WorkerNext, WorkerProgress
    <2>3. CASE UNCHANGED workerVars
      BY <2>1, <2>3 DEF workerVars, ValidInv, ValidatedMeansAccepted, Refuses
    <2> QED
      BY <2>2, <2>3 DEF Next, vars, Tab, Badges
  <1>3. ValidInv => ValidatedMeansAccepted
    BY DEF ValidInv
  <1> QED
    BY <1>1, <1>2, <1>3, PTL DEF Spec

------------------------------------------------------------------------------
\* The badges: the cache.

\* A set of numbers that has 0, and with each number the next, has them all.
LEMMA NatsFrom ==
    ASSUME NEW S, 0 \in S, \A n \in Nat : n \in S => n + 1 \in S
    PROVE  Nat \subseteq S
  <1> DEFINE T == Nat \ S
             R == OpToRel(<, Nat)
  <1> SUFFICES ASSUME T # {} PROVE FALSE
    OBVIOUS
  <1>1. PICK x \in T : \A y \in T : ~(<<y, x>> \in R)
    <2>1. T \subseteq Nat
      OBVIOUS
    <2> HIDE DEF T, R
    <2>2. IsWellFoundedOn(R, Nat)
      BY NatLessThanWellFounded DEF R
    <2> QED
      BY <2>1, <2>2, WFMin
  <1>2. x \in Nat /\ x # 0
    OBVIOUS
  <1>3. x - 1 \in Nat /\ x - 1 \in T
    BY <1>2
  <1>4. <<x - 1, x>> \in R
    BY <1>2, <1>3 DEF OpToRel
  <1> QED
    BY <1>1, <1>3, <1>4

Entries == [addr : Threats, fresh : BOOLEAN]

\* No address has two places.
Once(entries) == \A i, j \in 1..Len(entries) : entries[i].addr = entries[j].addr => i = j

\* What the cache may be: it holds only addresses the server knows, each once.
GoodCaches == {c \in Seq(Entries) : Len(c) <= MaxCache /\ Once(c)}

LEMMA AppendOnce ==
    ASSUME NEW c \in Seq(Entries), Once(c), NEW e \in Entries,
           \A i \in 1..Len(c) : c[i].addr # e.addr
    PROVE  Append(c, e) \in Seq(Entries) /\ Len(Append(c, e)) = Len(c) + 1 /\ Once(Append(c, e))
  <1> DEFINE a == Append(c, e)
  <1>1. /\ a \in Seq(Entries) /\ Len(a) = Len(c) + 1 /\ Len(c) \in Nat
        /\ \A i \in 1..Len(c) : a[i] = c[i]
        /\ a[Len(c) + 1] = e
    BY AppendProperties, LenProperties
  <1> HIDE DEF a
  <1>2. ASSUME NEW i \in 1..Len(a), NEW j \in 1..Len(a), a[i].addr = a[j].addr
        PROVE  i = j
    <2>1. CASE i \in 1..Len(c) /\ j \in 1..Len(c)
      BY <1>1, <1>2, <2>1 DEF Once
    <2>2. CASE i = Len(c) + 1 /\ j \in 1..Len(c)
      BY <1>1, <1>2, <2>2
    <2>3. CASE i \in 1..Len(c) /\ j = Len(c) + 1
      BY <1>1, <1>2, <2>3
    <2> QED
      BY <1>1, <2>1, <2>2, <2>3
  <1> QED
    BY <1>1, <1>2 DEF Once, a

\* The entries without the i-th one.
LEMMA RemovedAt ==
    ASSUME NEW c \in Seq(Entries), NEW i \in 1..Len(c)
    PROVE  /\ RemoveAt(c, i) \in Seq(Entries)
           /\ Len(RemoveAt(c, i)) = Len(c) - 1
           /\ \A j \in 1..(Len(c) - 1) : RemoveAt(c, i)[j] = IF j < i THEN c[j] ELSE c[j + 1]
  <1> DEFINE l == SubSeq(c, 1, i - 1)
             r == SubSeq(c, i + 1, Len(c))
  <1>0. Len(c) \in Nat /\ i \in Nat /\ i >= 1 /\ i <= Len(c) /\ \A j \in 1..Len(c) : c[j] \in Entries
    BY LenProperties, ElementOfSeq
  <1>1. l \in Seq(Entries) /\ Len(l) = i - 1 /\ \A j \in 1..(i - 1) : l[j] = c[j]
    <2>1. \A j \in 1..(i - 1) : c[j] \in Entries
      BY <1>0
    <2>2. /\ l \in Seq(Entries) /\ Len(l) = IF 1 <= i - 1 THEN i - 1 - 1 + 1 ELSE 0
          /\ \A j \in 1..(i - 1 - 1 + 1) : l[j] = c[1 + j - 1]
      BY <1>0, <2>1, SubSeqProperties
    <2> HIDE DEF l
    <2> QED
      BY <1>0, <2>2
  <1>2. r \in Seq(Entries) /\ Len(r) = Len(c) - i /\ \A j \in 1..(Len(c) - i) : r[j] = c[i + j]
    <2>1. \A j \in (i + 1)..Len(c) : c[j] \in Entries
      BY <1>0
    <2>2. /\ r \in Seq(Entries) /\ Len(r) = IF i + 1 <= Len(c) THEN Len(c) - (i + 1) + 1 ELSE 0
          /\ \A j \in 1..(Len(c) - (i + 1) + 1) : r[j] = c[i + 1 + j - 1]
      BY <1>0, <2>1, SubSeqProperties
    <2> HIDE DEF r
    <2> QED
      BY <1>0, <2>2
  <1>3. RemoveAt(c, i) = l \o r
    BY DEF RemoveAt
  <1> HIDE DEF l, r
  <1>4. /\ l \o r \in Seq(Entries) /\ Len(l \o r) = Len(l) + Len(r)
        /\ \A j \in 1..(Len(l) + Len(r)) : (l \o r)[j] = IF j <= Len(l) THEN l[j] ELSE r[j - Len(l)]
    BY <1>1, <1>2, ConcatProperties
  <1>5. ASSUME NEW j \in 1..(Len(c) - 1)
        PROVE  (l \o r)[j] = IF j < i THEN c[j] ELSE c[j + 1]
    <2>1. CASE j < i
      BY <1>0, <1>1, <1>2, <1>4, <2>1
    <2>2. CASE j >= i
      <3>1. j - (i - 1) \in 1..(Len(c) - i) /\ i + (j - (i - 1)) = j + 1
        BY <1>0, <2>2
      <3>2. r[j - (i - 1)] = c[j + 1]
        BY <1>2, <3>1
      <3>3. ~(j <= Len(l)) /\ j \in 1..(Len(l) + Len(r)) /\ j - Len(l) = j - (i - 1)
        BY <1>0, <1>1, <1>2, <2>2
      <3>4. (l \o r)[j] = r[j - Len(l)]
        BY <1>4, <3>3
      <3>5. (l \o r)[j] = c[j + 1]
        BY <3>2, <3>3, <3>4
      <3> QED
        BY <1>0, <2>2, <3>5
    <2>3. j < i \/ j >= i
      BY <1>0
    <2> QED
      BY <2>1, <2>2, <2>3
  <1> QED
    BY <1>0, <1>1, <1>2, <1>3, <1>4, <1>5

\* One address is cached: the cache stays within its limit, and has it once.
LEMMA CachedGood ==
    ASSUME NEW c \in GoodCaches, NEW addr \in Threats
    PROVE  Cached(c, addr) \in GoodCaches
  <1> DEFINE old == Places(c, addr)
             room == IF old # {} THEN RemoveAt(c, CHOOSE i \in old : TRUE)
                     ELSE IF Len(c) >= MaxCache THEN Tail(c) ELSE c
  <1>0. /\ c \in Seq(Entries) /\ Len(c) \in Nat /\ Len(c) <= MaxCache /\ Once(c)
        /\ MaxCache \in Nat \ {0}
    BY LenProperties, ThreatBadgesAssumption DEF GoodCaches
  <1>1. Entry(addr) \in Entries /\ Entry(addr).addr = addr
    BY DEF Entry, Entries
  <1>2. /\ room \in Seq(Entries) /\ Len(room) \in Nat /\ Len(room) < MaxCache /\ Once(room)
        /\ \A i \in 1..Len(room) : room[i].addr # addr
    <2>1. CASE old # {}
      <3> DEFINE k == CHOOSE i \in old : TRUE
                 r == RemoveAt(c, k)
      <3>1. k \in 1..Len(c) /\ c[k].addr = addr
        BY <2>1 DEF Places
      <3>2. room = r
        BY <2>1
      <3> HIDE DEF k, old, room
      <3>3. /\ r \in Seq(Entries) /\ Len(r) = Len(c) - 1
            /\ \A j \in 1..(Len(c) - 1) : r[j] = IF j < k THEN c[j] ELSE c[j + 1]
        BY <1>0, <3>1, RemovedAt
      <3> HIDE DEF r
      <3> DEFINE from(j) == IF j < k THEN j ELSE j + 1
      <3>4. ASSUME NEW j \in 1..(Len(c) - 1)
            PROVE  from(j) \in 1..Len(c) /\ from(j) # k /\ r[j] = c[from(j)]
        BY <1>0, <3>1, <3>3
      <3>5. ASSUME NEW j \in 1..(Len(c) - 1) PROVE r[j].addr # addr
        BY <1>0, <3>1, <3>4 DEF Once
      <3>6. ASSUME NEW i \in 1..(Len(c) - 1), NEW j \in 1..(Len(c) - 1), r[i].addr = r[j].addr
            PROVE  i = j
        <4>1. from(i) = from(j)
          BY <1>0, <3>4, <3>6 DEF Once
        <4> QED
          BY <1>0, <3>1, <4>1
      <3>7. Len(r) \in Nat /\ Len(r) < MaxCache
        BY <1>0, <3>1, <3>3
      <3> QED
        BY <3>2, <3>3, <3>5, <3>6, <3>7 DEF Once
    <2>2. CASE old = {} /\ Len(c) >= MaxCache
      <3> DEFINE r == Tail(c)
      <3>1. room = r
        BY <2>2
      <3>2. c # <<>>
        BY <1>0, <2>2
      <3>3. r \in Seq(Entries) /\ Len(r) = Len(c) - 1 /\ \A i \in 1..Len(r) : r[i] = c[i + 1]
        BY <1>0, <3>2, HeadTailProperties
      <3> HIDE DEF r, room
      <3>4. \A i \in 1..Len(c) : c[i].addr # addr
        BY <2>2 DEF Places
      <3>5. Len(r) \in Nat /\ Len(r) < MaxCache /\ \A i \in 1..Len(r) : i + 1 \in 1..Len(c)
        BY <1>0, <2>2, <3>3
      <3>6. Once(r)
        <4> SUFFICES ASSUME NEW i \in 1..Len(r), NEW j \in 1..Len(r), r[i].addr = r[j].addr
                     PROVE  i = j
          BY DEF Once
        <4>1. i + 1 = j + 1
          BY <1>0, <3>3, <3>5 DEF Once
        <4> QED
          BY <3>5, <4>1
      <3> QED
        BY <3>1, <3>3, <3>4, <3>5, <3>6
    <2>3. CASE old = {} /\ Len(c) < MaxCache
      BY <1>0, <2>3 DEF Places
    <2> QED
      BY <1>0, <2>1, <2>2, <2>3
  <1>3. Cached(c, addr) = Append(room, Entry(addr))
    BY DEF Cached
  <1> HIDE DEF room, old
  <1>4. Len(room) + 1 <= MaxCache
    BY <1>0, <1>2
  <1> QED
    BY <1>1, <1>2, <1>3, <1>4, AppendOnce DEF GoodCaches

\* So are the addresses of an answer, in whatever order it names them.
LEMMA CachedAllGood ==
    ASSUME NEW c \in GoodCaches, NEW addrs \in Seq(Threats)
    PROVE  CachedAll(c, addrs) \in GoodCaches
  <1> DEFINE n == Len(addrs)
             Def(g, m) == g = [i \in 0..m |-> IF i = 0 THEN c ELSE Cached(g[i - 1], addrs[i])]
             S == {m \in Nat : \E g : Def(g, m)}
  <1>0. n \in Nat /\ \A i \in 1..n : addrs[i] \in Threats
    BY LenProperties, ElementOfSeq
  <1>1. Nat \subseteq S
    <2>1. 0 \in S
      <3>1. Def([i \in 0..0 |-> c], 0)
        OBVIOUS
      <3> QED
        BY <3>1
    <2>2. ASSUME NEW m \in Nat, m \in S PROVE m + 1 \in S
      <3>1. PICK g : Def(g, m)
        BY <2>2
      <3> DEFINE h == [i \in 0..(m + 1) |-> IF i = m + 1 THEN Cached(g[m], addrs[i]) ELSE g[i]]
      <3>2. ASSUME NEW i \in 0..(m + 1)
            PROVE  h[i] = IF i = 0 THEN c ELSE Cached(h[i - 1], addrs[i])
        <4>1. CASE i = m + 1
          <5>1. h[i] = Cached(g[m], addrs[i]) /\ h[i - 1] = g[m] /\ i # 0
            BY <4>1
          <5> QED
            BY <5>1
        <4>2. CASE i \in 0..m
          <5>1. h[i] = g[i] /\ (i # 0 => h[i - 1] = g[i - 1])
            BY <4>2
          <5>2. g[i] = IF i = 0 THEN c ELSE Cached(g[i - 1], addrs[i])
            BY <3>1, <4>2
          <5> QED
            BY <5>1, <5>2
        <4> QED
          BY <4>1, <4>2
      <3>3. h = [i \in 0..(m + 1) |-> h[i]]
        OBVIOUS
      <3> HIDE DEF h
      <3>4. h = [i \in 0..(m + 1) |-> IF i = 0 THEN c ELSE Cached(h[i - 1], addrs[i])]
        BY <3>2, <3>3, Zenon
      <3>5. Def(h, m + 1)
        BY <3>4
      <3> HIDE DEF Def
      <3> QED
        BY <3>5
    <2> HIDE DEF S
    <2> QED
      BY <2>1, <2>2, NatsFrom
  <1>2. \E g : Def(g, n)
    BY <1>0, <1>1
  <1> DEFINE f == CHOOSE g : Def(g, n)
  <1>3. Def(f, n)
    BY <1>2
  <1>4. CachedAll(c, addrs) = f[n]
    BY DEF CachedAll
  <1> HIDE DEF f
  <1> DEFINE U == {m \in Nat : m <= n => f[m] \in GoodCaches}
  <1>5. Nat \subseteq U
    <2>1. 0 \in U
      BY <1>0, <1>3
    <2>2. ASSUME NEW m \in Nat, m \in U PROVE m + 1 \in U
      <3> SUFFICES ASSUME m + 1 <= n PROVE f[m + 1] \in GoodCaches
        OBVIOUS
      <3>1. f[m] \in GoodCaches /\ addrs[m + 1] \in Threats
        BY <1>0, <2>2
      <3>2. f[m + 1] = Cached(f[m], addrs[m + 1])
        BY <1>0, <1>3
      <3> QED
        BY <3>1, <3>2, CachedGood
    <2> HIDE DEF U
    <2> QED
      BY <2>1, <2>2, NatsFrom
  <1> QED
    BY <1>0, <1>4, <1>5

------------------------------------------------------------------------------
\* The badges: the lookups.

\* What a lookup knows: what it has is known to the server, and without an error only
\* the addresses that are left can be missing; without a server nothing is.
LookupKnows(l) ==
    /\ l \in Lookup
    /\ l.results \subseteq l.asked \cap Threats
    /\ ~l.error /\ l.served => l.asked \cap Threats \subseteq l.results \cup l.left
    /\ ~l.served => l.results = {} /\ l.left = {}
    /\ l.at = "done" => l.left = {}

BadgesInv ==
    /\ shows \in [Cells -> Addrs \cup {NoAddr}] /\ badge \in [Cells -> Seq(Addrs)]
    /\ debounce \in BOOLEAN /\ processing \in BOOLEAN
    /\ found \in SUBSET [cell : Cells, addr : Addrs]
    /\ connected \in BOOLEAN /\ changes \in 0..MaxChanges
    /\ cache \in GoodCaches
    /\ lookup \in [Callers -> Lookup]
    /\ \A k \in Callers : LookupKnows(lookup[k])

LEMMA BadgesInvMeans ==
    ASSUME BadgesInv PROVE BadgesTypeOK /\ CacheWithinLimit /\ AnswersComplete
  <1>1. BadgesTypeOK
    <2>1. Entries \subseteq [addr : Addrs, fresh : BOOLEAN]
      BY ThreatBadgesAssumption DEF Entries
    <2>2. cache \in Seq([addr : Addrs, fresh : BOOLEAN])
      BY <2>1, SeqMonotonic DEF BadgesInv, GoodCaches
    <2> QED
      BY <2>2 DEF BadgesInv, BadgesTypeOK
  <1>2. CacheWithinLimit
    BY DEF BadgesInv, GoodCaches, Once, CacheWithinLimit
  <1>3. AnswersComplete
    BY DEF BadgesInv, LookupKnows, AnswersComplete
  <1> QED
    BY <1>1, <1>2, <1>3

LEMMA NoLookupKnows == LookupKnows(NoLookup)
  <1>1. NoLookup \in Lookup
    BY DEF NoLookup, Lookup
  <1> QED
    BY <1>1 DEF LookupKnows, NoLookup

LEMMA BadgesInitInv == Init => BadgesInv
  <1> SUFFICES ASSUME Init PROVE BadgesInv
    OBVIOUS
  <1>1. <<>> \in GoodCaches
    BY EmptySeq, ThreatBadgesAssumption DEF GoodCaches, Once
  <1>2. 0 \in 0..MaxChanges
    BY ThreatBadgesAssumption
  <1>3. <<>> \in Seq(Addrs)
    BY EmptySeq
  <1>4. /\ lookup = [k \in Callers |-> NoLookup] /\ cache = <<>> /\ changes = 0 /\ found = {}
        /\ debounce = TRUE /\ processing = FALSE /\ badge = [c \in Cells |-> <<>>]
        /\ connected \in BOOLEAN
        /\ shows \in [Cells -> Addrs \cup {NoAddr}]
    BY DEF Init, BadgesInit
  <1>5. NoLookup \in Lookup
    BY DEF NoLookup, Lookup
  <1> QED
    BY <1>1, <1>2, <1>3, <1>4, <1>5, NoLookupKnows DEF BadgesInv

LEMMA ChangeTyped == ASSUME BadgesInv, Change PROVE changes' \in 0..MaxChanges
  BY ThreatBadgesAssumption DEF BadgesInv, Change

\* One caller's lookup changes.
LEMMA LookupOne ==
    ASSUME BadgesInv, NEW k \in Callers, NEW l, LookupKnows(l),
           lookup' = [lookup EXCEPT ![k] = l]
    PROVE  lookup' \in [Callers -> Lookup] /\ \A c \in Callers : LookupKnows(lookup'[c])
  <1>1. l \in Lookup /\ lookup \in [Callers -> Lookup]
    BY DEF LookupKnows, BadgesInv
  <1>2. lookup' \in [Callers -> Lookup] /\ \A c \in Callers : lookup'[c] = IF c = k THEN l ELSE lookup[c]
    BY <1>1
  <1> QED
    BY <1>2 DEF BadgesInv

\* What the cache has of the addresses asked for is known to the server.
LEMMA HitsKnown == ASSUME BadgesInv, NEW addrs PROVE Hits(addrs) \subseteq addrs \cap Threats
  <1> SUFFICES ASSUME NEW a \in addrs, [addr |-> a, fresh |-> TRUE] \in ToSet(cache)
               PROVE  a \in Threats
    BY DEF Hits
  <1>1. PICK i \in DOMAIN cache : cache[i] = [addr |-> a, fresh |-> TRUE]
    BY DEF ToSet
  <1>2. cache \in Seq(Entries)
    BY DEF BadgesInv, GoodCaches
  <1>3. cache[i] \in Entries
    BY <1>2, ElementOfSeq, LenProperties
  <1> QED
    BY <1>1, <1>3 DEF Entries

LEMMA BeginLookupKnows ==
    ASSUME BadgesInv, NEW k \in Callers, NEW addrs \in SUBSET Addrs, BeginLookup(k, addrs)
    PROVE  lookup' \in [Callers -> Lookup] /\ \A c \in Callers : LookupKnows(lookup'[c])
  <1> DEFINE l == [at |-> IF addrs \subseteq Hits(addrs) THEN "done" ELSE "fetching", asked |-> addrs,
                   left |-> addrs \ Hits(addrs), results |-> Hits(addrs), error |-> FALSE,
                   served |-> TRUE]
  <1>1. Hits(addrs) \subseteq addrs \cap Threats
    BY HitsKnown
  <1> DEFINE none == [at |-> "done", asked |-> addrs, left |-> {}, results |-> {}, error |-> FALSE,
                      served |-> FALSE]
  <1>0. LookupKnows(none)
    BY DEF LookupKnows, Lookup
  <1>2. ASSUME NEW at \in {"fetching", "done"}, NEW h \in SUBSET (addrs \cap Threats),
               at = "done" => addrs \subseteq h
        PROVE  LookupKnows([at |-> at, asked |-> addrs, left |-> addrs \ h, results |-> h,
                            error |-> FALSE, served |-> TRUE])
    BY <1>2 DEF LookupKnows, Lookup
  <1>3. LookupKnows(l)
    <2> DEFINE at == IF addrs \subseteq Hits(addrs) THEN "done" ELSE "fetching"
    <2>1. at \in {"fetching", "done"} /\ (at = "done" => addrs \subseteq Hits(addrs))
      OBVIOUS
    <2> HIDE DEF at
    <2>2. l = [at |-> at, asked |-> addrs, left |-> addrs \ Hits(addrs), results |-> Hits(addrs),
               error |-> FALSE, served |-> TRUE]
      BY DEF at
    <2> QED
      BY <1>1, <1>2, <2>1, <2>2
  <1>4. lookup' = [lookup EXCEPT ![k] = none] \/ lookup' = [lookup EXCEPT ![k] = l]
    BY DEF BeginLookup
  <1> HIDE DEF l, none
  <1> QED
    BY <1>0, <1>3, <1>4, LookupOne

LEMMA FetchBatchInv == ASSUME BadgesInv, NEW k \in Callers, FetchBatch(k) PROVE BadgesInv'
  <1>1. PICK b \in Batches(lookup[k].left) :
          LET left == lookup[k].left \ b
              new(results, error) == [lookup[k] EXCEPT
                  !.at = IF left = {} THEN "done" ELSE "fetching",
                  !.left = left, !.results = @ \cup results, !.error = @ \/ error]
          IN \/ /\ connected
                /\ lookup' = [lookup EXCEPT ![k] = new(b \cap Threats, FALSE)]
                /\ \E order \in SetToSeqs(b \cap Threats) : cache' = CachedAll(cache, order)
                /\ UNCHANGED changes
             \/ /\ IF connected THEN Change ELSE UNCHANGED changes
                /\ lookup' = [lookup EXCEPT ![k] = new({}, TRUE)] /\ UNCHANGED cache
    BY Zenon DEF FetchBatch
  <1>2. UNCHANGED <<shows, badge, debounce, processing, found, connected>>
    BY DEF FetchBatch
  <1>3. b \subseteq lookup[k].left /\ b # {}
    BY DEF Batches
  <1> DEFINE left == lookup[k].left \ b
             new(results, error) == [lookup[k] EXCEPT
                    !.at = IF left = {} THEN "done" ELSE "fetching",
                    !.left = left, !.results = @ \cup results, !.error = @ \/ error]
  <1>4. ASSUME NEW results \in SUBSET (b \cap Threats), NEW error \in BOOLEAN,
               ~error => b \cap Threats \subseteq results,
               b # {}
        PROVE  LookupKnows(new(results, error))
    <2> DEFINE l == lookup[k]
               at == IF left = {} THEN "done" ELSE "fetching"
               n == new(results, error)
    <2>1. LookupKnows(l)
      BY DEF BadgesInv
    <2>2. at \in {"fetching", "done"} /\ (at = "done" => left = {})
      OBVIOUS
    <2>3. l \in Lookup /\ left \in SUBSET Addrs /\ results \in SUBSET Addrs
      BY <1>3, <2>1 DEF LookupKnows, Lookup
    <2>4. n = [l EXCEPT !.at = at, !.left = left, !.results = l.results \cup results,
                        !.error = l.error \/ error]
      OBVIOUS
    <2> HIDE DEF at, n, l
    <2>6. l.results \cup results \in SUBSET Addrs /\ (l.error \/ error) \in BOOLEAN
      BY <2>3 DEF Lookup
    <2> HIDE DEF left
    <2>7. /\ n \in Lookup /\ n.at = at /\ n.left = left /\ n.results = l.results \cup results
          /\ n.error = (l.error \/ error) /\ n.asked = l.asked /\ n.served = l.served
      <3> DEFINE r == l.results \cup results
                 e == l.error \/ error
      <3>1. n = [l EXCEPT !.at = at, !.left = left, !.results = r, !.error = e]
        BY <2>4
      <3>2. r \in SUBSET Addrs /\ e \in BOOLEAN
        BY <2>6
      <3> HIDE DEF r, e
      <3>3. LET m == [l EXCEPT !.at = at, !.left = left, !.results = r, !.error = e]
            IN m \in Lookup /\ m.at = at /\ m.left = left /\ m.results = r /\ m.error = e
               /\ m.asked = l.asked /\ m.served = l.served
        BY <2>2, <2>3, <3>2 DEF Lookup
      <3> QED
        BY <3>1, <3>3 DEF r, e
    <2>8. /\ l.results \subseteq l.asked \cap Threats
          /\ ~l.error /\ l.served => l.asked \cap Threats \subseteq l.results \cup l.left
          /\ ~l.served => l.left = {}
          /\ b \subseteq l.left /\ left = l.left \ b
      BY <1>3, <2>1 DEF LookupKnows, l, left
    <2> QED
      BY <1>4, <2>2, <2>7, <2>8 DEF LookupKnows, n
  <1> HIDE DEF left
  <1>5. CASE /\ lookup' = [lookup EXCEPT ![k] = new(b \cap Threats, FALSE)]
             /\ \E order \in SetToSeqs(b \cap Threats) : cache' = CachedAll(cache, order)
             /\ UNCHANGED changes
    <2>1. LookupKnows(new(b \cap Threats, FALSE))
      BY <1>3, <1>4
    <2>2. cache' \in GoodCaches
      <3>1. PICK order \in SetToSeqs(b \cap Threats) : cache' = CachedAll(cache, order)
        BY <1>5
      <3>2. Cardinality(b \cap Threats) \in Nat
        <4>1. IsFiniteSet(b \cap Threats)
          BY ThreatBadgesAssumption, FS_Subset
        <4> QED
          BY <4>1, FS_CardinalityType
      <3>3. order \in [1..Cardinality(b \cap Threats) -> b \cap Threats]
        BY DEF SetToSeqs
      <3>4. order \in Seq(Threats)
        <4>1. order \in Seq(b \cap Threats)
          BY <3>2, <3>3, SeqDef
        <4> QED
          BY <4>1, SeqMonotonic
      <3> QED
        BY <3>1, <3>4, CachedAllGood DEF BadgesInv
    <2> HIDE DEF new
    <2> QED
      BY <1>2, <1>5, <2>1, <2>2, LookupOne DEF BadgesInv
  <1>6. CASE /\ IF connected THEN Change ELSE UNCHANGED changes
             /\ lookup' = [lookup EXCEPT ![k] = new({}, TRUE)] /\ UNCHANGED cache
    <2>1. LookupKnows(new({}, TRUE))
      BY <1>3, <1>4
    <2>2. changes' \in 0..MaxChanges
      BY <1>6, ChangeTyped DEF BadgesInv
    <2> HIDE DEF new
    <2> QED
      BY <1>2, <1>6, <2>1, <2>2, LookupOne DEF BadgesInv
  <1> QED
    BY <1>1, <1>5, <1>6 DEF left

\* An entry that expires stays where it is.
LEMMA ExpireInv == ASSUME BadgesInv, Expire PROVE BadgesInv'
  <1>1. PICK i \in 1..Len(cache) : cache' = [cache EXCEPT ![i].fresh = FALSE]
    BY DEF Expire
  <1>2. cache \in Seq(Entries) /\ Once(cache) /\ Len(cache) <= MaxCache /\ cache[i] \in Entries
    BY ElementOfSeq DEF BadgesInv, GoodCaches
  <1> DEFINE e == [cache[i] EXCEPT !.fresh = FALSE]
  <1>3. e \in Entries /\ e.addr = cache[i].addr
    BY <1>2 DEF Entries
  <1>4. cache' = [cache EXCEPT ![i] = e]
    BY <1>1
  <1> HIDE DEF e
  <1>5. /\ cache' \in Seq(Entries) /\ Len(cache') = Len(cache)
        /\ \A j \in 1..Len(cache) : cache'[j] = IF j = i THEN e ELSE cache[j]
    BY <1>2, <1>3, <1>4, ExceptSeq
  <1>6. cache' \in GoodCaches
    BY <1>2, <1>3, <1>5 DEF GoodCaches, Once
  <1> QED
    BY <1>6, ChangeTyped DEF Expire, BadgesInv

LEMMA ServerChangeInv == ASSUME BadgesInv, ServerChange PROVE BadgesInv'
  BY ChangeTyped DEF ServerChange, BadgesInv

LEMMA PanelInv == ASSUME BadgesInv, PanelLookup \/ PanelAnswered PROVE BadgesInv'
  <1>1. CASE PanelLookup
    <2>1. PICK addrs \in SUBSET Addrs : BeginLookup("panel", addrs)
      BY <1>1 DEF PanelLookup
    <2>2. lookup' \in [Callers -> Lookup] /\ \A c \in Callers : LookupKnows(lookup'[c])
      BY <2>1, BeginLookupKnows DEF Callers
    <2> QED
      BY <1>1, <2>2, ChangeTyped DEF PanelLookup, BadgesInv
  <1>2. CASE PanelAnswered
    <2>1. lookup' \in [Callers -> Lookup] /\ \A c \in Callers : LookupKnows(lookup'[c])
      BY <1>2, NoLookupKnows, LookupOne DEF PanelAnswered, Callers
    <2> QED
      BY <1>2, <2>1 DEF PanelAnswered, BadgesInv
  <1> QED
    BY <1>1, <1>2

LEMMA EnrichFlowTableInv == ASSUME BadgesInv, EnrichFlowTable PROVE BadgesInv'
  <1>1. PublicCells \in SUBSET [cell : Cells, addr : Addrs]
    BY DEF BadgesInv, PublicCells, NoAddr
  <1>2. CASE processing \/ PublicCells = {}
    BY <1>2 DEF EnrichFlowTable, BadgesInv
  <1>3. CASE ~(processing \/ PublicCells = {})
    <2>1. {f.addr : f \in PublicCells} \in SUBSET Addrs
      BY <1>1
    <2>2. lookup' \in [Callers -> Lookup] /\ \A c \in Callers : LookupKnows(lookup'[c])
      BY <1>3, <2>1, BeginLookupKnows DEF EnrichFlowTable, Callers
    <2> QED
      BY <1>1, <1>3, <2>2 DEF EnrichFlowTable, BadgesInv
  <1> QED
    BY <1>2, <1>3

LEMMA InjectTyped ==
    ASSUME BadgesInv, NEW with, InjectBadges(with)
    PROVE  badge' \in [Cells -> Seq(Addrs)] /\ debounce' \in BOOLEAN
  <1> DEFINE new(c) == {f \in found : f.cell = c /\ f.addr \in with /\ badge[c] = <<>>}
  <1>1. badge' = [c \in Cells |-> IF new(c) = {} THEN badge[c]
                                  ELSE Append(badge[c], (CHOOSE f \in new(c) : TRUE).addr)]
    BY DEF InjectBadges
  <1>2. ASSUME NEW c \in Cells, new(c) # {}
        PROVE  (CHOOSE f \in new(c) : TRUE).addr \in Addrs
    <2> DEFINE f == CHOOSE g \in new(c) : TRUE
    <2>1. f \in new(c)
      BY <1>2
    <2>2. f \in [cell : Cells, addr : Addrs]
      BY <2>1 DEF BadgesInv
    <2> QED
      BY <2>2
  <1>3. ASSUME NEW c \in Cells
        PROVE  (IF new(c) = {} THEN badge[c]
                ELSE Append(badge[c], (CHOOSE f \in new(c) : TRUE).addr)) \in Seq(Addrs)
    <2>1. badge[c] \in Seq(Addrs)
      BY DEF BadgesInv
    <2> HIDE DEF new
    <2> QED
      BY <1>2, <2>1, AppendProperties
  <1>4. debounce' \in BOOLEAN
    BY DEF InjectBadges, BadgesInv
  <1> HIDE DEF new
  <1> QED
    BY <1>1, <1>3, <1>4

LEMMA FlowInv == ASSUME BadgesInv, FlowAnswered \/ FlowFailed PROVE BadgesInv'
  <1>1. lookup' \in [Callers -> Lookup] /\ \A c \in Callers : LookupKnows(lookup'[c])
    BY NoLookupKnows, LookupOne DEF FlowAnswered, FlowFailed, Callers
  <1>2. CASE FlowAnswered
    <2>1. badge' \in [Cells -> Seq(Addrs)] /\ debounce' \in BOOLEAN
      BY <1>2, InjectTyped DEF FlowAnswered
    <2> QED
      BY <1>1, <1>2, <2>1 DEF FlowAnswered, BadgesInv
  <1>3. CASE FlowFailed
    BY <1>1, <1>3, ChangeTyped DEF FlowFailed, BadgesInv
  <1> QED
    BY <1>2, <1>3

LEMMA PageInv == ASSUME BadgesInv, Render \/ ThemeChange PROVE BadgesInv'
  <1>0. <<>> \in Seq(Addrs) /\ changes' \in 0..MaxChanges
    BY EmptySeq, ChangeTyped DEF Render, ThemeChange
  <1>1. CASE Render
    <2>1. PICK c \in Cells, a \in Addrs \cup {NoAddr}, reused \in BOOLEAN :
            /\ shows' = [shows EXCEPT ![c] = a]
            /\ badge' = IF reused THEN badge ELSE [badge EXCEPT ![c] = <<>>]
            /\ found' = IF reused THEN found ELSE {f \in found : f.cell # c}
            /\ debounce' \in (IF reused THEN {TRUE, debounce} ELSE {TRUE})
      BY <1>1 DEF Render
    <2>2. debounce' \in BOOLEAN
      BY <2>1 DEF BadgesInv
    <2>3. shows' \in [Cells -> Addrs \cup {NoAddr}]
      BY <2>1 DEF BadgesInv
    <2>4. badge' \in [Cells -> Seq(Addrs)]
      <3>1. [badge EXCEPT ![c] = <<>>] \in [Cells -> Seq(Addrs)]
        BY <1>0 DEF BadgesInv
      <3> QED
        BY <2>1, <3>1 DEF BadgesInv
    <2>5. found' \in SUBSET [cell : Cells, addr : Addrs]
      BY <2>1 DEF BadgesInv
    <2> QED
      BY <1>0, <1>1, <2>2, <2>3, <2>4, <2>5 DEF Render, BadgesInv
  <1>2. CASE ThemeChange
    BY <1>0, <1>2 DEF ThemeChange, BadgesInv
  <1> QED
    BY <1>1, <1>2

LEMMA BadgesStep == BadgesInv /\ [Next]_vars => BadgesInv'
  <1> SUFFICES ASSUME BadgesInv, [Next]_vars PROVE BadgesInv'
    OBVIOUS
  <1>1. CASE Badges(BadgesNext)
    BY <1>1, FetchBatchInv, ExpireInv, ServerChangeInv, PanelInv, EnrichFlowTableInv, FlowInv, PageInv
    DEF Badges, BadgesNext, BadgesProgress
  <1>2. CASE UNCHANGED badgeVars
    BY <1>2 DEF badgeVars, BadgesInv
  <1> QED
    BY <1>1, <1>2 DEF Next, vars, Worker, Tab

LEMMA BadgesInvAlways == Spec => []BadgesInv
  BY BadgesInitInv, BadgesStep, PTL DEF Spec

\* Whatever two lookups interleave, and in whatever order their answers are cached, the
\* cache stays within its limit and holds no address twice.
THEOREM CacheWithinLimitAlways == Spec => []CacheWithinLimit
  BY BadgesInvAlways, BadgesInvMeans, PTL

\* An answer without an error has everything the server knows of what was asked, unless
\* no server was known when it was asked: for every number of addresses, every size of
\* batch and cache, and whenever the server is forgotten.
THEOREM AnswersCompleteAlways == Spec => []AnswersComplete
  BY BadgesInvAlways, BadgesInvMeans, PTL

------------------------------------------------------------------------------
\* The types of the whole.

\* A message that saves a token carries one.
WorkerSound ==
    /\ WorkerTypes
    /\ unproven \in SUBSET Tokens /\ events \in 0..MaxEvents
    /\ \A m \in inbox : m.op = "saveToken" => m.token \in Tokens

\* A step puts no message that saves a token into the inbox.
NothingSaved == \A m \in inbox' : m \in inbox \/ m.op # "saveToken"

LEMMA InboxKept ==
    ASSUME WorkerSound, NothingSaved
    PROVE  \A m \in inbox' : m.op = "saveToken" => m.token \in Tokens
  BY DEF WorkerSound, NothingSaved

LEMMA EventTyped == ASSUME WorkerSound, Event PROVE events' \in 0..MaxEvents
  BY ExtensionAssumption DEF WorkerSound, Event

LEMMA HandlerSound == ASSUME WorkerSound, NEW t \in Tasks, Handler(t), WorkerTypes' PROVE WorkerSound'
  <1>1. UNCHANGED events
    BY DEF Handler, BeginDiscover, DiscoverStored, DiscoverDefault, BeginConnect, SetBaseUrl,
           FetchUniFiSettings, BeginRegistration, Unregister, Register, BeginRequest,
           RequestAnswered, BeginSaveToken, TokenAccepted, TokenRejected, TokenUntested
  <1>2. inbox' \subseteq inbox
    BY DEF Handler, BeginDiscover, DiscoverStored, DiscoverDefault, BeginConnect, SetBaseUrl,
           FetchUniFiSettings, BeginRegistration, Unregister, Register, BeginRequest,
           RequestAnswered, BeginSaveToken, TokenAccepted, TokenRejected, TokenUntested, Takes
  <1>3. unproven' \in SUBSET Tokens
    <2>1. CASE BeginSaveToken(t)
      <3>1. PICK m \in Msgs({"saveToken"}) : unproven' \in {unproven, unproven \cup {m.token}}
        BY <2>1 DEF BeginSaveToken
      <3>2. m.token \in Tokens
        BY DEF Msgs, WorkerSound
      <3> QED
        BY <3>1, <3>2 DEF WorkerSound
    <2>2. CASE ~BeginSaveToken(t)
      <3>1. UNCHANGED unproven
        BY <2>2 DEF Handler, BeginDiscover, DiscoverStored, DiscoverDefault, BeginConnect, SetBaseUrl,
           FetchUniFiSettings, BeginRegistration, Unregister, Register, BeginRequest,
           RequestAnswered, TokenAccepted, TokenRejected, TokenUntested
      <3> QED
        BY <3>1 DEF WorkerSound
    <2> QED
      BY <2>1, <2>2
  <1> QED
    BY <1>1, <1>2, <1>3 DEF WorkerSound

LEMMA OpOf == \A op \in Ops : Msg(op).op = op /\ FromPopup(op).op = op
  BY DEF Msg, FromPopup

LEMMA UserSound ==
    ASSUME WorkerSound, WorkerTypes',
           PopupStep \/ ClearApiToken \/ Disconnect \/ UserStep \/ Startup \/ ContentLookup \/ StopWorker
    PROVE  WorkerSound'
  <1>0. WorkerTypes /\ unproven \in SUBSET Tokens /\ events \in 0..MaxEvents
    BY DEF WorkerSound
  <1>1. CASE InitPopup
    <2>1. NothingSaved
      BY <1>1, OpOf DEF InitPopup, Send, NothingSaved, Ops
    <2> QED
      BY <1>0, <1>1, <2>1, InboxKept DEF InitPopup, WorkerSound
  <1>2. CASE ShowConnected
    <2>1. local.token \in Optional(Tokens)
      BY <1>0 DEF WorkerTypes, Secrets
    <2>2. ({local.token} \ {popup.tested, None}) \subseteq Tokens
      BY <2>1 DEF Optional
    <2>3. unproven' \in {unproven, unproven \cup ({local.token} \ {popup.tested, None})}
      BY <1>2 DEF ShowConnected
    <2> QED
      BY <1>0, <1>2, <2>2, <2>3 DEF ShowConnected, WorkerSound
  <1>3. CASE ClearApiToken \/ Disconnect
    BY <1>0, <1>3 DEF ClearApiToken, Disconnect, Takes, WorkerSound
  <1>4. CASE OpenPopup \/ SaveController \/ GrantAccess
    BY <1>0, <1>4, EventTyped DEF OpenPopup, SaveController, GrantAccess, WorkerSound
  <1>5. CASE PermissionDenied
    BY <1>0, <1>5 DEF PermissionDenied, WorkerSound
  <1>6. CASE Connect
    <2>1. PICK u \in Servers : inbox' = inbox \cup {[FromPopup("connect") EXCEPT !.url = u]}
      BY <1>6 DEF Connect, Send
    <2>2. [FromPopup("connect") EXCEPT !.url = u].op = "connect"
      BY DEF FromPopup, Msg
    <2>3. NothingSaved
      BY <2>1, <2>2 DEF NothingSaved
    <2> QED
      BY <1>0, <1>6, <2>3, EventTyped, InboxKept DEF Connect, WorkerSound
  <1>7. CASE SaveToken
    <2>1. PICK token \in Tokens : inbox' = inbox \cup {[FromPopup("saveToken") EXCEPT !.token = token]}
      BY <1>7 DEF SaveToken, Send
    <2>2. [FromPopup("saveToken") EXCEPT !.token = token].token = token
      BY DEF FromPopup, Msg
    <2>3. \A m \in inbox' : m.op = "saveToken" => m.token \in Tokens
      BY <2>1, <2>2 DEF WorkerSound
    <2> QED
      BY <1>0, <1>7, <2>3, EventTyped DEF SaveToken, WorkerSound
  <1>8. CASE ClearToken \/ Reset \/ Startup \/ ContentLookup
    <2>1. NothingSaved
      BY <1>8, OpOf DEF ClearToken, Reset, Startup, ContentLookup, Send, NothingSaved, Ops
    <2> QED
      BY <1>0, <1>8, <2>1, EventTyped, InboxKept
      DEF ClearToken, Reset, Startup, ContentLookup, WorkerSound
  <1>9. CASE ClosePopup
    <2>1. ASSUME NEW m \in inbox', m.op = "saveToken" PROVE m.token \in Tokens
      <3>1. PICK k \in inbox : m = [k EXCEPT !.popup = FALSE]
        BY <1>9 DEF ClosePopup
      <3>2. k \in Message
        BY <1>0 DEF WorkerTypes
      <3>3. m.op = k.op /\ m.token = k.token
        BY <3>1, <3>2 DEF Message
      <3> QED
        BY <2>1, <3>3 DEF WorkerSound
    <2> QED
      BY <1>0, <1>9, <2>1, EventTyped DEF ClosePopup, WorkerSound
  <1>10. CASE PermissionGranted
    <2>1. inbox' \subseteq inbox \cup {[Msg("added") EXCEPT !.controller = popup.asks]}
                       \cup {[FromPopup("granted") EXCEPT !.controller = popup.asks]}
      BY <1>10 DEF PermissionGranted
    <2>2. /\ [Msg("added") EXCEPT !.controller = popup.asks].op = "added"
          /\ [FromPopup("granted") EXCEPT !.controller = popup.asks].op = "granted"
      BY DEF FromPopup, Msg
    <2>3. NothingSaved
      BY <2>1, <2>2 DEF NothingSaved
    <2> QED
      BY <1>0, <1>10, <2>3, InboxKept DEF PermissionGranted, WorkerSound
  <1>11. CASE StopWorker
    BY <1>0, <1>11, EventTyped DEF StopWorker, WorkerSound
  <1> QED
    BY <1>1, <1>2, <1>3, <1>4, <1>5, <1>6, <1>7, <1>8, <1>9, <1>10, <1>11 DEF PopupStep, UserStep

LEMMA WorkerSoundAlways == Spec => []WorkerSound
  <1>1. Init => WorkerSound
    <2> SUFFICES ASSUME Init PROVE WorkerSound
      OBVIOUS
    <2>1. inbox = {Msg("discover")} /\ unproven = {} /\ events = 0
      BY DEF Init, WorkerInit
    <2>2. Msg("discover").op = "discover"
      BY DEF Msg
    <2> QED
      BY <2>1, <2>2, WorkerTypesInit, ExtensionAssumption DEF WorkerSound
  <1>2. WorkerSound /\ [Next]_vars => WorkerSound'
    <2> SUFFICES ASSUME WorkerSound, [Next]_vars PROVE WorkerSound'
      OBVIOUS
    <2>1. WorkerTypes'
      BY WorkerTypesStep DEF WorkerSound
    <2>2. CASE Worker(WorkerNext)
      BY <2>1, <2>2, HandlerSound, UserSound DEF Worker, WorkerNext, WorkerProgress
    <2>3. CASE UNCHANGED workerVars
      BY <2>1, <2>3 DEF workerVars, WorkerSound
    <2> QED
      BY <2>2, <2>3 DEF Next, vars, Tab, Badges
  <1> QED
    BY <1>1, <1>2, PTL DEF Spec

TabSound ==
    /\ TabInv
    /\ page \in {"shown", "cached"} /\ header \in BOOLEAN /\ config \in Configs
    /\ asked \in IPs \cup {NoIP} /\ acts \in 0..MaxActs

LEMMA TabNextSound == ASSUME TabSound, TabInv', TabNext PROVE TabSound'
  <1>1. CASE TabProgress
    <2>1. PICK b \in Boots : EnsureConfig(b) \/ SetUp(b) \/ Reinject(b) \/ IframeLoad(b)
      BY <1>1 DEF TabProgress
    <2>2. CASE EnsureConfig(b)
      <3>1. config' \in Configs
        BY <2>2 DEF EnsureConfig, TabSound
      <3> QED
        BY <2>2, <3>1 DEF EnsureConfig, TabSound
    <2>3. CASE SetUp(b) \/ Reinject(b) \/ IframeLoad(b)
      BY <2>3 DEF SetUp, Reinject, IframeLoad, TabSound
    <2> QED
      BY <2>1, <2>2, <2>3
  <1>2. CASE PageHide
    BY <1>2 DEF PageHide, TabSound
  <1>3. CASE ~TabProgress /\ ~PageHide
    <2>1. acts < MaxActs /\ acts' = acts + 1
      BY <1>3 DEF TabNext, Inject, ClickTab, RouteChange, ClickUniFiTab, Escape, ClickBadge,
                  RenderHeader, PageShow, Act
    <2>2. acts' \in 0..MaxActs
      BY <2>1, ControllerTabAssumption DEF TabSound
    <2>3. UNCHANGED config
      BY <1>3 DEF TabNext, Inject, ClickTab, RouteChange, ClickUniFiTab, Escape, ClickBadge,
                  RenderHeader, PageShow
    <2>4. asked' \in IPs \cup {NoIP}
      BY <1>3 DEF TabNext, Inject, ClickTab, RouteChange, ClickUniFiTab, Escape, ClickBadge,
                  RenderHeader, PageShow, TabSound
    <2>5. header' \in BOOLEAN
      BY <1>3 DEF TabNext, Inject, ClickTab, RouteChange, ClickUniFiTab, Escape, ClickBadge,
                  RenderHeader, PageShow, TabSound
    <2>6. page' \in {"shown", "cached"}
      BY <1>3 DEF TabNext, Inject, ClickTab, RouteChange, ClickUniFiTab, Escape, ClickBadge,
                  RenderHeader, PageShow, TabSound
    <2> QED
      BY <2>2, <2>3, <2>4, <2>5, <2>6 DEF TabSound
  <1> QED
    BY <1>1, <1>2, <1>3

LEMMA TabSoundAlways == Spec => []TabSound
  <1>1. Init => TabSound
    <2> SUFFICES ASSUME Init PROVE TabSound
      OBVIOUS
    <2> QED
      BY TabInitInv, ControllerTabAssumption DEF Init, TabInit, TabSound, Configs
  <1>2. TabSound /\ [Next]_vars => TabSound'
    <2> SUFFICES ASSUME TabSound, [Next]_vars PROVE TabSound'
      OBVIOUS
    <2>1. TabInv'
      BY TabStepInv DEF TabSound
    <2>2. CASE Tab(TabNext)
      BY <2>1, <2>2, TabNextSound DEF Tab
    <2>3. CASE UNCHANGED tabVars
      BY <2>1, <2>3 DEF tabVars, TabSound
    <2> QED
      BY <2>2, <2>3 DEF Next, vars, Worker, Badges
  <1> QED
    BY <1>1, <1>2, PTL DEF Spec

\* Worker, tab and badges keep their types: no field gets a value of another kind, no
\* counter passes its bound.
THEOREM ExtensionTypeCorrect == Spec => []TypeOK
  <1>1. WorkerSound /\ TabSound /\ BadgesInv => TypeOK
    BY BadgesInvMeans DEF WorkerSound, WorkerTypes, TabSound, TabInv, TypeOK, WorkerTypeOK, TabTypeOK
  <1> QED
    BY <1>1, WorkerSoundAlways, TabSoundAlways, BadgesInvAlways, PTL

------------------------------------------------------------------------------
\* What has to hold in every state for something to come about in the end: the worker and
\* its popup.  That it does come about needs fairness, and is checked on the small
\* instance only.

Finding(t) == ~At(t, "idle") /\ task[t].msg.op = "discover"
OneDiscovery ==
    /\ memory.discovering <=> \E t \in Tasks : Finding(t)
    /\ \A t, u \in Tasks : Finding(t) /\ Finding(u) => t = u

\* An answer to a message of the open popup is still to come.
Coming(ops) ==
    \/ \E m \in inbox : m.popup /\ m.op \in ops
    \/ \E t \in Tasks : ~At(t, "idle") /\ task[t].msg.popup /\ task[t].msg.op \in ops

Clicks == {"connect", "saveToken", "granted"}
PopupIsAnswered ==
    /\ popup.traffic = "asked" => Coming({"traffic"})
    /\ popup.waits => popup.asks # None \/ Coming(Clicks)

Requesting == {"lookup", "traffic"}
AnswersInv ==
    /\ OneDiscovery /\ PopupIsAnswered
    /\ \A t \in Tasks : ~At(t, "idle") => (At(t, "answer") <=> task[t].msg.op \in Requesting)
    /\ popup.view = "closed" => ~popup.waits

\* What a step of a handler is, as far as its message and its answer go.
Others(t) == task' \in [Tasks -> Task] /\ \A u \in Tasks : u # t => task'[u] = task[u]
Carries(t, m) == task'[t].msg.op = m.op /\ task'[t].msg.popup = m.popup

Begun(t) ==
    \E m \in inbox :
        /\ inbox' = inbox \ {m} /\ At(t, "idle") /\ Others(t) /\ Carries(t, m)
        /\ task'[t].at # "idle" /\ (task'[t].at = "answer" <=> m.op \in Requesting)
        /\ m.op = "discover" => ~memory.discovering
        /\ memory'.discovering <=> (memory.discovering \/ m.op = "discover")
        /\ UNCHANGED popup

Dropped ==
    \E m \in inbox :
        /\ inbox' = inbox \ {m} /\ UNCHANGED task /\ m.op \in Ops \ Requesting
        /\ memory'.discovering <=> memory.discovering
        /\ \/ popup' = popup /\ m.op \notin Clicks
           \/ \E ok : popup' = Answered(m, ok)

GoneOn(t) ==
    /\ UNCHANGED <<inbox, popup>> /\ Others(t) /\ Carries(t, task[t].msg)
    /\ ~At(t, "idle") /\ ~At(t, "answer") /\ task'[t].at \notin {"idle", "answer"}
    /\ memory'.discovering <=> memory.discovering

Returned(t) ==
    /\ UNCHANGED inbox /\ Others(t) /\ task'[t] = Idle
    /\ ~At(t, "idle") /\ ~At(t, "answer")
    /\ memory'.discovering <=> (memory.discovering /\ task[t].msg.op # "discover")
    /\ \E ok : popup' = Answered(task[t].msg, ok)

Served(t) ==
    /\ UNCHANGED <<inbox, memory>> /\ Others(t) /\ task'[t] = Idle /\ At(t, "answer")
    /\ IF task[t].msg.popup THEN popup'.traffic # "asked" ELSE UNCHANGED popup
    /\ popup'.waits = popup.waits /\ popup'.view = popup.view /\ popup'.asks = popup.asks

\* What is told of a message: what it is, and that the popup has sent it.
Same(n, m) == n.op = m.op /\ n.popup = m.popup

LEMMA AnsweredMeans ==
    ASSUME WorkerTypes, NEW m, NEW ok
    PROVE  LET a == Answered(m, ok) IN
           /\ a.view = "closed" => popup.view = "closed"
           /\ a.waits => popup.waits /\ (m.popup => m.op = "disconnect")
           /\ a.traffic = "asked" => popup.traffic = "asked"
           /\ a.asks = popup.asks
  BY DEF Answered, WorkerTypes, Popup

LEMMA BeginsMeans ==
    ASSUME WorkerTypes, NEW t \in Tasks, NEW m \in Message, NEW point \in Points, Begins(t, m, point)
    PROVE  /\ Others(t) /\ task'[t] = [at |-> point, msg |-> m] /\ At(t, "idle")
  <1>1. [at |-> point, msg |-> m] \in Task
    BY DEF Task
  <1> QED
    BY <1>1, TaskOne DEF Begins, Others

LEMMA ContinuesMeans ==
    ASSUME WorkerTypes, NEW t \in Tasks, NEW m \in Message, NEW point \in Points, Continues(t, point, m)
    PROVE  /\ Others(t) /\ task'[t] = [at |-> point, msg |-> m] /\ UNCHANGED popup
  <1>1. [at |-> point, msg |-> m] \in Task
    BY DEF Task
  <1> QED
    BY <1>1, TaskOne DEF Continues, Others

LEMMA ReturnsMeans ==
    ASSUME WorkerTypes, NEW t \in Tasks, NEW after \in Memory, NEW ok, Returns(t, after, ok)
    PROVE  /\ Others(t) /\ task'[t] = Idle
           /\ memory'.discovering <=> (after.discovering /\ task[t].msg.op # "discover")
           /\ \E k : popup' = Answered(task[t].msg, k)
  <1>1. memory'.discovering <=> (after.discovering /\ task[t].msg.op # "discover")
    BY DEF Returns, Memory
  <1>2. Others(t) /\ task'[t] = Idle
    BY TaskOne, IdleTyped DEF Returns, Others
  <1> QED
    BY <1>1, <1>2 DEF Returns

LEMMA RestoredKeeps == ASSUME WorkerTypes PROVE (Restored.discovering <=> memory.discovering)
  BY DEF Restored, WorkerTypes, Memory

LEMMA MessageKeeps ==
    ASSUME NEW m \in Message, NEW u, NEW c, NEW k, NEW mem
    PROVE  /\ Same([m EXCEPT !.url = u, !.controller = c], m) /\ Same([m EXCEPT !.url = u], m)
           /\ Same([m EXCEPT !.url = u, !.token = k, !.controller = c], m)
           /\ Same(Sending(m, mem), m)
           /\ Same(Sending([m EXCEPT !.url = u, !.controller = c], mem), m)
  BY DEF Message, Sending, Same

\* A handler that begins, with a message that is the one of the inbox but for its data.
LEMMA BegunWith ==
    ASSUME WorkerTypes, NEW t \in Tasks, NEW m \in inbox, inbox' = inbox \ {m},
           NEW n \in Message, Same(n, m), NEW point \in Points, Begins(t, n, point), point # "idle",
           point = "answer" <=> m.op \in Requesting,
           m.op = "discover" => ~memory.discovering,
           memory'.discovering <=> (memory.discovering \/ m.op = "discover"),
           UNCHANGED popup
    PROVE  Begun(t)
  <1>1. Others(t) /\ task'[t] = [at |-> point, msg |-> n] /\ At(t, "idle")
    BY BeginsMeans
  <1>2. Carries(t, m) /\ task'[t].at = point
    BY <1>1 DEF Carries, Same
  <1> QED
    BY <1>1, <1>2 DEF Begun

LEMMA BeginSteps ==
    ASSUME WorkerTypes, NEW t \in Tasks,
           \/ BeginDiscover(t) \/ BeginConnect(t) \/ BeginRegistration(t) \/ BeginRequest(t)
           \/ BeginSaveToken(t)
    PROVE  Begun(t) \/ Dropped
  <1>0. memory \in Memory /\ Restored \in Memory /\ (Restored.discovering <=> memory.discovering)
    BY RestoredTyped, RestoredKeeps DEF WorkerTypes
  <1>1. \A ops : \A m \in Msgs(ops) : m \in inbox /\ m.op \in ops /\ m \in Message
    BY DEF Msgs, WorkerTypes
  <1>2. CASE BeginDiscover(t)
    <2>1. PICK m \in Msgs({"discover"}) :
             /\ inbox' = inbox \ {m}
             /\ IF memory.discovering THEN UNCHANGED <<task, memory>>
                ELSE /\ Begins(t, [m EXCEPT !.url = sync.url, !.controller = sync.controller],
                               IF sync.url = None THEN "default" ELSE "stored")
                     /\ memory' = [memory EXCEPT !.discovering = TRUE,
                                       !.token = IF local.token # None THEN local.token ELSE @]
             /\ UNCHANGED popup
      BY <1>2 DEF BeginDiscover, Takes
    <2>2. m \in inbox /\ m.op = "discover" /\ m \in Message
      BY <1>1
    <2>3. CASE memory.discovering
      BY <2>1, <2>2, <2>3 DEF Dropped, Ops, Requesting, Clicks
    <2>4. CASE ~memory.discovering
      <3> DEFINE n == [m EXCEPT !.url = sync.url, !.controller = sync.controller]
                 point == IF sync.url = None THEN "default" ELSE "stored"
      <3>1. n \in Message /\ Same(n, m)
        <4>1. sync.url \in Optional(Servers) /\ sync.controller \in Optional(Controllers)
          BY DEF WorkerTypes, Settings
        <4>2. Same(n, m)
          BY <2>2, MessageKeeps
        <4> QED
          BY <2>2, <4>1, <4>2, MessageEdits, NoneOptional
      <3>2. point \in Points /\ point \notin {"idle", "answer"}
        BY DEF Points
      <3>3. Begins(t, n, point)
        BY <2>1, <2>4
      <3>4. memory'.discovering
        BY <1>0, <2>1, <2>4 DEF Memory
      <3> HIDE DEF n, point
      <3> QED
        BY <2>1, <2>2, <2>4, <3>1, <3>2, <3>3, <3>4, BegunWith DEF Requesting
    <2> QED
      BY <2>3, <2>4
  <1>3. CASE BeginConnect(t)
    <2>1. PICK m \in Msgs({"connect"}) : inbox' = inbox \ {m} /\ Begins(t, m, "health")
      BY <1>3 DEF BeginConnect, Takes
    <2>2. m \in inbox /\ m.op = "connect" /\ m \in Message
      BY <1>1
    <2>3. (memory'.discovering <=> memory.discovering) /\ UNCHANGED popup
      BY <1>0, <1>3 DEF BeginConnect
    <2> QED
      BY <2>1, <2>2, <2>3, BegunWith DEF Requesting, Points, Same
  <1>4. CASE BeginRegistration(t)
    <2>1. PICK m \in Msgs({"granted", "added"}) :
             /\ inbox' = inbox \ {m}
             /\ IF m.op = "granted" \/ sync.controller = m.controller
                THEN Begins(t, m, "permission") ELSE UNCHANGED task
             /\ memory' = IF m.op = "granted" THEN Restored ELSE memory
             /\ UNCHANGED popup
      BY <1>4 DEF BeginRegistration, Takes
    <2>2. m \in inbox /\ m.op \in {"granted", "added"} /\ m \in Message
      BY <1>1
    <2>3. memory'.discovering <=> memory.discovering
      BY <1>0, <2>1
    <2>4. CASE m.op = "granted" \/ sync.controller = m.controller
      BY <2>1, <2>2, <2>3, <2>4, BegunWith DEF Requesting, Points, Same
    <2>5. CASE ~(m.op = "granted" \/ sync.controller = m.controller)
      BY <2>1, <2>2, <2>3, <2>5 DEF Dropped, Ops, Requesting, Clicks
    <2> QED
      BY <2>4, <2>5
  <1>5. CASE BeginRequest(t)
    <2>1. PICK m \in Msgs({"lookup", "traffic"}) :
             inbox' = inbox \ {m} /\ Begins(t, Sending(m, Restored), "answer")
      BY <1>5 DEF BeginRequest, Takes
    <2>2. m \in inbox /\ m.op \in {"lookup", "traffic"} /\ m \in Message
      BY <1>1
    <2>3. Sending(m, Restored) \in Message
      BY <1>0, <2>2, SendingTyped
    <2>4. Same(Sending(m, Restored), m)
      BY <2>2, MessageKeeps
    <2>5. (memory'.discovering <=> memory.discovering) /\ UNCHANGED popup
      BY <1>0, <1>5 DEF BeginRequest
    <2> QED
      BY <2>1, <2>2, <2>3, <2>4, <2>5, BegunWith DEF Requesting, Points
  <1>6. CASE BeginSaveToken(t)
    <2>1. PICK m \in Msgs({"saveToken"}) :
             /\ inbox' = inbox \ {m}
             /\ memory' = [Restored EXCEPT !.token = m.token]
             /\ IF Restored.base = None THEN popup' = Answered(m, TRUE) /\ UNCHANGED task
                ELSE Begins(t, m, "validate") /\ UNCHANGED popup
      BY <1>6 DEF BeginSaveToken, Takes
    <2>2. m \in inbox /\ m.op = "saveToken" /\ m \in Message
      BY <1>1
    <2>3. memory'.discovering <=> memory.discovering
      BY <1>0, <2>1 DEF Memory
    <2>4. CASE Restored.base = None
      BY <2>1, <2>2, <2>3, <2>4 DEF Dropped, Ops, Requesting
    <2>5. CASE Restored.base # None
      BY <2>1, <2>2, <2>3, <2>5, BegunWith DEF Requesting, Points, Same
    <2> QED
      BY <2>4, <2>5
  <1> QED
    BY <1>2, <1>3, <1>4, <1>5, <1>6

LEMMA ContinuedWith ==
    ASSUME WorkerTypes, NEW t \in Tasks, NEW m \in Message, Same(m, task[t].msg), NEW point \in Points,
           Continues(t, point, m), point \notin {"idle", "answer"},
           ~At(t, "idle"), ~At(t, "answer"), UNCHANGED inbox,
           memory'.discovering <=> memory.discovering
    PROVE  GoneOn(t)
  <1>1. Others(t) /\ task'[t] = [at |-> point, msg |-> m] /\ UNCHANGED popup
    BY ContinuesMeans
  <1>2. Carries(t, task[t].msg) /\ task'[t].at = point
    BY <1>1 DEF Carries, Same
  <1> QED
    BY <1>1, <1>2 DEF GoneOn

LEMMA ReturnedWith ==
    ASSUME WorkerTypes, NEW t \in Tasks, NEW after \in Memory, NEW ok, Returns(t, after, ok),
           ~At(t, "idle"), ~At(t, "answer"), UNCHANGED inbox,
           after.discovering <=> memory.discovering
    PROVE  Returned(t)
  BY ReturnsMeans DEF Returned

LEMMA OnConnectedMeans ==
    ASSUME WorkerTypes, NEW t \in Tasks, NEW url \in Optional(Servers),
           NEW controller \in Optional(Controllers), OnConnected(t, url, controller),
           ~At(t, "idle"), ~At(t, "answer"), UNCHANGED inbox
    PROVE  GoneOn(t)
  <1> DEFINE m == [task[t].msg EXCEPT !.url = None, !.controller = controller]
             after == [memory EXCEPT !.base = url]
  <1>1. m \in Message /\ Same(m, task[t].msg) /\ Same(Sending(m, after), task[t].msg)
    BY TaskMsg, MessageEdits, NoneOptional, MessageKeeps
  <1>2. after \in Memory /\ (after.discovering <=> memory.discovering)
    BY DEF WorkerTypes, Memory
  <1>3. Sending(m, after) \in Message
    BY <1>1, <1>2, SendingTyped
  <1>4. memory' = after /\ (Continues(t, "unifi", Sending(m, after)) \/ Continues(t, "permission", m))
    BY DEF OnConnected
  <1> HIDE DEF m, after
  <1>5. memory'.discovering <=> memory.discovering
    BY <1>2, <1>4
  <1> QED
    BY <1>1, <1>3, <1>4, <1>5, ContinuedWith DEF Points

LEMMA LaterSteps ==
    ASSUME WorkerTypes, NEW t \in Tasks,
           \/ DiscoverStored(t) \/ DiscoverDefault(t) \/ SetBaseUrl(t) \/ FetchUniFiSettings(t)
           \/ Unregister(t) \/ Register(t) \/ TokenAccepted(t) \/ TokenRejected(t) \/ TokenUntested(t)
    PROVE  GoneOn(t) \/ Returned(t)
  <1>1. /\ UNCHANGED inbox /\ ~At(t, "idle") /\ ~At(t, "answer")
        /\ memory \in Memory /\ task[t].msg \in Message
    BY TaskMsg DEF WorkerTypes, DiscoverStored, DiscoverDefault, SetBaseUrl, FetchUniFiSettings, Unregister,
           Register, TokenAccepted, TokenRejected, TokenUntested, At
  <1>2. ASSUME NEW ok, Returns(t, memory, ok)
        PROVE  Returned(t)
    BY <1>1, <1>2, ReturnedWith
  <1>3. /\ task[t].msg.url \in Optional(Servers) /\ task[t].msg.controller \in Optional(Controllers)
        /\ sync.controller \in Optional(Controllers) /\ Default \in Optional(Servers)
        /\ Same(task[t].msg, task[t].msg)
    BY <1>1, MessageFields DEF WorkerTypes, Settings, Optional, Servers, Same
  <1>4. CASE DiscoverStored(t)
    <2>1. CASE OnConnected(t, task[t].msg.url, task[t].msg.controller)
      BY <1>1, <1>3, <2>1, OnConnectedMeans
    <2>2. CASE Continues(t, "default", [task[t].msg EXCEPT !.url = None]) /\ UNCHANGED memory
      <3> DEFINE m == [task[t].msg EXCEPT !.url = None]
      <3>1. m \in Message /\ Same(m, task[t].msg)
        BY <1>1, MessageEdits, NoneOptional, MessageKeeps
      <3> HIDE DEF m
      <3>2. Continues(t, "default", m)
        BY <2>2 DEF m
      <3> QED
        BY <1>1, <2>2, <3>1, <3>2, ContinuedWith DEF Points
    <2> QED
      BY <1>4, <2>1, <2>2 DEF DiscoverStored
  <1>5. CASE DiscoverDefault(t)
    BY <1>1, <1>2, <1>3, <1>5, OnConnectedMeans DEF DiscoverDefault
  <1>6. CASE SetBaseUrl(t)
    BY <1>1, <1>2, <1>3, <1>6, OnConnectedMeans DEF SetBaseUrl
  <1>7. CASE FetchUniFiSettings(t)
    <2>1. CASE Returns(t, memory, TRUE)
      BY <1>2, <2>1
    <2>2. CASE ~Returns(t, memory, TRUE)
      <3>1. PICK c \in Controllers :
               Continues(t, "permission", [task[t].msg EXCEPT !.url = None, !.token = None, !.controller = c])
        BY <1>7, <2>2 DEF FetchUniFiSettings
      <3>2. UNCHANGED memory
        BY <1>7, <2>2 DEF FetchUniFiSettings
      <3> DEFINE m == [task[t].msg EXCEPT !.url = None, !.token = None, !.controller = c]
      <3>3. m \in Message /\ Same(m, task[t].msg)
        BY <1>1, MessageEdits, NoneOptional, MessageKeeps DEF Optional
      <3> HIDE DEF m
      <3>4. Continues(t, "permission", m)
        BY <3>1 DEF m
      <3> QED
        BY <1>1, <3>2, <3>3, <3>4, ContinuedWith DEF Points
    <2> QED
      BY <2>1, <2>2
  <1>8. CASE Unregister(t)
    BY <1>1, <1>2, <1>3, <1>8, ContinuedWith DEF Unregister, Points
  <1>9. CASE Register(t) \/ TokenUntested(t)
    BY <1>2, <1>9 DEF Register, TokenUntested
  <1>10. CASE TokenAccepted(t)
    <2>1. CASE Returns(t, memory, TRUE)
      BY <1>2, <2>1
    <2>2. CASE Continues(t, "unifi", Sending(task[t].msg, memory)) /\ UNCHANGED memory
      <3>1. Sending(task[t].msg, memory) \in Message /\ Same(Sending(task[t].msg, memory), task[t].msg)
        BY <1>1, SendingTyped, MessageKeeps
      <3> QED
        BY <1>1, <2>2, <3>1, ContinuedWith DEF Points
    <2> QED
      BY <1>10, <2>1, <2>2 DEF TokenAccepted
  <1>11. CASE TokenRejected(t)
    <2> DEFINE after == [memory EXCEPT !.token = None]
    <2>1. after \in Memory /\ (after.discovering <=> memory.discovering)
      BY <1>1, NoneOptional DEF Memory
    <2>2. Returns(t, after, FALSE)
      BY <1>11 DEF TokenRejected
    <2> HIDE DEF after
    <2> QED
      BY <1>1, <2>1, <2>2, ReturnedWith
  <1> QED
    BY <1>4, <1>5, <1>6, <1>7, <1>8, <1>9, <1>10, <1>11

LEMMA ServedWhen ==
    ASSUME WorkerTypes, NEW t \in Tasks, RequestAnswered(t)
    PROVE  Served(t)
  <1>1. task' = [task EXCEPT ![t] = Idle] /\ UNCHANGED <<inbox, memory>> /\ At(t, "answer")
    BY DEF RequestAnswered
  <1>2. Others(t) /\ task'[t] = Idle
    BY <1>1, TaskOne, IdleTyped DEF Others
  <1>3. PICK result \in {"failed", "refused", "ok"} :
           popup' = IF task[t].msg.popup THEN [popup EXCEPT !.traffic = result, !.tested = task[t].msg.token]
                    ELSE popup
    BY DEF RequestAnswered
  <1>4. /\ IF task[t].msg.popup THEN popup'.traffic # "asked" ELSE UNCHANGED popup
        /\ popup'.waits = popup.waits /\ popup'.view = popup.view /\ popup'.asks = popup.asks
    BY <1>3 DEF WorkerTypes, Popup
  <1> QED
    BY <1>1, <1>2, <1>4 DEF Served

\* Every step of a handler is of one of five kinds.
LEMMA HandlerKinds ==
    ASSUME WorkerTypes, NEW t \in Tasks, Handler(t)
    PROVE  Begun(t) \/ Dropped \/ GoneOn(t) \/ Returned(t) \/ Served(t)
  BY BeginSteps, LaterSteps, ServedWhen DEF Handler

\* And each kind of step keeps what is known of the answers.
LEMMA BegunKeeps == ASSUME WorkerTypes, AnswersInv, NEW t \in Tasks, Begun(t) PROVE AnswersInv'
  <1>1. PICK m \in inbox :
           /\ inbox' = inbox \ {m} /\ At(t, "idle") /\ Others(t) /\ Carries(t, m)
           /\ task'[t].at # "idle" /\ (task'[t].at = "answer" <=> m.op \in Requesting)
           /\ m.op = "discover" => ~memory.discovering
           /\ memory'.discovering <=> (memory.discovering \/ m.op = "discover")
           /\ UNCHANGED popup
    BY DEF Begun
  <1>2. \A u \in Tasks : Finding(u)' <=> (IF u = t THEN m.op = "discover" ELSE Finding(u))
    BY <1>1 DEF Finding, At, Others, Carries
  <1>3. OneDiscovery'
    BY <1>1, <1>2 DEF AnswersInv, OneDiscovery, Finding
  <1>4. \A ops : Coming(ops) => Coming(ops)'
    BY <1>1 DEF Coming, At, Others, Carries
  <1>5. PopupIsAnswered'
    BY <1>1, <1>4 DEF AnswersInv, PopupIsAnswered
  <1> QED
    BY <1>1, <1>3, <1>5 DEF AnswersInv, At, Others, Carries

LEMMA DroppedKeeps == ASSUME WorkerTypes, AnswersInv, Dropped PROVE AnswersInv'
  <1>1. PICK m \in inbox :
           /\ inbox' = inbox \ {m} /\ UNCHANGED task /\ m.op \in Ops \ Requesting
           /\ memory'.discovering <=> memory.discovering
           /\ \/ popup' = popup /\ m.op \notin Clicks
              \/ \E ok : popup' = Answered(m, ok)
    BY DEF Dropped
  <1>2. OneDiscovery'
    BY <1>1 DEF AnswersInv, OneDiscovery, Finding, At
  <1>3. Coming({"traffic"}) => Coming({"traffic"})'
    BY <1>1 DEF Coming, At, Requesting
  <1>4. Coming(Clicks) => Coming(Clicks)' \/ (m.popup /\ m.op \in Clicks)
    BY <1>1 DEF Coming, At
  <1>5. CASE popup' = popup /\ m.op \notin Clicks
    BY <1>1, <1>2, <1>3, <1>4, <1>5 DEF AnswersInv, PopupIsAnswered, At
  <1>6. ASSUME NEW ok, popup' = Answered(m, ok)
        PROVE  AnswersInv'
    <2>1. /\ popup'.view = "closed" => popup.view = "closed"
          /\ popup'.waits => popup.waits /\ (m.popup => m.op = "disconnect")
          /\ popup'.traffic = "asked" => popup.traffic = "asked"
          /\ popup'.asks = popup.asks
      BY <1>6, AnsweredMeans
    <2> QED
      BY <1>1, <1>2, <1>3, <1>4, <2>1 DEF AnswersInv, PopupIsAnswered, At, Clicks
  <1> QED
    BY <1>1, <1>5, <1>6

LEMMA GoneOnKeeps == ASSUME WorkerTypes, AnswersInv, NEW t \in Tasks, GoneOn(t) PROVE AnswersInv'
  <1>1. \A u \in Tasks : Finding(u)' <=> Finding(u)
    BY DEF GoneOn, Finding, At, Others, Carries
  <1>2. OneDiscovery'
    BY <1>1 DEF GoneOn, AnswersInv, OneDiscovery
  <1>3. \A ops : Coming(ops) => Coming(ops)'
    BY DEF GoneOn, Coming, At, Others, Carries
  <1> QED
    BY <1>2, <1>3 DEF GoneOn, AnswersInv, PopupIsAnswered, At, Others, Carries

LEMMA ReturnedKeeps == ASSUME WorkerTypes, AnswersInv, NEW t \in Tasks, Returned(t) PROVE AnswersInv'
  <1>1. task'[t].at = "idle"
    BY DEF Returned, Idle
  <1>2. PICK ok : popup' = Answered(task[t].msg, ok)
    BY DEF Returned
  <1>3. /\ popup'.view = "closed" => popup.view = "closed"
        /\ popup'.waits => popup.waits /\ (task[t].msg.popup => task[t].msg.op = "disconnect")
        /\ popup'.traffic = "asked" => popup.traffic = "asked"
        /\ popup'.asks = popup.asks
    BY <1>2, AnsweredMeans
  <1>4. \A u \in Tasks : Finding(u)' <=> (u # t /\ Finding(u))
    BY <1>1 DEF Returned, Finding, At, Others
  <1>5. OneDiscovery'
    BY <1>4 DEF Returned, AnswersInv, OneDiscovery, Finding
  <1>6. \A ops : Coming(ops) => Coming(ops)' \/ (task[t].msg.popup /\ task[t].msg.op \in ops)
    BY DEF Returned, Coming, At, Others
  <1>7. task[t].msg.op # "traffic"
    BY DEF Returned, AnswersInv, Requesting
  <1>8. PopupIsAnswered'
    BY <1>3, <1>6, <1>7 DEF AnswersInv, PopupIsAnswered, Clicks
  <1> QED
    BY <1>1, <1>3, <1>5, <1>8 DEF Returned, AnswersInv, At, Others

LEMMA ServedKeeps == ASSUME WorkerTypes, AnswersInv, NEW t \in Tasks, Served(t) PROVE AnswersInv'
  <1>1. task'[t].at = "idle" /\ task[t].msg.op \in Requesting
    BY DEF Served, Idle, AnswersInv, At
  <1>2. \A u \in Tasks : Finding(u)' <=> Finding(u)
    BY <1>1 DEF Served, Finding, At, Others, Requesting
  <1>3. OneDiscovery'
    BY <1>2 DEF Served, AnswersInv, OneDiscovery
  <1>4. \A ops : Coming(ops) => Coming(ops)' \/ (task[t].msg.popup /\ task[t].msg.op \in ops)
    BY DEF Served, Coming, At, Others
  <1>5. PopupIsAnswered'
    BY <1>1, <1>4 DEF Served, AnswersInv, PopupIsAnswered, Clicks, Requesting
  <1> QED
    BY <1>1, <1>3, <1>5 DEF Served, AnswersInv, At, Others

\* A step that starts no handler and ends none, whose messages stay, and what it may do
\* to the popup.
Adds(more) == inbox' = inbox \cup more /\ UNCHANGED task /\ (memory'.discovering <=> memory.discovering)

LEMMA AddsKeeps ==
    ASSUME AnswersInv, NEW more, Adds(more),
           popup'.traffic = "asked" => popup.traffic = "asked" \/ \E m \in more : m.popup /\ m.op = "traffic",
           popup'.waits =>
               \/ popup'.asks # None
               \/ popup.waits /\ popup'.asks = popup.asks
               \/ \E m \in more : m.popup /\ m.op \in Clicks,
           popup'.view = "closed" => ~popup'.waits
    PROVE  AnswersInv'
  <1>1. OneDiscovery'
    BY DEF Adds, AnswersInv, OneDiscovery, Finding, At
  <1>2. \A ops : Coming(ops) \/ (\E m \in more : m.popup /\ m.op \in ops) => Coming(ops)'
    BY DEF Adds, Coming, At
  <1>3. PopupIsAnswered'
    BY <1>2 DEF AnswersInv, PopupIsAnswered
  <1> QED
    BY <1>1, <1>3 DEF Adds, AnswersInv, At

LEMMA FromPopupMeans == \A op : FromPopup(op).popup /\ FromPopup(op).op = op
  BY DEF FromPopup, Msg

LEMMA UserAnswers ==
    ASSUME WorkerTypes, AnswersInv,
           PopupStep \/ ClearApiToken \/ Disconnect \/ UserStep \/ Startup \/ ContentLookup \/ StopWorker
    PROVE  AnswersInv'
  <1>0. popup \in Popup /\ memory \in Memory
    BY DEF WorkerTypes
  <1>1. CASE InitPopup
    <2>1. CASE sync.url = None \/ ~sync.configured
      <3>1. Adds({})
        BY <1>1, <2>1 DEF InitPopup, Adds
      <3>2. popup'.traffic = popup.traffic /\ popup'.waits = popup.waits /\ popup'.asks = popup.asks
            /\ popup'.view = "setup"
        BY <1>0, <1>1, <2>1 DEF InitPopup, Popup
      <3> QED
        BY <3>1, <3>2, AddsKeeps
    <2>2. CASE ~(sync.url = None \/ ~sync.configured)
      <3>1. Adds({FromPopup("traffic")})
        BY <1>1, <2>2, RestoredKeeps DEF InitPopup, Adds, Send
      <3>2. popup'.waits = popup.waits /\ popup'.asks = popup.asks /\ popup'.view = popup.view
            /\ popup.view = "loading"
        BY <1>0, <1>1, <2>2 DEF InitPopup, Popup
      <3> QED
        BY <3>1, <3>2, AddsKeeps, FromPopupMeans
    <2> QED
      BY <2>1, <2>2
  <1>2. CASE ShowConnected
    <2>1. Adds({})
      BY <1>2 DEF ShowConnected, Adds
    <2>2. popup'.traffic = "none" /\ popup'.waits = popup.waits /\ popup'.asks = popup.asks
          /\ popup'.view # "closed"
      BY <1>0, <1>2 DEF ShowConnected, Popup
    <2> QED
      BY <2>1, <2>2, AddsKeeps
  <1>3. CASE ClearApiToken \/ Disconnect
    <2>1. PICK m \in inbox : /\ m.op \in {"clearToken", "disconnect"} /\ inbox' = inbox \ {m}
                              /\ popup' = Answered(m, TRUE)
      BY <1>3 DEF ClearApiToken, Disconnect, Takes, Msgs
    <2>2. memory'.discovering <=> memory.discovering
      BY <1>0, <1>3, RestoredTyped, RestoredKeeps DEF ClearApiToken, Disconnect, Memory
    <2>3. UNCHANGED task
      BY <1>3 DEF ClearApiToken, Disconnect
    <2>4. Dropped
      BY <2>1, <2>2, <2>3 DEF Dropped, Ops, Requesting
    <2> QED
      BY <2>4, DroppedKeeps
  <1>4. CASE OpenPopup
    <2>1. Adds({})
      BY <1>4 DEF OpenPopup, Adds
    <2>2. popup'.traffic = "none" /\ ~popup'.waits
      BY <1>4 DEF OpenPopup, Closed
    <2> QED
      BY <2>1, <2>2, AddsKeeps
  <1>5. CASE ClosePopup
    <2>1. \A t \in Tasks : task'[t].at = task[t].at /\ task'[t].msg.op = task[t].msg.op
      <3>1. SUFFICES ASSUME NEW t \in Tasks
                     PROVE  task'[t].at = task[t].at /\ task'[t].msg.op = task[t].msg.op
        OBVIOUS
      <3>2. task'[t] = [task[t] EXCEPT !.msg.popup = FALSE] /\ task[t] \in Task
        BY <1>5 DEF ClosePopup, WorkerTypes
      <3> QED
        BY <3>2 DEF Task, Message
    <2>2. popup'.traffic = "none" /\ ~popup'.waits
      BY <1>5 DEF ClosePopup, Closed
    <2>3. UNCHANGED memory
      BY <1>5 DEF ClosePopup
    <2> QED
      BY <2>1, <2>2, <2>3 DEF AnswersInv, OneDiscovery, PopupIsAnswered, Finding, At
  <1>6. CASE Connect
    <2>1. PICK u \in Servers : Adds({[FromPopup("connect") EXCEPT !.url = u]})
      BY <1>6 DEF Connect, Send, Adds
    <2>2. [FromPopup("connect") EXCEPT !.url = u].popup /\ [FromPopup("connect") EXCEPT !.url = u].op = "connect"
      BY DEF FromPopup, Msg
    <2>3. popup'.traffic = popup.traffic /\ popup'.view = "setup"
      BY <1>0, <1>6 DEF Connect, Popup
    <2> QED
      BY <2>1, <2>2, <2>3, AddsKeeps DEF Clicks
  <1>7. CASE SaveToken
    <2>1. PICK token \in Tokens : Adds({[FromPopup("saveToken") EXCEPT !.token = token]})
      BY <1>7 DEF SaveToken, Send, Adds
    <2>2. /\ [FromPopup("saveToken") EXCEPT !.token = token].popup
          /\ [FromPopup("saveToken") EXCEPT !.token = token].op = "saveToken"
      BY DEF FromPopup, Msg
    <2>3. popup'.traffic = popup.traffic /\ popup'.view \in {"gate", "connected"}
      BY <1>0, <1>7 DEF SaveToken, TokenField, Popup
    <2> QED
      BY <2>1, <2>2, <2>3, AddsKeeps DEF Clicks
  <1>8. CASE ClearToken \/ Reset \/ Startup \/ ContentLookup
    <2>1. \E more : Adds(more)
      BY <1>8 DEF ClearToken, Reset, Startup, ContentLookup, Send, Adds
    <2>2. UNCHANGED popup
      BY <1>8 DEF ClearToken, Reset, Startup, ContentLookup
    <2> QED
      BY <2>1, <2>2, AddsKeeps DEF AnswersInv
  <1>9. CASE SaveController
    <2>1. PICK c \in Controllers : popup' = [popup EXCEPT !.waits = TRUE, !.asks = c, !.traffic = "edit"]
      BY <1>9 DEF SaveController
    <2>2. Adds({}) /\ popup.view = "connected"
      BY <1>9 DEF SaveController, Adds
    <2>3. popup'.asks # None /\ popup'.traffic # "asked" /\ popup'.view # "closed"
      BY <1>0, <2>1, <2>2, ExtensionAssumption DEF Popup
    <2> QED
      BY <2>2, <2>3, AddsKeeps
  <1>10. CASE GrantAccess
    <2>1. Adds({})
      BY <1>10 DEF GrantAccess, Adds
    <2>2. popup'.asks # None /\ popup'.traffic = popup.traffic /\ popup'.view # "closed"
      BY <1>0, <1>10 DEF GrantAccess, Popup
    <2> QED
      BY <2>1, <2>2, AddsKeeps
  <1>11. CASE PermissionGranted
    <2> DEFINE g == [FromPopup("granted") EXCEPT !.controller = popup.asks]
    <2>1. g.popup /\ g.op = "granted"
      BY DEF FromPopup, Msg
    <2>2. /\ popup'.asks = None /\ popup'.traffic = popup.traffic /\ popup'.view = popup.view
          /\ popup'.waits = popup.waits
      BY <1>0, <1>11 DEF PermissionGranted, Popup
    <2>3. PICK told : inbox' = inbox \cup told \cup (IF popup.view = "closed" THEN {} ELSE {g})
      BY <1>11 DEF PermissionGranted
    <2> HIDE DEF g
    <2>4. Adds(told \cup (IF popup.view = "closed" THEN {} ELSE {g}))
      BY <1>11, <2>3 DEF PermissionGranted, Adds
    <2>5. popup.waits => popup.view # "closed"
      BY DEF AnswersInv
    <2> QED
      BY <2>1, <2>2, <2>4, <2>5, AddsKeeps DEF Clicks
  <1>12. CASE PermissionDenied
    <2>1. Adds({})
      BY <1>12 DEF PermissionDenied, Adds
    <2>2. ~popup'.waits /\ popup'.traffic \in {popup.traffic, "none"}
      BY <1>0, <1>12 DEF PermissionDenied, Popup
    <2> QED
      BY <2>1, <2>2, AddsKeeps
  <1>13. CASE StopWorker
    <2>1. (\A t \in Tasks : task'[t].at = "idle") /\ ~memory'.discovering /\ UNCHANGED inbox
      BY <1>13 DEF StopWorker, Idle
    <2>2. CASE \E t \in Tasks : task[t].msg.popup
      <3>1. ~popup'.waits /\ popup'.traffic # "asked"
        BY <1>0, <1>13, <2>2 DEF StopWorker, Popup
      <3> QED
        BY <2>1, <3>1 DEF AnswersInv, OneDiscovery, PopupIsAnswered, Finding, At
    <2>3. CASE ~\E t \in Tasks : task[t].msg.popup
      <3>1. UNCHANGED popup
        BY <1>13, <2>3 DEF StopWorker
      <3>2. \A ops : Coming(ops) => Coming(ops)'
        BY <2>1, <2>3 DEF Coming
      <3>3. OneDiscovery'
        BY <2>1 DEF OneDiscovery, Finding, At
      <3> QED
        BY <2>1, <3>1, <3>2, <3>3 DEF AnswersInv, PopupIsAnswered, At
    <2> QED
      BY <2>2, <2>3
  <1> QED
    BY <1>1, <1>2, <1>3, <1>4, <1>5, <1>6, <1>7, <1>8, <1>9, <1>10, <1>11, <1>12, <1>13
    DEF PopupStep, UserStep

LEMMA AnswersInvAlways == Spec => [](WorkerTypes /\ AnswersInv)
  <1>1. Init => AnswersInv
    <2> SUFFICES ASSUME Init PROVE AnswersInv
      OBVIOUS
    <2>1. (\A t \in Tasks : task[t].at = "idle") /\ memory.discovering = FALSE
      BY DEF Init, WorkerInit, Idle
    <2>2. popup.traffic = "none" /\ ~popup.waits
      BY DEF Init, WorkerInit, Closed
    <2> QED
      BY <2>1, <2>2 DEF AnswersInv, OneDiscovery, PopupIsAnswered, Finding, At
  <1>2. WorkerTypes /\ AnswersInv /\ [Next]_vars => AnswersInv'
    <2> SUFFICES ASSUME WorkerTypes, AnswersInv, [Next]_vars PROVE AnswersInv'
      OBVIOUS
    <2>1. ASSUME NEW t \in Tasks, Handler(t)
          PROVE  AnswersInv'
      BY <2>1, HandlerKinds, BegunKeeps, DroppedKeeps, GoneOnKeeps, ReturnedKeeps, ServedKeeps
    <2>2. CASE Worker(WorkerNext)
      BY <2>1, <2>2, UserAnswers DEF Worker, WorkerNext, WorkerProgress
    <2>3. CASE UNCHANGED workerVars
      BY <2>3 DEF workerVars, AnswersInv, OneDiscovery, PopupIsAnswered, Finding, Coming, At
    <2> QED
      BY <2>2, <2>3 DEF Next, vars, Tab, Badges
  <1> QED
    BY <1>1, <1>2, WorkerTypesInit, WorkerTypesStep, PTL DEF Spec

\* What DiscoveryEnds rests on: the flag of discover() is up exactly while one discovery
\* runs, so that none is kept out for good and no two run at a time, also when the worker
\* is stopped in the middle of one.
THEOREM OneDiscoveryAlways == Spec => []OneDiscovery
  <1>1. AnswersInv => OneDiscovery
    BY DEF AnswersInv
  <1> QED
    BY <1>1, AnswersInvAlways, PTL

\* What PopupShows rests on: while the popup waits for traffic statistics its message is
\* in the inbox or a handler has it, and while a button waits for a click's answer there
\* is a message, a handler or a permission dialog that will free it; no stop of the
\* worker, disconnect or closing leaves it waiting for nothing.
THEOREM PopupIsAnsweredAlways == Spec => []PopupIsAnswered
  <1>1. AnswersInv => PopupIsAnswered
    BY DEF AnswersInv
  <1> QED
    BY <1>1, AnswersInvAlways, PTL

------------------------------------------------------------------------------
\* And of the badges.  EnrichmentEnds needs a lookup that the flag waits for, and a batch
\* that can be sent while addresses are left.
EnrichmentWaits ==
    /\ processing <=> lookup["flow"].at # "idle"
    /\ \A k \in Callers : lookup[k].at = "fetching" => Batches(lookup[k].left) # {}

\* A finite set that is large enough has a part of the size of a batch.
LEMMA PartOfSize ==
    ASSUME NEW S, IsFiniteSet(S), NEW n \in Nat, n <= Cardinality(S)
    PROVE  \E P \in SUBSET S : Cardinality(P) = n
  <1> DEFINE N == Cardinality(S)
  <1>1. N \in Nat /\ IsFiniteSet(1..N) /\ Cardinality(1..N) = N
    BY FS_CardinalityType, FS_Interval
  <1>2. ExistsBijection(1..N, S)
    BY <1>1, FS_SameCardinalityBij
  <1>3. PICK f \in Bijection(1..N, S) : TRUE
    BY <1>2 DEF ExistsBijection
  <1> DEFINE Q == {f[i] : i \in 1..n}
             g == [i \in 1..n |-> f[i]]
  <1>4. /\ f \in [1..N -> S] /\ \A i, j \in 1..N : f[i] = f[j] => i = j
    BY <1>3 DEF Bijection, Injection, IsInjective
  <1>5. 1..n \subseteq 1..N
    BY <1>1
  <1> HIDE DEF N
  <1>6. Q \in SUBSET S
    BY <1>4, <1>5
  <1>7. g \in Bijection(1..n, Q)
    <2>1. g \in [1..n -> Q]
      OBVIOUS
    <2>2. \A i, j \in 1..n : g[i] = g[j] => i = j
      BY <1>4, <1>5
    <2>3. \A p \in Q : \E i \in 1..n : g[i] = p
      OBVIOUS
    <2> HIDE DEF Q, g
    <2> QED
      BY <2>1, <2>2, <2>3 DEF Bijection, Injection, Surjection, IsInjective
  <1>8. Cardinality(Q) = n
    BY <1>7, FS_CountingElements DEF ExistsBijection
  <1> QED
    BY <1>6, <1>8

LEMMA BatchLeft == ASSUME NEW left \in SUBSET Addrs, left # {} PROVE Batches(left) # {}
  <1>1. IsFiniteSet(left) /\ Cardinality(left) \in Nat /\ BatchMax \in Nat \ {0}
    BY FS_Subset, FS_CardinalityType, ThreatBadgesAssumption
  <1>2. CASE Cardinality(left) < BatchMax
    BY <1>2 DEF Batches
  <1>3. CASE BatchMax <= Cardinality(left)
    <2>1. PICK b \in SUBSET left : Cardinality(b) = BatchMax
      BY <1>1, <1>3, PartOfSize
    <2>2. b # {}
      BY <1>1, <2>1, FS_EmptySet
    <2> QED
      BY <2>1, <2>2 DEF Batches
  <1> QED
    BY <1>1, <1>2, <1>3

\* A lookup that still fetches has addresses left.
Hungry == \A k \in Callers : lookup[k].at = "fetching" => lookup[k].left # {}
Flagged == processing <=> lookup["flow"].at # "idle"

LEMMA HungryOne ==
    ASSUME BadgesInv, Hungry, NEW k \in Callers, NEW l, lookup' = [lookup EXCEPT ![k] = l],
           l.at = "fetching" => l.left # {}
    PROVE  Hungry' /\ lookup'[k] = l /\ \A c \in Callers \ {k} : lookup'[c] = lookup[c]
  BY DEF BadgesInv, Hungry

LEMMA BeginLookupHungry ==
    ASSUME BadgesInv, Hungry, NEW k \in Callers, NEW addrs, BeginLookup(k, addrs)
    PROVE  /\ Hungry' /\ lookup'[k].at \in {"done", "fetching"}
           /\ \A c \in Callers \ {k} : lookup'[c] = lookup[c]
  <1> DEFINE here == [at |-> IF addrs \subseteq Hits(addrs) THEN "done" ELSE "fetching",
                      asked |-> addrs, left |-> addrs \ Hits(addrs), results |-> Hits(addrs),
                      error |-> FALSE, served |-> TRUE]
             none == [at |-> "done", asked |-> addrs, left |-> {}, results |-> {}, error |-> FALSE,
                      served |-> FALSE]
  <1>1. PICK l \in {here, none} : lookup' = [lookup EXCEPT ![k] = l]
    BY DEF BeginLookup
  <1>2. l.at \in {"done", "fetching"} /\ (l.at = "fetching" => l.left # {})
    OBVIOUS
  <1> HIDE DEF here, none
  <1> QED
    BY <1>1, <1>2, HungryOne

LEMMA FetchBatchHungry ==
    ASSUME BadgesInv, Hungry, Flagged, NEW k \in Callers, FetchBatch(k)
    PROVE  Hungry' /\ Flagged'
  <1>1. PICK b, results, error : lookup' = [lookup EXCEPT ![k] = [lookup[k] EXCEPT
                  !.at = IF lookup[k].left \ b = {} THEN "done" ELSE "fetching",
                  !.left = lookup[k].left \ b, !.results = lookup[k].results \cup results,
                  !.error = lookup[k].error \/ error]]
    <2> DEFINE Given(b, results, error) == [lookup[k] EXCEPT
                  !.at = IF lookup[k].left \ b = {} THEN "done" ELSE "fetching",
                  !.left = lookup[k].left \ b, !.results = lookup[k].results \cup results,
                  !.error = lookup[k].error \/ error]
    <2>1. \E b : \/ lookup' = [lookup EXCEPT ![k] = Given(b, b \cap Threats, FALSE)]
                 \/ lookup' = [lookup EXCEPT ![k] = Given(b, {}, TRUE)]
      BY Zenon DEF FetchBatch
    <2> HIDE DEF Given
    <2>2. \E b, results, error : lookup' = [lookup EXCEPT ![k] = Given(b, results, error)]
      BY <2>1, Zenon
    <2> QED
      BY <2>2, Zenon DEF Given
  <1> DEFINE l == [lookup[k] EXCEPT
                  !.at = IF lookup[k].left \ b = {} THEN "done" ELSE "fetching",
                  !.left = lookup[k].left \ b, !.results = lookup[k].results \cup results,
                  !.error = lookup[k].error \/ error]
  <1>2. l.at = (IF lookup[k].left \ b = {} THEN "done" ELSE "fetching") /\ l.left = lookup[k].left \ b
    BY DEF BadgesInv, Lookup
  <1>3. lookup' = [lookup EXCEPT ![k] = l]
    BY <1>1
  <1> HIDE DEF l
  <1>4. Hungry' /\ lookup'[k] = l /\ \A c \in Callers \ {k} : lookup'[c] = lookup[c]
    BY <1>2, <1>3, HungryOne
  <1>5. lookup[k].at = "fetching" /\ UNCHANGED processing
    BY DEF FetchBatch
  <1> QED
    BY <1>2, <1>4, <1>5 DEF Flagged, Callers

LEMMA EnrichmentStep == BadgesInv /\ Hungry /\ Flagged /\ [Next]_vars => Hungry' /\ Flagged'
  <1> SUFFICES ASSUME BadgesInv, Hungry, Flagged, [Next]_vars PROVE Hungry' /\ Flagged'
    OBVIOUS
  <1>0. NoLookup.at = "idle"
    BY DEF NoLookup
  <1>1. CASE EnrichFlowTable
    <2>1. CASE processing \/ PublicCells = {}
      BY <1>1, <2>1 DEF EnrichFlowTable, Hungry, Flagged
    <2>2. CASE ~(processing \/ PublicCells = {})
      BY <1>1, <2>2, BeginLookupHungry DEF EnrichFlowTable, Flagged, Callers
    <2> QED
      BY <2>1, <2>2
  <1>2. CASE FlowAnswered \/ FlowFailed
    BY <1>0, <1>2, HungryOne DEF FlowAnswered, FlowFailed, Flagged, Callers
  <1>3. CASE PanelAnswered
    BY <1>0, <1>3, HungryOne DEF PanelAnswered, Flagged, Callers
  <1>4. CASE PanelLookup
    BY <1>4, BeginLookupHungry DEF PanelLookup, Flagged, Callers
  <1>5. CASE Expire \/ ServerChange \/ Render \/ ThemeChange \/ UNCHANGED badgeVars
    BY <1>5 DEF Expire, ServerChange, Render, ThemeChange, badgeVars, Hungry, Flagged
  <1> QED
    BY <1>1, <1>2, <1>3, <1>4, <1>5, FetchBatchHungry
    DEF Next, vars, Worker, Tab, Badges, BadgesNext, BadgesProgress

\* enrichFlowTable is never locked out for good: the flag is up exactly while a lookup is
\* under way, and that lookup is answered, or has a next batch to send, whatever the size
\* of a batch, the cache and the other caller do.
THEOREM EnrichmentWaitsAlways == Spec => []EnrichmentWaits
  <1>1. Init => Hungry /\ Flagged
    BY DEF Init, BadgesInit, NoLookup, Hungry, Flagged, Callers
  <1>2. BadgesInv /\ Hungry /\ Flagged => EnrichmentWaits
    <2> SUFFICES ASSUME BadgesInv, Hungry, Flagged, NEW k \in Callers, lookup[k].at = "fetching"
                 PROVE  Batches(lookup[k].left) # {}
      BY DEF EnrichmentWaits, Flagged
    <2>1. lookup[k].left \in SUBSET Addrs
      BY DEF BadgesInv, Lookup
    <2> QED
      BY <2>1, BatchLeft DEF Hungry
  <1> QED
    BY <1>1, <1>2, EnrichmentStep, BadgesInvAlways, PTL DEF Spec
==============================================================================

# Verification of UniFi Insights Plus

TLA+ models of the log receiver and its API process, of the browser extension and of the web
interface, the TLC runs that check them on small instances, and theorems TLAPS proves about
them for every value of the constants.
Paths below are those of the repository, under `src/`.

## 1. The system

One container runs, under supervisord, PostgreSQL, the **receiver** (`receiver/main.py`:
a UDP loop on the main thread, a scheduler, a backfill, a Pi-hole and a UniFi thread) and
the **API** (`receiver/api.py`: FastAPI, one worker process whose handlers run on a thread
pool). The two Python processes share no memory. They share the database, the file
`/tmp/abuseipdb_stats.json`, and SIGUSR2: the API saves settings in `system_config` and
sends the signal (`deps.signal_receiver`), and the receiver's handler reloads them on its
main thread, in the middle of whatever that thread was doing.

Two clients talk to the API. The **web interface** (`ui/`, React) runs in a browser tab: each
component keeps state of its own, asks the API, polls, and deals with answers whenever they
come. The **extension** (`extension/`) has a service worker, which the browser stops and
starts as it likes, a popup, and content scripts in the pages of the UniFi controller; they
exchange messages and share `chrome.storage`.

### Components

| component | state it keeps | operations | hard behaviour | correct when | modelled in |
|---|---|---|---|---|---|
| Pi-hole poller (`pihole_api.py`, `routes/pihole.py`) | `_last_cursor`, pinned first window, stop event, thread; `pihole_*` rows, log rows | `poll`, `_poll_loop`, `reload_config`, `start_polling`, `stop_polling`, PUT settings | two processes and, after a join that timed out, two threads per process; crash between transaction and memory; signals inside handlers; host changed during a poll | each query is stored once, nothing but the cap on an answer is skipped, off means off | `PiholePoller`, `QueryIngest` |
| Threat enrichment and its queue (`enrichment.py`, `backfill.py`, `db.py`, `blacklist.py`, `routes/abuseipdb.py`) | memory cache, `_recently_touched`, `ip_threats`, `threat_backfill_queue`, seed position, scores in log rows | three-tier lookup, live miss, queue cycle, stale re-enrichment, orphan seed, import, manual enrichment | the same address in four hands; errors that are swallowed; expiry between any two steps | nothing known of an address is lost, a queued log is scored in the end | `ThreatQueue` |
| AbuseIPDB rate limiter (`enrichment.py`, `deps.py`, `routes/abuseipdb.py`) | limit, remaining, reset, pause in two processes; file; row | `_check_rate_limit`, `lookup`, `_update_rate_limits`, `_write_stats`, `_load_persisted_stats` | answers out of order, writes after the lock, two writers of one file, restarts | few refused calls, a stale file holds nobody back, calls come back | `AbuseIPDBLimiter` |
| Syslog receiver (`main.py`, `db.py`) | batch, counters, pool | `_handle_message`, `_maybe_flush_batch`, `_flush_batch`, `insert_logs_batch`, `stop`, signal handlers | handlers anywhere, also inside the transaction; outage; bad rows | no message goes missing from the counters, a bad row costs one row | `SyslogReceiver` |
| Settings and reload chain (`routes/setup.py`, `deps.py`, `main.py`) | `system_config`, module globals of `parsers.py` | save, signal, reload | lost signals, nested handlers, a flag cleared after a newer request | the last saved settings are in force | partly, in `PiholePoller`, `SyslogReceiver`, `SetupWizard`, `DataRetention` |
| Connection pool (`db.py`, `deps.py`) | pool lock, connections | `get_conn` | a handler that asks for a connection while the thread it interrupted holds the lock | no one waits for himself | partly, in `SyslogReceiver` |
| UniFi poller and network identity (`unifi_api.py`, `routes/unifi.py`, `ip_identity.py`) | name maps, settings, stop event; clients, devices, WAN and gateway addresses | `poll`, `reload_config`, `start_polling`, `bulk_patch_logging`, identity refresh | the Pi-hole poller's thread scheme; three writers of the identity; a lock taken in a handler | one poller; the identity is the newest source's | the firewall policies, in `FirewallRules` |
| Reverse DNS (`enrichment.py`, `db.py`) | memory and `rdns_cache` tiers, negative entries | lookup, sweep | a negative entry crossing a positive one | what is cached was an answer | not modelled |
| Retention (`db.py`, `main.py`, `routes/setup.py`, `SettingsDataBackups.jsx`) | limits, schedule, reload event, job record; the form | batched deletion, schedule reload, save, "run now", export, import | the form is edited during a save; values are stored one by one; an import overtakes a save | nothing younger than the limit goes; what is called saved is stored | settings side, in `DataRetention` |
| Purge (`routes/setup.py`, `SettingsDataBackups.jsx`) | `_purge_jobs`, log rows; the jobs the page knows | check, snapshot, register, batches; start, poll | check and register are separate; records are collected; answers are late | the page does not show a purge as running for ever | `LogPurge` |
| Migration (`routes/migration.py`, `SettingsDataBackups.jsx`) | `_migration_state`, dump file, target database; wizard and interval | start, dump, restore, validate; test, start, poll, compose file | check and start are separate; the state is lost with the process | one migration; the wizard shows its end | the job's state and the wizard, in `MigrationWizard` |
| Authentication (`routes/auth.py`, `routes/tokens.py`, `api.py`) | users, sessions, tokens, attempts | setup, login, password change, revoke, cleanup | concurrent setups; a login that crosses a password change | one first user; a changed password ends old sessions | as one browser sees it, in `AppShell`; a refused token, in `ExtensionWorker` |
| Schema and boot (`db.py`, `entrypoint.sh`) | schema, advisory locks, markers | `_ensure_schema`, one-shot repairs | both processes boot at once, a crash between two repairs | each repair happens once | not modelled |
| Extension: worker and popup (`background/`, `lib/`, `popup/`) | `chrome.storage`, registered scripts, base URL and token in memory, `discoverRunning`; the popup's view | discover, register, save and clear the token, set the server, permissions, reset | overlapping handlers; a worker stopped between two awaits; answers to an older token | the scripts are registered, a validated token is one that works, the popup shows something | `ExtensionWorker` |
| Extension: tab in the controller page (`content/tab-injector.js`, `controller-detector.js`) | a boot's closure: phase, iframe, queued click, URL; the page's flag and DOM | bootstrap, inject, show, hide, navigate, tear down | the page re-renders, is cached and brought back; a click before the iframe has loaded | one boot listens; the click arrives; a route change hides the overlay | `ControllerTab` |
| Extension: threat badges (`content/flow-enricher.js`, `panel-enricher.js`, `lib/api-client.js`) | `processing`, badges, `threatCache` | scan, lookup in batches, cache | lookups overlap at the cache's limit; a table rendered anew during a lookup | the cache keeps its limit, every cached or fetched answer is handed back, a scan ends | `ThreatBadges` |
| Web interface: frame (`App.jsx`, `api.js`, `Login.jsx`, `SettingsSecurity.jsx`) | `authState`, whether the 401 handler is armed, config, wizard, settings | bootstrap, login, logout, enable authentication, change password | a session ends while calls of parts that are gone are under way | the login is shown when the session is over | `AppShell` |
| Web interface: log table (`LogStream.jsx`, `FilterBar.jsx`, `Pagination.jsx`) | filters, fields and their timers, table, expanded row and details | type, filter, page, refresh, expand, drill | answers out of order; typed text against filters changed from outside | the table catches up, details are the row's, what is typed is applied | `LogStream` |
| Web interface: setup wizard (`SetupWizard.jsx` and its steps) | step, path, WAN list, connection attempt | test, connect, fetch, scan, edit, save | an attempt outlives the form that began it | no WAN is saved with a bad name | `SetupWizard` |
| Web interface: firewall settings (`FirewallRules.jsx`) | policies, dialog, progress, errors | load, switch, switch a group or all | requests overlap; a stream breaks | the switches show the controller | `FirewallRules`, `ZonePairAction` |
| Parsers, policy matcher, query helpers, services | none | pure functions | rule order of the matcher | unit-tested | not modelled |
| Query routes, MCP | short-lived caches | SQL over the logs | none of their own | | not modelled |
| Web interface: dashboard, maps, flows, devices; GeoIP, Docker, CI | what to draw; downloads, packaging | | | | not modelled |

`PROJECT.json` lists the hazards of this code one by one, each at its line with the
properties that watch it, or the reason why none does yet.

## 2. The modules

**`PiholePoller`**: the poller object and the threads of both processes. `poll()` is four
actions, cut where other threads can run: `FetchQueries`, `FilterNewIds` (against the cursor
in memory), `InsertPiholeBatch` (rows and cursor in one transaction), `AdvanceCursor` (the
cursor in memory). `ResolveConfig`, `JoinReturns` and `StartPolling` are `reload_config`;
`frames` is the stack of reloads a process is in, because a second SIGUSR2 interrupts the
first one's handler. `PutSettings`, `ResetCursor` and `SignalReceiver` are the endpoint.
`Next` has everything; `QuietNext` only what happens while nobody saves settings.

**`QueryIngest`**: what the poller promises in that case: a batch is a run of consecutive
queries that ends at the new cursor, each stored once, and begins after the old cursor or
where the cap on one answer cuts it. `PiholePoller` implements it under
`recorded <- head[config.host], stored <- rows[config.host], cursor <- config.cursor`.

**`MCPiholePoller`** adds the symmetry of the Pi-holes for a run without temporal property.

**`ThreatQueue`**: what AbuseIPDB says of an address is abstracted to nothing, a score, or a
score with abuse detail. `call` holds the lookup of each of the three callers (UDP loop,
worker, manual endpoint), split at the HTTP request; `worker` the cycle of the backfill
thread, whose patches, deletion and back-off are separate transactions. `DbFaults` names
the database calls that may fail, each handled as the code handles it (swallowed, or the
end of the cycle). `missed`, in the record of an address, is history: the best answer
`upsert_threat` has failed to store.

**`AbuseIPDBLimiter`**: the quota as AbuseIPDB counts it (external) beside what each process
believes of it. A lookup is split at the request (`Lookup`, `Answer`, then `UpdateRateLimits`
or `Pause`), before `_write_stats`, which runs after the lock is released, and between the
dict it builds (`CollectStats`) and the file (`WriteFile`), so that a slower thread overwrites
what is newer. A process that starts writes the file in a step of its own (`WriteAtStart`).
`EnrichIP` is the gate of manual enrichment, which reads the file.

**`SyslogReceiver`**: the main thread, and the handlers that interrupt it. `flush` has one
record for the loop's `_flush_batch` and one for the call in `stop()`. A handler that raises
(a reload while the database is away) has the effect of the exception at the point it
interrupts: the process ends, the lookup swallows it, the batch falls back to single rows,
a row is lost, or the flush counts its batch as dropped, though it may have counted it as
inserted (`ReloadCrashes`, `ReloadSwallowed`, `ReloadFailsBatch`, `ReloadFailsRows`,
`ReloadFailsFlush`). Counting is apart from the insert and from the end of the flush
(`CountInserted`, `CountDropped`, `FlushReturns`).

**`ExtensionWorker`**: every handler of the service worker is a task, cut at its requests to
the server, at the permission it waits for, and between `unregisterContentScripts` and
`registerContentScripts`. `memory` is lost when the browser stops the worker (`StopWorker`),
`local` (`chrome.storage`) and `scripts` stay. `popup` is the popup's view with the message it
waits for. `kept` and `unproven` are history: that a registration was let through since the
scripts were last taken away on purpose, and the tokens whose mark the code did not earn.

**`ControllerTab`**: a *boot* is one run of `bootstrap()` with the variables of its closure.
Handlers of a boot that was torn down live on in the elements it created. `RouteSeen` is
`onPossibleRouteChange`, `Navigated` the click on a badge, `IframeLoad` the load event. A
route change reaches the hooks or does not: the content script replaces `pushState` and
`replaceState` in its own world only, where the page's router never calls them. `opened` and
`strayed` are history: the route an embed was opened over, and that the router has moved on
since with no hook called.

**`ThreatBadges`**: the scan of the flow table and the lookup it shares with the side panel:
which addresses are taken from the cache, which batch is asked for, and what an answer does
to the cache (`Cached` for one entry, `CachedAll` for an answer, which may list its addresses in
any order). `ServerChange` gives the worker an address of the server or takes it away, also
in the middle of a lookup; without one a lookup begins and ends empty.

**`Extension`** composes the three, **`WebInterface`** the seven modules below. No step of a
part changes another part's variables, so that a behaviour is about one `part`, and the
others rest in one initial state; the state spaces add up.

**`AppShell`**: `boot` follows the status and session checks, `armed` is `bootstrapDoneRef`.
`apiCall` holds calls under way with what the server said and whether who made the call
still waits (`kept`): the answer of one that does not still reaches the 401 handler.

**`LogStream`**: a load remembers the filters it asked for, and its answer replaces the table.
`isInternalChange` and `synced` are FilterBar's flag and the dependencies its effect saw last;
`asked` is the row of the request for details that was not cancelled.

**`SetupWizard`**: an `attempt` is a test, a pause and a request for the network configuration;
it goes on when its form is gone, which `crossed` remembers.

**`FirewallRules`**: `call` holds the requests under way, each patching one policy after the
other, reading, and being answered. When its stream breaks the server's thread goes on
(`ServerThread`), patch by patch, and a load in between reads what there is by then. A load
reads page by page: what is patched meanwhile it may or may not see. `unsure` is history,
policy by policy: those patched while the load or the answer the page shows was on its way
(`missed` of a request), or for a request the page had given up. **`ZonePairAction`** is what a cell of the zone
matrix shows.

**`DataRetention`**, **`LogPurge`**, **`MigrationWizard`**: the settings page and the server's
side of it. In `DataRetention` the values are read and arrive in two steps (`GetRetention`,
`LoadRetentionConfig`), and what was sent before the page was left, or before the connection
was lost, is in `late`: `LateRequest` may carry it out at any time, or never. In `LogPurge` a request checks, counts and registers in three steps and its
worker updates the record it finds; in `MigrationWizard` two requests may both start a
thread. Answers to polls show the server as it was when they were made.

### Abstractions

- *Data.* A query, message or address is a number or a model value. What a log row says,
  GeoIP, names and formatting are left out. Of a message it matters whether it is refused
  and whether the database rejects its row.
- *Time.* Intervals, time-outs, expiry and back-off are steps that may happen at any moment.
  In `AbuseIPDBLimiter` a time is the number of ticks until then. All clocks agree.
- *Atomic steps.* A database transaction is a step. The several `set_config` calls of the
  Pi-hole endpoint are one, so are the reads of `_resolve_config`; the endpoint handles one
  request at a time. In `SyslogReceiver` a reload is one step: what it does to the pollers
  is `PiholePoller`'s matter. In `ThreatQueue` the choice of stale candidates and their
  backdating are one step. In `AbuseIPDBLimiter` the file and the row are written in one, the
  dict's fields are read in one, and a renewal is written down under the lock that makes it.
- *Handlers.* In `SyslogReceiver` a reload that raises inside `stop()` just ends the process.
- *Browser.* A callback of JavaScript is a step, since nothing interrupts it; it is cut where it
  awaits. An effect of React follows the change that triggers it at once. In the extension
  calls of `chrome.*` take effect at once, and fail only where the outcome depends on it.
- *Forms.* One text field stands for the seven of the filter bar, one value for two retention
  periods and the time, one toggle for two; of a WAN it matters whether its name is there
  and valid. Badges, themes, messages that go away and scrolling are left out.
- *Counters.* `inserted` counts what the code counts: `insert_logs_batch` returns after the
  fallback too, so rows it dropped are in it. `Accounted` is about these counters, and
  `BadDataIsolated` about the rows themselves.
- *Quota.* In `ThreatQueue` a lookup may come back empty at any time; the blacklist endpoint
  has a quota of its own and appears there only as an import.

## 3. What is checked

Every run is exhaustive for its constants. `CHECK_DEADLOCK FALSE` is there because each of
these models stops when its bounded events are used up (the limiter's clock does not, and
its runs do check deadlock).

| run | states | shows |
|---|---|---|
| `pihole_quiet` | 4,541 | Four queries, a cap of two and two crashes: `AtMostOnce`, the refinement `IngestSpec`, and `LaterQueriesReached`. |
| `pihole_reload` | 123,997 | Two threads and two nested handlers, a PUT and another save: types, `CursorNamesStoredQuery`, `ReloadStopsWhenOff` (also for a thread an earlier join gave up on). |
| `threat_queue` | 464,860 | Two addresses, two logs (one from an earlier release), two events out of failures (that of `upsert_threat` too), expiries, imports, manual enrichments and restarts: `ThreatsBackEverything`, `KnowledgeKept`, `BackoffKept`, `QueuedLogsGetScored`. |
| `syslog_receiver` | 171,140 | Three messages, batches of two, two reloads, an outage, SIGTERM at any point: `Accounted`, `StoredOncePerReload`, `BadDataIsolated`, `BatchDrains`. |
| `extension` | 282,340 | Two overlapping handlers with three events; three boots and six acts in the page; a cache of one entry, batches of one and three addresses: types, `ValidatedMeansAccepted`, `ScriptsSurviveOverlap`, `OneBootListens`, `LastClickShown`, `CacheWithinLimit`, `AnswersComplete`, `DiscoveryEnds`, `PopupShows`, `ClickArrives`, `EmbedOverItsRoute`, `EnrichmentEnds`. |
| `web_interface` | 199,183 | Seven parts, each with two requests under way at once and one to six clicks, failures or expiries: types, `BaselineIsStored`, `SwitchesShowController`, `SavedWansValid`, `DetailFollowsRow`, `PurgeShownEnds`, `MigrationOutcomeShown`, `ExpiryShowsLogin`, `TableCatchesUp`, `TypedIsApplied`. |
| `limiter` | 548,788 | Two receiver threads and a request of the API share one call in a window of two ticks, pauses of one, with one failure or restart: types, `RejectionsBounded` (three refusals of two threads are reached; with two calls, in a run too long for the project, the four of the bound), `ResetsNameThisWindow`, `RenewalComes`. |

Why these bounds are enough to matter: four queries under a cap of two give an answer that
is cut, one that overlaps the stored ones, and one that leaves a gap; two crashes fall in
two different steps of one batch. Two threads are what a join that times out leaves, and two
frames a handler inside a handler. Two addresses let a batch have a lookup that succeeds and
one that fails; two events let a failure meet an expiry or a restart. Three messages fill a
batch and begin another; two reloads interrupt two steps of one flush. Two threads of one
process let a 429 and a 200 cross, and a late answer name the last window's reset. Two
handlers of the worker are the pair that overlaps in the code: a registration from the popup
and one from the permission event, or a request of an old token and the test of a new one. A
third boot is the one that starts while a cached and a torn-down one are still there. A cache
of one entry is full after the first answer of a lookup that has a second. Two requests of
the web interface are what crosses. Larger instances were explored for the invariants
without a violation: two tokens and five events for the worker (11 million states, not
exhausted), three threats, batches and a cache of two for the badges, three acts of the
setup wizard, seven of the firewall page, seven of retention with three periods, and five of
the log table with three loads. Each
property of a passing run has a mutant in `PROJECT.json` that a plausible bug would make of
a definition, and TLC finds the property violated by it under the same bounds.

### Disagreements between the code and what it says

| run | finding |
|---|---|
| `pihole_two_pollers` | `start_polling` replaces `_poll_stop` while a thread that outlived `join(timeout=5)` still polls. The two share one cursor and store a query twice, though `poll` "only inserts records with id > last_cursor". |
| `pihole_host_change` | A poll of the old host in flight while the host changes overwrites the cursor the endpoint has reset "so we re-fetch from the new instance". |
| `threat_late_log` | The worker patches the logs of an address and deletes its queue row while one of them is still in the receiver's batch; that log is stored without a score and in no queue. |
| `syslog_stop` | SIGTERM during the loop's own flush: `stop()` finds an empty batch, and `sys.exit` unwinds the flush before it commits, though `stop` is to "flush remaining logs". |
| `limiter_pause` | A 429 sets the remaining calls to 0 and leaves the reset as it is. With no reset known nothing ever renews them, though the pause is "until reset" and the endpoint says "resets daily". |

### Fairness

- `QuietFairSpec`: weak fairness of every poller thread (the operating system runs it), and
  strong fairness of the fetch, the filter and the insert: the Pi-hole and the database may
  fail any number of times, but not at every attempt for ever.
- `PiholePoller!FairSpec`: weak fairness of threads and handlers only; polls may fail for ever.
- `ThreatQueue!FairSpec`: weak fairness of the backfill thread and of elapsing back-offs.
  Failures need no fairness: `MaxEvents` bounds them, which says that the API answers in the end.
- `SyslogReceiver!FairSpec`: weak fairness of the main thread's own steps. Signals are
  bounded, so that handlers do not keep it from its loop for ever.
- `Extension!Spec`: weak fairness of what the code does next (`Progress`): a handler goes on, the
  popup gets its answer or learns that the worker is gone, a boot goes on, an iframe loads, a
  lookup is answered or fails. Nobody is made to click, and the browser need not stop anything.
- `WebInterface!Fairness`: in each of five parts weak fairness of what is under way (requests
  and commands have time limits, timers fire) and, apart from that, of polling: an interval
  fires while its component is mounted. Nothing is claimed of what must happen in the setup
  wizard and the firewall page.
- `AbuseIPDBLimiter!FairSpec`: time goes on. Nothing is assumed of the threads: what
  `RenewalComes` promises is that a check *would* let a lookup through. `ActiveSpec`, of
  the violation run, has every thread go on as well, so that its counterexample is not a
  process that simply stopped.

## 4. What is proved

TLAPS checks these for any number of queries, threads, addresses, logs, messages, failures
and restarts, from nothing but the named assumptions on the constants (finite bounds are
naturals, sizes are positive).

| theorem | argument |
|---|---|
| `PiholePollerProofs!TypeCorrect` | `TypeInv` adds that a batch about to be stored is not empty, without which its maximum is not a cursor. The delicate part of the types is that what a thread holds is always an interval of ids: cutting an interval at the cursor leaves one. |
| `PiholePollerProofs!CursorNamesStored` | With the types inductive: the transaction stores the query its cursor names (`NewCursorIsId`), a change of host sets it to 0, nothing else touches either. |
| `PiholeIngestProofs!QuietAtMostOnce`, `QuietImplementsIngest` | `QuietInv`: only one thread runs; no row lies above the stored cursor; the cursor in memory is the stored one except between the transaction and `AdvanceCursor`; an answer is an interval that starts at 1 or at the cap (`IsAnswer`), a batch one above the cursor (`IsBatch`). The transaction is then a `Store` step, every other step a stutter or a `Record`. |
| `ThreatQueueProofs!ThreatTypeCorrect`, `ThreatBackoffKept` | Types, with a well-formed call per caller. The back-off needs no more than types: of the steps only `BackoffElapses` makes a delayed row due. |
| `ThreatSafetyProofs!ThreatsBacked`, `ThreatKnowledgeKept` | For any set of failing database calls. Each place that holds a score is bounded by what is known of the address (`Known`): what `ip_threats` holds, or the best answer `upsert_threat` failed to store there. Neither falls; and the UDP loop's lookup is of the log being enriched (`LookupIsOfLog`), so that what it returns is bounded for that log. A patch copies from `ip_threats`, which is as good as what is known unless an upsert has failed (`Unsaved`). |
| `SyslogProofs!SyslogTypeCorrect`, `StoredOnce` | `FramesOK`: a frame that does not run holds nothing, and the one that runs holds the whole batch until it clears it. `HeldOnce`: a message is in one place. `PendingOnce`: a message still to be inserted has at most one row per reload that raised, which is what one more insertion needs. |
| `SyslogProofs!MessagesAccounted` | The same shape; each step moves a set of messages between places that are disjoint, so that the cardinalities add up. A flush that has counted its batch as inserted and then sees a reload raise counts it again: the batch is as large as `BatchSize` at most, and each reload that raised pays for one. |
| `SyslogProofs!BadDataIsIsolated` | `Isolated`: without an outage nothing raises, so the process never comes up a second time, and every accepted message has its row, is rejected, or is still being enriched, in the batch, or in what the loop's flush has left. |
| `LimiterProofs!LimiterTypeCorrect`, `ResetsNameThisWindowAlways` | `AlignedInv` is inductive with the types: `ResetsNameThisWindow` speaks of every place that holds a reset, and a thread that is not waiting for AbuseIPDB holds no answer but that of a 429, which names no reset. An answer is made with the window's end, copying keeps it, and when the window ends all of them have passed at once. That the file is stale costs nothing else. |
| `LimiterProofs!RejectionsAreBounded` | `BoundInv`: in a used-up window the refusals so far and those that may still come (`Spare`) stay within the bound. A refused call uses up one; each late 200, dealt with, hands its chances on to the threads that no longer wait; a `reset_at` that has passed counts once more (`AlignedInv`: it names this window or has passed). |
| `ExtensionProofs!OneBootListensAlways`, `EmbedOverItsRouteAlways`, `LastClickShownAlways` | `TabInv`: at most one boot is past its guard and not torn down, and only while the page's flag is set; a boot that listens shows its overlay only while active, and then its embed was opened over the URL it saw last, which is the page's unless the router has moved on unseen (`strayed`). `ClickInv` (`Delivers`): what such a boot has queued is the last click, and its iframe has not loaded; with nothing queued, what it has delivered is the last click. |
| `ExtensionProofs!ScriptsSurviveOverlapAlways` | `ScriptsInv`: scripts are missing after a permitted registration only while some handler is between its two calls, and that one has a controller to register. |
| `ExtensionProofs!ValidatedMeansAcceptedAlways` | `ValidInv` adds that statistics the popup has got were asked for with a token the server does not refuse; every other mark is set in the step that proves it. |
| `ExtensionProofs!CacheWithinLimitAlways`, `AnswersCompleteAlways` | `BadgesInv`: the cache is a sequence within the limit, holds no address twice, and only addresses the server knows (`GoodCaches`); a lookup has what the server knows of each address that is no longer `left`, unless it has an error, or has nothing as it began without a server (`LookupKnows`). `CachedAllGood`: caching a whole answer leaves a good cache good. It is an induction over the answer, made with the well-foundedness of the naturals (`NatsFrom`, from `WFMin`). |
| `ExtensionProofs!ExtensionTypeCorrect` | The types each part's invariant already has (`WorkerTypes`, `TabInv`, `BadgesInv`), with the counters of events, acts and changes within their bounds. |
| `ExtensionProofs!OneDiscoveryAlways`, `PopupIsAnsweredAlways` | `AnswersInv`: `discoverRunning` is up exactly while one handler has a `discover`; a handler is at its answer exactly if its message only asks (statistics or a lookup); what a waiting popup waits for is a message, a handler (`Coming`) or the permission dialog. Each step of a handler is of one of five kinds (`Begun`, `Dropped`, `GoneOn`, `Returned`, `Served`), and each kind keeps it, as does every click, disconnect and stop of the worker. |
| `ExtensionProofs!EnrichmentWaitsAlways` | `processing` is up exactly while the flow table's lookup is under way; a lookup that fetches has addresses left, and of these there is a batch to send (`BatchLeft`), as a finite set has a part of every smaller size (`PartOfSize`). |
| `InterfaceProofs!DetailFollowsRowAlways` | `DetailInv` adds that a request for details that was not cancelled is of the expanded row. |
| `InterfaceProofs!BaselineIsStoredAlways` | `FormInv`: with the types of the forms, and an answer on its way that is as good as a form that has it, the property is inductive; the work is in the cases of a save, an import and a load that cross (`FormStep`), and in what the steps add to `late` and take from it (`LateKept`, `FailsKept`). |
| `InterfaceProofs!SwitchesShowControllerAlways` | `RuleInv`: a policy that shows the wrong state is unsure, or some request that the page waits for mends it (`Mends`): a bulk update will load it, and a switch or a load will bring what is right but for what it missed (`CallSound`). Each patch makes a policy wrong only for requests that note it (`PatchInv`), each answer takes over what the request noted (`LoadInv`, `ToggleInv`), and each failure makes what was sent unsure (`StreamInv`, `FailureInv`). |
| `InterfaceProofs!SavedWansValidAlways` | `WizardInv`, `ConnectInv`: unless `crossed`, one attempt at most is alive and it belongs to the form, so that the wizard is at its first step; past the second all names of a controller are valid. |
| `InterfaceProofs!WebInterfaceTypeCorrect` | The types of the seven parts, each inductive for its own steps. The work is in the functions and sequences: a call that is added or dropped leaves a map of calls (`ApiCallMap`), the WAN list without an entry is a list of names (`WithoutTyped`, an induction over the list), an interface that is edited keeps its place. |
| `InterfaceProofs!HandlerArmedAlways` | `HandlerArmed`: whoever is signed in or looks at the login form, and whoever has a login under way, has come there by a step that has armed the handler, although the answer of a call may reach a page that has moved on. |
| `InterfaceProofs!TypedNotLostAlways` | `TypedNotLost`: of all steps that change the filters only those that change the field too end the wait, and they are the ones that count as "something else changed it". |
| `InterfaceProofs!RunningHasThreadAlways` | `RunningHasThread`: the state becomes "running" in the step that starts a thread, and a thread that ends, or a restart, leaves another state behind. |

The theorems about the extension and the web interface are of the composed `Spec`: a step of
another part changes nothing of this one. They use `Init` and the steps only, never the
fairness in `Spec`.

Every safety invariant and every action property of a passing run is a theorem. Only model-checked are
the liveness properties (`LaterQueriesReached`, `ReloadStopsWhenOff`,
`QueuedLogsGetScored`, `BatchDrains`, `RenewalComes`, `DiscoveryEnds`, `PopupShows`, `ClickArrives`,
`EnrichmentEnds`, `PurgeShownEnds`, `MigrationOutcomeShown`, `ExpiryShowsLogin`, `TableCatchesUp`,
`TypedIsApplied`), since the prover has no ENABLED and no liveness under fairness. For six of
them the invariant that the argument rests on is proved for every value of the constants:
`OneDiscovery` for `DiscoveryEnds`, `PopupIsAnswered` for `PopupShows`, `EnrichmentWaits` for
`EnrichmentEnds`, `HandlerArmed` for `ExpiryShowsLogin`, `TypedNotLost` for `TypedIsApplied`,
`RunningHasThread` for `MigrationOutcomeShown`. They say that nothing waits for something that
cannot come; that it does come stays with TLC and the fairness stated above. No
module uses a RECURSIVE operator: what is recursive is a recursive function (`CachedAll`,
`Without`), whose existence and values are proved where a theorem needs them.

## 5. Seen while modelling

Behaviour the models contain and that no property forbids, because no line of the repository
promises otherwise; a property that would be violated by it says so in its exceptions.

*Extension.* `pagehide` while a boot waits for the header leaves the started flag set,
so that a restored page gets no tab (`tab-injector.js:73`). After a restore from the cache the overlay of the old boot is not
hidden by route changes or ESC. A scan asked for while one is running is dropped, so that
badges may be missing until the table changes again (`flow-enricher.js:196`). The hooks on
`history` "cover pushState, replaceState" (`tab-injector.js:91`) of the content script's own world,
not of the page's router: after such a change of route an overlay stays until the next event
that reaches them. A lookup without an address of the server is answered empty, with no error
(`api-client.js:106`). `discover` and
`onConnected` go on with a controller URL they read before, and may register the old
controller, or register after a disconnect. The 401 of an old token's request marks a newer
token; the popup's upgrade marks whichever token is stored (`popup.js:487`); a token saved
before any server is known counts as validated.

*Web interface.* A purge whose worker fails in `get_conn` before the `try` (`setup.py:902`) stays
"running" for ever (`Abandoned`). A late poll can report a purge that has just begun as
finished. Saving the processing toggles clears the dirty mark although they were switched
meanwhile (`SettingsDataBackups.jsx:776`). A server restart during a migration leaves the wizard
at its progress bar. A broken bulk stream leaves the table of policies stale, and a Refresh that follows may read a
state half patched, as the server's thread goes on (`routes/unifi.py:382`). A save sent before
the page was left may be carried out after it has been opened again and has read its values
(`SettingsDataBackups.jsx:627`). The
zone matrix shows a pair whose catch-all rejects as "Allow All". Skipping the connection in
the setup wizard while its test is in flight is overridden when the test succeeds, and what
it then saves may have blank names (`crossed`). If the status request fails at start, the page
works with the 401 handler unarmed (`App.jsx:293`), and a tab opened while authentication was
off never shows the login. A wrong old password in Settings > Security is answered by a 401,
which logs the user out instead of showing the message (`auth.py:651`). The filter bar's flag
stays set after a change of a field its effect does not watch, so that the next change from
outside does not reach the text fields.

*Receiver.* A flush that sees a reload raise after `main.py:200` counts its batch as inserted and as
dropped. `_write_stats` may overwrite a newer file with a dict collected before
(`enrichment.py:466`), so that the gate of manual enrichment sees an older count. An answer whose
`upsert_threat` fails is in memory and in no table: the worker deletes the queue row with
nothing to patch from, and a later patch may take detail from a log. A handler may wait for the
pool's lock that the main thread it interrupted holds (`hung` in `SyslogReceiver`).
`direction_backfill_pending` is set before the receiver has the new WAN interfaces
and cleared at the end of a pass, whichever interfaces that pass used (`backfill.py:468`).

## 6. Not modelled

- **Pure functions over text** (parsers, query building, services): unit-tested, no state.
- **SQL reports** of the query routes and MCP, and the **views that draw them** (dashboard,
  threat map, flow and device views): they ask, and show what they get.
- **Reverse DNS, schema and boot**: a cache whose errors cost one more query, and statements
  run once under a lock of the database.
- **Scheduler and batched deletion of retention**, the **UniFi poller** with the network
  identity, **several users at once** in `routes/auth.py`, tokens' scopes, and the
  **direction backfill**: they hold the hazards that `PROJECT.json` lists without a property.
  The UniFi poller has the thread scheme of `PiholePoller`, with the same outcome to expect.
- **Rows and files of a migration**: dump, restore and validation are one step.
- **GeoIP, assets, Docker, CI**: downloads and packaging.

## 7. The plan

Done, in this order: `PiholePoller` with `QueryIngest`, `ThreatQueue`, `SyslogReceiver`,
`AbuseIPDBLimiter`; then the extension and the web interface with the jobs behind its
settings pages; each with its runs and theorems. To come:

1. **Auth** with two clients: at most one first user, no session of an old password outlives
   its change.
2. **UniFi poller and network identity** on the scheme of `PiholePoller`, with the direction
   backfill.

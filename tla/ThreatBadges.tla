----------------------------- MODULE ThreatBadges -----------------------------
(***************************************************************************)
(* Threat badges in the flow table of the UniFi controller: the content    *)
(* script that finds addresses and puts badges beside them                 *)
(* (extension/content/flow-enricher.js), and the lookup with its cache in  *)
(* the service worker (extension/lib/api-client.js).                       *)
(*                                                                         *)
(* The table is UniFi's: it renders a row anew, or reuses the row's        *)
(* elements for another address, at any moment, also between the lookup    *)
(* and its answer.  A cell stands for the one address column that is       *)
(* enriched; what a badge shows is left out.  The side panel               *)
(* (panel-enricher.js) appears as a second caller of the same lookup.      *)
(***************************************************************************)
EXTENDS Naturals, Sequences, SequencesExt, FiniteSets

CONSTANTS
    Cells,      \* cells of the table
    Addrs,      \* public addresses
    Threats,    \* the ones the server has threat data of
    BatchMax,   \* BATCH_MAX
    MaxCache,   \* MAX_CACHE_SIZE
    MaxChanges  \* bound: renderings, expiries, lookups of the panel, failures

ASSUME ThreatBadgesAssumption ==
    /\ Threats \subseteq Addrs /\ IsFiniteSet(Addrs)
    /\ BatchMax \in Nat \ {0} /\ MaxCache \in Nat \ {0} /\ MaxChanges \in Nat

NoAddr == "none"    \* a private address, a local device, no address
Callers == {"flow", "panel"}

VARIABLES
    shows,       \* what each cell shows
    badge,       \* the badges in a cell, in the order of their injection
    debounce,    \* the mutation observer's timer is running
    processing,  \* enrichFlowTable is at work
    found,       \* the cells it has collected, with their addresses
    lookup,      \* the lookup each caller waits for
    cache,       \* threatCache, oldest first
    connected,   \* baseUrl: the worker knows the server's address
    changes      \* how much of MaxChanges is used

badgeVars == <<shows, badge, debounce, processing, found, lookup, cache,
              connected, changes>>

NoLookup == [at |-> "idle", asked |-> {}, left |-> {}, results |-> {}, error |-> FALSE,
             served |-> TRUE]
Lookup == [at : {"idle", "fetching", "done"}, asked : SUBSET Addrs, left : SUBSET Addrs,
           results : SUBSET Addrs, error : BOOLEAN,
           served : BOOLEAN]   \* history: there was an address when it began

BadgesInit ==
    /\ shows \in [Cells -> Addrs \cup {NoAddr}]
    /\ badge = [c \in Cells |-> <<>>]
    /\ debounce = TRUE /\ processing = FALSE /\ found = {}
    /\ lookup = [k \in Callers |-> NoLookup]
    /\ cache = <<>> /\ connected \in BOOLEAN /\ changes = 0

Change == changes < MaxChanges /\ changes' = changes + 1

------------------------------------------------------------------------------
\* The lookup (batchThreatLookup).

Hits(asked) == {a \in asked : [addr |-> a, fresh |-> TRUE] \in ToSet(cache)}

\* Mutant: what the cache has is neither fetched nor answered.
BeginLookupWithoutHits(k, asked) ==
    lookup' = [lookup EXCEPT ![k] =
        [at |-> IF asked \subseteq Hits(asked) THEN "done" ELSE "fetching",
         asked |-> asked, left |-> asked \ Hits(asked), results |-> {}, error |-> FALSE,
         served |-> TRUE]]

\* Without an address of the server the answer is empty, and no error.  With one, what
\* the cache has is taken at once; the rest goes to the server in batches.
BeginLookup(k, asked) ==
    \/ /\ ~connected
       /\ lookup' = [lookup EXCEPT ![k] =
             [at |-> "done", asked |-> asked, left |-> {}, results |-> {}, error |-> FALSE,
              served |-> FALSE]]
    \/ /\ connected
       /\ lookup' = [lookup EXCEPT ![k] =
             [at |-> IF asked \subseteq Hits(asked) THEN "done" ELSE "fetching",
              asked |-> asked, left |-> asked \ Hits(asked), results |-> Hits(asked),
              error |-> FALSE, served |-> TRUE]]

Entry(addr) == [addr |-> addr, fresh |-> TRUE]
Places(entries, addr) == {i \in 1..Len(entries) : entries[i].addr = addr}

\* Mutant: the oldest goes only once the limit is passed.
CachedPastLimit(entries, addr) ==
    LET old == Places(entries, addr)
        room == IF old # {} THEN RemoveAt(entries, CHOOSE i \in old : TRUE)
                ELSE IF Len(entries) > MaxCache THEN Tail(entries) ELSE entries
    IN Append(room, Entry(addr))

\* An entry that is there is replaced at the end; a new one drives out the oldest.
Cached(entries, addr) ==
    LET old == Places(entries, addr)
        room == IF old # {} THEN RemoveAt(entries, CHOOSE i \in old : TRUE)
                ELSE IF Len(entries) >= MaxCache THEN Tail(entries) ELSE entries
    IN Append(room, Entry(addr))

\* The addresses of an answer are cached one after the other.
CachedAll(entries, addrs) ==
    LET after[i \in 0..Len(addrs)] ==
            IF i = 0 THEN entries ELSE Cached(after[i - 1], addrs[i])
    IN after[Len(addrs)]

Batches(left) ==
    {b \in SUBSET left : b # {} /\ (Cardinality(b) = BatchMax \/ (b = left /\ Cardinality(b) < BatchMax))}

\* The next batch is answered, or it fails, as it must once the address is gone: its
\* addresses are given up and the error is kept, but the other batches go on.
FetchBatch(k) ==
    /\ lookup[k].at = "fetching"
    /\ \E b \in Batches(lookup[k].left) :
          LET left == lookup[k].left \ b
              Given(results, error) == [lookup[k] EXCEPT
                  !.at = IF left = {} THEN "done" ELSE "fetching",
                  !.left = left, !.results = @ \cup results, !.error = @ \/ error]
          IN \/ /\ connected
                /\ lookup' = [lookup EXCEPT ![k] = Given(b \cap Threats, FALSE)]
                /\ \E order \in SetToSeqs(b \cap Threats) : cache' = CachedAll(cache, order)
                /\ UNCHANGED changes
             \/ /\ IF connected THEN Change ELSE UNCHANGED changes
                /\ lookup' = [lookup EXCEPT ![k] = Given({}, TRUE)] /\ UNCHANGED cache
    /\ UNCHANGED <<shows, badge, debounce, processing, found, connected>>

Expire ==
    /\ Change
    /\ \E i \in 1..Len(cache) : cache' = [cache EXCEPT ![i].fresh = FALSE]
    /\ UNCHANGED <<shows, badge, debounce, processing, found, lookup, connected>>

\* A server is found, or the user enters one; DISCONNECT forgets it.  The cache stays.
ServerChange ==
    /\ Change
    /\ connected' = ~connected
    /\ UNCHANGED <<shows, badge, debounce, processing, found, lookup, cache>>

PanelLookup ==
    /\ Change
    /\ lookup["panel"].at = "idle"
    /\ \E asked \in SUBSET Addrs : asked # {} /\ BeginLookup("panel", asked)
    /\ UNCHANGED <<shows, badge, debounce, processing, found, cache, connected>>

PanelAnswered ==
    /\ lookup["panel"].at = "done"
    /\ lookup' = [lookup EXCEPT !["panel"] = NoLookup]
    /\ UNCHANGED <<shows, badge, debounce, processing, found, cache, connected, changes>>

------------------------------------------------------------------------------
\* The flow table.

PublicCells == {[cell |-> c, addr |-> shows[c]] : c \in {x \in Cells : shows[x] # NoAddr}}

\* The timer calls enrichFlowTable, which does nothing while an earlier call waits
\* for its lookup, and nothing if there is no public address.
EnrichFlowTable ==
    /\ debounce
    /\ debounce' = FALSE
    /\ IF processing \/ PublicCells = {}
       THEN UNCHANGED <<processing, found, lookup>>
       ELSE /\ processing' = TRUE
            /\ found' = PublicCells
            /\ BeginLookup("flow", {f.addr : f \in PublicCells})
    /\ UNCHANGED <<shows, badge, cache, connected, changes>>

\* A cell that has a badge is left alone; a badge is a mutation of the table.
InjectBadges(with) ==
    LET new(c) == {f \in found : f.cell = c /\ f.addr \in with /\ badge[c] = <<>>} IN
    /\ badge' = [c \in Cells |-> IF new(c) = {} THEN badge[c]
                                 ELSE Append(badge[c], (CHOOSE f \in new(c) : TRUE).addr)]
    /\ debounce' = (debounce \/ \E c \in Cells : new(c) # {})

\* Partial results are used.  On every way out the next call is let in.
FlowAnswered ==
    /\ lookup["flow"].at = "done"
    /\ InjectBadges(lookup["flow"].results)
    /\ lookup' = [lookup EXCEPT !["flow"] = NoLookup]
    /\ processing' = FALSE /\ found' = {}
    /\ UNCHANGED <<shows, cache, connected, changes>>

\* Mutant: the flag is not lowered when the message fails.
FlowFailedBusy ==
    /\ Change
    /\ lookup["flow"].at # "idle"
    /\ lookup' = [lookup EXCEPT !["flow"] = NoLookup]
    /\ found' = {}
    /\ UNCHANGED <<shows, badge, debounce, processing, cache, connected>>

\* The message fails: the worker was stopped, or the answer is empty.
FlowFailed ==
    /\ Change
    /\ lookup["flow"].at # "idle"
    /\ lookup' = [lookup EXCEPT !["flow"] = NoLookup]
    /\ processing' = FALSE /\ found' = {}
    /\ UNCHANGED <<shows, badge, debounce, cache, connected>>

\* UniFi renders a cell: a new element without a badge, which a lookup under way does
\* not know, or the old one with another address; the observer watches elements, and
\* a text that changes in place need not be seen.
Render ==
    /\ Change
    /\ \E c \in Cells, a \in Addrs \cup {NoAddr}, reused \in BOOLEAN :
          /\ shows' = [shows EXCEPT ![c] = a]
          /\ badge' = IF reused THEN badge ELSE [badge EXCEPT ![c] = <<>>]
          /\ found' = IF reused THEN found ELSE {f \in found : f.cell # c}
          /\ debounce' \in (IF reused THEN {TRUE, debounce} ELSE {TRUE})
    /\ UNCHANGED <<processing, lookup, cache, connected>>

\* The theme changes: all badges go and the table is enriched anew.
ThemeChange ==
    /\ Change
    /\ badge' = [c \in Cells |-> <<>>]
    /\ debounce' = TRUE
    /\ UNCHANGED <<shows, processing, found, lookup, cache, connected>>

BadgesProgress ==
    \/ \E k \in Callers : FetchBatch(k)
    \/ EnrichFlowTable \/ FlowAnswered \/ PanelAnswered

BadgesNext ==
    \/ BadgesProgress
    \/ Expire \/ ServerChange \/ PanelLookup \/ FlowFailed \/ Render \/ ThemeChange

------------------------------------------------------------------------------
BadgesTypeOK ==
    /\ shows \in [Cells -> Addrs \cup {NoAddr}] /\ badge \in [Cells -> Seq(Addrs)]
    /\ debounce \in BOOLEAN /\ processing \in BOOLEAN
    /\ found \in SUBSET [cell : Cells, addr : Addrs]
    /\ lookup \in [Callers -> Lookup]
    /\ cache \in Seq([addr : Addrs, fresh : BOOLEAN])
    /\ connected \in BOOLEAN /\ changes \in 0..MaxChanges

\* Two lookups fill one cache, each between two awaits of the other: it never grows
\* over its limit and never holds an address twice.
CacheWithinLimit ==
    /\ Len(cache) <= MaxCache
    /\ \A i, j \in 1..Len(cache) : cache[i].addr = cache[j].addr => i = j

\* An answer without an error has everything the server knows of what was asked, also
\* where the cache, other callers, failed batches and a server that is forgotten in the
\* middle came in between.  A lookup begun without a server is the exception: its answer
\* is empty and says so nowhere.
AnswersComplete ==
    \A k \in Callers :
        lookup[k].at = "done" /\ ~lookup[k].error =>
            lookup[k].results = IF lookup[k].served THEN lookup[k].asked \cap Threats ELSE {}

\* A call of enrichFlowTable always lets the next one in, whatever became of its lookup.
EnrichmentEnds == processing ~> ~processing
==============================================================================

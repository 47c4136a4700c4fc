------------------------------ MODULE LogStream ------------------------------
(***************************************************************************)
(* The table of logs: filters, what is typed into them, loads and the      *)
(* refresh every five seconds, the expanded row with its details           *)
(* (ui/src/components/LogStream.jsx, FilterBar.jsx, Pagination.jsx), and   *)
(* the drill from the flow view into it and back (ui/src/App.jsx).         *)
(*                                                                         *)
(* Nothing orders the answers: a late one of older filters replaces the    *)
(* table, which only a later refresh puts right.  What is typed becomes a  *)
(* filter after 400 ms, while filters may also change from outside and     *)
(* then change what the fields say: a flag tells the two apart.            *)
(***************************************************************************)
EXTENDS Naturals

CONSTANTS
    Texts,       \* what may be typed into a field
    Rows,        \* logs of the table
    Loads,       \* bound: requests for logs under way at one time
    MaxLogActs   \* bound: clicks, failures

NoText == ""    \* an empty field

ASSUME LogStreamAssumption == MaxLogActs \in Nat /\ Loads \subseteq Nat /\ 1 \in Loads
                             /\ {NoText, "none"} \cap (Texts \union Rows) = {}

VARIABLES
    tab,            \* "logs" or "flow-view"
    drill,          \* App's logsDrill waits to be consumed
    drillSource,    \* the drill came from the flow view
    drillContext,   \* the banner of a drill is shown
    kept,           \* localStorage: toggles that are not the default
    filters,        \* the filters: one text field, the other fields, the page
    field, debounce,    \* what the text field says, and its 400 ms timer
    isInternalChange, synced,   \* the flag, and the filters the sync effect saw last
    fetches,        \* loads under way: of which filters, and who asked
    table,          \* the filters whose logs are shown, or Blank
    tableLoading, autoRefresh,
    expanded, detailedLog, asked,   \* the row, the details held, the row details are asked of
    typed,          \* history: what the user typed, until something else changes the field
    logActs         \* how much of MaxLogActs is used

streamVars == <<filters, field, debounce, isInternalChange, synced, fetches, table,
                tableLoading, autoRefresh, expanded, detailedLog, asked, drillContext, typed>>
frameVars == <<tab, drill, drillSource, kept>>
logVars == <<frameVars, streamVars, logActs>>

Filters == [text : Texts \union {NoText}, rest : {"default", "other", "drill"}, page : {1, 2}]
Default == [text |-> NoText, rest |-> "default", page |-> 1]
Drilled == [text |-> NoText, rest |-> "drill", page |-> 1]
Blank == [text |-> "none", rest |-> "none", page |-> 1]
Watched(f) == <<f.text, f.rest = "drill">>    \* the dependencies of the sync effect
Fetch == [kind : {"none", "load", "refresh", "count"}, of : Filters \union {Blank}]
NoFetch == [kind |-> "none", of |-> Blank]
Idle == [l \in Loads |-> NoFetch]
OneLoad(f) == [Idle EXCEPT ![1] = [kind |-> "load", of |-> f]]

LogAct == logActs < MaxLogActs /\ logActs' = logActs + 1

IsRefreshing == autoRefresh /\ expanded = "none"
RowsShown == tab = "logs" /\ table # Blank /\ ~tableLoading
Kept(f) == f.rest # "default"

Asks(kind, of) ==
    \E l \in Loads : fetches[l] = NoFetch /\ (\A m \in Loads : m < l => fetches[m] # NoFetch)
                     /\ fetches' = [fetches EXCEPT ![l] = [kind |-> kind, of |-> of]]

\* The stream as it comes up: with the filters of a drill, or those that were kept.
StreamOpens(f) ==
    /\ filters' = f /\ field' = f.text /\ synced' = Watched(f)
    /\ debounce' = FALSE /\ isInternalChange' = FALSE /\ drillContext' = FALSE
    /\ fetches' = OneLoad(f)
    /\ table' = Blank /\ tableLoading' = TRUE /\ autoRefresh' = TRUE
    /\ expanded' = "none" /\ detailedLog' = "none" /\ asked' = "none" /\ typed' = "none"

\* And as it goes: what is under way is of no effect.
StreamCloses ==
    /\ filters' = Default /\ field' = NoText /\ synced' = Watched(Default)
    /\ debounce' = FALSE /\ isInternalChange' = FALSE /\ drillContext' = FALSE
    /\ fetches' = Idle
    /\ table' = Blank /\ tableLoading' = FALSE /\ autoRefresh' = TRUE
    /\ expanded' = "none" /\ detailedLog' = "none" /\ asked' = "none" /\ typed' = "none"

\* The page comes up on the view of its address: the stream, which loads, or another.
LogInit ==
    /\ tab \in {"logs", "flow-view"} /\ drill = FALSE /\ drillSource = FALSE /\ kept = FALSE
    /\ filters = Default /\ field = NoText /\ synced = Watched(Default)
    /\ debounce = FALSE /\ isInternalChange = FALSE /\ drillContext = FALSE
    /\ fetches = IF tab = "logs" THEN OneLoad(Default) ELSE Idle
    /\ table = Blank /\ tableLoading = (tab = "logs") /\ autoRefresh = TRUE
    /\ expanded = "none" /\ detailedLog = "none" /\ asked = "none" /\ typed = "none"
    /\ logActs = 0

\* The filters change: the effect loads, and closing the row clears its details.
Applies(f) ==
    /\ filters' = f /\ kept' = Kept(f)
    /\ Asks("load", f) /\ tableLoading' = TRUE

RowClosed == expanded' = "none" /\ detailedLog' = "none" /\ asked' = "none"
RowStays == UNCHANGED <<expanded, detailedLog, asked>>

------------------------------------------------------------------------------
\* Filters.

\* setIpSearch: the timer starts anew.
Type(text) ==
    /\ tab = "logs" /\ text # field /\ LogAct
    /\ field' = text /\ debounce' = TRUE /\ typed' = text
    /\ RowStays
    /\ UNCHANGED <<frameVars, filters, isInternalChange, synced, fetches, table, tableLoading,
                   autoRefresh, drillContext>>

\* The timer ends: wrappedOnChange with the filters there are by now.
DebounceFires ==
    /\ debounce
    /\ debounce' = FALSE /\ isInternalChange' = TRUE
    /\ Applies([filters EXCEPT !.text = field, !.page = 1]) /\ RowClosed
    /\ UNCHANGED <<tab, drill, drillSource, field, synced, table, autoRefresh, drillContext,
                   typed, logActs>>

\* toggleType and the like; the text field is not among what they change.
ToggleFilter(rest) ==
    /\ tab = "logs" /\ LogAct
    /\ rest \in {"default", "other"} \ {filters.rest} /\ (filters.rest = "drill" => rest = "other")
    /\ isInternalChange' = TRUE
    /\ Applies([filters EXCEPT !.rest = rest, !.page = 1]) /\ RowClosed
    /\ UNCHANGED <<tab, drill, drillSource, field, debounce, synced, table, autoRefresh,
                   drillContext, typed>>

ResetFilters ==
    /\ tab = "logs" /\ LogAct
    /\ field' = NoText /\ debounce' = (debounce \/ field # NoText) /\ typed' = NoText
    /\ isInternalChange' = TRUE
    /\ Applies(Default) /\ RowClosed
    /\ UNCHANGED <<tab, drill, drillSource, synced, table, autoRefresh, drillContext>>

\* Mutant: also a change of the bar's own is written into the field.
SyncFieldAlways ==
    /\ Watched(filters) # synced
    /\ synced' = Watched(filters)
    /\ isInternalChange' = FALSE
    /\ field' = filters.text /\ debounce' = (debounce \/ field # filters.text)
    /\ typed' = IF isInternalChange \/ field = filters.text THEN typed ELSE "none"
    /\ RowStays
    /\ UNCHANGED <<frameVars, filters, fetches, table, tableLoading, autoRefresh, drillContext,
                   logActs>>

\* The sync effect: a change from outside is written into the field, whose timer starts.
SyncField ==
    /\ Watched(filters) # synced
    /\ synced' = Watched(filters)
    /\ isInternalChange' = FALSE
    /\ IF isInternalChange THEN UNCHANGED <<field, debounce, typed>>
       ELSE /\ field' = filters.text /\ debounce' = (debounce \/ field # filters.text)
            /\ typed' = IF field = filters.text THEN typed ELSE "none"
    /\ RowStays
    /\ UNCHANGED <<frameVars, filters, fetches, table, tableLoading, autoRefresh, drillContext,
                   logActs>>

\* Mutant: the button "next" of the last page.
ChangePagePastLast ==
    /\ tab = "logs" /\ LogAct
    /\ Applies([filters EXCEPT !.page = filters.page + 1]) /\ RowClosed
    /\ UNCHANGED <<tab, drill, drillSource, field, debounce, isInternalChange, synced, table,
                   autoRefresh, drillContext, typed>>

ChangePage ==
    /\ tab = "logs" /\ LogAct
    /\ Applies([filters EXCEPT !.page = 3 - filters.page]) /\ RowClosed
    /\ UNCHANGED <<tab, drill, drillSource, field, debounce, isInternalChange, synced, table,
                   autoRefresh, drillContext, typed>>

------------------------------------------------------------------------------
\* Loads.

FetchAnswered(l) ==
    /\ fetches[l].kind # "none"
    /\ fetches' = [fetches EXCEPT ![l] = NoFetch]
    /\ table' = IF fetches[l].kind = "count" THEN table ELSE fetches[l].of
    /\ tableLoading' = (tableLoading /\ fetches[l].kind # "load")
    /\ RowStays
    /\ UNCHANGED <<frameVars, filters, field, debounce, isInternalChange, synced, autoRefresh,
                   drillContext, typed, logActs>>

FetchFails(l) ==
    /\ fetches[l].kind # "none" /\ LogAct
    /\ fetches' = [fetches EXCEPT ![l] = NoFetch]
    /\ tableLoading' = (tableLoading /\ fetches[l].kind # "load")
    /\ RowStays
    /\ UNCHANGED <<frameVars, filters, field, debounce, isInternalChange, synced, table,
                   autoRefresh, drillContext, typed>>

\* Mutant: the interval keeps the filters of the moment it was set up.
IntervalOfMount ==
    /\ tab = "logs" /\ filters.page = 1
    /\ \A l \in Loads : fetches[l] = NoFetch
    /\ Asks(IF IsRefreshing THEN "refresh" ELSE "count", Default)
    /\ RowStays
    /\ UNCHANGED <<frameVars, filters, field, debounce, isInternalChange, synced, table,
                   tableLoading, autoRefresh, drillContext, typed, logActs>>

\* The intervals: a refresh while live, else a count of what is new.  They leave a place
\* of the bound to the loads that a change of the filters makes.
Interval ==
    /\ tab = "logs" /\ filters.page = 1
    /\ \A l \in Loads : fetches[l] = NoFetch
    /\ Asks(IF IsRefreshing THEN "refresh" ELSE "count", filters)
    /\ RowStays
    /\ UNCHANGED <<frameVars, filters, field, debounce, isInternalChange, synced, table,
                   tableLoading, autoRefresh, drillContext, typed, logActs>>

TogglePause ==
    /\ tab = "logs" /\ LogAct
    /\ autoRefresh' = ~autoRefresh
    /\ RowStays
    /\ UNCHANGED <<frameVars, filters, field, debounce, isInternalChange, synced, fetches, table,
                   tableLoading, drillContext, typed>>

\* Refresh keeps the row open, the "new logs" button closes it.
Refresh ==
    /\ tab = "logs" /\ LogAct
    /\ Asks("load", filters) /\ tableLoading' = TRUE
    /\ RowStays \/ RowClosed
    /\ UNCHANGED <<frameVars, filters, field, debounce, isInternalChange, synced, table,
                   autoRefresh, drillContext, typed>>

------------------------------------------------------------------------------
\* The expanded row.

\* Mutant: no second request while one is under way.
ExpandOneRequest(row) ==
    /\ RowsShown /\ row # expanded /\ LogAct
    /\ expanded' = row /\ asked' = IF asked = "none" THEN row ELSE asked
    /\ UNCHANGED <<frameVars, filters, field, debounce, isInternalChange, synced, fetches, table,
                   tableLoading, autoRefresh, detailedLog, drillContext, typed>>

\* The details that are held are not cleared when another row is expanded.
Expand(row) ==
    /\ RowsShown /\ row # expanded /\ LogAct
    /\ expanded' = row /\ asked' = row
    /\ UNCHANGED <<frameVars, filters, field, debounce, isInternalChange, synced, fetches, table,
                   tableLoading, autoRefresh, detailedLog, drillContext, typed>>

Collapse ==
    /\ expanded # "none" /\ ~tableLoading /\ LogAct
    /\ RowClosed
    /\ Asks("refresh", filters)
    /\ UNCHANGED <<frameVars, filters, field, debounce, isInternalChange, synced, table,
                   tableLoading, autoRefresh, drillContext, typed>>

\* The answer, or null when the request fails.
DetailArrives ==
    /\ asked # "none"
    /\ detailedLog' \in {asked, "none"} /\ asked' = "none"
    /\ UNCHANGED <<frameVars, filters, field, debounce, isInternalChange, synced, fetches, table,
                   tableLoading, autoRefresh, expanded, drillContext, typed, logActs>>

------------------------------------------------------------------------------
\* The views, and the drill.

OpenLogs ==
    /\ tab # "logs" /\ LogAct
    /\ tab' = "logs"
    /\ StreamOpens([Default EXCEPT !.rest = IF kept THEN "other" ELSE "default"])
    /\ UNCHANGED <<drill, drillSource, kept>>

\* With the filters of the drill from the start, and the effect that applies them again.
DrillToLogs ==
    /\ tab # "logs" /\ LogAct
    /\ tab' = "logs" /\ drill' = TRUE /\ drillSource' = TRUE /\ kept' = TRUE
    /\ StreamOpens(Drilled)

\* The controller's page names a host (uli-navigate).
NavigateToLogs ==
    /\ LogAct
    /\ tab' = "logs" /\ drill' = TRUE /\ drillSource' = drillSource
    /\ IF tab = "logs" THEN UNCHANGED <<kept, streamVars>> ELSE StreamOpens(Drilled) /\ kept' = TRUE

ConsumeDrill ==
    /\ tab = "logs" /\ drill
    /\ drill' = FALSE /\ drillContext' = TRUE
    /\ Applies(Drilled)
    /\ typed' = "none"
    /\ RowStays
    /\ UNCHANGED <<tab, drillSource, field, debounce, isInternalChange, synced, table,
                   autoRefresh, logActs>>

\* The banner's button: back to the defaults, and to where the drill came from.
ClearDrill ==
    /\ drillContext /\ LogAct
    /\ drillSource' = FALSE /\ kept' = FALSE /\ UNCHANGED drill
    /\ IF drillSource THEN tab' = "flow-view" /\ StreamCloses
       ELSE /\ UNCHANGED tab /\ drillContext' = FALSE /\ typed' = "none"
            /\ filters' = Default /\ Asks("load", Default) /\ tableLoading' = TRUE
            /\ RowStays
            /\ UNCHANGED <<field, debounce, isInternalChange, synced, table, autoRefresh>>

LeaveLogs ==
    /\ tab = "logs" /\ LogAct
    /\ tab' = "flow-view" /\ StreamCloses
    /\ UNCHANGED <<drill, drillSource, kept>>

LogSteps == DebounceFires \/ SyncField \/ DetailArrives \/ ConsumeDrill
LogPolling == Interval \/ \E l \in Loads : FetchAnswered(l)
LogUser ==
    \/ \E text \in Texts \union {NoText} : Type(text)
    \/ \E rest \in {"default", "other"} : ToggleFilter(rest)
    \/ ResetFilters \/ ChangePage \/ TogglePause \/ Refresh
    \/ \E row \in Rows : Expand(row)
    \/ Collapse \/ OpenLogs \/ DrillToLogs \/ NavigateToLogs \/ ClearDrill \/ LeaveLogs
    \/ \E l \in Loads : FetchFails(l)

LogNext == LogSteps \/ LogPolling \/ LogUser

LogTypeOK ==
    /\ tab \in {"logs", "flow-view"}
    /\ {drill, drillSource, drillContext, kept, debounce, isInternalChange, tableLoading,
        autoRefresh} \subseteq BOOLEAN
    /\ filters \in Filters /\ field \in Texts \union {NoText}
    /\ synced \in (Texts \union {NoText}) \X BOOLEAN
    /\ fetches \in [Loads -> Fetch] /\ table \in Filters \union {Blank}
    /\ expanded \in Rows \union {"none"} /\ detailedLog \in Rows \union {"none"}
    /\ asked \in Rows \union {"none"} /\ typed \in Texts \union {NoText, "none"}
    /\ logActs \in 0..MaxLogActs

\* While the stream is live, answers that come in the wrong order do no lasting harm: the
\* table shows the logs of the filters again and again.
TableCatchesUp ==
    []<>(table = filters \/ tab # "logs" \/ ~IsRefreshing \/ filters.page # 1)

\* Details of another row are shown at most until the answer for this one is there.
DetailFollowsRow == detailedLog \in {expanded, "none"} \/ asked = expanded

\* What the user typed becomes the filter, though the filters change by its side; unless
\* something from outside takes it away.
TypedIsApplied == \A text \in Texts : (typed = text) ~> (filters.text = text \/ typed # text)
==============================================================================

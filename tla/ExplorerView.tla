---------------------------- MODULE ExplorerView ----------------------------
(***************************************************************************)
(* The Explorer around its table: the URL that the query bar, the facet    *)
(* rail and the detail drawer write and read, the query that the table and *)
(* the rail each compile of it, and the rows on screen -- history, loaded  *)
(* by query, with the live tail of the same query below it.                *)
(*                                                                         *)
(* Paging is KeysetPages' business, frames and errors of the tail are      *)
(* LiveStream's: here a history is one read and a tail is the rows it was  *)
(* sent.  Time is counted as in ConsoleUrl.                                *)
(***************************************************************************)
EXTENDS ConsolePage

CONSTANTS
    Typings,         \* what the user may type
    NoPurpose,       \* the purpose of a row without one: null
    NoRow,           \* no row is selected
    MAX_ROWS,        \* top-bar.tsx: bars of a panel
    MaxClicks        \* bound: what the user does

Inputs == {"recipient", "purpose"}   \* the query bar's
Views  == {"table", "rail"}          \* each with a useAuditQuery of its own

ASSUME ViewAssumption ==
    /\ Inputs \subseteq Fields
    /\ NoPurpose \in Values
    /\ DEFAULT_RANGE \in Presets
    /\ Typings \subseteq (Values \cup {Unset}) \ {NoPurpose}
    /\ NoRow \notin Row
    /\ MAX_ROWS \in Nat /\ MaxClicks \in Nat

VARIABLES
    live,         \* nuqs state, next to url
    compiled,     \* view -> its memoized AuditQuery
    ticker,       \* view -> when its interval fires next, or None
    drafts,       \* query-bar.tsx: recipient, purpose
    typed,        \* history: the drafts typed into since they were last synced
    selected,     \* explorer-content.tsx: the row in the drawer, or NoRow
    unannounced,  \* the committed rows whose create() has yet to announce them
    history,      \* TanStack Query's cache: what was read, by query
    tail,         \* useAuditStream: its phase, its rows and (history) when it opened
    clicks        \* what the user did so far

vars == <<now, url, live, compiled, ticker, drafts, typed, selected, table, unannounced,
          history, tail, clicks>>
pageVars == <<url, live, compiled, ticker, drafts, typed, selected, clicks>>
apiVars  == <<table, unannounced>>

-----------------------------------------------------------------------------
(* What is on screen. *)

(* isRelative: any range token will do, known or not. *)
IsRelative(u) == u.range # Unset \/ (u.from = Unset /\ u.to = Unset)
StreamEnabled == live /\ IsRelative(url)

SourceOfInverted(provider) ==  \* mutant
    IF provider = Interceptor THEN "service" ELSE "interceptor"
SourceOf(provider) == IF provider = Interceptor THEN "interceptor" ELSE "service"

FACET_FIELDS == {"channel", "verb", "provider", "purpose", "source"} \cap (Fields \cup {"source"})

ValueOf(r, field) == IF field = "source" THEN SourceOf(r.fields["provider"]) ELSE r.fields[field]

Pages(query) == {e \in history : e.key = query}
RowsOf(query) == UNION {e.rows : e \in Pages(query)}
LiveRows == IF live THEN tail.rows ELSE {}
Shown == RowsOf(compiled["table"]) \cup LiveRows

(* TableBody: nothing of the tail is shown before the history's first page *)
(* has come, or if the API refuses the query.  (A read that fails otherwise *)
(* is told and read again: left out.)                                       *)
Body == CASE ~Accepted(compiled["table"])   -> "refused"
          [] Pages(compiled["table"]) = {}  -> "loading"
          [] OTHER -> IF Shown = {} THEN "empty" ELSE "rows"

(* deriveFacets: the counts of the rail, over the history alone. *)
Facets(field) ==
    LET rows == {r \in RowsOf(compiled["rail"]) : ValueOf(r, field) # NoPurpose}
    IN [v \in {ValueOf(r, field) : r \in rows} |->
            Cardinality({r \in rows : ValueOf(r, field) = v})]

(* TopBar: the values the Overview's panel has a bar for, each a link. *)
TopBar(field) ==
    LET counts == Facets(field) IN
    {v \in DOMAIN counts : Cardinality({w \in DOMAIN counts : counts[w] > counts[v]}) < MAX_ROWS}
BarLink(v) == ExplorerHref([purpose |-> v])

(* The fields OverviewTab offers a "filter for" button on. *)
Pivots(r) == {f \in FACET_FIELDS \cup {"recipient"} : ValueOf(r, f) # NoPurpose}

(* setQuery with one field: the others stay. *)
With(u, field, value) == IF field = "source" THEN [u EXCEPT !.source = value]
                                             ELSE [u EXCEPT !.fields[field] = value]

-----------------------------------------------------------------------------
Connecting == [phase |-> "connecting", rows |-> {}, at |-> Start]

Init ==
    /\ now = Start
    /\ url \in Urls /\ live \in BOOLEAN
    /\ compiled = [v \in Views |-> CompileQuery(url, Start)]
    /\ ticker = [v \in Views |-> IF UsesRelativePreset(url) THEN Start + NOW_QUANTUM ELSE None]
    /\ drafts = [i \in Inputs |-> url.fields[i]] /\ typed = {}
    /\ selected = NoRow
    /\ table = {} /\ unannounced = {} /\ history = {}
    /\ tail = [Connecting EXCEPT !.phase = IF StreamEnabled THEN "connecting" ELSE "off"]
    /\ clicks = 0

Advance ==
    /\ now < MaxNow
    /\ \A v \in Views : ticker[v] # None => now < ticker[v] + LATE
    /\ now' = now + 1
    /\ UNCHANGED <<pageVars, apiVars, history, tail>>

(* The tail's effect, whose dependencies are `enabled` and the filter: it   *)
(* starts an empty tail, or leaves off with the rows it has.                *)
RestartWhenEnabled ==  \* mutant: the filter is no dependency
    LET enabled == live' /\ IsRelative(url') IN
    tail' = IF enabled = StreamEnabled THEN tail
            ELSE IF enabled THEN Connecting ELSE [tail EXCEPT !.phase = "off", !.at = Start]
StreamEffect ==
    LET enabled == live' /\ IsRelative(url') IN
    tail' = IF enabled = StreamEnabled /\ compiled'["table"] = compiled["table"] THEN tail
            ELSE IF enabled THEN Connecting ELSE [tail EXCEPT !.phase = "off", !.at = Start]

(* A history no view asks for is given up: it is read again if one does. *)
Forget == history' = {e \in history : \E v \in Views : compiled'[v] = e.key}

(* A view's interval: its memo is computed anew.  The two views' intervals  *)
(* fire one after the other.                                                *)
TickerFires(v) ==
    /\ ticker[v] # None /\ now >= ticker[v]
    /\ ticker' = [ticker EXCEPT ![v] = @ + NOW_QUANTUM]
    /\ compiled' = [compiled EXCEPT ![v] = CompileQuery(url, now)]
    /\ UNCHANGED <<url, live>>
    /\ StreamEffect /\ Forget
    /\ UNCHANGED <<now, drafts, typed, selected, clicks, apiVars>>

Click == clicks < MaxClicks /\ clicks' = clicks + 1

(* setQuery: every view's memo depends on every parameter, and none of the  *)
(* buttons touches the window.                                              *)
SetQuery(u) ==
    /\ url' = u
    /\ compiled' = IF u = url THEN compiled ELSE [v \in Views |-> CompileQuery(u, now)]
    /\ UNCHANGED <<live, ticker>>
    /\ StreamEffect /\ Forget
    /\ UNCHANGED <<now, apiVars>>

(* The drawer is modal: while a row is in it nothing else can be clicked. *)
Free == selected = NoRow

(* The query bar's effect: both inputs follow the URL once either parameter *)
(* changes -- unless an input has the focus, which it keeps only when Enter *)
(* submits what both of them hold.                                          *)
FollowsRecipient(u) == u.fields["recipient"] # url.fields["recipient"]  \* mutant: one dependency
FollowsUrl(u) == \E i \in Inputs : u.fields[i] # url.fields[i]

SyncDrafts(u) ==
    IF FollowsUrl(u) THEN drafts' = [i \in Inputs |-> u.fields[i]] /\ typed' = {}
                     ELSE UNCHANGED <<drafts, typed>>

Type(i, text) ==
    /\ Free /\ Click
    /\ drafts' = [drafts EXCEPT ![i] = text]
    /\ typed' = typed \cup {i}
    /\ UNCHANGED <<now, url, live, compiled, ticker, selected, apiVars, history, tail>>

(* submit, by Enter or the button *)
Submit ==
    /\ Free /\ Click
    /\ SetQuery([url EXCEPT !.fields = [f \in Fields |-> IF f \in Inputs THEN drafts[f] ELSE @[f]]])
    /\ typed' = {}
    /\ UNCHANGED <<drafts, selected>>

(* clearAll: the seven filters of CLEARED; tenant and window stay. *)
Cleared(u) == [u EXCEPT !.fields = [f \in Fields |-> Unset], !.source = Unset, !.q = Unset]

ClearAll ==
    /\ Free /\ Click
    /\ SetQuery(Cleared(url))
    /\ drafts' = [i \in Inputs |-> Unset] /\ typed' = {}
    /\ UNCHANGED selected

(* FacetRail.apply: a click filters for the value, an Alt-click clears the  *)
(* field when the value is the active one.                                  *)
ActiveValue(field) == IF field = "source" THEN compiled["rail"].source
                                          ELSE compiled["rail"].fields[field]

ClickFacet(field, value, alt) ==
    /\ Free /\ Click
    /\ value \in DOMAIN Facets(field)
    /\ LET u == With(url, field, IF alt /\ ActiveValue(field) = value THEN Unset ELSE value)
       IN SetQuery(u) /\ SyncDrafts(u)
    /\ UNCHANGED selected

(* openRow *)
OpenRow(r) ==
    /\ Free /\ Click
    /\ Body = "rows" /\ r \in Shown
    /\ selected' = r
    /\ UNCHANGED <<now, url, live, compiled, ticker, drafts, typed, apiVars, history, tail>>

(* onDrawerChange(false) *)
CloseDrawer ==
    /\ ~Free
    /\ selected' = NoRow
    /\ UNCHANGED <<now, url, live, compiled, ticker, drafts, typed, clicks, apiVars, history, tail>>

(* DetailDrawer.pivot *)
Pivot(field) ==
    /\ ~Free /\ Click
    /\ field \in Pivots(selected)
    /\ LET u == With(url, field, ValueOf(selected, field)) IN SetQuery(u) /\ SyncDrafts(u)
    /\ selected' = NoRow

SelectTenant(t) ==
    /\ Free /\ Click
    /\ SetQuery([url EXCEPT !.tenantId = t])
    /\ UNCHANGED <<drafts, typed, selected>>

(* Another role: it is part of every query, and so of its key; a memo that  *)
(* is computed anew reads the clock anew.                                   *)
SelectRole ==
    /\ Free /\ Click
    /\ compiled' = [v \in Views |-> CompileQuery(url, now)]
    /\ tail' = IF StreamEnabled THEN Connecting ELSE tail
    /\ history' = {}
    /\ UNCHANGED <<now, url, live, ticker, drafts, typed, selected, apiVars>>

ToggleLive ==
    /\ Free /\ Click
    /\ live' = ~live
    /\ UNCHANGED <<url, compiled, ticker>>
    /\ StreamEffect
    /\ UNCHANGED <<now, drafts, typed, selected, apiVars, history>>

-----------------------------------------------------------------------------
(* The API. *)

OfTenant(query, r) == r.tenant = ResolveTenantId(RbacHeader(query))

(* create(): a row is committed, stamped now or a moment ago, and announced *)
(* afterwards. *)
Write(content, ts) ==
    /\ Cardinality(table) < MaxRows
    /\ LET r == MkRow(ts, Cardinality(table), content) IN
           table' = table \cup {r} /\ unannounced' = unannounced \cup {r}
    /\ UNCHANGED <<now, pageVars, history, tail>>

(* The event bus tells the open tails. *)
Announce(r) ==
    /\ unannounced' = unannounced \ {r}
    /\ tail' = IF /\ tail.phase = "open"
                  /\ OfTenant(compiled["table"], r) /\ Matches(compiled["table"], r)
               THEN [tail EXCEPT !.rows = @ \cup {r}] ELSE tail
    /\ UNCHANGED <<now, pageVars, table, history>>

(* A new EventSource has no Last-Event-ID: nothing is replayed to it.  A    *)
(* stream the API refuses never opens.                                      *)
Connect ==
    /\ tail.phase = "connecting" /\ Accepted(compiled["table"])
    /\ tail' = [tail EXCEPT !.phase = "open", !.at = now]
    /\ UNCHANGED <<now, pageVars, apiVars, history>>

(* The history of a query, with its window as buildWhere defaults it and    *)
(* (history) the table it was read from.                                    *)
Read(query) ==
    LET to   == IF query.to = Unset THEN now ELSE query.to
        from == IF query.from = Unset THEN now - DEFAULT_WINDOW ELSE query.from
    IN [key |-> query, from |-> from, to |-> to, read |-> table,
        rows |-> {r \in table : Where(query, ResolveTenantId(RbacHeader(query)), from, to, r)}]

Fetch(query) ==
    /\ Accepted(query)
    /\ history' = (history \ Pages(query)) \cup {Read(query)}
    /\ UNCHANGED <<now, pageVars, table, unannounced, tail>>

Next ==
    \/ Advance
    \/ \E v \in Views : TickerFires(v) \/ Fetch(compiled[v])
    \/ \E i \in Inputs, text \in Typings : Type(i, text)
    \/ Submit \/ ClearAll \/ SelectRole \/ ToggleLive \/ CloseDrawer \/ Connect
    \/ \E field \in FACET_FIELDS, value \in Values \cup {"service", "interceptor"}, alt \in BOOLEAN :
          ClickFacet(field, value, alt)
    \/ \E r \in Shown : OpenRow(r)
    \/ \E field \in FACET_FIELDS \cup {"recipient"} : Pivot(field)
    \/ \E t \in Tenants \cup {Unset} : SelectTenant(t)
    \/ \E content \in Contents, ts \in {now - 1, now} : Write(content, ts)
    \/ \E r \in unannounced : Announce(r)

Spec == Init /\ [][Next]_vars

-----------------------------------------------------------------------------
(* Properties. *)

(* Every variable keeps its type. *)
TypeOK ==
    /\ now \in Start..MaxNow
    /\ url \in Url /\ live \in BOOLEAN
    /\ compiled \in [Views -> Filter]
    /\ ticker \in [Views -> Int \cup {None}]
    /\ drafts \in [Inputs -> Values \cup {Unset}] /\ typed \subseteq Inputs
    /\ selected \in table \cup {NoRow}
    /\ unannounced \subseteq table /\ table \subseteq Row
    /\ \A e \in history : e.key \in Filter /\ e.rows \subseteq e.read /\ e.read \subseteq table
    /\ tail.phase \in {"off", "connecting", "open"} /\ tail.rows \subseteq table
    /\ clicks \in 0..MaxClicks

(* An input nobody is typing in says what the URL filters for, however the  *)
(* URL was changed (query-bar.tsx: "Keep the inputs in sync when the URL    *)
(* changes elsewhere").                                                     *)
DraftsMatchUrl == \A i \in Inputs \ typed : drafts[i] = url.fields[i]

(* Clicking a facet, or a pivot of the row in the drawer, narrows to a query *)
(* that the rows the facet counted, or the row, still satisfy, the window   *)
(* aside: no count leads to fewer rows than it says (facet-rail.tsx).  So   *)
(* does a bar of the Overview's purposes where the tenant is the default:   *)
(* its link names none.  And the API answers it, but for a purpose that its *)
(* schema does not list.                                                    *)
Link(u, r, field) == [to |-> u, row |-> r, field |-> field]

Narrowings ==  \* the links on screen, each with a row it is to keep
    LET Narrow(r, field) == Link(With(url, field, ValueOf(r, field)), r, field)
        counted == RowsOf(compiled["rail"])
    IN (UNION {{Narrow(r, f) : f \in {g \in FACET_FIELDS : ValueOf(r, g) \in DOMAIN Facets(g)}} :
                  r \in counted})
         \cup (IF selected = NoRow THEN {} ELSE {Narrow(selected, f) : f \in Pivots(selected)})
         \cup {Link(BarLink(r.fields["purpose"]), r, "purpose") :
                 r \in {q \in counted : /\ q.fields["purpose"] \in TopBar("purpose")
                                        /\ q.tenant = "default"}}

NarrowingKeepsRows ==
    \A n \in Narrowings :
        LET query == CompileQuery(n.to, now) IN
        /\ OfTenant(query, n.row) /\ Matches(query, n.row)
        /\ \/ Accepted(query)
           \/ n.field = "purpose" /\ ValueOf(n.row, "purpose") \notin AuditPurposes

(* The API answers what every such link asks for.  It does not where the    *)
(* link pins a purpose that the console sends and auditQuerySchema leaves   *)
(* out.                                                                     *)
NarrowingIsAnswered == \A n \in Narrowings : Accepted(CompileQuery(n.to, now))

(* A row of the query that is neither in its history nor in its tail was    *)
(* outside the history's window, or committed after it was read; and it was *)
(* stamped before the tail was opened, or is still to be announced -- the   *)
(* rows between the rounded end of the window and the opening of the tail.  *)
MissingIsExplained ==
    LET query == compiled["table"] IN
    \A e \in Pages(query), r \in table \ Shown :
        OfTenant(query, r) /\ Matches(query, r) /\ e.from <= r.ts =>
            /\ r.ts > e.to \/ r \notin e.read
            /\ tail.phase # "open" \/ r.ts <= tail.at \/ r \in unannounced

(* A row shown twice, in the history and in the tail, was stamped before    *)
(* the tail was opened and announced after -- when the window is relative:  *)
(* it ends before the tail begins.                                          *)
TwiceIsExplained ==
    UsesRelativePreset(url) =>
        \A r \in RowsOf(compiled["table"]) \cap LiveRows : r.ts <= tail.at
=============================================================================

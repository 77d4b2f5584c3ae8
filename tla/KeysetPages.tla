---------------------------- MODULE KeysetPages ----------------------------
(***************************************************************************)
(* The Explorer's list: GET /audit/logs (AuditController.list) and the     *)
(* infinite query of the console that scans it page by page                *)
(* (useAuditLogs, LogTable), while rows keep being written.                *)
(*                                                                         *)
(* A page is asked for with the cursor of the page before it.  The handler *)
(* fixes the time window when it runs (buildWhere), Postgres answers from  *)
(* a snapshot taken later, and the page joins the list later still.  A     *)
(* refresh (remount, reconnect) rebuilds the pages on screen one by one    *)
(* and replaces them together at the end.                                  *)
(***************************************************************************)
EXTENDS AuditRows, Sequences, SequencesExt

CONSTANTS
    Queries,     \* what the Explorer may ask for: [tenant, filter]
    Contents,    \* what the pipeline may log
    limit,       \* page size
    WINDOW,      \* DEFAULT_WINDOW_MS
    None,        \* no cursor, no request
    MaxRows,     \* bound: rows logged
    MaxClock,    \* bound: distinct milliseconds
    MaxFetches   \* bound: fetches started by the list

ASSUME PagesAssumption ==
    /\ Queries \subseteq [tenant : Tenants, filter : Filter]
    /\ \A q \in Queries : q.filter.tenant \in {Unset, q.tenant}  \* rbacHeaders, encodeAuditQuery
    /\ Contents \subseteq Content
    /\ limit \in Nat \ {0} /\ WINDOW \in Nat
    /\ None \notin Row
    /\ MaxRows \in Nat /\ MaxClock \in Nat /\ MaxFetches \in Nat

VARIABLES
    clock,     \* the API host's clock
    inflight,  \* rows stamped, whose INSERT is under way
    table,     \* committed rows
    query,     \* the list's query key
    shown,     \* the pages on screen: a chain
    request,   \* the fetch under way, or None
    fetches    \* fetches so far

vars == <<clock, inflight, table, query, shown, request, fetches>>

(* A page: its rows, and the cursor of the next one (None: no more).  The   *)
(* history of a chain: the table when its first page was read, and the      *)
(* windows of its first and of its last page.                               *)
Page  == [rows : SUBSET Row, next : Row \cup {None}]
NoChain == [pages |-> <<>>, start |-> {}, hi |-> 0, lo |-> 0]
Chain == [pages : Seq(Page), start : SUBSET Row, hi : Nat, lo : Nat]

(* A fetch extends `chain` until it has `want` pages.  stage: the request   *)
(* is travelling; the handler awaits findMany with its window fixed; the    *)
(* answer is travelling back.                                               *)
Request == [chain : Chain, want : Nat, stage : {"sent", "asked", "answered"},
            lo : Nat, hi : Nat, page : Page, snapshot : SUBSET Row]

NoPage == [rows |-> {}, next |-> None]
NewRequest(chain, want) ==
    [chain |-> chain, want |-> want, stage |-> "sent", lo |-> 0, hi |-> 0,
     page |-> NoPage, snapshot |-> {}]

UsedIds == {r.id : r \in inflight \cup table}

-----------------------------------------------------------------------------
(* The handler. *)

Monus(a, b) == IF a >= b THEN a - b ELSE 0

WindowFrom == IF query.filter.from = Unset THEN Monus(clock, WINDOW) ELSE query.filter.from
WindowTo   == IF query.filter.to = Unset THEN clock ELSE query.filter.to

(* getNextPageParam: the last page's nextCursor. *)
CursorOf(chain) == IF chain.pages = <<>> THEN None ELSE Last(chain.pages).next

(* list: the rows of the window strictly older than the cursor. *)
Candidates(cursor, lo, hi) ==
    {r \in table : /\ Where(query.filter, query.tenant, lo, hi, r)
                   /\ cursor = None \/ OlderThan(cursor, r)}

(* hasMore = rows.length === limit; nextCursor is the last row's. *)
NextOfShortPage(rows) ==  \* mutant: off by one
    IF Cardinality(rows) > limit THEN Oldest(rows) ELSE None
NextCursor(rows) == IF Cardinality(rows) = limit THEN Oldest(rows) ELSE None

-----------------------------------------------------------------------------
Init ==
    /\ clock = 0
    /\ inflight = {} /\ table = {}
    /\ query \in Queries
    /\ shown = NoChain
    /\ request = None
    /\ fetches = 0

(* The write path, as the list sees it: a row is stamped, and its INSERT    *)
(* commits later, or never.                                                 *)
Tick ==
    /\ clock < MaxClock
    /\ clock' = clock + 1
    /\ UNCHANGED <<inflight, table, query, shown, request, fetches>>

Stamp(content, id) ==
    /\ id \notin UsedIds
    /\ inflight' = inflight \cup {MkRow(clock, id, content)}
    /\ UNCHANGED <<clock, table, query, shown, request, fetches>>

Commit(r) ==
    /\ r \in inflight
    /\ inflight' = inflight \ {r}
    /\ table' = table \cup {r}
    /\ UNCHANGED <<clock, query, shown, request, fetches>>

Fetch(chain, want) ==
    /\ fetches < MaxFetches
    /\ fetches' = fetches + 1
    /\ request' = NewRequest(chain, want)
    /\ UNCHANGED <<clock, inflight, table, query, shown>>

(* The list mounts with nothing cached for its key. *)
Open == request = None /\ shown.pages = <<>> /\ Fetch(NoChain, 1)

(* The user nears the bottom: fetchNextPage, unless one is under way.  It   *)
(* cancels a refresh under way.                                             *)
IsFetchingNextPage == request # None /\ request.chain.pages # <<>> /\ request.want > Len(shown.pages)

FetchNextPage ==
    /\ CursorOf(shown) # None
    /\ ~IsFetchingNextPage
    /\ Fetch(shown, Len(shown.pages) + 1)

(* The list is mounted again, or the browser is back online, after the      *)
(* stale time: every page on screen is read again, first to last.           *)
Refresh ==
    /\ request = None /\ shown.pages # <<>>
    /\ Fetch(NoChain, Len(shown.pages))

(* The handler runs buildWhere and issues findMany. *)
Ask ==
    /\ request # None /\ request.stage = "sent"
    /\ request' = [request EXCEPT !.stage = "asked", !.lo = WindowFrom, !.hi = WindowTo]
    /\ UNCHANGED <<clock, inflight, table, query, shown, fetches>>

(* findMany reads the table, newest rows first, `limit` of them. *)
Answer ==
    /\ request # None /\ request.stage = "asked"
    /\ \E rows \in SUBSET Candidates(CursorOf(request.chain), request.lo, request.hi) :
         /\ IsFirstDesc(rows, Candidates(CursorOf(request.chain), request.lo, request.hi), limit)
         /\ request' = [request EXCEPT !.stage = "answered", !.snapshot = table,
                                       !.page = [rows |-> rows, next |-> NextCursor(rows)]]
    /\ UNCHANGED <<clock, inflight, table, query, shown, fetches>>

(* The answer arrives: the page joins the chain, which is shown once it has *)
(* the pages wanted or there are no more.                                   *)
Extended(req) ==
    LET first == req.chain.pages = <<>> IN
    [pages |-> Append(req.chain.pages, req.page),
     start |-> IF first THEN req.snapshot ELSE req.chain.start,
     hi    |-> IF first THEN req.hi ELSE req.chain.hi,
     lo    |-> req.lo]

Receive ==
    LET chain == Extended(request) IN
    /\ request # None /\ request.stage = "answered"
    /\ \/ /\ Len(chain.pages) = request.want \/ CursorOf(chain) = None
          /\ shown' = chain
          /\ request' = None
       \/ /\ Len(chain.pages) < request.want /\ CursorOf(chain) # None
          /\ request' = NewRequest(chain, request.want)
          /\ shown' = shown
    /\ UNCHANGED <<clock, inflight, table, query, fetches>>

(* The fetch fails: it is retried from its first page, or given up; the     *)
(* pages on screen stay.                                                    *)
Retried(req) ==
    IF req.want > Len(shown.pages) THEN NewRequest(shown, req.want) ELSE NewRequest(NoChain, req.want)

FetchFails ==
    /\ request # None
    /\ fetches < MaxFetches
    /\ fetches' = fetches + 1
    /\ request' \in {None, Retried(request)}
    /\ UNCHANGED <<clock, inflight, table, query, shown>>

Next ==
    \/ Tick
    \/ \E content \in Contents, id \in 1..MaxRows : Stamp(content, id)
    \/ \E r \in inflight : Commit(r)
    \/ Open \/ FetchNextPage \/ Refresh
    \/ Ask \/ Answer \/ Receive \/ FetchFails

Spec == Init /\ [][Next]_vars

-----------------------------------------------------------------------------
TypeOK ==
    /\ clock \in Nat /\ fetches \in Nat
    /\ inflight \subseteq Row /\ table \subseteq Row
    /\ query \in Queries
    /\ shown \in Chain
    /\ request \in Request \cup {None}

Listed(chain) == UNION {p.rows : p \in ToSet(chain.pages)}

(* Across all pages the list is strictly descending in keyset order, hence  *)
(* free of duplicates, however many rows are written between two pages.     *)
Descends(chain) ==
    \A i, j \in 1..Len(chain.pages) :
        i < j => \A a \in chain.pages[i].rows, b \in chain.pages[j].rows : Before(b, a)

PagesDescend == Descends(shown)

(* "Pages never drift": a row that was in the table when the scan began, is *)
(* in its window to the end and is not older than where the scan has got to *)
(* is on the list; once the scan says there is no more, every such row is.  *)
ReachedBy(chain, r) == CursorOf(chain) = None \/ NotAfter(CursorOf(chain), r)

NoStableRowSkipped ==
    shown.pages # <<>> =>
        \A r \in shown.start :
            /\ Where(query.filter, query.tenant, shown.lo, shown.hi, r)
            /\ ReachedBy(shown, r)
            => r \in Listed(shown)

(* The list never shows a row it was not asked for, nor one that is not in  *)
(* the table: windows, tenants and filters of different pages do not mix.   *)
OnlyAskedRows ==
    \A r \in Listed(shown) : r \in table /\ r.tenant = query.tenant /\ Matches(query.filter, r)
=============================================================================

--------------------------- MODULE AuditOverview ---------------------------
(***************************************************************************)
(* The Overview's charts: the URL compiled to a query whose relative       *)
(* window advances by a ticker (useAuditQuery), one cached request per     *)
(* query and dimension (useAggregate), and the series the API computes for *)
(* it (AuditAggregateService.query), while rows are being written.         *)
(***************************************************************************)
EXTENDS ConsolePage

CONSTANTS
    GroupBys,           \* AGGREGATE_GROUP_BY_ALLOW_LIST, as columns
    SHORT, DAY,         \* resolveBucket's thresholds: 6 and 24 hours
    MINUTE, FIVE, HOUR, \* the three bucket widths
    MaxFetches          \* bound: requests for a series

ASSUME OverviewAssumption ==
    /\ GroupBys \subseteq Fields \cap {"verb", "channel", "provider"}
    /\ SHORT \in Nat /\ DAY \in Nat /\ SHORT <= DAY
    /\ {MINUTE, FIVE, HOUR} \subseteq Nat \ {0}
    /\ MaxFetches \in Nat

VARIABLES
    query,     \* the memoized AuditQuery
    interval,  \* when the ticker fires next, or None
    requests,  \* series under way: [groupBy, query]
    cache,     \* series loaded, with (history) the rows they were computed from
    fetches    \* requests so far

overviewVars == <<now, url, query, interval, table, requests, cache, fetches>>

-----------------------------------------------------------------------------
(* The aggregate query. *)

(* resolveBucket, which reads the clock a second time. *)
ResolveBucket(from, to, clock) ==
    LET end   == IF to = Unset THEN clock ELSE to
        start == IF from = Unset THEN end - DEFAULT_WINDOW ELSE from
    IN IF end - start <= SHORT THEN MINUTE
       ELSE IF end - start <= DAY THEN FIVE ELSE HOUR

(* date_bin with the origin at 0 *)
DateBin(width, t) == (t \div width) * width

(* generate_series *)
Steps(first, last, width) == {t \in first..last : (t - first) % width = 0}

GridFromRaw(width, from, to) == Steps(from, to, width)  \* mutant: date_trunc's mistake
Grid(width, from, to) == Steps(DateBin(width, from), to, width)

TenantRestriction(f) == ResolveTenantId(RbacHeader(f))

(* WHERE of both subqueries: the window, the tenant and the source facet;   *)
(* the other filters are not applied.                                       *)
Counted(f, from, to) ==
    {r \in table : /\ from <= r.ts /\ r.ts <= to
                   /\ r.tenant = TenantRestriction(f)
                   /\ SourcePredicate(f.source, r)}

Series(rows, groupBy, width, from, to) ==
    {[bucket |-> b, dimension |-> d,
      n |-> Cardinality({r \in rows : r.fields[groupBy] = d /\ DateBin(width, r.ts) = b})] :
        b \in Grid(width, from, to), d \in {r.fields[groupBy] : r \in rows}}

-----------------------------------------------------------------------------
(* The panels, each a reshaping of a loaded series (lib/metrics.ts). *)

(* The counts of some buckets added up: what they count, a bucket's k-th    *)
(* told from another's.                                                     *)
Sum(buckets) == Cardinality(UNION {{b} \X (1..b.n) : b \in buckets})

TotalOf(series, d) == Sum({b \in series : b.dimension = d})

GrandTotal(series) == Sum(series)

(* deliverySeries: one point a bucket. *)
PointsThatTell(series) ==  \* mutant: a verb without a row in the bucket has no point
    {[bucket |-> b.bucket, sent |-> TotalOf({b}, "sent"), failed |-> TotalOf({b}, "failed")] :
        b \in {x \in series : x.n > 0}}
DeliverySeries(series) ==
    {[bucket |-> t, sent   |-> TotalOf({b \in series : b.bucket = t}, "sent"),
                    failed |-> TotalOf({b \in series : b.bucket = t}, "failed")] :
        t \in {b.bucket : b \in series}}

ToDonut(series) == [d \in {b.dimension : b \in series} |-> TotalOf(series, d)]

(* ratePct, rounded down *)
RatePct(part, whole) == IF whole <= 0 THEN 0 ELSE (100 * part) \div whole

(* HealthStrip: "No delivery events", or the tiles. *)
HealthStrip(series) ==
    LET sent == TotalOf(series, "sent") failed == TotalOf(series, "failed") IN
    [empty |-> GrandTotal(series) = 0, delivered |-> sent, failures |-> failed,
     deliveryRate |-> RatePct(sent, sent + failed),
     verifyRate   |-> RatePct(TotalOf(series, "verified"), TotalOf(series, "generated"))]

(* DeliveryRateLine, ProviderMix and ChannelBadges: nothing, or a chart. *)
DeliveryRateLine(series) == DeliverySeries(series)
ProviderMix(series) == ToDonut(series)
ChannelBadges(series) == ToDonut(series)

-----------------------------------------------------------------------------
OverviewInit ==
    /\ now = Start
    /\ url \in Urls
    /\ query = CompileQuery(url, Start)
    /\ interval = IF UsesRelativePreset(url) THEN Start + NOW_QUANTUM ELSE None
    /\ table = {} /\ requests = {} /\ cache = {} /\ fetches = 0

ClockAdvances ==
    /\ now < MaxNow
    /\ interval # None => now < interval + LATE
    /\ now' = now + 1
    /\ UNCHANGED <<url, query, interval, table, requests, cache, fetches>>

(* setNowTick: the memo is computed anew. *)
SetNowTick ==
    /\ interval # None /\ now >= interval
    /\ interval' = interval + NOW_QUANTUM
    /\ query' = CompileQuery(url, now)
    /\ UNCHANGED <<now, url, table, requests, cache, fetches>>

(* The URL changes under a mounted view: the effect leaves a running        *)
(* interval alone unless the presets come into use or go out of it.         *)
TickerOffPreset(u) ==  \* mutant: armed by the presence of from and to instead
    IF u.from # Unset /\ u.to # Unset THEN now + NOW_QUANTUM ELSE None
TickerOf(u) ==
    IF ~UsesRelativePreset(u) THEN None
    ELSE IF UsesRelativePreset(url) THEN interval ELSE now + NOW_QUANTUM

ChangeUrl(u) ==
    /\ u # url
    /\ url' = u
    /\ query' = CompileQuery(u, now)
    /\ interval' = TickerOf(u)
    /\ UNCHANGED <<now, table, requests, cache, fetches>>

(* A link or a reload mounts the view: a new memo and a new interval. *)
Mount(u) ==
    /\ url' = u
    /\ query' = CompileQuery(u, now)
    /\ interval' = IF UsesRelativePreset(u) THEN now + NOW_QUANTUM ELSE None
    /\ UNCHANGED <<now, table, requests, cache, fetches>>

(* A row is committed, stamped now or a moment ago. *)
LogRow(content, ts) ==
    /\ Cardinality(table) < MaxRows
    /\ table' = table \cup {MkRow(ts, Cardinality(table), content)}
    /\ UNCHANGED <<now, url, query, interval, requests, cache, fetches>>

(* useAggregate: a mounted chart asks for the series of the current query,  *)
(* unless it has been asked for.                                            *)
Ask(groupBy) ==
    LET key == [groupBy |-> groupBy, query |-> query] IN
    /\ fetches < MaxFetches
    /\ key \notin requests
    /\ requests' = requests \cup {key}
    /\ fetches' = fetches + 1
    /\ UNCHANGED <<now, url, query, interval, table, cache>>

(* The API answers from one snapshot; the answer replaces the cache entry   *)
(* of its key.  The width may come from a clock reading of a moment later.  *)
Answer(key) ==
    LET f    == key.query
        to   == IF f.to = Unset THEN now ELSE f.to
        from == IF f.from = Unset THEN to - DEFAULT_WINDOW ELSE f.from
        rows == Counted(f, from, to)
    IN Accepted(f) /\ \E clock \in {now, now + 1} :
          LET width == ResolveBucket(f.from, f.to, clock) IN
          /\ cache' = {e \in cache : e.key # key} \cup
                {[key |-> key, from |-> from, to |-> to, width |-> width, rows |-> rows,
                  series |-> Series(rows, key.groupBy, width, from, to)]}
          /\ requests' = requests \ {key}
          /\ UNCHANGED <<now, url, query, interval, table, fetches>>

Fail(key) ==
    /\ requests' = requests \ {key}
    /\ UNCHANGED <<now, url, query, interval, table, cache, fetches>>

OverviewNext ==
    \/ ClockAdvances
    \/ SetNowTick
    \/ \E u \in Urls : ChangeUrl(u) \/ Mount(u)
    \/ \E content \in Contents, ts \in {now - 1, now} : LogRow(content, ts)
    \/ \E groupBy \in GroupBys : Ask(groupBy)
    \/ \E key \in requests : Answer(key) \/ Fail(key)

OverviewSpec == OverviewInit /\ [][OverviewNext]_overviewVars

-----------------------------------------------------------------------------
(* Properties. *)

(* Every variable keeps its type. *)
OverviewTypeOK ==
    /\ now \in Start..MaxNow
    /\ url \in Urls
    /\ query \in Filter
    /\ interval \in Int \cup {None}
    /\ table \subseteq Row
    /\ requests \subseteq [groupBy : GroupBys, query : Filter]
    /\ \A e \in cache : /\ e.key \in [groupBy : GroupBys, query : Filter]
                         /\ e.from \in Int /\ e.to \in Nat /\ e.width \in {MINUTE, FIVE, HOUR}
                         /\ e.rows \subseteq table
                         /\ \A b \in e.series : /\ b.bucket \in Int /\ b.n \in Nat
                                                /\ b.dimension \in Values
    /\ fetches \in 0..MaxFetches

(* A chart of a relative window never lags the clock by two quanta and the  *)
(* interval's lateness, however the URL was changed, and its window is as   *)
(* long as the preset says (filters.ts: "refresh on a bounded cadence").    *)
WindowKeepsUp ==
    UsesRelativePreset(url) =>
        /\ query.to <= now /\ now < query.to + 2 * NOW_QUANTUM + LATE
        /\ query.to - query.from = RANGE_MS[url.range]

(* A loaded series tells no lie about its window: it counts the rows of the *)
(* tenant its query was compiled for (with none in the URL, the one named   *)
(* default), each once and under its own dimension, and every instant of    *)
(* the window has its bucket (audit-aggregate.service.ts: "so a chart has   *)
(* no gaps", and the header on bucket alignment).                           *)
Dimensions(e) == {r.fields[e.key.groupBy] : r \in e.rows}

OfItsTenant(e) ==
    \A r \in e.rows :
        r.tenant = IF e.key.query.tenant = Unset THEN "default" ELSE e.key.query.tenant

CountsEachOnce(e) ==
    \A d \in Dimensions(e) :
        TotalOf(e.series, d) = Cardinality({r \in e.rows : r.fields[e.key.groupBy] = d})

NoGaps(e) ==
    /\ \A b \in e.series : b.dimension \in Dimensions(e)
    /\ \A d \in Dimensions(e), t \in e.from..e.to :
          \E b \in e.series : /\ b.dimension = d /\ b.bucket <= t /\ t < b.bucket + e.width
                              /\ \A c \in e.series : c.dimension = d /\ c.bucket = b.bucket => c = b

SeriesCountsAll == \A e \in cache : OfItsTenant(e) /\ CountsEachOnce(e) /\ NoGaps(e)

(* What the panels say of one series agrees with the rows it counted and    *)
(* with each other: the tiles, the points of the line summed, the slices of *)
(* the donut and of the badges; a strip is empty only if nothing was        *)
(* counted, and the delivery rate is a percentage.                          *)
RowsWith(e, column, value) == Cardinality({r \in e.rows : r.fields[column] = value})

StripAgrees(e) ==
    LET strip == HealthStrip(e.series) IN
    /\ strip.empty <=> e.rows = {}
    /\ strip.delivered = RowsWith(e, "verb", "sent")
    /\ strip.failures = RowsWith(e, "verb", "failed")
    /\ strip.deliveryRate \in 0..100

LineAgrees(e) ==
    LET line == DeliveryRateLine(e.series) IN
    /\ Sum({[of |-> p, n |-> p.sent] : p \in line}) = RowsWith(e, "verb", "sent")
    /\ Sum({[of |-> p, n |-> p.failed] : p \in line}) = RowsWith(e, "verb", "failed")
    /\ \A p, q \in line : p.bucket = q.bucket => p = q

DonutAgrees(e) ==
    LET donut == ProviderMix(e.series) IN
    /\ DOMAIN donut = {r.fields["provider"] : r \in e.rows}
    /\ \A name \in DOMAIN donut : donut[name] = RowsWith(e, "provider", name)

BadgesAgree(e) ==
    LET badges == ChannelBadges(e.series) IN
    \A name \in DOMAIN badges : badges[name] = RowsWith(e, "channel", name)

PanelsAgree ==
    \A e \in cache :
        CASE e.key.groupBy = "verb"     -> StripAgrees(e) /\ LineAgrees(e)
          [] e.key.groupBy = "provider" -> DonutAgrees(e)
          [] OTHER                      -> BadgesAgree(e)
=============================================================================

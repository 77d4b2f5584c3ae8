------------------------ MODULE ExplorerViewProofs ------------------------
(***************************************************************************)
(* The Explorer's page, proved for every link that opens it, every row the *)
(* pipeline logs and any number of clicks: types, the query bar, the links *)
(* of the rail, the drawer and the Overview's bars, and which rows the     *)
(* table can miss or show twice.                                           *)
(*                                                                         *)
(* The inductive invariant IInv says of every part of the page which URL   *)
(* it belongs to: the views' queries are compiled of the one in the        *)
(* address bar at some instant, a history holds what its query selects, an *)
(* open tail holds every row announced since, and the row in the drawer    *)
(* passes the filters under it.                                            *)
(*                                                                         *)
(* The last parts are about the Overview, a page over the same clock,      *)
(* address bar and rows: how far the windows lag the clock (Fresh,         *)
(* ChartInv), what a loaded series counts (OverviewInv), and what the      *)
(* panels read off it.                                                     *)
(***************************************************************************)
EXTENDS ExplorerView, AuditOverview, FiniteSetTheorems, FunctionTheorems, TLAPS

USE FilterAssumption, UrlAssumption, PageAssumption, ViewAssumption

(* A row passes the filters of a query, its window aside. *)
Kept(asked, r) == OfTenant(asked, r) /\ Matches(asked, r)

SameFilters(p, q) ==
    p.tenant = q.tenant /\ p.fields = q.fields /\ p.q = q.q /\ p.source = q.source

TailRecord == [phase : {"off", "connecting", "open"}, rows : SUBSET table, at : Nat]

CompiledInv == \A v \in Views : \E t \in Start..now : compiled[v] = CompileQuery(url, t)

HistoryInv ==
    \A e \in history :
        /\ e.key \in Filter /\ e.rows \subseteq e.read /\ e.read \subseteq table
        /\ Accepted(e.key)
        /\ e.to \in Nat
        /\ e.key.to # Unset => e.to = e.key.to
        /\ \A r \in e.read : r \in e.rows <=> e.from <= r.ts /\ r.ts <= e.to /\ Kept(e.key, r)

StampedInv == \A r \in table : r.ts <= now

TailInv ==
    /\ tail.phase = "off" <=> ~StreamEnabled
    /\ tail.phase = "connecting" => tail.rows = {}
    /\ StreamEnabled => \A r \in tail.rows : Kept(compiled["table"], r)
    /\ ~IsRelative(url) => tail.rows = {}
    /\ tail.phase = "open" =>
         /\ tail.at <= now
         /\ UsesRelativePreset(url) => compiled["table"].to <= tail.at
         /\ \A r \in table \ unannounced :
               r.ts > tail.at /\ Kept(compiled["table"], r) => r \in tail.rows

SelectedInv ==
    selected # NoRow => Accepted(compiled["table"]) /\ Kept(compiled["table"], selected)

(* What the page and the API hold, and what the user has in hand. *)
ViewType ==
    /\ now \in Start..MaxNow
    /\ url \in Url /\ live \in BOOLEAN
    /\ compiled \in [Views -> Filter]
    /\ ticker \in [Views -> Int \cup {None}]
    /\ unannounced \subseteq table /\ table \subseteq Row /\ IsFiniteSet(table)
    /\ tail \in TailRecord

ViewInv == ViewType /\ CompiledInv /\ HistoryInv /\ StampedInv /\ TailInv

UserInv ==
    /\ drafts \in [Inputs -> Values \cup {Unset}] /\ typed \subseteq Inputs
    /\ selected \in table \cup {NoRow}
    /\ clicks \in 0..MaxClicks
    /\ SelectedInv /\ DraftsMatchUrl

IInv == ViewInv /\ UserInv

-----------------------------------------------------------------------------
(* The compiled query. *)

(* The window's rounded end never runs ahead of the clock, nor back. *)
LEMMA QuantizedBounds ==
    ASSUME NEW t \in Nat
    PROVE  Quantized(t) \in Nat /\ Quantized(t) <= t
<1> DEFINE q == t \div NOW_QUANTUM
<1>1. q \in Nat /\ q * NOW_QUANTUM <= t
  OBVIOUS
<1>2. Quantized(t) = q * NOW_QUANTUM
  BY DEF Quantized
<1> HIDE DEF q
<1>3. q * NOW_QUANTUM \in Nat
  BY <1>1
<1>. QED
  BY <1>1, <1>2, <1>3

LEMMA QuantizedRises ==
    ASSUME NEW s \in Nat, NEW t \in Nat, s <= t
    PROVE  Quantized(s) <= Quantized(t)
<1> DEFINE p == s \div NOW_QUANTUM
           q == t \div NOW_QUANTUM
<1>1. p \in Nat /\ q \in Nat /\ p * NOW_QUANTUM <= s /\ t < (q + 1) * NOW_QUANTUM
  OBVIOUS
<1> HIDE DEF p, q
<1>2. p <= q
  <2> SUFFICES ASSUME q + 1 <= p PROVE FALSE
    BY <1>1
  <2>1. \A a, b, c \in Nat : a <= b => a * c <= b * c
    OBVIOUS
  <2>2. (q + 1) * NOW_QUANTUM <= p * NOW_QUANTUM
    BY <1>1, <2>1
  <2>3. (q + 1) * NOW_QUANTUM \in Nat /\ p * NOW_QUANTUM \in Nat
    BY <1>1
  <2> DEFINE x == (q + 1) * NOW_QUANTUM
             y == p * NOW_QUANTUM
  <2>4. x <= y /\ x \in Nat /\ y \in Nat /\ y <= s /\ t < x
    BY <1>1, <2>2, <2>3
  <2> HIDE DEF x, y
  <2>. QED
    BY <2>4
<1>3. p * NOW_QUANTUM <= q * NOW_QUANTUM
  <2>1. \A a, b, c \in Nat : a <= b => a * c <= b * c
    OBVIOUS
  <2>. QED
    BY <1>1, <1>2, <2>1
<1>. QED
  BY <1>3 DEF Quantized, p, q

LEMMA CompileType ==
    ASSUME NEW u \in Url, NEW t \in Nat, Start <= t
    PROVE  CompileQuery(u, t) \in Filter
<1> DEFINE asked == CompileQuery(u, t)
           columns == [c \in Fields |-> IF c \in {"channel", "verb"} THEN Known(u.fields[c])
                                                                   ELSE u.fields[c]]
<1>1. /\ u.fields \in UrlFields /\ u.tenantId \in Tenants \cup {Unset}
      /\ u.source \in {"interceptor", "service", Unset} /\ u.q \in Words \cup {Unset}
      /\ u.from \in Nat \cup {Unset} /\ u.to \in Nat \cup {Unset}
  BY DEF Url
<1>2. columns \in [Fields -> Values \cup {Unset}]
  <2> SUFFICES ASSUME NEW c \in Fields PROVE columns[c] \in Values \cup {Unset}
    OBVIOUS
  <2>1. u.fields[c] \in Values \cup BadTokens \cup {Unset}
    BY <1>1 DEF UrlFields
  <2>2. CASE c \in {"channel", "verb"}
    BY <2>1, <2>2 DEF Known
  <2>3. CASE c \notin {"channel", "verb"}
    BY <1>1, <2>1, <2>3 DEF UrlFields
  <2>. QED
    BY <2>2, <2>3
<1>3. Window(u, t).from \in Nat \cup {Unset} /\ Window(u, t).to \in Nat \cup {Unset}
  <2>1. CASE UsesRelativePreset(u)
    <3>1. Window(u, t) = [from |-> Quantized(t) - RANGE_MS[u.range], to |-> Quantized(t)]
      BY <2>1 DEF Window, ResolveWindow
    <3>2. u.range \in Presets
      BY <2>1 DEF UsesRelativePreset
    <3>3. RANGE_MS[u.range] \in Nat /\ RANGE_MS[u.range] <= Quantized(Start)
      BY <3>2
    <3>4. /\ Quantized(t) \in Nat /\ Quantized(Start) \in Nat
          /\ Quantized(Start) <= Quantized(t)
      BY QuantizedBounds, QuantizedRises
    <3>5. Quantized(t) - RANGE_MS[u.range] \in Nat
      BY <3>3, <3>4
    <3>. QED
      BY <3>1, <3>4, <3>5
  <2>2. CASE ~UsesRelativePreset(u)
    BY <1>1, <2>2 DEF Window
  <2>. QED
    BY <2>1, <2>2
<1>4. asked = [tenant |-> u.tenantId, fields |-> columns, q |-> u.q, source |-> u.source,
               from |-> Window(u, t).from, to |-> Window(u, t).to]
  BY DEF CompileQuery
<1> HIDE DEF asked, columns
<1>. QED
  BY <1>1, <1>2, <1>3, <1>4 DEF Filter, asked

LEMMA CompiledAlike ==
    ASSUME NEW u, NEW s, NEW t
    PROVE  SameFilters(CompileQuery(u, s), CompileQuery(u, t))
BY DEF SameFilters, CompileQuery

(* The end of a relative window. *)
LEMMA CompiledTo ==
    ASSUME NEW u, NEW t \in Nat, UsesRelativePreset(u)
    PROVE  CompileQuery(u, t).to \in Nat /\ CompileQuery(u, t).to <= t
<1>1. CompileQuery(u, t).to = Quantized(t)
  BY DEF CompileQuery, Window, ResolveWindow
<1>. QED
  BY <1>1, QuantizedBounds

(* Whether the API answers depends on the purpose alone. *)
LEMMA AcceptedIff ==
    ASSUME NEW asked
    PROVE  Accepted(asked) <=> \/ asked.fields["purpose"] = Unset
                               \/ asked.fields["purpose"] \in AuditPurposes
<1>1. "purpose" \in Fields
  BY DEF Inputs
<1> DEFINE params == EncodeAuditQuery(asked)
           param  == [name |-> "purpose", value |-> asked.fields["purpose"]]
<1>2. \A p \in params : p.name = "purpose" => p.value = asked.fields["purpose"]
  BY DEF EncodeAuditQuery
<1>3. asked.fields["purpose"] # Unset => param \in params
  BY <1>1 DEF EncodeAuditQuery
<1>4. asked.fields["purpose"] = Unset => \A p \in params : p.name # "purpose"
  BY DEF EncodeAuditQuery
<1>5. param.name = "purpose" /\ param.value = asked.fields["purpose"]
  OBVIOUS
<1> HIDE DEF params, param
<1>. QED
  BY <1>2, <1>3, <1>4, <1>5 DEF Accepted, AuditQuerySchema, params

LEMMA Alike ==
    ASSUME NEW p, NEW q, SameFilters(p, q)
    PROVE  /\ Accepted(p) <=> Accepted(q)
           /\ \A r : Kept(p, r) <=> Kept(q, r)
<1>1. Accepted(p) <=> Accepted(q)
  BY AcceptedIff DEF SameFilters
<1>2. \A r : Kept(p, r) <=> Kept(q, r)
  BY DEF SameFilters, Kept, OfTenant, RbacHeader, Matches
<1>. QED
  BY <1>1, <1>2

(* The `where` of a compiled query selects what its filters keep. *)
LEMMA WhereKeeps ==
    ASSUME NEW f \in Filter, NEW r \in Row, NEW lo, NEW hi
    PROVE  Where(f, ResolveTenantId(RbacHeader(f)), lo, hi, r)
             <=> lo <= r.ts /\ r.ts <= hi /\ Kept(f, r)
<1> DEFINE t == ResolveTenantId(RbacHeader(f))
<1>1. f.tenant \in {Unset, t}
  BY DEF ResolveTenantId, RbacHeader
<1>2. f.source \in {"interceptor", "service", Unset} /\ r.fields \in [Fields -> Values]
  BY DEF Filter, Row
<1>3. SourcePredicate(f.source, r) <=>
        /\ ~(f.source = "interceptor" /\ r.fields["provider"] # Interceptor)
        /\ ~(f.source = "service" /\ r.fields["provider"] = Interceptor)
  BY <1>2 DEF SourcePredicate
<1>4. (\A c \in Fields : f.fields[c] # Unset => r.fields[c] = f.fields[c]) <=>
      (\A c \in Fields : f.fields[c] \in {Unset, r.fields[c]})
  OBVIOUS
<1>5. (f.tenant = Unset \/ r.tenant = f.tenant) \/ r.tenant # t
  BY <1>1
<1> HIDE DEF t
<1>. QED
  BY <1>3, <1>4, <1>5 DEF Where, Kept, OfTenant, Matches, t
-----------------------------------------------------------------------------
LEMMA InitView == Init => IInv
<1> SUFFICES ASSUME Init PROVE IInv
  OBVIOUS
<1>1. now = Start /\ Start \in Nat /\ url \in Url /\ live \in BOOLEAN
  BY DEF Init
<1>2. \A v \in Views : compiled[v] = CompileQuery(url, Start)
  BY DEF Init
<1>3. compiled \in [Views -> Filter]
  BY <1>1, CompileType DEF Init
<1>4. ticker \in [Views -> Int \cup {None}]
  BY DEF Init
<1>5. tail = [phase |-> IF StreamEnabled THEN "connecting" ELSE "off", rows |-> {}, at |-> Start]
  BY DEF Init, Connecting
<1>6. table = {} /\ unannounced = {} /\ history = {} /\ selected = NoRow /\ clicks = 0 /\ typed = {}
  BY DEF Init
<1>7. now \in Start..MaxNow
  BY <1>1 DEF Init
<1>8. ViewType
  BY <1>1, <1>3, <1>4, <1>5, <1>6, <1>7, FS_EmptySet DEF ViewType, TailRecord
<1>9. CompiledInv
  BY <1>1, <1>2 DEF CompiledInv
<1>10. HistoryInv /\ StampedInv /\ SelectedInv
  BY <1>6 DEF HistoryInv, StampedInv, SelectedInv
<1>11. TailInv
  BY <1>5 DEF TailInv
<1>12. drafts \in [Inputs -> Values \cup {Unset}] /\ DraftsMatchUrl
  <2>1. drafts = [i \in Inputs |-> url.fields[i]]
    BY DEF Init
  <2>2. \A i \in Inputs : url.fields[i] \in Values \cup {Unset}
    BY <1>1 DEF Url, UrlFields, Inputs
  <2>. QED
    BY <2>1, <2>2 DEF DraftsMatchUrl
<1>. QED
  BY <1>6, <1>8, <1>9, <1>10, <1>11, <1>12 DEF IInv, ViewInv, UserInv

-----------------------------------------------------------------------------
(* The steps of the page. *)

(* No button touches the window. *)
SameWindow(u) == u.range = url.range /\ u.from = url.from /\ u.to = url.to

LEMMA WindowKept ==
    ASSUME NEW u, SameWindow(u)
    PROVE  /\ IsRelative(u) <=> IsRelative(url)
           /\ UsesRelativePreset(u) <=> UsesRelativePreset(url)
BY DEF SameWindow, IsRelative, UsesRelativePreset

(* The tail's effect: it stays with the query it was opened for, or starts  *)
(* again, empty, or is off.                                                 *)
LEMMA StreamRestarts ==
    ASSUME ViewType, TailInv, StreamEffect, SameWindow(url'), live' \in BOOLEAN,
           UNCHANGED <<now, table, unannounced>>
    PROVE  tail' \in TailRecord' /\ TailInv'
<1> DEFINE enabled == live' /\ IsRelative(url')
<1>1. StreamEnabled' = enabled
  BY DEF StreamEnabled
<1>2. IsRelative(url') <=> IsRelative(url)
  BY WindowKept
<1>3. UsesRelativePreset(url') <=> UsesRelativePreset(url)
  BY WindowKept
<1>4. tail \in TailRecord /\ TailRecord' = TailRecord
  BY DEF ViewType, TailRecord
<1>5. CASE enabled = StreamEnabled /\ compiled'["table"] = compiled["table"]
  <2>1. tail' = tail
    BY <1>5 DEF StreamEffect
  <2>2. StreamEnabled' = StreamEnabled
    BY <1>1, <1>5
  <2>. QED
    BY <1>2, <1>3, <1>4, <1>5, <2>1, <2>2 DEF TailInv, Kept, OfTenant, Matches
<1>6. CASE ~(enabled = StreamEnabled /\ compiled'["table"] = compiled["table"]) /\ enabled
  <2>1. tail' = Connecting
    BY <1>6 DEF StreamEffect
  <2>2. tail'.phase = "connecting" /\ tail'.rows = {} /\ tail' \in TailRecord
    BY <2>1 DEF Connecting, TailRecord
  <2>. QED
    BY <1>1, <1>4, <1>6, <2>2 DEF TailInv
<1>7. CASE ~(enabled = StreamEnabled /\ compiled'["table"] = compiled["table"]) /\ ~enabled
  <2>1. tail' = [tail EXCEPT !.phase = "off", !.at = Start]
    BY <1>7 DEF StreamEffect
  <2>2. tail'.phase = "off" /\ tail'.rows = tail.rows /\ tail' \in TailRecord
    BY <1>4, <2>1 DEF TailRecord
  <2>3. ~IsRelative(url') => tail'.rows = {}
    BY <1>2, <2>2 DEF TailInv
  <2>. QED
    BY <1>1, <1>4, <1>7, <2>2, <2>3 DEF TailInv
<1>. QED
  BY <1>5, <1>6, <1>7

(* The histories that are kept stay what they were. *)
LEMMA HistoryKept ==
    ASSUME HistoryInv, history' \subseteq history, table \subseteq table'
    PROVE  HistoryInv'
<1> SUFFICES ASSUME NEW e \in history'
             PROVE  /\ e.key \in Filter /\ e.rows \subseteq e.read /\ e.read \subseteq table'
                    /\ Accepted(e.key) /\ e.to \in Nat
                    /\ e.key.to # Unset => e.to = e.key.to
                    /\ \A r \in e.read : r \in e.rows <=> /\ e.from <= r.ts /\ r.ts <= e.to
                                                          /\ Kept(e.key, r)
  BY DEF HistoryInv, Kept, OfTenant, Matches
<1>1. e \in history
  OBVIOUS
<1>. QED
  BY <1>1 DEF HistoryInv

(* setQuery, whoever calls it. *)
LEMMA SetQueryKeeps ==
    ASSUME ViewInv, NEW u \in Url, SameWindow(u), SetQuery(u)
    PROVE  ViewInv'
<1>1. /\ url' = u /\ live' = live /\ ticker' = ticker /\ now' = now
      /\ table' = table /\ unannounced' = unannounced
      /\ StreamEffect /\ history' \subseteq history
  BY DEF SetQuery, Forget, apiVars
<1>2. now \in Nat /\ now \in Start..now /\ Start <= now
  BY DEF ViewInv, ViewType
<1>3. CompiledInv'
  <2>1. CASE u = url
    BY <1>1, <2>1 DEF SetQuery, ViewInv, CompiledInv
  <2>2. CASE u # url
    BY <1>1, <1>2, <2>2 DEF SetQuery, CompiledInv
  <2>. QED
    BY <2>1, <2>2
<1>4. compiled' \in [Views -> Filter]
  <2>1. CompileQuery(u, now) \in Filter
    BY <1>2, CompileType
  <2>. QED
    BY <2>1 DEF SetQuery, ViewInv, ViewType
<1>5. tail' \in TailRecord' /\ TailInv'
  BY <1>1, StreamRestarts DEF ViewInv, ViewType
<1>6. HistoryInv' /\ StampedInv'
  BY <1>1, HistoryKept DEF ViewInv, StampedInv
<1>7. ViewType'
  BY <1>1, <1>4, <1>5 DEF ViewInv, ViewType
<1>. QED
  BY <1>3, <1>5, <1>6, <1>7 DEF ViewInv

(* A row in hand passes the filters of whatever the views compile next of   *)
(* the same URL.                                                            *)
LEMMA SameUrl ==
    ASSUME ViewInv, CompiledInv', url' = url
    PROVE  SameFilters(compiled["table"], compiled'["table"])
<1>1. "table" \in Views
  BY DEF Views
<1>2. PICK s \in Start..now : compiled["table"] = CompileQuery(url, s)
  BY <1>1 DEF ViewInv, CompiledInv
<1>3. PICK t \in Start..now' : compiled'["table"] = CompileQuery(url, t)
  BY <1>1 DEF CompiledInv
<1>. QED
  BY <1>2, <1>3, CompiledAlike

LEMMA InHand ==
    ASSUME ViewInv, UserInv, CompiledInv', url' = url, table \subseteq table',
           UNCHANGED <<drafts, typed, selected, clicks>>
    PROVE  UserInv'
<1>1. SelectedInv'
  <2>1. SameFilters(compiled["table"], compiled'["table"])
    BY SameUrl
  <2>2. /\ Accepted(compiled["table"]) <=> Accepted(compiled'["table"])
        /\ Kept(compiled["table"], selected) <=> Kept(compiled'["table"], selected)
    BY <2>1, Alike
  <2>. QED
    BY <2>2 DEF UserInv, SelectedInv, Kept, OfTenant, Matches
<1>. QED
  BY <1>1 DEF UserInv, DraftsMatchUrl

LEMMA AdvanceKeeps ==
    ASSUME IInv, Advance
    PROVE  IInv'
<1>1. /\ now' = now + 1 /\ now < MaxNow
      /\ UNCHANGED <<url, live, compiled, ticker, drafts, typed, selected, clicks, table,
                     unannounced, history, tail>>
  BY DEF Advance, pageVars, apiVars
<1>2. now \in Start..MaxNow /\ now \in Nat /\ Start \in Nat /\ MaxNow \in Nat
  BY DEF IInv, ViewInv, ViewType
<1>3. CompiledInv'
  BY <1>1, <1>2 DEF IInv, ViewInv, CompiledInv
<1>4. ViewType'
  BY <1>1, <1>2 DEF IInv, ViewInv, ViewType, TailRecord
<1>5. StampedInv'
  <2>1. \A r \in table : r.ts \in Nat /\ r.ts <= now
    BY DEF IInv, ViewInv, ViewType, StampedInv, Row
  <2>. QED
    BY <1>1, <1>2, <2>1 DEF StampedInv
<1>6. TailInv'
  <2>1. tail.at \in Nat /\ (tail.phase = "open" => tail.at <= now')
    BY <1>1, <1>2 DEF IInv, ViewInv, ViewType, TailRecord, TailInv
  <2>. QED
    BY <1>1, <2>1 DEF IInv, ViewInv, TailInv, StreamEnabled, Kept, OfTenant, Matches
<1>7. HistoryInv'
  BY <1>1, HistoryKept DEF IInv, ViewInv
<1>8. UserInv'
  BY <1>1, <1>3, InHand DEF IInv
<1>. QED
  BY <1>3, <1>4, <1>5, <1>6, <1>7, <1>8 DEF IInv, ViewInv

LEMMA TickerKeeps ==
    ASSUME IInv, NEW v \in Views, TickerFires(v)
    PROVE  IInv'
<1>1. /\ url' = url /\ live' = live /\ now' = now /\ table' = table /\ unannounced' = unannounced
      /\ ticker' = [ticker EXCEPT ![v] = @ + NOW_QUANTUM] /\ ticker[v] # None
      /\ compiled' = [compiled EXCEPT ![v] = CompileQuery(url, now)]
      /\ StreamEffect /\ history' \subseteq history
      /\ UNCHANGED <<drafts, typed, selected, clicks>>
  BY DEF TickerFires, Forget, apiVars
<1>2. now \in Nat /\ now \in Start..now /\ Start <= now
  BY DEF IInv, ViewInv, ViewType
<1>3. compiled \in [Views -> Filter] /\ ticker \in [Views -> Int \cup {None}] /\ url \in Url
  BY DEF IInv, ViewInv, ViewType
<1>4. CompiledInv'
  BY <1>1, <1>2, <1>3 DEF IInv, ViewInv, CompiledInv
<1>5. compiled' \in [Views -> Filter] /\ ticker' \in [Views -> Int \cup {None}]
  <2>1. CompileQuery(url, now) \in Filter
    BY <1>2, <1>3, CompileType
  <2>2. ticker[v] + NOW_QUANTUM \in Int
    BY <1>1, <1>3
  <2>. QED
    BY <1>1, <1>3, <2>1, <2>2
<1>6. tail' \in TailRecord' /\ TailInv'
  <2>1. SameWindow(url') /\ live' \in BOOLEAN
    BY <1>1 DEF SameWindow, IInv, ViewInv, ViewType
  <2>. QED
    BY <1>1, <2>1, StreamRestarts DEF IInv, ViewInv
<1>7. HistoryInv' /\ StampedInv'
  BY <1>1, HistoryKept DEF IInv, ViewInv, StampedInv
<1>8. ViewType'
  BY <1>1, <1>5, <1>6 DEF IInv, ViewInv, ViewType
<1>9. UserInv'
  BY <1>1, <1>4, InHand DEF IInv
<1>. QED
  BY <1>4, <1>6, <1>7, <1>8, <1>9 DEF IInv, ViewInv

-----------------------------------------------------------------------------
(* What the user does. *)

(* The query bar, the rail, the drawer and the switcher change the URL so   *)
(* that the inputs nobody types in follow it.                               *)
LEMMA SubmitKeeps ==
    ASSUME IInv, Submit
    PROVE  IInv'
<1> DEFINE g == [f \in Fields |-> IF f \in Inputs THEN drafts[f] ELSE url.fields[f]]
           u == [url EXCEPT !.fields = g]
<1>1. url \in Url /\ drafts \in [Inputs -> Values \cup {Unset}] /\ Inputs \subseteq Fields
  BY DEF IInv, ViewInv, ViewType, UserInv
<1>2. g \in UrlFields
  BY <1>1 DEF UrlFields, Url
<1>3. \A i \in Inputs : g[i] = drafts[i]
  BY <1>1
<1>4. SetQuery(u) /\ typed' = {} /\ drafts' = drafts /\ selected' = selected /\ selected = NoRow
      /\ clicks < MaxClicks /\ clicks' = clicks + 1
  BY DEF Submit, Click, Free
<1> HIDE DEF g
<1>5. u \in Url /\ SameWindow(u) /\ u.fields = g
  BY <1>1, <1>2 DEF Url, SameWindow
<1> HIDE DEF u
<1>6. ViewInv'
  BY <1>4, <1>5, SetQueryKeeps DEF IInv
<1>7. url' = u /\ table' = table
  BY <1>4 DEF SetQuery, apiVars
<1>8. DraftsMatchUrl'
  BY <1>3, <1>4, <1>5, <1>7 DEF DraftsMatchUrl
<1>9. UserInv'
  BY <1>4, <1>7, <1>8 DEF IInv, UserInv, SelectedInv
<1>. QED
  BY <1>6, <1>9 DEF IInv

LEMMA ClearAllKeeps ==
    ASSUME IInv, ClearAll
    PROVE  IInv'
<1> DEFINE u == Cleared(url)
<1>1. url \in Url /\ Inputs \subseteq Fields
  BY DEF IInv, ViewInv, ViewType
<1>2. u \in Url /\ SameWindow(u) /\ \A i \in Inputs : u.fields[i] = Unset
  BY <1>1 DEF Cleared, Url, UrlFields, SameWindow
<1>3. /\ SetQuery(u) /\ typed' = {} /\ drafts' = [i \in Inputs |-> Unset]
      /\ selected' = selected /\ selected = NoRow
      /\ clicks < MaxClicks /\ clicks' = clicks + 1
  BY DEF ClearAll, Click, Free
<1> HIDE DEF u
<1>4. ViewInv'
  BY <1>2, <1>3, SetQueryKeeps DEF IInv
<1>5. url' = u /\ table' = table
  BY <1>3 DEF SetQuery, apiVars
<1>6. DraftsMatchUrl'
  BY <1>2, <1>3, <1>5 DEF DraftsMatchUrl
<1>7. UserInv'
  BY <1>3, <1>5, <1>6 DEF IInv, UserInv, SelectedInv
<1>. QED
  BY <1>4, <1>7 DEF IInv

LEMMA WithUrl ==
    ASSUME url \in Url, NEW field \in Fields \cup {"source"}, NEW value,
           IF field = "source" THEN value \in {"interceptor", "service", Unset}
                               ELSE value \in Values \cup {Unset}
    PROVE  With(url, field, value) \in Url /\ SameWindow(With(url, field, value))
<1>1. CASE field = "source"
  BY <1>1 DEF With, Url, SameWindow
<1>2. CASE field # "source"
  <2> DEFINE g == [url.fields EXCEPT ![field] = value]
  <2>1. g \in UrlFields
    BY <1>2 DEF Url, UrlFields
  <2>2. With(url, field, value) = [url EXCEPT !.fields = g]
    BY <1>2 DEF With
  <2> HIDE DEF g
  <2>. QED
    BY <2>1, <2>2 DEF Url, SameWindow
<1>. QED
  BY <1>1, <1>2

LEMMA ValueType ==
    ASSUME NEW r \in Row, NEW field \in Fields \cup {"source"}
    PROVE  IF field = "source" THEN ValueOf(r, field) \in {"interceptor", "service"}
                               ELSE ValueOf(r, field) \in Values
BY DEF ValueOf, SourceOf, Row

(* The inputs follow a URL that one click has changed. *)
LEMMA SyncKeeps ==
    ASSUME IInv, NEW u \in Url, SameWindow(u), SetQuery(u), SyncDrafts(u),
           selected' = NoRow, clicks < MaxClicks, clicks' = clicks + 1
    PROVE  IInv'
<1>1. ViewInv'
  BY SetQueryKeeps DEF IInv
<1>2. url' = u /\ table' = table
  BY DEF SetQuery, apiVars
<1>3. /\ drafts' \in [Inputs -> Values \cup {Unset}] /\ typed' \subseteq Inputs /\ DraftsMatchUrl'
  <2>1. CASE FollowsUrl(u)
    <3>1. drafts' = [i \in Inputs |-> u.fields[i]] /\ typed' = {}
      BY <2>1 DEF SyncDrafts
    <3>2. \A i \in Inputs : u.fields[i] \in Values \cup {Unset}
      BY DEF Url, UrlFields, Inputs
    <3>. QED
      BY <1>2, <3>1, <3>2 DEF DraftsMatchUrl
  <2>2. CASE ~FollowsUrl(u)
    <3>1. drafts' = drafts /\ typed' = typed /\ \A i \in Inputs : u.fields[i] = url.fields[i]
      BY <2>2 DEF SyncDrafts, FollowsUrl
    <3>. QED
      BY <1>2, <3>1 DEF DraftsMatchUrl, IInv, UserInv
  <2>. QED
    BY <2>1, <2>2
<1>4. UserInv'
  BY <1>2, <1>3 DEF IInv, UserInv, SelectedInv
<1>. QED
  BY <1>1, <1>4 DEF IInv

(* The rows a history holds are rows of the table. *)
LEMMA HistoryRows ==
    ASSUME ViewInv, NEW asked, NEW r \in RowsOf(asked)
    PROVE  /\ r \in Row /\ r \in table /\ Kept(asked, r) /\ Accepted(asked)
           /\ \E e \in Pages(asked) : r \in e.rows
<1>1. PICK e \in history : e.key = asked /\ r \in e.rows
  BY DEF RowsOf, Pages
<1>2. r \in e.read /\ e.read \subseteq table /\ Accepted(asked)
  BY <1>1 DEF ViewInv, HistoryInv
<1>3. Kept(asked, r)
  BY <1>1, <1>2 DEF ViewInv, HistoryInv
<1>4. r \in table /\ r \in Row
  BY <1>2 DEF ViewInv, ViewType
<1>5. e \in Pages(asked)
  BY <1>1 DEF Pages
<1>. QED
  BY <1>1, <1>2, <1>3, <1>4, <1>5

LEMMA FacetField == FACET_FIELDS \cup {"recipient"} \subseteq Fields \cup {"source"}
BY DEF FACET_FIELDS, Inputs

LEMMA ClickFacetKeeps ==
    ASSUME IInv, NEW field \in FACET_FIELDS, NEW value, NEW alt, ClickFacet(field, value, alt)
    PROVE  IInv'
<1> DEFINE new == IF alt /\ ActiveValue(field) = value THEN Unset ELSE value
           u   == With(url, field, new)
<1>1. /\ value \in DOMAIN Facets(field) /\ SetQuery(u) /\ SyncDrafts(u)
      /\ selected' = selected /\ selected = NoRow /\ clicks < MaxClicks /\ clicks' = clicks + 1
  BY DEF ClickFacet, Click, Free
<1>2. PICK r \in RowsOf(compiled["rail"]) : value = ValueOf(r, field)
  BY <1>1 DEF Facets
<1>3. r \in Row /\ field \in Fields \cup {"source"}
  BY HistoryRows, FacetField DEF IInv
<1>4. IF field = "source" THEN value \in {"interceptor", "service"} ELSE value \in Values
  BY <1>2, <1>3, ValueType
<1>5. IF field = "source" THEN new \in {"interceptor", "service", Unset}
                          ELSE new \in Values \cup {Unset}
  BY <1>4
<1> HIDE DEF new
<1>6. u \in Url /\ SameWindow(u)
  BY <1>3, <1>5, WithUrl DEF IInv, ViewInv, ViewType
<1> HIDE DEF u
<1>. QED
  BY <1>1, <1>6, SyncKeeps

LEMMA PivotKeeps ==
    ASSUME IInv, NEW field \in FACET_FIELDS \cup {"recipient"}, Pivot(field)
    PROVE  IInv'
<1> DEFINE u == With(url, field, ValueOf(selected, field))
<1>1. /\ SetQuery(u) /\ SyncDrafts(u) /\ selected' = NoRow /\ selected # NoRow
      /\ clicks < MaxClicks /\ clicks' = clicks + 1
  BY DEF Pivot, Click, Free
<1>2. selected \in Row /\ field \in Fields \cup {"source"}
  BY <1>1, FacetField DEF IInv, ViewInv, ViewType, UserInv
<1>3. IF field = "source" THEN ValueOf(selected, field) \in {"interceptor", "service"}
                          ELSE ValueOf(selected, field) \in Values
  BY <1>2, ValueType
<1>4. u \in Url /\ SameWindow(u)
  BY <1>2, <1>3, WithUrl DEF IInv, ViewInv, ViewType
<1> HIDE DEF u
<1>. QED
  BY <1>1, <1>4, SyncKeeps

LEMMA SelectTenantKeeps ==
    ASSUME IInv, NEW t \in Tenants \cup {Unset}, SelectTenant(t)
    PROVE  IInv'
<1> DEFINE u == [url EXCEPT !.tenantId = t]
<1>1. url \in Url
  BY DEF IInv, ViewInv, ViewType
<1>2. u \in Url /\ SameWindow(u) /\ u.fields = url.fields
  BY <1>1 DEF Url, SameWindow
<1>3. /\ SetQuery(u) /\ UNCHANGED <<drafts, typed, selected>> /\ selected = NoRow
      /\ clicks < MaxClicks /\ clicks' = clicks + 1
  BY DEF SelectTenant, Click, Free
<1> HIDE DEF u
<1>4. ViewInv'
  BY <1>2, <1>3, SetQueryKeeps DEF IInv
<1>5. url' = u /\ table' = table
  BY <1>3 DEF SetQuery, apiVars
<1>6. UserInv'
  BY <1>2, <1>3, <1>5 DEF IInv, UserInv, SelectedInv, DraftsMatchUrl
<1>. QED
  BY <1>4, <1>6 DEF IInv

(* Nothing of page or API moves but what the user has in hand. *)
LEMMA ViewStays ==
    ASSUME ViewInv, UNCHANGED <<now, url, live, compiled, ticker, table, unannounced, history, tail>>
    PROVE  ViewInv'
<1>1. ViewType' /\ CompiledInv' /\ StampedInv'
  BY DEF ViewInv, ViewType, TailRecord, CompiledInv, StampedInv
<1>2. TailInv'
  BY DEF ViewInv, TailInv, StreamEnabled, Kept, OfTenant, Matches
<1>3. HistoryInv'
  BY HistoryKept DEF ViewInv
<1>. QED
  BY <1>1, <1>2, <1>3 DEF ViewInv

LEMMA TypeKeeps ==
    ASSUME IInv, NEW i \in Inputs, NEW text \in Typings, Type(i, text)
    PROVE  IInv'
<1>1. /\ drafts' = [drafts EXCEPT ![i] = text] /\ typed' = typed \cup {i}
      /\ clicks < MaxClicks /\ clicks' = clicks + 1
      /\ UNCHANGED <<now, url, live, compiled, ticker, selected, table, unannounced, history, tail>>
  BY DEF Type, Click, apiVars
<1>2. ViewInv'
  BY <1>1, ViewStays DEF IInv
<1>3. drafts' \in [Inputs -> Values \cup {Unset}] /\ DraftsMatchUrl'
  BY <1>1 DEF IInv, UserInv, DraftsMatchUrl
<1>4. SelectedInv'
  BY <1>1 DEF IInv, UserInv, SelectedInv, Kept, OfTenant, Matches
<1>5. UserInv'
  BY <1>1, <1>3, <1>4 DEF IInv, UserInv
<1>. QED
  BY <1>2, <1>5 DEF IInv

(* What is on screen passes the filters of the table's query. *)
LEMMA ShownKept ==
    ASSUME ViewInv, NEW r \in Shown
    PROVE  Kept(compiled["table"], r) /\ r \in table
<1>1. CASE r \in RowsOf(compiled["table"])
  BY <1>1, HistoryRows
<1>2. CASE r \in LiveRows
  <2>1. live /\ r \in tail.rows
    BY <1>2 DEF LiveRows
  <2>2. IsRelative(url)
    BY <2>1 DEF ViewInv, TailInv
  <2>3. StreamEnabled
    BY <2>1, <2>2 DEF StreamEnabled
  <2>. QED
    BY <2>1, <2>3 DEF ViewInv, TailInv, ViewType, TailRecord
<1>. QED
  BY <1>1, <1>2 DEF Shown

LEMMA OpenRowKeeps ==
    ASSUME IInv, NEW r \in Shown, OpenRow(r)
    PROVE  IInv'
<1>1. /\ selected' = r /\ Body = "rows" /\ clicks < MaxClicks /\ clicks' = clicks + 1
      /\ UNCHANGED <<now, url, live, compiled, ticker, drafts, typed, table, unannounced,
                     history, tail>>
  BY DEF OpenRow, Click, apiVars
<1>2. ViewInv'
  BY <1>1, ViewStays DEF IInv
<1>3. Kept(compiled["table"], r) /\ r \in table
  BY ShownKept DEF IInv
<1>4. Accepted(compiled["table"])
  BY <1>1 DEF Body
<1>5. SelectedInv'
  BY <1>1, <1>3, <1>4 DEF SelectedInv, Kept, OfTenant, Matches
<1>6. UserInv'
  BY <1>1, <1>3, <1>5 DEF IInv, UserInv, DraftsMatchUrl
<1>. QED
  BY <1>2, <1>6 DEF IInv

LEMMA CloseDrawerKeeps ==
    ASSUME IInv, CloseDrawer
    PROVE  IInv'
<1>1. /\ selected' = NoRow
      /\ UNCHANGED <<now, url, live, compiled, ticker, drafts, typed, clicks, table, unannounced,
                     history, tail>>
  BY DEF CloseDrawer, apiVars
<1>2. ViewInv'
  BY <1>1, ViewStays DEF IInv
<1>3. UserInv'
  BY <1>1 DEF IInv, UserInv, SelectedInv, DraftsMatchUrl
<1>. QED
  BY <1>2, <1>3 DEF IInv

(* Another role: nothing read is of use to it, the tail starts again. *)
LEMMA SelectRoleKeeps ==
    ASSUME IInv, SelectRole
    PROVE  IInv'
<1>1. /\ tail' = (IF StreamEnabled THEN Connecting ELSE tail) /\ history' = {}
      /\ selected = NoRow
      /\ compiled' = [v \in Views |-> CompileQuery(url, now)]
      /\ clicks < MaxClicks /\ clicks' = clicks + 1
      /\ UNCHANGED <<now, url, live, ticker, drafts, typed, selected, table, unannounced>>
  BY DEF SelectRole, Click, Free, apiVars
<1>2. tail' \in TailRecord' /\ TailInv'
  <2>1. CASE StreamEnabled
    <3>1. tail'.phase = "connecting" /\ tail'.rows = {} /\ tail' \in TailRecord
      BY <1>1, <2>1 DEF Connecting, TailRecord
    <3>. QED
      BY <1>1, <2>1, <3>1 DEF TailInv, StreamEnabled, TailRecord
  <2>2. CASE ~StreamEnabled
    <3>1. tail' = tail /\ tail \in TailRecord
      BY <1>1, <2>2 DEF IInv, ViewInv, ViewType
    <3>2. ~StreamEnabled' /\ tail'.phase = "off" /\ (~IsRelative(url) => tail.rows = {})
      BY <1>1, <2>2, <3>1 DEF IInv, ViewInv, TailInv, StreamEnabled
    <3>3. TailInv'
      BY <1>1, <3>1, <3>2 DEF TailInv
    <3>. QED
      BY <1>1, <3>1, <3>3 DEF TailRecord
  <2>. QED
    BY <2>1, <2>2
<1>3. HistoryInv' /\ StampedInv' /\ CompiledInv'
  <2>1. now \in Start..now'
    BY <1>1 DEF IInv, ViewInv, ViewType
  <2>2. \A v \in Views : compiled'[v] = CompileQuery(url', now)
    BY <1>1
  <2>3. CompiledInv'
    BY <2>1, <2>2 DEF CompiledInv
  <2>. QED
    BY <1>1, <2>3 DEF IInv, ViewInv, HistoryInv, StampedInv
<1>4. ViewType'
  <2>1. CompileQuery(url, now) \in Filter
    BY CompileType DEF IInv, ViewInv, ViewType
  <2>. QED
    BY <1>1, <1>2, <2>1 DEF IInv, ViewInv, ViewType
<1>5. UserInv'
  BY <1>1 DEF IInv, UserInv, SelectedInv, DraftsMatchUrl
<1>. QED
  BY <1>2, <1>3, <1>4, <1>5 DEF IInv, ViewInv

LEMMA ToggleLiveKeeps ==
    ASSUME IInv, ToggleLive
    PROVE  IInv'
<1>1. /\ live' = ~live /\ StreamEffect /\ clicks < MaxClicks /\ clicks' = clicks + 1
      /\ UNCHANGED <<now, url, compiled, ticker, drafts, typed, selected, table, unannounced, history>>
  BY DEF ToggleLive, Click, apiVars
<1>2. tail' \in TailRecord' /\ TailInv'
  <2>1. SameWindow(url') /\ live' \in BOOLEAN
    BY <1>1 DEF SameWindow
  <2>. QED
    BY <1>1, <2>1, StreamRestarts DEF IInv, ViewInv
<1>3. HistoryInv'
  BY <1>1, HistoryKept DEF IInv, ViewInv
<1>4. StampedInv' /\ CompiledInv'
  BY <1>1 DEF IInv, ViewInv, StampedInv, CompiledInv
<1>5. ViewType'
  BY <1>1, <1>2 DEF IInv, ViewInv, ViewType
<1>6. UserInv'
  BY <1>1 DEF IInv, UserInv, SelectedInv, DraftsMatchUrl, Kept, OfTenant, Matches
<1>. QED
  BY <1>2, <1>3, <1>4, <1>5, <1>6 DEF IInv, ViewInv

-----------------------------------------------------------------------------
(* What the API does. *)

(* A new row owes the tail nothing until it is announced. *)
LEMMA WriteKeeps ==
    ASSUME IInv, NEW content \in Contents, NEW ts \in {now - 1, now}, Write(content, ts)
    PROVE  IInv'
<1> DEFINE r == MkRow(ts, Cardinality(table), content)
<1>1. /\ table' = table \cup {r} /\ unannounced' = unannounced \cup {r}
      /\ UNCHANGED <<now, url, live, compiled, ticker, drafts, typed, selected, clicks, history, tail>>
  BY DEF Write, pageVars
<1>2. IsFiniteSet(table) /\ table \subseteq Row /\ now \in Start..MaxNow /\ unannounced \subseteq table
  BY DEF IInv, ViewInv, ViewType
<1>3. ts \in Nat /\ ts <= now /\ now \in Nat
  BY <1>2
<1>4. Cardinality(table) \in Nat
  BY <1>2, FS_CardinalityType
<1>5. r \in Row /\ r.ts = ts
  <2>1. content \in Content
    OBVIOUS
  <2>. QED
    BY <1>3, <1>4, <2>1 DEF MkRow, Row, Content
<1> HIDE DEF r
<1>6. IsFiniteSet(table')
  BY <1>1, <1>2, FS_AddElement
<1>7. ViewType'
  <2>1. tail' \in TailRecord'
    BY <1>1 DEF IInv, ViewInv, ViewType, TailRecord
  <2>2. unannounced' \subseteq table' /\ table' \subseteq Row
    BY <1>1, <1>2, <1>5
  <2>. QED
    BY <1>1, <1>6, <2>1, <2>2 DEF IInv, ViewInv, ViewType
<1>8. StampedInv' /\ CompiledInv'
  BY <1>1, <1>3, <1>5 DEF IInv, ViewInv, StampedInv, CompiledInv
<1>9. TailInv'
  <2>1. table' \ unannounced' \subseteq table \ unannounced
    BY <1>1
  <2>2. /\ StreamEnabled' = StreamEnabled /\ tail' = tail /\ url' = url /\ now' = now
        /\ compiled' = compiled
    BY <1>1 DEF StreamEnabled
  <2>. QED
    BY <2>1, <2>2 DEF IInv, ViewInv, TailInv, Kept, OfTenant, Matches
<1>10. HistoryInv'
  BY <1>1, HistoryKept DEF IInv, ViewInv
<1>11. UserInv'
  BY <1>1, <1>8, InHand DEF IInv
<1>. QED
  BY <1>7, <1>8, <1>9, <1>10, <1>11 DEF IInv, ViewInv

(* The open tail takes the rows its query keeps. *)
LEMMA AnnounceKeeps ==
    ASSUME IInv, NEW r \in unannounced, Announce(r)
    PROVE  IInv'
<1>1. /\ unannounced' = unannounced \ {r}
      /\ tail' = IF tail.phase = "open" /\ Kept(compiled["table"], r)
                 THEN [tail EXCEPT !.rows = @ \cup {r}] ELSE tail
      /\ UNCHANGED <<now, url, live, compiled, ticker, drafts, typed, selected, clicks, table, history>>
  BY DEF Announce, Kept, pageVars
<1>2. r \in table /\ tail \in TailRecord /\ unannounced \subseteq table
  BY DEF IInv, ViewInv, ViewType
<1>3. /\ tail' \in TailRecord /\ tail'.phase = tail.phase /\ tail'.at = tail.at
      /\ tail'.rows = IF tail.phase = "open" /\ Kept(compiled["table"], r)
                      THEN tail.rows \cup {r} ELSE tail.rows
  BY <1>1, <1>2 DEF TailRecord
<1>4. ViewType'
  BY <1>1, <1>2, <1>3 DEF IInv, ViewInv, ViewType, TailRecord
<1>5. StampedInv' /\ CompiledInv'
  BY <1>1 DEF IInv, ViewInv, StampedInv, CompiledInv
<1>6. TailInv'
  <2>1. StreamEnabled' = StreamEnabled /\ url' = url /\ now' = now /\ compiled' = compiled
    BY <1>1 DEF StreamEnabled
  <2>2. \A q : Kept(compiled["table"], q)' = Kept(compiled["table"], q)
    BY <1>1 DEF Kept, OfTenant, Matches
  <2>3. tail'.phase = "off" <=> ~StreamEnabled'
    BY <1>3, <2>1 DEF IInv, ViewInv, TailInv
  <2>4. tail'.phase = "connecting" => tail'.rows = {}
    BY <1>3 DEF IInv, ViewInv, TailInv
  <2>5. StreamEnabled' => \A q \in tail'.rows : Kept(compiled["table"], q)
    BY <1>3, <2>1 DEF IInv, ViewInv, TailInv
  <2>6. ~IsRelative(url') => tail'.rows = {}
    BY <1>3, <2>1 DEF IInv, ViewInv, TailInv, StreamEnabled
  <2>7. ASSUME tail'.phase = "open"
        PROVE  /\ tail'.at <= now'
               /\ UsesRelativePreset(url') => compiled'["table"].to <= tail'.at
               /\ \A q \in table' \ unannounced' :
                     q.ts > tail'.at /\ Kept(compiled["table"], q) => q \in tail'.rows
    <3>1. tail.phase = "open"
      BY <1>3, <2>7
    <3>2. /\ tail.at <= now
          /\ UsesRelativePreset(url) => compiled["table"].to <= tail.at
          /\ \A q \in table \ unannounced :
                q.ts > tail.at /\ Kept(compiled["table"], q) => q \in tail.rows
      BY <3>1 DEF IInv, ViewInv, TailInv
    <3>. QED
      BY <1>1, <1>3, <2>1, <3>1, <3>2
  <2>. QED
    BY <2>1, <2>2, <2>3, <2>4, <2>5, <2>6, <2>7 DEF TailInv, Kept, OfTenant, Matches
<1>7. HistoryInv'
  BY <1>1, HistoryKept DEF IInv, ViewInv
<1>8. UserInv'
  BY <1>1, <1>5, InHand DEF IInv
<1>. QED
  BY <1>4, <1>5, <1>6, <1>7, <1>8 DEF IInv, ViewInv

(* A tail opens after the end of a relative window, and after every row     *)
(* there is was stamped.                                                    *)
LEMMA ConnectKeeps ==
    ASSUME IInv, Connect
    PROVE  IInv'
<1>1. /\ tail.phase = "connecting" /\ tail' = [tail EXCEPT !.phase = "open", !.at = now]
      /\ UNCHANGED <<now, url, live, compiled, ticker, drafts, typed, selected, clicks, table,
                     unannounced, history>>
  BY DEF Connect, pageVars, apiVars
<1>2. tail \in TailRecord /\ now \in Start..MaxNow /\ now \in Nat
  BY DEF IInv, ViewInv, ViewType
<1>3. tail' \in TailRecord /\ tail'.phase = "open" /\ tail'.at = now /\ tail'.rows = tail.rows
  BY <1>1, <1>2 DEF TailRecord
<1>4. ViewType'
  BY <1>1, <1>3 DEF IInv, ViewInv, ViewType, TailRecord
<1>5. StampedInv' /\ CompiledInv'
  BY <1>1 DEF IInv, ViewInv, StampedInv, CompiledInv
<1>6. UsesRelativePreset(url) => compiled["table"].to <= now
  <2>1. PICK t \in Start..now : compiled["table"] = CompileQuery(url, t)
    BY DEF IInv, ViewInv, CompiledInv, Views
  <2>2. t \in Nat /\ t <= now
    BY <1>2
  <2>. QED
    BY <1>2, <2>1, <2>2, CompiledTo
<1>7. tail.rows = {} /\ StreamEnabled
  BY <1>1 DEF IInv, ViewInv, TailInv
<1>8. \A r \in table : ~(r.ts > now)
  BY <1>2 DEF IInv, ViewInv, ViewType, StampedInv, Row
<1>9. TailInv'
  <2>1. StreamEnabled' = StreamEnabled
    BY <1>1 DEF StreamEnabled
  <2>. QED
    BY <1>1, <1>2, <1>3, <1>6, <1>7, <1>8, <2>1 DEF TailInv
<1>10. HistoryInv'
  BY <1>1, HistoryKept DEF IInv, ViewInv
<1>11. UserInv'
  BY <1>1, <1>5, InHand DEF IInv
<1>. QED
  BY <1>4, <1>5, <1>9, <1>10, <1>11 DEF IInv, ViewInv

(* A read holds what its query selects. *)
LEMMA FetchKeeps ==
    ASSUME IInv, NEW v \in Views, Fetch(compiled[v])
    PROVE  IInv'
<1> DEFINE asked == compiled[v]
           to    == IF asked.to = Unset THEN now ELSE asked.to
           from  == IF asked.from = Unset THEN now - DEFAULT_WINDOW ELSE asked.from
           new   == Read(asked)
<1>1. /\ Accepted(asked) /\ history' = (history \ Pages(asked)) \cup {new}
      /\ UNCHANGED <<now, url, live, compiled, ticker, drafts, typed, selected, clicks, table,
                     unannounced, tail>>
  BY DEF Fetch, pageVars
<1>2. asked \in Filter /\ now \in Nat /\ table \subseteq Row
  BY DEF IInv, ViewInv, ViewType
<1>3. to \in Nat /\ (asked.to # Unset => to = asked.to)
  BY <1>2 DEF Filter
<1>4. /\ new.key = asked /\ new.from = from /\ new.to = to /\ new.read = table
      /\ new.rows = {r \in table : Where(asked, ResolveTenantId(RbacHeader(asked)), from, to, r)}
  BY DEF Read
<1>5. \A r \in table : r \in new.rows <=> from <= r.ts /\ r.ts <= to /\ Kept(asked, r)
  <2> HIDE DEF asked, to, from, new
  <2>. QED
    BY <1>2, <1>4, WhereKeeps
<1> HIDE DEF asked, to, from, new
<1>6. HistoryInv'
  <2> SUFFICES ASSUME NEW e \in history'
               PROVE  /\ e.key \in Filter /\ e.rows \subseteq e.read /\ e.read \subseteq table
                      /\ Accepted(e.key) /\ e.to \in Nat
                      /\ e.key.to # Unset => e.to = e.key.to
                      /\ \A r \in e.read : r \in e.rows <=> /\ e.from <= r.ts /\ r.ts <= e.to
                                                            /\ Kept(e.key, r)
    BY <1>1 DEF HistoryInv, Kept, OfTenant, Matches
  <2>1. CASE e \in history
    BY <2>1 DEF IInv, ViewInv, HistoryInv
  <2>2. CASE e = new
    BY <1>1, <1>2, <1>3, <1>4, <1>5, <2>2
  <2>. QED
    BY <1>1, <2>1, <2>2
<1>7. ViewType' /\ StampedInv' /\ CompiledInv'
  BY <1>1 DEF IInv, ViewInv, ViewType, TailRecord, StampedInv, CompiledInv
<1>8. TailInv'
  BY <1>1 DEF IInv, ViewInv, TailInv, StreamEnabled, Kept, OfTenant, Matches
<1>9. UserInv'
  BY <1>1, <1>7, InHand DEF IInv
<1>. QED
  BY <1>6, <1>7, <1>8, <1>9 DEF IInv, ViewInv

-----------------------------------------------------------------------------
LEMMA NextKeeps == IInv /\ [Next]_vars => IInv'
<1> SUFFICES ASSUME IInv, [Next]_vars PROVE IInv'
  OBVIOUS
<1>1. CASE Advance
  BY <1>1, AdvanceKeeps
<1>2. CASE \E v \in Views : TickerFires(v) \/ Fetch(compiled[v])
  BY <1>2, TickerKeeps, FetchKeeps
<1>3. CASE \E i \in Inputs, text \in Typings : Type(i, text)
  BY <1>3, TypeKeeps
<1>4. CASE Submit \/ ClearAll \/ SelectRole \/ ToggleLive \/ CloseDrawer \/ Connect
  BY <1>4, SubmitKeeps, ClearAllKeeps, SelectRoleKeeps, ToggleLiveKeeps, CloseDrawerKeeps,
     ConnectKeeps
<1>5. CASE \E field \in FACET_FIELDS, value \in Values \cup {"service", "interceptor"},
              alt \in BOOLEAN : ClickFacet(field, value, alt)
  BY <1>5, ClickFacetKeeps
<1>6. CASE \E r \in Shown : OpenRow(r)
  BY <1>6, OpenRowKeeps
<1>7. CASE \E field \in FACET_FIELDS \cup {"recipient"} : Pivot(field)
  BY <1>7, PivotKeeps
<1>8. CASE \E t \in Tenants \cup {Unset} : SelectTenant(t)
  BY <1>8, SelectTenantKeeps
<1>9. CASE \E content \in Contents, ts \in {now - 1, now} : Write(content, ts)
  BY <1>9, WriteKeeps
<1>10. CASE \E r \in unannounced : Announce(r)
  BY <1>10, AnnounceKeeps
<1>11. CASE UNCHANGED vars
  <2>1. UNCHANGED <<now, url, live, compiled, ticker, drafts, typed, selected, clicks, table,
                    unannounced, history, tail>>
    BY <1>11 DEF vars
  <2>2. ViewInv'
    BY <2>1, ViewStays DEF IInv
  <2>3. UserInv'
    BY <2>1, <2>2, InHand DEF IInv, ViewInv
  <2>. QED
    BY <2>2, <2>3 DEF IInv
<1>. QED
  BY <1>1, <1>2, <1>3, <1>4, <1>5, <1>6, <1>7, <1>8, <1>9, <1>10, <1>11 DEF Next

LEMMA Invariance == Spec => []IInv
<1>. QED
  BY InitView, NextKeeps, PTL DEF Spec

-----------------------------------------------------------------------------
(* Every variable keeps its type, whatever link opens the page and whatever *)
(* is logged and clicked: a query never starts before the epoch, a history  *)
(* and a tail hold rows of the table.                                       *)
THEOREM ViewTypeCorrect == Spec => []TypeOK
<1>1. IInv => TypeOK
  BY DEF IInv, ViewInv, ViewType, HistoryInv, UserInv, TailRecord, TypeOK
<1>. QED
  BY <1>1, Invariance, PTL

(* query-bar.tsx: an input nobody is typing in says what the URL filters    *)
(* for, although its effect runs only when a parameter changes and submit   *)
(* writes the URL from the inputs.                                          *)
THEOREM DraftsFollowUrl == Spec => []DraftsMatchUrl
<1>1. IInv => DraftsMatchUrl
  BY DEF IInv, UserInv
<1>. QED
  BY <1>1, Invariance, PTL

(* What one link keeps of a row that the page shows now: the filters it has *)
(* passed stay, the one the link adds is taken from the row.                *)
LEMMA Narrows ==
    ASSUME url \in Url, NEW r \in Row, NEW field \in Fields \cup {"source"}, NEW t,
           Kept(CompileQuery(url, t), r), Accepted(CompileQuery(url, t)), NEW s
    PROVE  LET asked == CompileQuery(With(url, field, ValueOf(r, field)), s) IN
           /\ Kept(asked, r)
           /\ Accepted(asked) \/ (field = "purpose" /\ ValueOf(r, field) \notin AuditPurposes)
<1> DEFINE u     == With(url, field, ValueOf(r, field))
           asked == CompileQuery(u, s)
           old   == CompileQuery(url, t)
<1>1. /\ \A c \in Fields : asked.fields[c] = IF c \in {"channel", "verb"} THEN Known(u.fields[c])
                                                                       ELSE u.fields[c]
      /\ asked.tenant = u.tenantId /\ asked.q = u.q /\ asked.source = u.source
  BY DEF CompileQuery
<1>2. /\ \A c \in Fields : old.fields[c] = IF c \in {"channel", "verb"} THEN Known(url.fields[c])
                                                                     ELSE url.fields[c]
      /\ old.tenant = url.tenantId /\ old.q = url.q /\ old.source = url.source
  BY DEF CompileQuery
<1>3. /\ url.fields \in UrlFields /\ r.fields \in [Fields -> Values] /\ "purpose" \in Fields
  BY DEF Url, Row, Inputs
<1>4. /\ u.tenantId = url.tenantId /\ u.q = url.q
      /\ u.source = IF field = "source" THEN SourceOf(r.fields["provider"]) ELSE url.source
      /\ \A c \in Fields : u.fields[c] = IF field # "source" /\ c = field THEN r.fields[c]
                                                                         ELSE url.fields[c]
  <2>1. CASE field = "source"
    BY <2>1 DEF With, ValueOf, Url
  <2>2. CASE field # "source"
    <3> DEFINE g == [url.fields EXCEPT ![field] = r.fields[field]]
    <3>1. u = [url EXCEPT !.fields = g]
      BY <2>2 DEF With, ValueOf
    <3>2. \A c \in Fields : g[c] = IF c = field THEN r.fields[c] ELSE url.fields[c]
      BY <1>3 DEF UrlFields
    <3> HIDE DEF g, u
    <3>. QED
      BY <2>2, <3>1, <3>2 DEF Url
  <2>. QED
    BY <2>1, <2>2
<1>5. \A c \in Fields : Known(r.fields[c]) = r.fields[c]
  BY <1>3 DEF Known
<1>6. \A c \in Fields : asked.fields[c] = IF field # "source" /\ c = field THEN r.fields[c]
                                                                          ELSE old.fields[c]
  BY <1>1, <1>2, <1>4, <1>5
<1>7. /\ asked.tenant = old.tenant /\ asked.q = old.q
      /\ asked.source = IF field = "source" THEN SourceOf(r.fields["provider"]) ELSE old.source
  BY <1>1, <1>2, <1>4
<1>8. Kept(old, r) /\ Accepted(old)
  OBVIOUS
<1>9. field # "source" => ValueOf(r, field) = r.fields[field]
  BY DEF ValueOf
<1> HIDE DEF asked, old, u
<1>10. Kept(asked, r)
  BY <1>6, <1>7, <1>8 DEF Kept, OfTenant, RbacHeader, Matches, SourceOf
<1>11. Accepted(asked) \/ (field = "purpose" /\ ValueOf(r, field) \notin AuditPurposes)
  BY <1>3, <1>6, <1>8, <1>9, AcceptedIff
<1>. QED
  BY <1>10, <1>11 DEF asked, u

(* A bar of the Overview filters for a purpose and names no tenant. *)
LEMMA BarKeeps ==
    ASSUME NEW r \in Row, r.tenant = "default", NEW s
    PROVE  LET asked == CompileQuery(BarLink(r.fields["purpose"]), s) IN
           /\ Kept(asked, r)
           /\ Accepted(asked) \/ r.fields["purpose"] \notin AuditPurposes
<1> DEFINE v     == r.fields["purpose"]
           u     == BarLink(v)
           asked == CompileQuery(u, s)
<1>1. /\ u.tenantId = Unset /\ u.q = Unset /\ u.source = Unset
      /\ \A c \in Fields : u.fields[c] = IF c = "purpose" THEN v ELSE Unset
  BY DEF BarLink, ExplorerHref, BlankUrl
<1>2. /\ \A c \in Fields : asked.fields[c] = IF c \in {"channel", "verb"} THEN Known(u.fields[c])
                                                                       ELSE u.fields[c]
      /\ asked.tenant = u.tenantId /\ asked.q = u.q /\ asked.source = u.source
  BY DEF CompileQuery
<1>3. Known(Unset) = Unset /\ "purpose" \in Fields
  BY DEF Known, Inputs
<1>4. \A c \in Fields : asked.fields[c] = IF c = "purpose" THEN v ELSE Unset
  BY <1>1, <1>2, <1>3
<1>5. asked.tenant = Unset /\ asked.q = Unset /\ asked.source = Unset
  BY <1>1, <1>2
<1> HIDE DEF asked, u
<1>6. Kept(asked, r)
  BY <1>4, <1>5 DEF Kept, OfTenant, RbacHeader, ResolveTenantId, Matches
<1>7. Accepted(asked) \/ v \notin AuditPurposes
  BY <1>3, <1>4, AcceptedIff
<1>. QED
  BY <1>6, <1>7 DEF asked, u

(* facet-rail.tsx, detail-drawer.tsx, top-bar.tsx: a click on a counted     *)
(* value, on a pivot of the row in the drawer or on a bar narrows to a      *)
(* query that still keeps the row, and that the API answers but for a       *)
(* purpose outside its schema -- although the link is built of a URL and a  *)
(* history that the user and the intervals change meanwhile.                *)
THEOREM NarrowingKeeps == Spec => []NarrowingKeepsRows
<1>1. IInv => NarrowingKeepsRows
  <2> SUFFICES ASSUME IInv, NEW n \in Narrowings
               PROVE  LET asked == CompileQuery(n.to, now) IN
                      /\ Kept(asked, n.row)
                      /\ \/ Accepted(asked)
                         \/ n.field = "purpose" /\ ValueOf(n.row, "purpose") \notin AuditPurposes
    BY DEF NarrowingKeepsRows, Kept
  <2> DEFINE Goal(m) == LET asked == CompileQuery(m.to, now) IN
                        /\ Kept(asked, m.row)
                        /\ \/ Accepted(asked)
                           \/ m.field = "purpose" /\ ValueOf(m.row, "purpose") \notin AuditPurposes
             Narrow(r, field) == Link(With(url, field, ValueOf(r, field)), r, field)
  <2>1. url \in Url /\ ViewInv
    BY DEF IInv, ViewInv, ViewType
  <2>2. ASSUME NEW r \in Row, NEW field \in FACET_FIELDS \cup {"recipient"}, NEW t,
               Kept(CompileQuery(url, t), r), Accepted(CompileQuery(url, t))
        PROVE  Goal(Narrow(r, field))
    <3>1. field \in Fields \cup {"source"}
      BY FacetField
    <3>. QED
      BY <2>1, <2>2, <3>1, Narrows DEF Link
  <2>3. ASSUME NEW r \in RowsOf(compiled["rail"]), NEW field \in FACET_FIELDS
        PROVE  Goal(Narrow(r, field))
    <3>1. PICK t \in Start..now : compiled["rail"] = CompileQuery(url, t)
      BY <2>1 DEF ViewInv, CompiledInv, Views
    <3>2. r \in Row /\ Kept(compiled["rail"], r) /\ Accepted(compiled["rail"])
      BY <2>1, HistoryRows
    <3> HIDE DEF Goal, Narrow
    <3>. QED
      BY <2>2, <3>1, <3>2
  <2>4. ASSUME selected # NoRow, NEW field \in Pivots(selected)
        PROVE  Goal(Narrow(selected, field))
    <3>1. PICK t \in Start..now : compiled["table"] = CompileQuery(url, t)
      BY <2>1 DEF ViewInv, CompiledInv, Views
    <3>2. Accepted(compiled["table"]) /\ Kept(compiled["table"], selected) /\ selected \in Row
      BY <2>1, <2>4 DEF IInv, UserInv, SelectedInv, ViewInv, ViewType
    <3>3. field \in FACET_FIELDS \cup {"recipient"}
      BY DEF Pivots
    <3> HIDE DEF Goal, Narrow
    <3>. QED
      BY <2>2, <3>1, <3>2, <3>3
  <2>5. ASSUME NEW r \in RowsOf(compiled["rail"]), r.tenant = "default"
        PROVE  Goal(Link(BarLink(r.fields["purpose"]), r, "purpose"))
    <3>1. r \in Row
      BY <2>1, HistoryRows
    <3>2. ValueOf(r, "purpose") = r.fields["purpose"]
      BY DEF ValueOf
    <3>. QED
      BY <2>5, <3>1, <3>2, BarKeeps DEF Link
  <2>6. \/ \E r \in RowsOf(compiled["rail"]), f \in FACET_FIELDS : n = Narrow(r, f)
        \/ selected # NoRow /\ \E f \in Pivots(selected) : n = Narrow(selected, f)
        \/ \E r \in RowsOf(compiled["rail"]) :
              r.tenant = "default" /\ n = Link(BarLink(r.fields["purpose"]), r, "purpose")
    <3> DEFINE counted == RowsOf(compiled["rail"])
               facets == {{Narrow(r, f) : f \in {g \in FACET_FIELDS :
                                                    ValueOf(r, g) \in DOMAIN Facets(g)}} :
                             r \in counted}
               pivots == IF selected = NoRow THEN {} ELSE {Narrow(selected, f) : f \in Pivots(selected)}
               bars == {Link(BarLink(r.fields["purpose"]), r, "purpose") :
                          r \in {q \in counted : /\ q.fields["purpose"] \in TopBar("purpose")
                                                 /\ q.tenant = "default"}}
    <3>1. Narrowings = (UNION facets) \cup pivots \cup bars
      BY DEF Narrowings
    <3> HIDE DEF Goal, Narrow
    <3>2. n \in (UNION facets) => \E r \in counted, f \in FACET_FIELDS : n = Narrow(r, f)
      <4> HIDE DEF counted
      <4>. QED
        OBVIOUS
    <3>3. n \in pivots => selected # NoRow /\ \E f \in Pivots(selected) : n = Narrow(selected, f)
      OBVIOUS
    <3>4. n \in bars =>
            \E r \in counted :
               r.tenant = "default" /\ n = Link(BarLink(r.fields["purpose"]), r, "purpose")
      <4> HIDE DEF counted
      <4>. QED
        OBVIOUS
    <3>5. n \in Narrowings
      OBVIOUS
    <3> HIDE DEF facets, pivots, bars
    <3>6. n \in (UNION facets) \/ n \in pivots \/ n \in bars
      BY <3>1, <3>5
    <3>. QED
      BY <3>2, <3>3, <3>4, <3>6
  <2>7. Goal(n)
    <3> HIDE DEF Goal, Narrow
    <3>. QED
      BY <2>3, <2>4, <2>5, <2>6
  <2>. QED
    BY <2>7
<1>. QED
  BY <1>1, Invariance, PTL

(* use-audit-query.ts, use-audit-stream.ts: a row of the table's query that *)
(* is on neither side of the seam was outside the history's window or       *)
(* committed after the read, and stamped before the tail opened or is still *)
(* to be announced.  The window's rounded end leaves no other gap.          *)
THEOREM Missing == Spec => []MissingIsExplained
<1>1. IInv => MissingIsExplained
  <2> DEFINE asked == compiled["table"]
  <2> SUFFICES ASSUME IInv, NEW e \in Pages(asked), NEW r \in table \ Shown,
                      Kept(asked, r), e.from <= r.ts
               PROVE  /\ r.ts > e.to \/ r \notin e.read
                      /\ tail.phase # "open" \/ r.ts <= tail.at \/ r \in unannounced
    BY DEF MissingIsExplained, Kept
  <2>1. e \in history /\ e.key = asked /\ r \notin e.rows /\ r \notin LiveRows
    BY DEF Shown, RowsOf, Pages
  <2>2. r.ts \in Nat /\ e.to \in Nat /\ tail.at \in Nat
    BY <2>1 DEF IInv, ViewInv, ViewType, HistoryInv, TailRecord, Row
  <2>3. r \in e.read => ~(e.from <= r.ts /\ r.ts <= e.to /\ Kept(e.key, r))
    BY <2>1 DEF IInv, ViewInv, HistoryInv
  <2>4. r.ts > e.to \/ r \notin e.read
    <3> HIDE DEF asked
    <3>. QED
      BY <2>1, <2>2, <2>3
  <2>5. ASSUME tail.phase = "open"
        PROVE  r.ts <= tail.at \/ r \in unannounced
    <3>1. StreamEnabled
      BY <2>5 DEF IInv, ViewInv, TailInv
    <3>2. r \notin tail.rows
      BY <2>1, <3>1 DEF StreamEnabled, LiveRows
    <3>3. r \in table \ unannounced => ~(r.ts > tail.at)
      BY <2>5, <3>2 DEF IInv, ViewInv, TailInv
    <3>. QED
      BY <2>2, <3>3
  <2>. QED
    BY <2>4, <2>5
<1>. QED
  BY <1>1, Invariance, PTL

(* explorer-content.tsx: in a relative window a row shown by both history   *)
(* and tail was stamped before the tail opened: the window's rounded end    *)
(* never lies beyond that instant, whichever interval fired since.          *)
THEOREM Twice == Spec => []TwiceIsExplained
<1>1. IInv => TwiceIsExplained
  <2> DEFINE asked == compiled["table"]
  <2> SUFFICES ASSUME IInv, UsesRelativePreset(url),
                      NEW r \in RowsOf(asked) \cap LiveRows
               PROVE  r.ts <= tail.at
    BY DEF TwiceIsExplained
  <2>1. live /\ r \in tail.rows
    BY DEF LiveRows
  <2>2. StreamEnabled
    BY <2>1 DEF StreamEnabled, IsRelative, UsesRelativePreset
  <2>3. tail.phase = "open"
    BY <2>1, <2>2 DEF IInv, ViewInv, ViewType, TailInv, TailRecord
  <2>4. asked.to <= tail.at
    BY <2>3 DEF IInv, ViewInv, TailInv
  <2>5. PICK e \in history : e.key = asked /\ r \in e.rows
    BY DEF RowsOf, Pages
  <2>6. PICK t \in Start..now : asked = CompileQuery(url, t)
    BY DEF IInv, ViewInv, CompiledInv, Views
  <2>7. asked.to \in Nat
    <3>1. t \in Nat
      BY DEF IInv, ViewInv, ViewType
    <3>. QED
      BY <2>6, <3>1, CompiledTo
  <2>8. e.to = asked.to /\ r.ts <= e.to
    <3>1. asked.to # Unset
      BY <2>7
    <3>2. e.rows \subseteq e.read /\ (e.key.to # Unset => e.to = e.key.to)
      BY <2>5 DEF IInv, ViewInv, HistoryInv
    <3>3. r.ts <= e.to
      BY <2>5, <3>2 DEF IInv, ViewInv, HistoryInv
    <3>. QED
      BY <2>5, <3>1, <3>2, <3>3
  <2>9. r.ts \in Nat /\ tail.at \in Nat
    BY <2>1 DEF IInv, ViewInv, ViewType, TailRecord, Row
  <2> HIDE DEF asked
  <2>. QED
    BY <2>4, <2>7, <2>8, <2>9
<1>. QED
  BY <1>1, Invariance, PTL

-----------------------------------------------------------------------------
(* How far the windows of table and rail lag the clock, and each other.     *)

(* The window of a preset: its end is less than a quantum old when it is    *)
(* compiled.                                                                *)
LEMMA PresetWindow ==
    ASSUME NEW u, NEW t \in Nat, UsesRelativePreset(u)
    PROVE  LET q == CompileQuery(u, t) IN
           /\ q.to \in Nat /\ q.to <= t /\ t < q.to + NOW_QUANTUM
           /\ q.to - q.from = RANGE_MS[u.range]
<1> DEFINE q == CompileQuery(u, t)
           d == t \div NOW_QUANTUM
<1>1. q.to = Quantized(t) /\ q.from = Quantized(t) - RANGE_MS[u.range]
  BY DEF CompileQuery, Window, ResolveWindow
<1>2. RANGE_MS[u.range] \in Nat
  BY DEF UsesRelativePreset
<1>3. d \in Nat /\ d * NOW_QUANTUM \in Nat /\ t < d * NOW_QUANTUM + NOW_QUANTUM
  OBVIOUS
<1>4. Quantized(t) = d * NOW_QUANTUM
  BY DEF Quantized
<1>5. Quantized(t) \in Nat /\ Quantized(t) <= t
  BY QuantizedBounds
<1> HIDE DEF q, d
<1>6. q.to \in Nat /\ q.to <= t /\ t < q.to + NOW_QUANTUM
  BY <1>1, <1>3, <1>4, <1>5
<1>7. q.to - q.from = RANGE_MS[u.range]
  BY <1>1, <1>2, <1>5
<1>. QED
  BY <1>6, <1>7 DEF q

(* A view of a preset was compiled at some instant t, after which its       *)
(* interval fires within a quantum, and the clock is never past it by more  *)
(* than its lateness.                                                       *)
Fresh(v) ==
    UsesRelativePreset(url) =>
        /\ ticker[v] \in Int /\ now <= ticker[v] + LATE
        /\ \E t \in Start..now : compiled[v] = CompileQuery(url, t) /\ ticker[v] <= t + NOW_QUANTUM

TickInv == \A v \in Views : Fresh(v)

(* What a step may do to the windows: one click changes the URL and not its *)
(* window, the role changes, one interval fires, the clock advances, or     *)
(* nothing.                                                                 *)
LEMMA WindowSteps ==
    ASSUME IInv, [Next]_vars
    PROVE  \/ \E u : SetQuery(u) /\ SameWindow(u)
           \/ \E v \in Views : TickerFires(v)
           \/ Advance \/ SelectRole
           \/ UNCHANGED <<now, url, compiled, ticker>>
<1>1. url \in Url
  BY DEF IInv, ViewInv, ViewType
<1>2. ASSUME NEW field, NEW value PROVE SameWindow(With(url, field, value))
  BY <1>1 DEF With, SameWindow, Url
<1>3. CASE Submit
  <2> DEFINE g == [f \in Fields |-> IF f \in Inputs THEN drafts[f] ELSE url.fields[f]]
             u == [url EXCEPT !.fields = g]
  <2>1. SetQuery(u)
    BY <1>3 DEF Submit
  <2>2. SameWindow(u)
    <3> HIDE DEF g
    <3>. QED
      BY <1>1 DEF SameWindow, Url
  <2> HIDE DEF u
  <2>. QED
    BY <2>1, <2>2
<1>4. CASE ClearAll
  <2>1. SetQuery(Cleared(url)) /\ SameWindow(Cleared(url))
    BY <1>1, <1>4 DEF ClearAll, Cleared, SameWindow, Url
  <2>. QED
    BY <2>1
<1>5. ASSUME NEW field, NEW value, NEW alt, ClickFacet(field, value, alt)
      PROVE  \E u : SetQuery(u) /\ SameWindow(u)
  BY <1>2, <1>5 DEF ClickFacet
<1>6. ASSUME NEW field, Pivot(field) PROVE \E u : SetQuery(u) /\ SameWindow(u)
  BY <1>2, <1>6 DEF Pivot
<1>7. ASSUME NEW t, SelectTenant(t) PROVE \E u : SetQuery(u) /\ SameWindow(u)
  <2>1. SetQuery([url EXCEPT !.tenantId = t]) /\ SameWindow([url EXCEPT !.tenantId = t])
    BY <1>1, <1>7 DEF SelectTenant, SameWindow, Url
  <2>. QED
    BY <2>1
<1>8. CASE \/ ToggleLive \/ CloseDrawer \/ Connect \/ UNCHANGED vars
           \/ (\E v \in Views : Fetch(compiled[v]))
           \/ (\E i \in Inputs, text \in Typings : Type(i, text))
           \/ (\E r \in Shown : OpenRow(r))
           \/ (\E content \in Contents, ts \in {now - 1, now} : Write(content, ts))
           \/ (\E r \in unannounced : Announce(r))
  BY <1>8 DEF ToggleLive, CloseDrawer, Connect, Fetch, Type, OpenRow, Write, Announce,
              pageVars, vars
<1>. QED
  BY <1>3, <1>4, <1>5, <1>6, <1>7, <1>8 DEF Next

LEMMA TickKeeps == IInv /\ TickInv /\ [Next]_vars => TickInv'
<1> SUFFICES ASSUME IInv, TickInv, [Next]_vars, NEW v \in Views, UsesRelativePreset(url')
             PROVE  /\ ticker'[v] \in Int /\ now' <= ticker'[v] + LATE
                    /\ \E t \in Start..now' : /\ compiled'[v] = CompileQuery(url', t)
                                              /\ ticker'[v] <= t + NOW_QUANTUM
  BY DEF TickInv, Fresh
<1>1. /\ now \in Nat /\ Start \in Nat /\ Start <= now /\ now \in Start..now
      /\ LATE \in Nat /\ NOW_QUANTUM \in Nat /\ None \notin Int
      /\ ticker \in [Views -> Int \cup {None}] /\ compiled \in [Views -> Filter]
  BY DEF IInv, ViewInv, ViewType
<1>2. ASSUME UsesRelativePreset(url)
      PROVE  /\ ticker[v] \in Int /\ ticker[v] # None /\ now <= ticker[v] + LATE
             /\ \E t \in Start..now : compiled[v] = CompileQuery(url, t) /\ ticker[v] <= t + NOW_QUANTUM
             /\ ticker[v] <= now + NOW_QUANTUM
  <2>1. /\ ticker[v] \in Int /\ now <= ticker[v] + LATE
        /\ \E t \in Start..now : compiled[v] = CompileQuery(url, t) /\ ticker[v] <= t + NOW_QUANTUM
    BY <1>2 DEF TickInv, Fresh
  <2>2. PICK t \in Start..now : ticker[v] <= t + NOW_QUANTUM
    BY <2>1
  <2>3. ticker[v] <= now + NOW_QUANTUM /\ ticker[v] # None
    BY <1>1, <2>1, <2>2
  <2>. QED
    BY <2>1, <2>3
<1>3. ASSUME NEW u, SetQuery(u), SameWindow(u) PROVE
        /\ ticker'[v] \in Int /\ now' <= ticker'[v] + LATE
        /\ \E t \in Start..now' : compiled'[v] = CompileQuery(url', t) /\ ticker'[v] <= t + NOW_QUANTUM
  <2>1. /\ url' = u /\ ticker' = ticker /\ now' = now
        /\ u = url => compiled' = compiled
        /\ u # url => compiled' = [w \in Views |-> CompileQuery(u, now)]
    BY <1>3 DEF SetQuery
  <2>2. UsesRelativePreset(url)
    BY <1>3, <2>1, WindowKept
  <2>3. CASE u = url
    BY <1>2, <2>1, <2>2, <2>3
  <2>4. CASE u # url
    BY <1>1, <1>2, <2>1, <2>2, <2>4
  <2>. QED
    BY <2>3, <2>4
<1>4. ASSUME NEW w \in Views, TickerFires(w) PROVE
        /\ ticker'[v] \in Int /\ now' <= ticker'[v] + LATE
        /\ \E t \in Start..now' : compiled'[v] = CompileQuery(url', t) /\ ticker'[v] <= t + NOW_QUANTUM
  <2>1. /\ url' = url /\ now' = now /\ now >= ticker[w]
        /\ ticker' = [ticker EXCEPT ![w] = @ + NOW_QUANTUM]
        /\ compiled' = [compiled EXCEPT ![w] = CompileQuery(url, now)]
    BY <1>4 DEF TickerFires
  <2>2. UsesRelativePreset(url)
    BY <2>1
  <2>3. CASE v = w
    <3>1. ticker'[v] = ticker[v] + NOW_QUANTUM /\ compiled'[v] = CompileQuery(url, now)
      BY <1>1, <2>1, <2>3
    <3>2. ticker'[v] \in Int /\ now <= ticker'[v] + LATE /\ ticker'[v] <= now + NOW_QUANTUM
      BY <1>1, <1>2, <2>1, <2>2, <2>3, <3>1
    <3>. QED
      BY <1>1, <2>1, <3>1, <3>2
  <2>4. CASE v # w
    BY <1>1, <1>2, <2>1, <2>2, <2>4
  <2>. QED
    BY <2>3, <2>4
<1>5. CASE Advance
  <2>1. /\ now' = now + 1 /\ (ticker[v] # None => now < ticker[v] + LATE)
        /\ UNCHANGED <<url, compiled, ticker>>
    BY <1>5 DEF Advance, pageVars
  <2>2. /\ ticker[v] \in Int /\ now < ticker[v] + LATE
        /\ \E t \in Start..now : compiled[v] = CompileQuery(url, t) /\ ticker[v] <= t + NOW_QUANTUM
    BY <1>2, <2>1
  <2>3. \A t \in Start..now : t \in Start..now'
    BY <1>1, <2>1
  <2>4. now' <= ticker[v] + LATE
    BY <1>1, <2>1, <2>2
  <2>. QED
    BY <2>1, <2>2, <2>3, <2>4
<1>6. CASE SelectRole
  <2>1. /\ compiled' = [w \in Views |-> CompileQuery(url, now)]
        /\ UNCHANGED <<now, url, ticker>>
    BY <1>6 DEF SelectRole
  <2>2. compiled'[v] = CompileQuery(url', now) /\ UsesRelativePreset(url)
    BY <2>1
  <2>. QED
    BY <1>1, <1>2, <2>1, <2>2
<1>7. CASE UNCHANGED <<now, url, compiled, ticker>>
  BY <1>2, <1>7
<1>. QED
  BY <1>3, <1>4, <1>5, <1>6, <1>7, WindowSteps

ViewsKeepUp ==
    UsesRelativePreset(url) =>
        \A v, w \in Views :
            /\ compiled[v].to <= now /\ now < compiled[v].to + 2 * NOW_QUANTUM + LATE
            /\ compiled[v].to - compiled[v].from = RANGE_MS[url.range]
            /\ compiled[v].to - compiled[w].to < 2 * NOW_QUANTUM + LATE

(* filters.ts ("refresh on a bounded cadence"), for the Explorer: while a   *)
(* preset is chosen the windows of table and rail never lag the clock by    *)
(* two quanta and an interval's lateness, hence not each other: what a      *)
(* facet counts and what the table lists are as far apart at most, although *)
(* each of the two memos has an interval of its own.                        *)
THEOREM ViewsKeepUpTogether == Spec => []ViewsKeepUp
<1>1. Init => TickInv
  <2> SUFFICES ASSUME Init, NEW v \in Views, UsesRelativePreset(url)
               PROVE  /\ ticker[v] \in Int /\ now <= ticker[v] + LATE
                      /\ \E t \in Start..now : /\ compiled[v] = CompileQuery(url, t)
                                               /\ ticker[v] <= t + NOW_QUANTUM
    BY DEF TickInv, Fresh
  <2>1. now = Start /\ ticker[v] = Start + NOW_QUANTUM /\ compiled[v] = CompileQuery(url, Start)
    BY DEF Init
  <2>2. Start \in Nat /\ LATE \in Nat /\ NOW_QUANTUM \in Nat
    OBVIOUS
  <2>. QED
    BY <2>1, <2>2
<1>2. IInv /\ TickInv => ViewsKeepUp
  <2>1. ASSUME IInv, TickInv, UsesRelativePreset(url), NEW v \in Views
        PROVE  /\ compiled[v].to \in Nat /\ compiled[v].to <= now
               /\ now < compiled[v].to + 2 * NOW_QUANTUM + LATE
               /\ compiled[v].to - compiled[v].from = RANGE_MS[url.range]
    <3>1. /\ now \in Nat /\ Start \in Nat /\ LATE \in Nat /\ NOW_QUANTUM \in Nat
          /\ ticker[v] \in Int /\ now <= ticker[v] + LATE
      BY <2>1 DEF IInv, ViewInv, ViewType, TickInv, Fresh
    <3>2. PICK t \in Start..now : compiled[v] = CompileQuery(url, t) /\ ticker[v] <= t + NOW_QUANTUM
      BY <2>1 DEF TickInv, Fresh
    <3>3. t \in Nat /\ t <= now
      BY <3>1
    <3>4. /\ compiled[v].to \in Nat /\ compiled[v].to <= t /\ t < compiled[v].to + NOW_QUANTUM
          /\ compiled[v].to - compiled[v].from = RANGE_MS[url.range]
      BY <2>1, <3>2, <3>3, PresetWindow
    <3> DEFINE end == compiled[v].to
    <3>5. end <= now /\ now < end + 2 * NOW_QUANTUM + LATE
      <4>1. end \in Nat /\ end <= t /\ t < end + NOW_QUANTUM
        BY <3>4
      <4> HIDE DEF end
      <4>. QED
        BY <3>1, <3>2, <3>3, <4>1
    <3>. QED
      BY <3>4, <3>5
  <2> SUFFICES ASSUME IInv, TickInv, UsesRelativePreset(url), NEW v \in Views, NEW w \in Views
               PROVE  /\ compiled[v].to <= now /\ now < compiled[v].to + 2 * NOW_QUANTUM + LATE
                      /\ compiled[v].to - compiled[v].from = RANGE_MS[url.range]
                      /\ compiled[v].to - compiled[w].to < 2 * NOW_QUANTUM + LATE
    BY DEF ViewsKeepUp
  <2> DEFINE a == compiled[v].to
             b == compiled[w].to
  <2>2. a \in Nat /\ b \in Nat /\ a <= now /\ now < b + 2 * NOW_QUANTUM + LATE
    BY <2>1
  <2>3. now \in Nat /\ LATE \in Nat /\ NOW_QUANTUM \in Nat
    BY DEF IInv, ViewInv, ViewType
  <2>4. a - b < 2 * NOW_QUANTUM + LATE
    <3> HIDE DEF a, b
    <3>. QED
      BY <2>2, <2>3
  <2>. QED
    BY <2>1, <2>4
<1>. QED
  BY <1>1, <1>2, TickKeeps, InitView, NextKeeps, PTL DEF Spec

-----------------------------------------------------------------------------
(* The Overview's charts take their window from the same clock and address  *)
(* bar, by a memo and an interval of their own.                             *)
USE OverviewAssumption

(* A chart of a preset was compiled at some instant t, after which the      *)
(* interval fires within a quantum, and the clock is never past it by more  *)
(* than its lateness.                                                       *)
ChartInv ==
    /\ now \in Nat
    /\ interval \in Int \cup {None}
    /\ UsesRelativePreset(url) =>
         /\ interval # None
         /\ now <= interval + LATE
         /\ \E t \in 0..now : query = CompileQuery(url, t) /\ interval <= t + NOW_QUANTUM

(* Every way the window can be compiled anew leaves the interval due within *)
(* a quantum of it.                                                         *)
LEMMA ChartKeeps ==
    ASSUME ChartInv, [OverviewNext]_overviewVars
    PROVE  ChartInv'
<1>1. now \in Nat /\ LATE \in Nat /\ NOW_QUANTUM \in Nat /\ None \notin Int
  BY DEF ChartInv
<1>2. ASSUME ClockAdvances PROVE ChartInv'
  <2>1. /\ now' = now + 1 /\ (interval # None => now < interval + LATE)
        /\ url' = url /\ query' = query /\ interval' = interval
    BY <1>2 DEF ClockAdvances
  <2>2. interval # None => now' <= interval + LATE
    BY <1>1, <2>1 DEF ChartInv
  <2>3. \A t \in 0..now : t \in 0..now'
    BY <1>1, <2>1
  <2>4. now' \in Nat
    BY <1>1, <2>1
  <2>. QED
    BY <2>1, <2>2, <2>3, <2>4 DEF ChartInv, UsesRelativePreset
<1>3. ASSUME SetNowTick PROVE ChartInv'
  <2>1. /\ interval # None /\ now >= interval /\ interval' = interval + NOW_QUANTUM
        /\ query' = CompileQuery(url, now) /\ now' = now /\ url' = url
    BY <1>3 DEF SetNowTick
  <2>2. interval' \in Int /\ interval' <= now + NOW_QUANTUM
    BY <1>1, <2>1 DEF ChartInv
  <2>3. UsesRelativePreset(url) => now <= interval' + LATE
    BY <1>1, <2>1 DEF ChartInv
  <2>4. now \in 0..now
    BY <1>1
  <2>5. interval' # None
    BY <1>1, <2>2
  <2>. QED
    BY <1>1, <2>1, <2>2, <2>3, <2>4, <2>5 DEF ChartInv, UsesRelativePreset
<1>4. ASSUME NEW u, interval' = now + NOW_QUANTUM \/ interval' = None,
             UsesRelativePreset(u) => interval' = now + NOW_QUANTUM,
             url' = u, query' = CompileQuery(u, now), now' = now
      PROVE  ChartInv'
  <2>1. UsesRelativePreset(u) => /\ interval' \in Int /\ now <= interval' + LATE
                                 /\ interval' <= now + NOW_QUANTUM
    BY <1>1, <1>4
  <2>2. interval' \in Int \cup {None} /\ now \in 0..now
    BY <1>1, <1>4
  <2>3. UsesRelativePreset(u) => interval' # None
    BY <1>1, <2>1
  <2>. QED
    BY <1>1, <1>4, <2>1, <2>2, <2>3 DEF ChartInv, UsesRelativePreset
<1>5. ASSUME NEW u \in Urls, ChangeUrl(u) PROVE ChartInv'
  <2>1. url' = u /\ query' = CompileQuery(u, now) /\ now' = now
    BY <1>5 DEF ChangeUrl
  <2>2. interval' = IF ~UsesRelativePreset(u) THEN None
                    ELSE IF UsesRelativePreset(url) THEN interval ELSE now + NOW_QUANTUM
    BY <1>5 DEF ChangeUrl, TickerOf, UsesRelativePreset
  <2>3. CASE UsesRelativePreset(u) /\ UsesRelativePreset(url)
    <3>1. interval' = interval
      BY <2>2, <2>3
    <3>2. PICK t \in 0..now : interval <= t + NOW_QUANTUM
      BY <2>3 DEF ChartInv
    <3>3. /\ interval \in Int /\ now <= interval + LATE /\ interval # None
          /\ interval <= now + NOW_QUANTUM /\ now \in 0..now
      BY <1>1, <2>3, <3>2 DEF ChartInv
    <3>. QED
      BY <1>1, <2>1, <3>1, <3>3 DEF ChartInv
  <2>4. CASE ~(UsesRelativePreset(u) /\ UsesRelativePreset(url))
    BY <1>4, <2>1, <2>2, <2>4
  <2>. QED
    BY <2>3, <2>4
<1>6. ASSUME NEW u \in Urls, Mount(u) PROVE ChartInv'
  <2>1. /\ url' = u /\ query' = CompileQuery(u, now) /\ now' = now
        /\ interval' = IF UsesRelativePreset(u) THEN now + NOW_QUANTUM ELSE None
    BY <1>6 DEF Mount, UsesRelativePreset
  <2>. QED
    BY <1>4, <2>1
<1>7. ASSUME UNCHANGED <<now, url, query, interval>> PROVE ChartInv'
  BY <1>7 DEF ChartInv, UsesRelativePreset
<1>8. ASSUME NEW content, NEW ts, LogRow(content, ts) PROVE ChartInv'
  BY <1>7, <1>8 DEF LogRow
<1>9. ASSUME NEW groupBy, Ask(groupBy) PROVE ChartInv'
  BY <1>7, <1>9 DEF Ask
<1>10. ASSUME NEW key, Answer(key) \/ Fail(key) PROVE ChartInv'
  BY <1>7, <1>10 DEF Answer, Fail
<1>11. ASSUME UNCHANGED overviewVars PROVE ChartInv'
  BY <1>7, <1>11 DEF overviewVars
<1>. QED
  BY <1>2, <1>3, <1>5, <1>6, <1>8, <1>9, <1>10, <1>11 DEF OverviewNext

(* filters.ts ("refresh on a bounded cadence"): a chart of a preset never   *)
(* lags the clock by two quanta and the interval's lateness, although a     *)
(* click that changes presets compiles the window and leaves the running    *)
(* interval alone; and the window is as long as the preset says.            *)
THEOREM KeepsUp ==
    OverviewSpec => []WindowKeepsUp
<1>1. OverviewInit => ChartInv
  <2> SUFFICES ASSUME OverviewInit PROVE ChartInv
    OBVIOUS
  <2>1. /\ now = Start /\ query = CompileQuery(url, Start)
        /\ interval = IF UsesRelativePreset(url) THEN Start + NOW_QUANTUM ELSE None
    BY DEF OverviewInit, UsesRelativePreset
  <2>2. Start \in Nat /\ LATE \in Nat /\ None \notin Int
    OBVIOUS
  <2>3. UsesRelativePreset(url) => /\ interval \in Int /\ interval # None
                                   /\ now <= interval + LATE /\ interval <= Start + NOW_QUANTUM
    BY <2>1, <2>2
  <2>4. interval \in Int \cup {None} /\ now \in Nat /\ Start \in 0..now
    BY <2>1, <2>2, <2>3
  <2>. QED
    BY <2>1, <2>3, <2>4 DEF ChartInv
<1>2. ChartInv => WindowKeepsUp
  <2> SUFFICES ASSUME ChartInv, UsesRelativePreset(url)
               PROVE  /\ query.to <= now /\ now < query.to + 2 * NOW_QUANTUM + LATE
                      /\ query.to - query.from = RANGE_MS[url.range]
    BY DEF WindowKeepsUp, UsesRelativePreset
  <2>1. PICK t \in 0..now : query = CompileQuery(url, t) /\ interval <= t + NOW_QUANTUM
    BY DEF ChartInv
  <2>2. now \in Nat /\ t \in Nat /\ t <= now
    BY DEF ChartInv
  <2>3. /\ query.to \in Nat /\ query.to <= t /\ t < query.to + NOW_QUANTUM
        /\ query.to - query.from = RANGE_MS[url.range]
    BY <2>1, <2>2, PresetWindow
  <2>4. interval \in Int /\ now <= interval + LATE /\ LATE \in Nat
    BY DEF ChartInv
  <2> DEFINE end == query.to
  <2>5. end \in Nat /\ end <= now /\ now < end + 2 * NOW_QUANTUM + LATE
    <3>1. end \in Nat /\ end <= t /\ t < end + NOW_QUANTUM
      BY <2>3
    <3> HIDE DEF end
    <3>. QED
      BY <2>1, <2>2, <2>4, <3>1
  <2>. QED
    BY <2>3, <2>5
<1>3. ChartInv /\ [OverviewNext]_overviewVars => ChartInv'
  BY ChartKeeps
<1>. QED
  BY <1>1, <1>2, <1>3, PTL DEF OverviewSpec

-----------------------------------------------------------------------------
(* The grid of the Overview's series. *)

LEMMA Products ==
    ASSUME NEW k \in Int, NEW w \in Nat \ {0}
    PROVE  k * w \in Int /\ (k * w) % w = 0
<1> DEFINE x == k * w
           q == x \div w
           r == x % w
<1>1. x \in Int
  OBVIOUS
<1>2. q \in Int /\ r \in Int /\ x = w * q + r /\ 0 <= r /\ r < w
  <2> HIDE DEF x
  <2>. QED
    BY <1>1
<1>3. r = (k - q) * w
  BY <1>2
<1> HIDE DEF q, r
<1>4. ~(1 <= k - q)
  <2> SUFFICES ASSUME 1 <= k - q PROVE FALSE
    OBVIOUS
  <2>1. \A a, b, c \in Int : a <= b /\ 0 <= c => a * c <= b * c
    OBVIOUS
  <2>2. k - q \in Int /\ 1 * w <= (k - q) * w
    BY <1>2, <2>1
  <2>. QED
    BY <1>2, <1>3, <2>2
<1>5. ~(k - q <= -1)
  <2> SUFFICES ASSUME k - q <= -1 PROVE FALSE
    OBVIOUS
  <2>1. \A a, b, c \in Int : a <= b /\ 0 <= c => a * c <= b * c
    OBVIOUS
  <2>2. k - q \in Int /\ (k - q) * w <= (-1) * w
    BY <1>2, <2>1
  <2>. QED
    BY <1>2, <1>3, <2>2
<1>6. k - q = 0
  BY <1>2, <1>4, <1>5
<1>7. r = 0
  BY <1>2, <1>3, <1>6
<1>. QED
  BY <1>1, <1>7 DEF r

(* Every instant of a window falls into a bucket of its grid: both are      *)
(* binned alike.                                                            *)
LEMMA GridCovers ==
    ASSUME NEW w \in Nat \ {0}, NEW from \in Int, NEW to \in Int, NEW t \in from..to
    PROVE  LET b == DateBin(w, t) IN b \in Grid(w, from, to) /\ b <= t /\ t < b + w
<1> DEFINE p == from \div w
           q == t \div w
           first == p * w
           b == q * w
<1>1. /\ p \in Int /\ q \in Int /\ first \in Int /\ b \in Int
      /\ first <= from /\ b <= t /\ t < b + w /\ from < first + w
  OBVIOUS
<1>2. t \in Int /\ from <= t /\ t <= to
  OBVIOUS
<1>3. Grid(w, from, to) = {s \in first..to : (s - first) % w = 0}
  BY DEF Grid, Steps, DateBin
<1>4. p <= q
  <2> SUFFICES ASSUME q + 1 <= p PROVE FALSE
    BY <1>1
  <2>1. \A c, d, e \in Int : c <= d /\ 0 <= e => c * e <= d * e
    OBVIOUS
  <2>2. (q + 1) * w <= p * w
    BY <1>1, <2>1
  <2>3. b + w <= first
    BY <1>1, <2>2
  <2> HIDE DEF p, q, first, b
  <2>. QED
    BY <1>1, <1>2, <2>3
<1>5. first <= b
  <2>1. \A c, d, e \in Int : c <= d /\ 0 <= e => c * e <= d * e
    OBVIOUS
  <2>. QED
    BY <1>1, <1>4, <2>1
<1>6. (b - first) % w = 0
  <2>1. b - first = (q - p) * w
    BY <1>1
  <2>2. q - p \in Int
    BY <1>1
  <2> HIDE DEF b, first
  <2>. QED
    BY <2>1, <2>2, Products
<1>7. b = DateBin(w, t)
  BY DEF DateBin
<1> HIDE DEF p, q, first, b
<1>8. b \in first..to
  BY <1>1, <1>2, <1>5
<1>. QED
  BY <1>1, <1>3, <1>6, <1>7, <1>8

(* A loaded series is what the API computed for its key, of rows of its     *)
(* tenant and its window.                                                   *)
Computed(e) ==
    /\ e.key \in [groupBy : GroupBys, query : Filter]
    /\ e.from \in Int /\ e.to \in Nat /\ e.width \in {MINUTE, FIVE, HOUR}
    /\ OfItsTenant(e)
    /\ \A r \in e.rows : e.from <= r.ts /\ r.ts <= e.to
    /\ e.series = Series(e.rows, e.key.groupBy, e.width, e.from, e.to)

OverviewInv ==
    /\ now \in Start..MaxNow
    /\ url \in Urls
    /\ query \in Filter
    /\ interval \in Int \cup {None}
    /\ table \subseteq Row /\ IsFiniteSet(table)
    /\ requests \subseteq [groupBy : GroupBys, query : Filter]
    /\ \A e \in cache : Computed(e) /\ e.rows \subseteq table
    /\ fetches \in 0..MaxFetches

LEMMA AnswerComputed ==
    ASSUME OverviewInv, NEW key \in requests, Answer(key)
    PROVE  OverviewInv'
<1> DEFINE f    == key.query
           to   == IF f.to = Unset THEN now ELSE f.to
           from == IF f.from = Unset THEN to - DEFAULT_WINDOW ELSE f.from
           rows == Counted(f, from, to)
           Entry(width) == [key |-> key, from |-> from, to |-> to, width |-> width, rows |-> rows,
                            series |-> Series(rows, key.groupBy, width, from, to)]
<1>1. PICK clock \in {now, now + 1} :
        /\ cache' = {e \in cache : e.key # key} \cup {Entry(ResolveBucket(f.from, f.to, clock))}
        /\ requests' = requests \ {key}
        /\ UNCHANGED <<now, url, query, interval, table, fetches>>
  BY DEF Answer
<1> DEFINE width == ResolveBucket(f.from, f.to, clock)
<1>2. now \in Nat /\ key \in [groupBy : GroupBys, query : Filter]
  BY DEF OverviewInv
<1>3. to \in Nat /\ from \in Int
  <2>1. f.from \in Nat \cup {Unset} /\ f.to \in Nat \cup {Unset}
    BY <1>2 DEF Filter
  <2>2. to \in Nat
    BY <1>2, <2>1
  <2> HIDE DEF to
  <2>. QED
    BY <2>1, <2>2
<1>4. width \in {MINUTE, FIVE, HOUR}
  BY DEF ResolveBucket
<1>5. /\ rows \subseteq table
      /\ \A r \in rows : from <= r.ts /\ r.ts <= to
      /\ \A r \in rows : r.tenant = IF f.tenant = Unset THEN "default" ELSE f.tenant
  BY DEF Counted, TenantRestriction, ResolveTenantId, RbacHeader
<1>6. Computed(Entry(width)) /\ Entry(width).rows \subseteq table
  <2> DEFINE e == Entry(width)
  <2>1. /\ e.key = key /\ e.from = from /\ e.to = to /\ e.width = width /\ e.rows = rows
        /\ e.series = Series(rows, key.groupBy, width, from, to)
    OBVIOUS
  <2> HIDE DEF e, Entry, from, to, width, rows
  <2>2. OfItsTenant(e)
    BY <1>5, <2>1 DEF OfItsTenant
  <2>3. Computed(e) /\ e.rows \subseteq table
    BY <1>2, <1>3, <1>4, <1>5, <2>1, <2>2 DEF Computed
  <2>. QED
    BY <2>3 DEF e
<1>7. \A e \in cache' : Computed(e) /\ e.rows \subseteq table
  <2>1. cache' = {e \in cache : e.key # key} \cup {Entry(width)}
    BY <1>1
  <2> HIDE DEF Entry, width
  <2>. QED
    BY <1>6, <2>1 DEF OverviewInv
<1> HIDE DEF f, to, from, rows, Entry, width
<1>. QED
  BY <1>1, <1>7 DEF OverviewInv

LEMMA LogRowKeeps ==
    ASSUME OverviewInv, NEW content \in Contents, NEW ts \in {now - 1, now}, LogRow(content, ts)
    PROVE  OverviewInv'
<1> DEFINE r == MkRow(ts, Cardinality(table), content)
<1>1. table' = table \cup {r} /\ UNCHANGED <<now, url, query, interval, requests, cache, fetches>>
  BY DEF LogRow
<1>2. IsFiniteSet(table) /\ table \subseteq Row /\ ts \in Nat
  BY DEF OverviewInv
<1>3. Cardinality(table) \in Nat
  BY <1>2, FS_CardinalityType
<1>4. r \in Row
  <2>1. content \in Content
    OBVIOUS
  <2>. QED
    BY <1>2, <1>3, <2>1 DEF MkRow, Row, Content
<1> HIDE DEF r
<1>5. IsFiniteSet(table') /\ table' \subseteq Row
  BY <1>1, <1>2, <1>4, FS_AddElement
<1>. QED
  BY <1>1, <1>5 DEF OverviewInv

LEMMA OverviewKept ==
    ASSUME OverviewInv, [OverviewNext]_overviewVars
    PROVE  OverviewInv'
<1>1. ASSUME ClockAdvances PROVE OverviewInv'
  BY <1>1 DEF ClockAdvances, OverviewInv
<1>2. ASSUME query' = CompileQuery(url', now), url' \in Urls, interval' \in Int \cup {None},
             UNCHANGED <<now, table, requests, cache, fetches>>
      PROVE  OverviewInv'
  <2>1. url' \in Url /\ now \in Nat /\ Start <= now
    BY <1>2 DEF OverviewInv
  <2>2. query' \in Filter
    BY <1>2, <2>1, CompileType
  <2>. QED
    BY <1>2, <2>2 DEF OverviewInv
<1>3. ASSUME SetNowTick PROVE OverviewInv'
  BY <1>2, <1>3 DEF SetNowTick, OverviewInv
<1>4. ASSUME NEW u \in Urls, ChangeUrl(u) \/ Mount(u) PROVE OverviewInv'
  <2>1. interval' \in {interval, now + NOW_QUANTUM, None}
    BY <1>4 DEF ChangeUrl, Mount, TickerOf
  <2>2. interval' \in Int \cup {None}
    BY <2>1 DEF OverviewInv
  <2>. QED
    BY <1>2, <1>4, <2>2 DEF ChangeUrl, Mount
<1>5. ASSUME NEW content \in Contents, NEW ts \in {now - 1, now}, LogRow(content, ts)
      PROVE  OverviewInv'
  BY <1>5, LogRowKeeps
<1>6. ASSUME NEW groupBy \in GroupBys, Ask(groupBy) PROVE OverviewInv'
  <2> DEFINE key == [groupBy |-> groupBy, query |-> query]
  <2>1. /\ requests' = requests \cup {key} /\ fetches < MaxFetches /\ fetches' = fetches + 1
        /\ UNCHANGED <<now, url, query, interval, table, cache>>
    BY <1>6 DEF Ask
  <2>2. key \in [groupBy : GroupBys, query : Filter]
    BY DEF OverviewInv
  <2> HIDE DEF key
  <2>. QED
    BY <2>1, <2>2 DEF OverviewInv
<1>7. ASSUME NEW key \in requests, Answer(key) PROVE OverviewInv'
  BY <1>7, AnswerComputed
<1>8. ASSUME NEW key \in requests, Fail(key) PROVE OverviewInv'
  BY <1>8 DEF Fail, OverviewInv
<1>9. ASSUME UNCHANGED overviewVars PROVE OverviewInv'
  BY <1>9 DEF overviewVars, OverviewInv
<1>. QED
  BY <1>1, <1>3, <1>4, <1>5, <1>6, <1>7, <1>8, <1>9 DEF OverviewNext

LEMMA OverviewInvariance == OverviewSpec => []OverviewInv
<1>1. OverviewInit => OverviewInv
  <2> SUFFICES ASSUME OverviewInit PROVE OverviewInv
    OBVIOUS
  <2>1. /\ now = Start /\ url \in Urls /\ query = CompileQuery(url, Start)
        /\ interval \in {Start + NOW_QUANTUM, None}
        /\ table = {} /\ requests = {} /\ cache = {} /\ fetches = 0
    BY DEF OverviewInit
  <2>2. query \in Filter
    <3>1. url \in Url /\ Start \in Nat /\ Start <= Start
      BY <2>1
    <3>. QED
      BY <2>1, <3>1, CompileType
  <2>3. IsFiniteSet(table)
    BY <2>1, FS_EmptySet
  <2>. QED
    BY <2>1, <2>2, <2>3 DEF OverviewInv
<1>2. OverviewInv /\ [OverviewNext]_overviewVars => OverviewInv'
  BY OverviewKept
<1>. QED
  BY <1>1, <1>2, PTL DEF OverviewSpec

-----------------------------------------------------------------------------
(* What the buckets of a loaded series add up to. *)

(* The counts of buckets that share out a finite set of rows add up to its  *)
(* size: the k-th unit of a bucket stands for the k-th of its rows.         *)
LEMMA SumCounts ==
    ASSUME NEW R, IsFiniteSet(R), NEW B, NEW part \in [B -> SUBSET R],
           \A b \in B : b.n = Cardinality(part[b]),
           \A r \in R : \E b \in B : r \in part[b],
           \A b, c \in B : \A r \in R : r \in part[b] /\ r \in part[c] => b = c
    PROVE  Sum(B) = Cardinality(R)
<1> DEFINE U     == UNION {{b} \X (1..b.n) : b \in B}
           at    == [r \in R |-> CHOOSE b \in B : r \in part[b]]
           count == [b \in B |-> CHOOSE f : f \in Bijection(part[b], 1..b.n)]
           unit  == [r \in R |-> <<at[r], count[at[r]][r]>>]
<1>1. \A r \in R : at[r] \in B /\ r \in part[at[r]]
  OBVIOUS
<1>2. \A b \in B : \A r \in part[b] : r \in R /\ at[r] = b
  BY <1>1
<1>3. ASSUME NEW b \in B PROVE count[b] \in Bijection(part[b], 1..b.n)
  <2>1. IsFiniteSet(part[b])
    BY FS_Subset
  <2>2. ExistsBijection(1..b.n, part[b])
    BY <2>1, FS_CardinalityType
  <2>3. Bijection(part[b], 1..b.n) # {}
    BY <2>2, Fun_ExistsBijSymmetric DEF ExistsBijection
  <2>4. PICK f : f \in Bijection(part[b], 1..b.n)
    BY <2>3
  <2>. QED
    BY <2>4
<1>4. \A u : u \in U <=> \E b \in B : \E k \in 1..b.n : u = <<b, k>>
  OBVIOUS
<1> HIDE DEF U, at, count
<1>5. ASSUME NEW b \in B
      PROVE  /\ \A r \in part[b] : count[b][r] \in 1..b.n
             /\ \A r, s \in part[b] : count[b][r] = count[b][s] => r = s
             /\ \A k \in 1..b.n : \E r \in part[b] : count[b][r] = k
  <2>1. count[b] \in Bijection(part[b], 1..b.n)
    BY <1>3
  <2>. QED
    BY <2>1 DEF Bijection, Injection, Surjection, IsInjective
<1>6. unit \in [R -> U]
  <2>1. ASSUME NEW r \in R PROVE <<at[r], count[at[r]][r]>> \in U
    <3>1. at[r] \in B /\ count[at[r]][r] \in 1..at[r].n
      BY <1>1, <1>5
    <3>. QED
      BY <1>4, <3>1
  <2>2. DOMAIN unit = R /\ unit = [r \in R |-> unit[r]]
    OBVIOUS
  <2>3. \A r \in R : unit[r] \in U
    BY <2>1
  <2> HIDE DEF unit
  <2>. QED
    BY <2>2, <2>3
<1>7. ASSUME NEW r \in R, NEW s \in R, unit[r] = unit[s] PROVE r = s
  <2>1. at[r] = at[s] /\ count[at[r]][r] = count[at[s]][s]
    BY <1>7
  <2>. QED
    BY <1>1, <1>5, <2>1
<1>8. ASSUME NEW u \in U PROVE \E r \in R : unit[r] = u
  <2>1. PICK b \in B : \E k \in 1..b.n : u = <<b, k>>
    BY <1>4
  <2>2. PICK k \in 1..b.n : u = <<b, k>>
    BY <2>1
  <2>3. PICK r \in part[b] : count[b][r] = k
    BY <1>5
  <2>4. r \in R /\ at[r] = b
    BY <1>2
  <2>5. unit[r] = <<b, k>>
    BY <2>3, <2>4
  <2>. QED
    BY <2>2, <2>4, <2>5
<1> HIDE DEF unit
<1>9. unit \in Bijection(R, U)
  BY <1>6, <1>7, <1>8, Fun_IsBij
<1>10. ExistsBijection(R, U)
  BY <1>9 DEF ExistsBijection
<1>11. Cardinality(U) = Cardinality(R)
  BY <1>10, FS_Bijection
<1>. QED
  BY <1>11 DEF Sum, U

(* The rows of one bucket and one dimension. *)
Within(e, b, d) ==
    {r \in e.rows : r.fields[e.key.groupBy] = d /\ DateBin(e.width, r.ts) = b}

Loaded(e) == Computed(e) /\ e.rows \subseteq Row /\ IsFiniteSet(e.rows)

LEMMA CacheIsLoaded == OverviewInv => \A e \in cache : Loaded(e)
<1> SUFFICES ASSUME OverviewInv, NEW e \in cache PROVE Loaded(e)
  OBVIOUS
<1>1. Computed(e) /\ e.rows \subseteq table /\ table \subseteq Row /\ IsFiniteSet(table)
  BY DEF OverviewInv
<1>2. IsFiniteSet(e.rows)
  BY <1>1, FS_Subset
<1>. QED
  BY <1>1, <1>2 DEF Loaded

(* A series has one bucket for every point of its grid and every dimension, *)
(* which tells how many rows are within.                                    *)
LEMMA Buckets ==
    ASSUME NEW e, Loaded(e)
    PROVE  /\ \A x \in e.series : /\ x.bucket \in Grid(e.width, e.from, e.to)
                                  /\ x.dimension \in Dimensions(e)
                                  /\ x.n = Cardinality(Within(e, x.bucket, x.dimension))
           /\ \A b \in Grid(e.width, e.from, e.to), d \in Dimensions(e) :
                 \E x \in e.series : x.bucket = b /\ x.dimension = d
           /\ \A x, y \in e.series : x.bucket = y.bucket /\ x.dimension = y.dimension => x = y
<1> DEFINE dims == Dimensions(e)
           grid == Grid(e.width, e.from, e.to)
           Bucket(b, d) == [bucket |-> b, dimension |-> d, n |-> Cardinality(Within(e, b, d))]
<1>1. e.series = {Bucket(b, d) : b \in grid, d \in dims}
  BY DEF Loaded, Computed, Series, Dimensions, Within
<1>2. \A b, d : /\ Bucket(b, d).bucket = b /\ Bucket(b, d).dimension = d
               /\ Bucket(b, d).n = Cardinality(Within(e, b, d))
  OBVIOUS
<1> HIDE DEF dims, grid, Bucket
<1>3. ASSUME NEW x \in e.series
      PROVE  /\ x.bucket \in grid /\ x.dimension \in dims /\ x = Bucket(x.bucket, x.dimension)
             /\ x.n = Cardinality(Within(e, x.bucket, x.dimension))
  <2>1. PICK b \in grid, d \in dims : x = Bucket(b, d)
    BY <1>1
  <2>2. x.bucket = b /\ x.dimension = d /\ x.n = Cardinality(Within(e, b, d))
    BY <1>2, <2>1
  <2>. QED
    BY <2>1, <2>2
<1>4. ASSUME NEW b \in grid, NEW d \in dims
      PROVE  \E x \in e.series : x.bucket = b /\ x.dimension = d
  <2>1. Bucket(b, d) \in e.series
    BY <1>1
  <2>. QED
    BY <1>2, <2>1
<1>5. ASSUME NEW x \in e.series, NEW y \in e.series,
             x.bucket = y.bucket, x.dimension = y.dimension
      PROVE  x = y
  <2>1. x = Bucket(x.bucket, x.dimension) /\ y = Bucket(y.bucket, y.dimension)
    BY <1>3
  <2>. QED
    BY <1>5, <2>1
<1>. QED
  BY <1>3, <1>4, <1>5 DEF dims, grid

(* Every row counted has its bucket. *)
LEMMA RowsBucket ==
    ASSUME NEW e, Loaded(e), NEW r \in e.rows
    PROVE  \E x \in e.series : /\ x.bucket = DateBin(e.width, r.ts)
                               /\ x.dimension = r.fields[e.key.groupBy]
<1>1. /\ e.width \in Nat \ {0} /\ e.from \in Int /\ e.to \in Int /\ r.ts \in Int
      /\ e.from <= r.ts /\ r.ts <= e.to
  BY DEF Loaded, Computed, Row
<1>2. DateBin(e.width, r.ts) \in Grid(e.width, e.from, e.to)
  <2>1. r.ts \in e.from..e.to
    BY <1>1
  <2>. QED
    BY <1>1, <2>1, GridCovers
<1>3. r.fields[e.key.groupBy] \in Dimensions(e)
  BY DEF Dimensions
<1>. QED
  BY <1>2, <1>3, Buckets

(* Some of the buckets add up to the rows they are the buckets of. *)
LEMMA BucketsAddUp ==
    ASSUME NEW e, Loaded(e), NEW B \in SUBSET e.series
    PROVE  Sum(B) = Cardinality({r \in e.rows : \E x \in B :
                                     r \in Within(e, x.bucket, x.dimension)})
<1> DEFINE R    == {r \in e.rows : \E x \in B : r \in Within(e, x.bucket, x.dimension)}
           part == [x \in B |-> Within(e, x.bucket, x.dimension)]
<1>1. IsFiniteSet(R)
  BY FS_Subset DEF Loaded
<1>2. part \in [B -> SUBSET R]
  BY DEF Within
<1>3. \A x \in B : x.n = Cardinality(part[x])
  BY Buckets
<1>4. \A r \in R : \E x \in B : r \in part[x]
  OBVIOUS
<1>5. \A x, y \in B : \A r \in R : r \in part[x] /\ r \in part[y] => x = y
  <2> SUFFICES ASSUME NEW x \in B, NEW y \in B, NEW r \in R, r \in part[x], r \in part[y]
               PROVE  x = y
    OBVIOUS
  <2>1. x.bucket = y.bucket /\ x.dimension = y.dimension
    BY DEF Within
  <2>. QED
    BY <2>1, Buckets
<1> HIDE DEF R, part
<1>6. Sum(B) = Cardinality(R)
  BY <1>1, <1>2, <1>3, <1>4, <1>5, SumCounts
<1>. QED
  BY <1>6 DEF R

LEMMA Totals ==
    ASSUME NEW e, Loaded(e)
    PROVE  /\ \A d : TotalOf(e.series, d) = RowsWith(e, e.key.groupBy, d)
           /\ GrandTotal(e.series) = Cardinality(e.rows)
<1> DEFINE Told(B) == {r \in e.rows : \E x \in B : r \in Within(e, x.bucket, x.dimension)}
<1>1. ASSUME NEW d PROVE TotalOf(e.series, d) = RowsWith(e, e.key.groupBy, d)
  <2> DEFINE B == {x \in e.series : x.dimension = d}
             R == {r \in e.rows : r.fields[e.key.groupBy] = d}
  <2>1. Sum(B) = Cardinality(Told(B))
    BY BucketsAddUp
  <2>2. Told(B) = R
    <3>1. ASSUME NEW r \in R PROVE r \in Told(B)
      BY RowsBucket DEF Within
    <3>2. ASSUME NEW r \in Told(B) PROVE r \in R
      BY DEF Within
    <3>. QED
      BY <3>1, <3>2
  <2> HIDE DEF Told
  <2>. QED
    BY <2>1, <2>2 DEF TotalOf, RowsWith
<1>2. GrandTotal(e.series) = Cardinality(e.rows)
  <2>1. Sum(e.series) = Cardinality(Told(e.series))
    BY BucketsAddUp
  <2>2. Told(e.series) = e.rows
    BY RowsBucket DEF Within
  <2> HIDE DEF Told
  <2>. QED
    BY <2>1, <2>2 DEF GrandTotal
<1>. QED
  BY <1>1, <1>2

(* The point of the line at a bucket. *)
LEMMA PointTotal ==
    ASSUME NEW e, Loaded(e), NEW t, NEW d
    PROVE  TotalOf({x \in e.series : x.bucket = t}, d) = Cardinality(Within(e, t, d))
<1> DEFINE B == {x \in e.series : x.bucket = t /\ x.dimension = d}
           R == {r \in e.rows : \E x \in B : r \in Within(e, x.bucket, x.dimension)}
<1>1. Sum(B) = Cardinality(R)
  BY BucketsAddUp
<1>2. R = Within(e, t, d)
  <2>1. ASSUME NEW r \in R PROVE r \in Within(e, t, d)
    OBVIOUS
  <2>2. ASSUME NEW r \in Within(e, t, d) PROVE r \in R
    <3>1. r \in e.rows /\ r.fields[e.key.groupBy] = d /\ DateBin(e.width, r.ts) = t
      BY DEF Within
    <3>2. PICK x \in e.series : x.bucket = t /\ x.dimension = d
      BY <3>1, RowsBucket
    <3>. QED
      BY <3>1, <3>2
  <2>. QED
    BY <2>1, <2>2
<1>3. {x \in {y \in e.series : y.bucket = t} : x.dimension = d} = B
  OBVIOUS
<1> HIDE DEF R, B
<1>. QED
  BY <1>1, <1>2, <1>3 DEF TotalOf

(* The points of the line added up, by what each tells of a verb. *)
Points(line, told) == {[of |-> p, n |-> told[p]] : p \in line}

LEMMA LineTotal ==
    ASSUME NEW e, Loaded(e), NEW line, NEW verb, NEW told \in [line -> Nat],
           \A p \in line : told[p] = Cardinality(Within(e, p.bucket, verb)),
           \A p, q \in line : p.bucket = q.bucket => p = q,
           \A x \in e.series : \E p \in line : p.bucket = x.bucket
    PROVE  Sum(Points(line, told)) = RowsWith(e, e.key.groupBy, verb)
<1> DEFINE R    == {r \in e.rows : r.fields[e.key.groupBy] = verb}
           Point(p) == [of |-> p, n |-> told[p]]
           B    == {Point(p) : p \in line}
           part == [x \in B |-> Within(e, x.of.bucket, verb)]
<1>1. \A p : Point(p).of = p /\ Point(p).n = told[p]
  OBVIOUS
<1> HIDE DEF Point
<1>2. IsFiniteSet(R)
  BY FS_Subset DEF Loaded
<1>3. part \in [B -> SUBSET R]
  BY DEF Within
<1>4. \A x \in B : x.of \in line /\ x = Point(x.of)
  BY <1>1
<1>5. \A x \in B : x.n = Cardinality(part[x])
  BY <1>1, <1>4
<1>6. \A r \in R : \E x \in B : r \in part[x]
  <2> SUFFICES ASSUME NEW r \in R PROVE \E x \in B : r \in part[x]
    OBVIOUS
  <2>1. PICK y \in e.series : y.bucket = DateBin(e.width, r.ts)
    BY RowsBucket
  <2>2. PICK p \in line : p.bucket = DateBin(e.width, r.ts)
    BY <2>1
  <2>3. Point(p) \in B /\ part[Point(p)] = Within(e, p.bucket, verb)
    BY <1>1
  <2>4. r \in Within(e, p.bucket, verb)
    BY <2>2 DEF Within
  <2>. QED
    BY <2>3, <2>4
<1>7. \A x, y \in B : \A r \in R : r \in part[x] /\ r \in part[y] => x = y
  <2> SUFFICES ASSUME NEW x \in B, NEW y \in B, NEW r \in R, r \in part[x], r \in part[y]
               PROVE  x = y
    OBVIOUS
  <2>1. x.of.bucket = y.of.bucket
    BY DEF Within
  <2>. QED
    BY <1>4, <2>1
<1> HIDE DEF R, B, part
<1>8. Sum(B) = Cardinality(R)
  BY <1>2, <1>3, <1>5, <1>6, <1>7, SumCounts
<1>. QED
  BY <1>8 DEF B, R, Point, Points, RowsWith

-----------------------------------------------------------------------------
(* The Overview's charts. *)

LEMMA LoadedHasNoGaps ==
    ASSUME NEW e, Loaded(e)
    PROVE  NoGaps(e)
<1>1. \A b \in e.series : b.dimension \in Dimensions(e)
  BY Buckets
<1>2. ASSUME NEW d \in Dimensions(e), NEW t \in e.from..e.to
      PROVE  \E b \in e.series :
                /\ b.dimension = d /\ b.bucket <= t /\ t < b.bucket + e.width
                /\ \A c \in e.series : c.dimension = d /\ c.bucket = b.bucket => c = b
  <2> DEFINE bin == DateBin(e.width, t)
  <2>1. bin \in Grid(e.width, e.from, e.to) /\ bin <= t /\ t < bin + e.width
    <3>1. e.width \in Nat \ {0} /\ e.from \in Int /\ e.to \in Int
      BY DEF Loaded, Computed
    <3>. QED
      BY <3>1, GridCovers
  <2> HIDE DEF bin
  <2>2. PICK b \in e.series : b.bucket = bin /\ b.dimension = d
    BY <2>1, Buckets
  <2>3. \A c \in e.series : c.dimension = d /\ c.bucket = b.bucket => c = b
    BY <2>2, Buckets
  <2>. QED
    BY <2>1, <2>2, <2>3
<1>. QED
  BY <1>1, <1>2 DEF NoGaps

(* Every variable of the charts keeps its type, whatever the address bar    *)
(* holds and however late the answers come: a series is made of rows that   *)
(* are still in the table.                                                  *)
THEOREM OverviewTypeCorrect == OverviewSpec => []OverviewTypeOK
<1>1. OverviewInv => OverviewTypeOK
  <2> SUFFICES ASSUME OverviewInv PROVE OverviewTypeOK
    OBVIOUS
  <2>1. ASSUME NEW e \in cache, NEW b \in e.series
        PROVE  b.bucket \in Int /\ b.n \in Nat /\ b.dimension \in Values
    <3>1. Loaded(e)
      BY CacheIsLoaded
    <3>2. /\ b.bucket \in Grid(e.width, e.from, e.to) /\ b.dimension \in Dimensions(e)
          /\ b.n = Cardinality(Within(e, b.bucket, b.dimension))
      BY <3>1, Buckets
    <3>3. b.bucket \in Int
      BY <3>2 DEF Grid, Steps
    <3>4. b.n \in Nat
      <4>1. IsFiniteSet(Within(e, b.bucket, b.dimension))
        BY <3>1, FS_Subset DEF Loaded, Within
      <4>. QED
        BY <3>2, <4>1, FS_CardinalityType
    <3>5. b.dimension \in Values
      <4>1. PICK r \in e.rows : b.dimension = r.fields[e.key.groupBy]
        BY <3>2 DEF Dimensions
      <4>2. r \in Row /\ e.key.groupBy \in Fields
        BY <3>1 DEF Loaded, Computed
      <4>. QED
        BY <4>1, <4>2 DEF Row
    <3>. QED
      BY <3>3, <3>4, <3>5
  <2>2. \A e \in cache : /\ e.key \in [groupBy : GroupBys, query : Filter]
                         /\ e.from \in Int /\ e.to \in Nat /\ e.width \in {MINUTE, FIVE, HOUR}
                         /\ e.rows \subseteq table
    BY DEF OverviewInv, Computed
  <2>. QED
    BY <2>1, <2>2 DEF OverviewInv, OverviewTypeOK
<1>. QED
  BY <1>1, OverviewInvariance, PTL

(* audit-aggregate.service.ts ("so a chart has no gaps", and the header on  *)
(* bucket alignment): for every width, window and late clock reading, a     *)
(* loaded series counts rows of the tenant its query was compiled for       *)
(* alone, each once and under its own dimension, and each instant of the    *)
(* window falls into one bucket of every dimension.                         *)
THEOREM SeriesCount == OverviewSpec => []SeriesCountsAll
<1>1. OverviewInv => SeriesCountsAll
  <2> SUFFICES ASSUME OverviewInv, NEW e \in cache
               PROVE  OfItsTenant(e) /\ CountsEachOnce(e) /\ NoGaps(e)
    BY DEF SeriesCountsAll
  <2>1. Loaded(e)
    BY CacheIsLoaded
  <2>2. OfItsTenant(e)
    BY <2>1 DEF Loaded, Computed
  <2>3. CountsEachOnce(e)
    <3> SUFFICES ASSUME NEW d
                 PROVE  TotalOf(e.series, d) = Cardinality({r \in e.rows : r.fields[e.key.groupBy] = d})
      BY DEF CountsEachOnce
    <3>1. TotalOf(e.series, d) = RowsWith(e, e.key.groupBy, d)
      BY <2>1, Totals
    <3>. QED
      BY <3>1 DEF RowsWith
  <2>. QED
    BY <2>1, <2>2, <2>3, LoadedHasNoGaps
<1>. QED
  BY <1>1, OverviewInvariance, PTL

(* ratePct is a percentage: the part is within the whole. *)
LEMMA Percentage ==
    ASSUME NEW part \in Nat, NEW rest \in Nat
    PROVE  RatePct(part, part + rest) \in 0..100
<1>1. CASE part + rest = 0
  BY <1>1 DEF RatePct
<1>2. CASE part + rest > 0
  <2> DEFINE w == part + rest
             x == 100 * part
             q == x \div w
             r == x % w
  <2>1. w \in Nat /\ w > 0 /\ x \in Nat /\ x <= 100 * w
    BY <1>2
  <2>2. RatePct(part, part + rest) = q
    BY <1>2 DEF RatePct
  <2> HIDE DEF w, x
  <2>3. q \in Int /\ r \in Int /\ x = w * q + r /\ 0 <= r /\ r < w
    BY <2>1
  <2> HIDE DEF q, r
  <2>4. \A a, b, c \in Int : a <= b /\ 0 <= c => c * a <= c * b
    OBVIOUS
  <2>5. ~(101 <= q)
    <3> SUFFICES ASSUME 101 <= q PROVE FALSE
      OBVIOUS
    <3>1. w * 101 <= w * q
      BY <2>1, <2>3, <2>4
    <3>. QED
      BY <2>1, <2>3, <3>1
  <2>6. ~(q <= -1)
    <3> SUFFICES ASSUME q <= -1 PROVE FALSE
      OBVIOUS
    <3>1. w * q <= w * (-1)
      BY <2>1, <2>3, <2>4
    <3>. QED
      BY <2>1, <2>3, <3>1
  <2>. QED
    BY <2>2, <2>3, <2>5, <2>6
<1>. QED
  BY <1>1, <1>2

LEMMA StripTells ==
    ASSUME NEW e, Loaded(e), e.key.groupBy = "verb"
    PROVE  StripAgrees(e)
<1> DEFINE strip == HealthStrip(e.series)
           sent   == RowsWith(e, "verb", "sent")
           failed == RowsWith(e, "verb", "failed")
<1>1. TotalOf(e.series, "sent") = sent /\ TotalOf(e.series, "failed") = failed
  BY Totals
<1>2. sent \in Nat /\ failed \in Nat
  <2>1. ASSUME NEW d PROVE RowsWith(e, "verb", d) \in Nat
    <3>1. IsFiniteSet({r \in e.rows : r.fields["verb"] = d})
      BY FS_Subset DEF Loaded
    <3>. QED
      BY <3>1, FS_CardinalityType DEF RowsWith
  <2>. QED
    BY <2>1
<1>3. strip.empty <=> e.rows = {}
  <2>1. strip.empty <=> GrandTotal(e.series) = 0
    BY DEF HealthStrip
  <2>2. Cardinality(e.rows) = 0 <=> e.rows = {}
    BY FS_EmptySet DEF Loaded
  <2>3. GrandTotal(e.series) = Cardinality(e.rows)
    BY Totals
  <2>. QED
    BY <2>1, <2>2, <2>3
<1>4. strip.delivered = sent /\ strip.failures = failed
  BY <1>1 DEF HealthStrip
<1>5. strip.deliveryRate \in 0..100
  <2>1. strip.deliveryRate = RatePct(sent, sent + failed)
    BY <1>1 DEF HealthStrip
  <2> HIDE DEF strip, sent, failed
  <2>2. RatePct(sent, sent + failed) \in 0..100
    BY <1>2, Percentage
  <2>. QED
    BY <2>1, <2>2
<1> HIDE DEF strip
<1>. QED
  BY <1>3, <1>4, <1>5 DEF StripAgrees, strip

LEMMA LineTells ==
    ASSUME NEW e, Loaded(e), e.key.groupBy = "verb"
    PROVE  LineAgrees(e)
<1> DEFINE Point(t) == [bucket |-> t, sent |-> Cardinality(Within(e, t, "sent")),
                                      failed |-> Cardinality(Within(e, t, "failed"))]
           line   == {Point(t) : t \in {b.bucket : b \in e.series}}
           sent   == [p \in line |-> p.sent]
           failed == [p \in line |-> p.failed]
<1>1. DeliveryRateLine(e.series) = line
  <2> DEFINE At(t) == {x \in e.series : x.bucket = t}
             Told(t) == [bucket |-> t, sent |-> TotalOf(At(t), "sent"),
                                       failed |-> TotalOf(At(t), "failed")]
  <2>1. DeliveryRateLine(e.series) = {Told(t) : t \in {b.bucket : b \in e.series}}
    BY DEF DeliveryRateLine, DeliverySeries
  <2>2. ASSUME NEW t PROVE Told(t) = Point(t)
    <3>1. /\ TotalOf(At(t), "sent") = Cardinality(Within(e, t, "sent"))
          /\ TotalOf(At(t), "failed") = Cardinality(Within(e, t, "failed"))
      BY PointTotal
    <3>. QED
      BY <3>1
  <2> HIDE DEF Told, Point
  <2>. QED
    BY <2>1, <2>2
<1>2. \A t : /\ Point(t).bucket = t /\ Point(t).sent = Cardinality(Within(e, t, "sent"))
            /\ Point(t).failed = Cardinality(Within(e, t, "failed"))
  OBVIOUS
<1>3. ASSUME NEW t, NEW d PROVE Cardinality(Within(e, t, d)) \in Nat
  <2>1. IsFiniteSet(Within(e, t, d))
    BY FS_Subset DEF Loaded, Within
  <2>. QED
    BY <2>1, FS_CardinalityType
<1> HIDE DEF Point
<1>4. ASSUME NEW p \in line
      PROVE  /\ p = Point(p.bucket)
             /\ p.sent = Cardinality(Within(e, p.bucket, "sent"))
             /\ p.failed = Cardinality(Within(e, p.bucket, "failed"))
  BY <1>2
<1>5. ASSUME NEW p \in line, NEW q \in line, p.bucket = q.bucket PROVE p = q
  BY <1>4, <1>5
<1>6. ASSUME NEW x \in e.series PROVE \E p \in line : p.bucket = x.bucket
  <2>1. Point(x.bucket) \in line
    OBVIOUS
  <2>. QED
    BY <1>2, <2>1
<1> HIDE DEF line
<1>7. /\ sent \in [line -> Nat] /\ failed \in [line -> Nat]
      /\ \A p \in line : /\ sent[p] = Cardinality(Within(e, p.bucket, "sent"))
                         /\ failed[p] = Cardinality(Within(e, p.bucket, "failed"))
  BY <1>3, <1>4
<1>8. /\ {[of |-> p, n |-> p.sent] : p \in line} = Points(line, sent)
      /\ {[of |-> p, n |-> p.failed] : p \in line} = Points(line, failed)
  BY DEF Points
<1> HIDE DEF sent, failed
<1>9. Sum(Points(line, sent)) = RowsWith(e, "verb", "sent")
  <2>1. /\ sent \in [line -> Nat]
        /\ \A p \in line : sent[p] = Cardinality(Within(e, p.bucket, "sent"))
        /\ \A p, q \in line : p.bucket = q.bucket => p = q
        /\ \A x \in e.series : \E p \in line : p.bucket = x.bucket
    BY <1>5, <1>6, <1>7
  <2>2. Sum(Points(line, sent)) = RowsWith(e, e.key.groupBy, "sent")
    BY <2>1, LineTotal
  <2>. QED
    BY <2>2
<1>10. Sum(Points(line, failed)) = RowsWith(e, "verb", "failed")
  <2>1. /\ failed \in [line -> Nat]
        /\ \A p \in line : failed[p] = Cardinality(Within(e, p.bucket, "failed"))
        /\ \A p, q \in line : p.bucket = q.bucket => p = q
        /\ \A x \in e.series : \E p \in line : p.bucket = x.bucket
    BY <1>5, <1>6, <1>7
  <2>2. Sum(Points(line, failed)) = RowsWith(e, e.key.groupBy, "failed")
    BY <2>1, LineTotal
  <2>. QED
    BY <2>2
<1>. QED
  BY <1>1, <1>5, <1>8, <1>9, <1>10 DEF LineAgrees

LEMMA DonutTells ==
    ASSUME NEW e, Loaded(e)
    PROVE  LET donut == ToDonut(e.series) IN
           /\ DOMAIN donut = Dimensions(e)
           /\ \A name \in DOMAIN donut : donut[name] = RowsWith(e, e.key.groupBy, name)
<1>1. {b.dimension : b \in e.series} = Dimensions(e)
  <2>1. \A b \in e.series : b.dimension \in Dimensions(e)
    BY Buckets
  <2>2. ASSUME NEW d \in Dimensions(e) PROVE \E b \in e.series : b.dimension = d
    <3>1. PICK r \in e.rows : d = r.fields[e.key.groupBy]
      BY DEF Dimensions
    <3>. QED
      BY <3>1, RowsBucket
  <2>. QED
    BY <2>1, <2>2
<1>2. ToDonut(e.series) = [d \in Dimensions(e) |-> TotalOf(e.series, d)]
  BY <1>1 DEF ToDonut
<1>. QED
  BY <1>2, Totals

(* health-strip.tsx, delivery-rate-line.tsx, provider-mix.tsx,              *)
(* channel-badges.tsx: whatever rows were counted, the tiles, the line's    *)
(* points added up, the donut's slices and the badges say how many there    *)
(* were, a strip is empty only if there were none, and the rate of          *)
(* deliveries is a percentage.                                              *)
THEOREM PanelsTell == OverviewSpec => []PanelsAgree
<1>1. OverviewInv => PanelsAgree
  <2> SUFFICES ASSUME OverviewInv, NEW e \in cache
               PROVE  CASE e.key.groupBy = "verb"     -> StripAgrees(e) /\ LineAgrees(e)
                        [] e.key.groupBy = "provider" -> DonutAgrees(e)
                        [] OTHER                      -> BadgesAgree(e)
    BY DEF PanelsAgree
  <2>1. Loaded(e)
    BY CacheIsLoaded
  <2>2. e.key.groupBy \in {"verb", "channel", "provider"}
    BY <2>1 DEF Loaded, Computed
  <2>3. CASE e.key.groupBy = "verb"
    BY <2>1, <2>3, StripTells, LineTells
  <2>4. CASE e.key.groupBy = "provider"
    <3>1. LET donut == ToDonut(e.series) IN
          /\ DOMAIN donut = Dimensions(e)
          /\ \A name \in DOMAIN donut : donut[name] = RowsWith(e, "provider", name)
      BY <2>1, <2>4, DonutTells
    <3>2. Dimensions(e) = {r.fields["provider"] : r \in e.rows}
      BY <2>4 DEF Dimensions
    <3>3. DonutAgrees(e)
      BY <3>1, <3>2 DEF DonutAgrees, ProviderMix
    <3>. QED
      BY <2>4, <3>3
  <2>5. CASE e.key.groupBy = "channel"
    <3>1. BadgesAgree(e)
      BY <2>1, <2>5, DonutTells DEF BadgesAgree, ChannelBadges
    <3>. QED
      BY <2>5, <3>1
  <2>. QED
    BY <2>2, <2>3, <2>4, <2>5
<1>. QED
  BY <1>1, OverviewInvariance, PTL
=============================================================================

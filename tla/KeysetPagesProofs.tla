------------------------- MODULE KeysetPagesProofs -------------------------
(***************************************************************************)
(* The Explorer's list, proved for every page size, window, query and any  *)
(* number of rows and fetches: types, strict order across pages, and that  *)
(* a scan skips no row that was there when it began.                       *)
(*                                                                         *)
(* The inductive invariant IInv says of every chain of pages, on screen or *)
(* being rebuilt, what its next page relies on: its cursor is its oldest   *)
(* row, its windows lie before the handler's present one, and it already   *)
(* holds every stable row down to the cursor.                              *)
(***************************************************************************)
EXTENDS KeysetPages, FiniteSetTheorems, WellFoundedInduction, TLAPS

(* What holds of every chain, T being the table, q the query, and from..to  *)
(* the window the handler would fix now.                                    *)
ChainOK(chain, T, q, from, to) ==
    /\ Descends(chain)
    /\ \A r \in Listed(chain) : r \in T /\ r.tenant = q.tenant /\ Matches(q.filter, r)
    /\ chain.start \subseteq T
    /\ chain.lo <= from /\ chain.hi <= to
    /\ CursorOf(chain) # None => \A r \in Listed(chain) : NotAfter(CursorOf(chain), r)
    /\ chain.pages # <<>> =>
         \A r \in chain.start :
            Where(q.filter, q.tenant, chain.lo, chain.hi, r) /\ ReachedBy(chain, r)
              => r \in Listed(chain)

(* The rows the answer's query selected. *)
Eligible(req, q) ==
    {r \in req.snapshot : /\ Where(q.filter, q.tenant, req.lo, req.hi, r)
                          /\ CursorOf(req.chain) = None \/ OlderThan(CursorOf(req.chain), r)}

(* A page that holds the newest of S: complete, or cut at its cursor. *)
CutsAt(page, S) ==
    /\ page.rows \subseteq S
    /\ page.next = None => S \subseteq page.rows
    /\ page.next # None =>
         /\ page.next \in page.rows
         /\ \A a \in page.rows : NotAfter(page.next, a)
         /\ \A b \in S : NotAfter(page.next, b) => b \in page.rows

RequestOK(req, T, q, from, to, screen) ==
    /\ ChainOK(req.chain, T, q, from, to)
    /\ req.chain.pages = <<>> \/ CursorOf(req.chain) # None
    /\ req.chain.pages = <<>> => req.chain = NoChain
    /\ screen.pages # <<>> /\ req.want > Len(screen.pages) => CursorOf(screen) # None
    /\ req.stage # "sent" =>
         /\ req.chain.lo <= req.lo /\ req.lo <= from
         /\ req.chain.hi <= req.hi /\ req.hi <= to
    /\ req.stage = "answered" =>
         /\ req.snapshot \subseteq T
         /\ req.chain.start \subseteq req.snapshot
         /\ CutsAt(req.page, Eligible(req, q))

IInv ==
    /\ TypeOK
    /\ IsFiniteSet(table) /\ IsFiniteSet(inflight)
    /\ ChainOK(shown, table, query, WindowFrom, WindowTo)
    /\ shown.pages = <<>> => shown = NoChain
    /\ request # None => RequestOK(request, table, query, WindowFrom, WindowTo, shown)

-----------------------------------------------------------------------------
(* A set of naturals has a least element. *)
LEMMA LeastNat ==
    ASSUME NEW N \in SUBSET Nat, N # {}
    PROVE  \E n \in N : \A m \in N : n <= m
<1>1. PICK n \in N : \A m \in N : <<m, n>> \notin OpToRel(<, Nat)
  BY NatLessThanWellFounded, WFMin
<1>2. \A m \in N : ~(m < n)
  BY <1>1 DEF OpToRel
<1>. QED
  BY <1>2

(* Oldest names the oldest row of a set: the one the cursor is made of. *)
LEMMA OldestExists ==
    ASSUME NEW S \in SUBSET Row, S # {}
    PROVE  Oldest(S) \in S /\ \A s \in S : NotAfter(Oldest(S), s)
<1> DEFINE Times == {r.ts : r \in S}
<1>1. PICK t \in Times : \A u \in Times : t <= u
  <2>1. Times \in SUBSET Nat /\ Times # {}
    BY DEF Row
  <2>. QED
    BY <2>1, LeastNat
<1> DEFINE Ids == {r.id : r \in {s \in S : s.ts = t}}
<1>2. PICK i \in Ids : \A j \in Ids : i <= j
  <2>1. Ids \in SUBSET Nat /\ Ids # {}
    BY <1>1 DEF Row
  <2>. QED
    BY <2>1, LeastNat
<1>3. PICK r \in S : r.ts = t /\ r.id = i
  BY <1>2
<1>4. \A s \in S : NotAfter(r, s)
  <2> SUFFICES ASSUME NEW s \in S PROVE NotAfter(r, s)
    OBVIOUS
  <2>1. r \in Row /\ s \in Row
    OBVIOUS
  <2>2. r.ts <= s.ts
    BY <1>1, <1>3
  <2>3. s.ts = r.ts => r.id <= s.id
    BY <1>2, <1>3
  <2>. QED
    BY <2>1, <2>2, <2>3 DEF NotAfter, Before, Row
<1>. QED
  BY <1>3, <1>4 DEF Oldest

(* The keyset comparisons, on rows. *)
LEMMA KeysetOrder ==
    ASSUME NEW a \in Row, NEW b \in Row, NEW c \in Row
    PROVE  /\ OlderThan(a, b) <=> Before(b, a)
           /\ Before(a, b) => ~NotAfter(b, a)
           /\ ~NotAfter(a, b) => Before(b, a)
           /\ NotAfter(a, b) /\ Before(c, a) => Before(c, b)
           /\ NotAfter(a, b) /\ Before(b, c) => NotAfter(a, c)
           /\ NotAfter(a, b) /\ NotAfter(b, c) => NotAfter(a, c)
           /\ Before(a, b) => NotAfter(a, b)
BY DEF OlderThan, Before, NotAfter, Row

(* A row the `where` selects is the tenant's, and passes the filter. *)
LEMMA SelectedMatches ==
    ASSUME NEW r \in Row, NEW f \in Filter, NEW t \in Tenants, NEW lo, NEW hi,
           f.tenant \in {Unset, t}, Where(f, t, lo, hi, r)
    PROVE  r.tenant = t /\ Matches(f, r)
<1>1. r.tenant = t /\ (f.q = Unset \/ f.q \in r.words)
  BY DEF Where
<1>2. \A c \in Fields : f.fields[c] \in {Unset, r.fields[c]}
  BY DEF Where
<1>3. /\ ~(f.source = "interceptor" /\ r.fields["provider"] # Interceptor)
      /\ ~(f.source = "service" /\ r.fields["provider"] = Interceptor)
  BY DEF Where, SourcePredicate
<1>. QED
  BY <1>1, <1>2, <1>3 DEF Where, Matches

(* What list's findMany and nextCursor make of the candidates. *)
LEMMA AnswerCuts ==
    ASSUME NEW S \in SUBSET Row, IsFiniteSet(S),
           NEW R \in SUBSET S, IsFirstDesc(R, S, limit)
    PROVE  /\ [rows |-> R, next |-> NextCursor(R)] \in Page
           /\ CutsAt([rows |-> R, next |-> NextCursor(R)], S)
<1> DEFINE page == [rows |-> R, next |-> NextCursor(R)]
<1>0. limit \in Nat \ {0} /\ None \notin Row
  BY PagesAssumption
<1>1. IsFiniteSet(R) /\ Cardinality(R) \in Nat /\ Cardinality(S) \in Nat
  BY FS_Subset, FS_CardinalityType
<1>2. CASE Cardinality(R) = limit
  <2>1. R # {}
    BY <1>0, <1>2, FS_EmptySet
  <2>2. Oldest(R) \in R /\ \A a \in R : NotAfter(Oldest(R), a)
    BY <2>1, OldestExists
  <2>3. NextCursor(R) = Oldest(R)
    BY <1>2 DEF NextCursor
  <2>4. ASSUME NEW b \in S, NotAfter(Oldest(R), b), b \notin R PROVE FALSE
    <3>1. Before(b, Oldest(R))
      BY <2>2, <2>4 DEF IsFirstDesc
    <3>. QED
      BY <2>2, <2>4, <3>1, KeysetOrder
  <2>5. NextCursor(R) # None
    BY <1>0, <2>2, <2>3
  <2>. QED
    BY <2>2, <2>3, <2>4, <2>5 DEF CutsAt, Page
<1>3. CASE Cardinality(R) # limit
  <2>1. Cardinality(R) = Cardinality(S)
    BY <1>3 DEF IsFirstDesc
  <2>2. R = S
    BY <2>1, FS_Subset
  <2>3. NextCursor(R) = None
    BY <1>3 DEF NextCursor
  <2>. QED
    BY <2>2, <2>3 DEF CutsAt, Page
<1>. QED
  BY <1>2, <1>3

(* Time passing and rows being committed leave a chain as good as it was. *)
LEMMA ChainKeeps ==
    ASSUME NEW chain \in Chain, NEW q, NEW T, NEW T2,
           NEW from \in Nat, NEW to \in Nat, NEW from2 \in Nat, NEW to2 \in Nat,
           ChainOK(chain, T, q, from, to), T \subseteq T2, from <= from2, to <= to2
    PROVE  ChainOK(chain, T2, q, from2, to2)
<1>1. chain.lo \in Nat /\ chain.hi \in Nat
  BY DEF Chain
<1>. QED
  BY <1>1 DEF ChainOK

LEMMA RequestKeeps ==
    ASSUME NEW req \in Request, NEW q, NEW T, NEW T2, NEW screen,
           NEW from \in Nat, NEW to \in Nat, NEW from2 \in Nat, NEW to2 \in Nat,
           RequestOK(req, T, q, from, to, screen), T \subseteq T2, from <= from2, to <= to2
    PROVE  RequestOK(req, T2, q, from2, to2, screen)
<1>1. req.chain \in Chain /\ req.lo \in Nat /\ req.hi \in Nat
  BY DEF Request
<1>2. ChainOK(req.chain, T2, q, from2, to2)
  BY <1>1, ChainKeeps DEF RequestOK
<1>. QED
  BY <1>1, <1>2 DEF RequestOK

LEMMA NoChainOK ==
    ASSUME NEW T, NEW q, NEW from \in Nat, NEW to \in Nat
    PROVE  /\ NoChain \in Chain
           /\ ChainOK(NoChain, T, q, from, to)
<1>1. NoChain.pages = <<>> /\ NoChain.start = {} /\ NoChain.lo = 0 /\ NoChain.hi = 0
  BY DEF NoChain
<1>2. NoChain \in Chain
  BY DEF NoChain, Chain
<1>3. Listed(NoChain) = {}
  BY <1>1 DEF Listed, ToSet
<1>4. Descends(NoChain)
  BY <1>1 DEF Descends
<1>. QED
  BY <1>1, <1>2, <1>3, <1>4 DEF ChainOK, CursorOf

(* The handler's window is a pair of times, and moves only forward. *)
LEMMA WindowType ==
    ASSUME TypeOK
    PROVE  WindowFrom \in Nat /\ WindowTo \in Nat
<1>1. query.filter \in Filter /\ clock \in Nat /\ WINDOW \in Nat
  BY PagesAssumption DEF TypeOK
<1>. QED
  BY <1>1 DEF WindowFrom, WindowTo, Monus, Filter

-----------------------------------------------------------------------------
(* A page that answers a chain's cursor extends it to a good chain. *)
LEMMA ExtendedOK ==
    ASSUME NEW req \in Request, NEW T \in SUBSET Row, NEW q \in Queries, NEW screen,
           NEW from \in Nat, NEW to \in Nat,
           RequestOK(req, T, q, from, to, screen), req.stage = "answered"
    PROVE  /\ Extended(req) \in Chain
           /\ Extended(req).pages # <<>>
           /\ ChainOK(Extended(req), T, q, from, to)
<1> DEFINE old == req.chain
           new == Extended(req)
           page == req.page
           n == Len(old.pages)
<1>1. /\ old \in Chain /\ page \in Page /\ req.snapshot \in SUBSET Row
      /\ req.lo \in Nat /\ req.hi \in Nat
  BY DEF Request
<1>2. /\ old.pages \in Seq(Page) /\ old.start \in SUBSET Row
      /\ old.lo \in Nat /\ old.hi \in Nat /\ n \in Nat
  BY <1>1 DEF Chain
<1>3. ChainOK(old, T, q, from, to) /\ CutsAt(page, Eligible(req, q))
  BY DEF RequestOK
<1>4. /\ new.pages = Append(old.pages, page)
      /\ new.start = IF old.pages = <<>> THEN req.snapshot ELSE old.start
      /\ new.hi = IF old.pages = <<>> THEN req.hi ELSE old.hi
      /\ new.lo = req.lo
  BY DEF Extended
<1>5. new \in Chain
  BY <1>1, <1>2, <1>4 DEF Extended, Chain
<1>6. /\ Len(new.pages) = n + 1
      /\ new.pages[n + 1] = page
      /\ \A i \in 1..n : new.pages[i] = old.pages[i]
  BY <1>1, <1>2, <1>4
<1>7. CursorOf(new) = page.next /\ new.pages # <<>>
  <2>1. new.pages # <<>>
    BY <1>2, <1>6
  <2>2. Last(new.pages) = page
    BY <1>6 DEF Last
  <2>. QED
    BY <2>1, <2>2 DEF CursorOf
<1>8. Listed(new) = Listed(old) \cup page.rows
  <2>1. ToSet(new.pages) = ToSet(old.pages) \cup {page}
    <3>1. new.pages \in Seq(Page)
      BY <1>1, <1>2, <1>4
    <3>2. DOMAIN new.pages = 1..(n + 1) /\ DOMAIN old.pages = 1..n
      BY <1>2, <1>6, <3>1
    <3>3. 1..(n + 1) = 1..n \cup {n + 1}
      BY <1>2
    <3>4. \A x : x \in ToSet(new.pages) <=> \E i \in 1..(n + 1) : x = new.pages[i]
      BY <3>2 DEF ToSet
    <3>5. \A x : x \in ToSet(old.pages) <=> \E i \in 1..n : x = old.pages[i]
      BY <3>2 DEF ToSet
    <3>6. \A x : x \in ToSet(new.pages) <=> x \in ToSet(old.pages) \/ x = page
      <4> SUFFICES ASSUME NEW x
                   PROVE  x \in ToSet(new.pages) <=> x \in ToSet(old.pages) \/ x = page
        OBVIOUS
      <4>1. (\E i \in 1..(n + 1) : x = new.pages[i]) <=>
              (\E i \in 1..n : x = new.pages[i]) \/ x = new.pages[n + 1]
        BY <3>3 
      <4>2. (\E i \in 1..n : x = new.pages[i]) <=> (\E i \in 1..n : x = old.pages[i])
        BY <1>6
      <4>. QED
        BY <1>6, <3>4, <3>5, <4>1, <4>2
    <3>. QED
      BY <3>6
  <2>. QED
    BY <2>1 DEF Listed
<1>9. \A i \in 1..n : old.pages[i].rows \subseteq Listed(old)
  BY <1>2 DEF Listed, ToSet
<1>10. old.pages # <<>> => CursorOf(old) # None /\ CursorOf(old) \in Row
  <2> SUFFICES ASSUME old.pages # <<>> PROVE CursorOf(old) # None /\ CursorOf(old) \in Row
    OBVIOUS
  <2>1. CursorOf(old) # None
    BY DEF RequestOK
  <2>2. CursorOf(old) = old.pages[n].next /\ n \in 1..n
    BY <1>2 DEF CursorOf, Last
  <2>3. old.pages[n] \in Page
    BY <1>2, <2>2
  <2>. QED
    BY <2>1, <2>2, <2>3 DEF Page
<1>11. Listed(old) \subseteq Row
  BY <1>3 DEF ChainOK
<1>12. page.rows \subseteq Row /\ page.rows \subseteq Eligible(req, q) /\ Eligible(req, q) \subseteq T
  BY <1>1, <1>3 DEF Page, CutsAt, Eligible, RequestOK
<1>13. ASSUME old.pages # <<>>, NEW a \in Listed(old), NEW b \in page.rows
       PROVE  Before(b, a)
  <2>1. NotAfter(CursorOf(old), a)
    BY <1>3, <1>10, <1>13 DEF ChainOK
  <2>2. OlderThan(CursorOf(old), b)
    BY <1>10, <1>12, <1>13 DEF Eligible
  <2>. QED
    BY <1>10, <1>11, <1>12, <1>13, <2>1, <2>2, KeysetOrder
<1>14. Descends(new)
  <2> SUFFICES ASSUME NEW i \in 1..(n + 1), NEW j \in 1..(n + 1), i < j,
                      NEW a \in new.pages[i].rows, NEW b \in new.pages[j].rows
               PROVE  Before(b, a)
    BY <1>6 DEF Descends
  <2>1. i \in 1..n /\ new.pages[i] = old.pages[i]
    BY <1>2, <1>6
  <2>2. CASE j \in 1..n
    BY <1>3, <1>6, <2>1, <2>2 DEF ChainOK, Descends
  <2>3. CASE j = n + 1
    <3>1. old.pages # <<>> /\ a \in Listed(old) /\ b \in page.rows
      BY <1>2, <1>6, <1>9, <2>1, <2>3
    <3>. QED
      BY <3>1, <1>13
  <2>. QED
    BY <1>2, <2>2, <2>3
<1>15. \A r \in Listed(new) : r \in T /\ r.tenant = q.tenant /\ Matches(q.filter, r)
  <2> SUFFICES ASSUME NEW r \in page.rows PROVE r.tenant = q.tenant /\ Matches(q.filter, r)
    BY <1>3, <1>8, <1>12 DEF ChainOK
  <2>1. r \in Row /\ Where(q.filter, q.tenant, req.lo, req.hi, r)
    BY <1>12 DEF Eligible
  <2>2. q.filter \in Filter /\ q.tenant \in Tenants /\ q.filter.tenant \in {Unset, q.tenant}
    BY PagesAssumption
  <2>. QED
    BY <1>1, <2>1, <2>2, SelectedMatches
<1>16. new.start \subseteq T /\ new.lo <= from /\ new.hi <= to
  BY <1>3, <1>4 DEF RequestOK, ChainOK
<1>17. ASSUME CursorOf(new) # None, NEW r \in Listed(new) PROVE NotAfter(CursorOf(new), r)
  <2>1. CASE r \in page.rows
    BY <1>3, <1>7, <1>17, <2>1 DEF CutsAt
  <2>2. CASE r \in Listed(old)
    <3>1. page.next \in page.rows
      BY <1>3, <1>7, <1>17 DEF CutsAt
    <3>2. old.pages # <<>>
      BY <2>2 DEF Listed, ToSet
    <3>. QED
      BY <1>7, <1>11, <1>12, <1>13, <2>2, <3>1, <3>2, KeysetOrder
  <2>. QED
    BY <1>8, <1>17, <2>1, <2>2
<1>18. ASSUME NEW r \in new.start,
              Where(q.filter, q.tenant, new.lo, new.hi, r), ReachedBy(new, r)
       PROVE  r \in Listed(new)
  <2>1. r \in Eligible(req, q) => r \in page.rows
    BY <1>3, <1>7, <1>18 DEF CutsAt, ReachedBy
  <2>2. CASE old.pages = <<>>
    BY <1>4, <1>8, <1>18, <2>1, <2>2 DEF Eligible, CursorOf
  <2>3. CASE old.pages # <<>>
    <3>1. r \in old.start /\ r \in req.snapshot /\ r \in Row
      BY <1>2, <1>4, <1>18, <2>3 DEF RequestOK
    <3>2. /\ Where(q.filter, q.tenant, old.lo, old.hi, r)
          /\ Where(q.filter, q.tenant, req.lo, req.hi, r)
      <4>1. req.lo <= r.ts /\ r.ts <= old.hi
        BY <1>4, <1>18, <2>3 DEF Where
      <4>2. old.lo <= req.lo /\ old.hi <= req.hi
        BY DEF RequestOK
      <4>3. r.ts \in Nat
        BY <3>1 DEF Row
      <4>4. old.lo <= r.ts /\ r.ts <= req.hi
        BY <1>1, <1>2, <4>1, <4>2, <4>3
      <4>. QED
        BY <1>18, <4>1, <4>4 DEF Where
    <3>3. CASE NotAfter(CursorOf(old), r)
      BY <1>3, <1>8, <2>3, <3>1, <3>2, <3>3 DEF ChainOK, ReachedBy
    <3>4. CASE ~NotAfter(CursorOf(old), r)
      <4>1. OlderThan(CursorOf(old), r)
        BY <1>10, <2>3, <3>1, <3>4, KeysetOrder
      <4>. QED
        BY <1>8, <2>1, <3>1, <3>2, <4>1 DEF Eligible
    <3>. QED
      BY <3>3, <3>4
  <2>. QED
    BY <2>2, <2>3
<1>. QED
  BY <1>5, <1>7, <1>14, <1>15, <1>16, <1>17, <1>18 DEF ChainOK

-----------------------------------------------------------------------------
LEMMA InitIInv == Init => IInv
<1> SUFFICES ASSUME Init PROVE IInv
  OBVIOUS
<1>1. NoChain \in Chain
  BY NoChainOK
<1>2. TypeOK
  BY <1>1 DEF Init, TypeOK
<1>3. ChainOK(NoChain, table, query, WindowFrom, WindowTo)
  BY <1>2, NoChainOK, WindowType
<1>. QED
  BY <1>2, <1>3, FS_EmptySet DEF Init, IInv

LEMMA MonusIsMonotone ==
    ASSUME NEW a \in Nat, NEW b \in Nat, NEW w \in Nat, a <= b
    PROVE  Monus(a, w) \in Nat /\ Monus(b, w) \in Nat /\ Monus(a, w) <= Monus(b, w)
BY DEF Monus

(* The window the handler would fix moves only forward. *)
LEMMA WindowAdvances ==
    ASSUME TypeOK, TypeOK', query' = query, clock <= clock'
    PROVE  /\ WindowFrom \in Nat /\ WindowTo \in Nat
           /\ WindowFrom' \in Nat /\ WindowTo' \in Nat
           /\ WindowFrom <= WindowFrom' /\ WindowTo <= WindowTo'
<1>1. /\ query.filter \in Filter /\ WINDOW \in Nat
      /\ clock \in Nat /\ clock' \in Nat
  BY PagesAssumption DEF TypeOK
<1>2. query.filter.from \in Nat \cup {Unset} /\ query.filter.to \in Nat \cup {Unset}
  BY <1>1 DEF Filter
<1>3. /\ Monus(clock, WINDOW) \in Nat /\ Monus(clock', WINDOW) \in Nat
      /\ Monus(clock, WINDOW) <= Monus(clock', WINDOW)
  BY <1>1, MonusIsMonotone
<1>. QED
  BY <1>1, <1>2, <1>3 DEF WindowFrom, WindowTo

(* What holds of a fetch, whatever its stage, for a new one. *)
LEMMA NewRequestOK ==
    ASSUME NEW chain \in Chain, NEW want \in Nat, NEW T, NEW q, NEW screen,
           NEW from \in Nat, NEW to \in Nat,
           ChainOK(chain, T, q, from, to),
           chain.pages = <<>> \/ CursorOf(chain) # None,
           chain.pages = <<>> => chain = NoChain,
           screen.pages # <<>> /\ want > Len(screen.pages) => CursorOf(screen) # None
    PROVE  /\ NewRequest(chain, want) \in Request
           /\ NewRequest(chain, want) # None => RequestOK(NewRequest(chain, want), T, q, from, to, screen)
<1>1. NoPage \in Page
  BY DEF NoPage, Page
<1>2. NewRequest(chain, want) \in Request
  BY <1>1 DEF NewRequest, Request
<1>3. /\ NewRequest(chain, want).chain = chain /\ NewRequest(chain, want).want = want
      /\ NewRequest(chain, want).stage = "sent"
  BY DEF NewRequest
<1>. QED
  BY <1>2, <1>3 DEF RequestOK

(* A step of the write path. *)
LEMMA WriteKeeps ==
    ASSUME IInv, TypeOK', UNCHANGED <<query, shown, request>>,
           clock <= clock', table \subseteq table',
           IsFiniteSet(table') /\ IsFiniteSet(inflight')
    PROVE  IInv'
<1>1. shown \in Chain
  BY DEF IInv, TypeOK
<1>2. ChainOK(shown, table', query, WindowFrom', WindowTo')
  BY <1>1, ChainKeeps, WindowAdvances DEF IInv
<1>3. ASSUME request # None
      PROVE  RequestOK(request, table', query, WindowFrom', WindowTo', shown)
  <2>1. request \in Request
    BY <1>3 DEF IInv, TypeOK
  <2>. QED
    BY <1>3, <2>1, RequestKeeps, WindowAdvances DEF IInv
<1>. QED
  BY <1>2, <1>3 DEF IInv

LEMMA FetchKeeps ==
    ASSUME IInv, NEW chain \in Chain, NEW want \in Nat, Fetch(chain, want),
           ChainOK(chain, table, query, WindowFrom, WindowTo),
           chain.pages = <<>> \/ CursorOf(chain) # None,
           chain.pages = <<>> => chain = NoChain,
           shown.pages # <<>> /\ want > Len(shown.pages) => CursorOf(shown) # None
    PROVE  IInv'
<1>1. WindowFrom \in Nat /\ WindowTo \in Nat /\ fetches' \in Nat
  BY WindowType DEF IInv, TypeOK, Fetch
<1>2. request' = NewRequest(chain, want) /\ UNCHANGED <<clock, inflight, table, query, shown>>
  BY DEF Fetch
<1>3. /\ request' \in Request
      /\ request' # None => RequestOK(request', table, query, WindowFrom, WindowTo, shown)
  BY <1>1, <1>2, NewRequestOK
<1>4. TypeOK'
  BY <1>1, <1>2, <1>3 DEF IInv, TypeOK
<1>5. WindowFrom' = WindowFrom /\ WindowTo' = WindowTo
  BY <1>2 DEF WindowFrom, WindowTo
<1>. QED
  BY <1>2, <1>3, <1>4, <1>5 DEF IInv

LEMMA NextIInv == IInv /\ [Next]_vars => IInv'
<1> SUFFICES ASSUME IInv, [Next]_vars PROVE IInv'
  OBVIOUS
<1>0. /\ TypeOK /\ shown \in Chain /\ WindowFrom \in Nat /\ WindowTo \in Nat
      /\ ChainOK(shown, table, query, WindowFrom, WindowTo)
      /\ shown.pages \in Seq(Page) /\ Len(shown.pages) \in Nat
      /\ NoChain \in Chain /\ NoChain.pages = <<>>
      /\ ChainOK(NoChain, table, query, WindowFrom, WindowTo)
  BY NoChainOK, WindowType DEF IInv, TypeOK, Chain, NoChain
<1>1. CASE Tick
  <2>1. TypeOK' /\ clock <= clock'
    BY <1>0, <1>1 DEF Tick, TypeOK
  <2>. QED
    BY <1>1, <2>1, WriteKeeps DEF Tick, IInv
<1>2. ASSUME NEW content \in Contents, NEW id \in 1..MaxRows, Stamp(content, id) PROVE IInv'
  <2>1. MkRow(clock, id, content) \in Row
    <3>1. content \in Content /\ clock \in Nat /\ id \in Nat
      BY <1>0, PagesAssumption DEF TypeOK
    <3>. QED
      BY <3>1 DEF MkRow, Row, Content
  <2>2. TypeOK'
    BY <1>0, <1>2, <2>1 DEF Stamp, TypeOK
  <2>3. IsFiniteSet(inflight')
    BY <1>2, FS_AddElement DEF Stamp, IInv
  <2>4. clock <= clock'
    BY <1>0, <1>2 DEF Stamp, TypeOK
  <2>. QED
    BY <1>2, <2>2, <2>3, <2>4, WriteKeeps DEF Stamp, IInv
<1>3. ASSUME NEW r \in inflight, Commit(r) PROVE IInv'
  <2>1. TypeOK'
    BY <1>0, <1>3 DEF Commit, TypeOK
  <2>2. IsFiniteSet(inflight') /\ IsFiniteSet(table')
    BY <1>3, FS_AddElement, FS_RemoveElement DEF Commit, IInv
  <2>3. clock <= clock'
    BY <1>0, <1>3 DEF Commit, TypeOK
  <2>. QED
    BY <1>3, <2>1, <2>2, <2>3, WriteKeeps DEF Commit, IInv
<1>4. CASE Open
  BY <1>0, <1>4, FetchKeeps DEF Open
<1>5. CASE FetchNextPage
  <2>1. CursorOf(shown) # None /\ shown.pages # <<>>
    BY <1>5 DEF FetchNextPage, CursorOf
  <2>. QED
    BY <1>0, <1>5, <2>1, FetchKeeps DEF FetchNextPage
<1>6. CASE Refresh
  BY <1>0, <1>6, FetchKeeps DEF Refresh
<1>7. CASE Ask
  <2>1. request \in Request /\ RequestOK(request, table, query, WindowFrom, WindowTo, shown)
    BY <1>0, <1>7 DEF Ask, IInv, TypeOK
  <2>2. /\ request' = [request EXCEPT !.stage = "asked", !.lo = WindowFrom, !.hi = WindowTo]
        /\ UNCHANGED <<clock, inflight, table, query, shown, fetches>>
    BY <1>7 DEF Ask
  <2>3. /\ request' \in Request /\ request'.chain = request.chain /\ request'.want = request.want
        /\ request'.stage = "asked" /\ request'.lo = WindowFrom /\ request'.hi = WindowTo
    BY <1>0, <2>1, <2>2 DEF Request
  <2>4. RequestOK(request', table, query, WindowFrom, WindowTo, shown)
    BY <1>0, <2>1, <2>3 DEF RequestOK, ChainOK
  <2>5. WindowFrom' = WindowFrom /\ WindowTo' = WindowTo
    BY <2>2 DEF WindowFrom, WindowTo
  <2>6. TypeOK'
    BY <1>0, <2>2, <2>3 DEF TypeOK
  <2>. QED
    BY <2>2, <2>4, <2>5, <2>6 DEF IInv
<1>8. CASE Answer
  <2>1. request \in Request /\ RequestOK(request, table, query, WindowFrom, WindowTo, shown)
    BY <1>0, <1>8 DEF Answer, IInv, TypeOK
  <2> DEFINE S == Candidates(CursorOf(request.chain), request.lo, request.hi)
  <2>2. PICK rows \in SUBSET S :
          /\ IsFirstDesc(rows, S, limit)
          /\ request' = [request EXCEPT !.stage = "answered", !.snapshot = table,
                                        !.page = [rows |-> rows, next |-> NextCursor(rows)]]
    BY <1>8 DEF Answer
  <2>3. UNCHANGED <<clock, inflight, table, query, shown, fetches>> /\ request.stage = "asked"
    BY <1>8 DEF Answer
  <2>4. S \subseteq table /\ S \subseteq Row /\ IsFiniteSet(S)
    BY <1>0, FS_Subset DEF Candidates, IInv, TypeOK
  <2> DEFINE page == [rows |-> rows, next |-> NextCursor(rows)]
  <2>5. page \in Page /\ CutsAt(page, S)
    <3> HIDE DEF S
    <3>. QED
      BY <2>2, <2>4, AnswerCuts
  <2>6. /\ request' \in Request /\ request'.chain = request.chain /\ request'.want = request.want
        /\ request'.stage = "answered" /\ request'.lo = request.lo /\ request'.hi = request.hi
        /\ request'.snapshot = table /\ request'.page = page
    <3> HIDE DEF page, S
    <3>. QED
      BY <1>0, <2>1, <2>2, <2>5 DEF Request, TypeOK, page
  <2>7. Eligible(request', query) = S
    BY <2>6 DEF Eligible, Candidates
  <2>8. RequestOK(request', table, query, WindowFrom, WindowTo, shown)
    <3> HIDE DEF page, S
    <3>. QED
      BY <2>1, <2>3, <2>5, <2>6, <2>7 DEF RequestOK, ChainOK
  <2>9. WindowFrom' = WindowFrom /\ WindowTo' = WindowTo
    BY <2>3 DEF WindowFrom, WindowTo
  <2>10. TypeOK'
    BY <1>0, <2>3, <2>6 DEF TypeOK
  <2>. QED
    BY <2>3, <2>8, <2>9, <2>10 DEF IInv
<1>9. CASE Receive
  <2>1. /\ request \in Request /\ RequestOK(request, table, query, WindowFrom, WindowTo, shown)
        /\ request.stage = "answered"
    BY <1>0, <1>9 DEF Receive, IInv, TypeOK
  <2> DEFINE chain == Extended(request)
  <2>2. chain \in Chain /\ chain.pages # <<>> /\ ChainOK(chain, table, query, WindowFrom, WindowTo)
    BY <1>0, <2>1, ExtendedOK DEF TypeOK
  <2>3. UNCHANGED <<clock, inflight, table, query, fetches>>
    BY <1>9 DEF Receive
  <2>4. WindowFrom' = WindowFrom /\ WindowTo' = WindowTo
    BY <2>3 DEF WindowFrom, WindowTo
  <2> HIDE DEF chain
  <2>5. CASE shown' = chain /\ request' = None
    BY <1>0, <2>2, <2>3, <2>4, <2>5 DEF IInv, TypeOK
  <2>6. CASE CursorOf(chain) # None /\ request' = NewRequest(chain, request.want) /\ shown' = shown
    <3>1. request.want \in Nat
      BY <2>1 DEF Request
    <3>2. shown.pages # <<>> /\ request.want > Len(shown.pages) => CursorOf(shown) # None
      BY <2>1 DEF RequestOK
    <3>3. /\ NewRequest(chain, request.want) \in Request
          /\ NewRequest(chain, request.want) # None =>
               RequestOK(NewRequest(chain, request.want), table, query, WindowFrom, WindowTo, shown)
      BY <1>0, <2>2, <2>6, <3>1, <3>2, NewRequestOK
    <3>. QED
      BY <1>0, <2>3, <2>4, <2>6, <3>3 DEF IInv, TypeOK
  <2>. QED
    BY <1>9, <2>5, <2>6 DEF Receive, chain
<1>10. CASE FetchFails
  <2>1. request \in Request /\ RequestOK(request, table, query, WindowFrom, WindowTo, shown)
    BY <1>0, <1>10 DEF FetchFails, IInv, TypeOK
  <2>2. /\ UNCHANGED <<clock, inflight, table, query, shown>> /\ fetches' \in Nat
        /\ request' = None \/ request' = Retried(request)
    BY <1>0, <1>10 DEF FetchFails, TypeOK
  <2>3. WindowFrom' = WindowFrom /\ WindowTo' = WindowTo
    BY <2>2 DEF WindowFrom, WindowTo
  <2>4. request.want \in Nat
    BY <2>1 DEF Request
  <2>5. shown.pages = <<>> => shown = NoChain
    BY DEF IInv
  <2>6. /\ Retried(request) \in Request
        /\ Retried(request) # None =>
             RequestOK(Retried(request), table, query, WindowFrom, WindowTo, shown)
    <3>1. shown.pages # <<>> /\ request.want > Len(shown.pages) => CursorOf(shown) # None
      BY <2>1 DEF RequestOK
    <3>2. CASE request.want > Len(shown.pages)
      <4>1. shown.pages = <<>> \/ CursorOf(shown) # None
        BY <3>1, <3>2
      <4>2. /\ NewRequest(shown, request.want) \in Request
            /\ NewRequest(shown, request.want) # None =>
                 RequestOK(NewRequest(shown, request.want), table, query, WindowFrom, WindowTo, shown)
        BY <1>0, <2>4, <2>5, <3>1, <4>1, NewRequestOK
      <4>. QED
        BY <3>2, <4>2 DEF Retried
    <3>3. CASE ~(request.want > Len(shown.pages))
      <4>1. /\ NewRequest(NoChain, request.want) \in Request
            /\ NewRequest(NoChain, request.want) # None =>
                 RequestOK(NewRequest(NoChain, request.want), table, query, WindowFrom, WindowTo, shown)
        BY <1>0, <2>4, <3>1, NewRequestOK
      <4>. QED
        BY <3>3, <4>1 DEF Retried
    <3>. QED
      BY <3>2, <3>3
  <2>. QED
    BY <1>0, <2>2, <2>3, <2>6 DEF IInv, TypeOK
<1>11. CASE UNCHANGED vars
  <2>1. TypeOK' /\ clock <= clock'
    BY <1>0, <1>11 DEF vars, TypeOK
  <2>. QED
    BY <1>11, <2>1, WriteKeeps DEF vars, IInv
<1>. QED
  BY <1>1, <1>2, <1>3, <1>4, <1>5, <1>6, <1>7, <1>8, <1>9, <1>10, <1>11 DEF Next

-----------------------------------------------------------------------------
LEMMA InvariantHolds == Spec => []IInv
BY InitIInv, NextIInv, PTL DEF Spec

(* Every variable of the list keeps its type. *)
THEOREM PagesTypeCorrect == Spec => []TypeOK
BY InvariantHolds, PTL DEF IInv

(* The list is strictly descending across pages, and so free of duplicates. *)
THEOREM DescendsAlways == Spec => []PagesDescend
<1>1. IInv => PagesDescend
  BY DEF IInv, ChainOK, PagesDescend
<1>. QED
  BY InvariantHolds, <1>1, PTL

(* A scan skips no row that was in the table when it began. *)
THEOREM NothingSkipped == Spec => []NoStableRowSkipped
<1>1. IInv => NoStableRowSkipped
  BY DEF IInv, ChainOK, NoStableRowSkipped
<1>. QED
  BY InvariantHolds, <1>1, PTL

(* The list shows committed rows of its tenant and filter, and no others. *)
THEOREM OnlyAsked == Spec => []OnlyAskedRows
<1>1. IInv => OnlyAskedRows
  BY DEF IInv, ChainOK, OnlyAskedRows
<1>. QED
  BY InvariantHolds, <1>1, PTL
=============================================================================

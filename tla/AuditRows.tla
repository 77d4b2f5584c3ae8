------------------------------ MODULE AuditRows ------------------------------
(***************************************************************************)
(* Rows of the notification_logs table, the keyset order over them and the *)
(* two row filters of apps/api: the `where` clause buildWhere compiles for *)
(* Postgres, and the in-process predicate `matches` the live tail applies. *)
(*                                                                         *)
(* A row is [ts, id] plus its content.  ts is the entry's timestamp in     *)
(* milliseconds, id stands for the uuid: only its order (the tie-breaker   *)
(* of the keyset) and its identity matter.  The content keeps what the     *)
(* filters can tell apart:                                                 *)
(*   tenant   the owning tenant                                            *)
(*   fields   the columns compared for equality (channel, verb, purpose,   *)
(*            recipient, providerName)                                     *)
(*   words    the search texts errorMessage contains, whatever their case  *)
(*            ({} for a null column)                                       *)
(***************************************************************************)
EXTENDS Integers, FiniteSets

CONSTANTS
    Tenants,      \* tenant identifiers
    Fields,       \* the equality-filtered columns; "provider" is one of them
    Values,       \* their values; "__interceptor__" is one of them
    Words,        \* free-text search terms
    Unset         \* an absent (undefined) filter parameter

ASSUME FilterAssumption ==
    /\ "provider" \in Fields
    /\ "__interceptor__" \in Values
    /\ Unset \notin Values /\ Unset \notin Tenants /\ Unset \notin Words
    /\ Unset \notin Int /\ Unset \notin {"interceptor", "service"}

Interceptor == "__interceptor__"

Content == [tenant : Tenants, fields : [Fields -> Values], words : SUBSET Words]

Row == [ts : Nat, id : Nat, tenant : Tenants,
        fields : [Fields -> Values], words : SUBSET Words]

MkRow(ts, id, content) ==
    [ts |-> ts, id |-> id, tenant |-> content.tenant,
     fields |-> content.fields, words |-> content.words]

(* AuditQueryDto without its paging members *)
Filter == [tenant : Tenants \cup {Unset},
           fields : [Fields -> Values \cup {Unset}],
           q      : Words \cup {Unset},
           source : {"interceptor", "service", Unset},
           from   : Nat \cup {Unset},
           to     : Nat \cup {Unset}]

-----------------------------------------------------------------------------
(* The keyset order of the table: (timestamp, id), lexicographically. *)
Before(a, b) == a.ts < b.ts \/ (a.ts = b.ts /\ a.id < b.id)

NotAfter(a, b) == Before(a, b) \/ (a.ts = b.ts /\ a.id = b.id)

(* orderBy ascending, take: the `take` oldest rows of a set. *)
FirstAsc(S, take) == {r \in S : Cardinality({s \in S : Before(s, r)}) < take}

(* orderBy descending, take: R is what such a findMany returns from S. *)
IsFirstDesc(R, S, take) ==
    /\ R \subseteq S
    /\ Cardinality(R) = IF Cardinality(S) < take THEN Cardinality(S) ELSE take
    /\ \A a \in R, b \in S \ R : Before(b, a)

Oldest(S) == CHOOSE r \in S : \A s \in S : NotAfter(r, s)

-----------------------------------------------------------------------------
SourcePredicate(source, r) ==
    CASE source = "interceptor" -> r.fields["provider"] = Interceptor
      [] source = "service"     -> r.fields["provider"] # Interceptor
      [] OTHER                  -> TRUE

WhereQueryTenant(f, restriction, lo, hi, r) ==  \* mutant: the query's tenant wins
    /\ lo <= r.ts /\ r.ts <= hi
    /\ f.tenant \in {Unset, r.tenant}
    /\ \A c \in Fields : f.fields[c] \in {Unset, r.fields[c]}
    /\ f.q \in {Unset} \cup r.words
    /\ SourcePredicate(f.source, r)

(* buildWhere with its window already defaulted to lo..hi and a tenant
   restriction, which replaces the query's own tenant.                     *)
Where(f, restriction, lo, hi, r) ==
    /\ lo <= r.ts /\ r.ts <= hi
    /\ r.tenant = restriction
    /\ \A c \in Fields : f.fields[c] # Unset => r.fields[c] = f.fields[c]
    /\ f.q # Unset => f.q \in r.words
    /\ SourcePredicate(f.source, r)

(* matches(entry, filter): no window, the query's own tenant. *)
Matches(f, r) ==
    /\ f.tenant = Unset \/ r.tenant = f.tenant
    /\ \A c \in Fields : f.fields[c] \in {Unset, r.fields[c]}
    /\ f.q = Unset \/ f.q \in r.words
    /\ ~(f.source = "interceptor" /\ r.fields["provider"] # Interceptor)
    /\ ~(f.source = "service" /\ r.fields["provider"] = Interceptor)

(* The keyset clauses appended to a `where`: strictly newer for the replay,
   strictly older for the next page.                                       *)
NewerByTimestamp(cursor, r) == r.ts > cursor.ts  \* mutant: ties are lost
NotOlderThan(cursor, r) ==                       \* mutant: the cursor's row again
    r.ts > cursor.ts \/ (r.ts = cursor.ts /\ r.id >= cursor.id)
NewerThan(cursor, r) == r.ts > cursor.ts \/ (r.ts = cursor.ts /\ r.id > cursor.id)

OlderByTimestamp(cursor, r) == r.ts < cursor.ts  \* mutant: ties are lost
NotNewerThan(cursor, r) ==                       \* mutant: the cursor's row again
    r.ts < cursor.ts \/ (r.ts = cursor.ts /\ r.id <= cursor.id)
OlderThan(cursor, r) == r.ts < cursor.ts \/ (r.ts = cursor.ts /\ r.id < cursor.id)
=============================================================================

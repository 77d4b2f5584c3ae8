--------------------------- MODULE AuditTailProofs ---------------------------
(***************************************************************************)
(* Theorems about AuditTail for every set of tenants, clients,             *)
(* subscriptions and row contents, every replay limit and every number of  *)
(* faults.                                                                 *)
(***************************************************************************)
EXTENDS AuditTail, WellFoundedInduction, TLAPS

USE FilterAssumption, TailAssumption

-----------------------------------------------------------------------------
(* The row filters and the keyset order, for every filter and every two rows. *)

(* The in-process predicate mirrors the SQL one: for a row of the requesting *)
(* tenant inside the window, `matches` accepts exactly the rows the `where`  *)
(* of buildWhere selects, whatever the filter.  This is what lets a client   *)
(* stitch the list, the replay and the live feed together.                   *)
THEOREM MatchesMirrorsWhere ==
    ASSUME NEW r \in Row, NEW f \in Filter, NEW t \in Tenants,
           NEW lo \in Nat, NEW hi \in Nat, f.tenant \in {Unset, t}
    PROVE  Where(f, t, lo, hi, r) <=>
              lo <= r.ts /\ r.ts <= hi /\ r.tenant = t /\ Matches(f, r)
<1>1. r.fields \in [Fields -> Values] /\ f.fields \in [Fields -> Values \cup {Unset}]
  BY DEF Row, Filter
<1>2. f.source \in {"interceptor", "service", Unset}
  BY DEF Filter
<1>3. SourcePredicate(f.source, r) <=>
        /\ ~(f.source = "interceptor" /\ r.fields["provider"] # Interceptor)
        /\ ~(f.source = "service" /\ r.fields["provider"] = Interceptor)
  BY <1>2, FilterAssumption DEF SourcePredicate
<1>4. (\A c \in Fields : f.fields[c] # Unset => r.fields[c] = f.fields[c]) <=>
      (\A c \in Fields : f.fields[c] \in {Unset, r.fields[c]})
  BY <1>1
<1>. QED
  BY <1>3, <1>4, FilterAssumption DEF Where, Matches

(* The keyset order: NewerThan is the strict order of the table, so a cursor *)
(* row is never returned again and no two rows are each newer than the other.*)
THEOREM KeysetIsStrict ==
    ASSUME NEW a \in Row, NEW b \in Row
    PROVE  /\ NewerThan(a, b) <=> Before(a, b)
           /\ OlderThan(a, b) <=> Before(b, a)
           /\ Before(a, b) => ~NotAfter(b, a)
           /\ Before(a, b) \/ Before(b, a) \/ (a.ts = b.ts /\ a.id = b.id)
BY DEF NewerThan, OlderThan, Before, NotAfter, Row

-----------------------------------------------------------------------------
LEMMA TailIndex ==
    ASSUME NEW S, NEW s \in Seq(S), s # <<>>, NEW i \in DOMAIN Tail(s)
    PROVE  i + 1 \in DOMAIN s /\ Tail(s)[i] = s[i + 1]
OBVIOUS

(* The rows the pipeline logs are rows of the table's type. *)
LEMMA MkRowType ==
    ASSUME NEW ts \in Nat, NEW id \in Nat, NEW content \in Contents
    PROVE  MkRow(ts, id, content) \in Row
BY DEF MkRow, Row, Content

(* The replay's bounds are natural numbers. *)
LEMMA ReplayToType ==
    ASSUME TypeOK, NEW c \in Clients
    PROVE  ReplayTo(c) \in Nat
<1>1. sub[c] \in [tenant : Tenants, filter : Filter]
  BY DEF TypeOK
<1>2. sub[c].filter.to \in Nat \cup {Unset}
  BY <1>1 DEF Filter
<1>. QED
  BY <1>2 DEF ReplayTo, TypeOK

-----------------------------------------------------------------------------
LEMMA InitTypeOK == Init => TypeOK
BY DEF Init, TypeOK, NoConn, ConnType, Phases, States, Hazards

LEMMA CutTypeOK ==
    ASSUME TypeOK, NEW C \in SUBSET Clients, Cut(C)
    PROVE  /\ conn' \in [Clients -> ConnType]
           /\ wire' \in [Clients -> Seq(Frame \cup {Ping})]
           /\ source' \in [Clients -> States]
           /\ faults' \in Nat
BY DEF Cut, TypeOK, NoConn, ConnType, Phases, States

(* What a client is owed are rows. *)
LEMMA OwedAreRows ==
    ASSUME TypeOK, NEW c \in Clients, wire[c] # <<>>
    PROVE  OwedByFeed(c) \subseteq Row /\ OwedByReplay(c) \subseteq Row
<1>1. wire[c] \in Seq(Frame \cup {Ping}) /\ conn[c] \in ConnType
  BY DEF TypeOK
<1>2. Tail(wire[c]) \in Seq(Frame \cup {Ping})
  BY <1>1
<1>3. \A f \in ToSet(Tail(wire[c])) : f # Ping => f.row \in Row
  BY <1>2 DEF ToSet, Frame
<1>4. Behind(c, "live") \subseteq Row /\ Behind(c, "replay") \subseteq Row
  BY <1>3 DEF Behind
<1>. QED
  BY <1>1, <1>4 DEF OwedByFeed, OwedByReplay, Backlog, TypeOK, ConnType

LEMMA NextTypeOK == TypeOK /\ [Next]_vars => TypeOK'
<1> SUFFICES ASSUME TypeOK, [Next]_vars PROVE TypeOK'
  OBVIOUS
<1> USE DEF TypeOK
<1>1. CASE Tick
  BY <1>1 DEF Tick, linkVars
<1>2. ASSUME NEW content \in Contents, NEW id \in 1..MaxRows, BeginCreate(content, id)
      PROVE  TypeOK'
  <2>0. clock \in Nat /\ id \in Nat
    OBVIOUS
  <2>1. MkRow(clock, id, content) \in Row
    BY <2>0, MkRowType
  <2>2. late' \in [Clients -> [feed : SUBSET Row, replay : SUBSET Row]]
    BY <1>2, <2>1 DEF BeginCreate
  <2>. QED
    BY <1>2, <2>1, <2>2 DEF BeginCreate, linkVars
<1>3. ASSUME NEW r \in inflight, Commit(r) \/ FailCreate(r)
      PROVE  TypeOK'
  BY <1>3 DEF Commit, FailCreate, linkVars
<1>4. ASSUME NEW r \in unpublished, Publish(r)
      PROVE  TypeOK'
  <2>1. [row |-> r, via |-> "live"] \in Frame
    BY DEF Frame
  <2>2. wire' \in [Clients -> Seq(Frame \cup {Ping})]
    BY <1>4, <2>1 DEF Publish
  <2>. QED
    BY <1>4, <2>2 DEF Publish
<1>5. ASSUME NEW c \in Clients, Connect(c)
      PROVE  TypeOK'
  <2>1. ReplayTo(c) \in Nat
    BY ReplayToType
  <2>2. conn' \in [Clients -> ConnType]
    BY <1>5, <2>1 DEF Connect, ConnType, Phases, NoConn
  <2>3. hazard' \in [Clients -> SUBSET Hazards]
    BY <1>5 DEF Connect, Expose, Hazards
  <2>. QED
    BY <1>5, <2>2, <2>3 DEF Connect, writeVars, States
<1>6. ASSUME NEW c \in Clients, ConnectRefused(c)
      PROVE  TypeOK'
  BY <1>6 DEF ConnectRefused, writeVars, States
<1>7. ASSUME NEW c \in Clients, RunReplayQuery(c)
      PROVE  TypeOK'
  <2>1. PICK kept \in SUBSET Row, phase \in Phases :
          conn' = [conn EXCEPT ![c].rest = kept, ![c].phase = phase]
    <3> DEFINE kept == {r \in FirstAsc(Selected(c, table), REPLAY_LIMIT) :
                          Matches(sub[c].filter, r)}
    <3>1. kept \in SUBSET Row
      BY DEF FirstAsc, Selected
    <3>2. conn' = [conn EXCEPT ![c].rest = kept,
                              ![c].phase = IF kept = {} THEN "live" ELSE "drain"]
      BY <1>7 DEF RunReplayQuery, PhaseOf
    <3>3. (IF kept = {} THEN "live" ELSE "drain") \in Phases
      BY DEF Phases
    <3> HIDE DEF kept
    <3>. QED
      BY <3>1, <3>2, <3>3
  <2>2. conn' \in [Clients -> ConnType]
    <3>1. conn[c] \in ConnType
      OBVIOUS
    <3>2. [conn[c] EXCEPT !.rest = kept, !.phase = phase] \in ConnType
      BY <3>1 DEF ConnType
    <3>3. conn' = [conn EXCEPT ![c] = [conn[c] EXCEPT !.rest = kept, !.phase = phase]]
      BY <2>1
    <3>. QED
      BY <3>2, <3>3
  <2>3. hazard' \in [Clients -> SUBSET Hazards]
    BY <1>7 DEF RunReplayQuery, Expose, Hazards
  <2>. QED
    BY <1>7, <2>2, <2>3 DEF RunReplayQuery, writeVars
<1>8. ASSUME NEW c \in Clients, EmitReplayed(c)
      PROVE  TypeOK'
  <2>1. PICK r \in conn[c].rest :
          /\ wire' = [wire EXCEPT ![c] = Append(@, [row |-> r, via |-> "replay"])]
          /\ conn' = [conn EXCEPT ![c].rest = conn[c].rest \ {r},
                                  ![c].phase = IF conn[c].rest \ {r} = {} THEN "live" ELSE "drain"]
    BY <1>8 DEF EmitReplayed, PhaseOf
  <2>2. conn[c] \in ConnType
    OBVIOUS
  <2>3. [row |-> r, via |-> "replay"] \in Frame
    BY <2>2 DEF Frame, ConnType
  <2>4. wire' \in [Clients -> Seq(Frame \cup {Ping})]
    BY <2>1, <2>3
  <2>5. conn' \in [Clients -> ConnType]
    BY <2>1, <2>2 DEF ConnType, Phases
  <2>. QED
    BY <1>8, <2>4, <2>5 DEF EmitReplayed, writeVars
<1>9. ASSUME NEW c \in Clients, KeepAlive(c)
      PROVE  TypeOK'
  BY <1>9 DEF KeepAlive, writeVars
<1>10. ASSUME NEW c \in Clients, ReceiveRow(c)
       PROVE  TypeOK'
  <2>1. Head(wire[c]) \in Frame
    BY <1>10 DEF ReceiveRow
  <2>2. Head(wire[c]).row \in Row
    BY <2>1 DEF Frame
  <2>3. wire' \in [Clients -> Seq(Frame \cup {Ping})]
    BY <1>10 DEF ReceiveRow
  <2>4. received' \in [Clients -> Seq(Row)] /\ lastId' \in [Clients -> Row \cup {Blank, Garbage}]
    BY <1>10, <2>2 DEF ReceiveRow
  <2>5. late' \in [Clients -> [feed : SUBSET Row, replay : SUBSET Row]]
    <3> DEFINE passed(S) == {s \in S : NotAfter(s, Head(wire[c]).row)}
    <3>1. OwedByFeed(c) \subseteq Row /\ OwedByReplay(c) \subseteq Row
      BY <1>10, OwedAreRows DEF ReceiveRow
    <3>2. passed(OwedByFeed(c)) \subseteq Row /\ passed(OwedByReplay(c)) \subseteq Row
      BY <3>1
    <3>3. late' = [late EXCEPT ![c] = [feed |-> late[c].feed \cup passed(OwedByFeed(c)),
                                      replay |-> late[c].replay \cup passed(OwedByReplay(c))]]
      BY <1>10 DEF ReceiveRow
    <3> HIDE DEF passed
    <3>4. late[c].feed \subseteq Row /\ late[c].replay \subseteq Row
      OBVIOUS
    <3>. QED
      BY <3>2, <3>3, <3>4
  <2>. QED
    BY <1>10, <2>3, <2>4, <2>5 DEF ReceiveRow, writeVars
<1>11. ASSUME NEW c \in Clients, ReceivePing(c)
       PROVE  TypeOK'
  <2>1. wire' \in [Clients -> Seq(Frame \cup {Ping})]
    BY <1>11 DEF ReceivePing
  <2>2. lastId' \in [Clients -> Row \cup {Blank, Garbage}]
    BY <1>11 DEF ReceivePing
  <2>. QED
    BY <1>11, <2>1, <2>2 DEF ReceivePing, writeVars
<1>12. ASSUME NEW c \in Clients, Close(c)
       PROVE  TypeOK'
  BY <1>12 DEF Close, writeVars, NoConn, ConnType, Phases, States
<1>13. ASSUME NEW c \in Clients, Fail(c)
       PROVE  TypeOK'
  <2>1. Cut({c})
    BY <1>13 DEF Fail, Drop, ReplayFails
  <2>. QED
    BY <1>13, <2>1, CutTypeOK DEF Fail, Drop, ReplayFails, writeVars
<1>14. CASE Crash
  <2>1. Cut(Clients)
    BY <1>14 DEF Crash
  <2>2. table' \subseteq Row
    BY <1>14 DEF Crash
  <2>. QED
    BY <1>14, <2>1, <2>2, CutTypeOK DEF Crash
<1>15. CASE Restart
  BY <1>15 DEF Restart, linkVars, writeVars
<1>16. CASE UNCHANGED vars
  BY <1>16 DEF vars
<1>. QED
  BY <1>1, <1>2, <1>3, <1>4, <1>5, <1>6, <1>7, <1>8, <1>9, <1>10, <1>11, <1>12,
     <1>13, <1>14, <1>15, <1>16 DEF Next, Write, Serve, Browse

(* Every variable keeps its type in every reachable state. *)
THEOREM TypeCorrect == Spec => []TypeOK
BY InitTypeOK, NextTypeOK, PTL DEF Spec

-----------------------------------------------------------------------------
(***************************************************************************)
(* The scope of what a client is sent.  OnlyCommittedMatches and           *)
(* TenantIsolation speak of frames, replay leftovers and received rows;    *)
(* they are inductive together once announced rows are known to be in the  *)
(* table, which is what makes the live feed safe.                          *)
(***************************************************************************)
Allowed(c, r) == r \in table /\ Visible(c, r)

ScopeInv ==
    /\ unpublished \subseteq table
    /\ \A c \in Clients :
         /\ \A i \in DOMAIN wire[c] : wire[c][i] # Ping => Allowed(c, wire[c][i].row)
         /\ \A i \in DOMAIN received[c] : Allowed(c, received[c][i])
         /\ \A r \in conn[c].rest : Allowed(c, r)

(* The replay may only leave rows the client is allowed to see: the tenant  *)
(* comes from the `where`, the rest from the second look of `matches`.      *)
LEMMA ReplayIsAllowed ==
    ASSUME NEW c \in Clients,
           NEW r \in FirstAsc(Selected(c, table), REPLAY_LIMIT),
           Matches(sub[c].filter, r)
    PROVE  Allowed(c, r)
BY DEF FirstAsc, Selected, Where, Allowed, Visible

LEMMA InitScope == Init => ScopeInv
BY DEF Init, ScopeInv, NoConn

(* Steps that add nothing to a wire, a replay or what was received. *)
LEMMA QuietScope ==
    ASSUME TypeOK, ScopeInv,
           UNCHANGED <<sub, received>>, table \subseteq table',
           unpublished' \subseteq table',
           \A c \in Clients : wire'[c] \in {wire[c], <<>>},
           \A c \in Clients : conn'[c].rest \subseteq conn[c].rest
    PROVE  ScopeInv'
BY DEF ScopeInv, Allowed, Visible

LEMMA NextScope == TypeOK /\ ScopeInv /\ [Next]_vars => ScopeInv'
<1> SUFFICES ASSUME TypeOK, ScopeInv, [Next]_vars PROVE ScopeInv'
  OBVIOUS
<1>1. CASE Tick
  BY <1>1, QuietScope DEF Tick, linkVars, ScopeInv
<1>2. ASSUME NEW content \in Contents, NEW id \in 1..MaxRows, BeginCreate(content, id)
      PROVE  ScopeInv'
  BY <1>2, QuietScope DEF BeginCreate, linkVars, ScopeInv
<1>3. ASSUME NEW r \in inflight, Commit(r) \/ FailCreate(r)
      PROVE  ScopeInv'
  BY <1>3, QuietScope DEF Commit, FailCreate, linkVars, ScopeInv
<1>4. ASSUME NEW r \in unpublished, Publish(r)
      PROVE  ScopeInv'
  <2>1. r \in table
    BY DEF ScopeInv
  <2>2. ASSUME NEW c \in Clients, NEW i \in DOMAIN wire'[c], wire'[c][i] # Ping
        PROVE  Allowed(c, wire'[c][i].row)
    <3>1. wire[c] \in Seq(Frame \cup {Ping})
      BY DEF TypeOK
    <3>2. CASE wire'[c] = wire[c]
      BY <2>2, <3>2 DEF ScopeInv
    <3>3. CASE /\ wire'[c] = Append(wire[c], [row |-> r, via |-> "live"])
               /\ Visible(c, r)
      <4>1. CASE i = Len(wire[c]) + 1
        BY <2>1, <3>1, <3>3, <4>1 DEF Allowed
      <4>2. CASE i # Len(wire[c]) + 1
        <5>1. i \in DOMAIN wire[c] /\ wire'[c][i] = wire[c][i]
          BY <2>2, <3>1, <3>3, <4>2
        <5>. QED
          BY <2>2, <5>1 DEF ScopeInv
      <4>. QED
        BY <4>1, <4>2
    <3>. QED
      BY <1>4, <3>2, <3>3 DEF Publish, TypeOK
  <2>. QED
    BY <1>4, <2>2 DEF Publish, ScopeInv, Allowed, Visible
<1>5. ASSUME NEW c \in Clients, Connect(c)
      PROVE  ScopeInv'
  BY <1>5, QuietScope DEF Connect, NoConn, writeVars, ScopeInv, TypeOK, ConnType
<1>6. ASSUME NEW c \in Clients, ConnectRefused(c)
      PROVE  ScopeInv'
  BY <1>6, QuietScope DEF ConnectRefused, writeVars, ScopeInv
<1>7. ASSUME NEW c \in Clients, RunReplayQuery(c)
      PROVE  ScopeInv'
  <2> DEFINE kept == {r \in FirstAsc(Selected(c, table), REPLAY_LIMIT) :
                        Matches(sub[c].filter, r)}
  <2>1. \A r \in kept : Allowed(c, r)
    BY ReplayIsAllowed
  <2>2. /\ conn'[c].rest = kept
        /\ \A d \in Clients : d # c => conn'[d] = conn[d]
    BY <1>7 DEF RunReplayQuery, TypeOK, ConnType
  <2>3. UNCHANGED <<sub, wire, received, table, unpublished>>
    BY <1>7 DEF RunReplayQuery, writeVars
  <2> HIDE DEF kept
  <2>. QED
    BY <2>1, <2>2, <2>3 DEF ScopeInv, Allowed, Visible
<1>8. ASSUME NEW c \in Clients, EmitReplayed(c)
      PROVE  ScopeInv'
  <2>1. PICK r \in conn[c].rest :
          /\ wire' = [wire EXCEPT ![c] = Append(@, [row |-> r, via |-> "replay"])]
          /\ conn' = [conn EXCEPT ![c].rest = conn[c].rest \ {r},
                                  ![c].phase = IF conn[c].rest \ {r} = {} THEN "live" ELSE "drain"]
    BY <1>8 DEF EmitReplayed, PhaseOf
  <2>2. UNCHANGED <<sub, received, table, unpublished>>
    BY <1>8 DEF EmitReplayed, writeVars
  <2>3. Allowed(c, r)
    BY DEF ScopeInv
  <2>4. \A d \in Clients : conn'[d].rest \subseteq conn[d].rest
    BY <2>1 DEF TypeOK, ConnType
  <2>5. ASSUME NEW d \in Clients, NEW i \in DOMAIN wire'[d], wire'[d][i] # Ping
        PROVE  Allowed(d, wire'[d][i].row)
    <3>1. wire[d] \in Seq(Frame \cup {Ping})
      BY DEF TypeOK
    <3>2. CASE d # c \/ i # Len(wire[c]) + 1
      <4>1. i \in DOMAIN wire[d] /\ wire'[d][i] = wire[d][i]
        BY <2>1, <2>5, <3>1, <3>2 DEF TypeOK
      <4>. QED
        BY <2>5, <4>1 DEF ScopeInv
    <3>3. CASE d = c /\ i = Len(wire[c]) + 1
      BY <2>1, <2>3, <3>1, <3>3 DEF TypeOK
    <3>. QED
      BY <3>2, <3>3
  <2>. QED
    BY <2>2, <2>4, <2>5 DEF ScopeInv, Allowed, Visible
<1>9. ASSUME NEW c \in Clients, KeepAlive(c)
      PROVE  ScopeInv'
  <2>1. UNCHANGED <<sub, received, table, unpublished, conn>>
    BY <1>9 DEF KeepAlive, writeVars
  <2>2. ASSUME NEW d \in Clients, NEW i \in DOMAIN wire'[d], wire'[d][i] # Ping
        PROVE  i \in DOMAIN wire[d] /\ wire'[d][i] = wire[d][i]
    BY <1>9, <2>2 DEF KeepAlive, TypeOK
  <2>. QED
    BY <2>1, <2>2 DEF ScopeInv, Allowed, Visible
<1>10. ASSUME NEW c \in Clients, ReceiveRow(c)
       PROVE  ScopeInv'
  <2>1. UNCHANGED <<sub, table, unpublished, conn>>
    BY <1>10 DEF ReceiveRow, writeVars
  <2>2. wire[c] \in Seq(Frame \cup {Ping}) /\ wire[c] # <<>> /\ Head(wire[c]) # Ping
    BY <1>10 DEF ReceiveRow, TypeOK
  <2>3. Allowed(c, Head(wire[c]).row)
    BY <2>2 DEF ScopeInv
  <2>4. ASSUME NEW d \in Clients, NEW i \in DOMAIN wire'[d], wire'[d][i] # Ping
        PROVE  Allowed(d, wire'[d][i].row)
    <3>1. wire'[d] = IF d = c THEN Tail(wire[d]) ELSE wire[d]
      BY <1>10 DEF ReceiveRow, TypeOK
    <3>2. CASE d = c
      <4>1. i \in DOMAIN Tail(wire[c])
        BY <2>4, <3>1, <3>2
      <4>2. i + 1 \in DOMAIN wire[c] /\ Tail(wire[c])[i] = wire[c][i + 1]
        BY <2>2, <4>1, TailIndex
      <4>3. wire'[c][i] = wire[c][i + 1]
        BY <3>1, <3>2, <4>2
      <4>. QED
        BY <2>4, <3>2, <4>2, <4>3 DEF ScopeInv
    <3>3. CASE d # c
      BY <2>4, <3>1, <3>3 DEF ScopeInv
    <3>. QED
      BY <3>2, <3>3
  <2>5. ASSUME NEW d \in Clients, NEW i \in DOMAIN received'[d]
        PROVE  Allowed(d, received'[d][i])
    <3>1. received[d] \in Seq(Row)
      BY DEF TypeOK
    <3>2. received' = [received EXCEPT ![c] = Append(@, Head(wire[c]).row)]
      BY <1>10 DEF ReceiveRow
    <3>3. CASE d = c /\ i = Len(received[c]) + 1
      BY <2>3, <3>1, <3>2, <3>3 DEF TypeOK
    <3>4. CASE d # c \/ i # Len(received[c]) + 1
      <4>1. i \in DOMAIN received[d] /\ received'[d][i] = received[d][i]
        BY <2>5, <3>1, <3>2, <3>4 DEF TypeOK
      <4>. QED
        BY <4>1 DEF ScopeInv
    <3>. QED
      BY <3>3, <3>4
  <2>. QED
    BY <2>1, <2>4, <2>5 DEF ScopeInv, Allowed, Visible
<1>11. ASSUME NEW c \in Clients, ReceivePing(c)
       PROVE  ScopeInv'
  <2>1. UNCHANGED <<sub, received, table, unpublished, conn>>
    BY <1>11 DEF ReceivePing, writeVars
  <2>2. wire[c] \in Seq(Frame \cup {Ping}) /\ wire[c] # <<>>
    BY <1>11 DEF ReceivePing, TypeOK
  <2>3. ASSUME NEW d \in Clients, NEW i \in DOMAIN wire'[d], wire'[d][i] # Ping
        PROVE  Allowed(d, wire'[d][i].row)
    <3>1. wire'[d] = IF d = c THEN Tail(wire[d]) ELSE wire[d]
      BY <1>11 DEF ReceivePing, TypeOK
    <3>2. CASE d = c
      <4>1. i \in DOMAIN Tail(wire[c])
        BY <2>3, <3>1, <3>2
      <4>2. i + 1 \in DOMAIN wire[c] /\ Tail(wire[c])[i] = wire[c][i + 1]
        BY <2>2, <4>1, TailIndex
      <4>3. wire'[c][i] = wire[c][i + 1]
        BY <3>1, <3>2, <4>2
      <4>. QED
        BY <2>3, <3>2, <4>2, <4>3 DEF ScopeInv
    <3>3. CASE d # c
      BY <2>3, <3>1, <3>3 DEF ScopeInv
    <3>. QED
      BY <3>2, <3>3
  <2>. QED
    BY <2>1, <2>3 DEF ScopeInv, Allowed, Visible
<1>12. ASSUME NEW c \in Clients, Close(c)
       PROVE  ScopeInv'
  BY <1>12, QuietScope DEF Close, NoConn, writeVars, ScopeInv, TypeOK, ConnType
<1>13. ASSUME NEW c \in Clients, Fail(c)
       PROVE  ScopeInv'
  BY <1>13, QuietScope DEF Fail, Drop, ReplayFails, Cut, NoConn, writeVars, ScopeInv
<1>14. CASE Crash
  <2>1. /\ UNCHANGED <<sub, received>> /\ table \subseteq table' /\ unpublished' = {}
        /\ Cut(Clients)
    BY <1>14 DEF Crash
  <2>. QED
    BY <2>1, QuietScope DEF Cut, NoConn
<1>15. CASE Restart
  BY <1>15, QuietScope DEF Restart, linkVars, writeVars, ScopeInv
<1>16. CASE UNCHANGED vars
  BY <1>16, QuietScope DEF vars, ScopeInv
<1>. QED
  BY <1>1, <1>2, <1>3, <1>4, <1>5, <1>6, <1>7, <1>8, <1>9, <1>10, <1>11, <1>12,
     <1>13, <1>14, <1>15, <1>16 DEF Next, Write, Serve, Browse

(* What is on the wire, replayed or announced is in scope, always. *)
LEMMA ScopeCorrect == Spec => []ScopeInv
BY InitScope, NextScope, TypeCorrect, PTL DEF Spec

(* No client is ever sent, or left to be sent, a row of another tenant.     *)
THEOREM Isolation == Spec => []TenantIsolation
<1>1. TypeOK /\ ScopeInv => TenantIsolation
  BY DEF TypeOK, ScopeInv, TenantIsolation, FrameRows, OnWire, Frames, ToSet, Allowed, Visible
<1>. QED
  BY <1>1, TypeCorrect, ScopeCorrect, PTL

(* No client is ever sent a row outside its filter or not in the table.     *)
THEOREM OnlyCommitted == Spec => []OnlyCommittedMatches
<1>1. TypeOK /\ ScopeInv => OnlyCommittedMatches
  BY DEF TypeOK, ScopeInv, OnlyCommittedMatches, FrameRows, OnWire, Frames, ToSet, Allowed, Visible
<1>. QED
  BY <1>1, TypeCorrect, ScopeCorrect, PTL

-----------------------------------------------------------------------------
(***************************************************************************)
(* What a resume brings back.  A client's cursor is the last row it        *)
(* received; a reconnect asks for the rows after it.  Everything it is     *)
(* owed -- by its replay, by the feed, by an INSERT under way -- lies ahead *)
(* of its cursor or is late, so that whatever a lost connection takes      *)
(* along, and is not late, is asked for again.                             *)
(***************************************************************************)
Owed(c) == OnWire(c) \cup conn[c].rest \cup Backlog(c)
             \cup {r \in inflight \cup unpublished : Visible(c, r)}

AheadOf(s, r) == s # <<>> => Before(Last(s), r)
Ordered(s, S) == \A i \in 1..(Len(s) - 1) : Before(s[i], s[i + 1]) \/ s[i + 1] \in S

Linked(c) ==
    /\ source[c] = "open" <=> conn[c].phase # "none"
    /\ conn[c].phase # "drain" => conn[c].rest = {}
    /\ conn[c].phase = "query" => conn[c].cursor \in Row

(* The query of an open window is answered with the rows up to the clock at *)
(* the time the stream opened; the feed brings those after it.              *)
FedSince(c) ==
    conn[c].phase = "query" /\ sub[c].filter.to = Unset =>
        \A r \in table : Visible(c, r) /\ r.ts > conn[c].to =>
            r \in unpublished \cup OnWire(c) \cup ToSet(received[c])

CursorIsLast(c) ==
    lastId[c] \in Row => received[c] # <<>> /\ lastId[c] = Last(received[c])

InOrder(c) ==
    /\ Ordered(received[c], Late(c))
    /\ \A r \in Owed(c) : r \in Late(c) \/ AheadOf(received[c], r)

Absent(c) ==
    {r \in table : Visible(c, r) /\ r \notin since[c].rows /\ r \notin ToSet(received[c])}

Lossless(c) ==
    hazard[c] = {} =>
        \A r \in Absent(c) \ Late(c) :
            /\ source[c] = "open" => r \in Coming(c)
            /\ source[c] = "connecting" => AheadOf(received[c], r)

TableInv ==
    /\ inflight \cap table = {}
    /\ unpublished \subseteq table
    /\ \A r \in inflight \cup table : r.ts <= clock

ClientInv(c) == Linked(c) /\ FedSince(c) /\ CursorIsLast(c) /\ InOrder(c) /\ Lossless(c)

ResumeInv == TableInv /\ \A c \in Clients : ClientInv(c)

-----------------------------------------------------------------------------
(* Sequences of frames and of rows. *)
LEMMA AppendSet ==
    ASSUME NEW S, NEW s \in Seq(S), NEW e \in S
    PROVE  ToSet(Append(s, e)) = ToSet(s) \cup {e}
<1> DEFINE t == Append(s, e)
<1>1. /\ DOMAIN t = DOMAIN s \cup {Len(s) + 1} /\ t[Len(s) + 1] = e
      /\ \A i \in DOMAIN s : t[i] = s[i]
  OBVIOUS
<1> HIDE DEF t
<1>2. ToSet(t) = ToSet(s) \cup {e}
  BY <1>1 DEF ToSet
<1>. QED
  BY <1>2 DEF t

RowsIn(w) == {f.row : f \in {g \in ToSet(w) : g # Ping}}

LEMMA RowsInAppend ==
    ASSUME NEW w \in Seq(Frame \cup {Ping}), NEW f \in Frame \cup {Ping}
    PROVE  /\ Append(w, f) \in Seq(Frame \cup {Ping})
           /\ f = Ping => RowsIn(Append(w, f)) = RowsIn(w)
           /\ f # Ping => RowsIn(Append(w, f)) = RowsIn(w) \cup {f.row}
<1>1. ToSet(Append(w, f)) = ToSet(w) \cup {f}
  BY AppendSet
<1>. QED
  BY <1>1 DEF RowsIn

LEMMA RowsInTail ==
    ASSUME NEW w \in Seq(Frame \cup {Ping}), w # <<>>
    PROVE  /\ Tail(w) \in Seq(Frame \cup {Ping})
           /\ Head(w) = Ping => RowsIn(w) = RowsIn(Tail(w))
           /\ Head(w) # Ping => RowsIn(w) = RowsIn(Tail(w)) \cup {Head(w).row}
<1>1. ToSet(w) = ToSet(Tail(w)) \cup {Head(w)}
  <2>1. ASSUME NEW i \in DOMAIN w, i # 1
        PROVE  w[i] \in ToSet(Tail(w))
    <3>1. i - 1 \in DOMAIN Tail(w) /\ Tail(w)[i - 1] = w[i]
      BY <2>1
    <3>. QED
      BY <3>1 DEF ToSet
  <2>2. \A i \in DOMAIN Tail(w) : Tail(w)[i] \in ToSet(w)
    BY TailIndex DEF ToSet
  <2>3. Head(w) = w[1] /\ 1 \in DOMAIN w
    OBVIOUS
  <2>. QED
    BY <2>1, <2>2, <2>3 DEF ToSet
<1>. QED
  BY <1>1 DEF RowsIn

LEMMA LastOfAppend ==
    ASSUME NEW s \in Seq(Row), NEW r \in Row
    PROVE  /\ Append(s, r) # <<>> /\ Last(Append(s, r)) = r
           /\ ToSet(Append(s, r)) = ToSet(s) \cup {r}
BY AppendSet DEF Last

LEMMA OrderedAppend ==
    ASSUME NEW s \in Seq(Row), NEW r \in Row, NEW S, NEW T,
           Ordered(s, S), S \subseteq T, r \in S \/ AheadOf(s, r)
    PROVE  Ordered(Append(s, r), T)
<1> DEFINE t == Append(s, r)
<1>1. Len(t) = Len(s) + 1 /\ t[Len(s) + 1] = r /\ \A i \in 1..Len(s) : t[i] = s[i]
  OBVIOUS
<1> HIDE DEF t
<1>2. ASSUME NEW i \in 1..(Len(t) - 1)
      PROVE  Before(t[i], t[i + 1]) \/ t[i + 1] \in T
  <2>1. Len(s) \in Nat
    OBVIOUS
  <2>2. CASE i = Len(s)
    <3>1. t[i] = Last(s) /\ t[i + 1] = r /\ s # <<>>
      BY <1>1, <2>1, <2>2 DEF Last
    <3>. QED
      BY <3>1 DEF AheadOf
  <2>3. CASE i # Len(s)
    <3>1. i \in 1..(Len(s) - 1) /\ t[i] = s[i] /\ t[i + 1] = s[i + 1]
      BY <1>1, <2>1, <2>3
    <3>. QED
      BY <3>1 DEF Ordered
  <2>. QED
    BY <2>2, <2>3
<1>. QED
  BY <1>2 DEF t, Ordered

(* What is not passed lies ahead. *)
LEMMA NotPassedIsAhead ==
    ASSUME NEW a \in Row, NEW b \in Row
    PROVE  ~NotAfter(b, a) <=> Before(a, b)
BY DEF NotAfter, Before, Row

-----------------------------------------------------------------------------
LEMMA InitResume == Init => ResumeInv
<1> SUFFICES ASSUME Init PROVE ResumeInv
  OBVIOUS
<1>1. ASSUME NEW c \in Clients PROVE ClientInv(c)
  <2>1. /\ wire[c] = <<>> /\ received[c] = <<>> /\ conn[c] = NoConn
        /\ source[c] = "connecting" /\ lastId[c] = Blank
    BY DEF Init
  <2>2. Owed(c) = {} /\ Absent(c) = {}
    BY <2>1 DEF Init, Owed, OnWire, Frames, ToSet, Backlog, NoConn, Absent
  <2>. QED
    BY <2>1, <2>2 DEF ClientInv, Linked, FedSince, CursorIsLast, InOrder, Lossless, Ordered,
                      NoConn
<1>. QED
  BY <1>1 DEF ResumeInv, TableInv, Init

(* Steps that do not concern a client. *)
LEMMA Untouched ==
    ASSUME NEW c \in Clients, ClientInv(c),
           UNCHANGED <<inflight, table, unpublished, sub>>,
           wire'[c] = wire[c], conn'[c] = conn[c], source'[c] = source[c],
           lastId'[c] = lastId[c], received'[c] = received[c], since'[c] = since[c],
           hazard'[c] = hazard[c], late'[c] = late[c]
    PROVE  ClientInv(c)'
BY DEF ClientInv, Linked, FedSince, CursorIsLast, InOrder, Owed, OnWire, Frames, Backlog, Visible,
       Late, Lossless, Absent, Coming

(* What is coming to a client is owed to it. *)
LEMMA ComingIsOwed ==
    ASSUME NEW c \in Clients, NEW r \in Coming(c), Visible(c, r)
    PROVE  r \in Owed(c)
BY DEF Coming, Owed

(* A client whose connection ends: what it was owed lies ahead of its       *)
(* cursor, and so do the rows Postgres keeps of the INSERTs under way.      *)
LEMMA Detached ==
    ASSUME NEW c \in Clients, ClientInv(c), UNCHANGED sub,
           conn'[c] = NoConn, wire'[c] = <<>>,
           source'[c] = (IF source[c] = "open" THEN "connecting" ELSE source[c])
             \/ source'[c] = "closed",
           lastId'[c] = lastId[c], received'[c] = received[c], since'[c] = since[c],
           hazard'[c] = hazard[c], late'[c] = late[c],
           inflight' \cup unpublished' \subseteq inflight \cup unpublished,
           table' \subseteq table \cup inflight
    PROVE  ClientInv(c)'
<1>1. Owed(c)' \subseteq Owed(c)
  BY DEF Owed, OnWire, Frames, ToSet, Backlog, NoConn, Visible
<1>2. InOrder(c)'
  BY <1>1 DEF ClientInv, InOrder, Late
<1>3. Lossless(c)'
  <2> SUFFICES ASSUME hazard[c] = {}, NEW r \in Absent(c)', r \notin Late(c),
                      source'[c] = "connecting"
               PROVE  AheadOf(received[c], r)
    BY DEF Lossless, Late
  <2>1. Visible(c, r) /\ r \notin since[c].rows /\ r \notin ToSet(received[c])
    BY DEF Absent, Visible
  <2>2. \A s \in Owed(c) : s \in Late(c) \/ AheadOf(received[c], s)
    BY DEF ClientInv, InOrder
  <2>3. CASE r \in inflight
    BY <2>1, <2>2, <2>3 DEF Owed
  <2>4. CASE r \in table
    <3>1. r \in Absent(c)
      BY <2>1, <2>4 DEF Absent
    <3>2. source[c] = "open" => r \in Owed(c)
      BY <2>1, <3>1, ComingIsOwed DEF ClientInv, Lossless
    <3>3. source[c] \in {"open", "connecting"}
      OBVIOUS
    <3>. QED
      BY <2>2, <3>1, <3>2, <3>3 DEF ClientInv, Lossless
  <2>. QED
    BY <2>3, <2>4 DEF Absent
<1>4. Linked(c)' /\ FedSince(c)' /\ CursorIsLast(c)'
  BY DEF ClientInv, Linked, FedSince, CursorIsLast, NoConn
<1>. QED
  BY <1>2, <1>3, <1>4 DEF ClientInv

(* The write path. *)
LEMMA BeginCreateKeeps ==
    ASSUME TypeOK, ResumeInv, NEW content \in Contents, NEW id \in 1..MaxRows,
           BeginCreate(content, id)
    PROVE  ResumeInv'
<1> DEFINE r == MkRow(clock, id, content)
<1>1. /\ inflight' = inflight \cup {r} /\ id \notin UsedIds
      /\ UNCHANGED <<clock, table, unpublished, sub, since, conn, wire, source, lastId, received>>
      /\ hazard' = hazard
      /\ late' = [c \in Clients |->
                    IF Visible(c, r) /\ PassedBy(c, r)
                    THEN [late[c] EXCEPT !.feed = @ \cup {r}] ELSE late[c]]
  BY DEF BeginCreate, linkVars
<1>2. r \in Row /\ r.id = id /\ r.ts = clock
  <2>1. clock \in Nat /\ id \in Nat
    BY DEF TypeOK
  <2>. QED
    BY <2>1, MkRowType DEF MkRow
<1> HIDE DEF r
<1>3. TableInv'
  BY <1>1, <1>2 DEF ResumeInv, TableInv, UsedIds, TypeOK
<1>4. ASSUME NEW c \in Clients PROVE ClientInv(c)'
  <2>1. received[c] \in Seq(Row)
    BY DEF TypeOK
  <2>2. Owed(c)' \subseteq Owed(c) \cup {s \in {r} : Visible(c, s)}
    BY <1>1 DEF Owed, OnWire, Frames, Backlog, Visible
  <2>3. /\ Late(c) \subseteq Late(c)'
        /\ Visible(c, r) /\ PassedBy(c, r) => r \in Late(c)'
    <3>1. late[c] \in [feed : SUBSET Row, replay : SUBSET Row]
      BY DEF TypeOK
    <3>2. late'[c] = IF Visible(c, r) /\ PassedBy(c, r)
                     THEN [late[c] EXCEPT !.feed = @ \cup {r}] ELSE late[c]
      BY <1>1
    <3>. QED
      BY <3>1, <3>2 DEF Late
  <2>4. ASSUME ~PassedBy(c, r)
        PROVE  AheadOf(received[c], r)
    <3>1. received[c] # <<>> => Last(received[c]) \in Row
      BY <2>1 DEF Last
    <3>. QED
      BY <1>2, <2>4, <3>1, NotPassedIsAhead DEF PassedBy, AheadOf
  <2>5. InOrder(c)'
    BY <1>1, <2>2, <2>3, <2>4 DEF ResumeInv, ClientInv, InOrder, Ordered
  <2>6. Lossless(c)'
    BY <1>1, <2>3 DEF ResumeInv, ClientInv, Lossless, Absent, Coming, OnWire, Frames, Backlog,
                      Visible
  <2>7. Linked(c)' /\ FedSince(c)' /\ CursorIsLast(c)'
    BY <1>1 DEF ResumeInv, ClientInv, Linked, FedSince, CursorIsLast, OnWire, Frames, Visible
  <2>. QED
    BY <2>5, <2>6, <2>7 DEF ClientInv
<1>. QED
  BY <1>3, <1>4 DEF ResumeInv

LEMMA CommitKeeps ==
    ASSUME TypeOK, ResumeInv, NEW r \in inflight, Commit(r) \/ FailCreate(r)
    PROVE  ResumeInv'
<1>1. /\ inflight' = inflight \ {r}
      /\ UNCHANGED <<clock, sub, since, hazard, late, conn, wire, source, lastId, received>>
      /\ \/ table' = table \cup {r} /\ unpublished' = unpublished \cup {r}
         \/ table' = table /\ unpublished' = unpublished
  BY DEF Commit, FailCreate, linkVars
<1>2. TableInv'
  BY <1>1 DEF ResumeInv, TableInv
<1>3. ASSUME NEW c \in Clients PROVE ClientInv(c)'
  <2>1. Owed(c)' \subseteq Owed(c)
    BY <1>1 DEF Owed, OnWire, Frames, Backlog, Visible
  <2>2. InOrder(c)'
    BY <1>1, <2>1 DEF ResumeInv, ClientInv, InOrder, Late
  <2>3. Lossless(c)'
    <3> SUFFICES ASSUME hazard[c] = {}, NEW s \in Absent(c)', s \notin Late(c)
                 PROVE  /\ source[c] = "open" => s \in Coming(c)'
                        /\ source[c] = "connecting" => AheadOf(received[c], s)
      BY <1>1 DEF Lossless, Late
    <3>1. CASE s \in table
      <4>1. s \in Absent(c)
        BY <1>1, <3>1 DEF Absent, Visible
      <4>2. Coming(c) \subseteq Coming(c)'
        BY <1>1 DEF Coming, OnWire, Frames, Backlog, Visible
      <4>. QED
        BY <4>1, <4>2 DEF ResumeInv, ClientInv, Lossless
    <3>2. CASE s \notin table
      <4>1. s = r /\ Visible(c, s) /\ r \in unpublished'
        BY <1>1, <3>2 DEF Absent, Visible
      <4>2. s \in Owed(c) /\ s \in Coming(c)'
        BY <4>1 DEF Owed, Coming
      <4>. QED
        BY <4>2 DEF ResumeInv, ClientInv, InOrder
    <3>. QED
      BY <3>1, <3>2
  <2>4. Linked(c)' /\ FedSince(c)' /\ CursorIsLast(c)'
    BY <1>1 DEF ResumeInv, ClientInv, Linked, FedSince, CursorIsLast, OnWire, Frames, Visible
  <2>. QED
    BY <2>2, <2>3, <2>4 DEF ClientInv
<1>. QED
  BY <1>2, <1>3 DEF ResumeInv

LEMMA PublishKeeps ==
    ASSUME TypeOK, ResumeInv, NEW r \in unpublished, Publish(r)
    PROVE  ResumeInv'
<1>1. /\ unpublished' = unpublished \ {r}
      /\ UNCHANGED <<clock, inflight, table, sub, since, hazard, late>>
      /\ UNCHANGED <<conn, source, lastId, received>>
      /\ \A c \in Clients :
            wire'[c] = IF Listening(c) /\ Visible(c, r)
                       THEN Append(wire[c], [row |-> r, via |-> "live"]) ELSE wire[c]
  BY DEF Publish
<1>2. TableInv'
  BY <1>1 DEF ResumeInv, TableInv
<1>3. ASSUME NEW c \in Clients PROVE ClientInv(c)'
  <2>0. [row |-> r, via |-> "live"] \in Frame /\ wire[c] \in Seq(Frame \cup {Ping})
    BY DEF Frame, TypeOK
  <2>1. OnWire(c)' = OnWire(c) \cup (IF Listening(c) /\ Visible(c, r) THEN {r} ELSE {})
    <3>1. OnWire(c) = RowsIn(wire[c]) /\ OnWire(c)' = RowsIn(wire'[c])
      BY DEF OnWire, Frames, RowsIn
    <3>2. [row |-> r, via |-> "live"] # Ping
      BY <2>0
    <3>. QED
      BY <1>1, <2>0, <3>1, <3>2, RowsInAppend
  <2>2. Owed(c)' \subseteq Owed(c)
    BY <1>1, <2>1 DEF Owed, Backlog, Visible
  <2>3. InOrder(c)'
    BY <1>1, <2>2 DEF ResumeInv, ClientInv, InOrder, Late
  <2>4. source[c] = "open" => Listening(c)
    BY DEF ResumeInv, ClientInv, Linked, Listening
  <2>5. Listening(c) => \A s \in Coming(c) : Visible(c, s) => s \in Coming(c)'
    BY <1>1, <2>1 DEF Coming, Backlog, Visible
  <2>6. Lossless(c)'
    <3>1. Absent(c)' = Absent(c) /\ \A s \in Absent(c) : Visible(c, s)
      BY <1>1 DEF Absent, Visible
    <3>. QED
      BY <1>1, <2>4, <2>5, <3>1 DEF ResumeInv, ClientInv, Lossless, Late
  <2>7. Linked(c)' /\ CursorIsLast(c)'
    BY <1>1 DEF ResumeInv, ClientInv, Linked, CursorIsLast
  <2>8. FedSince(c)'
    BY <1>1, <2>1 DEF ResumeInv, ClientInv, FedSince, Visible, Listening
  <2>. QED
    BY <2>3, <2>6, <2>7, <2>8 DEF ClientInv
<1>. QED
  BY <1>2, <1>3 DEF ResumeInv

(* A step of one client leaves the table and the other clients alone. *)
Alone(c) ==
    /\ UNCHANGED <<clock, inflight, table, unpublished, sub>>
    /\ \A d \in Clients \ {c} :
          /\ wire'[d] = wire[d] /\ conn'[d] = conn[d] /\ source'[d] = source[d]
          /\ lastId'[d] = lastId[d] /\ received'[d] = received[d] /\ since'[d] = since[d]
          /\ hazard'[d] = hazard[d] /\ late'[d] = late[d]

LEMMA OneClient ==
    ASSUME ResumeInv, NEW c \in Clients, Alone(c), ClientInv(c)'
    PROVE  ResumeInv'
<1>1. TableInv'
  BY DEF ResumeInv, TableInv, Alone
<1>2. ASSUME NEW d \in Clients \ {c} PROVE ClientInv(d)'
  BY Untouched DEF ResumeInv, Alone
<1>. QED
  BY <1>1, <1>2 DEF ResumeInv

(* The browser connects, with the last row it received as its cursor. *)
LEMMA ConnectKeeps ==
    ASSUME TypeOK, ResumeInv, NEW c \in Clients, Connect(c)
    PROVE  ResumeInv'
<1> DEFINE resumes == lastId[c] \notin {Blank, Garbage}
<1>1. /\ source[c] = "connecting" /\ source'[c] = "open"
      /\ conn'[c] = IF resumes
                    THEN [phase |-> "query", cursor |-> lastId[c], to |-> ReplayTo(c), rest |-> {}]
                    ELSE [NoConn EXCEPT !.phase = "live"]
      /\ since'[c] = IF since[c].met THEN since[c] ELSE [met |-> TRUE, rows |-> table]
      /\ hazard'[c] = IF since[c].met /\ ~resumes THEN hazard[c] \cup {"blank"} ELSE hazard[c]
      /\ UNCHANGED <<wire, lastId, received, late>>
      /\ Alone(c)
  BY DEF Connect, TypeOK, Expose, writeVars, Alone
<1>2. ClientInv(c)
  BY DEF ResumeInv
<1>3. resumes => lastId[c] \in Row /\ received[c] # <<>> /\ lastId[c] = Last(received[c])
  BY <1>2 DEF TypeOK, ClientInv, CursorIsLast
<1>4. /\ conn'[c].rest = {} /\ conn'[c].phase \in {"query", "live"}
      /\ conn'[c].phase = "query" => resumes /\ conn'[c].cursor = lastId[c] /\ conn'[c].to = ReplayTo(c)
  BY <1>1 DEF NoConn
<1> HIDE DEF resumes
<1>5. \A r \in Backlog(c)' : AheadOf(received[c], r)
  <2> SUFFICES ASSUME NEW r \in Backlog(c)' PROVE AheadOf(received[c], r)
    OBVIOUS
  <2>1. conn'[c].phase = "query" /\ r \in table /\ NewerThan(lastId[c], r)
    BY <1>1, <1>4 DEF Backlog, Alone
  <2>2. r \in Row
    BY <2>1 DEF TypeOK
  <2>. QED
    BY <1>3, <1>4, <2>1, <2>2, KeysetIsStrict DEF AheadOf
<1>6. InOrder(c)'
  <2>1. \A r \in Owed(c)' : r \in Owed(c) \/ r \in Backlog(c)'
    BY <1>1, <1>4 DEF Owed, OnWire, Frames, Visible, Alone
  <2>. QED
    BY <1>1, <1>2, <1>5, <2>1 DEF ClientInv, InOrder, Late
<1>7. Lossless(c)'
  <2> SUFFICES ASSUME hazard'[c] = {}, NEW r \in Absent(c)', r \notin Late(c)
               PROVE  r \in Coming(c)'
    BY <1>1 DEF Lossless, Late
  <2>1. since[c].met /\ since'[c] = since[c]
    BY <1>1 DEF Absent, Alone
  <2>2. resumes /\ hazard[c] = {}
    BY <1>1, <2>1
  <2>3. r \in Absent(c) /\ r \in table /\ Visible(c, r)
    BY <1>1, <2>1 DEF Absent, Visible, Alone
  <2>4. AheadOf(received[c], r)
    BY <1>1, <1>2, <2>2, <2>3 DEF ClientInv, Lossless
  <2>5. NewerThan(lastId[c], r)
    <3>1. r \in Row
      BY <2>3 DEF TypeOK
    <3>. QED
      BY <1>3, <2>2, <2>4, <3>1, KeysetIsStrict DEF AheadOf
  <2>6. r \in Backlog(c)'
    BY <1>1, <2>2, <2>3, <2>5 DEF Backlog, Visible, Alone
  <2>. QED
    BY <2>6 DEF Coming
<1>8. FedSince(c)'
  <2> SUFFICES ASSUME conn'[c].phase = "query", sub[c].filter.to = Unset
               PROVE  \A r \in table : ~(r.ts > conn'[c].to)
    BY <1>1 DEF FedSince, Alone
  <2>1. conn'[c].to = clock
    BY <1>4 DEF ReplayTo
  <2>2. \A r \in table : r.ts <= clock /\ r.ts \in Nat /\ clock \in Nat
    BY DEF ResumeInv, TableInv, TypeOK, Row
  <2>. QED
    BY <2>1, <2>2
<1>9. Linked(c)' /\ CursorIsLast(c)'
  BY <1>1, <1>2, <1>3, <1>4 DEF ClientInv, Linked, CursorIsLast
<1>. QED
  BY <1>1, <1>6, <1>7, <1>8, <1>9, OneClient DEF ClientInv

LEMMA ConnectRefusedKeeps ==
    ASSUME TypeOK, ResumeInv, NEW c \in Clients, ConnectRefused(c)
    PROVE  ResumeInv'
<1>1. /\ source[c] = "connecting" /\ source'[c] = "closed"
      /\ UNCHANGED <<conn, wire, lastId, received, hazard, late, since>>
      /\ Alone(c)
  BY DEF ConnectRefused, writeVars, TypeOK, Alone
<1>2. ClientInv(c)
  BY DEF ResumeInv
<1>3. InOrder(c)'
  BY <1>1, <1>2 DEF ClientInv, InOrder, Owed, OnWire, Frames, Backlog, Visible, Late, Alone
<1>4. Lossless(c)' /\ Linked(c)' /\ CursorIsLast(c)'
  BY <1>1, <1>2 DEF ClientInv, Lossless, Linked, CursorIsLast
<1>5. FedSince(c)'
  BY <1>1, <1>2 DEF ClientInv, FedSince, OnWire, Frames, Visible, Alone
<1>. QED
  BY <1>1, <1>3, <1>4, <1>5, OneClient DEF ClientInv

(* The answer to the replay's query keeps every row of the backlog, unless  *)
(* it is cut off, before the window, or past a pinned end: a row past an    *)
(* open end is brought by the feed.                                         *)
LEMMA ReplayAnswers ==
    ASSUME TypeOK, ResumeInv, NEW c \in Clients, conn[c].phase = "query",
           NEW r \in Backlog(c),
           r \in Selected(c, table) \/
              ~(sub[c].filter.to # Unset \/ r.ts < ReplayFrom(c, conn[c].cursor))
    PROVE  \/ r \in Selected(c, table)
           \/ r \in unpublished \cup OnWire(c) \cup ToSet(received[c])
<1> SUFFICES ASSUME sub[c].filter.to = Unset, ~(r.ts < ReplayFrom(c, conn[c].cursor)),
                    r.ts <= conn[c].to
             PROVE  r \in Selected(c, table)
  <2>1. r \in table /\ Visible(c, r) /\ r.ts \in Nat /\ conn[c].to \in Nat
    BY DEF Backlog, TypeOK, Row, ConnType
  <2>. QED
    BY <2>1 DEF ResumeInv, ClientInv, FedSince
<1> DEFINE f == sub[c].filter
           k == conn[c].cursor
<1>1. /\ r \in table /\ r \in Row /\ Visible(c, r) /\ NewerThan(k, r)
      /\ k \in Row /\ conn[c].to \in Nat
  BY DEF Backlog, TypeOK, ResumeInv, ClientInv, Linked, ConnType
<1>2. f \in Filter /\ sub[c].tenant \in Tenants
  <2>1. sub[c] \in [tenant : Tenants, filter : Filter]
    BY DEF TypeOK
  <2>. QED
    BY <2>1
<1>3. ReplayFrom(c, k) \in Nat /\ ReplayFrom(c, k) <= r.ts
  <2>1. f.from \in Nat \cup {Unset} /\ k.ts \in Nat /\ r.ts \in Nat
    BY <1>1, <1>2 DEF Filter, Row
  <2>. QED
    BY <2>1 DEF ReplayFrom
<1>4. f.tenant \in {Unset, sub[c].tenant} /\ Matches(f, r) /\ r.tenant = sub[c].tenant
  BY <1>1 DEF Visible, Matches
<1>5. Where(f, sub[c].tenant, ReplayFrom(c, k), conn[c].to, r)
  <2> HIDE DEF f, k
  <2>. QED
    BY <1>1, <1>2, <1>3, <1>4, MatchesMirrorsWhere
<1>. QED
  BY <1>1, <1>5 DEF Selected

LEMMA RunReplayQueryKeeps ==
    ASSUME TypeOK, ResumeInv, NEW c \in Clients, RunReplayQuery(c)
    PROVE  ResumeInv'
<1> DEFINE all  == Selected(c, table)
           kept == {r \in FirstAsc(all, REPLAY_LIMIT) : Matches(sub[c].filter, r)}
           cut  == {r \in all : r \notin FirstAsc(all, REPLAY_LIMIT) /\ Visible(c, r)}
           out  == Backlog(c) \ all
<1>0. conn[c] \in ConnType /\ hazard[c] \in SUBSET Hazards
  BY DEF TypeOK
<1>1. /\ conn[c].phase = "query"
      /\ conn'[c] = [conn[c] EXCEPT !.rest = kept, !.phase = PhaseOf(kept)]
      /\ hazard[c] \subseteq hazard'[c]
      /\ hazard'[c] = {} => /\ cut = {}
                            /\ \A r \in out : ~(sub[c].filter.to # Unset \/
                                                 r.ts < ReplayFrom(c, conn[c].cursor))
      /\ UNCHANGED <<wire, source, lastId, received, since, late>>
      /\ Alone(c)
  BY DEF RunReplayQuery, writeVars, TypeOK, Alone, Expose
<1>2. conn'[c].rest = kept /\ conn'[c].phase = PhaseOf(kept) /\ conn'[c].phase \in {"live", "drain"}
  BY <1>0, <1>1 DEF PhaseOf, ConnType
<1>3. ClientInv(c)
  BY DEF ResumeInv
<1>4. ASSUME NEW r \in kept PROVE r \in Backlog(c)
  BY <1>1, <1>4 DEF FirstAsc, Selected, Where, Backlog, Visible
<1>5. ASSUME hazard'[c] = {}, NEW r \in Backlog(c)
      PROVE  r \in kept \cup unpublished \cup OnWire(c) \cup ToSet(received[c])
  <2>1. \/ r \in all
        \/ r \in unpublished \cup OnWire(c) \cup ToSet(received[c])
    BY <1>1, <1>5, ReplayAnswers
  <2>2. r \in all => r \in kept
    BY <1>1, <1>5 DEF Backlog, Visible
  <2>. QED
    BY <2>1, <2>2
<1> HIDE DEF all, kept, cut, out
<1>6. InOrder(c)'
  <2>1. Owed(c)' \subseteq Owed(c)
    BY <1>1, <1>2, <1>4 DEF Owed, OnWire, Frames, Backlog, Visible, Alone
  <2>. QED
    BY <1>1, <1>3, <2>1 DEF ClientInv, InOrder, Late
<1>7. Lossless(c)'
  <2> SUFFICES ASSUME hazard'[c] = {}, NEW r \in Absent(c)', r \notin Late(c)
               PROVE  /\ source[c] = "open" => r \in Coming(c)'
                      /\ source[c] # "connecting"
    BY <1>1 DEF Lossless, Late
  <2>1. source[c] = "open"
    BY <1>1, <1>3 DEF ClientInv, Linked
  <2>2. r \in Absent(c) /\ r \notin ToSet(received[c])
    BY <1>1 DEF Absent, Visible, Alone
  <2>3. r \in Coming(c)
    BY <1>1, <1>3, <2>1, <2>2 DEF ClientInv, Lossless
  <2>4. conn[c].rest = {}
    BY <1>1, <1>3 DEF ClientInv, Linked
  <2>5. r \in kept \cup unpublished \cup OnWire(c)
    BY <1>5, <2>2, <2>3, <2>4 DEF Coming
  <2>. QED
    BY <1>1, <1>2, <2>1, <2>5 DEF Coming, OnWire, Frames, Alone
<1>8. Linked(c)'
  BY <1>1, <1>2, <1>3 DEF ClientInv, Linked, PhaseOf
<1>9. FedSince(c)' /\ CursorIsLast(c)'
  BY <1>1, <1>2, <1>3 DEF ClientInv, FedSince, CursorIsLast
<1>. QED
  BY <1>1, <1>6, <1>7, <1>8, <1>9, OneClient DEF ClientInv

(* What is on the wire, left of the replay, or in the backlog only moves. *)
LEMMA EmitReplayedKeeps ==
    ASSUME TypeOK, ResumeInv, NEW c \in Clients, EmitReplayed(c)
    PROVE  ResumeInv'
<1>1. PICK r \in conn[c].rest :
         /\ wire' = [wire EXCEPT ![c] = Append(@, [row |-> r, via |-> "replay"])]
         /\ conn' = [conn EXCEPT ![c].rest = conn[c].rest \ {r},
                                 ![c].phase = PhaseOf(conn[c].rest \ {r})]
  BY DEF EmitReplayed
<1>2. /\ conn[c].phase = "drain"
      /\ UNCHANGED <<source, lastId, received, since, hazard, late>>
      /\ Alone(c)
  BY <1>1 DEF EmitReplayed, writeVars, Alone, TypeOK
<1>3. conn[c] \in ConnType /\ wire[c] \in Seq(Frame \cup {Ping})
  BY DEF TypeOK
<1>4. [row |-> r, via |-> "replay"] \in Frame
  BY <1>3 DEF Frame, ConnType
<1>5. OnWire(c)' = OnWire(c) \cup {r}
  <2>1. OnWire(c) = RowsIn(wire[c]) /\ OnWire(c)' = RowsIn(wire'[c])
    BY DEF OnWire, Frames, RowsIn
  <2>2. wire'[c] = Append(wire[c], [row |-> r, via |-> "replay"])
    BY <1>1 DEF TypeOK
  <2>. QED
    BY <1>3, <1>4, <2>1, <2>2, RowsInAppend
<1>6. /\ conn'[c].rest = conn[c].rest \ {r} /\ conn'[c].phase = PhaseOf(conn'[c].rest)
      /\ conn'[c].phase \in {"live", "drain"}
  BY <1>1, <1>3 DEF PhaseOf, ConnType, TypeOK
<1>7. ClientInv(c)
  BY DEF ResumeInv
<1>8. InOrder(c)'
  <2>1. Owed(c)' \subseteq Owed(c)
    BY <1>2, <1>5, <1>6 DEF Owed, Backlog, Visible, Alone
  <2>. QED
    BY <1>2, <1>7, <2>1 DEF ClientInv, InOrder, Late
<1>9. Lossless(c)'
  <2>1. Coming(c) \subseteq Coming(c)'
    BY <1>2, <1>5, <1>6 DEF Coming, Backlog, Visible, Alone
  <2>2. Absent(c)' = Absent(c)
    BY <1>2 DEF Absent, Visible, Alone
  <2>. QED
    BY <1>2, <1>7, <2>1, <2>2 DEF ClientInv, Lossless, Late
<1>10. Linked(c)' /\ FedSince(c)' /\ CursorIsLast(c)'
  BY <1>2, <1>6, <1>7 DEF ClientInv, Linked, FedSince, CursorIsLast, PhaseOf
<1>. QED
  BY <1>2, <1>8, <1>9, <1>10, OneClient DEF ClientInv

LEMMA PingMovesNoRow ==
    ASSUME TypeOK, NEW c \in Clients, KeepAlive(c) \/ ReceivePing(c)
    PROVE  OnWire(c)' = OnWire(c)
<1>1. wire[c] \in Seq(Frame \cup {Ping})
  BY DEF TypeOK
<1>2. \/ wire'[c] = Append(wire[c], Ping)
      \/ wire[c] # <<>> /\ Head(wire[c]) = Ping /\ wire'[c] = Tail(wire[c])
  BY DEF KeepAlive, ReceivePing, TypeOK
<1>3. OnWire(c) = RowsIn(wire[c]) /\ OnWire(c)' = RowsIn(wire'[c])
  BY DEF OnWire, Frames, RowsIn
<1>4. RowsIn(Append(wire[c], Ping)) = RowsIn(wire[c])
  BY <1>1, RowsInAppend
<1>5. ASSUME wire[c] # <<>>, Head(wire[c]) = Ping
      PROVE  RowsIn(Tail(wire[c])) = RowsIn(wire[c])
  BY <1>1, <1>5, RowsInTail
<1>. QED
  BY <1>2, <1>3, <1>4, <1>5

(* Frames without a row come and go unnoticed; one may spoil the cursor.    *)
LEMMA PingKeeps ==
    ASSUME TypeOK, ResumeInv, NEW c \in Clients, KeepAlive(c) \/ ReceivePing(c)
    PROVE  ResumeInv'
<1>1. /\ UNCHANGED <<conn, source, received, since, hazard, late>>
      /\ lastId'[c] \in {lastId[c], Garbage}
      /\ Alone(c)
  BY DEF KeepAlive, ReceivePing, writeVars, Alone, TypeOK
<1>2. OnWire(c)' = OnWire(c)
  BY PingMovesNoRow
<1>3. ClientInv(c)
  BY DEF ResumeInv
<1>4. InOrder(c)'
  BY <1>1, <1>2, <1>3 DEF ClientInv, InOrder, Owed, Backlog, Visible, Late, Alone
<1>5. Lossless(c)'
  BY <1>1, <1>2, <1>3 DEF ClientInv, Lossless, Absent, Coming, Backlog, Visible, Late, Alone
<1>6. Linked(c)' /\ CursorIsLast(c)'
  BY <1>1, <1>3 DEF ClientInv, Linked, CursorIsLast
<1>7. FedSince(c)'
  BY <1>1, <1>2, <1>3 DEF ClientInv, FedSince, Visible, Alone
<1>. QED
  BY <1>1, <1>4, <1>5, <1>6, <1>7, OneClient DEF ClientInv

(* What is owed behind the frame received is what the history looks at. *)
LEMMA OwedBehind ==
    ASSUME TypeOK, NEW c \in Clients, wire[c] # <<>>
    PROVE  RowsIn(Tail(wire[c])) \cup conn[c].rest \cup Backlog(c)
             \cup {s \in inflight \cup unpublished : Visible(c, s)}
           \subseteq OwedByFeed(c) \cup OwedByReplay(c)
<1> DEFINE w == Tail(wire[c])
<1>1. w \in Seq(Frame \cup {Ping})
  BY RowsInTail DEF TypeOK
<1>2. \A f \in ToSet(w) : f # Ping => f.via \in {"live", "replay"}
  BY <1>1 DEF ToSet, Frame
<1>3. RowsIn(w) \subseteq Behind(c, "live") \cup Behind(c, "replay")
  BY <1>2 DEF RowsIn, Behind
<1>. QED
  BY <1>3 DEF OwedByFeed, OwedByReplay

(* The row received is the new cursor: what the client is still owed lies   *)
(* ahead of it, or was passed and is late.                                  *)
LEMMA ReceiveRowKeeps ==
    ASSUME TypeOK, ResumeInv, NEW c \in Clients, ReceiveRow(c)
    PROVE  ResumeInv'
<1> DEFINE x == Head(wire[c]).row
           passed(S) == {s \in S : NotAfter(s, x)}
<1>1. /\ source[c] = "open" /\ wire[c] # <<>> /\ Head(wire[c]) # Ping
      /\ wire'[c] = Tail(wire[c]) /\ received'[c] = Append(received[c], x) /\ lastId'[c] = x
      /\ late'[c] = [feed |-> late[c].feed \cup passed(OwedByFeed(c)),
                     replay |-> late[c].replay \cup passed(OwedByReplay(c))]
      /\ UNCHANGED <<conn, source, since, hazard>>
      /\ Alone(c)
  BY DEF ReceiveRow, writeVars, Alone, TypeOK
<1>2. wire[c] \in Seq(Frame \cup {Ping}) /\ received[c] \in Seq(Row)
  BY DEF TypeOK
<1>3. Head(wire[c]) \in Frame /\ x \in Row
  BY <1>1, <1>2 DEF Frame
<1>4. /\ RowsIn(wire[c]) = RowsIn(Tail(wire[c])) \cup {x}
      /\ OnWire(c) = RowsIn(wire[c]) /\ OnWire(c)' = RowsIn(Tail(wire[c]))
  BY <1>1, <1>2, RowsInTail DEF OnWire, Frames, RowsIn
<1> HIDE DEF x
<1>5. received'[c] # <<>> /\ Last(received'[c]) = x /\ ToSet(received'[c]) = ToSet(received[c]) \cup {x}
  BY <1>1, <1>2, <1>3, LastOfAppend
<1>6. ClientInv(c)
  BY DEF ResumeInv
<1>7. Late(c)' = Late(c) \cup passed(OwedByFeed(c)) \cup passed(OwedByReplay(c))
  BY <1>1 DEF Late
<1>8. InOrder(c)'
  <2>2. Owed(c)' \subseteq OwedByFeed(c) \cup OwedByReplay(c)
    <3>1. Owed(c)' = RowsIn(Tail(wire[c])) \cup conn[c].rest \cup Backlog(c)
                      \cup {s \in inflight \cup unpublished : Visible(c, s)}
      BY <1>1, <1>4 DEF Owed, Backlog, Visible, Alone
    <3>. QED
      BY <1>1, <3>1, OwedBehind
  <2>3. ASSUME NEW r \in Owed(c)' PROVE r \in Late(c)' \/ AheadOf(received'[c], r)
    <3>1. r \in passed(OwedByFeed(c)) \cup passed(OwedByReplay(c)) \/ ~NotAfter(r, x)
      BY <2>2
    <3>2. r \in Row
      BY <1>1, <2>2, OwedAreRows
    <3>3. ~NotAfter(r, x) => AheadOf(received'[c], r)
      BY <1>3, <1>5, <3>2, NotPassedIsAhead DEF AheadOf
    <3>. QED
      BY <1>7, <3>1, <3>3
  <2>4. Ordered(received[c], Late(c)) /\ (x \in Late(c) \/ AheadOf(received[c], x))
    BY <1>4, <1>6 DEF ClientInv, InOrder, Owed
  <2>5. Ordered(received'[c], Late(c)')
    BY <1>1, <1>2, <1>3, <1>7, <2>4, OrderedAppend
  <2>. QED
    BY <2>3, <2>5 DEF InOrder
<1>9. Lossless(c)'
  <2>1. Late(c) \subseteq Late(c)'
    BY <1>7
  <2>2. \A r \in Absent(c)' : r \in Absent(c) /\ r # x
    BY <1>1, <1>5 DEF Absent, Visible, Alone
  <2>3. \A r \in Coming(c) : r # x => r \in Coming(c)'
    BY <1>1, <1>4 DEF Coming, Backlog, Visible, Alone
  <2>. QED
    BY <1>1, <1>6, <2>1, <2>2, <2>3 DEF ClientInv, Lossless
<1>10. Linked(c)' /\ CursorIsLast(c)'
  BY <1>1, <1>5, <1>6 DEF ClientInv, Linked, CursorIsLast
<1>11. FedSince(c)'
  BY <1>1, <1>4, <1>5, <1>6 DEF ClientInv, FedSince, Visible, Alone
<1>. QED
  BY <1>1, <1>8, <1>9, <1>10, <1>11, OneClient DEF ClientInv

LEMMA CloseKeeps ==
    ASSUME TypeOK, ResumeInv, NEW c \in Clients, Close(c) \/ Fail(c)
    PROVE  ResumeInv'
<1>1. Linked(c)
  BY DEF ResumeInv, ClientInv
<1>2. /\ conn'[c] = NoConn /\ wire'[c] = <<>>
      /\ source'[c] = (IF source[c] = "open" THEN "connecting" ELSE source[c])
           \/ source'[c] = "closed"
      /\ UNCHANGED <<lastId, received, since, hazard, late>>
      /\ Alone(c)
  BY DEF Close, Fail, Drop, ReplayFails, Cut, writeVars, Alone, TypeOK
<1>3. ClientInv(c)'
  BY <1>2, Detached DEF ResumeInv, Alone
<1>. QED
  BY <1>2, <1>3, OneClient

LEMMA CrashKeeps ==
    ASSUME TypeOK, ResumeInv, Crash
    PROVE  ResumeInv'
<1>1. /\ inflight' = {} /\ unpublished' = {} /\ clock' = clock
      /\ table' \subseteq table \cup inflight
      /\ UNCHANGED <<sub, lastId, received, since, hazard, late>>
      /\ Cut(Clients)
  BY DEF Crash
<1>2. TableInv'
  BY <1>1 DEF ResumeInv, TableInv
<1>3. ASSUME NEW c \in Clients PROVE ClientInv(c)'
  <2>1. /\ conn'[c] = NoConn /\ wire'[c] = <<>>
        /\ source'[c] = IF source[c] = "open" THEN "connecting" ELSE source[c]
    BY <1>1 DEF Cut
  <2>. QED
    BY <1>1, <2>1, Detached DEF ResumeInv
<1>. QED
  BY <1>2, <1>3 DEF ResumeInv

LEMMA NextResume == TypeOK /\ ResumeInv /\ [Next]_vars => ResumeInv'
<1> SUFFICES ASSUME TypeOK, ResumeInv, [Next]_vars PROVE ResumeInv'
  OBVIOUS
<1>1. ASSUME UNCHANGED <<inflight, table, unpublished, sub, linkVars, since, hazard, late>>,
             clock' \in {clock, clock + 1}
      PROVE  ResumeInv'
  <2>1. TableInv'
    BY <1>1 DEF ResumeInv, TableInv, TypeOK, Row
  <2>2. \A c \in Clients : ClientInv(c)'
    BY <1>1, Untouched DEF ResumeInv, linkVars
  <2>. QED
    BY <2>1, <2>2 DEF ResumeInv
<1>2. CASE Tick \/ Restart \/ UNCHANGED vars
  BY <1>1, <1>2 DEF Tick, Restart, vars, linkVars, writeVars
<1>3. ASSUME NEW content \in Contents, NEW id \in 1..MaxRows, BeginCreate(content, id)
      PROVE  ResumeInv'
  BY <1>3, BeginCreateKeeps
<1>4. ASSUME NEW r \in inflight, Commit(r) \/ FailCreate(r)
      PROVE  ResumeInv'
  BY <1>4, CommitKeeps
<1>5. ASSUME NEW r \in unpublished, Publish(r)
      PROVE  ResumeInv'
  BY <1>5, PublishKeeps
<1>6. ASSUME NEW c \in Clients, Serve(c) \/ Browse(c) \/ Fail(c)
      PROVE  ResumeInv'
  BY <1>6, RunReplayQueryKeeps, EmitReplayedKeeps, PingKeeps, ConnectKeeps,
     ConnectRefusedKeeps, ReceiveRowKeeps, CloseKeeps DEF Serve, Browse
<1>7. CASE Crash
  BY <1>7, CrashKeeps
<1>. QED
  BY <1>2, <1>3, <1>4, <1>5, <1>6, <1>7 DEF Next, Write

(* Tables, cursors and replays keep what a resume relies on. *)
LEMMA ResumeCorrect == Spec => []ResumeInv
BY InitResume, NextResume, TypeCorrect, PTL DEF Spec

(* A resume with a usable id, a backlog within the limit and an open window *)
(* loses only late rows: every other committed row a connected client       *)
(* should have is received, on its way or still to be announced, across any *)
(* number of reconnects and crashes.                                        *)
THEOREM LossExplained == Spec => []LossIsExplained
<1>1. ResumeInv => LossIsExplained
  BY DEF ResumeInv, ClientInv, Lossless, LossIsExplained, Missing, Absent
<1>. QED
  BY <1>1, ResumeCorrect, PTL

(* Each row a client receives follows the one before it in keyset order, or *)
(* is late, across any number of reconnects and crashes.                    *)
THEOREM InOrderReceived == Spec => []OutOfOrderIsLate
<1>1. ResumeInv => OutOfOrderIsLate
  BY DEF ResumeInv, ClientInv, InOrder, OutOfOrderIsLate, Ordered
<1>. QED
  BY <1>1, ResumeCorrect, PTL

-----------------------------------------------------------------------------
(***************************************************************************)
(* ResumeSettles and AnnouncedRowsArrive, as far as they are safety: a     *)
(* tail has a step to take at every point of a resume.  Ids are unique, so *)
(* that of the rows a replay has left one is the oldest; and what is on    *)
(* the wire is on the wire of a connection that both ends have open.       *)
(***************************************************************************)
UniqueIds == \A a, b \in inflight \cup table : a.id = b.id => a = b

Served(c) ==
    /\ conn[c].phase = "drain" => conn[c].rest # {}
    /\ conn[c].phase # "none" => apiUp
    /\ conn[c].phase = "none" => wire[c] = <<>>

ServeInv == UniqueIds /\ \A c \in Clients : Served(c)

OldestOf(S) == \E r \in S : \A s \in S \ {r} : Before(r, s)

TailGoesOn ==
    \A c \in Clients :
        /\ source[c] = "open" <=> conn[c].phase # "none"
        /\ source[c] = "open" => apiUp
        /\ conn[c].phase = "drain" => OldestOf(conn[c].rest)
        /\ wire[c] # <<>> => source[c] = "open"

(* A set of naturals has a least element. *)
LEMMA LeastNat ==
    ASSUME NEW N \in SUBSET Nat, N # {}
    PROVE  \E n \in N : \A m \in N : n <= m
<1>1. PICK n \in N : \A m \in N : <<m, n>> \notin OpToRel(<, Nat)
  BY NatLessThanWellFounded, WFMin
<1>2. \A m \in N : ~(m < n)
  BY <1>1 DEF OpToRel
<1>. QED
  BY <1>2

LEMMA OldestExists ==
    ASSUME NEW S \in SUBSET Row, S # {}, \A a, b \in S : a.id = b.id => a = b
    PROVE  OldestOf(S)
<1> DEFINE Times == {r.ts : r \in S}
<1>1. PICK t \in Times : \A u \in Times : t <= u
  <2>1. Times \in SUBSET Nat /\ Times # {}
    BY DEF Row
  <2>. QED
    BY <2>1, LeastNat
<1> DEFINE Ids == {r.id : r \in {s \in S : s.ts = t}}
<1>2. PICK i \in Ids : \A j \in Ids : i <= j
  <2>1. Ids \in SUBSET Nat /\ Ids # {}
    BY <1>1 DEF Row
  <2>. QED
    BY <2>1, LeastNat
<1>3. PICK r \in S : r.ts = t /\ r.id = i
  BY <1>2
<1>4. ASSUME NEW s \in S \ {r} PROVE Before(r, s)
  <2>1. /\ r.ts \in Nat /\ s.ts \in Nat /\ r.id \in Nat /\ s.id \in Nat
        /\ r.id # s.id
    BY <1>4 DEF Row
  <2>2. r.ts <= s.ts
    BY <1>1, <1>3
  <2>3. s.ts = r.ts => r.id <= s.id
    BY <1>2, <1>3
  <2>. QED
    BY <2>1, <2>2, <2>3 DEF Before
<1>. QED
  BY <1>3, <1>4 DEF OldestOf

LEMMA IdsStayUnique == ASSUME TypeOK, UniqueIds, [Next]_vars PROVE UniqueIds'
<1>1. ASSUME inflight' \cup table' \subseteq inflight \cup table PROVE UniqueIds'
  BY <1>1 DEF UniqueIds
<1>2. ASSUME NEW content \in Contents, NEW id \in 1..MaxRows, BeginCreate(content, id)
      PROVE  UniqueIds'
  <2> DEFINE r == MkRow(clock, id, content)
  <2>1. r.id = id /\ inflight' = inflight \cup {r} /\ table' = table
    BY <1>2 DEF BeginCreate, MkRow
  <2>2. \A a \in inflight \cup table : a.id # id
    BY <1>2 DEF BeginCreate, UsedIds
  <2> HIDE DEF r
  <2>. QED
    BY <2>1, <2>2 DEF UniqueIds
<1>3. ASSUME NEW r \in inflight, Commit(r) \/ FailCreate(r) PROVE UniqueIds'
  BY <1>1, <1>3 DEF Commit, FailCreate
<1>4. CASE Crash
  BY <1>1, <1>4 DEF Crash
<1>5. CASE \/ Tick \/ Restart \/ UNCHANGED vars
           \/ (\E r \in unpublished : Publish(r))
           \/ (\E c \in Clients : Serve(c) \/ Browse(c) \/ Fail(c))
  BY <1>1, <1>5 DEF Tick, Restart, Publish, Serve, RunReplayQuery, EmitReplayed, KeepAlive, Browse,
     Connect, ConnectRefused, ReceiveRow, ReceivePing, Close, Fail, Drop, ReplayFails, writeVars, vars
<1>. QED
  BY <1>2, <1>3, <1>4, <1>5 DEF Next, Write

LEMMA ServedOn ==
    ASSUME TypeOK, ResumeInv, ServeInv, [Next]_vars, NEW c \in Clients
    PROVE  Served(c)'
<1> USE DEF Served, ServeInv
<1>1. ASSUME UNCHANGED apiUp, conn'[c] = conn[c], wire'[c] = wire[c] PROVE Served(c)'
  BY <1>1
<1>2. ASSUME conn'[c] = NoConn, wire'[c] = <<>> PROVE Served(c)'
  BY <1>2 DEF NoConn
<1>3. ASSUME NEW r \in unpublished, Publish(r) PROVE Served(c)'
  BY <1>3 DEF Publish, Listening, TypeOK
<1>4. CASE Tick \/ UNCHANGED vars \/ (\E r \in inflight : Commit(r) \/ FailCreate(r))
           \/ (\E content \in Contents, id \in 1..MaxRows : BeginCreate(content, id))
  BY <1>1, <1>4 DEF Tick, Commit, FailCreate, BeginCreate, linkVars, vars
<1>5. CASE Restart
  BY <1>5 DEF Restart, linkVars
<1>6. CASE Crash
  BY <1>2, <1>6 DEF Crash, Cut
<1>7. ASSUME NEW d \in Clients, Serve(d) \/ Browse(d) \/ Fail(d) PROVE Served(c)'
  <2>1. CASE d # c
    BY <1>1, <1>7, <2>1 DEF TypeOK, Serve, RunReplayQuery, EmitReplayed, KeepAlive, Browse, Connect,
       ConnectRefused, ReceiveRow, ReceivePing, Close, Fail, Drop, ReplayFails, Cut
  <2>2. CASE d = c
    <3>1. CASE RunReplayQuery(c)
      <4>1. /\ conn'[c].phase = PhaseOf(conn'[c].rest) /\ conn[c].phase = "query"
            /\ UNCHANGED <<apiUp, wire>>
        BY <3>1 DEF RunReplayQuery, TypeOK, ConnType
      <4>. QED
        BY <4>1 DEF PhaseOf
    <3>2. CASE EmitReplayed(c)
      <4>1. /\ conn'[c].phase = PhaseOf(conn'[c].rest) /\ conn[c].phase = "drain"
            /\ UNCHANGED apiUp
        BY <3>2 DEF EmitReplayed, TypeOK, ConnType
      <4>. QED
        BY <4>1 DEF PhaseOf
    <3>3. CASE KeepAlive(c)
      BY <3>3 DEF KeepAlive
    <3>4. CASE Connect(c)
      BY <3>4 DEF Connect, NoConn, TypeOK
    <3>5. CASE ConnectRefused(c)
      BY <1>1, <3>5 DEF ConnectRefused
    <3>6. CASE ReceiveRow(c) \/ ReceivePing(c)
      BY <3>6 DEF ReceiveRow, ReceivePing, ResumeInv, ClientInv, Linked
    <3>7. CASE Close(c)
      BY <1>2, <3>7 DEF Close, TypeOK
    <3>8. CASE Drop(c) \/ ReplayFails(c)
      BY <1>2, <3>8 DEF Drop, ReplayFails, Cut
    <3>. QED
      BY <1>7, <2>2, <3>1, <3>2, <3>3, <3>4, <3>5, <3>6, <3>7, <3>8 DEF Serve, Browse, Fail
  <2>. QED
    BY <2>1, <2>2
<1>. QED
  BY <1>3, <1>4, <1>5, <1>6, <1>7 DEF Next, Write

LEMMA ServeKept == TypeOK /\ ResumeInv /\ ServeInv /\ [Next]_vars => ServeInv'
<1> SUFFICES ASSUME TypeOK, ResumeInv, ServeInv, [Next]_vars PROVE ServeInv'
  OBVIOUS
<1>1. UniqueIds'
  BY IdsStayUnique DEF ServeInv
<1>. QED
  BY <1>1, ServedOn DEF ServeInv

(* A resume is never stuck: a replay that drains has a row it may yield     *)
(* next, a stream is open at both ends or at neither, and never of a        *)
(* process that is down, and a frame under way can be delivered.            *)
THEOREM TailNeverStuck == Spec => []TailGoesOn
<1>1. Init => ServeInv
  BY DEF Init, ServeInv, UniqueIds, Served, NoConn
<1>2. TypeOK /\ ScopeInv /\ ResumeInv /\ ServeInv => TailGoesOn
  <2> SUFFICES ASSUME TypeOK, ScopeInv, ResumeInv, ServeInv, NEW c \in Clients
               PROVE  /\ source[c] = "open" <=> conn[c].phase # "none"
                      /\ source[c] = "open" => apiUp
                      /\ conn[c].phase = "drain" => OldestOf(conn[c].rest)
                      /\ wire[c] # <<>> => source[c] = "open"
    BY DEF TailGoesOn
  <2>1. Linked(c) /\ Served(c)
    BY DEF ResumeInv, ClientInv, ServeInv
  <2>2. conn[c].rest \subseteq table
    BY DEF ScopeInv, Allowed
  <2>3. conn[c].phase = "drain" => OldestOf(conn[c].rest)
    BY <2>1, <2>2, OldestExists DEF TypeOK, Served, ServeInv, UniqueIds
  <2>. QED
    BY <2>1, <2>3 DEF Linked, Served
<1>. QED
  BY <1>1, <1>2, ServeKept, TypeCorrect, ScopeCorrect, ResumeCorrect, PTL DEF Spec

-----------------------------------------------------------------------------
(***************************************************************************)
(* The tail implements its contract: every step is a step of TailContract  *)
(* or leaves log, up, feed and seen as they are.                           *)
(***************************************************************************)
FeedOf(c) == OnWire(c) \cup conn[c].rest \cup {r \in unpublished : Visible(c, r)}

RefineInv == TypeOK /\ ScopeInv /\ ResumeInv

LEMMA ViewOf ==
    ASSUME NEW c \in Clients
    PROVE  /\ c \in Attached <=> conn[c].phase # "none"
           /\ Feed[c] = IF conn[c].phase # "none" THEN FeedOf(c) ELSE {}
           /\ Seen[c] = ToSet(received[c])
BY DEF Attached, Feed, FeedOf, Seen

(* The contract's scope is what the guard and the filter let through. *)
LEMMA ScopeIsVisible ==
    ASSUME NEW c, NEW S
    PROVE  Contract!Scope(c, S) = {r \in S : Visible(c, r)}
BY DEF Contract!Scope, Contract!InScope, Visible, Contract!Matches, Matches,
       Contract!Interceptor, Interceptor

(* What is owed to a client is in its scope and recorded. *)
FeedScoped == \A c \in Clients : FeedOf(c) \in SUBSET Contract!Scope(c, table)

LEMMA FeedInScope == RefineInv => FeedScoped
<1> SUFFICES ASSUME RefineInv, NEW c \in Clients
             PROVE  FeedOf(c) \in SUBSET Contract!Scope(c, table)
  BY DEF FeedScoped
<1>1. OnWire(c) \subseteq {r \in table : Visible(c, r)}
  BY DEF RefineInv, TypeOK, ScopeInv, OnWire, Frames, ToSet, Allowed
<1>2. conn[c].rest \cup unpublished \subseteq table /\ \A r \in conn[c].rest : Visible(c, r)
  BY DEF RefineInv, ScopeInv, Allowed, ResumeInv, TableInv
<1>. QED
  BY <1>1, <1>2, ScopeIsVisible DEF FeedOf

(* A step no client could notice. *)
LEMMA SameView ==
    ASSUME UNCHANGED <<table, sub>>,
           \A c \in Clients :
              /\ conn'[c].phase = "none" <=> conn[c].phase = "none"
              /\ conn[c].phase # "none" => FeedOf(c)' = FeedOf(c)
              /\ ToSet(received'[c]) = ToSet(received[c])
    PROVE  UNCHANGED Contract!vars
<1>1. Attached' = Attached
  BY DEF Attached
<1>2. Feed' = Feed
  <2>1. \A c \in Clients : IF c \in Attached' THEN c \in Attached /\ FeedOf(c)' = FeedOf(c)
                                              ELSE c \notin Attached
    BY <1>1 DEF Attached
  <2>. QED
    BY <2>1 DEF Feed, FeedOf
<1>3. Seen' = Seen
  BY DEF Seen
<1>. QED
  BY <1>1, <1>2, <1>3 DEF Contract!vars

(* A step of one client is seen by that client only. *)
LEMMA OneView ==
    ASSUME NEW c \in Clients, Alone(c)
    PROVE  /\ UNCHANGED <<table, sub>>
           /\ Attached' = IF conn'[c].phase = "none" THEN Attached \ {c} ELSE Attached \cup {c}
           /\ Feed' = [Feed EXCEPT ![c] = IF conn'[c].phase = "none" THEN {} ELSE FeedOf(c)']
           /\ Seen' = [Seen EXCEPT ![c] = ToSet(received'[c])]
<1>1. UNCHANGED <<table, sub, unpublished>>
  BY DEF Alone
<1>2. ASSUME NEW d \in Clients \ {c}
      PROVE  /\ d \in Attached' <=> d \in Attached
             /\ Feed'[d] = Feed[d] /\ Seen'[d] = Seen[d]
  <2>1. FeedOf(d)' = FeedOf(d) /\ conn'[d] = conn[d] /\ received'[d] = received[d]
    BY <1>1 DEF Alone, FeedOf, OnWire, Frames, Visible
  <2>2. d \in Attached' <=> d \in Attached
    BY <2>1 DEF Attached
  <2>3. Feed'[d] = Feed[d]
    BY <2>1, <2>2 DEF Feed, FeedOf
  <2>. QED
    BY <2>1, <2>2, <2>3 DEF Seen
<1>3. c \in Attached' <=> conn'[c].phase # "none"
  BY DEF Attached
<1>4. Feed'[c] = (IF conn'[c].phase = "none" THEN {} ELSE FeedOf(c)')
  BY <1>3 DEF Feed, FeedOf
<1>5. Seen'[c] = ToSet(received'[c])
  BY DEF Seen
<1>6. Attached \subseteq Clients /\ Attached' \subseteq Clients
  BY DEF Attached
<1>7. /\ Feed = [d \in Clients |-> Feed[d]] /\ Feed' = [d \in Clients |-> Feed'[d]]
      /\ Seen = [d \in Clients |-> Seen[d]] /\ Seen' = [d \in Clients |-> Seen'[d]]
  BY DEF Feed, Seen
<1>8. Attached' = IF conn'[c].phase = "none" THEN Attached \ {c} ELSE Attached \cup {c}
  BY <1>2, <1>3, <1>6
<1>9. Feed' = [Feed EXCEPT ![c] = IF conn'[c].phase = "none" THEN {} ELSE FeedOf(c)']
  BY <1>2, <1>4, <1>7
<1>10. Seen' = [Seen EXCEPT ![c] = ToSet(received'[c])]
  BY <1>2, <1>5, <1>7
<1>. QED
  BY <1>1, <1>8, <1>9, <1>10

LEMMA AloneUnseen ==
    ASSUME NEW c \in Clients, Alone(c), received' = received,
           conn'[c].phase = "none" <=> conn[c].phase = "none",
           conn[c].phase # "none" => FeedOf(c)' = FeedOf(c)
    PROVE  UNCHANGED Contract!vars
<1>1. \A d \in Clients \ {c} : conn'[d] = conn[d] /\ FeedOf(d)' = FeedOf(d)
  BY DEF Alone, FeedOf, OnWire, Frames, Visible
<1>. QED
  BY <1>1, SameView DEF Alone

LEMMA InitRefines == Init => Contract!Init
<1> SUFFICES ASSUME Init PROVE Contract!Init
  OBVIOUS
<1>1. Attached = {}
  BY DEF Init, Attached, NoConn
<1>2. Seen = [c \in Clients |-> {}]
  BY DEF Init, Seen, ToSet
<1>. QED
  BY <1>1, <1>2 DEF Init, Contract!Init, Feed

(* An insert is recorded when Postgres commits it. *)
LEMMA CommitRecords ==
    ASSUME RefineInv, NEW r \in inflight, Commit(r)
    PROVE  Contract!Next
<1>1. /\ r \notin table /\ table' = table \cup {r} /\ unpublished' = unpublished \cup {r}
      /\ UNCHANGED <<sub, conn, wire, received>>
  BY DEF Commit, linkVars, RefineInv, ResumeInv, TableInv
<1>2. Attached' = Attached /\ Seen' = Seen
  BY <1>1 DEF Attached, Seen
<1>3. \A c \in Clients : FeedOf(c)' = FeedOf(c) \cup Contract!Scope(c, {r})
  BY <1>1, ScopeIsVisible DEF FeedOf, OnWire, Frames, Visible
<1>4. Feed' = [c \in Clients |-> IF c \in Attached THEN Feed[c] \cup Contract!Scope(c, {r})
                                                   ELSE Feed[c]]
  BY <1>2, <1>3 DEF Feed, FeedOf
<1>5. Contract!Record(r)
  BY <1>1, <1>2, <1>4 DEF Contract!Record
<1>. QED
  BY <1>1, <1>5 DEF Contract!Next

(* Announcing moves a row, for those who listen, onto the wire. *)
LEMMA PublishIsUnseen ==
    ASSUME RefineInv, NEW r \in unpublished, Publish(r)
    PROVE  UNCHANGED Contract!vars
<1>1. /\ unpublished' = unpublished \ {r}
      /\ UNCHANGED <<table, sub, conn, received>>
      /\ \A c \in Clients :
            wire'[c] = IF Listening(c) /\ Visible(c, r)
                       THEN Append(wire[c], [row |-> r, via |-> "live"]) ELSE wire[c]
  BY DEF Publish
<1>2. ASSUME NEW c \in Clients, conn[c].phase # "none" PROVE FeedOf(c)' = FeedOf(c)
  <2>1. wire[c] \in Seq(Frame \cup {Ping}) /\ [row |-> r, via |-> "live"] \in Frame
    BY DEF RefineInv, TypeOK, Frame
  <2>2. [row |-> r, via |-> "live"] # Ping
    BY <2>1
  <2>3. OnWire(c) = RowsIn(wire[c]) /\ OnWire(c)' = RowsIn(wire'[c])
    BY DEF OnWire, Frames, RowsIn
  <2>4. OnWire(c)' = IF Visible(c, r) THEN OnWire(c) \cup {r} ELSE OnWire(c)
    BY <1>1, <1>2, <2>1, <2>2, <2>3, RowsInAppend DEF Listening
  <2>. QED
    BY <1>1, <2>4 DEF FeedOf, Visible
<1>. QED
  BY <1>1, <1>2, SameView

LEMMA ConnectAttaches ==
    ASSUME RefineInv, RefineInv', NEW c \in Clients, Connect(c)
    PROVE  Contract!Attach(c)
<1>1. /\ source[c] = "connecting" /\ conn'[c].phase \in {"query", "live"}
      /\ received' = received /\ Alone(c)
  BY DEF Connect, RefineInv, TypeOK, NoConn, writeVars, Alone, Expose
<1>2. c \notin Attached
  BY <1>1 DEF RefineInv, ResumeInv, ClientInv, Linked, Attached
<1>3. FeedOf(c)' \in SUBSET Contract!Scope(c, table)
  <2>1. FeedScoped'
    BY FeedInScope, PTL
  <2>2. Contract!Scope(c, table)' = Contract!Scope(c, table)
    BY <1>1, ScopeIsVisible DEF Alone, Contract!Scope, Contract!InScope
  <2>. QED
    BY <2>1, <2>2 DEF FeedScoped
<1>4. /\ UNCHANGED <<table, sub>> /\ Attached' = Attached \cup {c}
      /\ Feed' = [Feed EXCEPT ![c] = FeedOf(c)']
      /\ Seen' = [Seen EXCEPT ![c] = ToSet(received[c])]
  BY <1>1, OneView
<1>5. Seen' = Seen
  BY <1>1 DEF Seen
<1>. QED
  BY <1>2, <1>3, <1>4, <1>5 DEF Contract!Attach

(* The answer to the replay's query is owed; emitting it only moves it. *)
LEMMA ReplayBackfills ==
    ASSUME RefineInv, RefineInv', NEW c \in Clients, RunReplayQuery(c)
    PROVE  Contract!Backfill(c)
<1>1. /\ conn[c].phase = "query" /\ conn'[c].phase \in {"live", "drain"}
      /\ UNCHANGED <<wire, received>> /\ Alone(c)
  BY DEF RunReplayQuery, RefineInv, TypeOK, ConnType, PhaseOf, writeVars, Alone, Expose
<1>2. c \in Attached
  BY <1>1 DEF Attached
<1>3. conn[c].rest = {}
  BY <1>1 DEF RefineInv, ResumeInv, ClientInv, Linked
<1>4. FeedOf(c)' = FeedOf(c) \cup conn'[c].rest
  BY <1>1, <1>3 DEF FeedOf, OnWire, Frames, Visible, Alone
<1>5. conn'[c].rest \in SUBSET Contract!Scope(c, table)
  <2>1. FeedScoped'
    BY FeedInScope, PTL
  <2>2. Contract!Scope(c, table)' = Contract!Scope(c, table)
    BY <1>1 DEF Alone, Contract!Scope, Contract!InScope
  <2>. QED
    BY <1>4, <2>1, <2>2 DEF FeedScoped
<1>6. /\ UNCHANGED <<table, sub>> /\ Attached' = Attached \cup {c}
      /\ Feed' = [Feed EXCEPT ![c] = FeedOf(c)']
      /\ Seen' = [Seen EXCEPT ![c] = ToSet(received[c])]
  BY <1>1, OneView
<1>7. Seen' = Seen /\ Attached' = Attached /\ Feed[c] = FeedOf(c)
  BY <1>1, <1>2, <1>6, ViewOf DEF Seen
<1>8. Feed' = [Feed EXCEPT ![c] = @ \cup conn'[c].rest]
  BY <1>4, <1>6, <1>7
<1>. QED
  BY <1>2, <1>5, <1>6, <1>7, <1>8 DEF Contract!Backfill

LEMMA EmitIsUnseen ==
    ASSUME RefineInv, NEW c \in Clients, EmitReplayed(c)
    PROVE  UNCHANGED Contract!vars
<1>1. PICK r \in conn[c].rest :
         /\ wire' = [wire EXCEPT ![c] = Append(@, [row |-> r, via |-> "replay"])]
         /\ conn' = [conn EXCEPT ![c].rest = conn[c].rest \ {r},
                                 ![c].phase = PhaseOf(conn[c].rest \ {r})]
  BY DEF EmitReplayed
<1>2. conn[c].phase = "drain" /\ received' = received /\ Alone(c)
  BY <1>1 DEF EmitReplayed, writeVars, Alone, RefineInv, TypeOK
<1>3. /\ conn[c] \in ConnType /\ wire[c] \in Seq(Frame \cup {Ping})
      /\ [row |-> r, via |-> "replay"] \in Frame
  BY DEF RefineInv, TypeOK, ConnType, Frame
<1>4. conn'[c].rest = conn[c].rest \ {r} /\ conn'[c].phase \in {"live", "drain"}
  BY <1>1, <1>3 DEF PhaseOf, ConnType, RefineInv, TypeOK
<1>5. OnWire(c)' = OnWire(c) \cup {r}
  <2>1. OnWire(c) = RowsIn(wire[c]) /\ OnWire(c)' = RowsIn(wire'[c])
    BY DEF OnWire, Frames, RowsIn
  <2>2. wire'[c] = Append(wire[c], [row |-> r, via |-> "replay"])
    BY <1>1 DEF RefineInv, TypeOK
  <2>. QED
    BY <1>3, <2>1, <2>2, RowsInAppend
<1>6. FeedOf(c)' = FeedOf(c)
  BY <1>2, <1>4, <1>5 DEF FeedOf, Visible, Alone
<1>. QED
  BY <1>2, <1>4, <1>6, AloneUnseen

LEMMA PingIsUnseen ==
    ASSUME RefineInv, NEW c \in Clients, KeepAlive(c) \/ ReceivePing(c)
    PROVE  UNCHANGED Contract!vars
<1>1. conn' = conn /\ received' = received /\ Alone(c)
  BY DEF KeepAlive, ReceivePing, writeVars, Alone, RefineInv, TypeOK
<1>2. OnWire(c)' = OnWire(c)
  BY PingMovesNoRow DEF RefineInv
<1>3. FeedOf(c)' = FeedOf(c)
  BY <1>1, <1>2 DEF FeedOf, Visible, Alone
<1>. QED
  BY <1>1, <1>3, AloneUnseen

(* A row received leaves the feed, unless another frame still brings it. *)
LEMMA ReceiveDelivers ==
    ASSUME RefineInv, NEW c \in Clients, ReceiveRow(c)
    PROVE  Contract!Deliver(c)
<1> DEFINE x == Head(wire[c]).row
<1>1. /\ source[c] = "open" /\ wire[c] # <<>> /\ Head(wire[c]) # Ping
      /\ wire'[c] = Tail(wire[c]) /\ received'[c] = Append(received[c], x)
      /\ conn' = conn /\ Alone(c)
  BY DEF ReceiveRow, Expose, writeVars, Alone, RefineInv, TypeOK
<1>2. wire[c] \in Seq(Frame \cup {Ping}) /\ received[c] \in Seq(Row)
  BY DEF RefineInv, TypeOK
<1>3. x \in Row
  <2>1. Head(wire[c]) \in Frame
    BY <1>1, <1>2
  <2>. QED
    BY <2>1 DEF Frame
<1>4. OnWire(c) = RowsIn(Tail(wire[c])) \cup {x} /\ OnWire(c)' = RowsIn(Tail(wire[c]))
  BY <1>1, <1>2, RowsInTail DEF OnWire, Frames, RowsIn
<1> HIDE DEF x
<1>5. conn[c].phase # "none"
  BY <1>1 DEF RefineInv, ResumeInv, ClientInv, Linked
<1>6. c \in Attached /\ Feed[c] = FeedOf(c) /\ Seen[c] = ToSet(received[c])
  BY <1>5, ViewOf
<1>7. ToSet(received'[c]) = ToSet(received[c]) \cup {x}
  BY <1>1, <1>2, <1>3, LastOfAppend
<1>8. x \in FeedOf(c) /\ (FeedOf(c)' = FeedOf(c) \/ FeedOf(c)' = FeedOf(c) \ {x})
  BY <1>1, <1>4 DEF FeedOf, Visible, Alone
<1>9. /\ UNCHANGED <<table, sub>> /\ Attached' = Attached \cup {c}
      /\ Feed' = [Feed EXCEPT ![c] = FeedOf(c)']
      /\ Seen' = [Seen EXCEPT ![c] = ToSet(received'[c])]
  BY <1>1, <1>5, OneView
<1>10. Seen' = [Seen EXCEPT ![c] = @ \cup {x}]
  BY <1>6, <1>7, <1>9
<1>11. Feed' \in {Feed, [Feed EXCEPT ![c] = @ \ {x}]}
  <2>1. Feed = [Feed EXCEPT ![c] = FeedOf(c)]
    BY <1>6 DEF Feed
  <2>. QED
    BY <1>6, <1>8, <1>9, <2>1
<1>. QED
  BY <1>6, <1>8, <1>9, <1>10, <1>11 DEF Contract!Deliver

(* A connection that ends detaches its client. *)
LEMMA EndDetaches ==
    ASSUME RefineInv, NEW c \in Clients, Close(c) \/ Fail(c)
    PROVE  Contract!Detach(c) \/ UNCHANGED Contract!vars
<1>1. conn'[c].phase = "none" /\ received' = received /\ Alone(c)
  BY DEF Close, Fail, Drop, ReplayFails, Cut, NoConn, writeVars, Alone, RefineInv, TypeOK
<1>2. /\ UNCHANGED <<table, sub>> /\ Attached' = Attached \ {c}
      /\ Feed' = [Feed EXCEPT ![c] = {}]
  BY <1>1, OneView
<1>3. Seen' = Seen
  BY <1>1 DEF Seen
<1>4. CASE c \in Attached
  BY <1>2, <1>3, <1>4 DEF Contract!Detach
<1>5. CASE c \notin Attached
  <2>1. Feed[c] = {} /\ Attached' = Attached
    BY <1>2, <1>5 DEF Feed
  <2>2. Feed' = Feed
    BY <1>2, <2>1 DEF Feed
  <2>. QED
    BY <1>2, <1>3, <2>1, <2>2 DEF Contract!vars
<1>. QED
  BY <1>4, <1>5

(* A crash of the API detaches everyone. *)
LEMMA CrashIsOutage ==
    ASSUME RefineInv, Crash
    PROVE  Contract!Outage
<1>1. /\ \A c \in Clients : conn'[c] = NoConn
      /\ table \subseteq table' /\ UNCHANGED <<sub, received>>
  BY DEF Crash, Cut
<1>2. Attached' = {}
  BY <1>1 DEF Attached, NoConn
<1>3. Feed' = [c \in Clients |-> {}]
  BY <1>2 DEF Feed
<1>. QED
  BY <1>1, <1>2, <1>3 DEF Contract!Outage, Seen

LEMMA NextRefines == RefineInv /\ RefineInv' /\ [Next]_vars => [Contract!Next]_(Contract!vars)
<1> SUFFICES ASSUME RefineInv, RefineInv', [Next]_vars
             PROVE  Contract!Next \/ UNCHANGED Contract!vars
  OBVIOUS
<1>1. ASSUME UNCHANGED <<table, unpublished, sub, conn, wire, received>>
      PROVE  UNCHANGED Contract!vars
  BY <1>1, SameView DEF FeedOf, OnWire, Frames, Visible
<1>2. CASE Tick \/ Restart \/ UNCHANGED vars
  BY <1>1, <1>2 DEF Tick, Restart, vars, linkVars, writeVars
<1>3. ASSUME NEW content \in Contents, NEW id \in 1..MaxRows, BeginCreate(content, id)
      PROVE  UNCHANGED Contract!vars
  BY <1>1, <1>3 DEF BeginCreate, linkVars
<1>4. ASSUME NEW r \in inflight, Commit(r) \/ FailCreate(r)
      PROVE  Contract!Next \/ UNCHANGED Contract!vars
  BY <1>1, <1>4, CommitRecords DEF FailCreate, linkVars
<1>5. ASSUME NEW r \in unpublished, Publish(r)
      PROVE  UNCHANGED Contract!vars
  BY <1>5, PublishIsUnseen
<1>6. ASSUME NEW c \in Clients, Serve(c)
      PROVE  Contract!Next \/ UNCHANGED Contract!vars
  BY <1>6, ReplayBackfills, EmitIsUnseen, PingIsUnseen DEF Serve, Contract!Next
<1>7. ASSUME NEW c \in Clients, ConnectRefused(c)
      PROVE  UNCHANGED Contract!vars
  BY <1>1, <1>7 DEF ConnectRefused, writeVars
<1>8. ASSUME NEW c \in Clients, Browse(c)
      PROVE  Contract!Next \/ UNCHANGED Contract!vars
  BY <1>7, <1>8, ConnectAttaches, PingIsUnseen, ReceiveDelivers, EndDetaches
     DEF Browse, Contract!Next
<1>9. ASSUME NEW c \in Clients, Fail(c)
      PROVE  Contract!Next \/ UNCHANGED Contract!vars
  BY <1>9, EndDetaches DEF Contract!Next
<1>10. CASE Crash
  BY <1>10, CrashIsOutage DEF Contract!Next
<1>. QED
  BY <1>2, <1>3, <1>4, <1>5, <1>6, <1>8, <1>9, <1>10 DEF Next, Write

(* The tail implements the best-effort feed: while a client stays attached  *)
(* every row recorded in its scope becomes owed to it, and what is owed     *)
(* leaves the feed only by delivery or detachment.                          *)
THEOREM Implements == Spec => ImplementsContract
<1>1. Spec => []RefineInv
  BY TypeCorrect, ScopeCorrect, ResumeCorrect, PTL DEF RefineInv
<1>. QED
  BY <1>1, InitRefines, NextRefines, PTL DEF Spec, ImplementsContract, Contract!Spec
=============================================================================

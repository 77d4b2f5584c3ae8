------------------------------ MODULE AuditTail ------------------------------
(***************************************************************************)
(* The audit live tail of apps/api, end to end: the write path that        *)
(* commits a row and then announces it (PrismaNotificationLogRepository,   *)
(* AuditEventBus), the SSE endpoint that merges a Last-Event-ID replay     *)
(* with the live feed (AuditSseController), and the EventSource that holds *)
(* a connection to it and comes back with the last id it saw.              *)
(*                                                                         *)
(* The steps are those of the asynchronous code.  A row gets its timestamp *)
(* before its INSERT, is committed by Postgres, and is published only when *)
(* create() resumes; the replay's findMany is issued when the connection   *)
(* opens, sees the table some time later and is drained row by row while   *)
(* the live feed already runs.                                             *)
(***************************************************************************)
EXTENDS AuditRows, Sequences, SequencesExt

CONSTANTS
    Clients,        \* EventSources, each with a fixed URL
    Subscriptions,  \* what a client may ask for: [tenant, filter]
    Contents,       \* what the delivery pipeline may log
    REPLAY_LIMIT,   \* the replay's `take`
    FrameIds,       \* the ids the SSE framework may stamp on a frame without one
    Blank,          \* no id at all
    Garbage,        \* an id decodeCursor rejects
    Ping,           \* the keep-alive frame
    MaxRows,        \* bound: rows logged
    MaxClock,       \* bound: distinct milliseconds
    MaxFaults       \* bound: dropped connections, failed queries, crashes

(* A frame that carries a row, and whether the replay or the feed sent it. *)
Frame == [row : Row, via : {"replay", "live"}]

ASSUME TailAssumption ==
    /\ Subscriptions \subseteq [tenant : Tenants, filter : Filter]
    /\ Contents \subseteq Content
    /\ REPLAY_LIMIT \in Nat \ {0}
    /\ FrameIds \subseteq {Blank, Garbage}
    /\ Blank # Garbage /\ Blank \notin Row /\ Garbage \notin Row
    /\ Ping \notin Frame
    /\ MaxRows \in Nat /\ MaxClock \in Nat /\ MaxFaults \in Nat

VARIABLES
    clock,        \* the API host's clock
    inflight,     \* rows whose INSERT is under way
    table,        \* committed rows
    unpublished,  \* committed rows whose create() has not resumed yet
    apiUp,        \* the API process is listening
    sub,          \* each client's tenant and filter
    conn,         \* the server's end of each client's connection
    wire,         \* frames sent and not yet received, per client
    source,       \* EventSource.readyState
    lastId,       \* EventSource's last event id: a row (its cursor), Blank or Garbage
    received,     \* rows the client has received, oldest first
    faults,       \* faults so far
    since,        \* history: whether a client has connected, and the table then
    hazard,       \* history: what a client's resumes have been exposed to
    late          \* history: rows a client was still owed when its cursor passed them

writeVars == <<clock, inflight, table, unpublished>>
linkVars  == <<conn, wire, source, lastId, received>>
vars == <<clock, inflight, table, unpublished, apiUp, sub, conn, wire, source,
          lastId, received, faults, since, hazard, late>>

Phases  == {"none", "query", "drain", "live"}
States  == {"connecting", "open", "closed"}
Hazards == {"blank", "truncated", "window"}

NoConn == [phase |-> "none", cursor |-> Blank, to |-> 0, rest |-> {}]
ConnType == [phase : Phases, cursor : Row \cup {Blank}, to : Nat, rest : SUBSET Row]

Frames(c) == {f \in ToSet(wire[c]) : f # Ping}
OnWire(c) == {f.row : f \in Frames(c)}
UsedIds == {r.id : r \in inflight \cup table}

-----------------------------------------------------------------------------
(* The server's filters for one client.                                     *)

(* The live feed: tenant guard first, then the client's filter. *)
VisibleUnguarded(c, r) == Matches(sub[c].filter, r)  \* mutant
Visible(c, r) == r.tenant = sub[c].tenant /\ Matches(sub[c].filter, r)

(* The replay's lower bound: filter.from, or the cursor's own timestamp. *)
ReplayFrom(c, cursor) ==
    IF sub[c].filter.from = Unset THEN cursor.ts ELSE sub[c].filter.from

(* The upper bound buildWhere fixes when the stream opens. *)
ReplayTo(c) == IF sub[c].filter.to = Unset THEN clock ELSE sub[c].filter.to

(* The rows the replay's findMany selects, before `take`. *)
Selected(c, S) ==
    LET k == conn[c].cursor IN
    {r \in S : /\ Where(sub[c].filter, sub[c].tenant, ReplayFrom(c, k), conn[c].to, r)
               /\ NewerThan(k, r)}

(* replay$ and live$ are merged: the feed listens from the moment the stream *)
(* is subscribed, replay or no replay.                                      *)
ListeningAfterReplay(c) == conn[c].phase = "live"  \* mutant: concatenated
Listening(c) == conn[c].phase # "none"

(* The replay completes once it has no row left to yield. *)
NeverCompletes(rest) == "drain"  \* mutant
PhaseOf(rest) == IF rest = {} THEN "live" ELSE "drain"

-----------------------------------------------------------------------------
(* History: when a client's cursor (the last row it received) reaches a row *)
(* it is still owed, that row will arrive out of order, or again, or -- the *)
(* connection lost before -- never: no resume from the cursor brings it.    *)

PassedBy(c, r) == received[c] # <<>> /\ NotAfter(r, Last(received[c]))

(* Rows the open connection still owes the client: from its replay, and     *)
(* from the live feed.                                                      *)
Behind(c, via) == {f.row : f \in {g \in ToSet(Tail(wire[c])) : g # Ping /\ g.via = via}}

Backlog(c) == IF conn[c].phase = "query"
              THEN {s \in table : Visible(c, s) /\ NewerThan(conn[c].cursor, s)} ELSE {}

OwedByReplay(c) == Behind(c, "replay") \cup conn[c].rest \cup Backlog(c)

OwedByFeed(c) ==
    Behind(c, "live") \cup {s \in inflight \cup unpublished : Visible(c, s)}

Late(c) == late[c].feed \cup late[c].replay

Expose(c, names) == [hazard EXCEPT ![c] = @ \cup names]

-----------------------------------------------------------------------------
Init ==
    /\ clock = 0
    /\ inflight = {} /\ table = {} /\ unpublished = {}
    /\ apiUp = TRUE
    /\ sub \in [Clients -> Subscriptions]
    /\ conn = [c \in Clients |-> NoConn]
    /\ wire = [c \in Clients |-> <<>>]
    /\ source = [c \in Clients |-> "connecting"]
    /\ lastId = [c \in Clients |-> Blank]
    /\ received = [c \in Clients |-> <<>>]
    /\ faults = 0
    /\ since = [c \in Clients |-> [met |-> FALSE, rows |-> {}]]
    /\ hazard = [c \in Clients |-> {}]
    /\ late = [c \in Clients |-> [feed |-> {}, replay |-> {}]]

(***************************************************************************)
(* The write path.                                                         *)
(***************************************************************************)
Tick ==
    /\ clock < MaxClock
    /\ clock' = clock + 1
    /\ UNCHANGED <<inflight, table, unpublished, apiUp, sub, faults, since, hazard, late>>
    /\ UNCHANGED linkVars

(* create(entry): the entry is stamped, its INSERT leaves for Postgres. *)
BeginCreate(content, id) ==
    LET r == MkRow(clock, id, content) IN
    /\ apiUp
    /\ id \notin UsedIds
    /\ inflight' = inflight \cup {r}
    /\ late' = [c \in Clients |->
                  IF Visible(c, r) /\ PassedBy(c, r)
                  THEN [late[c] EXCEPT !.feed = @ \cup {r}] ELSE late[c]]
    /\ UNCHANGED <<clock, table, unpublished, apiUp, sub, faults, since, hazard>>
    /\ UNCHANGED linkVars

(* Postgres commits the INSERT. *)
Commit(r) ==
    /\ r \in inflight
    /\ inflight' = inflight \ {r}
    /\ table' = table \cup {r}
    /\ unpublished' = unpublished \cup {r}
    /\ UNCHANGED <<clock, apiUp, sub, faults, since, hazard, late>>
    /\ UNCHANGED linkVars

(* Mutant: the rejected row is announced all the same. *)
FailCreateAnnounced(r) ==
    /\ r \in inflight
    /\ inflight' = inflight \ {r}
    /\ unpublished' = unpublished \cup {r}
    /\ UNCHANGED <<clock, table, apiUp, sub, faults, since, hazard, late>>
    /\ UNCHANGED linkVars

(* The INSERT is rejected; the pipeline swallows the error and goes on. *)
FailCreate(r) ==
    /\ r \in inflight
    /\ inflight' = inflight \ {r}
    /\ UNCHANGED <<clock, table, unpublished, apiUp, sub, faults, since, hazard, late>>
    /\ UNCHANGED linkVars

(* create() resumes: publishPersisted emits the row to every listener.  A   *)
(* connection is a listener from the moment its stream was subscribed.      *)
Publish(r) ==
    /\ r \in unpublished
    /\ unpublished' = unpublished \ {r}
    /\ wire' = [c \in Clients |->
                  IF Listening(c) /\ Visible(c, r)
                  THEN Append(wire[c], [row |-> r, via |-> "live"]) ELSE wire[c]]
    /\ UNCHANGED <<clock, inflight, table, apiUp, sub, conn, source, lastId,
                   received, faults, since, hazard, late>>

(***************************************************************************)
(* The SSE endpoint.                                                       *)
(***************************************************************************)
(* The browser's request, through the console's proxy route: replaySince    *)
(* decodes the id (EMPTY when it cannot) and issues the query; the live     *)
(* feed is subscribed in the same turn.                                     *)
Connect(c) ==
    LET resumes == lastId[c] \notin {Blank, Garbage} IN
    /\ source[c] = "connecting" /\ apiUp
    /\ conn' = [conn EXCEPT ![c] =
                  IF resumes
                  THEN [phase |-> "query", cursor |-> lastId[c],
                        to |-> ReplayTo(c), rest |-> {}]
                  ELSE [NoConn EXCEPT !.phase = "live"]]
    /\ source' = [source EXCEPT ![c] = "open"]
    /\ since' = IF since[c].met THEN since
                ELSE [since EXCEPT ![c] = [met |-> TRUE, rows |-> table]]
    /\ hazard' = IF since[c].met /\ ~resumes THEN Expose(c, {"blank"}) ELSE hazard
    /\ UNCHANGED <<apiUp, sub, wire, lastId, received, faults, late>>
    /\ UNCHANGED writeVars

(* The proxy cannot reach the API and answers 500: the EventSource gives up *)
(* for good (readyState CLOSED).                                            *)
ConnectRefused(c) ==
    /\ source[c] = "connecting" /\ ~apiUp
    /\ source' = [source EXCEPT ![c] = "closed"]
    /\ UNCHANGED <<apiUp, sub, conn, wire, lastId, received, faults, since, hazard, late>>
    /\ UNCHANGED writeVars

(* The replay's findMany runs: at most REPLAY_LIMIT rows, oldest first, of  *)
(* which those the filter matches are kept.                                 *)
RunReplayQuery(c) ==
    LET all  == Selected(c, table)
        kept == {r \in FirstAsc(all, REPLAY_LIMIT) : Matches(sub[c].filter, r)}
        cut  == {r \in all : r \notin FirstAsc(all, REPLAY_LIMIT) /\ Visible(c, r)}
        out  == Backlog(c) \ all
    IN
    /\ conn[c].phase = "query"
    /\ conn' = [conn EXCEPT ![c].rest = kept,
                            ![c].phase = PhaseOf(kept)]
    /\ hazard' = Expose(c, (IF cut = {} THEN {} ELSE {"truncated"}) \cup
                           (IF \E r \in out : sub[c].filter.to # Unset \/ r.ts < ReplayFrom(c, conn[c].cursor)
                            THEN {"window"} ELSE {}))
    /\ UNCHANGED <<apiUp, sub, wire, source, lastId, received, faults, since, late>>
    /\ UNCHANGED writeVars

(* The async generator yields its next row. *)
EmitReplayed(c) ==
    /\ conn[c].phase = "drain"
    /\ \E r \in conn[c].rest :
         LET rest == conn[c].rest \ {r} IN
         /\ \A s \in rest : Before(r, s)
         /\ wire' = [wire EXCEPT ![c] = Append(@, [row |-> r, via |-> "replay"])]
         /\ conn' = [conn EXCEPT ![c].rest = rest,
                                 ![c].phase = PhaseOf(rest)]
    /\ UNCHANGED <<apiUp, sub, source, lastId, received, faults, since, hazard, late>>
    /\ UNCHANGED writeVars

(* The keep-alive timer: a frame with neither data nor id.  A second one    *)
(* behind the first would change nothing, so at most one is under way.      *)
KeepAlive(c) ==
    /\ conn[c].phase # "none"
    /\ Ping \notin ToSet(wire[c])
    /\ wire' = [wire EXCEPT ![c] = Append(@, Ping)]
    /\ UNCHANGED <<apiUp, sub, conn, source, lastId, received, faults, since, hazard, late>>
    /\ UNCHANGED writeVars

(***************************************************************************)
(* The EventSource.                                                        *)
(***************************************************************************)
ReceiveRow(c) ==
    LET f == Head(wire[c])
        passed(S) == {s \in S : NotAfter(s, f.row)}
    IN
    /\ source[c] = "open" /\ wire[c] # <<>> /\ f # Ping
    /\ wire' = [wire EXCEPT ![c] = Tail(@)]
    /\ received' = [received EXCEPT ![c] = Append(@, f.row)]
    /\ lastId' = [lastId EXCEPT ![c] = f.row]
    /\ late' = [late EXCEPT ![c] = [feed |-> @.feed \cup passed(OwedByFeed(c)),
                                    replay |-> @.replay \cup passed(OwedByReplay(c))]]
    /\ UNCHANGED <<apiUp, sub, conn, source, faults, since, hazard>>
    /\ UNCHANGED writeVars

(* A ping carries no row; whatever id the framework gave it becomes the     *)
(* last event id.                                                           *)
ReceivePing(c) ==
    /\ source[c] = "open" /\ wire[c] # <<>> /\ Head(wire[c]) = Ping
    /\ wire' = [wire EXCEPT ![c] = Tail(@)]
    /\ \E id \in FrameIds :
         lastId' = IF id = Blank THEN lastId ELSE [lastId EXCEPT ![c] = id]
    /\ UNCHANGED <<apiUp, sub, conn, source, received, faults, since, hazard, late>>
    /\ UNCHANGED writeVars

(* useAuditStream closes the source: disabled, unmounted, new URL, idle. *)
Close(c) ==
    /\ source[c] # "closed"
    /\ source' = [source EXCEPT ![c] = "closed"]
    /\ conn' = [conn EXCEPT ![c] = NoConn]
    /\ wire' = [wire EXCEPT ![c] = <<>>]
    /\ UNCHANGED <<apiUp, sub, lastId, received, faults, since, hazard, late>>
    /\ UNCHANGED writeVars

(***************************************************************************)
(* Faults.                                                                 *)
(***************************************************************************)
Cut(C) ==
    /\ conn' = [c \in Clients |-> IF c \in C THEN NoConn ELSE conn[c]]
    /\ wire' = [c \in Clients |-> IF c \in C THEN <<>> ELSE wire[c]]
    /\ source' = [c \in Clients |->
                    IF c \in C /\ source[c] = "open" THEN "connecting" ELSE source[c]]
    /\ faults < MaxFaults
    /\ faults' = faults + 1

(* The connection breaks; frames under way are lost. *)
Drop(c) ==
    /\ source[c] = "open"
    /\ Cut({c})
    /\ UNCHANGED <<apiUp, sub, lastId, received, since, hazard, late>>
    /\ UNCHANGED writeVars

(* The replay's findMany rejects: the merged stream errors and is ended. *)
ReplayFails(c) ==
    /\ conn[c].phase = "query"
    /\ Cut({c})
    /\ UNCHANGED <<apiUp, sub, lastId, received, since, hazard, late>>
    /\ UNCHANGED writeVars

(* The API process dies: every connection ends, rows not yet announced      *)
(* never will be, and of the INSERTs under way Postgres keeps some.         *)
Crash ==
    /\ apiUp
    /\ apiUp' = FALSE
    /\ Cut(Clients)
    /\ \E kept \in SUBSET inflight : table' = table \cup kept
    /\ inflight' = {}
    /\ unpublished' = {}
    /\ UNCHANGED <<clock, sub, lastId, received, since, hazard, late>>

Restart ==
    /\ ~apiUp
    /\ apiUp' = TRUE
    /\ UNCHANGED <<sub, faults, since, hazard, late>>
    /\ UNCHANGED linkVars
    /\ UNCHANGED writeVars

-----------------------------------------------------------------------------
Write  == \/ Tick
          \/ \E content \in Contents, id \in 1..MaxRows : BeginCreate(content, id)
          \/ \E r \in inflight : Commit(r) \/ FailCreate(r)
          \/ \E r \in unpublished : Publish(r)

Serve(c) == RunReplayQuery(c) \/ EmitReplayed(c) \/ KeepAlive(c)
Browse(c) == Connect(c) \/ ConnectRefused(c) \/ ReceiveRow(c) \/ ReceivePing(c) \/ Close(c)
Fail(c)  == Drop(c) \/ ReplayFails(c)

Next == \/ Write
        \/ \E c \in Clients : Serve(c) \/ Browse(c) \/ Fail(c)
        \/ Crash
        \/ Restart

Spec == Init /\ [][Next]_vars

(* Node's event loop runs every continuation, Postgres answers, TCP         *)
(* delivers and the browser's reconnect timer fires.                        *)
Fairness ==
    /\ WF_vars(\E r \in inflight : Commit(r) \/ FailCreate(r))
    /\ WF_vars(\E r \in unpublished : Publish(r))
    /\ \A c \in Clients :
         /\ WF_vars(RunReplayQuery(c))
         /\ WF_vars(EmitReplayed(c))
         /\ WF_vars(ReceiveRow(c) \/ ReceivePing(c))
         /\ WF_vars(Connect(c) \/ ConnectRefused(c))

FairSpec == Spec /\ Fairness
-----------------------------------------------------------------------------
(***************************************************************************)
(* Properties.                                                             *)
(***************************************************************************)
FrameRows(c) == OnWire(c) \cup ToSet(received[c]) \cup conn[c].rest

TypeOK ==
    /\ clock \in Nat /\ faults \in Nat
    /\ inflight \subseteq Row /\ table \subseteq Row /\ unpublished \subseteq Row
    /\ apiUp \in BOOLEAN
    /\ sub \in [Clients -> Subscriptions]
    /\ conn \in [Clients -> ConnType]
    /\ wire \in [Clients -> Seq(Frame \cup {Ping})]
    /\ source \in [Clients -> States]
    /\ lastId \in [Clients -> Row \cup {Blank, Garbage}]
    /\ received \in [Clients -> Seq(Row)]
    /\ since \in [Clients -> [met : BOOLEAN, rows : SUBSET Row]]
    /\ hazard \in [Clients -> SUBSET Hazards]
    /\ late \in [Clients -> [feed : SUBSET Row, replay : SUBSET Row]]

(* A row reaches a client only if it belongs to the tenant the request was  *)
(* made for: neither the replay nor the live feed, in any interleaving of   *)
(* reconnects and publishes, shows one tenant another's rows.               *)
TenantIsolation ==
    \A c \in Clients : \A r \in FrameRows(c) : r.tenant = sub[c].tenant

(* Whatever a client sees satisfies its filter and is in the table: a row   *)
(* whose INSERT failed, or was lost in a crash, is never announced.         *)
OnlyCommittedMatches ==
    \A c \in Clients : \A r \in FrameRows(c) :
        r \in table /\ Matches(sub[c].filter, r)

(* Every row a connected client should have by now -- visible to it and     *)
(* committed since it first connected -- is received, on its way, or still  *)
(* to be announced.  A resume without a usable id, a backlog above the      *)
(* replay's limit or a pinned window aside, only late rows are ever missing. *)
Coming(c) == OnWire(c) \cup conn[c].rest \cup Backlog(c) \cup unpublished

Missing(c) ==
    {r \in table : /\ source[c] = "open" /\ Visible(c, r) /\ r \notin since[c].rows
                   /\ r \notin ToSet(received[c]) /\ r \notin Coming(c)}

LossIsExplained == \A c \in Clients : hazard[c] = {} => Missing(c) \subseteq Late(c)

(* Each row a client receives follows the one before it in keyset order,    *)
(* across any number of reconnects, except a row that was still owed when   *)
(* the cursor passed it.  A row arrives twice only as such a row, or after  *)
(* one took the cursor back.                                                *)
OutOfOrderIsLate ==
    \A c \in Clients : \A i \in 1..(Len(received[c]) - 1) :
        \/ Before(received[c][i], received[c][i + 1])
        \/ received[c][i + 1] \in Late(c)

(* "gapless reconnects" in its most favourable reading: a resume from a     *)
(* usable cursor, with a backlog the replay can hold, no pinned window and  *)
(* rows announced in their keyset order, loses nothing.                     *)
Favourable(c) == hazard[c] = {} /\ late[c].feed = {}

ResumeIsGapless == \A c \in Clients : Favourable(c) => Missing(c) = {}

(* A resume does not send again a row the client already has, rows being    *)
(* announced in their keyset order.                                         *)
ResumeNeverResends ==
    \A c \in Clients : Favourable(c) =>
        \A i, j \in 1..Len(received[c]) : i # j => received[c][i] # received[c][j]

(* While a connection holds, a committed row its client may see reaches it. *)
AnnouncedRowsArrive ==
    \A c \in Clients, id \in 1..MaxRows :
        (conn[c].phase # "none" /\ \E r \in unpublished : r.id = id /\ Visible(c, r))
            ~> (source[c] # "open" \/ \E r \in ToSet(received[c]) : r.id = id)

(* A tail that lost its connection ends up live again or, refused by an API *)
(* that is down, closed: no replay keeps it waiting for ever.               *)
ResumeSettles ==
    \A c \in Clients :
        source[c] = "connecting" ~> (conn[c].phase = "live" \/ source[c] = "closed")

(* The tail implements TailContract: rows owed to a connected client are    *)
(* those on the wire, left in its replay, or committed and about to be      *)
(* announced.                                                               *)
Attached == {c \in Clients : conn[c].phase # "none"}

Feed == [c \in Clients |->
           IF c \in Attached
           THEN OnWire(c) \cup conn[c].rest \cup {r \in unpublished : Visible(c, r)}
           ELSE {}]

Seen == [c \in Clients |-> ToSet(received[c])]

Contract == INSTANCE TailContract WITH
    log <- table, up <- Attached, feed <- Feed, seen <- Seen

ImplementsContract == Contract!Spec
=============================================================================

---------------------------- MODULE TailContract ----------------------------
(***************************************************************************)
(* What the live tail promises, without timestamps, cursors, queries or    *)
(* frames: while a client stays attached, every row recorded that is in    *)
(* its scope becomes owed to it; what is owed leaves the feed only by      *)
(* being delivered or by the client being detached; nothing is delivered   *)
(* that was not owed.  On attaching, and once more later (the replay), the *)
(* feed may be filled with rows recorded earlier: which ones is left open. *)
(***************************************************************************)
EXTENDS AuditRows

CONSTANT Clients

VARIABLES
    sub,    \* each client's tenant and filter
    log,    \* recorded rows
    up,     \* attached clients
    feed,   \* rows owed to each attached client
    seen    \* rows delivered to each client

vars == <<sub, log, up, feed, seen>>

InScope(c, r) == r.tenant = sub[c].tenant /\ Matches(sub[c].filter, r)
Scope(c, S)   == {r \in S : InScope(c, r)}

Init ==
    /\ log = {}
    /\ up = {}
    /\ feed = [c \in Clients |-> {}]
    /\ seen = [c \in Clients |-> {}]

(* A row is recorded: every attached client in whose scope it is is owed it. *)
Record(r) ==
    /\ log' = log \cup {r}
    /\ feed' = [c \in Clients |-> IF c \in up THEN feed[c] \cup Scope(c, {r}) ELSE feed[c]]
    /\ UNCHANGED <<sub, up, seen>>

Attach(c) ==
    /\ c \notin up
    /\ up' = up \cup {c}
    /\ \E S \in SUBSET Scope(c, log) : feed' = [feed EXCEPT ![c] = S]
    /\ UNCHANGED <<sub, log, seen>>

Backfill(c) ==
    /\ c \in up
    /\ \E S \in SUBSET Scope(c, log) : feed' = [feed EXCEPT ![c] = @ \cup S]
    /\ UNCHANGED <<sub, log, up, seen>>

(* A row may be owed twice, by the replay and by the live feed. *)
Deliver(c) ==
    /\ c \in up
    /\ \E r \in feed[c] :
         /\ seen' = [seen EXCEPT ![c] = @ \cup {r}]
         /\ feed' \in {feed, [feed EXCEPT ![c] = @ \ {r}]}
    /\ UNCHANGED <<sub, log, up>>

Detach(c) ==
    /\ c \in up
    /\ up' = up \ {c}
    /\ feed' = [feed EXCEPT ![c] = {}]
    /\ UNCHANGED <<sub, log, seen>>

(* The service goes away; rows being recorded may or may not be kept. *)
Outage ==
    /\ up' = {}
    /\ feed' = [c \in Clients |-> {}]
    /\ log \subseteq log'
    /\ UNCHANGED <<sub, seen>>

Next ==
    \/ \E r \in log' \ log : Record(r)
    \/ \E c \in Clients : Attach(c) \/ Backfill(c) \/ Deliver(c) \/ Detach(c)
    \/ Outage

Spec == Init /\ [][Next]_vars
=============================================================================

---------------------------- MODULE MCAuditTail ----------------------------
(* Small instances of AuditTail for TLC. *)
EXTENDS AuditTail

CONSTANTS acme, globex

MCTenants == {acme, globex}
MCFields  == {"provider"}
MCValues  == {"smtp", "__interceptor__"}
MCWords   == {"timeout"}

Log(tenant, provider) ==
    [tenant |-> tenant, fields |-> [f \in MCFields |-> provider], words |-> {}]

NoFilter == [tenant |-> Unset, fields |-> [f \in MCFields |-> Unset], q |-> Unset,
             source |-> Unset, from |-> Unset, to |-> Unset]

(* Nothing reaches a client whose EventSource is closed: once all are, the  *)
(* state is not explored further.                                           *)
SomeoneListens == \E c \in Clients : source[c] # "closed"

(* Who may see what: two tenants' rows, both audit sources, and a client    *)
(* with no filter or with a source facet and a window pinned at its end.    *)
MixedSubscriptions ==
    {[tenant |-> acme, filter |-> NoFilter],
     [tenant |-> acme, filter |-> [NoFilter EXCEPT !.source = "service", !.to = 0]]}
MixedContents == {Log(acme, "smtp"), Log(acme, "__interceptor__"), Log(globex, "smtp")}

(* What a resume brings back: rows everyone may see, with an open window    *)
(* and with one pinned at its end.                                          *)
ResumeSubscriptions ==
    {[tenant |-> acme, filter |-> NoFilter],
     [tenant |-> acme, filter |-> [NoFilter EXCEPT !.to = 0]]}
ResumeContents == {Log(acme, "smtp")}
=============================================================================

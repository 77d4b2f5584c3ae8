--------------------------- MODULE MCKeysetPages ---------------------------
(* A small instance of KeysetPages for TLC. *)
EXTENDS KeysetPages

CONSTANTS acme, globex

MCTenants == {acme, globex}
MCFields  == {"provider"}
MCValues  == {"smtp", "__interceptor__"}
MCWords   == {"timeout"}

Log(tenant, provider) ==
    [tenant |-> tenant, fields |-> [f \in MCFields |-> provider], words |-> {}]

NoFilter == [tenant |-> Unset, fields |-> [f \in MCFields |-> Unset], q |-> Unset,
             source |-> Unset, from |-> Unset, to |-> Unset]

(* The sliding default window, and a pinned one with the service facet. *)
MCQueries ==
    {[tenant |-> acme, filter |-> NoFilter],
     [tenant |-> acme, filter |-> [NoFilter EXCEPT !.from = 0, !.to = 1, !.source = "service"]]}

MCContents == {Log(acme, "smtp"), Log(globex, "__interceptor__")}
=============================================================================

-------------------------- MODULE MCAuditOverview --------------------------
(* A small instance of AuditOverview for TLC. *)
EXTENDS AuditOverview

MCTenants == {"acme", "default"}
MCFields  == {"channel", "verb", "provider"}
MCValues  == {"email", "sent", "failed", "smtp", "__interceptor__"}
MCRanges  == [p \in {"15m", "24h"} |-> IF p = "15m" THEN 3 ELSE 7]

Log(tenant, verb, provider) ==
    [tenant |-> tenant, words |-> {},
     fields |-> [channel |-> "email", verb |-> verb, provider |-> provider]]

MCContents == {Log("acme", "sent", "__interceptor__"), Log("acme", "failed", "smtp"),
               Log("default", "failed", "smtp")}

(* Two presets, an absolute window off the grid with a token no one knows,  *)
(* and an open end of no tenant, which the API defaults.                    *)
MCUrls ==
    {[BlankUrl EXCEPT !.tenantId = "acme", !.range = "15m"],
     [BlankUrl EXCEPT !.tenantId = "acme", !.range = "24h", !.source = "interceptor"],
     [BlankUrl EXCEPT !.tenantId = "acme", !.range = "7d", !.from = 1, !.to = 12,
                      !.fields["verb"] = "7d"],
     [BlankUrl EXCEPT !.from = 7]}
=============================================================================

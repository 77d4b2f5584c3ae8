-------------------------- MODULE MCExplorerView --------------------------
(* A small instance of ExplorerView for TLC. *)
EXTENDS ExplorerView

MCFields == {"channel", "verb", "provider", "recipient", "purpose"}
MCValues == {"otp", "sent", "smtp", "__interceptor__", "null", "j", "k", "login", "mfa_oob"}

Log(tenant, provider, recipient, purpose) ==
    [tenant |-> tenant, words |-> {},
     fields |-> [channel |-> "otp", verb |-> "sent", provider |-> provider,
                 recipient |-> recipient, purpose |-> purpose]]

MCContents == {Log("default", "smtp", "j", "mfa_oob"), Log("default", "__interceptor__", "k", "null"),
               Log("default", "smtp", "j", "login")}

(* A preset, and a window that is open at both ends. *)
MCRanges == [p \in {"15m"} |-> 4]
MCUrls == {[BlankUrl EXCEPT !.range = "15m"], [BlankUrl EXCEPT !.fields["channel"] = "7d"]}
=============================================================================

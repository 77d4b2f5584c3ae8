-------------------------- MODULE MCTriggerCenter --------------------------
(* A small instance of TriggerCenter for TLC. *)
EXTENDS TriggerCenter

MCTenants    == {"acme", "globex", "default"}
MCFields     == {"channel", "verb", "purpose", "recipient", "provider"}
MCValues     == {"email", "otp", "login", "null", "service", "__interceptor__",
                 "d***@example.com", "sent", "generated", "verified", "failed",
                 "cooldown_blocked", "max_attempts_exceeded"}
MCRanges     == [p \in {"15m"} |-> 2]
MCAddressees == [tenant : MCTenants, rcpt : 0..MaxFires]
=============================================================================

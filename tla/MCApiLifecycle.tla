--------------------------- MODULE MCApiLifecycle ---------------------------
(* A small instance of ApiLifecycle for TLC. *)
EXTENDS ApiLifecycle

(* Only DATABASE_URL is set. *)
Minimal == [key \in DOMAIN Defaults \cup {"DATABASE_URL", "REDIS_URL", "RESEND_API_KEY",
                                            "MAIL_FROM_NAME"} |-> Unset]

Local == [Minimal EXCEPT !.DATABASE_URL = "loopback"]

Deployed == [Minimal EXCEPT !.NODE_ENV = "production", !.DATABASE_URL = "remote",
                             !.REDIS_URL = "remote", !.RESEND_API_KEY = "text",
                             !.WEB_ORIGIN = "https", !.OTP_RESEND_COOLDOWN_SECONDS = "zero"]

(* Without Redis and with it, and one mistake each. *)
MCEnvironments ==
    {Local, Deployed,
     [Local EXCEPT !.NODE_ENV = "test", !.OTP_DEFAULT_TTL_SECONDS = "zero"],
     [Deployed EXCEPT !.REDIS_URL = "loopback"], [Deployed EXCEPT !.WEB_ORIGIN = Unset],
     [Deployed EXCEPT !.RESEND_API_KEY = "blank"], [Deployed EXCEPT !.DATABASE_URL = Unset]}
=============================================================================

----------------------------- MODULE ApiConfig -----------------------------
(***************************************************************************)
(* What the API makes of its environment at boot (config/env.schema.ts,    *)
(* notification/notification.config.ts, the provider resolver).            *)
(*                                                                         *)
(* A value is abstracted to what the schema and its guards tell apart: a   *)
(* URL is malformed, on this host ("loopback") or elsewhere ("remote"), a  *)
(* web origin is its scheme; a number is malformed (or no integer, or      *)
(* negative), zero or positive; a text is blank, a single character        *)
(* ("short") or longer.                                                    *)
(***************************************************************************)
CONSTANT Unset   \* a variable that is not set

Hosts   == {"malformed", "loopback", "remote"}
Origins == {"malformed", "http", "https"}
Numbers == {"malformed", "zero", "positive"}
Texts   == {"blank", "short", "text"}

RawEnv == [NODE_ENV       : {"malformed", "development", "test", "production", Unset},
           PORT           : Numbers \cup {Unset},
           DATABASE_URL   : Hosts \cup {Unset},
           REDIS_URL      : Hosts \cup {Unset},
           SMTP_URL       : Hosts \cup {Unset},
           RESEND_API_KEY : Texts \cup {Unset},
           MAIL_FROM      : Texts \cup {Unset},
           MAIL_FROM_NAME : Texts \cup {Unset},
           DEFAULT_LOCALE : Texts \cup {Unset},
           OTP_DEFAULT_TTL_SECONDS     : Numbers \cup {Unset},
           OTP_RESEND_COOLDOWN_SECONDS : Numbers \cup {Unset},
           AUDIT_MASK_RECIPIENT        : {"malformed", "true", "false", Unset},
           WEB_ORIGIN     : Origins \cup {Unset}]

(* The defaults of envSchema.  DATABASE_URL has none, and is required; the  *)
(* other variables without one are optional.                                *)
Defaults == [NODE_ENV |-> "development", PORT |-> "positive", SMTP_URL |-> "loopback",
             MAIL_FROM |-> "text", DEFAULT_LOCALE |-> "text",
             OTP_DEFAULT_TTL_SECONDS |-> "positive", OTP_RESEND_COOLDOWN_SECONDS |-> "positive",
             AUDIT_MASK_RECIPIENT |-> "true", WEB_ORIGIN |-> "http"]

Parsed(raw) ==
    [key \in DOMAIN raw |->
        IF raw[key] = Unset /\ key \in DOMAIN Defaults THEN Defaults[key] ELSE raw[key]]

(* Only the cooldown may be zero, and only the sender's name blank. *)
FieldIssues(raw) ==
    {key \in DOMAIN raw : raw[key] = "malformed"}
    \cup {key \in {"DATABASE_URL"} : raw[key] = Unset}
    \cup {key \in {"PORT", "OTP_DEFAULT_TTL_SECONDS"} : raw[key] = "zero"}
    \cup {key \in {"RESEND_API_KEY", "MAIL_FROM", "DEFAULT_LOCALE"} : raw[key] = "blank"}
    \cup {key \in {"DEFAULT_LOCALE"} : raw[key] = "short"}

IsLoopbackUrl(value) == value = "loopback"

(* superRefine: nothing is guarded outside production.  The mail server is  *)
(* not guarded at all.                                                      *)
GuardedKeys == {"DATABASE_URL", "REDIS_URL"}

ProductionIssues(env) ==
    IF env.NODE_ENV # "production" THEN {}
    ELSE {key \in GuardedKeys : IsLoopbackUrl(env[key])}
         \cup {key \in {"WEB_ORIGIN"} : env[key] # "https"}

(* validateEnv: refined only when every field parses. *)
ValidEnv(raw) == FieldIssues(raw) = {} /\ ProductionIssues(Parsed(raw)) = {}

(* resolveEmailProvider, resolveOtpStorage and the Redis factory: three of  *)
(* the adapters notificationConfig wires.  SMTP_URL has a default, so that  *)
(* some mail server is always asked.                                        *)
ResolveEmailProvider(env) ==
    CASE env.RESEND_API_KEY # Unset -> "resend"
      [] env.RESEND_API_KEY = Unset /\ env.SMTP_URL # Unset -> "nodemailer"
      [] OTHER -> "noop"

ResolveOtpStorage(env) == IF env.REDIS_URL = Unset THEN "memory" ELSE "redis"

NotificationConfig(raw) ==
    LET env == Parsed(raw) IN
    [provider |-> ResolveEmailProvider(env), storage |-> ResolveOtpStorage(env),
     ttl |-> env.OTP_DEFAULT_TTL_SECONDS, cooldown |-> env.OTP_RESEND_COOLDOWN_SECONDS,
     masked |-> env.AUDIT_MASK_RECIPIENT # "false", swallowErrors |-> TRUE]
=============================================================================

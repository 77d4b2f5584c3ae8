----------------------------- MODULE ConsoleUrl -----------------------------
(***************************************************************************)
(* The console's filter state lives in the URL (apps/web/lib/filters.ts).  *)
(* This module says what the code makes of a URL: the AuditQuery it        *)
(* compiles to, the tenant the API resolves for it, and the link           *)
(* explorerHref builds to open the Explorer on a row.                      *)
(*                                                                         *)
(* A blank parameter is Unset.  Time is counted in units of which          *)
(* NOW_QUANTUM make half a minute.                                         *)
(***************************************************************************)
EXTENDS AuditRows

CONSTANTS
    Presets,      \* the known range tokens
    RANGE_MS,     \* their lengths
    AuditPurposes, \* the purposes auditQuerySchema lists
    BadTokens,    \* range, channel and verb tokens a URL may hold but no one knows
    NOW_QUANTUM   \* NOW_QUANTUM_MS

ASSUME UrlAssumption ==
    /\ "default" \in Tenants
    /\ {"channel", "verb"} \subseteq Fields
    /\ AuditPurposes \subseteq Values
    /\ RANGE_MS \in [Presets -> Nat \ {0}]
    /\ NOW_QUANTUM \in Nat \ {0}
    /\ BadTokens \cap (Presets \cup Values \cup {Unset}) = {}
    /\ Unset \notin Presets

(* What the fields filter for: any text, but the channel and the verb, of  *)
(* which there are tokens no one knows.                                    *)
UrlFields == {g \in [Fields -> Values \cup BadTokens \cup {Unset}] :
                 \A c \in Fields \ {"channel", "verb"} : g[c] \notin BadTokens}

(* notificationQueryParsers, without the role, the selected row and `live` *)
Url == [tenantId : Tenants \cup {Unset},
        range    : Presets \cup BadTokens \cup {Unset},
        from     : Nat \cup {Unset},
        to       : Nat \cup {Unset},
        fields   : UrlFields,
        source   : {"interceptor", "service", Unset},
        q        : Words \cup {Unset}]

BlankUrl == [tenantId |-> Unset, range |-> Unset, from |-> Unset, to |-> Unset,
             fields |-> [c \in Fields |-> Unset], source |-> Unset, q |-> Unset]

-----------------------------------------------------------------------------
(* resolveTenantId: the header's tenant, or the tenant named default. *)
ResolveTenantId(header) == IF header = Unset THEN "default" ELSE header

(* resolveWindow: "now" is rounded down, so that the query key is stable. *)
RoundedUp(now) == -((-now) \div NOW_QUANTUM) * NOW_QUANTUM  \* mutant: Math.ceil
Quantized(now) == (now \div NOW_QUANTUM) * NOW_QUANTUM

ResolveWindow(range, now) ==
    [from |-> Quantized(now) - RANGE_MS[range], to |-> Quantized(now)]

UsesRelativePreset(url) == url.range \in Presets

Window(url, now) ==
    IF UsesRelativePreset(url) THEN ResolveWindow(url.range, now)
                               ELSE [from |-> url.from, to |-> url.to]

(* asChannel, asVerb: a token no one knows filters nothing. *)
Known(token) == IF token \in BadTokens THEN Unset ELSE token

(* The AuditQuery useAuditQuery compiles; the tenant travels as a header. *)
CompileQuery(url, now) ==
    [tenant |-> url.tenantId,
     fields |-> [c \in Fields |-> IF c \in {"channel", "verb"} THEN Known(url.fields[c])
                                                              ELSE url.fields[c]],
     q      |-> url.q,
     source |-> url.source,
     from   |-> Window(url, now).from,
     to     |-> Window(url, now).to]

-----------------------------------------------------------------------------
(* The request a query becomes (api-client.ts), and whether the API answers *)
(* it (auditQuerySchema).                                                   *)

(* rbacHeaders: a blank tenant sends no header. *)
RbacHeader(query) == query.tenant

(* encodeAuditQuery: a parameter that is undefined is not sent.  (The rest  *)
(* is text the schema takes as it comes.)                                   *)
EncodeAuditQuery(query) ==
    {[name |-> c, value |-> query.fields[c]] : c \in {d \in Fields : query.fields[d] # Unset}}

(* Channels, verbs and purposes are enumerations -- of which the console    *)
(* narrows the first two itself --, the other parameters any text.          *)
AuditQuerySchema(params) ==
    \A p \in params : p.name = "purpose" => p.value \in AuditPurposes

(* ZodValidationPipe: a query that does not parse is answered 400. *)
Accepted(query) == AuditQuerySchema(EncodeAuditQuery(query))

-----------------------------------------------------------------------------
(* explorerHref: the URL of a link, by the fields it pins.  A link that      *)
(* names a range names the default one, and it replaces the whole query      *)
(* string, tenant and all.                                                   *)
DEFAULT_RANGE == "15m"

ExplorerHref(pinned) ==
    [BlankUrl EXCEPT !.fields = [c \in Fields |-> IF c \in DOMAIN pinned THEN pinned[c] ELSE Unset],
                     !.range = DEFAULT_RANGE]
=============================================================================

--------------------------- MODULE TriggerCenter ---------------------------
(***************************************************************************)
(* The Trigger Center: one card per feature of the API (TriggerCard,       *)
(* TRIGGERS), each a script of calls (triggerApi) that the endpoints of    *)
(* apps/api carry out and the audit log records.  The user fires any cards *)
(* in any order and switches the tenant meanwhile; every call is a request *)
(* of its own, handled when the API gets to it, refused, or lost.          *)
(*                                                                         *)
(* The library's services are external: OtpService says what the OTP ones  *)
(* do, and a row is logged for each outcome under the verb that            *)
(* audit.controller.ts lists; the interceptor adds a row to each dispatch. *)
(***************************************************************************)
EXTENDS OtpService, ConsoleUrl, Sequences

CONSTANTS
    Cards,              \* the cards on the page
    MAX_ATTEMPT_TRIES,  \* wrong codes the lockout card sends
    MaxFires,           \* bound: fires
    MaxFaults           \* bound: requests or rows that come to grief

AllCards == {"send-email", "generate-otp", "verify-otp", "cooldown",
             "max-attempts", "oversize", "spoof", "dispatch"}

TENANTS == {"acme", "globex"}  \* what the switcher offers, beside "all" (Unset)

Recipients == 0..MaxFires  \* a fire's own address; 0 is DEMO_RECIPIENT

MaskedRecipient == "d***@example.com"  \* every demo address has this mask

ASSUME TriggerAssumption ==
    /\ Cards \subseteq AllCards
    /\ MAX_ATTEMPT_TRIES \in Nat /\ MaxFires \in Nat /\ MaxFaults \in Nat
    /\ MAX_ATTEMPT_TRIES > MAX_ATTEMPTS
    /\ DEFAULT_RANGE \in Presets
    /\ TENANTS \subseteq Tenants
    /\ Addressees = [tenant : Tenants, rcpt : Recipients]
    /\ "login" \in Purposes
    /\ Fields = {"channel", "verb", "purpose", "recipient", "provider"}
    /\ {"email", "otp", "login", "null", "service", MaskedRecipient} \subseteq Values
    /\ {"sent", "generated", "verified", "failed", "cooldown_blocked",
        "max_attempts_exceeded"} \subseteq Values

VARIABLES
    tenantId,  \* the tenant in the URL
    fires,     \* what has been fired
    firing,    \* isFiring, by card
    shown,     \* by card, the fire whose result it shows (0: none)
    log,       \* notification_logs; a row's id is, here, the fire it is due to
    faults,    \* faults so far
    spoiled    \* history: fires a fault, a lapse or a lucky guess has touched

triggerVars == <<tenantId, fires, firing, shown, log, faults, spoiled>>
vars == <<serviceVars, triggerVars>>

Statuses == {0, 200, 201, 401, 404, 413, 429, 500}

(* tenant: the trusted one, captured when the card was fired; call: the one *)
(* under way; state: travelling, answered, thrown (fetch rejected), over.   *)
FireRecord == [card : Cards, tenant : Tenants, call : Nat,
               state : {"travelling", "answered", "thrown", "over"}, status : Statuses]

-----------------------------------------------------------------------------
(* The scripts. *)

Script(card) ==
    CASE card = "send-email"   -> <<"send">>
      [] card = "generate-otp" -> <<"generate">>
      [] card = "verify-otp"   -> <<"verify">>
      [] card = "cooldown"     -> <<"generate", "resend">>
      [] card = "max-attempts" -> <<"generate">> \o [i \in 1..MAX_ATTEMPT_TRIES |-> "verify"]
      [] card = "oversize"     -> <<"send-huge">>
      [] card = "spoof"        -> <<"dispatch-otp">>
      [] card = "dispatch"     -> <<"dispatch-email">>

(* call: a blank tenant is sent as acme. *)
TenantHeader(tenant) == IF tenant = Unset THEN "acme" ELSE tenant

(* otherTenant: what the spoof card forges in the body. *)
OtherTenant(tenant) == IF tenant = "globex" THEN "acme" ELSE "globex"

RecipientShared(f) == 0  \* mutant: every card uses DEMO_RECIPIENT
FreshOtpRecipient(f) == f

RefOf(f) == [who |-> [tenant |-> fires[f].tenant, rcpt |-> FreshOtpRecipient(f)],
             purpose |-> "login"]

(* result: the channel, the purpose and the verb a card's row should have. *)
ChannelTold(card) ==
    IF card \in {"send-email", "oversize", "dispatch"} THEN "email" ELSE "otp"

PurposeTold(card) == IF ChannelTold(card) = "otp" THEN "login" ELSE "null"

VerbTold(card) ==
    CASE card \in {"send-email", "spoof", "dispatch"} -> "sent"
      [] card = "generate-otp"                        -> "generated"
      [] card \in {"verify-otp", "oversize"}          -> "failed"
      [] card = "cooldown"                            -> "cooldown_blocked"
      [] card = "max-attempts"                        -> "max_attempts_exceeded"

(* pivot: what the card's link pins. *)
PivotByVerb(card) ==  \* mutant: rows of the earlier calls are left out
    [recipient |-> MaskedRecipient, channel |-> ChannelTold(card), verb |-> VerbTold(card)]
Pivot(card) ==
    IF PurposeTold(card) = "null"
    THEN [recipient |-> MaskedRecipient, channel |-> ChannelTold(card)]
    ELSE [recipient |-> MaskedRecipient, channel |-> ChannelTold(card), purpose |-> PurposeTold(card)]

-----------------------------------------------------------------------------
(* onFire: the toast of an answer.  Where the card expects an error it      *)
(* takes any answer for a success.                                          *)
IsExpectedError(card) == card \in {"verify-otp", "cooldown", "max-attempts", "oversize"}

Ok(status) == status < 400

Toast(card, status) == IF ~Ok(status) /\ ~IsExpectedError(card) THEN "error" ELSE "success"

-----------------------------------------------------------------------------
(* What the API logs and answers. *)

LogRow(f, tenant, channel, verb, purpose, provider) ==
    MkRow(0, f, [tenant |-> tenant,
                 fields |-> [channel |-> channel, verb |-> verb, purpose |-> purpose,
                             recipient |-> MaskedRecipient, provider |-> provider],
                 words  |-> {}])

VerbOf(answer) ==
    CASE answer = "issued"                      -> "generated"
      [] answer = "cooldown"                    -> "cooldown_blocked"
      [] answer = "valid"                       -> "verified"
      [] answer \in {"invalid_code", "not_found"} -> "failed"
      [] answer = "max_attempts"                -> "max_attempts_exceeded"

(* The catalog status of the exception, or mapOtpVerifyResult's. *)
StatusOf(answer) ==
    CASE answer = "issued"                       -> 201
      [] answer = "valid"                        -> 200
      [] answer = "invalid_code"                 -> 401
      [] answer = "not_found"                    -> 404
      [] answer \in {"cooldown", "max_attempts"} -> 429

(* toDispatchInput: the header's tenant; what the body says is not read. *)
DispatchTenantForged(header, forged) == forged  \* mutant: the body's tenant wins
DispatchTenant(header, forged) == ResolveTenantId(header)

(* dispatchInputFactory puts the dispatch on the request, where the         *)
(* interceptor finds it: one row more, sent unless the handler threw.       *)
BoundaryRowMissing(f, tenant, channel, threw) == {}  \* mutant: nothing on the request
BoundaryRow(f, tenant, channel, threw) ==
    {LogRow(f, tenant, channel, IF threw THEN "failed" ELSE "sent",
            IF channel = "otp" THEN "login" ELSE "null", Interceptor)}

-----------------------------------------------------------------------------
Init ==
    /\ ServiceInit
    /\ tenantId \in Tenants \cup {Unset}  \* a URL may name any
    /\ fires = <<>>
    /\ firing = [c \in Cards |-> FALSE]
    /\ shown = [c \in Cards |-> 0]
    /\ log = {}
    /\ faults = 0
    /\ spoiled = {}

(* TenantRoleSwitcher *)
SelectTenant(tenant) ==
    /\ tenantId' = tenant
    /\ UNCHANGED <<serviceVars, fires, firing, shown, log, faults, spoiled>>

(* onFire: the button is disabled until the card's last fire is over. *)
CanFire(card) == ~firing[card]

Fire(card) ==
    /\ CanFire(card)
    /\ Len(fires) < MaxFires
    /\ firing' = [firing EXCEPT ![card] = TRUE]
    /\ fires' = Append(fires, [card |-> card, tenant |-> TenantHeader(tenantId), call |-> 1,
                               state |-> "travelling", status |-> 0])
    /\ UNCHANGED <<serviceVars, tenantId, shown, log, faults, spoiled>>

(* The API handles the call of fire f.  The sink may fail to store its      *)
(* rows: swallowErrors hides it from the caller.                            *)
Answer(f, status, rows) ==
    /\ fires' = [fires EXCEPT ![f].state = "answered", ![f].status = status]
    /\ \/ /\ log' = log \cup rows
          /\ UNCHANGED <<faults, spoiled>>
       \/ /\ faults < MaxFaults /\ rows # {}
          /\ faults' = faults + 1
          /\ spoiled' = spoiled \cup {f}
          /\ UNCHANGED log
    /\ UNCHANGED <<tenantId, firing, shown>>

ServiceRow(f, tenant, channel, verb) ==
    {LogRow(f, tenant, channel, verb, IF channel = "otp" THEN "login" ELSE "null", "service")}

(* EmailController.send, DispatchController.dispatch with an email *)
HandleEmail(f, op) ==
    LET header == fires[f].tenant
        tenant == IF op = "send" THEN ResolveTenantId(header)
                                 ELSE DispatchTenant(header, OtherTenant(header))
        boundary == IF op = "send" THEN {} ELSE BoundaryRow(f, tenant, "email", FALSE)
    IN /\ op \in {"send", "dispatch-email"}
       /\ Answer(f, 201, ServiceRow(f, tenant, "email", "sent") \cup boundary)
       /\ UNCHANGED serviceVars

(* The body parser NestFactory.create installs refuses a body of 11 MiB,    *)
(* and neither the controller nor the library sees it.                      *)
HandleHuge(f, op) ==
    /\ op = "send-huge"
    /\ Answer(f, 413, {})
    /\ UNCHANGED serviceVars

(* OtpController.generate and resend, and a dispatch of an OTP (whose       *)
(* action is generate by default).                                          *)
HandleGenerate(f, op) ==
    LET header == fires[f].tenant
        tenant == IF op = "dispatch-otp" THEN DispatchTenant(header, OtherTenant(header))
                                         ELSE ResolveTenantId(header)
        ref == [RefOf(f) EXCEPT !.who.tenant = tenant]
    IN /\ op \in {"generate", "resend", "dispatch-otp"}
       /\ \E answer \in {"issued", "cooldown"} :
             /\ Generate(ref, answer)
             /\ Answer(f, StatusOf(answer),
                       ServiceRow(f, tenant, "otp", VerbOf(answer))
                         \cup (IF op = "dispatch-otp"
                               THEN BoundaryRow(f, tenant, "otp", answer = "cooldown") ELSE {}))

(* OtpController.verify with the code 000000: wrong, but for a lucky guess. *)
HandleVerify(f, op) ==
    /\ op = "verify"
    /\ \E answer \in {"invalid_code", "not_found", "max_attempts"} :
          /\ Verify(RefOf(f), FALSE, answer)
          /\ Answer(f, StatusOf(answer),
                    ServiceRow(f, ResolveTenantId(fires[f].tenant), "otp", VerbOf(answer)))

Handle(f) ==
    LET op == Script(fires[f].card)[fires[f].call] IN
    /\ fires[f].state = "travelling"
    /\ \/ HandleEmail(f, op)
       \/ HandleHuge(f, op)
       \/ HandleGenerate(f, op)
       \/ HandleVerify(f, op)

(* The guess was right after all. *)
LuckyGuess(f) ==
    /\ fires[f].state = "travelling"
    /\ Script(fires[f].card)[fires[f].call] = "verify"
    /\ faults < MaxFaults
    /\ Verify(RefOf(f), TRUE, "valid")
    /\ fires' = [fires EXCEPT ![f].state = "answered", ![f].status = 200]
    /\ log' = log \cup ServiceRow(f, ResolveTenantId(fires[f].tenant), "otp", "verified")
    /\ faults' = faults + 1
    /\ spoiled' = spoiled \cup {f}
    /\ UNCHANGED <<tenantId, firing, shown>>

(* The API fails the call, or the network loses it or its answer. *)
Fault(f, from, to, status) ==
    /\ fires[f].state = from
    /\ faults < MaxFaults
    /\ fires' = [fires EXCEPT ![f].state = to, ![f].status = status]
    /\ faults' = faults + 1
    /\ spoiled' = spoiled \cup {f}
    /\ UNCHANGED <<serviceVars, tenantId, firing, shown, log>>

Refuse(f) == Fault(f, "travelling", "answered", 500)
Lose(f) == \E from \in {"travelling", "answered"} : Fault(f, from, "thrown", 0)

(* The script goes on: the status of all calls but the last is ignored. *)
NextCall(f) ==
    /\ fires[f].state = "answered"
    /\ fires[f].call < Len(Script(fires[f].card))
    /\ fires' = [fires EXCEPT ![f].call = @ + 1, ![f].state = "travelling"]
    /\ UNCHANGED <<serviceVars, tenantId, firing, shown, log, faults, spoiled>>

(* fire() resolved: the card shows the result. *)
Resolve(f) ==
    /\ fires[f].state = "answered"
    /\ fires[f].call = Len(Script(fires[f].card))
    /\ fires' = [fires EXCEPT ![f].state = "over"]
    /\ shown' = [shown EXCEPT ![fires[f].card] = f]
    /\ firing' = [firing EXCEPT ![fires[f].card] = FALSE]
    /\ UNCHANGED <<serviceVars, tenantId, log, faults, spoiled>>

(* fire() threw: a toast, and the result of the fire before stays. *)
Reject(f) ==
    /\ fires[f].state = "thrown"
    /\ fires' = [fires EXCEPT ![f].state = "over"]
    /\ firing' = [firing EXCEPT ![fires[f].card] = FALSE]
    /\ UNCHANGED <<serviceVars, tenantId, shown, log, faults, spoiled>>

(* Time passes in the storage: a slow script finds its cooldown, or its     *)
(* code, gone.  (What a fire leaves behind lapses too, but an address is    *)
(* never used by a second fire.)                                            *)
LapseUnder(f) ==
    /\ fires[f].state # "over"
    /\ Lapse(RefOf(f))
    /\ spoiled' = spoiled \cup {f}
    /\ UNCHANGED <<tenantId, fires, firing, shown, log, faults>>

Next ==
    \/ \E t \in TENANTS \cup {Unset} : SelectTenant(t)
    \/ \E c \in Cards : Fire(c)
    \/ \E f \in DOMAIN fires :
          Handle(f) \/ LuckyGuess(f) \/ Refuse(f) \/ Lose(f)
            \/ NextCall(f) \/ Resolve(f) \/ Reject(f) \/ LapseUnder(f)

Spec == Init /\ [][Next]_vars

-----------------------------------------------------------------------------
(* Properties. *)

(* Every variable keeps its type. *)
TypeOK ==
    /\ ServiceTypeOK
    /\ tenantId \in Tenants \cup {Unset}
    /\ fires \in Seq(FireRecord) /\ Len(fires) <= MaxFires
    /\ firing \in [Cards -> BOOLEAN]
    /\ shown \in [Cards -> 0..Len(fires)]
    /\ log \subseteq Row
    /\ faults \in 0..MaxFaults
    /\ spoiled \subseteq DOMAIN fires

InProgress(card) == {f \in DOMAIN fires : fires[f].card = card /\ fires[f].state # "over"}

(* A card's button is disabled exactly while one fire of the card is under  *)
(* way, and there is never a second: every path out of onFire releases it   *)
(* (trigger-card.tsx, the finally).                                         *)
OneFireAtATime ==
    \A c \in Cards : /\ firing[c] <=> InProgress(c) # {}
                     /\ \A f, g \in InProgress(c) : f = g

(* Every row a fire causes carries the tenant trusted when the card was     *)
(* fired: neither the body nor a later switch of the tenant moves it        *)
(* (dispatch-input.decorator.ts: "a body-forged tenant is ignored").        *)
TrustedTenant == \A r \in log : r.tenant = fires[r.id].tenant

Shown(c) == shown[c] # 0 /\ shown[c] \notin spoiled

StatusTold(card) ==
    CASE card \in {"send-email", "generate-otp", "spoof", "dispatch"} -> {201}
      [] card = "verify-otp"                                         -> {401, 404}
      [] card \in {"cooldown", "max-attempts"}                       -> {429}
      [] card = "oversize"                                           -> {413}

(* Whatever was fired before or is being fired beside it, a card ends with  *)
(* the outcome on its label (trigger-api.ts: "a card's outcome always       *)
(* matches its label regardless of firing order"), and toasts it as one.    *)
OutcomeMatchesLabel ==
    \A c \in Cards : Shown(c) =>
        /\ fires[shown[c]].status \in StatusTold(c)
        /\ Toast(c, fires[shown[c]].status) = "success"

(* The row a result announces (TriggerResult.verb, .channel, .purpose) has  *)
(* been logged for that very fire by the time the card shows it.  The       *)
(* oversize card is the exception: the body parser refuses its request and  *)
(* nothing is logged.                                                       *)
AuditedAsTold ==
    \A c \in Cards \ {"oversize"} : Shown(c) =>
        \E r \in log : /\ r.id = shown[c]
                       /\ r.fields["verb"] = VerbTold(c)
                       /\ r.fields["channel"] = ChannelTold(c)
                       /\ r.fields["purpose"] = PurposeTold(c)

LinkOf(card) == ExplorerHref(Pivot(card))

Asks(url, now, r) ==  \* r passes the filters of a URL, in the tenant the API resolves
    LET query == CompileQuery(url, now)
    IN Where(query, ResolveTenantId(RbacHeader(query)), query.from, query.to, r)

(* What a click on a card's link finds of the rows of its fires, those of   *)
(* the calls before the last one and the boundary's included, from the next *)
(* tick of the window on and until the window has passed: all of them under *)
(* the tenant that a link without a tenant stands for, and none under any   *)
(* other, as the tenant is left behind (explorer-link.ts).  Nothing else of *)
(* the link costs a row -- where the API takes it at all (LinkIsAccepted).  *)
LinkFitsRows ==
    \A r \in log, s \in 0..(NOW_QUANTUM - 1), age \in NOW_QUANTUM..RANGE_MS[DEFAULT_RANGE] :
        Asks(LinkOf(fires[r.id].card), s + age, [r EXCEPT !.ts = s])
            <=> r.tenant = ResolveTenantId(Unset)

(* "View in Explorer" opens on a row of the fire (trigger-card.tsx: a       *)
(* "deep-link that auto-pivots the Explorer to the resulting audit row(s)") *)
(* Rows are stamped 0 here, inside the link's window.                       *)
PivotShowsRow ==
    \A c \in Cards : Shown(c) =>
        \E r \in log : r.id = shown[c] /\ Asks(LinkOf(c), RANGE_MS[DEFAULT_RANGE], r)

(* The API answers the query of a card's link.  It refuses those that pin   *)
(* the purpose of the demo, which auditQuerySchema does not list.           *)
LinkIsAccepted == \A c \in Cards : Accepted(CompileQuery(LinkOf(c), RANGE_MS[DEFAULT_RANGE]))
=============================================================================

--------------------------- MODULE EmailDelivery ---------------------------
(***************************************************************************)
(* An email's way through the API: the routes that send one                *)
(* (EmailController, DispatchController, AuthDemoController, OtpController *)
(* with deliverVia email) and nest-auth calling                            *)
(* NotificationAuthEmailProvider, the rendering, the SMTP hand-off         *)
(* (NodemailerEmailProvider) and the audit row, for several requests under *)
(* way at a time.  Of an OTP request only its mail is here: its code is    *)
(* OtpPanel's.                                                             *)
(*                                                                         *)
(* EmailService is the library's: from the code that wires it, its input   *)
(* is rendered, given to the provider, and a row is written that nobody    *)
(* waits for.  The SMTP server may refuse a mail, or take it and have its  *)
(* reply lost.                                                             *)
(***************************************************************************)
EXTENDS EmailTemplates, Naturals, FiniteSets

CONSTANTS
    Calls,      \* requests
    Tenants,    \* tenants a header may name
    Unset,      \* no header
    Wired,      \* bound: the renderers tried
    Inputs,     \* bound: what is asked for
    MaxFaults   \* bound: mails and rows that come to grief

ASSUME DeliveryAssumption ==
    /\ "default" \in Tenants /\ Unset \notin Tenants
    /\ Wired \subseteq Renderers
    /\ IsFiniteSet(Calls) /\ MaxFaults \in Nat

Headers == Tenants \cup {Unset}

VARIABLES
    renderer,  \* email.templateRenderer
    calls,     \* by request, how far it is
    injected,  \* the request header the adapter serving a request reads
    mailbox,   \* mails the SMTP server took: [call, body]
    writing,   \* rows on their way to the log
    log,       \* notification_logs
    faults     \* faults so far

vars == <<renderer, calls, injected, mailbox, writing, log, faults>>

-----------------------------------------------------------------------------
(* What may be asked for: to send a body of the caller's, or a template; to *)
(* generate or resend an OTP by mail, from OtpController or in a dispatch;  *)
(* what nest-auth asks of the adapter; and a body no schema takes.          *)

Locales == {"en", "pt"}

UserData == Data \ {"secret"}  \* what users call themselves, their devices, ...

RawInputs == [kind : {"raw"}, oversize : BOOLEAN]

TemplateInputs == [kind : {"template"}, template : DOMAIN TEMPLATES \cup {"unknown"},
                   locale : Locales, user : UserData]

(* user: the name the caller gives, or else the recipient's local part; a   *)
(* dispatch may have none.                                                  *)
OtpInputs == [kind : {"otp"}, template : DOMAIN TEMPLATES \cup {"unknown"},
              locale : Locales, user : UserData]

OtpPayloads == [kind : {"otp-payload"}, template : DOMAIN TEMPLATES \cup {"unknown"},
                locale : Locales, user : UserData \cup {"none"}]

AuthMethods == {"sendEmailVerificationOtp", "sendPasswordResetOtp", "sendPasswordResetToken",
                "sendMfaEnabledNotification", "sendMfaDisabledNotification",
                "sendNewSessionAlert", "sendInvitation"}

AuthInputs == [kind : {"auth"}, method : AuthMethods, locale : Locales, user : UserData]

AnyInput == RawInputs \cup TemplateInputs \cup OtpInputs \cup OtpPayloads \cup AuthInputs
            \cup {[kind |-> "invalid"]}

ASSUME InputsAssumption == Inputs \subseteq AnyInput

Routes == {"send", "send-template", "otp", "dispatch", "auth-demo", "nest-auth"}

Accepts(route, input) ==
    CASE route = "send"          -> input.kind = "raw" \/ input.kind = "invalid"
      [] route = "send-template" -> input.kind = "template" \/ input.kind = "invalid"
      [] route = "otp"           -> input.kind = "otp" \/ input.kind = "invalid"
      [] route = "dispatch"      -> \/ input.kind \in {"template", "otp-payload", "invalid"}
                                    \/ input.kind = "raw" /\ ~input.oversize
      [] route = "auth-demo"     -> \/ input.kind = "invalid"
                                    \/ input.kind = "auth" /\ input.method = "sendPasswordResetOtp"
      [] route = "nest-auth"     -> input.kind = "auth"

-----------------------------------------------------------------------------
(* The adapter: the template and the data of each of its methods.  A token  *)
(* is percent-encoded into a link; the session hash, the expiry and the     *)
(* names of the application and of the purpose are plain.                   *)

EncodeURIComponent(datum) == "plain"

AuthTemplate(method) ==
    CASE method = "sendEmailVerificationOtp"    -> "otp_code"
      [] method = "sendPasswordResetOtp"        -> "otp_password_reset"
      [] method = "sendPasswordResetToken"      -> "password_reset_link"
      [] method = "sendMfaEnabledNotification"  -> "mfa_enabled"
      [] method = "sendMfaDisabledNotification" -> "mfa_disabled"
      [] method = "sendNewSessionAlert"         -> "new_login_alert"
      [] method = "sendInvitation"              -> "invitation"

OtpData == [code |-> "secret", purpose |-> "plain", appName |-> "plain"]

SessionData(user) ==
    [device |-> user, ip |-> "plain", sessionHash |-> "plain", appName |-> "plain"]

AuthData(method, user) ==
    CASE method \in {"sendEmailVerificationOtp", "sendPasswordResetOtp"} -> OtpData
      [] method = "sendPasswordResetToken" ->
            [resetUrl |-> EncodeURIComponent(user), appName |-> "plain"]
      [] method \in {"sendMfaEnabledNotification", "sendMfaDisabledNotification"} ->
            [appName |-> "plain"]
      [] method = "sendNewSessionAlert" -> SessionData(user)
      [] method = "sendInvitation" ->
            [inviterName |-> user, tenantName |-> user,
             acceptUrl |-> EncodeURIComponent("plain"), expiresAt |-> "plain", appName |-> "plain"]

(* An OTP mail: the library merges the code, its lifetime and the purpose   *)
(* into the data.  toGenerateInput puts the names of the user and of the    *)
(* application under the caller's; toOtpDispatchPayload puts nothing.       *)
OtpMailDataBare(user) ==  \* mutant: no presentation defaults
    [code |-> "secret", expiresInMinutes |-> "plain", purpose |-> "plain"]
OtpMailData(user) ==
    [name |-> user, appName |-> "plain",
     code |-> "secret", expiresInMinutes |-> "plain", purpose |-> "plain"]

OtpPayloadData(user) ==
    IF user = "none" THEN [code |-> "secret", expiresInMinutes |-> "plain", purpose |-> "plain"]
    ELSE [name |-> user, code |-> "secret", expiresInMinutes |-> "plain", purpose |-> "plain"]

-----------------------------------------------------------------------------
ResolveTenantId(header) == IF header = Unset THEN "default" ELSE header

Idle == [state |-> "idle", route |-> "none", input |-> [kind |-> "invalid"],
         header |-> Unset, tenant |-> Unset, outcome |-> "none", status |-> 0]

(* Scope.REQUEST: an adapter is made for each request and reads that one. *)
ServedByTheSame(c) == Calls  \* mutant: one adapter, and the request it saw last
ServedBy(c) == {c}

Init ==
    /\ renderer \in Wired
    /\ calls = [c \in Calls |-> Idle]
    /\ injected = [c \in Calls |-> Unset]
    /\ mailbox = {} /\ writing = {} /\ log = {}
    /\ faults = 0

Arrive(c, route, input, header) ==
    /\ calls[c].state = "idle"
    /\ Accepts(route, input)
    /\ calls' = [calls EXCEPT ![c] = [Idle EXCEPT !.state = "arrived", !.route = route,
                                                  !.input = input, !.header = header]]
    /\ injected' = [d \in Calls |-> IF d \in ServedBy(c) THEN header ELSE injected[d]]
    /\ UNCHANGED <<renderer, mailbox, writing, log, faults>>

-----------------------------------------------------------------------------
(* The rows a call leaves.  The interceptor's is added when a dispatch has  *)
(* settled; the service's when the provider has answered.                   *)

Row(c, source, verb) == [call |-> c, tenant |-> calls[c].tenant, source |-> source, verb |-> verb]

BoundaryRows(c, status) ==
    IF calls[c].route # "dispatch" THEN {}
    ELSE {Row(c, "interceptor", IF status = 201 THEN "sent" ELSE "failed")}

(* The handler returns or throws; the answer leaves without waiting for the *)
(* rows.                                                                    *)
Settle(c, status) ==
    /\ calls' = [calls EXCEPT ![c].state = "answered", ![c].status = status]
    /\ writing' = writing \cup BoundaryRows(c, status)

(* emailSendSchema.parse and its like (otpGenerateSchema.parse too) throw a ZodError, which no filter     *)
(* catches; buildDispatchInput throws a BadRequestException.  Neither body  *)
(* gets as far as the interceptor.                                          *)
Reject(c) ==
    /\ calls[c].state = "arrived"
    /\ calls[c].input.kind = "invalid"
    /\ calls' = [calls EXCEPT ![c].state = "answered",
                              ![c].status = IF calls[c].route = "dispatch" THEN 400 ELSE 500]
    /\ UNCHANGED <<renderer, injected, mailbox, writing, log, faults>>

(* toSendInput, toTemplateInput, toDispatchInput: the tenant is the trusted *)
(* header's; the adapter reads it from the request it was made for.         *)
TenantOf(c) ==
    ResolveTenantId(IF calls[c].input.kind = "auth" THEN injected[c] ELSE calls[c].header)

Handle(c) ==
    /\ calls[c].state = "arrived"
    /\ calls[c].input.kind # "invalid"
    /\ calls' = [calls EXCEPT ![c].state = "accepted", ![c].tenant = TenantOf(c)]
    /\ UNCHANGED <<renderer, injected, mailbox, writing, log, faults>>

TemplateOf(input) ==
    IF input.kind = "auth" THEN AuthTemplate(input.method) ELSE input.template

DataOf(input) ==
    CASE input.kind = "auth"        -> AuthData(input.method, input.user)
      [] input.kind = "otp"         -> OtpMailData(input.user)
      [] input.kind = "otp-payload" -> OtpPayloadData(input.user)
      [] input.kind = "template"    ->
            [name |-> input.user, appName |-> "plain", appUrl |-> input.user]

BodyOf(input) ==
    IF input.kind = "raw" THEN [part \in Parts |-> [var \in {} |-> "blank"]]
    ELSE Render(renderer, TEMPLATES[TemplateOf(input)], DataOf(input))

Unsendable(input) ==
    IF input.kind = "raw" THEN input.oversize
    ELSE ~Found(TemplateOf(input), input.locale)

(* EMAIL_ATTACHMENTS_TOO_LARGE, TEMPLATE_NOT_FOUND *)
Refuse(c) ==
    /\ calls[c].state = "accepted"
    /\ Unsendable(calls[c].input)
    /\ Settle(c, IF calls[c].input.kind = "raw" THEN 413 ELSE 500)
    /\ UNCHANGED <<renderer, injected, mailbox, log, faults>>

(* transport.sendMail: the mail is taken, or refused, or taken and the      *)
(* reply lost; but for the first the promise rejects.                       *)
Outcomes == {"taken", "refused", "lost"}

ResolvedAlways(outcome) == TRUE  \* mutant: sendMail is not awaited
Resolved(outcome) == outcome = "taken"

Deliver(c, outcome) ==
    /\ calls[c].state = "accepted"
    /\ ~Unsendable(calls[c].input)
    /\ outcome # "taken" => faults < MaxFaults
    /\ faults' = IF outcome = "taken" THEN faults ELSE faults + 1
    /\ mailbox' = IF outcome = "refused" THEN mailbox
                  ELSE mailbox \cup {[call |-> c, body |-> BodyOf(calls[c].input)]}
    /\ calls' = [calls EXCEPT ![c].state = "delivered", ![c].outcome = outcome]
    /\ writing' = writing \cup {Row(c, "service", IF Resolved(outcome) THEN "sent" ELSE "failed")}
    /\ UNCHANGED <<renderer, injected, log>>

(* { messageId }, or EMAIL_SEND_FAILED *)
Answer(c) ==
    /\ calls[c].state = "delivered"
    /\ Settle(c, IF Resolved(calls[c].outcome) THEN 201 ELSE 502)
    /\ UNCHANGED <<renderer, injected, mailbox, log, faults>>

(* create(): the insert is committed, or fails. *)
Store(row) ==
    /\ row \in writing
    /\ writing' = writing \ {row}
    /\ log' = log \cup {row}
    /\ UNCHANGED <<renderer, calls, injected, mailbox, faults>>

(* swallowErrors: true, so the call goes on as if nothing had happened. *)
CallsAfterLossLoud(row) ==  \* mutant: swallowErrors false
    [calls EXCEPT ![row.call].state = "answered", ![row.call].status = 500]
CallsAfterLoss(row) == calls

StoreFails(row) ==
    /\ row \in writing
    /\ faults < MaxFaults
    /\ faults' = faults + 1
    /\ writing' = writing \ {row}
    /\ calls' = CallsAfterLoss(row)
    /\ UNCHANGED <<renderer, injected, mailbox, log>>

Next ==
    \/ \E c \in Calls, route \in Routes, input \in Inputs, header \in Headers :
          Arrive(c, route, input, header)
    \/ \E c \in Calls :
          \/ Reject(c) \/ Handle(c) \/ Refuse(c) \/ Answer(c)
          \/ \E outcome \in Outcomes : Deliver(c, outcome)
    \/ \E row \in writing : Store(row) \/ StoreFails(row)

Spec == Init /\ [][Next]_vars

-----------------------------------------------------------------------------
(* Properties. *)

States == {"idle", "arrived", "accepted", "delivered", "answered"}

Rows == [call : Calls, tenant : Headers, source : {"service", "interceptor"},
         verb : {"sent", "failed"}]

(* Every variable keeps its type. *)
TypeOK ==
    /\ renderer \in Wired
    /\ calls \in [Calls -> [state : States, route : Routes \cup {"none"}, input : AnyInput,
                            header : Headers, tenant : Headers,
                            outcome : Outcomes \cup {"none"}, status : Nat]]
    /\ injected \in [Calls -> Headers]
    /\ \A mail \in mailbox : mail.call \in Calls
    /\ writing \subseteq Rows /\ log \subseteq Rows
    /\ faults \in 0..MaxFaults

Taken(c) == \E mail \in mailbox : mail.call = c

(* What is told of a mail is what became of it: an answer of 201 and a row  *)
(* with the verb sent, of the service or of the boundary, each have their   *)
(* mail at the SMTP server; and a mail that is there is told as failed, by  *)
(* the answer or by a row, only when the server's reply was lost, so that   *)
(* whoever sends again after a failure sends nothing twice otherwise        *)
(* (nodemailer-email.provider.ts: "@throws Error When the transport         *)
(* rejects").                                                               *)
SentMeansTaken ==
    /\ \A row \in log \cup writing :
          /\ row.verb = "sent" => Taken(row.call)
          /\ row.verb = "failed" /\ Taken(row.call) => calls[row.call].outcome = "lost"
    /\ \A c \in Calls :
          /\ calls[c].status = 201 => Taken(c)
          /\ calls[c].state = "answered" /\ Taken(c) =>
                calls[c].status = 201 \/ calls[c].outcome = "lost"

(* A row names the tenant of the request it is due to, with other requests  *)
(* of other tenants under way (auth-email.provider.ts: "REQUEST-scoped so   *)
(* it can resolve the trusted tenant from the active HTTP request").        *)
UnderOwnTenant ==
    \A row \in log \cup writing : row.tenant = ResolveTenantId(calls[row.call].header)

(* The console's preview shows of its templates what a renderer would send. *)
PreviewsAs(wired) ==
    \A id \in DOMAIN PREVIEW_TEMPLATES, variable \in {"plain", "markup"} :
        Preview(id, variable) = Render(wired, PREVIEW_TEMPLATES[id], PreviewData(variable))

(* A mail holds no mark-up of a user's in its html, and shows a one-time    *)
(* code where its template has the placeholder {{code}} and nowhere else,   *)
(* whatever users call themselves and whichever renderer is wired           *)
(* (templates.ts: the html body is escaped; "never embeds a literal OTP").  *)
(* And the console's preview shows what a renderer makes of a template that *)
(* escapes the html alone (providers.ts: "HTML-escape the html body only"). *)
BodiesAreSafe ==
    /\ renderer \in {"Default", "MJML"} => PreviewsAs(renderer)
    /\ \A mail \in mailbox :
          /\ \A var \in DOMAIN mail.body["html"] : mail.body["html"][var] # "markup"
          /\ \A part \in Parts : \A var \in DOMAIN mail.body[part] :
                mail.body[part][var] = "secret" => var = "code"

(* The mails whose data the application chooses: the adapter's, and those   *)
(* of OtpController under a template for codes.                             *)
Ours(input) ==
    \/ input.kind = "auth"
    \/ input.kind = "otp" /\ input.template \in {"otp_code", "otp_password_reset"}

(* What the adapter leaves blank: the name and the expiry in OTP mails. *)
LeftBlank(input) == IF input.kind = "auth" THEN {"name", "expiresInMinutes"} ELSE {}

(* Every other placeholder of such a mail is filled, unless the user's own  *)
(* datum is null (auth-email.provider.ts maps each port method to a         *)
(* template and data; otp.controller.ts: "so the subject never collapses"). *)
HolesAreFilled ==
    \A mail \in mailbox :
        LET input == calls[mail.call].input IN
        Ours(input) =>
            \A part \in Parts : \A var \in DOMAIN mail.body[part] \ LeftBlank(input) :
                mail.body[part][var] = "blank" => input.user = "null"

(* What the caller is told is the outcome of the delivery, and a delivery   *)
(* leaves one row of the service's, unless its insert failed: a log that    *)
(* fails changes no answer (notification.config.ts, swallowErrors true).    *)
AuditNeverBlocks ==
    \A c \in Calls :
        LET rows == {row \in log \cup writing : row.call = c /\ row.source = "service"} IN
        /\ calls[c].state = "answered" /\ calls[c].tenant # Unset /\ ~Unsendable(calls[c].input) =>
              calls[c].status = IF calls[c].outcome = "taken" THEN 201 ELSE 502
        /\ Cardinality(rows) <= 1
        /\ \A row \in rows : row.verb = "sent" <=> calls[c].outcome = "taken"
        /\ calls[c].outcome # "none" /\ faults = 0 => rows # {}
=============================================================================

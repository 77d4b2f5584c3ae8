--------------------------- MODULE EmailTemplates ---------------------------
(***************************************************************************)
(* What a template becomes: the registry (notification/templates.ts) and   *)
(* the renderers an operator may wire (notification/renderers).            *)
(*                                                                         *)
(* A template is, for its subject, html and text, the set of variables     *)
(* that have a placeholder there; a datum and the text it is shown as are  *)
(* abstracted to what escaping and interpolation tell apart.               *)
(***************************************************************************)

(* A datum: text without and with HTML-significant characters, a one-time   *)
(* code, null.  (Numbers are plain; objects, which the renderers write in   *)
(* ways of their own, are left out.)                                        *)
Data == {"plain", "markup", "secret", "null"}

(* What a placeholder shows. *)
Texts == {"plain", "markup", "secret", "blank", "entities"}

Parts == {"subject", "html", "text"}

Renderers == {"Default", "Handlebars", "MJML", "React Email"}

-----------------------------------------------------------------------------
(* Every template is registered under the locale en alone. *)
Same(holes) == [part \in Parts |-> holes]
WithSubject(subject, holes) == [part \in Parts |-> IF part = "subject" THEN subject ELSE holes]

OtpHoles == {"name", "code", "expiresInMinutes"}

TEMPLATES ==
    [otp_code           |-> WithSubject({"appName"}, OtpHoles),
     otp_password_reset |-> WithSubject({"appName"}, OtpHoles),
     welcome            |-> WithSubject({"appName"}, {"name", "appName", "appUrl"}),
     mfa_enabled        |-> Same({"appName"}),
     mfa_disabled       |-> Same({"appName"}),
     new_login_alert    |-> WithSubject({"appName"}, {"appName", "device", "ip", "sessionHash"}),
     password_reset_link |-> WithSubject({"appName"}, {"appName", "resetUrl"}),
     invitation         |-> WithSubject({"tenantName", "appName"},
                                {"inviterName", "tenantName", "appName", "expiresAt", "acceptUrl"})]

Keys == {<<name, "en">> : name \in DOMAIN TEMPLATES}

(* compiled.get(name::locale) ?? compiled.get(name::en) *)
Found(name, locale) == {<<name, locale>>, <<name, "en">>} \cap Keys # {}

-----------------------------------------------------------------------------
Stringify(datum) == IF datum = "null" THEN "blank" ELSE datum

EscapeNothing(text) == text  \* mutant: interpolated as it is
EscapeHtml(text) == IF text = "markup" THEN "entities" ELSE text

Shown(data, var, escape) ==
    LET raw == IF var \in DOMAIN data THEN Stringify(data[var]) ELSE "blank"
    IN IF escape THEN EscapeHtml(raw) ELSE raw

Fill(holes, data, escape) == [var \in holes |-> Shown(data, var, escape)]

(* MjmlTemplateRenderer, after its layout is compiled; the library's own    *)
(* renderer does the same.                                                  *)
MjmlRender(template, data) ==
    [part \in Parts |-> Fill(template[part], data, part = "html")]

(* Handlebars.compile escapes in every part alike. *)
HandlebarsRender(template, data) == [part \in Parts |-> Fill(template[part], data, TRUE)]

(* React escapes what its html shows; the text is made of the same element. *)
ReactRender(template, data) ==
    [part \in Parts |-> Fill(template[IF part = "subject" THEN part ELSE "html"], data,
                             part = "html")]

Render(renderer, template, data) ==
    CASE renderer = "Handlebars"         -> HandlebarsRender(template, data)
      [] renderer = "React Email"        -> ReactRender(template, data)
      [] renderer \in {"Default", "MJML"} -> MjmlRender(template, data)

-----------------------------------------------------------------------------
(* The preview of the console's Providers page (lib/api/providers.ts), a    *)
(* renderer of its own with templates of its own.                           *)

PREVIEW_TEMPLATES ==
    [welcome         |-> WithSubject({"name"}, {"name", "appName"}),
     new_login_alert |-> WithSubject({"name"}, {"name", "location"})]

GetPreviewTemplate(id) ==
    PREVIEW_TEMPLATES[IF id \in DOMAIN PREVIEW_TEMPLATES THEN id ELSE "welcome"]

(* escapeHtml, interpolate: a value is escaped where asked for, a variable  *)
(* without one is blank.                                                    *)
EscapePreview(text) == IF text = "markup" THEN "entities" ELSE text

Interpolate(holes, data, escape) ==
    [var \in holes |-> IF var \notin DOMAIN data THEN "blank"
                       ELSE IF escape THEN EscapePreview(data[var]) ELSE data[var]]

RenderPreview(template, data) ==
    [part \in Parts |-> Interpolate(template[part], data, part = "html")]

(* EmailPreview: what it shows of a template for what is typed.  The name   *)
(* of the selected renderer is only printed.                                *)
PreviewData(variable) == [name |-> variable, appName |-> "plain", location |-> "plain"]

Preview(id, variable) == RenderPreview(GetPreviewTemplate(id), PreviewData(variable))
=============================================================================

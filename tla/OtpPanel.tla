------------------------------ MODULE OtpPanel ------------------------------
(***************************************************************************)
(* The console's OTP panel (apps/web/components/otp/otp-verify-panel.tsx)  *)
(* against the OTP service: useOtpController and the action runners, with  *)
(* every await a step.  The user goes on clicking while a request is under *)
(* way, the countdown runs out when it likes, and a request may be         *)
(* refused, fail in the network, or be applied without its answer ever     *)
(* arriving.                                                               *)
(***************************************************************************)
EXTENDS OtpService

CONSTANTS
    Default,     \* DEMO_RECIPIENT (of the tenant in the URL) and DEFAULT_OTP_PURPOSE
    None,        \* no session
    MaxRequests  \* bound: requests issued

VARIABLES
    selected,   \* tenant, recipient and purpose on screen
    session,    \* the active OTP, or None
    feedback,   \* what the line beneath the box says, and (history) of which reference
    busy,
    requests,   \* under way
    sent,       \* requests so far
    overlapped, \* history: a request was started during one still under way
    strays,     \* history: purposes whose answers landed under another, since the last choice
    unaware,    \* history: references whose code a consume took without the panel's knowing
    cleared     \* history: sessions ended by a consume of their own that was accepted

history == <<overlapped, strays, unaware, cleared>>
panelVars == <<selected, session, feedback, busy, requests, sent, history>>
vars == <<serviceVars, panelVars>>

Session == [ref : Ref, id : Nat, ticking : BOOLEAN, cooling : BOOLEAN]

ASSUME PanelAssumption ==
    Default \in Ref /\ None \notin Session /\ MaxRequests \in Nat

Kinds == {"idle", "success", "expired", "message", "terminal"}
Feedback == [kind : Kinds, ref : Ref]
Answers == {"none", "issued", "cooldown", "valid", "invalid_code", "not_found",
            "max_attempts", "consumed", "error"}
Request == [n : Nat, op : {"issue", "verify", "consume"}, ref : Ref,
            answer : Answers, id : Nat]

Say(kind, ref) == [kind |-> kind, ref |-> ref]
Silent == Say("idle", Default)

-----------------------------------------------------------------------------
Init ==
    /\ ServiceInit
    /\ selected = Default
    /\ session = None
    /\ feedback = Silent
    /\ busy = FALSE
    /\ requests = {} /\ sent = 0
    /\ overlapped = FALSE
    /\ strays = {} /\ unaware = {} /\ cleared = {}

(* A runner starts: busy, and the request leaves with the reference on      *)
(* screen.                                                                  *)
Issue(op) ==
    /\ sent < MaxRequests
    /\ sent' = sent + 1
    /\ busy' = TRUE
    /\ requests' = requests \cup
         {[n |-> sent + 1, op |-> op, ref |-> selected, answer |-> "none", id |-> 0]}
    /\ overlapped' = (requests # {})
    /\ UNCHANGED <<selected, session, feedback, strays, unaware, cleared>>
    /\ UNCHANGED serviceVars

(* The Generate button. *)
ClickGenerate == ~busy /\ Issue("issue")

(* The Resend button: under an active OTP not yet verified, its cooldown    *)
(* over.                                                                    *)
ClickResend ==
    /\ session # None /\ feedback.kind # "success"
    /\ ~busy /\ ~session.cooling
    /\ Issue("issue")

(* OtpChallenge shows the box of a session; it is locked once the code is   *)
(* dead or verified, not while a verify is under way.                       *)
BoxOpen == session # None /\ feedback.kind \notin {"success", "expired", "terminal"}

(* OtpInputBox: the last slot is filled.  (The slots, which every bump of   *)
(* the reset token empties, are left out: any code may be typed.)           *)
CompleteBox == BoxOpen /\ Issue("verify")

(* The Consume button, which replaces Resend after a success. *)
ClickConsume ==
    /\ session # None /\ feedback.kind = "success"
    /\ Issue("consume")

SelectKeepingFeedback(purpose) ==  \* mutant: the feedback line stays
    /\ purpose # selected.purpose
    /\ selected' = [selected EXCEPT !.purpose = purpose]
    /\ session' = None
    /\ strays' = {}
    /\ UNCHANGED <<feedback, busy, requests, sent, overlapped, unaware, cleared>>
    /\ UNCHANGED serviceVars

(* The purpose selector: a fresh start, even while busy. *)
SelectPurpose(purpose) ==
    /\ purpose # selected.purpose
    /\ selected' = [selected EXCEPT !.purpose = purpose]
    /\ session' = None
    /\ feedback' = Silent
    /\ strays' = {}
    /\ UNCHANGED <<busy, requests, sent, overlapped, unaware, cleared>>
    /\ UNCHANGED serviceVars

(* The recipient input (unless busy) and the tenant switch (at any time):   *)
(* neither touches the session.                                             *)
Readdress(who) ==
    /\ who # selected.who
    /\ selected' = [selected EXCEPT !.who = who]
    /\ UNCHANGED <<session, feedback, busy, requests, sent, history>>
    /\ UNCHANGED serviceVars

(* OtpCountdownPill reaches zero, once per session, whatever the feedback.  *)
PillAtZero == session # None /\ session.ticking

Expire ==
    /\ PillAtZero
    /\ session' = [session EXCEPT !.ticking = FALSE]
    /\ feedback' = Say("expired", session.ref)
    /\ UNCHANGED <<selected, busy, requests, sent, history>>
    /\ UNCHANGED serviceVars

(* The client-side resend cooldown reaches zero. *)
CooldownOver ==
    /\ session # None /\ session.cooling
    /\ session' = [session EXCEPT !.cooling = FALSE]
    /\ UNCHANGED <<selected, feedback, busy, requests, sent, history>>
    /\ UNCHANGED serviceVars

-----------------------------------------------------------------------------
(* The API handles a request: the service's answer, or a refusal (validation *)
(* or an internal error) that leaves the codes alone.                        *)
Answered(q, answer, id) ==
    /\ requests' = (requests \ {q}) \cup {[q EXCEPT !.answer = answer, !.id = id]}
    /\ unaware' = IF answer = "issued" THEN unaware \ {q.ref} ELSE unaware
    /\ UNCHANGED <<selected, session, feedback, busy, sent, overlapped, strays, cleared>>

Handle(q) ==
    /\ q.answer = "none"
    /\ \E answer \in Answers :
         /\ \/ q.op = "issue" /\ Generate(q.ref, answer)
            \/ q.op = "verify" /\ \E right \in BOOLEAN : Verify(q.ref, right, answer)
            \/ q.op = "consume" /\ Consume(q.ref, answer)
         /\ Answered(q, answer, code'[q.ref].id)

Refuse(q) ==
    /\ q.answer = "none"
    /\ Answered(q, "error", 0)
    /\ UNCHANGED serviceVars

-----------------------------------------------------------------------------
(* The continuations of the runners. *)

Finish(q) == requests' = requests \ {q}

Released == FALSE

(* (history) The purpose of an answer that lands under another one, and the *)
(* reference whose code a consume took, whatever became of its answer.      *)
Stray(q) == {q.ref.purpose} \ {selected.purpose}

Taken(q) == IF code[q.ref].state = "consumed" THEN {q.ref} ELSE {}

SilentUnlessVerified ==  \* mutant: a success outlives the code it was about
    IF feedback.kind = "success" THEN feedback ELSE Silent
FeedbackOfIssue == Silent

(* runIssue: a new session, or a message. *)
IssueReturns(q) ==
    /\ q.op = "issue"
    /\ IF q.answer = "issued"
       THEN /\ session' = [ref |-> q.ref, id |-> q.id, ticking |-> TRUE, cooling |-> TRUE]
            /\ feedback' = FeedbackOfIssue
            /\ strays' = Stray(q)
       ELSE /\ feedback' = Say("message", q.ref)
            /\ strays' = strays \cup Stray(q)
            /\ UNCHANGED session
    /\ UNCHANGED <<unaware, cleared>>

(* codeForReason: a refusal without a reason reads as a wrong code. *)
CodeForReason(answer) ==
    IF answer \in {"not_found", "max_attempts"} THEN answer ELSE "invalid_code"

IsTerminalCode(error) == error \in {"max_attempts", "not_found"}

(* runVerify: success, or a message; terminal when the code is dead.        *)
VerifyReturns(q) ==
    /\ q.op = "verify"
    /\ feedback' = Say(CASE q.answer = "valid" -> "success"
                         [] q.answer # "valid" /\ IsTerminalCode(CodeForReason(q.answer)) -> "terminal"
                         [] OTHER -> "message", q.ref)
    /\ strays' = strays \cup Stray(q)
    /\ UNCHANGED <<session, unaware, cleared>>

SessionKept == session  \* mutant: setSession(null) forgotten
NoSession == None

(* An issue was answered before the consume was: its session is still to    *)
(* come.                                                                    *)
Overtaken(q) ==
    \E p \in requests : p.op = "issue" /\ p.answer = "issued" /\ p.ref = q.ref

(* runConsume: any answer, a refusal included, ends the session.            *)
ConsumeReturns(q) ==
    /\ q.op = "consume"
    /\ session' = NoSession
    /\ feedback' = Silent
    /\ strays' = {}
    /\ unaware' = unaware \cup IF Overtaken(q) THEN Taken(q) ELSE {}
    /\ cleared' = cleared \cup
         IF session # None /\ session.ref = q.ref /\ q.answer = "consumed" /\ ~overlapped
         THEN {<<q.ref, session.id>>} ELSE {}

Return(q) ==
    /\ q.answer # "none"
    /\ IssueReturns(q) \/ VerifyReturns(q) \/ ConsumeReturns(q)
    /\ Finish(q)
    /\ busy' = Released
    /\ UNCHANGED <<selected, sent, overlapped>>
    /\ UNCHANGED serviceVars

(* fetch rejects, before the API saw the request or after: each runner      *)
(* falls back to the generic message.                                       *)
Throw(q) ==
    /\ feedback' = Say("message", q.ref)
    /\ Finish(q)
    /\ busy' = Released
    /\ strays' = strays \cup Stray(q)
    /\ unaware' = unaware \cup IF q.answer = "consumed" THEN Taken(q) ELSE {}
    /\ UNCHANGED <<selected, session, sent, overlapped, cleared>>
    /\ UNCHANGED serviceVars

-----------------------------------------------------------------------------
User ==
    \/ ClickGenerate \/ ClickResend \/ CompleteBox \/ ClickConsume
    \/ \E purpose \in Purposes : SelectPurpose(purpose)
    \/ \E who \in Addressees : Readdress(who)

Clock ==
    \/ Expire \/ CooldownOver
    \/ \E ref \in Ref : Lapse(ref) /\ UNCHANGED panelVars

Network(q) == Handle(q) \/ Refuse(q) \/ Return(q) \/ Throw(q)

Next == User \/ Clock \/ \E q \in requests : Network(q)

Spec == Init /\ [][Next]_vars
-----------------------------------------------------------------------------
TypeOK ==
    /\ ServiceTypeOK
    /\ selected \in Ref
    /\ session \in Session \cup {None}
    /\ feedback \in Feedback
    /\ busy \in BOOLEAN
    /\ requests \subseteq Request
    /\ sent \in Nat
    /\ overlapped \in BOOLEAN
    /\ strays \subseteq Purposes
    /\ unaware \subseteq Ref
    /\ cleared \subseteq Ref \X Nat

(* Every path out of a runner's await releases the buttons, and they stay   *)
(* locked until then -- as long as no request was started during another (a *)
(* box completed twice, a Consume clicked twice): the first to end releases *)
(* the flag of the second.                                                  *)
BusyIsInFlight ==
    /\ requests = {} => ~busy
    /\ ~overlapped /\ requests # {} => busy

(* The panel shows an OTP, or the outcome of one, of a purpose other than   *)
(* the selected one only if an answer about that purpose landed after the   *)
(* selection changed, and then only until the next selection, session or    *)
(* consume: nothing that was on screen survives a change of purpose, and    *)
(* nothing but such an answer can bring it back.                            *)
ShownIsSelected ==
    /\ session # None => session.ref.purpose \in {selected.purpose} \cup strays
    /\ feedback.kind # "idle" => feedback.ref.purpose \in {selected.purpose} \cup strays

(* An OTP on screen exists at the service or has expired there, unless a    *)
(* consume of its reference took it: one whose answer is on its way to the  *)
(* panel, was lost, or overtook the answer of the issue.                    *)
ShownHasCode ==
    session # None =>
        \/ code[session.ref].state \in {"active", "expired"}
        \/ session.ref \in unaware
        \/ \E q \in requests : q.op = "consume" /\ q.answer = "consumed" /\ q.ref = session.ref

(* An OTP the panel took off the screen as consumed is not live at the      *)
(* service, when the consume was of its reference, accepted and alone.      *)
EndedIsConsumed ==
    \A ref \in Ref : code[ref].state = "active" => <<ref, code[ref].id>> \notin cleared

(* Panel and service agree, both ways, on which OTPs there are. *)
SessionHasCode == ShownHasCode /\ EndedIsConsumed

(* "Code verified." is only said of a code the service has validated; a     *)
(* code issued since replaces it on screen once its answer is in.  Only two *)
(* requests that overlapped can leave it said of another code, and then     *)
(* until the next request.                                                  *)
SuccessIsValidated ==
    /\ ~overlapped /\ requests = {} /\ feedback.kind = "success"
    /\ code[feedback.ref].state = "active"
    => code[feedback.ref].validated
=============================================================================

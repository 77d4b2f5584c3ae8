--------------------------- MODULE OtpPanelProofs ---------------------------
(***************************************************************************)
(* The OTP panel, proved for every set of purposes and addressees, every   *)
(* number of attempts, and any number of codes and requests.               *)
(*                                                                         *)
(* The properties of the panel are about what it shows; IInv adds what the *)
(* requests under way will make it show, and that the numbers the service  *)
(* gives its codes are new.                                                *)
(***************************************************************************)
EXTENDS OtpPanel, TLAPS

USE OtpAssumption, PanelAssumption

(* Without an overlap, at most one request is under way. *)
Alone == ~overlapped => \A p, q \in requests : p = q

AnswerFits ==
    \A q \in requests : /\ q.answer = "issued" => q.op = "issue"
                        /\ q.answer = "valid" => q.op = "verify"

Kept(c) == c.state \in {"active", "expired"}
Unvalidated(c) == c.state = "active" /\ ~c.validated

Took(q, ref) == q.op = "consume" /\ q.answer = "consumed" /\ q.ref = ref

(* A code on screen, or about to be, is at the service, unless a consume    *)
(* took it: one under way, or one the panel knows nothing of.               *)
Backed(ref) ==
    \/ Kept(code[ref])
    \/ /\ code[ref].state = "consumed"
       /\ ref \in unaware \/ \E q \in requests : Took(q, ref)

CodeIsKept ==
    /\ session # None => Backed(session.ref)
    /\ \A q \in requests : q.answer = "issued" => Backed(q.ref)

(* Every number known to the panel was given out: the next one is new. *)
IdsAreIssued ==
    /\ session # None => session.id <= issued
    /\ \A ref \in Ref : code[ref].id <= issued
    /\ \A q \in requests : q.id <= issued
    /\ \A c \in cleared : c[2] <= issued

(* Nothing follows the accepted consume of a request that is alone.         *)
TakenIsGone ==
    ~overlapped => \A q \in requests : Took(q, q.ref) => code[q.ref].state # "active"

(* A success on screen, or about to be, is of a validated code; one on      *)
(* screen while a request is under way will be replaced.                    *)
SuccessIsTrue ==
    ~overlapped =>
        /\ requests = {} /\ feedback.kind = "success" => ~Unvalidated(code[feedback.ref])
        /\ \A q \in requests : q.answer = "valid" => ~Unvalidated(code[q.ref])

IInv ==
    /\ TypeOK /\ Alone /\ BusyIsInFlight /\ AnswerFits
    /\ ShownIsSelected /\ CodeIsKept
    /\ IdsAreIssued /\ TakenIsGone /\ EndedIsConsumed /\ SuccessIsTrue

-----------------------------------------------------------------------------
LEMMA SayType ==
    ASSUME NEW kind \in Kinds, NEW ref \in Ref
    PROVE  Say(kind, ref) \in Feedback
BY DEF Say, Feedback

LEMMA SilentType == Silent \in Feedback /\ Silent.kind = "idle" /\ Silent.ref = Default
BY DEF Silent, Say, Feedback, Kinds

LEMMA InitIInv == Init => IInv
<1> SUFFICES ASSUME Init PROVE IInv
  OBVIOUS
<1>1. TypeOK
  <2>1. ServiceTypeOK
    BY DEF Init, ServiceInit, ServiceTypeOK, NoCode, Code
  <2>. QED
    BY <2>1, SilentType DEF Init, TypeOK
<1>. QED
  BY <1>1, SilentType DEF Init, ServiceInit, NoCode, IInv, Alone, BusyIsInFlight, ShownIsSelected,
     AnswerFits, CodeIsKept, IdsAreIssued, TakenIsGone, EndedIsConsumed, SuccessIsTrue

-----------------------------------------------------------------------------
(* What the service does for one request, and to its code. *)
LEMMA GenerateCode ==
    ASSUME TypeOK, NEW ref \in Ref, NEW answer \in Answers, Generate(ref, answer)
    PROVE  /\ ServiceTypeOK'
           /\ answer \in {"issued", "cooldown"}
           /\ \A other \in Ref : other # ref => code'[other] = code[other]
           /\ answer = "issued" => /\ code'[ref].state = "active"
                                   /\ code'[ref].id = issued + 1 /\ issued' = issued + 1
           /\ answer # "issued" => code' = code /\ issued' = issued
<1> DEFINE new == [NoCode EXCEPT !.id = issued + 1, !.state = "active"]
<1>1. issued + 1 \in Nat /\ 0 \in 0..MAX_ATTEMPTS
  BY DEF TypeOK, ServiceTypeOK
<1>2. new \in Code /\ new.state = "active" /\ new.id = issued + 1
  <2>1. NoCode \in Code
    BY <1>1 DEF NoCode, Code
  <2>. QED
    BY <1>1, <2>1 DEF Code
<1> HIDE DEF new
<1>3. CASE ref \in cooldown
  BY <1>3 DEF Generate, TypeOK, ServiceTypeOK, serviceVars
<1>4. CASE ref \notin cooldown
  <2>1. /\ answer = "issued" /\ issued' = issued + 1
        /\ code' = [code EXCEPT ![ref] = new] /\ cooldown' = cooldown \cup {ref}
    BY <1>4 DEF Generate, new
  <2>. QED
    BY <1>1, <1>2, <2>1 DEF TypeOK, ServiceTypeOK
<1>. QED
  BY <1>3, <1>4

LEMMA VerifyCode ==
    ASSUME TypeOK, NEW ref \in Ref, NEW right \in BOOLEAN, NEW answer \in Answers,
           Verify(ref, right, answer)
    PROVE  /\ ServiceTypeOK'
           /\ answer \in {"not_found", "max_attempts", "valid", "invalid_code"}
           /\ \A other \in Ref : other # ref => code'[other] = code[other]
           /\ code'[ref].state = code[ref].state
           /\ code'[ref].id = code[ref].id /\ issued' = issued
           /\ code[ref].validated => code'[ref].validated
           /\ answer = "valid" => code'[ref].validated
<1>1. code[ref] \in Code /\ code \in [Ref -> Code]
  BY DEF TypeOK, ServiceTypeOK
<1>2. answer \in {"not_found", "max_attempts", "valid", "invalid_code"}
  BY DEF Verify
<1>3. CASE answer = "valid"
  <2>1. code' = [code EXCEPT ![ref].validated = TRUE]
    BY <1>3 DEF Verify
  <2>2. cooldown' = cooldown /\ issued' = issued
    BY DEF Verify
  <2> DEFINE new == [code[ref] EXCEPT !.validated = TRUE]
  <2>3. new \in Code /\ new.state = code[ref].state /\ new.validated = TRUE
        /\ new.id = code[ref].id
    BY <1>1 DEF Code
  <2>4. code' = [code EXCEPT ![ref] = new]
    BY <2>1
  <2> HIDE DEF new
  <2>. QED
    BY <1>1, <1>2, <1>3, <2>2, <2>3, <2>4 DEF TypeOK, ServiceTypeOK
<1>4. CASE answer = "invalid_code"
  <2>1. code' = [code EXCEPT ![ref].attempts = @ + 1]
    BY <1>4 DEF Verify
  <2>2. code[ref].attempts + 1 \in 0..MAX_ATTEMPTS
    BY <1>1, <1>4 DEF Verify, LockedOut, Code
  <2>. QED
    BY <1>1, <1>4, <2>1, <2>2 DEF Verify, Code, TypeOK, ServiceTypeOK
<1>5. CASE answer \in {"not_found", "max_attempts"}
  <2>1. code' = code
    BY <1>5 DEF Verify
  <2>. QED
    BY <1>2, <1>5, <2>1 DEF Verify, TypeOK, ServiceTypeOK
<1>. QED
  BY <1>2, <1>3, <1>4, <1>5

LEMMA ConsumeCode ==
    ASSUME TypeOK, NEW ref \in Ref, NEW answer \in Answers, Consume(ref, answer)
    PROVE  /\ ServiceTypeOK'
           /\ answer = "consumed"
           /\ \A other \in Ref : other # ref => code'[other] = code[other]
           /\ code'[ref].id = code[ref].id /\ issued' = issued
           /\ IF code[ref].state = "active" THEN code'[ref].state = "consumed" ELSE code' = code
           /\ code'[ref].state # "active"
BY DEF Consume, TypeOK, ServiceTypeOK, Code, Unvalidated

-----------------------------------------------------------------------------
LEMMA RequestRef ==
    ASSUME TypeOK, NEW q \in requests
    PROVE  q \in Request /\ q.ref \in Ref
BY DEF TypeOK, Request

(* A handled or refused request is replaced by its answered copy. *)
LEMMA AnsweredRequests ==
    ASSUME IInv, NEW q \in requests, NEW answer \in Answers, NEW id \in Nat,
           Answered(q, answer, id)
    PROVE  LET a == [q EXCEPT !.answer = answer, !.id = id] IN
           /\ requests' = (requests \ {q}) \cup {a}
           /\ a \in Request /\ a.ref = q.ref /\ a.op = q.op /\ a.answer = answer
           /\ requests' \subseteq Request
           /\ Alone' /\ BusyIsInFlight' /\ ShownIsSelected'
           /\ ~overlapped => requests' = {a}
<1> DEFINE a == [q EXCEPT !.answer = answer, !.id = id]
<1>1. a \in Request /\ a.ref = q.ref /\ a.op = q.op /\ a.answer = answer
  BY RequestRef DEF IInv, Request
<1>2. requests' = (requests \ {q}) \cup {a}
  BY DEF Answered
<1> HIDE DEF a
<1>3. /\ UNCHANGED <<selected, session, feedback, busy, overlapped, strays>>
      /\ requests \subseteq Request
  BY DEF Answered, IInv, TypeOK
<1>4. requests' \subseteq Request
  BY <1>1, <1>2, <1>3
<1>5. Alone'
  BY <1>2, <1>3 DEF IInv, Alone
<1>6. BusyIsInFlight'
  BY <1>2, <1>3 DEF IInv, BusyIsInFlight
<1>7. ShownIsSelected'
  BY <1>3 DEF IInv, ShownIsSelected
<1>8. ~overlapped => requests' = {a}
  BY <1>2 DEF IInv, Alone
<1>. QED
  BY <1>1, <1>2, <1>4, <1>5, <1>6, <1>7, <1>8 DEF a
-----------------------------------------------------------------------------
LEMMA IssueIInv == ASSUME IInv, NEW op \in {"issue", "verify", "consume"}, Issue(op)
                   PROVE  IInv'
<1> DEFINE new == [n |-> sent + 1, op |-> op, ref |-> selected, answer |-> "none", id |-> 0]
<1>1. /\ requests' = requests \cup {new}
      /\ overlapped' = (requests # {})
      /\ sent' = sent + 1 /\ busy' = TRUE
      /\ UNCHANGED <<selected, session, feedback, strays, unaware, cleared>>
      /\ UNCHANGED <<code, cooldown, issued>>
  BY DEF Issue, serviceVars
<1>2. new \in Request /\ new.ref = selected /\ new.answer = "none" /\ new.id = 0
  BY DEF IInv, TypeOK, Request, Answers
<1> HIDE DEF new
<1>3. TypeOK'
  BY <1>1, <1>2 DEF IInv, TypeOK, ServiceTypeOK
<1>4. Alone' /\ BusyIsInFlight'
  BY <1>1 DEF IInv, Alone, BusyIsInFlight
<1>5. ShownIsSelected' /\ EndedIsConsumed'
  BY <1>1 DEF IInv, ShownIsSelected, EndedIsConsumed
<1>6. AnswerFits'
  BY <1>1, <1>2 DEF IInv, AnswerFits
<1>7. CodeIsKept'
  BY <1>1, <1>2 DEF IInv, CodeIsKept, Backed, Kept
<1>8. SuccessIsTrue' /\ TakenIsGone'
  BY <1>1, <1>2 DEF SuccessIsTrue, TakenIsGone, Took
<1>9. IdsAreIssued'
  BY <1>1, <1>2 DEF IInv, TypeOK, ServiceTypeOK, IdsAreIssued
<1>. QED
  BY <1>3, <1>4, <1>5, <1>6, <1>7, <1>8, <1>9 DEF IInv

LEMMA SelectPurposeIInv ==
    ASSUME IInv, NEW purpose \in Purposes, SelectPurpose(purpose)
    PROVE  IInv'
<1>1. /\ selected' \in Ref
      /\ session' = None /\ feedback' = Silent /\ strays' = {}
      /\ UNCHANGED <<busy, requests, sent, overlapped, unaware, cleared>>
      /\ UNCHANGED <<code, cooldown, issued>>
  BY DEF SelectPurpose, serviceVars, IInv, TypeOK, Ref
<1>2. TypeOK'
  BY <1>1, SilentType DEF IInv, TypeOK, ServiceTypeOK
<1>3. Alone' /\ BusyIsInFlight' /\ AnswerFits' /\ TakenIsGone' /\ EndedIsConsumed'
  BY <1>1 DEF IInv, Alone, BusyIsInFlight, AnswerFits, TakenIsGone, EndedIsConsumed
<1>4. ShownIsSelected' /\ IdsAreIssued'
  BY <1>1, SilentType DEF IInv, ShownIsSelected, IdsAreIssued
<1>5. CodeIsKept' /\ SuccessIsTrue'
  BY <1>1, SilentType DEF IInv, CodeIsKept, Backed, SuccessIsTrue, Kept, Unvalidated
<1>. QED
  BY <1>2, <1>3, <1>4, <1>5 DEF IInv

LEMMA ReaddressIInv ==
    ASSUME IInv, NEW who \in Addressees, Readdress(who)
    PROVE  IInv'
<1>1. /\ selected' \in Ref /\ selected'.purpose = selected.purpose
      /\ UNCHANGED <<session, feedback, busy, requests, sent, code, cooldown, issued>>
      /\ UNCHANGED <<overlapped, strays, unaware, cleared>>
  BY DEF Readdress, serviceVars, history, IInv, TypeOK, Ref
<1>2. TypeOK'
  BY <1>1 DEF IInv, TypeOK, ServiceTypeOK
<1>3. Alone' /\ BusyIsInFlight' /\ AnswerFits' /\ TakenIsGone' /\ EndedIsConsumed'
  BY <1>1 DEF IInv, Alone, BusyIsInFlight, AnswerFits, TakenIsGone, EndedIsConsumed
<1>4. ShownIsSelected' /\ IdsAreIssued'
  BY <1>1 DEF IInv, ShownIsSelected, IdsAreIssued
<1>5. CodeIsKept' /\ SuccessIsTrue'
  BY <1>1 DEF IInv, CodeIsKept, Backed, SuccessIsTrue, Kept, Unvalidated
<1>. QED
  BY <1>2, <1>3, <1>4, <1>5 DEF IInv

LEMMA ClockIInv == ASSUME IInv, Clock PROVE IInv'
<1>1. CASE Expire \/ CooldownOver
  <2>1. /\ session # None /\ session \in Session
        /\ session' \in Session /\ session'.ref = session.ref /\ session'.id = session.id
    BY <1>1 DEF Expire, PillAtZero, CooldownOver, IInv, TypeOK, Session
  <2>2. feedback' = feedback \/ feedback' = Say("expired", session.ref)
    BY <1>1 DEF Expire, PillAtZero, CooldownOver
  <2>3. feedback' \in Feedback /\ (feedback' = feedback \/ feedback'.kind = "expired")
        /\ (feedback' = feedback \/ feedback'.ref = session.ref)
    BY <2>1, <2>2, SayType DEF IInv, TypeOK, Session, Say, Kinds
  <2>4. /\ UNCHANGED <<selected, busy, requests, sent, code, cooldown, issued>>
        /\ UNCHANGED <<overlapped, strays, unaware, cleared>>
    BY <1>1 DEF Expire, PillAtZero, CooldownOver, serviceVars, history
  <2>5. TypeOK'
    BY <2>1, <2>3, <2>4 DEF IInv, TypeOK, ServiceTypeOK
  <2>6. Alone' /\ BusyIsInFlight' /\ AnswerFits' /\ TakenIsGone' /\ EndedIsConsumed'
    BY <2>4 DEF IInv, Alone, BusyIsInFlight, AnswerFits, TakenIsGone, EndedIsConsumed
  <2>7. ShownIsSelected' /\ IdsAreIssued'
    BY <2>1, <2>3, <2>4 DEF IInv, ShownIsSelected, IdsAreIssued
  <2>8. CodeIsKept' /\ SuccessIsTrue'
    BY <2>1, <2>3, <2>4 DEF IInv, CodeIsKept, Backed, SuccessIsTrue, Kept, Unvalidated
  <2>. QED
    BY <2>5, <2>6, <2>7, <2>8 DEF IInv
<1>2. ASSUME NEW ref \in Ref, Lapse(ref), UNCHANGED panelVars PROVE IInv'
  <2>1. /\ UNCHANGED <<selected, session, feedback, busy, requests, sent>>
        /\ UNCHANGED <<overlapped, strays, unaware, cleared>>
    BY <1>2 DEF panelVars, history
  <2>2. /\ ServiceTypeOK'
        /\ \A other \in Ref : /\ Kept(code[other]) => Kept(code'[other])
                              /\ code[other].state = "consumed" => code'[other].state = "consumed"
                              /\ code'[other].state = "active" => code[other].state = "active"
                              /\ code'[other].id = code[other].id
        /\ issued' = issued
        /\ \A other \in Ref : Unvalidated(code'[other]) => Unvalidated(code[other])
    BY <1>2 DEF Lapse, IInv, TypeOK, ServiceTypeOK, Code, Kept, Unvalidated
  <2>3. TypeOK'
    BY <2>1, <2>2 DEF IInv, TypeOK
  <2>4. /\ session # None => session.ref \in Ref
        /\ feedback.ref \in Ref
        /\ \A q \in requests : q.ref \in Ref
    BY RequestRef DEF IInv, TypeOK, Session, Feedback
  <2>5. Alone' /\ BusyIsInFlight' /\ AnswerFits' /\ ShownIsSelected'
    BY <2>1 DEF IInv, Alone, BusyIsInFlight, AnswerFits, ShownIsSelected
  <2>6. CodeIsKept'
    BY <2>1, <2>2, <2>4 DEF IInv, CodeIsKept, Backed
  <2>7. SuccessIsTrue' /\ TakenIsGone'
    BY <2>1, <2>2, <2>4 DEF IInv, SuccessIsTrue, TakenIsGone
  <2>8. IdsAreIssued' /\ EndedIsConsumed'
    BY <2>1, <2>2 DEF IInv, IdsAreIssued, EndedIsConsumed
  <2>. QED
    BY <2>3, <2>5, <2>6, <2>7, <2>8 DEF IInv
<1>. QED
  BY <1>1, <1>2 DEF Clock

-----------------------------------------------------------------------------
LEMMA HandleIInv ==
    ASSUME IInv, NEW q \in requests, Handle(q)
    PROVE  IInv'
<1>1. PICK answer \in Answers :
        /\ \/ q.op = "issue" /\ Generate(q.ref, answer)
           \/ q.op = "verify" /\ \E right \in BOOLEAN : Verify(q.ref, right, answer)
           \/ q.op = "consume" /\ Consume(q.ref, answer)
        /\ Answered(q, answer, code'[q.ref].id)
  BY DEF Handle
<1>2. TypeOK /\ q.ref \in Ref /\ q.answer = "none"
  BY RequestRef DEF IInv, Handle
<1>3. ServiceTypeOK'
  BY <1>1, <1>2, GenerateCode, VerifyCode, ConsumeCode
<1>4. code'[q.ref].id \in Nat
  BY <1>2, <1>3 DEF ServiceTypeOK, Code
<1> DEFINE a == [q EXCEPT !.answer = answer, !.id = code'[q.ref].id]
<1>5. /\ requests' = (requests \ {q}) \cup {a}
      /\ a \in Request /\ a.ref = q.ref /\ a.op = q.op /\ a.answer = answer
      /\ requests' \subseteq Request
      /\ Alone' /\ BusyIsInFlight' /\ ShownIsSelected'
      /\ ~overlapped => requests' = {a}
  BY <1>1, <1>4, AnsweredRequests
<1>6. a.id = code'[q.ref].id
  BY RequestRef DEF IInv, Request
<1> HIDE DEF a
<1>7. /\ UNCHANGED <<selected, session, feedback, busy, sent, overlapped, strays, cleared>>
      /\ unaware' = IF answer = "issued" THEN unaware \ {q.ref} ELSE unaware
  BY <1>1 DEF Answered
<1>8. TypeOK'
  BY <1>3, <1>5, <1>7 DEF IInv, TypeOK
<1>9. AnswerFits'
  <2>1. /\ answer = "issued" => q.op = "issue"
        /\ answer = "valid" => q.op = "verify"
    BY <1>1, <1>2, GenerateCode, VerifyCode, ConsumeCode
  <2>. QED
    BY <1>5, <2>1 DEF IInv, AnswerFits
<1>10. /\ session # None => session.ref \in Ref
       /\ \A p \in requests : p.ref \in Ref
  BY <1>2, RequestRef DEF IInv, TypeOK, Session
(* What the request leaves of the codes. *)
<1>11. /\ \A other \in Ref : other # q.ref => code'[other] = code[other]
       /\ answer = "issued" => /\ code'[q.ref].state = "active" /\ q.op = "issue"
                               /\ code'[q.ref].id = issued + 1 /\ issued' = issued + 1
       /\ answer # "issued" => code'[q.ref].id = code[q.ref].id /\ issued' = issued
       /\ answer # "issued" /\ code'[q.ref].state # code[q.ref].state =>
            /\ code[q.ref].state = "active" /\ code'[q.ref].state = "consumed"
            /\ Took(a, q.ref)
       /\ Took(a, q.ref) => code'[q.ref].state # "active"
       /\ answer = "valid" => ~Unvalidated(code'[q.ref])
  <2>1. CASE q.op = "issue" /\ Generate(q.ref, answer)
    BY <1>2, <1>5, <2>1, GenerateCode DEF Took
  <2>2. ASSUME q.op = "verify", NEW right \in BOOLEAN, Verify(q.ref, right, answer)
        PROVE  <1>11!1 /\ <1>11!2 /\ <1>11!3 /\ <1>11!4 /\ <1>11!5 /\ <1>11!6
    BY <1>2, <1>5, <2>2, VerifyCode DEF Took, Unvalidated
  <2>3. CASE q.op = "consume" /\ Consume(q.ref, answer)
    BY <1>2, <1>5, <2>3, ConsumeCode DEF Took
  <2>. QED
    BY <1>1, <2>1, <2>2, <2>3
<1>12. ASSUME NEW ref \in Ref, Backed(ref) PROVE Backed(ref)'
  <2>1. \A p \in requests : Took(p, ref) => p \in requests'
    BY <1>2, <1>5 DEF Took
  <2>2. a \in requests'
    BY <1>5
  <2>3. CASE ref = q.ref /\ answer = "issued"
    BY <1>11, <2>3 DEF Backed, Kept
  <2>4. CASE ref = q.ref /\ answer # "issued" /\ code'[ref].state # code[ref].state
    BY <1>11, <2>2, <2>4 DEF Backed
  <2>5. CASE (ref = q.ref => answer # "issued") /\ code'[ref].state = code[ref].state
    <3>1. ref \in unaware => ref \in unaware'
      BY <1>7, <2>5
    <3>. QED
      BY <1>12, <2>1, <2>5, <3>1 DEF Backed, Kept
  <2>. QED
    BY <1>11, <2>3, <2>4, <2>5
<1>13. CodeIsKept'
  <2>1. answer = "issued" => Backed(q.ref)'
    BY <1>11 DEF Backed, Kept
  <2>2. session # None => Backed(session.ref)'
    BY <1>7, <1>10, <1>12 DEF IInv, CodeIsKept
  <2>3. \A p \in requests : p.answer = "issued" => Backed(p.ref)'
    BY <1>10, <1>12 DEF IInv, CodeIsKept
  <2>4. (session # None => Backed(session.ref))'
    BY <1>7, <2>2
  <2>5. (\A p \in requests : p.answer = "issued" => Backed(p.ref))'
    <3> SUFFICES ASSUME NEW p \in requests', p.answer = "issued" PROVE Backed(p.ref)'
      OBVIOUS
    <3>1. CASE p = a
      BY <1>5, <2>1, <3>1
    <3>2. CASE p \in requests
      BY <2>3, <3>2
    <3>. QED
      BY <1>5, <3>1, <3>2
  <2>. QED
    BY <2>4, <2>5 DEF CodeIsKept
<1>14. IdsAreIssued' /\ EndedIsConsumed'
  <2>1. issued \in Nat /\ issued' \in Nat /\ issued <= issued'
        /\ code'[q.ref].id <= issued'
    BY <1>2, <1>3, <1>11 DEF IInv, IdsAreIssued, TypeOK, ServiceTypeOK
  <2>2. \A c \in cleared : c[2] \in Nat
    BY <1>2 DEF TypeOK
  <2>3. /\ \A ref \in Ref : code[ref].id \in Nat
        /\ \A p \in requests : p.id \in Nat
        /\ session # None => session.id \in Nat
    BY <1>2 DEF TypeOK, ServiceTypeOK, Code, Request, Session
  <2>4. IdsAreIssued'
    BY <1>5, <1>6, <1>7, <1>11, <2>1, <2>2, <2>3 DEF IInv, IdsAreIssued
  <2>5. ASSUME NEW ref \in Ref, code'[ref].state = "active"
        PROVE  <<ref, code'[ref].id>> \notin cleared
    <3>1. CASE ref = q.ref /\ answer = "issued"
      BY <1>2, <1>11, <2>1, <3>1 DEF IInv, IdsAreIssued, TypeOK, ServiceTypeOK
    <3>2. CASE ref # q.ref \/ answer # "issued"
      BY <1>11, <2>5, <3>2 DEF IInv, EndedIsConsumed
    <3>. QED
      BY <3>1, <3>2
  <2>. QED
    BY <1>7, <2>4, <2>5 DEF EndedIsConsumed
<1>15. TakenIsGone' /\ SuccessIsTrue'
  BY <1>5, <1>7, <1>11 DEF TakenIsGone, SuccessIsTrue
<1>. QED
  BY <1>5, <1>8, <1>9, <1>13, <1>14, <1>15 DEF IInv

LEMMA RefuseIInv ==
    ASSUME IInv, NEW q \in requests, Refuse(q)
    PROVE  IInv'
<1>1. q.answer = "none" /\ Answered(q, "error", 0) /\ UNCHANGED <<code, cooldown, issued>>
  BY DEF Refuse, serviceVars
<1>2. "error" \in Answers
  BY DEF Answers
<1> DEFINE a == [q EXCEPT !.answer = "error", !.id = 0]
<1>3. /\ requests' = (requests \ {q}) \cup {a}
      /\ a \in Request /\ a.ref = q.ref /\ a.op = q.op /\ a.answer = "error"
      /\ requests' \subseteq Request
      /\ Alone' /\ BusyIsInFlight' /\ ShownIsSelected'
      /\ ~overlapped => requests' = {a}
  BY <1>1, <1>2, AnsweredRequests
<1>4. a.id = 0
  BY RequestRef DEF IInv, Request
<1> HIDE DEF a
<1>5. UNCHANGED <<selected, session, feedback, busy, sent, overlapped, strays, unaware, cleared>>
  BY <1>1 DEF Answered
<1>6. TypeOK'
  BY <1>1, <1>3, <1>5 DEF IInv, TypeOK, ServiceTypeOK
<1>7. AnswerFits'
  BY <1>3 DEF IInv, AnswerFits
<1>8. CodeIsKept'
  <2>1. \A p \in requests : p.answer # "none" => p \in requests'
    BY <1>1, <1>3
  <2>. QED
    BY <1>1, <1>3, <1>5, <2>1 DEF IInv, CodeIsKept, Backed, Took, Kept
<1>9. IdsAreIssued' /\ EndedIsConsumed'
  BY <1>1, <1>3, <1>4, <1>5 DEF IInv, TypeOK, ServiceTypeOK, IdsAreIssued, EndedIsConsumed
<1>10. SuccessIsTrue' /\ TakenIsGone'
  BY <1>3, <1>5 DEF SuccessIsTrue, TakenIsGone, Took
<1>. QED
  BY <1>3, <1>6, <1>7, <1>8, <1>9, <1>10 DEF IInv

-----------------------------------------------------------------------------
(* A request that returns or throws leaves the panel to the others. *)
LEMMA FinishedRequests ==
    ASSUME IInv, NEW q \in requests, Finish(q), busy' = FALSE, UNCHANGED overlapped
    PROVE  /\ Alone' /\ BusyIsInFlight' /\ AnswerFits'
           /\ requests' \subseteq Request
BY DEF IInv, TypeOK, Alone, BusyIsInFlight, AnswerFits, Finish

(* ... and its codes backed: the consume it was, if it was one, is no longer *)
(* under way, but then the panel is known to be unaware of it.               *)
LEMMA FinishedBacked ==
    ASSUME NEW q \in requests, Finish(q), UNCHANGED code, unaware \subseteq unaware',
           NEW ref \in Ref, Backed(ref),
           Took(q, ref) => Taken(q) \subseteq unaware'
    PROVE  Backed(ref)'
<1>1. CASE Kept(code[ref])
  BY <1>1 DEF Backed, Kept
<1>2. CASE code[ref].state = "consumed" /\ ref \in unaware
  BY <1>2 DEF Backed
<1>3. ASSUME code[ref].state = "consumed", NEW p \in requests, Took(p, ref) PROVE Backed(ref)'
  <2>1. CASE p = q
    BY <1>3, <2>1 DEF Backed, Took, Taken
  <2>2. CASE p # q
    BY <1>3, <2>2 DEF Backed, Finish
  <2>. QED
    BY <2>1, <2>2
<1>. QED
  BY <1>1, <1>2, <1>3 DEF Backed

LEMMA ReturnIInv ==
    ASSUME IInv, NEW q \in requests, Return(q)
    PROVE  IInv'
<1>1. /\ q.answer # "none" /\ Finish(q) /\ busy' = FALSE
      /\ UNCHANGED <<selected, sent, overlapped, code, cooldown, issued>>
  BY DEF Return, Released, serviceVars
<1>2. q \in Request /\ q.ref \in Ref /\ q.id \in Nat
  BY RequestRef DEF IInv, Request
<1>3. Alone' /\ BusyIsInFlight' /\ AnswerFits' /\ requests' \subseteq Request
  BY <1>1, FinishedRequests
<1>4. /\ Stray(q) \subseteq Purposes /\ q.ref.purpose \in {selected.purpose} \cup Stray(q)
      /\ Taken(q) \subseteq Ref
  BY <1>2 DEF Stray, Taken, Ref
<1>5. ASSUME NEW kind \in Kinds
      PROVE  /\ Say(kind, q.ref) \in Feedback
             /\ Say(kind, q.ref).kind = kind /\ Say(kind, q.ref).ref = q.ref
  BY <1>2, SayType DEF Say
(* What the panel shows afterwards, whichever runner it was. *)
<1>6. CASE IssueReturns(q) /\ q.answer = "issued"
  <2>1. /\ q.op = "issue"
        /\ session' = [ref |-> q.ref, id |-> q.id, ticking |-> TRUE, cooling |-> TRUE]
        /\ feedback' = Silent /\ strays' = Stray(q) /\ UNCHANGED <<unaware, cleared>>
    BY <1>6 DEF IssueReturns, FeedbackOfIssue
  <2>2. session' \in Session /\ session'.ref = q.ref /\ session'.id = q.id
    BY <1>2, <2>1 DEF Session
  <2>3. TypeOK' /\ ShownIsSelected'
    BY <1>1, <1>3, <1>4, <2>1, <2>2, SilentType DEF IInv, TypeOK, ServiceTypeOK, ShownIsSelected
  <2>4. ASSUME NEW ref \in Ref, Backed(ref) PROVE Backed(ref)'
    BY <1>1, <2>1, <2>4, FinishedBacked DEF Took
  <2>5. CodeIsKept'
    <3>1. Backed(q.ref)'
      BY <1>2, <1>6, <2>4 DEF IInv, CodeIsKept
    <3>2. \A p \in requests : p.answer = "issued" => Backed(p.ref)'
      BY <2>4, RequestRef DEF IInv, CodeIsKept
    <3>. QED
      BY <1>1, <2>2, <3>1, <3>2 DEF CodeIsKept, Finish
  <2>6. IdsAreIssued' /\ EndedIsConsumed' /\ TakenIsGone' /\ SuccessIsTrue'
    BY <1>1, <2>1, <2>2, SilentType
       DEF IInv, IdsAreIssued, EndedIsConsumed, TakenIsGone, SuccessIsTrue, Finish, Took
  <2>. QED
    BY <1>3, <2>3, <2>5, <2>6 DEF IInv
<1>7. CASE VerifyReturns(q) \/ (IssueReturns(q) /\ q.answer # "issued")
  <2>1. /\ q.op # "consume"
        /\ UNCHANGED <<session, unaware, cleared>> /\ strays' = strays \cup Stray(q)
    BY <1>7 DEF IssueReturns, VerifyReturns
  <2>2. PICK kind \in Kinds : feedback' = Say(kind, q.ref) /\ (kind = "success" => q.answer = "valid")
    <3>1. CASE VerifyReturns(q)
      BY <3>1 DEF VerifyReturns, Kinds
    <3>2. CASE IssueReturns(q) /\ q.answer # "issued"
      BY <3>2 DEF IssueReturns, Kinds
    <3>. QED
      BY <1>7, <3>1, <3>2
  <2>3. feedback' \in Feedback /\ feedback'.kind = kind /\ feedback'.ref = q.ref
    BY <1>5, <2>2
  <2>4. TypeOK' /\ ShownIsSelected'
    BY <1>1, <1>3, <1>4, <2>1, <2>3 DEF IInv, TypeOK, ServiceTypeOK, ShownIsSelected
  <2>5. ASSUME NEW ref \in Ref, Backed(ref) PROVE Backed(ref)'
    BY <1>1, <2>1, <2>5, FinishedBacked DEF Took
  <2>6. CodeIsKept'
    <3>1. session # None => session.ref \in Ref /\ Backed(session.ref)'
      BY <2>1, <2>5 DEF IInv, CodeIsKept, TypeOK, Session
    <3>2. \A p \in requests : p.answer = "issued" => Backed(p.ref)'
      BY <2>5, RequestRef DEF IInv, CodeIsKept
    <3>. QED
      BY <1>1, <2>1, <3>1, <3>2 DEF CodeIsKept, Finish
  <2>7. IdsAreIssued' /\ EndedIsConsumed' /\ TakenIsGone'
    BY <1>1, <2>1 DEF IInv, IdsAreIssued, EndedIsConsumed, TakenIsGone, Finish, Took
  <2>8. SuccessIsTrue'
    BY <1>1, <2>2, <2>3 DEF IInv, SuccessIsTrue, Finish, Unvalidated
  <2>. QED
    BY <1>3, <2>4, <2>6, <2>7, <2>8 DEF IInv
<1>8. CASE ConsumeReturns(q)
  <2>1. /\ q.op = "consume" /\ session' = None /\ feedback' = Silent /\ strays' = {}
        /\ unaware' = unaware \cup IF Overtaken(q) THEN Taken(q) ELSE {}
        /\ cleared' = cleared \cup
             IF session # None /\ session.ref = q.ref /\ q.answer = "consumed" /\ ~overlapped
             THEN {<<q.ref, session.id>>} ELSE {}
    BY <1>8 DEF ConsumeReturns, NoSession
  <2>2. /\ unaware \subseteq unaware' /\ unaware' \subseteq Ref
        /\ cleared' \subseteq Ref \X Nat
    BY <1>2, <1>4, <2>1 DEF IInv, TypeOK, Session
  <2>3. TypeOK' /\ ShownIsSelected'
    BY <1>1, <1>3, <2>1, <2>2, SilentType DEF IInv, TypeOK, ServiceTypeOK, ShownIsSelected
  <2>4. CodeIsKept'
    <3>1. ASSUME NEW p \in requests', p.answer = "issued" PROVE Backed(p.ref)'
      <4>1. p \in requests /\ p.op = "issue" /\ p.ref \in Ref /\ Backed(p.ref)
        BY <1>1, <3>1, RequestRef DEF Finish, IInv, AnswerFits, CodeIsKept
      <4>2. Took(q, p.ref) => Taken(q) \subseteq unaware'
        BY <2>1, <3>1, <4>1 DEF Took, Overtaken
      <4>. QED
        BY <1>1, <2>2, <4>1, <4>2, FinishedBacked
    <3>. QED
      BY <2>1, <3>1 DEF CodeIsKept
  <2>5. ASSUME cleared' # cleared
        PROVE  /\ cleared' = cleared \cup {<<q.ref, session.id>>}
               /\ session # None /\ code[q.ref].state # "active"
    BY <2>1, <2>5 DEF IInv, TakenIsGone, Took
  <2>6. IdsAreIssued'
    BY <1>1, <2>1, <2>5 DEF IInv, IdsAreIssued, Finish
  <2>7. EndedIsConsumed'
    BY <1>1, <2>5 DEF IInv, EndedIsConsumed
  <2>8. TakenIsGone' /\ SuccessIsTrue'
    BY <1>1, <2>1, SilentType DEF IInv, TakenIsGone, SuccessIsTrue, Finish, Took
  <2>. QED
    BY <1>3, <2>3, <2>4, <2>6, <2>7, <2>8 DEF IInv
<1>. QED
  BY <1>6, <1>7, <1>8 DEF Return

LEMMA ThrowIInv ==
    ASSUME IInv, NEW q \in requests, Throw(q)
    PROVE  IInv'
<1>1. /\ feedback' = Say("message", q.ref) /\ Finish(q) /\ busy' = FALSE
      /\ strays' = strays \cup Stray(q)
      /\ unaware' = unaware \cup IF q.answer = "consumed" THEN Taken(q) ELSE {}
      /\ UNCHANGED <<selected, session, sent, overlapped, cleared, code, cooldown, issued>>
  BY DEF Throw, Released, serviceVars
<1>2. q.ref \in Ref
  BY RequestRef DEF IInv
<1>3. feedback' \in Feedback /\ feedback'.kind = "message" /\ feedback'.ref = q.ref
  BY <1>1, <1>2, SayType DEF Say, Kinds
<1>4. Alone' /\ BusyIsInFlight' /\ AnswerFits' /\ requests' \subseteq Request
  BY <1>1, FinishedRequests
<1>5. /\ Stray(q) \subseteq Purposes /\ q.ref.purpose \in {selected.purpose} \cup Stray(q)
      /\ Taken(q) \subseteq Ref
  BY <1>2 DEF Stray, Taken, Ref
<1>6. TypeOK' /\ ShownIsSelected'
  BY <1>1, <1>3, <1>4, <1>5 DEF IInv, TypeOK, ServiceTypeOK, ShownIsSelected
<1>7. CodeIsKept'
  <2>1. ASSUME NEW ref \in Ref, Backed(ref) PROVE Backed(ref)'
    BY <1>1, <2>1, FinishedBacked DEF Took
  <2>2. session # None => Backed(session.ref)'
    BY <1>1, <2>1 DEF IInv, CodeIsKept, TypeOK, Session
  <2>3. \A p \in requests : p.answer = "issued" => Backed(p.ref)'
    BY <2>1, RequestRef DEF IInv, CodeIsKept
  <2>. QED
    BY <1>1, <2>2, <2>3 DEF CodeIsKept, Finish
<1>8. IdsAreIssued' /\ EndedIsConsumed' /\ TakenIsGone' /\ SuccessIsTrue'
  BY <1>1, <1>3 DEF IInv, IdsAreIssued, EndedIsConsumed, TakenIsGone, SuccessIsTrue, Finish, Took
<1>. QED
  BY <1>4, <1>6, <1>7, <1>8 DEF IInv

-----------------------------------------------------------------------------
LEMMA NextIInv == IInv /\ [Next]_vars => IInv'
<1> SUFFICES ASSUME IInv, [Next]_vars PROVE IInv'
  OBVIOUS
<1>1. CASE User
  <2>1. CASE ClickGenerate \/ ClickResend \/ CompleteBox \/ ClickConsume
    BY <2>1, IssueIInv DEF ClickGenerate, ClickResend, BoxOpen, CompleteBox, ClickConsume
  <2>. QED
    BY <1>1, <2>1, SelectPurposeIInv, ReaddressIInv DEF User
<1>2. CASE Clock
  BY <1>2, ClockIInv
<1>3. ASSUME NEW q \in requests, Network(q) PROVE IInv'
  BY <1>3, HandleIInv, RefuseIInv, ReturnIInv, ThrowIInv DEF Network
<1>4. CASE UNCHANGED vars
  BY <1>4 DEF vars, panelVars, history, serviceVars, IInv, TypeOK, ServiceTypeOK, Alone, AnswerFits,
     BusyIsInFlight, ShownIsSelected, CodeIsKept, Backed, Took, Kept, IdsAreIssued, TakenIsGone,
     EndedIsConsumed, SuccessIsTrue, Unvalidated
<1>. QED
  BY <1>1, <1>2, <1>3, <1>4 DEF Next

LEMMA Invariance == Spec => []IInv
BY InitIInv, NextIInv, PTL DEF Spec

-----------------------------------------------------------------------------
(* Every variable of panel and service keeps its type; in particular no code *)
(* is ever charged with more attempts than MAX_ATTEMPTS.                     *)
THEOREM PanelTypeCorrect == Spec => []TypeOK
BY Invariance, PTL DEF IInv

(* Every path out of every runner releases the buttons, and without an      *)
(* overlap they stay locked until then.                                     *)
THEOREM BusyWhileInFlight == Spec => []BusyIsInFlight
BY Invariance, PTL DEF IInv

(* No interleaving of answers, expiry and clicks makes the panel show an    *)
(* OTP of another purpose, but an answer about it that landed after the     *)
(* selection changed.                                                       *)
THEOREM ShowsSelected == Spec => []ShownIsSelected
BY Invariance, PTL DEF IInv

(* The OTP on screen is still at the service, or expired, unless a consume  *)
(* the panel was not told of took it; the OTP a consume of its own ended is *)
(* gone from the service.                                                   *)
THEOREM SessionBacked == Spec => []SessionHasCode
<1>1. IInv => SessionHasCode
  BY DEF IInv, CodeIsKept, Backed, Took, SessionHasCode, ShownHasCode, Kept
<1>. QED
  BY <1>1, Invariance, PTL

(* "Code verified." is only said of a validated code, whatever is switched, *)
(* lapses or goes unanswered, as long as requests do not overlap.           *)
THEOREM SuccessTold == Spec => []SuccessIsValidated
<1>1. IInv => SuccessIsValidated
  BY DEF IInv, SuccessIsTrue, SuccessIsValidated, Unvalidated
<1>. QED
  BY <1>1, Invariance, PTL
=============================================================================

------------------------ MODULE TriggerCenterProofs ------------------------
(***************************************************************************)
(* The Trigger Center, proved for every set of cards, tenants and          *)
(* addressees and any number of fires, faults and codes.                   *)
(*                                                                         *)
(* Every step of a fire moves its record and keeps its card and its        *)
(* tenant; this is all that the button and the audit log depend on.        *)
(***************************************************************************)
EXTENDS TriggerCenter, TLAPS

USE OtpAssumption, FilterAssumption, UrlAssumption, TriggerAssumption

(* A row belongs to a fire, and has its tenant. *)
RowsOfFires == \A r \in log : r.id \in DOMAIN fires /\ r.tenant = fires[r.id].tenant

IInv == TypeOK /\ OneFireAtATime /\ RowsOfFires

Under(f) == fires[f].state # "over"

(* A fire goes on from a call, or from one call to the next: the card is    *)
(* still firing.                                                            *)
GoesOn(f) ==
    \E g \in FireRecord :
        /\ g.card = fires[f].card /\ g.tenant = fires[f].tenant /\ g.state # "over"
        /\ fires' = [fires EXCEPT ![f] = g]

-----------------------------------------------------------------------------
LEMMA InitIInv == Init => IInv
<1> SUFFICES ASSUME Init PROVE IInv
  OBVIOUS
<1>1. ServiceTypeOK
  BY DEF Init, ServiceInit, ServiceTypeOK, NoCode, Code
<1>2. DOMAIN fires = {} /\ fires \in Seq(FireRecord) /\ Len(fires) = 0
  BY DEF Init
<1>. QED
  BY <1>1, <1>2 DEF Init, IInv, TypeOK, OneFireAtATime, InProgress, RowsOfFires

LEMMA FireType ==
    ASSUME TypeOK, NEW f \in DOMAIN fires
    PROVE  /\ DOMAIN fires = 1..Len(fires) /\ f \in 1..Len(fires)
           /\ fires[f] \in FireRecord
           /\ fires[f].card \in Cards /\ fires[f].tenant \in Tenants
           /\ RefOf(f) \in Ref
           /\ \A t \in Tenants : [RefOf(f) EXCEPT !.who.tenant = t] \in Ref
           /\ RefOf(f).who.tenant = fires[f].tenant
           /\ [RefOf(f) EXCEPT !.who.tenant = fires[f].tenant] = RefOf(f)
<1>1. DOMAIN fires = 1..Len(fires) /\ Len(fires) \in Nat /\ Len(fires) <= MaxFires
  BY DEF TypeOK
<1>2. fires[f] \in FireRecord
  BY <1>1 DEF TypeOK
<1>3. f \in Recipients
  BY <1>1 DEF Recipients
<1>4. fires[f].tenant \in Tenants /\ fires[f].card \in Cards
  BY <1>2 DEF FireRecord
<1>. QED
  BY <1>1, <1>2, <1>3, <1>4 DEF RefOf, FreshOtpRecipient, Ref

(* A trusted tenant is never blank, so it resolves to itself. *)
LEMMA Trusted ==
    ASSUME NEW tenant \in Tenants, NEW forged
    PROVE  ResolveTenantId(tenant) = tenant /\ DispatchTenant(tenant, forged) = tenant
BY DEF ResolveTenantId, DispatchTenant

-----------------------------------------------------------------------------
(* What the service does, by type. *)
LEMMA GenerateType ==
    ASSUME ServiceTypeOK, NEW ref \in Ref, NEW answer, Generate(ref, answer)
    PROVE  ServiceTypeOK'
<1> DEFINE new == [NoCode EXCEPT !.id = issued + 1, !.state = "active"]
<1>1. issued + 1 \in Nat /\ 0 \in 0..MAX_ATTEMPTS
  BY DEF ServiceTypeOK
<1>2. new \in Code
  BY <1>1 DEF NoCode, Code
<1> HIDE DEF new
<1>3. CASE ref \in cooldown
  BY <1>3 DEF Generate, ServiceTypeOK, serviceVars
<1>4. CASE ref \notin cooldown
  <2>1. /\ issued' = issued + 1
        /\ code' = [code EXCEPT ![ref] = new] /\ cooldown' = cooldown \cup {ref}
    BY <1>4 DEF Generate, new
  <2>. QED
    BY <1>1, <1>2, <2>1 DEF ServiceTypeOK
<1>. QED
  BY <1>3, <1>4

LEMMA VerifyType ==
    ASSUME ServiceTypeOK, NEW ref \in Ref, NEW right \in BOOLEAN, NEW answer,
           Verify(ref, right, answer)
    PROVE  ServiceTypeOK'
<1>1. code[ref] \in Code /\ code \in [Ref -> Code]
  BY DEF ServiceTypeOK
<1>2. cooldown' = cooldown /\ issued' = issued
  BY DEF Verify
<1>3. CASE answer = "valid"
  <2> DEFINE new == [code[ref] EXCEPT !.validated = TRUE]
  <2>1. new \in Code
    BY <1>1 DEF Code
  <2>2. code' = [code EXCEPT ![ref] = new]
    BY <1>3 DEF Verify
  <2> HIDE DEF new
  <2>. QED
    BY <1>1, <1>2, <2>1, <2>2 DEF ServiceTypeOK
<1>4. CASE answer = "invalid_code"
  <2> DEFINE new == [code[ref] EXCEPT !.attempts = @ + 1]
  <2>1. code[ref].attempts + 1 \in 0..MAX_ATTEMPTS
    <3>1. code[ref].attempts \in 0..MAX_ATTEMPTS
      BY <1>1 DEF Code
    <3>2. code[ref].attempts # MAX_ATTEMPTS
      BY <1>4 DEF Verify, LockedOut
    <3>. QED
      BY <3>1, <3>2
  <2>2. new \in Code
    BY <1>1, <2>1 DEF Code
  <2>3. code' = [code EXCEPT ![ref] = new]
    BY <1>4 DEF Verify
  <2> HIDE DEF new
  <2>. QED
    BY <1>1, <1>2, <2>2, <2>3 DEF ServiceTypeOK
<1>5. CASE answer \notin {"valid", "invalid_code"}
  <2>1. code' = code
    BY <1>5 DEF Verify
  <2>. QED
    BY <1>2, <2>1 DEF ServiceTypeOK
<1>. QED
  BY <1>3, <1>4, <1>5

LEMMA LapseType ==
    ASSUME ServiceTypeOK, NEW ref \in Ref, Lapse(ref)
    PROVE  ServiceTypeOK'
BY DEF Lapse, ServiceTypeOK, Code

(* What is logged of a fire are rows, its own, and of the tenant given. *)
LEMMA Logged ==
    ASSUME NEW f \in Nat, NEW tenant \in Tenants, NEW channel \in {"email", "otp"},
           NEW verb \in {"sent", "generated", "verified", "failed", "cooldown_blocked",
                         "max_attempts_exceeded"},
           NEW r \in ServiceRow(f, tenant, channel, verb)
                       \cup BoundaryRow(f, tenant, channel, verb = "cooldown_blocked")
    PROVE  r \in Row /\ r.id = f /\ r.tenant = tenant
<1> DEFINE Entry(purpose, provider, v) ==
      [channel |-> channel, verb |-> v, purpose |-> purpose,
       recipient |-> MaskedRecipient, provider |-> provider]
<1>1. PICK purpose \in {"login", "null"}, provider \in {"service", Interceptor},
           v \in {"sent", "generated", "verified", "failed", "cooldown_blocked",
                  "max_attempts_exceeded"} :
        r = LogRow(f, tenant, channel, v, purpose, provider)
  BY DEF ServiceRow, BoundaryRow
<1>2. Entry(purpose, provider, v) \in [Fields -> Values]
  BY <1>1 DEF Interceptor
<1>3. r = [ts |-> 0, id |-> f, tenant |-> tenant,
           fields |-> Entry(purpose, provider, v), words |-> {}]
  BY <1>1 DEF LogRow, MkRow
<1> HIDE DEF Entry
<1>. QED
  BY <1>2, <1>3 DEF Row

-----------------------------------------------------------------------------
(* Replacing one record of the sequence. *)
LEMMA Replaced ==
    ASSUME TypeOK, NEW f \in DOMAIN fires, NEW g \in FireRecord,
           fires' = [fires EXCEPT ![f] = g]
    PROVE  /\ fires' \in Seq(FireRecord) /\ Len(fires') = Len(fires)
           /\ DOMAIN fires' = DOMAIN fires
           /\ fires'[f] = g
           /\ \A h \in DOMAIN fires : h # f => fires'[h] = fires[h]
<1>1. fires \in Seq(FireRecord) /\ DOMAIN fires = 1..Len(fires) /\ Len(fires) \in Nat
  BY DEF TypeOK
<1>. QED
  BY <1>1

(* A fire that goes on leaves the button as it is; what it logs is its own. *)
LEMMA GoesOnKeeps ==
    ASSUME IInv, NEW f \in DOMAIN fires, Under(f), GoesOn(f),
           UNCHANGED <<tenantId, firing, shown>>, ServiceTypeOK',
           \A r \in log' \ log : r \in Row /\ r.id = f /\ r.tenant = fires[f].tenant,
           faults' \in 0..MaxFaults, spoiled' \subseteq DOMAIN fires
    PROVE  IInv'
<1>1. TypeOK
  BY DEF IInv
<1>2. PICK g \in FireRecord :
        /\ g.card = fires[f].card /\ g.tenant = fires[f].tenant /\ g.state # "over"
        /\ fires' = [fires EXCEPT ![f] = g]
  BY DEF GoesOn
<1>3. /\ \A h \in DOMAIN fires : h # f => fires'[h] = fires[h]
      /\ fires'[f] = g
  BY <1>1, <1>2, Replaced
<1>4. fires' \in Seq(FireRecord) /\ Len(fires') = Len(fires) /\ DOMAIN fires' = DOMAIN fires
  BY <1>1, <1>2, Replaced
<1>5. \A h \in DOMAIN fires : /\ fires'[h].card = fires[h].card
                              /\ fires'[h].tenant = fires[h].tenant
                              /\ fires'[h].state # "over" <=> fires[h].state # "over"
  BY <1>2, <1>3 DEF Under
<1>6. TypeOK'
  <2>1. log' \subseteq Row
    BY <1>1 DEF TypeOK
  <2>. QED
    BY <1>1, <1>4, <2>1 DEF TypeOK
<1>7. OneFireAtATime'
  <2>1. \A c \in Cards : InProgress(c)' = InProgress(c)
    BY <1>4, <1>5 DEF InProgress
  <2>. QED
    BY <2>1 DEF IInv, OneFireAtATime
<1>8. RowsOfFires'
  <2> SUFFICES ASSUME NEW r \in log' PROVE r.id \in DOMAIN fires' /\ r.tenant = fires'[r.id].tenant
    BY DEF RowsOfFires
  <2>1. CASE r \in log
    BY <1>4, <1>5, <2>1 DEF IInv, RowsOfFires
  <2>2. CASE r \notin log
    BY <1>4, <1>5, <2>2
  <2>. QED
    BY <2>1, <2>2
<1>. QED
  BY <1>6, <1>7, <1>8 DEF IInv

(* A fire that is over releases its button, and was the card's only one. *)
LEMMA OverReleases ==
    ASSUME IInv, NEW f \in DOMAIN fires, Under(f),
           fires' = [fires EXCEPT ![f].state = "over"],
           firing' = [firing EXCEPT ![fires[f].card] = FALSE],
           shown' = shown \/ shown' = [shown EXCEPT ![fires[f].card] = f],
           UNCHANGED <<serviceVars, tenantId, log, faults, spoiled>>
    PROVE  IInv'
<1>1. TypeOK
  BY DEF IInv
<1> DEFINE g == [fires[f] EXCEPT !.state = "over"]
<1>2. fires[f] \in FireRecord /\ fires[f].card \in Cards
  BY <1>1, FireType
<1>3. g \in FireRecord /\ g.card = fires[f].card /\ g.tenant = fires[f].tenant /\ g.state = "over"
  BY <1>2 DEF FireRecord
<1>4. fires' = [fires EXCEPT ![f] = g]
  OBVIOUS
<1> HIDE DEF g
<1>5. /\ \A h \in DOMAIN fires : h # f => fires'[h] = fires[h]
      /\ fires'[f] = g
  BY <1>1, <1>3, <1>4, Replaced
<1>6. fires' \in Seq(FireRecord) /\ Len(fires') = Len(fires) /\ DOMAIN fires' = DOMAIN fires
  BY <1>1, <1>3, <1>4, Replaced
<1>7. \A h \in DOMAIN fires : /\ fires'[h].card = fires[h].card
                              /\ fires'[h].tenant = fires[h].tenant
                              /\ fires'[h].state # "over" <=> h # f /\ fires[h].state # "over"
  BY <1>3, <1>5
<1>8. TypeOK'
  <2>1. shown' \in [Cards -> 0..Len(fires)]
    <3>1. shown \in [Cards -> 0..Len(fires)]
      BY <1>1 DEF TypeOK
    <3>2. f \in 0..Len(fires)
      BY <1>1, FireType DEF TypeOK
    <3>3. [shown EXCEPT ![fires[f].card] = f] \in [Cards -> 0..Len(fires)]
      BY <3>1, <3>2
    <3>. QED
      BY <3>1, <3>3
  <2>2. firing' \in [Cards -> BOOLEAN]
    BY <1>1 DEF TypeOK
  <2>3. ServiceTypeOK'
    BY <1>1 DEF TypeOK, ServiceTypeOK, serviceVars
  <2>. QED
    BY <1>1, <1>6, <2>1, <2>2, <2>3 DEF TypeOK
<1>9. OneFireAtATime'
  <2> SUFFICES ASSUME NEW c \in Cards
               PROVE  /\ firing'[c] <=> InProgress(c)' # {}
                      /\ \A a, b \in InProgress(c)' : a = b
    BY DEF OneFireAtATime
  <2>1. InProgress(c)' = InProgress(c) \ {f}
    BY <1>6, <1>7 DEF InProgress
  <2>2. firing \in [Cards -> BOOLEAN]
    BY <1>1 DEF TypeOK
  <2>3. firing[c] <=> InProgress(c) # {}
    BY DEF IInv, OneFireAtATime
  <2>4. \A a, b \in InProgress(c) : a = b
    BY DEF IInv, OneFireAtATime
  <2>5. CASE c = fires[f].card
    <3>1. f \in InProgress(c)
      BY <2>5 DEF InProgress, Under
    <3>2. InProgress(c)' = {}
      BY <2>1, <2>4, <3>1
    <3>3. firing'[c] = FALSE
      BY <2>2, <2>5
    <3>. QED
      BY <3>2, <3>3
  <2>6. CASE c # fires[f].card
    <3>1. f \notin InProgress(c)
      BY <2>6 DEF InProgress
    <3>2. InProgress(c)' = InProgress(c)
      BY <2>1, <3>1
    <3>3. firing'[c] = firing[c]
      BY <2>2, <2>6
    <3>4. firing'[c] <=> InProgress(c)' # {}
      BY <2>3, <3>2, <3>3
    <3>5. \A a, b \in InProgress(c)' : a = b
      BY <2>4, <3>2
    <3>. QED
      BY <3>4, <3>5
  <2>. QED
    BY <2>5, <2>6
<1>10. RowsOfFires'
  BY <1>6, <1>7 DEF IInv, RowsOfFires
<1>. QED
  BY <1>8, <1>9, <1>10 DEF IInv

-----------------------------------------------------------------------------
(* The actions, one by one. *)
LEMMA FireKeeps ==
    ASSUME IInv, NEW card \in Cards, Fire(card)
    PROVE  IInv'
<1>1. TypeOK
  BY DEF IInv
<1> DEFINE new == [card |-> card, tenant |-> TenantHeader(tenantId), call |-> 1,
                   state |-> "travelling", status |-> 0]
<1>2. new \in FireRecord /\ new.card = card /\ new.state # "over"
  BY <1>1 DEF TypeOK, FireRecord, TenantHeader, Statuses, TENANTS
<1>3. fires' = Append(fires, new)
  BY DEF Fire
<1> HIDE DEF new
<1>4. fires \in Seq(FireRecord) /\ DOMAIN fires = 1..Len(fires) /\ Len(fires) \in Nat
  BY <1>1 DEF TypeOK
<1> DEFINE n == Len(fires) + 1
<1>5. /\ fires' \in Seq(FireRecord) /\ Len(fires') = n /\ DOMAIN fires' = 1..n
      /\ n \notin DOMAIN fires /\ DOMAIN fires' = DOMAIN fires \cup {n}
      /\ fires'[n] = new /\ \A h \in DOMAIN fires : fires'[h] = fires[h]
  BY <1>2, <1>3, <1>4
<1>6. /\ Len(fires) < MaxFires /\ firing' = [firing EXCEPT ![card] = TRUE]
      /\ UNCHANGED <<serviceVars, tenantId, shown, log, faults, spoiled>>
  BY DEF Fire
<1> HIDE DEF n
<1>7. TypeOK'
  <2>1. Len(fires') <= MaxFires
    BY <1>4, <1>5, <1>6 DEF n
  <2>2. 0..Len(fires) \subseteq 0..Len(fires')
    BY <1>4, <1>5 DEF n
  <2>3. ServiceTypeOK'
    BY <1>1, <1>6 DEF TypeOK, ServiceTypeOK, serviceVars
  <2>4. firing' \in [Cards -> BOOLEAN] /\ shown' \in [Cards -> 0..Len(fires')]
    BY <1>1, <1>6, <2>2 DEF TypeOK
  <2>5. spoiled' \subseteq DOMAIN fires'
    BY <1>1, <1>5, <1>6 DEF TypeOK
  <2>. QED
    BY <1>1, <1>5, <1>6, <2>1, <2>3, <2>4, <2>5 DEF TypeOK
<1>8. OneFireAtATime'
  <2> SUFFICES ASSUME NEW c \in Cards
               PROVE  /\ firing'[c] <=> InProgress(c)' # {}
                      /\ \A a, b \in InProgress(c)' : a = b
    BY DEF OneFireAtATime
  <2>1. firing \in [Cards -> BOOLEAN]
    BY <1>1 DEF TypeOK
  <2>2. /\ firing[c] <=> InProgress(c) # {}
        /\ \A a, b \in InProgress(c) : a = b
    BY DEF IInv, OneFireAtATime
  <2>3. CASE c = card
    <3>1. InProgress(c) = {}
      BY <2>2, <2>3 DEF Fire, CanFire
    <3>2. InProgress(c)' = {n}
      BY <1>2, <1>5, <2>3, <3>1 DEF InProgress
    <3>3. firing'[c] = TRUE
      BY <1>6, <2>1, <2>3
    <3>. QED
      BY <3>2, <3>3
  <2>4. CASE c # card
    <3>1. InProgress(c)' = InProgress(c)
      BY <1>2, <1>5, <2>4 DEF InProgress
    <3>2. firing'[c] = firing[c]
      BY <1>6, <2>1, <2>4
    <3>. QED
      BY <2>2, <3>1, <3>2
  <2>. QED
    BY <2>3, <2>4
<1>9. RowsOfFires'
  BY <1>5, <1>6 DEF IInv, RowsOfFires
<1>. QED
  BY <1>7, <1>8, <1>9 DEF IInv

(* A call answered or thrown. *)
LEMMA CallEnds ==
    ASSUME TypeOK, NEW f \in DOMAIN fires, NEW state \in {"answered", "thrown"},
           NEW status \in Statuses,
           fires' = [fires EXCEPT ![f].state = state, ![f].status = status]
    PROVE  GoesOn(f)
<1> DEFINE g == [fires[f] EXCEPT !.state = state, !.status = status]
<1>1. fires[f] \in FireRecord
  BY FireType
<1>2. g \in FireRecord /\ g.card = fires[f].card /\ g.tenant = fires[f].tenant /\ g.state # "over"
  BY <1>1 DEF FireRecord
<1>3. fires' = [fires EXCEPT ![f] = g]
  OBVIOUS
<1> HIDE DEF g
<1>. QED
  BY <1>2, <1>3 DEF GoesOn

(* An answer is logged with rows of its own fire, or not at all. *)
LEMMA AnswerKeeps ==
    ASSUME IInv, NEW f \in DOMAIN fires, Under(f), NEW status \in Statuses, NEW rows,
           \A r \in rows : r \in Row /\ r.id = f /\ r.tenant = fires[f].tenant,
           Answer(f, status, rows), ServiceTypeOK'
    PROVE  IInv'
<1>1. TypeOK /\ fires[f] \in FireRecord
  BY FireType DEF IInv
<1>2. GoesOn(f)
  BY <1>1, CallEnds DEF Answer
<1>3. UNCHANGED <<tenantId, firing, shown>>
  BY DEF Answer
<1>4. log' \ log \subseteq rows
  BY DEF Answer
<1>5. faults' \in 0..MaxFaults /\ spoiled' \subseteq DOMAIN fires
  BY <1>1 DEF Answer, TypeOK
<1>. QED
  BY <1>2, <1>3, <1>4, <1>5, GoesOnKeeps
(* What a handler logs is its fire's. *)
OwnRows(f, rows) == \A r \in rows : r \in Row /\ r.id = f /\ r.tenant = fires[f].tenant

LEMMA HandleKeeps ==
    ASSUME IInv, NEW f \in DOMAIN fires, Handle(f)
    PROVE  IInv'
<1> DEFINE op     == Script(fires[f].card)[fires[f].call]
           tenant == fires[f].tenant
<1>1. /\ TypeOK /\ ServiceTypeOK /\ Under(f) /\ f \in Nat
      /\ tenant \in Tenants /\ RefOf(f) \in Ref
      /\ [RefOf(f) EXCEPT !.who.tenant = tenant] = RefOf(f)
  BY FireType DEF IInv, TypeOK, Handle, Under
<1>2. /\ ResolveTenantId(tenant) = tenant
      /\ \A forged : DispatchTenant(tenant, forged) = tenant
  BY <1>1, Trusted
<1>3. \/ HandleEmail(f, op) \/ HandleHuge(f, op)
      \/ HandleGenerate(f, op) \/ HandleVerify(f, op)
  BY DEF Handle
<1> HIDE DEF op
<1>4. ASSUME HandleEmail(f, op) PROVE IInv'
  <2> DEFINE rows == ServiceRow(f, tenant, "email", "sent")
                       \cup (IF op = "send" THEN {} ELSE BoundaryRow(f, tenant, "email", FALSE))
  <2>1. Answer(f, 201, rows) /\ UNCHANGED serviceVars
    BY <1>2, <1>4 DEF HandleEmail
  <2>2. OwnRows(f, rows)
    <3> SUFFICES ASSUME NEW r \in rows PROVE r \in Row /\ r.id = f /\ r.tenant = tenant
      BY DEF OwnRows
    <3>1. r \in ServiceRow(f, tenant, "email", "sent")
                 \cup BoundaryRow(f, tenant, "email", "sent" = "cooldown_blocked")
      OBVIOUS
    <3> HIDE DEF rows, tenant
    <3>. QED
      BY <1>1, <3>1, Logged
  <2>3. ServiceTypeOK'
    BY <1>1, <2>1 DEF ServiceTypeOK, serviceVars
  <2>4. 201 \in Statuses
    BY DEF Statuses
  <2> HIDE DEF rows
  <2>. QED
    BY <1>1, <2>1, <2>2, <2>3, <2>4, AnswerKeeps DEF OwnRows
<1>5. ASSUME HandleHuge(f, op) PROVE IInv'
  <2>1. Answer(f, 413, {}) /\ UNCHANGED serviceVars
    BY <1>5 DEF HandleHuge
  <2>2. ServiceTypeOK'
    BY <1>1, <2>1 DEF ServiceTypeOK, serviceVars
  <2>. QED
    BY <1>1, <2>1, <2>2, AnswerKeeps DEF Statuses
<1>6. ASSUME HandleGenerate(f, op) PROVE IInv'
  <2> DEFINE rows(answer) ==
        ServiceRow(f, tenant, "otp", VerbOf(answer))
          \cup (IF op = "dispatch-otp" THEN BoundaryRow(f, tenant, "otp", answer = "cooldown") ELSE {})
  <2>1. PICK answer \in {"issued", "cooldown"} :
          /\ Generate(RefOf(f), answer)
          /\ Answer(f, StatusOf(answer), rows(answer))
    BY <1>1, <1>2, <1>6 DEF HandleGenerate
  <2>2. /\ VerbOf(answer) \in {"generated", "cooldown_blocked"}
        /\ VerbOf(answer) = "cooldown_blocked" <=> answer = "cooldown"
        /\ StatusOf(answer) \in Statuses
    BY DEF VerbOf, StatusOf, Statuses
  <2>3. OwnRows(f, rows(answer))
    <3> SUFFICES ASSUME NEW r \in rows(answer)
                 PROVE  r \in Row /\ r.id = f /\ r.tenant = tenant
      BY DEF OwnRows
    <3>1. r \in ServiceRow(f, tenant, "otp", VerbOf(answer))
                 \cup BoundaryRow(f, tenant, "otp", VerbOf(answer) = "cooldown_blocked")
      BY <2>2
    <3> HIDE DEF rows, tenant
    <3>. QED
      BY <1>1, <2>2, <3>1, Logged
  <2>4. ServiceTypeOK'
    BY <1>1, <2>1, GenerateType
  <2>. QED
    BY <1>1, <2>1, <2>2, <2>3, <2>4, AnswerKeeps DEF OwnRows
<1>7. ASSUME HandleVerify(f, op) PROVE IInv'
  <2> DEFINE rows(answer) == ServiceRow(f, tenant, "otp", VerbOf(answer))
  <2>1. PICK answer \in {"invalid_code", "not_found", "max_attempts"} :
          /\ Verify(RefOf(f), FALSE, answer)
          /\ Answer(f, StatusOf(answer), rows(answer))
    BY <1>2, <1>7 DEF HandleVerify
  <2>2. /\ VerbOf(answer) \in {"failed", "max_attempts_exceeded"}
        /\ StatusOf(answer) \in Statuses
    BY DEF VerbOf, StatusOf, Statuses
  <2>3. OwnRows(f, rows(answer))
    <3> SUFFICES ASSUME NEW r \in rows(answer)
                 PROVE  r \in Row /\ r.id = f /\ r.tenant = tenant
      BY DEF OwnRows
    <3> HIDE DEF tenant
    <3>. QED
      BY <1>1, <2>2, Logged
  <2>4. ServiceTypeOK'
    BY <1>1, <2>1, VerifyType
  <2>. QED
    BY <1>1, <2>1, <2>2, <2>3, <2>4, AnswerKeeps DEF OwnRows
<1>. QED
  BY <1>3, <1>4, <1>5, <1>6, <1>7
LEMMA LuckyGuessKeeps ==
    ASSUME IInv, NEW f \in DOMAIN fires, LuckyGuess(f)
    PROVE  IInv'
<1> DEFINE tenant == fires[f].tenant
           rows   == ServiceRow(f, tenant, "otp", "verified")
<1>1. /\ TypeOK /\ ServiceTypeOK /\ Under(f) /\ f \in Nat
      /\ tenant \in Tenants /\ RefOf(f) \in Ref /\ fires[f] \in FireRecord
      /\ ResolveTenantId(tenant) = tenant
  <2>1. TypeOK /\ ServiceTypeOK /\ Under(f)
    BY DEF IInv, TypeOK, LuckyGuess, Under
  <2>2. tenant \in Tenants /\ RefOf(f) \in Ref /\ fires[f] \in FireRecord
    BY <2>1, FireType
  <2>3. f \in Nat
    BY <2>1, FireType DEF TypeOK
  <2>4. ResolveTenantId(tenant) = tenant
    BY <2>2, Trusted
  <2>. QED
    BY <2>1, <2>2, <2>3, <2>4
<1>2. GoesOn(f)
  <2>1. 200 \in Statuses
    BY DEF Statuses
  <2>. QED
    BY <1>1, <2>1, CallEnds DEF LuckyGuess
<1>3. log' \ log \subseteq rows
  BY <1>1 DEF LuckyGuess
<1>4. \A r \in rows : r \in Row /\ r.id = f /\ r.tenant = tenant
  <2> HIDE DEF tenant
  <2>. QED
    BY <1>1, Logged
<1>5. /\ faults' \in 0..MaxFaults /\ spoiled' \subseteq DOMAIN fires
      /\ UNCHANGED <<tenantId, firing, shown>>
  BY <1>1 DEF LuckyGuess, TypeOK
<1>6. ServiceTypeOK'
  BY <1>1, VerifyType DEF LuckyGuess
<1> HIDE DEF rows
<1>. QED
  BY <1>1, <1>2, <1>3, <1>4, <1>5, <1>6, GoesOnKeeps

LEMMA FaultKeeps ==
    ASSUME IInv, NEW f \in DOMAIN fires, NEW from \in {"travelling", "answered"},
           NEW to \in {"answered", "thrown"}, NEW status \in {0, 500}, Fault(f, from, to, status)
    PROVE  IInv'
<1>1. TypeOK /\ fires[f] \in FireRecord /\ Under(f)
  BY FireType DEF IInv, Fault, Under
<1>2. GoesOn(f)
  <2>1. status \in Statuses
    BY DEF Statuses
  <2>. QED
    BY <1>1, <2>1, CallEnds DEF Fault
<1>3. /\ log' = log /\ UNCHANGED <<tenantId, firing, shown>>
      /\ faults' \in 0..MaxFaults /\ spoiled' \subseteq DOMAIN fires
  BY <1>1 DEF Fault, TypeOK
<1>4. ServiceTypeOK'
  BY <1>1 DEF Fault, TypeOK, ServiceTypeOK, serviceVars
<1>. QED
  BY <1>1, <1>2, <1>3, <1>4, GoesOnKeeps

LEMMA NextCallKeeps ==
    ASSUME IInv, NEW f \in DOMAIN fires, NextCall(f)
    PROVE  IInv'
<1> DEFINE call == fires[f].call + 1
           g    == [fires[f] EXCEPT !.call = call, !.state = "travelling"]
<1>1. TypeOK /\ fires[f] \in FireRecord /\ Under(f)
  BY FireType DEF IInv, NextCall, Under
<1>2. GoesOn(f)
  <2> call \in Nat
    BY <1>1 DEF FireRecord
  <2>2. fires' = [fires EXCEPT ![f] = g]
    BY DEF NextCall
  <2> HIDE DEF call
  <2>1. /\ g \in FireRecord /\ g.card = fires[f].card /\ g.tenant = fires[f].tenant
        /\ g.state # "over"
    BY <1>1 DEF FireRecord
  <2> HIDE DEF g
  <2>. QED
    BY <2>1, <2>2 DEF GoesOn
<1>3. /\ log' = log /\ UNCHANGED <<tenantId, firing, shown>>
      /\ faults' \in 0..MaxFaults /\ spoiled' \subseteq DOMAIN fires
  BY <1>1 DEF NextCall, TypeOK
<1>4. ServiceTypeOK'
  BY <1>1 DEF NextCall, TypeOK, ServiceTypeOK, serviceVars
<1>. QED
  BY <1>1, <1>2, <1>3, <1>4, GoesOnKeeps

(* Nothing happens to the fires, the buttons or the log. *)
LEMMA Untouched ==
    ASSUME IInv, UNCHANGED <<fires, firing, shown, log, faults>>, ServiceTypeOK',
           tenantId' \in Tenants \cup {Unset}, spoiled' \subseteq DOMAIN fires
    PROVE  IInv'
<1>1. \A c : InProgress(c)' = InProgress(c)
  BY DEF InProgress
<1>. QED
  BY <1>1 DEF IInv, TypeOK, OneFireAtATime, RowsOfFires

LEMMA NextKeeps ==
    ASSUME IInv, [Next]_vars
    PROVE  IInv'
<1>1. TypeOK /\ ServiceTypeOK
  BY DEF IInv, TypeOK
<1>2. ASSUME NEW t \in TENANTS \cup {Unset}, SelectTenant(t) PROVE IInv'
  <2>1. ServiceTypeOK'
    BY <1>1, <1>2 DEF SelectTenant, ServiceTypeOK, serviceVars
  <2>2. tenantId' \in Tenants \cup {Unset} /\ spoiled' \subseteq DOMAIN fires
    BY <1>1, <1>2 DEF SelectTenant, TypeOK
  <2>. QED
    BY <1>2, <2>1, <2>2, Untouched DEF SelectTenant
<1>3. ASSUME NEW c \in Cards, Fire(c) PROVE IInv'
  BY <1>3, FireKeeps
<1>4. ASSUME NEW f \in DOMAIN fires, Handle(f) PROVE IInv'
  BY <1>4, HandleKeeps
<1>5. ASSUME NEW f \in DOMAIN fires, LuckyGuess(f) PROVE IInv'
  BY <1>5, LuckyGuessKeeps
<1>6. ASSUME NEW f \in DOMAIN fires, Refuse(f) \/ Lose(f) PROVE IInv'
  BY <1>6, FaultKeeps DEF Refuse, Lose
<1>7. ASSUME NEW f \in DOMAIN fires, NextCall(f) PROVE IInv'
  BY <1>7, NextCallKeeps
<1>8. ASSUME NEW f \in DOMAIN fires, Resolve(f) PROVE IInv'
  BY <1>8, OverReleases DEF Resolve, Under, serviceVars
<1>9. ASSUME NEW f \in DOMAIN fires, Reject(f) PROVE IInv'
  BY <1>9, OverReleases DEF Reject, Under, serviceVars
<1>10. ASSUME NEW f \in DOMAIN fires, LapseUnder(f) PROVE IInv'
  <2>1. ServiceTypeOK'
    BY <1>1, <1>10, FireType, LapseType DEF LapseUnder
  <2>2. tenantId' \in Tenants \cup {Unset} /\ spoiled' \subseteq DOMAIN fires
    BY <1>1, <1>10 DEF LapseUnder, TypeOK
  <2>. QED
    BY <1>10, <2>1, <2>2, Untouched DEF LapseUnder
<1>11. ASSUME UNCHANGED vars PROVE IInv'
  <2>1. ServiceTypeOK'
    BY <1>1, <1>11 DEF vars, ServiceTypeOK, serviceVars
  <2>. QED
    BY <1>1, <1>11, <2>1, Untouched DEF vars, triggerVars, TypeOK
<1>. QED
  BY <1>2, <1>3, <1>4, <1>5, <1>6, <1>7, <1>8, <1>9, <1>10, <1>11 DEF Next

LEMMA Invariance == Spec => []IInv
BY InitIInv, NextKeeps, PTL DEF Spec

-----------------------------------------------------------------------------
(* Every variable of page, service and log keeps its type.                  *)
THEOREM CenterTypeCorrect == Spec => []TypeOK
BY Invariance, PTL DEF IInv

(* A card's button is disabled exactly while its one fire is under way,     *)
(* whatever is refused, lost or answered late (trigger-card.tsx, onFire).   *)
THEOREM OneFireEach == Spec => []OneFireAtATime
BY Invariance, PTL DEF IInv

(* Whatever is forged in a body, every row carries the tenant that was      *)
(* trusted when its card was fired (dispatch-input.decorator.ts).           *)
THEOREM TenantIsTrusted == Spec => []TrustedTenant
<1>1. IInv => TrustedTenant
  BY DEF IInv, RowsOfFires, TrustedTenant
<1>. QED
  BY <1>1, Invariance, PTL
-----------------------------------------------------------------------------
(* What the links and the labels rest on.                                   *)
(*                                                                          *)
(* The button and the tenant need nothing of the scripts; a card's outcome  *)
(* does.  A fire is at one of the calls of its script, what a card shows is *)
(* a fire of that card that is over, and a row has the channel and the      *)
(* purpose its card tells of.                                               *)

LastCall(f) == Len(Script(fires[f].card))

ScriptInv == \A f \in DOMAIN fires : fires[f].call \in 1..LastCall(f)

ShownInv ==
    \A c \in Cards : shown[c] # 0 =>
        /\ fires[shown[c]].card = c /\ fires[shown[c]].state = "over"
        /\ fires[shown[c]].call = LastCall(shown[c])

FieldsOf(r, card) ==
    /\ r.ts = 0
    /\ r.fields["channel"] = ChannelTold(card)
    /\ r.fields["purpose"] = PurposeTold(card)
    /\ r.fields["recipient"] = MaskedRecipient

FieldsInv == \A r \in log : FieldsOf(r, fires[r.id].card)

PageInv == ScriptInv /\ ShownInv /\ FieldsInv

(* The calls of the scripts, one by one. *)
CallOf(card, call, op, last) ==
    \/ card = "send-email"   /\ call = 1 /\ last = 1 /\ op = "send"
    \/ card = "generate-otp" /\ call = 1 /\ last = 1 /\ op = "generate"
    \/ card = "verify-otp"   /\ call = 1 /\ last = 1 /\ op = "verify"
    \/ card = "oversize"     /\ call = 1 /\ last = 1 /\ op = "send-huge"
    \/ card = "spoof"        /\ call = 1 /\ last = 1 /\ op = "dispatch-otp"
    \/ card = "dispatch"     /\ call = 1 /\ last = 1 /\ op = "dispatch-email"
    \/ card = "cooldown" /\ last = 2 /\ call = 1 /\ op = "generate"
    \/ card = "cooldown" /\ last = 2 /\ call = 2 /\ op = "resend"
    \/ card = "max-attempts" /\ last = 1 + MAX_ATTEMPT_TRIES /\ call = 1 /\ op = "generate"
    \/ card = "max-attempts" /\ last = 1 + MAX_ATTEMPT_TRIES /\ call \in 2..last /\ op = "verify"

LEMMA Scripted ==
    ASSUME NEW card \in Cards
    PROVE  /\ Len(Script(card)) \in Nat \ {0}
           /\ \A call \in 1..Len(Script(card)) :
                 CallOf(card, call, Script(card)[call], Len(Script(card)))
<1>1. card \in AllCards
  OBVIOUS
<1>2. CASE card \notin {"cooldown", "max-attempts"}
  <2>1. /\ card = "send-email" => Script(card) = <<"send">>
        /\ card = "generate-otp" => Script(card) = <<"generate">>
        /\ card = "verify-otp" => Script(card) = <<"verify">>
        /\ card = "oversize" => Script(card) = <<"send-huge">>
        /\ card = "spoof" => Script(card) = <<"dispatch-otp">>
        /\ card = "dispatch" => Script(card) = <<"dispatch-email">>
    BY DEF Script
  <2>2. card \in {"send-email", "generate-otp", "verify-otp", "oversize", "spoof", "dispatch"}
    BY <1>1, <1>2 DEF AllCards
  <2>3. Len(Script(card)) = 1
    BY <2>1, <2>2
  <2>4. CallOf(card, 1, Script(card)[1], 1)
    BY <2>1, <2>2 DEF CallOf
  <2>. QED
    BY <2>3, <2>4
<1>3. CASE card = "cooldown"
  <2>1. Script(card) = <<"generate", "resend">>
    BY <1>3 DEF Script
  <2>2. Len(Script(card)) = 2 /\ Script(card)[1] = "generate" /\ Script(card)[2] = "resend"
    BY <2>1
  <2>3. CallOf(card, 1, "generate", 2) /\ CallOf(card, 2, "resend", 2)
    BY <1>3 DEF CallOf
  <2>4. \A call \in 1..2 : call = 1 \/ call = 2
    OBVIOUS
  <2>. QED
    BY <2>2, <2>3, <2>4
<1>4. CASE card = "max-attempts"
  <2> DEFINE tries == [i \in 1..MAX_ATTEMPT_TRIES |-> "verify"]
  <2>1. tries \in Seq({"generate", "verify"}) /\ Len(tries) = MAX_ATTEMPT_TRIES
    OBVIOUS
  <2>2. \A i \in 1..MAX_ATTEMPT_TRIES : tries[i] = "verify"
    OBVIOUS
  <2>3. Script(card) = <<"generate">> \o tries
    BY <1>4 DEF Script
  <2>4. <<"generate">> \in Seq({"generate", "verify"}) /\ Len(<<"generate">>) = 1
    OBVIOUS
  <2> HIDE DEF tries
  <2>5. Len(Script(card)) = 1 + MAX_ATTEMPT_TRIES
    BY <2>1, <2>3, <2>4
  <2>6. ASSUME NEW call \in 1..(1 + MAX_ATTEMPT_TRIES)
        PROVE  CallOf(card, call, Script(card)[call], 1 + MAX_ATTEMPT_TRIES)
    <3>1. CASE call = 1
      <4>1. Script(card)[call] = "generate"
        BY <2>1, <2>3, <2>4, <3>1
      <4>. QED
        BY <1>4, <3>1, <4>1 DEF CallOf
    <3>2. CASE call # 1
      <4>1. call \in 2..(1 + MAX_ATTEMPT_TRIES) /\ call - 1 \in 1..MAX_ATTEMPT_TRIES
        BY <3>2
      <4>2. Script(card)[call] = tries[call - 1]
        BY <2>1, <2>3, <2>4, <4>1
      <4>. QED
        BY <1>4, <2>2, <4>1, <4>2 DEF CallOf
    <3>. QED
      BY <3>1, <3>2
  <2>. QED
    BY <2>5, <2>6
<1>. QED
  BY <1>2, <1>3, <1>4

(* Where a fire of the page stands. *)
LEMMA AtCall ==
    ASSUME TypeOK, ScriptInv, NEW f \in DOMAIN fires
    PROVE  /\ LastCall(f) \in Nat \ {0} /\ fires[f].call \in 1..LastCall(f)
           /\ CallOf(fires[f].card, fires[f].call, Script(fires[f].card)[fires[f].call], LastCall(f))
<1>1. fires[f].card \in Cards
  BY FireType
<1>2. fires[f].call \in 1..LastCall(f)
  BY DEF ScriptInv
<1>. QED
  BY <1>1, <1>2, Scripted DEF LastCall

(* A row a service or the boundary logs says what it was logged for. *)
LEMMA RowSays ==
    ASSUME NEW f, NEW tenant, NEW channel \in {"email", "otp"}, NEW verb, NEW threw \in BOOLEAN,
           NEW r \in ServiceRow(f, tenant, channel, verb) \cup BoundaryRow(f, tenant, channel, threw)
    PROVE  /\ r.id = f /\ r.ts = 0 /\ r.fields["channel"] = channel
           /\ r.fields["purpose"] = (IF channel = "otp" THEN "login" ELSE "null")
           /\ r.fields["recipient"] = MaskedRecipient
BY DEF ServiceRow, BoundaryRow, LogRow, MkRow

-----------------------------------------------------------------------------
(* One fire moves: the others stay, and it keeps its card and its tenant. *)
Moves(f) ==
    /\ DOMAIN fires' = DOMAIN fires
    /\ \A h \in DOMAIN fires \ {f} : fires'[h] = fires[h]
    /\ fires'[f].card = fires[f].card /\ fires'[f].tenant = fires[f].tenant

(* Its call ends: with an answer, or without. *)
Ends(f, state, status) ==
    /\ Moves(f)
    /\ fires'[f].call = fires[f].call
    /\ fires'[f].state = state /\ fires'[f].status = status

LEMMA EndsCall ==
    ASSUME TypeOK, NEW f \in DOMAIN fires, NEW state, NEW status,
           fires' = [fires EXCEPT ![f].state = state, ![f].status = status]
    PROVE  Ends(f, state, status)
<1> DEFINE g == [fires[f] EXCEPT !.state = state, !.status = status]
<1>1. fires[f] \in FireRecord /\ DOMAIN fires = 1..Len(fires)
  BY FireType
<1>2. /\ g.card = fires[f].card /\ g.tenant = fires[f].tenant /\ g.call = fires[f].call
      /\ g.state = state /\ g.status = status
  BY <1>1 DEF FireRecord
<1>3. fires' = [fires EXCEPT ![f] = g]
  OBVIOUS
<1> HIDE DEF g
<1>4. fires \in Seq(FireRecord)
  BY DEF TypeOK
<1>. QED
  BY <1>1, <1>2, <1>3, <1>4 DEF Ends, Moves

(* What a fire under way changes is not what a card shows. *)
LEMMA MovesPage ==
    ASSUME IInv, PageInv, NEW f \in DOMAIN fires, Under(f), Moves(f),
           fires'[f].call \in 1..LastCall(f),
           shown' = shown, \A r \in log' \ log : r.id = f /\ FieldsOf(r, fires[f].card)
    PROVE  PageInv'
<1>1. ScriptInv'
  BY DEF PageInv, ScriptInv, Moves, LastCall
<1>2. ShownInv'
  <2> SUFFICES ASSUME NEW c \in Cards, shown[c] # 0
               PROVE  /\ fires'[shown[c]].card = c /\ fires'[shown[c]].state = "over"
                      /\ fires'[shown[c]].call = Len(Script(fires'[shown[c]].card))
    BY DEF ShownInv, LastCall
  <2>1. /\ fires[shown[c]].card = c /\ fires[shown[c]].state = "over"
        /\ fires[shown[c]].call = LastCall(shown[c])
    BY DEF PageInv, ShownInv
  <2>2. shown[c] \in DOMAIN fires
    <3>1. shown[c] \in 0..Len(fires) /\ DOMAIN fires = 1..Len(fires) /\ Len(fires) \in Nat
      BY DEF IInv, TypeOK
    <3>. QED
      BY <3>1
  <2>3. shown[c] # f
    BY <2>1 DEF Under
  <2>4. fires'[shown[c]] = fires[shown[c]]
    BY <2>2, <2>3 DEF Moves
  <2>. QED
    BY <2>1, <2>4 DEF LastCall
<1>3. FieldsInv'
  <2> SUFFICES ASSUME NEW r \in log' PROVE FieldsOf(r, fires'[r.id].card)
    BY DEF FieldsInv, FieldsOf
  <2>1. CASE r \in log
    <3>1. r.id \in DOMAIN fires /\ FieldsOf(r, fires[r.id].card)
      BY <2>1 DEF IInv, RowsOfFires, PageInv, FieldsInv
    <3>2. fires'[r.id].card = fires[r.id].card
      BY <3>1 DEF Moves
    <3>. QED
      BY <3>1, <3>2
  <2>2. CASE r \notin log
    BY <2>2 DEF Moves
  <2>. QED
    BY <2>1, <2>2
<1>. QED
  BY <1>1, <1>2, <1>3 DEF PageInv

(* A fire is over for good, and nothing of it is logged from then on. *)
LEMMA ResolvePage ==
    ASSUME IInv, PageInv, NEW f \in DOMAIN fires, Resolve(f)
    PROVE  PageInv'
<1>1. /\ TypeOK /\ DOMAIN fires = 1..Len(fires) /\ Len(fires) \in Nat
      /\ fires[f] \in FireRecord /\ fires[f].card \in Cards
  BY FireType DEF IInv, TypeOK
<1> DEFINE g == [fires[f] EXCEPT !.state = "over"]
<1>2. g.card = fires[f].card /\ g.call = fires[f].call /\ g.state = "over"
  BY <1>1 DEF FireRecord
<1>3. fires' = [fires EXCEPT ![f] = g]
  BY DEF Resolve
<1> HIDE DEF g
<1>4. /\ DOMAIN fires' = DOMAIN fires /\ fires'[f] = g
      /\ \A h \in DOMAIN fires : h # f => fires'[h] = fires[h]
  <2>1. fires \in Seq(FireRecord)
    BY <1>1 DEF TypeOK
  <2>. QED
    BY <1>1, <1>3, <2>1
<1>5. \A h \in DOMAIN fires : /\ fires'[h].card = fires[h].card
                              /\ fires'[h].call = fires[h].call
                              /\ fires[h].state = "over" => fires'[h].state = "over"
  BY <1>2, <1>4
<1>6. ScriptInv'
  BY <1>4, <1>5 DEF PageInv, ScriptInv, LastCall
<1>7. ShownInv'
  <2> SUFFICES ASSUME NEW c \in Cards, shown'[c] # 0
               PROVE  /\ fires'[shown'[c]].card = c /\ fires'[shown'[c]].state = "over"
                      /\ fires'[shown'[c]].call = Len(Script(fires'[shown'[c]].card))
    BY DEF ShownInv, LastCall
  <2>1. shown' = [shown EXCEPT ![fires[f].card] = f] /\ shown \in [Cards -> 0..Len(fires)]
    BY <1>1 DEF Resolve, TypeOK
  <2>2. CASE c = fires[f].card
    <3>1. shown'[c] = f
      BY <2>1, <2>2
    <3>2. fires[f].call = Len(Script(fires[f].card))
      BY DEF Resolve
    <3>. QED
      BY <1>2, <1>4, <2>2, <3>1, <3>2
  <2>3. CASE c # fires[f].card
    <3>1. shown'[c] = shown[c] /\ shown[c] \in DOMAIN fires
      BY <1>1, <2>1, <2>3
    <3>2. /\ fires[shown[c]].card = c /\ fires[shown[c]].state = "over"
          /\ fires[shown[c]].call = Len(Script(fires[shown[c]].card))
      BY <3>1 DEF PageInv, ShownInv, LastCall
    <3>. QED
      BY <1>5, <3>1, <3>2
  <2>. QED
    BY <2>2, <2>3
<1>8. FieldsInv'
  <2>1. log' = log
    BY DEF Resolve
  <2>. QED
    BY <1>5, <2>1 DEF IInv, RowsOfFires, PageInv, FieldsInv
<1>. QED
  BY <1>6, <1>7, <1>8 DEF PageInv

LEMMA FirePage ==
    ASSUME IInv, PageInv, NEW card \in Cards, Fire(card)
    PROVE  PageInv'
<1> DEFINE new == [card |-> card, tenant |-> TenantHeader(tenantId), call |-> 1,
                   state |-> "travelling", status |-> 0]
           n   == Len(fires) + 1
<1>1. new.card = card /\ new.call = 1
  OBVIOUS
<1>2. /\ fires' = Append(fires, new) /\ shown' = shown /\ log' = log
      /\ fires \in Seq(FireRecord) /\ DOMAIN fires = 1..Len(fires) /\ Len(fires) \in Nat
  BY DEF Fire, IInv, TypeOK
<1> HIDE DEF new
<1>3. /\ DOMAIN fires' = DOMAIN fires \cup {n} /\ fires'[n] = new
      /\ \A h \in DOMAIN fires : fires'[h] = fires[h]
  BY <1>2
<1> HIDE DEF n
<1>4. ScriptInv'
  <2> SUFFICES ASSUME NEW h \in DOMAIN fires'
               PROVE  fires'[h].call \in 1..Len(Script(fires'[h].card))
    BY DEF ScriptInv, LastCall
  <2>1. CASE h = n
    BY <1>1, <1>3, <2>1, Scripted
  <2>2. CASE h # n
    BY <1>3, <2>2 DEF PageInv, ScriptInv, LastCall
  <2>. QED
    BY <2>1, <2>2
<1>5. ShownInv'
  <2> SUFFICES ASSUME NEW c \in Cards, shown[c] # 0
               PROVE  /\ fires'[shown[c]].card = c /\ fires'[shown[c]].state = "over"
                      /\ fires'[shown[c]].call = Len(Script(fires'[shown[c]].card))
    BY <1>2 DEF ShownInv, LastCall
  <2>1. shown \in [Cards -> 0..Len(fires)]
    BY DEF IInv, TypeOK
  <2>2. shown[c] \in DOMAIN fires
    BY <1>2, <2>1
  <2>. QED
    BY <1>3, <2>2 DEF PageInv, ShownInv, LastCall
<1>6. FieldsInv'
  BY <1>2, <1>3 DEF IInv, RowsOfFires, PageInv, FieldsInv
<1>. QED
  BY <1>4, <1>5, <1>6 DEF PageInv

(* Every handler logs rows of the channel and the purpose of its card. *)
FittingRows(f, rows) == \A r \in rows : r.id = f /\ FieldsOf(r, fires[f].card)

LEMMA FitsCard ==
    ASSUME TypeOK, ScriptInv, NEW f \in DOMAIN fires, NEW tenant, NEW verb, NEW threw \in BOOLEAN,
           NEW channel \in {"email", "otp"},
           Script(fires[f].card)[fires[f].call] \in
             (IF channel = "email" THEN {"send", "dispatch-email"}
                                   ELSE {"generate", "resend", "dispatch-otp", "verify"})
    PROVE  FittingRows(f, ServiceRow(f, tenant, channel, verb)
                            \cup BoundaryRow(f, tenant, channel, threw))
<1> DEFINE card == fires[f].card
           op   == Script(card)[fires[f].call]
<1>1. CallOf(card, fires[f].call, op, LastCall(f))
  BY AtCall
<1>2. /\ op \in {"send", "dispatch-email"} => card \in {"send-email", "dispatch"}
      /\ op \in {"generate", "resend", "dispatch-otp", "verify"}
           => card \in {"generate-otp", "verify-otp", "spoof", "cooldown", "max-attempts"}
  <2> HIDE DEF card, op
  <2>. QED
    BY <1>1 DEF CallOf
<1>3. /\ ChannelTold(card) = channel
      /\ PurposeTold(card) = (IF channel = "otp" THEN "login" ELSE "null")
  <2>1. CASE channel = "email"
    <3>1. card \in {"send-email", "dispatch"}
      BY <1>2, <2>1
    <3>. QED
      BY <2>1, <3>1 DEF ChannelTold, PurposeTold
  <2>2. CASE channel = "otp"
    <3>1. card \in {"generate-otp", "verify-otp", "spoof", "cooldown", "max-attempts"}
      BY <1>2, <2>2
    <3>. QED
      BY <2>2, <3>1 DEF ChannelTold, PurposeTold
  <2>. QED
    BY <2>1, <2>2
<1> SUFFICES ASSUME NEW r \in ServiceRow(f, tenant, channel, verb)
                                \cup BoundaryRow(f, tenant, channel, threw)
             PROVE  r.id = f /\ FieldsOf(r, card)
  BY DEF FittingRows
<1>4. /\ r.id = f /\ r.ts = 0 /\ r.fields["channel"] = channel
      /\ r.fields["purpose"] = (IF channel = "otp" THEN "login" ELSE "null")
      /\ r.fields["recipient"] = MaskedRecipient
  BY RowSays
<1>. QED
  BY <1>3, <1>4 DEF FieldsOf

-----------------------------------------------------------------------------
(* What a call comes to, by its operation: the answer, the row that says so *)
(* and the code of the fire.  Nothing else in the service is touched.       *)

Logs(rows, verb) == \E r \in rows : r.fields["verb"] = verb

EmailOutcome(op, status, rows) ==
    /\ op \in {"send", "dispatch-email"}
    /\ status = 201 /\ Logs(rows, "sent") /\ UNCHANGED serviceVars

HugeOutcome(op, status) == op = "send-huge" /\ status = 413 /\ UNCHANGED serviceVars

GenerateOutcome(ref, op, status, rows) ==
    /\ op \in {"generate", "resend", "dispatch-otp"}
    /\ \/ /\ ref \notin cooldown
          /\ status = 201 /\ Logs(rows, "generated")
          /\ op = "dispatch-otp" => Logs(rows, "sent")
          /\ ref \in cooldown'
          /\ code'[ref].state = "active" /\ code'[ref].attempts = 0
       \/ /\ ref \in cooldown
          /\ status = 429 /\ Logs(rows, "cooldown_blocked")
          /\ UNCHANGED serviceVars

VerifyOutcome(ref, op, status, rows) ==
    /\ op = "verify"
    /\ cooldown' = cooldown
    /\ \/ /\ code[ref].state # "active"
          /\ status = 404 /\ Logs(rows, "failed") /\ code' = code
       \/ /\ code[ref].state = "active" /\ code[ref].attempts # MAX_ATTEMPTS
          /\ status = 401 /\ Logs(rows, "failed")
          /\ code'[ref].state = "active" /\ code'[ref].attempts = code[ref].attempts + 1
       \/ /\ code[ref].state = "active" /\ code[ref].attempts = MAX_ATTEMPTS
          /\ status = 429 /\ Logs(rows, "max_attempts_exceeded") /\ code' = code

Outcome(f, op, status, rows) ==
    \/ EmailOutcome(op, status, rows)
    \/ HugeOutcome(op, status)
    \/ GenerateOutcome(RefOf(f), op, status, rows)
    \/ VerifyOutcome(RefOf(f), op, status, rows)

OwnCodeOnly(f) ==
    \A ref \in Ref \ {RefOf(f)} :
        code'[ref] = code[ref] /\ (ref \in cooldown' <=> ref \in cooldown)

Answers(f, status, rows) ==
    /\ Answer(f, status, rows)
    /\ FittingRows(f, rows)
    /\ OwnCodeOnly(f)
    /\ Outcome(f, Script(fires[f].card)[fires[f].call], status, rows)

(* The service's operations on one reference. *)
LEMMA GenerateAt ==
    ASSUME ServiceTypeOK, NEW ref \in Ref, NEW answer, Generate(ref, answer)
    PROVE  /\ \A other \in Ref \ {ref} :
                 code'[other] = code[other] /\ (other \in cooldown' <=> other \in cooldown)
           /\ ref \in cooldown => answer = "cooldown" /\ UNCHANGED serviceVars
           /\ ref \notin cooldown => /\ answer = "issued" /\ ref \in cooldown'
                                     /\ code'[ref].state = "active" /\ code'[ref].attempts = 0
<1>1. CASE ref \in cooldown
  BY <1>1 DEF Generate, serviceVars
<1>2. CASE ref \notin cooldown
  <2> DEFINE new == [NoCode EXCEPT !.id = issued + 1, !.state = "active"]
  <2>1. /\ code' = [code EXCEPT ![ref] = new] /\ cooldown' = cooldown \cup {ref}
        /\ answer = "issued"
    BY <1>2 DEF Generate
  <2>2. new.state = "active" /\ new.attempts = 0
    BY DEF NoCode
  <2> HIDE DEF new
  <2>3. code \in [Ref -> Code]
    BY DEF ServiceTypeOK
  <2>4. code'[ref] = new /\ \A other \in Ref \ {ref} : code'[other] = code[other]
    BY <2>1, <2>3
  <2>. QED
    BY <1>2, <2>1, <2>2, <2>4
<1>. QED
  BY <1>1, <1>2

LEMMA VerifyAt ==
    ASSUME ServiceTypeOK, NEW ref \in Ref, NEW answer, Verify(ref, FALSE, answer)
    PROVE  /\ \A other \in Ref \ {ref} : code'[other] = code[other]
           /\ cooldown' = cooldown
           /\ \/ code[ref].state # "active" /\ answer = "not_found" /\ code' = code
              \/ /\ code[ref].state = "active" /\ code[ref].attempts = MAX_ATTEMPTS
                 /\ answer = "max_attempts" /\ code' = code
              \/ /\ code[ref].state = "active" /\ code[ref].attempts # MAX_ATTEMPTS
                 /\ answer = "invalid_code" /\ code'[ref].state = "active"
                 /\ code'[ref].attempts = code[ref].attempts + 1
<1>1. code \in [Ref -> Code] /\ code[ref] \in Code
  BY DEF ServiceTypeOK
<1>2. cooldown' = cooldown
  BY DEF Verify
<1>3. CASE code[ref].state # "active"
  <2>1. answer = "not_found"
    BY <1>3 DEF Verify
  <2>2. code' = code
    BY <2>1 DEF Verify
  <2>. QED
    BY <1>2, <1>3, <2>1, <2>2
<1>4. CASE code[ref].state = "active" /\ code[ref].attempts = MAX_ATTEMPTS
  <2>1. answer = "max_attempts"
    BY <1>4 DEF Verify, LockedOut
  <2>2. code' = code
    BY <2>1 DEF Verify
  <2>. QED
    BY <1>2, <1>4, <2>1, <2>2
<1>5. CASE code[ref].state = "active" /\ code[ref].attempts # MAX_ATTEMPTS
  <2> DEFINE new == [code[ref] EXCEPT !.attempts = @ + 1]
  <2>1. answer = "invalid_code"
    BY <1>5 DEF Verify, LockedOut
  <2>2. code' = [code EXCEPT ![ref] = new]
    BY <2>1 DEF Verify
  <2>3. new.state = "active" /\ new.attempts = code[ref].attempts + 1
    BY <1>1, <1>5 DEF Code
  <2> HIDE DEF new
  <2>4. code'[ref] = new /\ \A other \in Ref \ {ref} : code'[other] = code[other]
    BY <1>1, <2>2
  <2>. QED
    BY <1>2, <1>5, <2>1, <2>3, <2>4
<1>. QED
  BY <1>3, <1>4, <1>5

(* A service logs a row of its verb, and the boundary one of its own. *)
LEMMA ServiceLogs ==
    ASSUME NEW f, NEW tenant, NEW channel, NEW verb
    PROVE  Logs(ServiceRow(f, tenant, channel, verb), verb)
BY DEF Logs, ServiceRow, LogRow, MkRow

LEMMA BoundaryLogs ==
    ASSUME NEW f, NEW tenant, NEW channel
    PROVE  Logs(BoundaryRow(f, tenant, channel, FALSE), "sent")
BY DEF Logs, BoundaryRow, LogRow, MkRow

LEMMA HandleAnswers ==
    ASSUME TypeOK, ScriptInv, NEW f \in DOMAIN fires, Handle(f)
    PROVE  \E status \in Statuses : \E rows : Answers(f, status, rows)
<1> DEFINE op     == Script(fires[f].card)[fires[f].call]
           tenant == fires[f].tenant
<1>1. /\ ServiceTypeOK /\ tenant \in Tenants /\ RefOf(f) \in Ref
      /\ [RefOf(f) EXCEPT !.who.tenant = tenant] = RefOf(f)
      /\ ResolveTenantId(tenant) = tenant
      /\ \A forged : DispatchTenant(tenant, forged) = tenant
  <2>1. /\ ServiceTypeOK /\ tenant \in Tenants /\ RefOf(f) \in Ref
        /\ [RefOf(f) EXCEPT !.who.tenant = tenant] = RefOf(f)
    BY FireType DEF TypeOK
  <2>. QED
    BY <2>1, Trusted
<1>2. \/ HandleEmail(f, op) \/ HandleHuge(f, op)
      \/ HandleGenerate(f, op) \/ HandleVerify(f, op)
  BY DEF Handle
<1>3. ASSUME UNCHANGED serviceVars PROVE OwnCodeOnly(f)
  BY <1>3 DEF OwnCodeOnly, serviceVars
<1>4. ASSUME NEW verb, NEW threw \in BOOLEAN, NEW channel \in {"email", "otp"},
             op \in (IF channel = "email" THEN {"send", "dispatch-email"}
                                 ELSE {"generate", "resend", "dispatch-otp", "verify"})
      PROVE  FittingRows(f, ServiceRow(f, tenant, channel, verb)
                              \cup BoundaryRow(f, tenant, channel, threw))
  BY <1>4, FitsCard
<1>5. ASSUME HandleEmail(f, op) PROVE \E status \in Statuses : \E rows : Answers(f, status, rows)
  <2> DEFINE rows == ServiceRow(f, tenant, "email", "sent")
                       \cup (IF op = "send" THEN {} ELSE BoundaryRow(f, tenant, "email", FALSE))
  <2>1. /\ Answer(f, 201, rows) /\ UNCHANGED serviceVars
        /\ op \in {"send", "dispatch-email"}
    BY <1>1, <1>5 DEF HandleEmail
  <2> HIDE DEF op, tenant
  <2>2. FittingRows(f, rows)
    <3>1. FittingRows(f, ServiceRow(f, tenant, "email", "sent")
                           \cup BoundaryRow(f, tenant, "email", FALSE))
      BY <1>4, <2>1
    <3>. QED
      BY <3>1 DEF FittingRows
  <2>3. Logs(rows, "sent")
    <3>1. Logs(ServiceRow(f, tenant, "email", "sent"), "sent")
      BY ServiceLogs
    <3>. QED
      BY <3>1 DEF Logs
  <2> HIDE DEF rows
  <2>4. Outcome(f, op, 201, rows)
    BY <2>1, <2>3 DEF Outcome, EmailOutcome
  <2>5. Answers(f, 201, rows)
    BY <1>3, <2>1, <2>2, <2>4 DEF Answers, op
  <2>. QED
    BY <2>5 DEF Statuses
<1>6. ASSUME HandleHuge(f, op) PROVE \E status \in Statuses : \E rows : Answers(f, status, rows)
  <2>1. Answer(f, 413, {}) /\ UNCHANGED serviceVars /\ op = "send-huge"
    BY <1>6 DEF HandleHuge
  <2> HIDE DEF op
  <2>2. Outcome(f, op, 413, {}) /\ FittingRows(f, {})
    BY <2>1 DEF Outcome, HugeOutcome, FittingRows
  <2>3. Answers(f, 413, {})
    BY <1>3, <2>1, <2>2 DEF Answers, op
  <2>. QED
    BY <2>3 DEF Statuses
<1>7. ASSUME HandleGenerate(f, op) PROVE \E status \in Statuses : \E rows : Answers(f, status, rows)
  <2> DEFINE rows(answer) ==
        ServiceRow(f, tenant, "otp", VerbOf(answer))
          \cup (IF op = "dispatch-otp" THEN BoundaryRow(f, tenant, "otp", answer = "cooldown") ELSE {})
  <2>1. PICK answer \in {"issued", "cooldown"} :
          /\ Generate(RefOf(f), answer)
          /\ Answer(f, StatusOf(answer), rows(answer))
    BY <1>1, <1>7 DEF HandleGenerate
  <2>2. op \in {"generate", "resend", "dispatch-otp"}
    BY <1>7 DEF HandleGenerate
  <2> HIDE DEF op, tenant
  <2>3. FittingRows(f, rows(answer))
    <3>1. FittingRows(f, ServiceRow(f, tenant, "otp", VerbOf(answer))
                           \cup BoundaryRow(f, tenant, "otp", answer = "cooldown"))
      BY <1>4, <2>2
    <3>. QED
      BY <3>1 DEF FittingRows
  <2>4. OwnCodeOnly(f)
    BY <1>1, <2>1, GenerateAt DEF OwnCodeOnly
  <2>5. Logs(rows(answer), VerbOf(answer))
    BY ServiceLogs DEF Logs
  <2>6. GenerateOutcome(RefOf(f), op, StatusOf(answer), rows(answer))
    <3>1. CASE RefOf(f) \in cooldown
      <4>1. answer = "cooldown" /\ UNCHANGED serviceVars
        BY <1>1, <2>1, <3>1, GenerateAt
      <4>2. StatusOf(answer) = 429 /\ VerbOf(answer) = "cooldown_blocked"
        BY <4>1 DEF StatusOf, VerbOf
      <4> HIDE DEF rows
      <4>. QED
        BY <2>2, <2>5, <3>1, <4>1, <4>2 DEF GenerateOutcome
    <3>2. CASE RefOf(f) \notin cooldown
      <4>1. /\ answer = "issued" /\ RefOf(f) \in cooldown'
            /\ code'[RefOf(f)].state = "active" /\ code'[RefOf(f)].attempts = 0
        BY <1>1, <2>1, <3>2, GenerateAt
      <4>2. StatusOf(answer) = 201 /\ VerbOf(answer) = "generated"
        BY <4>1 DEF StatusOf, VerbOf
      <4>3. op = "dispatch-otp" => Logs(rows(answer), "sent")
        <5> HAVE op = "dispatch-otp"
        <5>1. (answer = "cooldown") = FALSE
          BY <4>1
        <5>2. BoundaryRow(f, tenant, "otp", FALSE) \subseteq rows(answer)
          BY <5>1
        <5>. QED
          BY <5>2, BoundaryLogs DEF Logs
      <4> HIDE DEF rows
      <4>. QED
        BY <2>2, <2>5, <3>2, <4>1, <4>2, <4>3 DEF GenerateOutcome
    <3>. QED
      BY <3>1, <3>2
  <2> HIDE DEF rows
  <2>7. Answers(f, StatusOf(answer), rows(answer))
    BY <2>1, <2>3, <2>4, <2>6 DEF Answers, Outcome, op
  <2>8. StatusOf(answer) \in Statuses
    BY DEF StatusOf, Statuses
  <2>. QED
    BY <2>7, <2>8
<1>8. ASSUME HandleVerify(f, op) PROVE \E status \in Statuses : \E rows : Answers(f, status, rows)
  <2> DEFINE rows(answer) == ServiceRow(f, tenant, "otp", VerbOf(answer))
  <2>1. PICK answer \in {"invalid_code", "not_found", "max_attempts"} :
          /\ Verify(RefOf(f), FALSE, answer)
          /\ Answer(f, StatusOf(answer), rows(answer))
    BY <1>1, <1>8 DEF HandleVerify
  <2>2. op = "verify"
    BY <1>8 DEF HandleVerify
  <2> HIDE DEF op, tenant
  <2>3. FittingRows(f, rows(answer))
    <3>1. FittingRows(f, ServiceRow(f, tenant, "otp", VerbOf(answer))
                           \cup BoundaryRow(f, tenant, "otp", FALSE))
      BY <1>4, <2>2
    <3>. QED
      BY <3>1 DEF FittingRows
  <2>4. OwnCodeOnly(f)
    BY <1>1, <2>1, VerifyAt DEF OwnCodeOnly
  <2>5. Logs(rows(answer), VerbOf(answer))
    BY ServiceLogs
  <2>6. /\ answer = "not_found" => StatusOf(answer) = 404 /\ VerbOf(answer) = "failed"
        /\ answer = "invalid_code" => StatusOf(answer) = 401 /\ VerbOf(answer) = "failed"
        /\ answer = "max_attempts" => /\ StatusOf(answer) = 429
                                      /\ VerbOf(answer) = "max_attempts_exceeded"
    BY DEF StatusOf, VerbOf
  <2> HIDE DEF rows
  <2>7. VerifyOutcome(RefOf(f), op, StatusOf(answer), rows(answer))
    <3>1. /\ cooldown' = cooldown
          /\ \/ code[RefOf(f)].state # "active" /\ answer = "not_found" /\ code' = code
             \/ /\ code[RefOf(f)].state = "active" /\ code[RefOf(f)].attempts = MAX_ATTEMPTS
                /\ answer = "max_attempts" /\ code' = code
             \/ /\ code[RefOf(f)].state = "active" /\ code[RefOf(f)].attempts # MAX_ATTEMPTS
                /\ answer = "invalid_code" /\ code'[RefOf(f)].state = "active"
                /\ code'[RefOf(f)].attempts = code[RefOf(f)].attempts + 1
      BY <1>1, <2>1, VerifyAt
    <3>. QED
      BY <2>2, <2>5, <2>6, <3>1 DEF VerifyOutcome
  <2>8. Answers(f, StatusOf(answer), rows(answer))
    BY <2>1, <2>3, <2>4, <2>7 DEF Answers, Outcome, op
  <2>9. StatusOf(answer) \in Statuses
    BY <2>6 DEF Statuses
  <2>. QED
    BY <2>8, <2>9
<1> HIDE DEF op
<1>. QED
  BY <1>2, <1>5, <1>6, <1>7, <1>8

-----------------------------------------------------------------------------
LEMMA AnswerEnds ==
    ASSUME TypeOK, NEW f \in DOMAIN fires, NEW status, NEW rows, Answer(f, status, rows)
    PROVE  /\ Ends(f, "answered", status)
           /\ log' = log \cup rows \/ (log' = log /\ f \in spoiled')
           /\ spoiled \subseteq spoiled' /\ shown' = shown
<1>1. Ends(f, "answered", status)
  BY EndsCall DEF Answer
<1>. QED
  BY <1>1 DEF Answer

LEMMA NextCallMoves ==
    ASSUME TypeOK, ScriptInv, NEW f \in DOMAIN fires, NextCall(f)
    PROVE  /\ Moves(f) /\ fires'[f].state = "travelling" /\ fires'[f].status = fires[f].status
           /\ fires'[f].call = fires[f].call + 1 /\ fires'[f].call \in 1..LastCall(f)
<1> DEFINE call == fires[f].call + 1
           g    == [fires[f] EXCEPT !.call = call, !.state = "travelling"]
<1>1. fires[f] \in FireRecord /\ fires \in Seq(FireRecord) /\ DOMAIN fires = 1..Len(fires)
  BY FireType DEF TypeOK
<1>2. fires' = [fires EXCEPT ![f] = g]
  BY DEF NextCall
<1>3. call \in 1..LastCall(f)
  <2>1. fires[f].call < LastCall(f)
    BY DEF NextCall, LastCall
  <2>. QED
    BY <2>1, AtCall
<1> HIDE DEF call
<1>4. /\ g.card = fires[f].card /\ g.tenant = fires[f].tenant /\ g.status = fires[f].status
      /\ g.call = call /\ g.state = "travelling"
  BY <1>1 DEF FireRecord
<1> HIDE DEF g
<1>5. fires'[f] = g /\ Moves(f)
  BY <1>1, <1>2, <1>4 DEF Moves
<1>. QED
  BY <1>3, <1>4, <1>5 DEF call

LEMMA UntouchedPage ==
    ASSUME PageInv, UNCHANGED <<fires, shown, log>>
    PROVE  PageInv'
BY DEF PageInv, ScriptInv, ShownInv, FieldsInv, FieldsOf, LastCall

LEMMA RejectMoves ==
    ASSUME TypeOK, NEW f \in DOMAIN fires, Reject(f)
    PROVE  Moves(f) /\ fires'[f].call = fires[f].call
<1> DEFINE g == [fires[f] EXCEPT !.state = "over"]
<1>1. fires[f] \in FireRecord /\ fires \in Seq(FireRecord) /\ DOMAIN fires = 1..Len(fires)
  BY FireType DEF TypeOK
<1>2. fires' = [fires EXCEPT ![f] = g]
  BY DEF Reject
<1>3. g.card = fires[f].card /\ g.tenant = fires[f].tenant /\ g.call = fires[f].call
  BY <1>1 DEF FireRecord
<1> HIDE DEF g
<1>. QED
  BY <1>1, <1>2, <1>3 DEF Moves

LEMMA PageKept ==
    ASSUME IInv, PageInv, [Next]_vars
    PROVE  PageInv'
<1>1. TypeOK /\ ScriptInv
  BY DEF IInv, PageInv
<1>2. ASSUME NEW f \in DOMAIN fires, Handle(f) PROVE PageInv'
  <2>0. PICK status \in Statuses : \E rows : Answers(f, status, rows)
    BY <1>1, <1>2, HandleAnswers
  <2>1. PICK rows : Answers(f, status, rows)
    BY <2>0
  <2>2. Answer(f, status, rows) /\ FittingRows(f, rows)
    BY <2>1 DEF Answers
  <2>3. /\ Ends(f, "answered", status) /\ shown' = shown
        /\ log' = log \cup rows \/ log' = log
    BY <1>1, <2>2, AnswerEnds
  <2>4. Under(f)
    BY <1>2 DEF Handle, Under
  <2>5. Moves(f) /\ fires'[f].call \in 1..LastCall(f)
    BY <1>1, <2>3, AtCall DEF Ends
  <2>6. \A r \in log' \ log : r.id = f /\ FieldsOf(r, fires[f].card)
    BY <2>2, <2>3 DEF FittingRows
  <2>. QED
    BY <2>3, <2>4, <2>5, <2>6, MovesPage
<1>3. ASSUME NEW f \in DOMAIN fires, LuckyGuess(f) PROVE PageInv'
  <2> DEFINE rows == ServiceRow(f, fires[f].tenant, "otp", "verified")
  <2>1. /\ Ends(f, "answered", 200) /\ Under(f) /\ shown' = shown
    BY <1>1, <1>3, EndsCall DEF LuckyGuess, Under
  <2>2. log' = log \cup rows
    <3>1. ResolveTenantId(fires[f].tenant) = fires[f].tenant
      BY <1>1, FireType, Trusted
    <3>. QED
      BY <1>3, <3>1 DEF LuckyGuess
  <2>3. FittingRows(f, rows)
    <3>1. Script(fires[f].card)[fires[f].call] = "verify"
      BY <1>3 DEF LuckyGuess
    <3>2. FittingRows(f, rows \cup BoundaryRow(f, fires[f].tenant, "otp", FALSE))
      BY <1>1, <3>1, FitsCard
    <3>. QED
      BY <3>2 DEF FittingRows
  <2> HIDE DEF rows
  <2>4. Moves(f) /\ fires'[f].call \in 1..LastCall(f)
    BY <1>1, <2>1, AtCall DEF Ends
  <2>5. \A r \in log' \ log : r.id = f /\ FieldsOf(r, fires[f].card)
    BY <2>2, <2>3 DEF FittingRows
  <2>. QED
    BY <2>1, <2>4, <2>5, MovesPage
<1>4. ASSUME NEW f \in DOMAIN fires, Refuse(f) \/ Lose(f) PROVE PageInv'
  <2>0. PICK from \in {"travelling", "answered"}, to \in {"answered", "thrown"} :
          \E status : Fault(f, from, to, status)
    BY <1>4 DEF Refuse, Lose
  <2>1. PICK status : Fault(f, from, to, status)
    BY <2>0
  <2>2. Ends(f, to, status) /\ Under(f) /\ shown' = shown /\ log' = log
    BY <1>1, <2>1, EndsCall DEF Fault, Under
  <2>3. Moves(f) /\ fires'[f].call \in 1..LastCall(f)
    BY <1>1, <2>2, AtCall DEF Ends
  <2>. QED
    BY <2>2, <2>3, MovesPage
<1>5. ASSUME NEW f \in DOMAIN fires, NextCall(f) PROVE PageInv'
  <2>1. Under(f) /\ shown' = shown /\ log' = log
    BY <1>5 DEF NextCall, Under
  <2>. QED
    BY <1>1, <1>5, <2>1, NextCallMoves, MovesPage
<1>6. ASSUME NEW f \in DOMAIN fires, Reject(f) PROVE PageInv'
  <2>1. Under(f) /\ shown' = shown /\ log' = log
    BY <1>6 DEF Reject, Under
  <2>2. Moves(f) /\ fires'[f].call \in 1..LastCall(f)
    BY <1>1, <1>6, RejectMoves, AtCall
  <2>. QED
    BY <2>1, <2>2, MovesPage
<1>7. ASSUME NEW t \in TENANTS \cup {Unset}, SelectTenant(t) PROVE PageInv'
  BY <1>7, UntouchedPage DEF SelectTenant
<1>8. ASSUME NEW f \in DOMAIN fires, LapseUnder(f) PROVE PageInv'
  BY <1>8, UntouchedPage DEF LapseUnder
<1>9. ASSUME UNCHANGED vars PROVE PageInv'
  BY <1>9, UntouchedPage DEF vars, triggerVars
<1>10. ASSUME NEW c \in Cards, Fire(c) PROVE PageInv'
  BY <1>10, FirePage
<1>11. ASSUME NEW f \in DOMAIN fires, Resolve(f) PROVE PageInv'
  BY <1>11, ResolvePage
<1>. QED
  BY <1>2, <1>3, <1>4, <1>5, <1>6, <1>7, <1>8, <1>9, <1>10, <1>11 DEF Next

LEMMA InitPage == Init => PageInv
BY DEF Init, PageInv, ScriptInv, ShownInv, FieldsInv

LEMMA PageInvariance == Spec => [](IInv /\ PageInv)
BY InitIInv, NextKeeps, InitPage, PageKept, PTL DEF Spec

-----------------------------------------------------------------------------
(* A link's window ends at the half minute under way: less than a quantum   *)
(* before the click.                                                        *)
LEMMA WindowOpens ==
    ASSUME NEW now \in Nat
    PROVE  Quantized(now) \in Nat /\ Quantized(now) <= now /\ now < Quantized(now) + NOW_QUANTUM
<1> DEFINE q == now \div NOW_QUANTUM
<1>1. NOW_QUANTUM \in Nat \ {0}
  OBVIOUS
<1>2. q \in Nat
  BY <1>1
<1>3. q * NOW_QUANTUM <= now /\ now < q * NOW_QUANTUM + NOW_QUANTUM
  BY <1>1
<1>4. q * NOW_QUANTUM \in Nat
  <2> HIDE DEF q
  <2>. QED
    BY <1>1, <1>2
<1>5. Quantized(now) = q * NOW_QUANTUM
  BY DEF Quantized
<1> HIDE DEF q
<1>. QED
  BY <1>3, <1>4, <1>5

(* The link of a card asks for every row that has the channel and the       *)
(* purpose the card tells of, is of the default tenant and is older than a  *)
(* quantum and younger than the window.                                     *)
LEMMA LinkAsks ==
    ASSUME NEW card \in Cards, NEW r \in Row, FieldsOf(r, card),
           NEW s \in 0..(NOW_QUANTUM - 1), NEW age \in NOW_QUANTUM..RANGE_MS[DEFAULT_RANGE]
    PROVE  Asks(LinkOf(card), s + age, [r EXCEPT !.ts = s]) <=> r.tenant = "default"
<1> DEFINE now    == s + age
           row    == [r EXCEPT !.ts = s]
           width  == RANGE_MS[DEFAULT_RANGE]
           pinned == Pivot(card)
           filter == [c \in Fields |-> IF c \in DOMAIN pinned THEN pinned[c] ELSE Unset]
           url    == LinkOf(card)
           query  == CompileQuery(url, now)
<1>1. /\ Unset \notin Presets /\ DEFAULT_RANGE \in Presets /\ width \in Nat
      /\ NOW_QUANTUM \in Nat /\ s \in Nat /\ age \in Nat
      /\ NOW_QUANTUM <= age /\ age <= width /\ now \in Nat
  OBVIOUS
<1>2. /\ url.tenantId = Unset /\ url.range = DEFAULT_RANGE /\ url.fields = filter
      /\ url.source = Unset /\ url.q = Unset
  BY DEF LinkOf, ExplorerHref, BlankUrl
<1>3. query.tenant = Unset /\ query.q = Unset /\ query.source = Unset
  <2> HIDE DEF url
  <2>. QED
    BY <1>2 DEF CompileQuery
<1>4. query.from <= s /\ s <= query.to
  <2>1. Window(url, now) = [from |-> Quantized(now) - width, to |-> Quantized(now)]
    <3> HIDE DEF url, now
    <3>. QED
      BY <1>1, <1>2 DEF Window, UsesRelativePreset, ResolveWindow
  <2>2. query.from = Quantized(now) - width /\ query.to = Quantized(now)
    <3> HIDE DEF url, now
    <3>. QED
      BY <2>1 DEF CompileQuery
  <2>3. Quantized(now) \in Nat /\ Quantized(now) <= now /\ now < Quantized(now) + NOW_QUANTUM
    <3> HIDE DEF now
    <3>. QED
      BY <1>1, WindowOpens
  <2> HIDE DEF query, width
  <2>. QED
    BY <1>1, <2>2, <2>3
<1>5. \A c \in Fields : query.fields[c] # Unset => r.fields[c] = query.fields[c]
  <2> SUFFICES ASSUME NEW c \in Fields, query.fields[c] # Unset
               PROVE  r.fields[c] = query.fields[c]
    OBVIOUS
  <2>1. query.fields[c] \in {filter[c], Unset}
    <3> HIDE DEF url, filter
    <3>. QED
      BY <1>2 DEF CompileQuery, Known
  <2>2. query.fields[c] = filter[c] /\ filter[c] # Unset
    <3> HIDE DEF query, filter
    <3>. QED
      BY <2>1
  <2>3. c \in DOMAIN pinned /\ filter[c] = pinned[c]
    <3> HIDE DEF query, pinned
    <3>. QED
      BY <2>2
  <2>4. r.fields[c] = pinned[c]
    <3>1. CASE PurposeTold(card) = "null"
      <4>1. pinned = [recipient |-> MaskedRecipient, channel |-> ChannelTold(card)]
        BY <3>1 DEF Pivot
      <4>. QED
        BY <2>3, <4>1 DEF FieldsOf
    <3>2. CASE PurposeTold(card) # "null"
      <4>1. pinned = [recipient |-> MaskedRecipient, channel |-> ChannelTold(card),
                      purpose |-> PurposeTold(card)]
        BY <3>2 DEF Pivot
      <4>. QED
        BY <2>3, <4>1 DEF FieldsOf
    <3>. QED
      BY <3>1, <3>2
  <2>. QED
    BY <2>2, <2>3, <2>4
<1>6. ResolveTenantId(RbacHeader(query)) = "default"
  <2> HIDE DEF query
  <2>. QED
    BY <1>3 DEF ResolveTenantId, RbacHeader
<1>7. row.ts = s /\ row.tenant = r.tenant /\ row.fields = r.fields /\ SourcePredicate(Unset, row)
  BY DEF Row, SourcePredicate
<1> HIDE DEF query, row
<1>8. Where(query, "default", query.from, query.to, row) <=> r.tenant = "default"
  BY <1>3, <1>4, <1>5, <1>7 DEF Where
<1>. QED
  BY <1>6, <1>8 DEF Asks, query, row, url, now

LEMMA LinksFit == IInv /\ PageInv => LinkFitsRows
<1> SUFFICES ASSUME IInv, PageInv, NEW r \in log, NEW s \in 0..(NOW_QUANTUM - 1),
                    NEW age \in NOW_QUANTUM..RANGE_MS[DEFAULT_RANGE]
             PROVE  Asks(LinkOf(fires[r.id].card), s + age, [r EXCEPT !.ts = s])
                      <=> r.tenant = ResolveTenantId(Unset)
  BY DEF LinkFitsRows
<1>1. TypeOK /\ r.id \in DOMAIN fires
  BY DEF IInv, RowsOfFires
<1>2. fires[r.id].card \in Cards /\ r \in Row
  BY <1>1, FireType DEF TypeOK
<1>3. FieldsOf(r, fires[r.id].card)
  BY DEF PageInv, FieldsInv
<1>4. ResolveTenantId(Unset) = "default"
  BY DEF ResolveTenantId
<1>. QED
  BY <1>2, <1>3, <1>4, LinkAsks

(* What the link of a card finds of the rows of its fires, those of the     *)
(* calls before the last and the boundary's included, while they are inside *)
(* its window: all of them under the default tenant, none under another     *)
(* (trigger-card.tsx, explorer-link.ts).                                    *)
THEOREM LinkFits == Spec => []LinkFitsRows
BY PageInvariance, LinksFit, PTL

-----------------------------------------------------------------------------
(* The outcome of a fire.                                                   *)
(*                                                                          *)
(* Every fire has an address of its own, so its code and its cooldown are   *)
(* what its own calls have made of them: none before the first, and         *)
(* afterwards as many wrong guesses as verify calls, up to the lockout.     *)
(* The last answer is then the one on the label.  Nothing is claimed of a   *)
(* fire that a fault, a lapse or a lucky guess has touched.                 *)

(* How many calls of a fire the API has answered. *)
Handled(f) == IF fires[f].state = "travelling" THEN fires[f].call - 1 ELSE fires[f].call

Untold(ref) == code[ref].state # "active" /\ ref \notin cooldown

Guessed(ref, n) == code[ref].state = "active" /\ code[ref].attempts \in {n, MAX_ATTEMPTS}

Announces(f, r) ==
    /\ r.id = f
    /\ r.fields["verb"] = VerbTold(fires[f].card)
    /\ r.fields["channel"] = ChannelTold(fires[f].card)
    /\ r.fields["purpose"] = PurposeTold(fires[f].card)

Concluded(f) ==
    /\ fires[f].status \in StatusTold(fires[f].card)
    /\ fires[f].card # "oversize" => \E r \in log : Announces(f, r)

OnTrack(f) ==
    /\ fires[f].state # "thrown"
    /\ Handled(f) = 0 => Untold(RefOf(f))
    /\ fires[f].card = "cooldown" /\ Handled(f) = 1 => RefOf(f) \in cooldown
    /\ fires[f].card = "max-attempts" /\ Handled(f) > 0 => Guessed(RefOf(f), Handled(f) - 1)
    /\ Handled(f) = LastCall(f) => Concluded(f)

TrackInv == \A f \in DOMAIN fires \ spoiled : OnTrack(f)

RefFor(tenant, rcpt) == [who |-> [tenant |-> tenant, rcpt |-> rcpt], purpose |-> "login"]

(* An address no fire has used yet. *)
UnusedInv ==
    \A tenant \in Tenants, rcpt \in Recipients \ DOMAIN fires : Untold(RefFor(tenant, rcpt))

OutcomeInv == UnusedInv /\ TrackInv

-----------------------------------------------------------------------------
(* Two fires never share a reference. *)
LEMMA OwnRef ==
    ASSUME TypeOK, NEW f \in DOMAIN fires
    PROVE  /\ RefOf(f) \in Ref
           /\ \A h \in DOMAIN fires \ {f} : RefOf(h) \in Ref \ {RefOf(f)}
           /\ \A tenant \in Tenants, rcpt \in Recipients \ {f} :
                 RefFor(tenant, rcpt) \in Ref \ {RefOf(f)}
<1>1. \A h \in DOMAIN fires : RefOf(h) \in Ref /\ RefOf(h).who.rcpt = h
  <2> TAKE h \in DOMAIN fires
  <2>1. RefOf(h) \in Ref
    BY FireType
  <2>2. RefOf(h).who.rcpt = h
    BY DEF RefOf, FreshOtpRecipient
  <2>. QED
    BY <2>1, <2>2
<1>2. ASSUME NEW tenant \in Tenants, NEW rcpt \in Recipients
      PROVE  RefFor(tenant, rcpt) \in Ref /\ RefFor(tenant, rcpt).who.rcpt = rcpt
  <2>1. RefFor(tenant, rcpt).who.rcpt = rcpt
    BY DEF RefFor
  <2>2. [tenant |-> tenant, rcpt |-> rcpt] \in Addressees
    OBVIOUS
  <2>3. RefFor(tenant, rcpt) \in Ref
    BY <2>2 DEF RefFor, Ref
  <2>. QED
    BY <2>1, <2>3
<1>. QED
  BY <1>1, <1>2

(* Only the fire that moves, its code and the log are touched: what holds   *)
(* of the others goes on holding.                                           *)
LEMMA OthersOnTrack ==
    ASSUME TypeOK, OutcomeInv, NEW f \in DOMAIN fires, Moves(f), OwnCodeOnly(f),
           log \subseteq log', spoiled \subseteq spoiled', f \in spoiled' \/ OnTrack(f)'
    PROVE  OutcomeInv'
<1>1. UnusedInv'
  <2> SUFFICES ASSUME NEW tenant \in Tenants, NEW rcpt \in Recipients \ DOMAIN fires
               PROVE  Untold(RefFor(tenant, rcpt))'
    BY DEF UnusedInv, Moves
  <2> DEFINE ref == RefFor(tenant, rcpt)
  <2>1. Untold(ref)
    BY DEF OutcomeInv, UnusedInv
  <2>2. ref \in Ref \ {RefOf(f)}
    BY OwnRef
  <2>3. ref' = ref
    BY DEF RefFor
  <2>4. code'[ref] = code[ref] /\ (ref \in cooldown' <=> ref \in cooldown)
    BY <2>2 DEF OwnCodeOnly
  <2> HIDE DEF ref
  <2>5. code'[ref].state # "active" /\ ref \notin cooldown'
    BY <2>1, <2>4 DEF Untold
  <2>. QED
    BY <2>5 DEF Untold, ref, RefFor
<1>2. TrackInv'
  <2> SUFFICES ASSUME NEW h \in DOMAIN fires \ spoiled', h # f
               PROVE  OnTrack(h)'
    BY DEF TrackInv, Moves
  <2>1. fires'[h] = fires[h]
    BY DEF Moves
  <2>2. OnTrack(h)
    BY DEF OutcomeInv, TrackInv
  <2>3. RefOf(h)' = RefOf(h) /\ Handled(h)' = Handled(h) /\ LastCall(h)' = LastCall(h)
    BY <2>1 DEF RefOf, FreshOtpRecipient, Handled, LastCall
  <2>4. code'[RefOf(h)] = code[RefOf(h)] /\ (RefOf(h) \in cooldown' <=> RefOf(h) \in cooldown)
    BY OwnRef DEF OwnCodeOnly
  <2>5. Untold(RefOf(h)) => Untold(RefOf(h))'
    BY <2>3, <2>4 DEF Untold
  <2>6. ASSUME Guessed(RefOf(h), Handled(h) - 1) PROVE Guessed(RefOf(h), Handled(h) - 1)'
    BY <2>3, <2>4, <2>6 DEF Guessed
  <2>7. Concluded(h) => Concluded(h)'
    BY <2>1 DEF Concluded, Announces
  <2>. QED
    BY <2>1, <2>2, <2>3, <2>4, <2>5, <2>6, <2>7 DEF OnTrack
<1>. QED
  BY <1>1, <1>2 DEF OutcomeInv

-----------------------------------------------------------------------------
(* The answer to a call, card by card. *)

(* A row of the fire that says what the card tells is logged with the answer. *)
LEMMA Concludes ==
    ASSUME NEW f \in DOMAIN fires, NEW status, NEW rows,
           Ends(f, "answered", status), FittingRows(f, rows), log' = log \cup rows,
           status \in StatusTold(fires[f].card),
           fires[f].card # "oversize" => Logs(rows, VerbTold(fires[f].card))
    PROVE  Concluded(f)'
<1>1. fires'[f].status = status /\ fires'[f].card = fires[f].card
  BY DEF Ends, Moves
<1>2. ASSUME fires[f].card # "oversize" PROVE \E r \in log' : Announces(f, r)'
  <2>1. PICK r \in rows : r.fields["verb"] = VerbTold(fires[f].card)
    BY <1>2 DEF Logs
  <2>2. r \in log' /\ r.id = f /\ FieldsOf(r, fires[f].card)
    BY <2>1 DEF FittingRows
  <2>. QED
    BY <1>1, <2>1, <2>2 DEF Announces, FieldsOf
<1>. QED
  BY <1>1, <1>2 DEF Concluded

LEMMA HandleOnTrack ==
    ASSUME TypeOK, ScriptInv, OutcomeInv, NEW f \in DOMAIN fires, Handle(f), f \notin spoiled'
    PROVE  OnTrack(f)'
<1> DEFINE card == fires[f].card
           call == fires[f].call
           op   == Script(card)[call]
           ref  == RefOf(f)
<1>0. PICK status \in Statuses : \E rows : Answers(f, status, rows)
  BY HandleAnswers
<1>1. PICK rows : Answers(f, status, rows)
  BY <1>0
<1>2. /\ Ends(f, "answered", status) /\ FittingRows(f, rows) /\ Outcome(f, op, status, rows)
      /\ log' = log \cup rows /\ f \notin spoiled
  <2>1. Answer(f, status, rows) /\ FittingRows(f, rows) /\ Outcome(f, op, status, rows)
    BY <1>1 DEF Answers
  <2>. QED
    BY <2>1, AnswerEnds
<1>3. /\ LastCall(f) \in Nat \ {0} /\ call \in 1..LastCall(f)
      /\ CallOf(card, call, op, LastCall(f))
  BY AtCall
<1>4. /\ fires[f].state = "travelling" /\ Handled(f) = call - 1
      /\ fires'[f].card = card /\ fires'[f].state = "answered" /\ fires'[f].call = call
      /\ Handled(f)' = call /\ LastCall(f)' = LastCall(f) /\ RefOf(f)' = ref
  BY <1>2 DEF Handle, Handled, LastCall, RefOf, FreshOtpRecipient, Ends, Moves
<1>5. OnTrack(f)
  BY <1>2 DEF OutcomeInv, TrackInv
<1>6. card \in Cards /\ ref \in Ref /\ code \in [Ref -> Code]
  BY FireType DEF TypeOK, ServiceTypeOK
<1>7. code[ref].attempts \in 0..MAX_ATTEMPTS
  BY <1>6 DEF Code
<1>8. call = 1 => Untold(ref)
  BY <1>3, <1>4, <1>5 DEF OnTrack
<1>9. ASSUME card = "cooldown", call = 2 PROVE ref \in cooldown
  BY <1>4, <1>5, <1>9 DEF OnTrack
<1>10. ASSUME card = "max-attempts", call > 1 PROVE Guessed(ref, call - 2)
  <2>1. Handled(f) > 0 /\ Handled(f) - 1 = call - 2
    BY <1>3, <1>4, <1>10
  <2>. QED
    BY <1>5, <1>10, <2>1 DEF OnTrack
(* The answer at the last call, the lock after the cooldown card's first, the *)
(* guesses counted for the lockout card.                                      *)
<1>11. ASSUME \/ call # LastCall(f)
              \/ /\ status \in StatusTold(card)
                 /\ card # "oversize" => Logs(rows, VerbTold(card)),
              card = "cooldown" /\ call = 1 => ref \in cooldown',
              card = "max-attempts" => /\ code'[ref].state = "active"
                                       /\ code'[ref].attempts \in {call - 1, MAX_ATTEMPTS}
       PROVE  OnTrack(f)'
  <2>1. call = LastCall(f) => Concluded(f)'
    BY <1>2, <1>11, Concludes
  <2>2. call # 0 /\ call > 0
    BY <1>3
  <2> HIDE DEF call, card, ref
  <2>3. card = "max-attempts" => Guessed(RefOf(f), Handled(f) - 1)'
    BY <1>4, <1>11 DEF Guessed
  <2>. QED
    BY <1>4, <1>11, <2>1, <2>2, <2>3 DEF OnTrack
<1> HIDE DEF op, ref, call, card
<1>12. CASE op \in {"send", "dispatch-email"}
  <2>1. card \in {"send-email", "dispatch"}
    BY <1>3, <1>12 DEF CallOf
  <2>2. status = 201 /\ Logs(rows, "sent")
    BY <1>2, <1>12 DEF Outcome, EmailOutcome, HugeOutcome, GenerateOutcome, VerifyOutcome
  <2>3. VerbTold(card) = "sent" /\ 201 \in StatusTold(card)
    BY <2>1 DEF VerbTold, StatusTold
  <2>. QED
    BY <1>11, <2>1, <2>2, <2>3
<1>13. CASE op = "send-huge"
  <2>1. card = "oversize"
    BY <1>3, <1>13 DEF CallOf
  <2>2. status = 413
    BY <1>2, <1>13 DEF Outcome, EmailOutcome, HugeOutcome, GenerateOutcome, VerifyOutcome
  <2>3. 413 \in StatusTold(card)
    BY <2>1 DEF StatusTold
  <2>. QED
    BY <1>11, <2>1, <2>2, <2>3
<1>14. CASE op \in {"generate", "resend", "dispatch-otp"}
  <2>1. GenerateOutcome(ref, op, status, rows)
    BY <1>2, <1>14 DEF Outcome, EmailOutcome, HugeOutcome, VerifyOutcome, ref
  <2>2. \/ card \in {"generate-otp", "spoof", "cooldown", "max-attempts"} /\ call = 1
           /\ op = (IF card = "spoof" THEN "dispatch-otp" ELSE "generate")
        \/ card = "cooldown" /\ call = 2 /\ LastCall(f) = 2
    BY <1>3, <1>14 DEF CallOf
  <2>3. CASE call = 1
    <3>1. /\ status = 201 /\ Logs(rows, "generated") /\ ref \in cooldown'
          /\ op = "dispatch-otp" => Logs(rows, "sent")
          /\ code'[ref].state = "active" /\ code'[ref].attempts = 0
      BY <1>8, <2>1, <2>3 DEF GenerateOutcome, Untold
    <3>2. code'[ref].attempts \in {call - 1, MAX_ATTEMPTS}
      BY <2>3, <3>1
    <3>3. CASE card = "generate-otp"
      <4>1. VerbTold(card) = "generated" /\ 201 \in StatusTold(card)
        BY <3>3 DEF VerbTold, StatusTold
      <4>. QED
        BY <1>11, <3>1, <3>3, <4>1
    <3>4. CASE card = "spoof"
      <4>1. VerbTold(card) = "sent" /\ 201 \in StatusTold(card)
        BY <3>4 DEF VerbTold, StatusTold
      <4>2. op = "dispatch-otp"
        BY <2>2, <3>4
      <4>. QED
        BY <1>11, <3>1, <3>4, <4>1, <4>2
    <3>5. CASE card \in {"cooldown", "max-attempts"}
      <4>1. call # LastCall(f)
        BY <1>3, <2>3, <3>5 DEF CallOf
      <4>. QED
        BY <1>11, <3>1, <3>2, <4>1
    <3>. QED
      BY <2>2, <2>3, <3>3, <3>4, <3>5
  <2>4. CASE call # 1
    <3>1. card = "cooldown" /\ call = 2 /\ ref \in cooldown
      BY <1>9, <2>2, <2>4
    <3>2. status = 429 /\ Logs(rows, "cooldown_blocked")
      BY <2>1, <3>1 DEF GenerateOutcome
    <3>3. VerbTold(card) = "cooldown_blocked" /\ 429 \in StatusTold(card)
      BY <3>1 DEF VerbTold, StatusTold
    <3>. QED
      BY <1>11, <3>1, <3>2, <3>3
  <2>. QED
    BY <2>3, <2>4
<1>15. CASE op = "verify"
  <2>1. VerifyOutcome(ref, op, status, rows)
    BY <1>2, <1>15 DEF Outcome, EmailOutcome, HugeOutcome, GenerateOutcome, ref
  <2>2. \/ card = "verify-otp" /\ call = 1
        \/ card = "max-attempts" /\ call \in 2..LastCall(f) /\ LastCall(f) = 1 + MAX_ATTEMPT_TRIES
    BY <1>3, <1>15 DEF CallOf
  <2>3. CASE card = "verify-otp"
    <3>1. code[ref].state # "active"
      BY <1>8, <2>2, <2>3 DEF Untold
    <3>2. status = 404 /\ Logs(rows, "failed")
      BY <2>1, <3>1 DEF VerifyOutcome
    <3>3. VerbTold(card) = "failed" /\ 404 \in StatusTold(card)
      BY <2>3 DEF VerbTold, StatusTold
    <3>. QED
      BY <1>11, <2>3, <3>2, <3>3
  <2>4. CASE card = "max-attempts"
    <3>1. call \in 2..LastCall(f) /\ LastCall(f) = 1 + MAX_ATTEMPT_TRIES
      BY <2>2, <2>4
    <3>2. /\ code[ref].state = "active"
          /\ code[ref].attempts = call - 2 \/ code[ref].attempts = MAX_ATTEMPTS
      BY <1>10, <2>4, <3>1 DEF Guessed
    <3>3. /\ code'[ref].state = "active"
          /\ code'[ref].attempts = call - 1 \/ code'[ref].attempts = MAX_ATTEMPTS
      <4>1. CASE code[ref].attempts = MAX_ATTEMPTS
        BY <2>1, <3>2, <4>1 DEF VerifyOutcome
      <4>2. CASE code[ref].attempts # MAX_ATTEMPTS
        <5>1. code'[ref].state = "active" /\ code'[ref].attempts = code[ref].attempts + 1
          BY <2>1, <3>2, <4>2 DEF VerifyOutcome
        <5>2. call \in Int /\ code[ref].attempts = call - 2
          BY <3>1, <3>2, <4>2
        <5>3. code[ref].attempts + 1 = call - 1
          BY <5>2
        <5>. QED
          BY <5>1, <5>3
      <4>. QED
        BY <4>1, <4>2
    <3>4. ASSUME call = LastCall(f)
          PROVE  status = 429 /\ Logs(rows, "max_attempts_exceeded")
      <4>1. call - 2 >= MAX_ATTEMPTS
        BY <3>1, <3>4
      <4>2. code[ref].attempts = MAX_ATTEMPTS
        BY <1>7, <3>2, <4>1
      <4>. QED
        BY <2>1, <3>2, <4>2 DEF VerifyOutcome
    <3>5. VerbTold(card) = "max_attempts_exceeded" /\ 429 \in StatusTold(card)
      BY <2>4 DEF VerbTold, StatusTold
    <3>. QED
      BY <1>11, <2>4, <3>3, <3>4, <3>5
  <2>. QED
    BY <2>2, <2>3, <2>4
<1>. QED
  BY <1>3, <1>12, <1>13, <1>14, <1>15 DEF CallOf

-----------------------------------------------------------------------------
(* The other steps of a fire, and the fires that begin. *)

LEMMA SameCode ==
    ASSUME UNCHANGED serviceVars, NEW f
    PROVE  OwnCodeOnly(f)
BY DEF OwnCodeOnly, serviceVars

(* A fire that moves without an answer and that nothing has touched. *)
LEMMA StaysOnTrack ==
    ASSUME NEW f \in DOMAIN fires, Moves(f), OnTrack(f),
           UNCHANGED <<serviceVars, log>>, fires'[f].state # "thrown",
           fires'[f].status = fires[f].status, Handled(f)' = Handled(f)
    PROVE  OnTrack(f)'
<1>1. RefOf(f)' = RefOf(f) /\ LastCall(f)' = LastCall(f) /\ fires'[f].card = fires[f].card
  BY DEF RefOf, FreshOtpRecipient, LastCall, Moves
<1>2. Untold(RefOf(f))' <=> Untold(RefOf(f))
  BY <1>1 DEF Untold, serviceVars
<1>3. Guessed(RefOf(f), Handled(f) - 1)' <=> Guessed(RefOf(f), Handled(f) - 1)
  BY <1>1 DEF Guessed, serviceVars
<1>4. Concluded(f)' <=> Concluded(f)
  BY <1>1 DEF Concluded, Announces
<1>. QED
  BY <1>1, <1>2, <1>3, <1>4 DEF OnTrack, serviceVars

LEMMA FireOnTrack ==
    ASSUME TypeOK, ScriptInv, OutcomeInv, NEW card \in Cards, Fire(card)
    PROVE  OutcomeInv'
<1> DEFINE new == [card |-> card, tenant |-> TenantHeader(tenantId), call |-> 1,
                   state |-> "travelling", status |-> 0]
           n   == Len(fires) + 1
<1>1. new.card = card /\ new.call = 1 /\ new.state = "travelling" /\ new.tenant \in Tenants
  BY DEF TypeOK, TenantHeader, TENANTS
<1>2. /\ fires' = Append(fires, new) /\ Len(fires) < MaxFires
      /\ UNCHANGED <<serviceVars, log, spoiled>>
      /\ fires \in Seq(FireRecord) /\ DOMAIN fires = 1..Len(fires) /\ Len(fires) \in Nat
  BY DEF Fire, TypeOK
<1> HIDE DEF new
<1>3. /\ DOMAIN fires' = DOMAIN fires \cup {n} /\ fires'[n] = new
      /\ \A h \in DOMAIN fires : fires'[h] = fires[h]
      /\ n \in Recipients \ DOMAIN fires
  BY <1>2 DEF Recipients
<1> HIDE DEF n
<1>4. UnusedInv'
  <2> SUFFICES ASSUME NEW tenant \in Tenants, NEW rcpt \in Recipients \ DOMAIN fires'
               PROVE  Untold(RefFor(tenant, rcpt))'
    BY DEF UnusedInv
  <2>1. Untold(RefFor(tenant, rcpt))
    BY <1>3 DEF OutcomeInv, UnusedInv
  <2>. QED
    BY <1>2, <2>1 DEF Untold, RefFor, serviceVars
<1>5. TrackInv'
  <2> SUFFICES ASSUME NEW h \in DOMAIN fires' \ spoiled'
               PROVE  OnTrack(h)'
    BY DEF TrackInv
  <2>1. CASE h \in DOMAIN fires
    <3>1. fires'[h] = fires[h]
      BY <1>3, <2>1
    <3>2. OnTrack(h)
      BY <1>2, <2>1 DEF OutcomeInv, TrackInv
    <3>3. RefOf(h)' = RefOf(h) /\ Handled(h)' = Handled(h) /\ LastCall(h)' = LastCall(h)
      BY <3>1 DEF RefOf, FreshOtpRecipient, Handled, LastCall
    <3>4. Concluded(h)' <=> Concluded(h)
      BY <1>2, <3>1 DEF Concluded, Announces
    <3>5. Untold(RefOf(h))' <=> Untold(RefOf(h))
      BY <1>2, <3>3 DEF Untold, serviceVars
    <3>6. Guessed(RefOf(h), Handled(h) - 1)' <=> Guessed(RefOf(h), Handled(h) - 1)
      BY <1>2, <3>3 DEF Guessed, serviceVars
    <3>7. cooldown' = cooldown
      BY <1>2 DEF serviceVars
    <3>. QED
      BY <3>1, <3>2, <3>3, <3>4, <3>5, <3>6, <3>7 DEF OnTrack
  <2>2. CASE h \notin DOMAIN fires
    <3>1. h = n
      BY <1>3, <2>2
    <3>2. fires'[h] = new
      BY <1>3, <3>1
    <3>3. Handled(h)' = 0
      BY <1>1, <3>2 DEF Handled
    <3>4. LastCall(h)' \in Nat \ {0}
      BY <1>1, <3>2, Scripted DEF LastCall
    <3>5. Untold(RefOf(h))'
      <4>1. RefOf(h)' = RefFor(new.tenant, n)
        BY <3>1, <3>2 DEF RefOf, RefFor, FreshOtpRecipient
      <4>2. Untold(RefFor(new.tenant, n))
        BY <1>1, <1>3 DEF OutcomeInv, UnusedInv
      <4>. QED
        BY <1>2, <4>1, <4>2 DEF Untold, serviceVars
    <3>6. fires'[h].state # "thrown"
      BY <1>1, <3>2
    <3>. QED
      BY <3>3, <3>4, <3>5, <3>6 DEF OnTrack
  <2>. QED
    BY <2>1, <2>2
<1>. QED
  BY <1>4, <1>5 DEF OutcomeInv

LEMMA LapseOnTrack ==
    ASSUME TypeOK, OutcomeInv, NEW f \in DOMAIN fires, LapseUnder(f)
    PROVE  OutcomeInv'
<1>1. code \in [Ref -> Code]
  BY DEF TypeOK, ServiceTypeOK
<1>2. OwnCodeOnly(f)
  BY <1>1 DEF LapseUnder, Lapse, OwnCodeOnly
<1>3. Moves(f)
  BY DEF LapseUnder, Moves
<1>4. log' = log /\ spoiled \subseteq spoiled' /\ f \in spoiled'
  BY DEF LapseUnder
<1>. QED
  BY <1>2, <1>3, <1>4, OthersOnTrack

LEMMA UntouchedTrack ==
    ASSUME OutcomeInv, UNCHANGED <<serviceVars, fires, log, spoiled>>
    PROVE  OutcomeInv'
<1>1. UnusedInv'
  BY DEF OutcomeInv, UnusedInv, Untold, RefFor, serviceVars
<1>2. TrackInv'
  BY DEF OutcomeInv, TrackInv, OnTrack, Concluded, Announces, Handled, LastCall, Untold, Guessed,
         RefOf, FreshOtpRecipient, serviceVars
<1>. QED
  BY <1>1, <1>2 DEF OutcomeInv

LEMMA OverMoves ==
    ASSUME TypeOK, NEW f \in DOMAIN fires, fires' = [fires EXCEPT ![f].state = "over"]
    PROVE  /\ Moves(f) /\ fires'[f].call = fires[f].call /\ fires'[f].state = "over"
           /\ fires'[f].status = fires[f].status
<1> DEFINE g == [fires[f] EXCEPT !.state = "over"]
<1>1. fires[f] \in FireRecord /\ fires \in Seq(FireRecord) /\ DOMAIN fires = 1..Len(fires)
  BY FireType DEF TypeOK
<1>2. fires' = [fires EXCEPT ![f] = g]
  OBVIOUS
<1>3. /\ g.card = fires[f].card /\ g.tenant = fires[f].tenant /\ g.call = fires[f].call
      /\ g.state = "over" /\ g.status = fires[f].status
  BY <1>1 DEF FireRecord
<1> HIDE DEF g
<1>. QED
  BY <1>1, <1>2, <1>3 DEF Moves

LEMMA OutcomeKept ==
    ASSUME IInv, PageInv, OutcomeInv, [Next]_vars
    PROVE  OutcomeInv'
<1>1. TypeOK /\ ScriptInv
  BY DEF IInv, PageInv
<1>2. ASSUME NEW f \in DOMAIN fires, Handle(f) PROVE OutcomeInv'
  <2>0. PICK status \in Statuses : \E rows : Answers(f, status, rows)
    BY <1>1, <1>2, HandleAnswers
  <2>1. PICK rows : Answers(f, status, rows)
    BY <2>0
  <2>2. Answer(f, status, rows) /\ OwnCodeOnly(f)
    BY <2>1 DEF Answers
  <2>3. Ends(f, "answered", status) /\ log \subseteq log' /\ spoiled \subseteq spoiled'
    BY <1>1, <2>2, AnswerEnds
  <2>4. Moves(f)
    BY <2>3 DEF Ends
  <2>5. f \in spoiled' \/ OnTrack(f)'
    BY <1>1, <1>2, HandleOnTrack
  <2>. QED
    BY <1>1, <2>2, <2>3, <2>4, <2>5, OthersOnTrack
<1>3. ASSUME NEW f \in DOMAIN fires, LuckyGuess(f) PROVE OutcomeInv'
  <2>1. /\ Ends(f, "answered", 200) /\ log \subseteq log'
        /\ spoiled \subseteq spoiled' /\ f \in spoiled'
    BY <1>1, <1>3, EndsCall DEF LuckyGuess
  <2>2. OwnCodeOnly(f)
    <3>1. code \in [Ref -> Code] /\ Verify(RefOf(f), TRUE, "valid")
      BY <1>1, <1>3 DEF LuckyGuess, TypeOK, ServiceTypeOK
    <3>2. cooldown' = cooldown
      BY <3>1 DEF Verify
    <3>3. code' = [code EXCEPT ![RefOf(f)].validated = TRUE]
      BY <3>1 DEF Verify
    <3>. QED
      BY <3>1, <3>2, <3>3 DEF OwnCodeOnly
  <2>3. Moves(f)
    BY <2>1 DEF Ends
  <2>. QED
    BY <1>1, <2>1, <2>2, <2>3, OthersOnTrack
<1>4. ASSUME NEW f \in DOMAIN fires, Refuse(f) \/ Lose(f) PROVE OutcomeInv'
  <2>0. PICK from \in {"travelling", "answered"}, to \in {"answered", "thrown"} :
          \E status : Fault(f, from, to, status)
    BY <1>4 DEF Refuse, Lose
  <2>1. PICK status : Fault(f, from, to, status)
    BY <2>0
  <2>2. /\ Ends(f, to, status) /\ log' = log /\ UNCHANGED serviceVars
        /\ spoiled \subseteq spoiled' /\ f \in spoiled'
    BY <1>1, <2>1, EndsCall DEF Fault
  <2>3. Moves(f) /\ OwnCodeOnly(f)
    BY <2>2, SameCode DEF Ends
  <2>. QED
    BY <1>1, <2>2, <2>3, OthersOnTrack
(* What a fire does between two answers leaves what it has handled. *)
<1>5. ASSUME NEW f \in DOMAIN fires, Moves(f), UNCHANGED <<serviceVars, log, spoiled>>,
             fires[f].state # "thrown" => /\ fires'[f].state # "thrown"
                                          /\ fires'[f].status = fires[f].status
                                          /\ Handled(f)' = Handled(f)
      PROVE  OutcomeInv'
  <2>1. f \in spoiled' \/ OnTrack(f)'
    <3> SUFFICES ASSUME f \notin spoiled PROVE OnTrack(f)'
      BY <1>5
    <3>1. OnTrack(f)
      BY DEF OutcomeInv, TrackInv
    <3>2. fires[f].state # "thrown"
      BY <3>1 DEF OnTrack
    <3>. QED
      BY <1>5, <3>1, <3>2, StaysOnTrack
  <2>. QED
    BY <1>1, <1>5, <2>1, SameCode, OthersOnTrack
<1>6. ASSUME NEW f \in DOMAIN fires, NextCall(f) PROVE OutcomeInv'
  <2>1. /\ Moves(f) /\ fires'[f].state = "travelling" /\ fires'[f].status = fires[f].status
        /\ fires'[f].call = fires[f].call + 1
    BY <1>1, <1>6, NextCallMoves
  <2>2. fires[f].state = "answered" /\ UNCHANGED <<serviceVars, log, spoiled>>
    BY <1>6 DEF NextCall
  <2>3. Handled(f)' = Handled(f)
    <3>1. fires[f].call \in Int
      BY <1>1, AtCall
    <3>. QED
      BY <2>1, <2>2, <3>1 DEF Handled
  <2>. QED
    BY <1>5, <2>1, <2>2, <2>3
<1>7. ASSUME NEW f \in DOMAIN fires, Resolve(f) PROVE OutcomeInv'
  <2>1. /\ Moves(f) /\ fires'[f].call = fires[f].call /\ fires'[f].state = "over"
        /\ fires'[f].status = fires[f].status
    BY <1>1, <1>7, OverMoves DEF Resolve
  <2>2. fires[f].state = "answered" /\ UNCHANGED <<serviceVars, log, spoiled>>
    BY <1>7 DEF Resolve
  <2>3. Handled(f)' = Handled(f)
    BY <2>1, <2>2 DEF Handled
  <2>. QED
    BY <1>5, <2>1, <2>2, <2>3
<1>8. ASSUME NEW f \in DOMAIN fires, Reject(f) PROVE OutcomeInv'
  <2>1. Moves(f)
    BY <1>1, <1>8, OverMoves DEF Reject
  <2>2. fires[f].state = "thrown" /\ UNCHANGED <<serviceVars, log, spoiled>>
    BY <1>8 DEF Reject
  <2>. QED
    BY <1>5, <2>1, <2>2
<1>9. ASSUME NEW t \in TENANTS \cup {Unset}, SelectTenant(t) PROVE OutcomeInv'
  BY <1>9, UntouchedTrack DEF SelectTenant
<1>10. ASSUME UNCHANGED vars PROVE OutcomeInv'
  BY <1>10, UntouchedTrack DEF vars, triggerVars
<1>11. ASSUME NEW c \in Cards, Fire(c) PROVE OutcomeInv'
  BY <1>1, <1>11, FireOnTrack
<1>12. ASSUME NEW f \in DOMAIN fires, LapseUnder(f) PROVE OutcomeInv'
  BY <1>1, <1>12, LapseOnTrack
<1>. QED
  BY <1>2, <1>3, <1>4, <1>6, <1>7, <1>8, <1>9, <1>10, <1>11, <1>12 DEF Next

LEMMA InitOutcome == Init => OutcomeInv
<1> SUFFICES ASSUME Init PROVE OutcomeInv
  OBVIOUS
<1>1. \A ref \in Ref : code[ref].state = "none" /\ ref \notin cooldown
  BY DEF Init, ServiceInit, NoCode
<1>2. UnusedInv
  <2> SUFFICES ASSUME NEW tenant \in Tenants, NEW rcpt \in Recipients
               PROVE  Untold(RefFor(tenant, rcpt))
    BY DEF UnusedInv
  <2>1. [tenant |-> tenant, rcpt |-> rcpt] \in Addressees
    OBVIOUS
  <2>2. RefFor(tenant, rcpt) \in Ref
    BY <2>1 DEF RefFor, Ref
  <2>. QED
    BY <1>1, <2>2 DEF Untold
<1>3. TrackInv
  BY DEF Init, TrackInv
<1>. QED
  BY <1>2, <1>3 DEF OutcomeInv

LEMMA OutcomeInvariance == Spec => [](IInv /\ PageInv /\ OutcomeInv)
BY InitIInv, NextKeeps, InitPage, PageKept, InitOutcome, OutcomeKept, PTL DEF Spec

(* A card shows an untouched fire at its last answer. *)
LEMMA ShownConcludes ==
    ASSUME IInv, PageInv, OutcomeInv, NEW c \in Cards, Shown(c)
    PROVE  fires[shown[c]].card = c /\ Concluded(shown[c])
<1> DEFINE f == shown[c]
<1>1. f # 0 /\ f \notin spoiled
  BY DEF Shown
<1>2. f \in DOMAIN fires
  <2>1. f \in 0..Len(fires) /\ DOMAIN fires = 1..Len(fires) /\ Len(fires) \in Nat
    BY DEF IInv, TypeOK
  <2>. QED
    BY <1>1, <2>1
<1>3. fires[f].card = c /\ fires[f].state = "over" /\ fires[f].call = LastCall(f)
  BY <1>1 DEF PageInv, ShownInv
<1>4. OnTrack(f) /\ Handled(f) = LastCall(f)
  BY <1>1, <1>2, <1>3 DEF OutcomeInv, TrackInv, Handled
<1>. QED
  BY <1>3, <1>4 DEF OnTrack

LEMMA LabelsMatch == IInv /\ PageInv /\ OutcomeInv => OutcomeMatchesLabel
<1> SUFFICES ASSUME IInv, PageInv, OutcomeInv, NEW c \in Cards, Shown(c)
             PROVE  /\ fires[shown[c]].status \in StatusTold(c)
                    /\ Toast(c, fires[shown[c]].status) = "success"
  BY DEF OutcomeMatchesLabel
<1>1. fires[shown[c]].status \in StatusTold(c)
  BY ShownConcludes DEF Concluded
<1>2. c \in AllCards
  OBVIOUS
<1>3. \/ IsExpectedError(c)
      \/ c \in {"send-email", "generate-otp", "spoof", "dispatch"}
  BY <1>2 DEF AllCards, IsExpectedError
<1>4. c \in {"send-email", "generate-otp", "spoof", "dispatch"} => StatusTold(c) = {201}
  BY DEF StatusTold
<1>. QED
  BY <1>1, <1>3, <1>4 DEF Toast, Ok

LEMMA RowsTold == IInv /\ PageInv /\ OutcomeInv => AuditedAsTold
<1> SUFFICES ASSUME IInv, PageInv, OutcomeInv, NEW c \in Cards \ {"oversize"}, Shown(c)
             PROVE  \E r \in log : /\ r.id = shown[c]
                                   /\ r.fields["verb"] = VerbTold(c)
                                   /\ r.fields["channel"] = ChannelTold(c)
                                   /\ r.fields["purpose"] = PurposeTold(c)
  BY DEF AuditedAsTold
<1>. QED
  BY ShownConcludes DEF Concluded, Announces

(* Whatever else is fired, and in whatever order, a card that no fault has  *)
(* touched ends with the outcome on its label and toasts it as a success    *)
(* (trigger-api.ts: "a card's outcome always matches its label regardless   *)
(* of firing order").                                                       *)
THEOREM OutcomesMatch == Spec => []OutcomeMatchesLabel
BY OutcomeInvariance, LabelsMatch, PTL

(* By the time a card shows its result, the row it announces -- its verb,   *)
(* channel and purpose -- has been logged for that very fire (TriggerResult *)
(* of trigger-api.ts).                                                      *)
THEOREM RowsAreAsTold == Spec => []AuditedAsTold
BY OutcomeInvariance, RowsTold, PTL

=============================================================================

------------------------ MODULE EmailDeliveryProofs ------------------------
(***************************************************************************)
(* Emails under way, proved for any number of requests, tenants, inputs    *)
(* and faults, and whichever renderer is wired.                            *)
(*                                                                         *)
(* What a row says is fixed when it is written, what a request is told     *)
(* later: the invariant ties both to the outcome of the delivery (Told,    *)
(* Written) and the tenant of both to the request's own header (Owned).    *)
(***************************************************************************)
EXTENDS EmailDelivery, FiniteSetTheorems, TLAPS

USE DeliveryAssumption, InputsAssumption

CallRecord == [state : States, route : Routes \cup {"none"}, input : AnyInput,
               header : Headers, tenant : Headers, outcome : Outcomes \cup {"none"}, status : Nat]

Handled(c) == calls[c].state \in {"accepted", "delivered", "answered"}

(* The adapter serving a request reads that request. *)
Owned ==
    \A c \in Calls :
        /\ calls[c].state # "idle" => injected[c] = calls[c].header
        /\ calls[c].state \in {"accepted", "delivered"} \/ calls[c].tenant # Unset =>
              Handled(c) /\ calls[c].tenant = ResolveTenantId(calls[c].header)

(* A mail that was taken is at the server, and what is told is the outcome. *)
Told ==
    \A c \in Calls :
        /\ calls[c].outcome = "taken" => Taken(c)
        /\ calls[c].outcome # "none" => calls[c].state \in {"delivered", "answered"}
        /\ calls[c].state = "delivered" => calls[c].outcome # "none"
        /\ calls[c].status = 201 => calls[c].outcome = "taken"
        /\ calls[c].state = "answered" /\ calls[c].tenant # Unset /\ ~Unsendable(calls[c].input) =>
              calls[c].status = IF calls[c].outcome = "taken" THEN 201 ELSE 502
        /\ calls[c].state = "answered" /\ calls[c].outcome = "taken" => calls[c].status = 201

(* A row is its request's, and says how that was delivered. *)
Verb(c) == IF calls[c].outcome = "taken" THEN "sent" ELSE "failed"
ServiceRow(c) == Row(c, "service", Verb(c))

Truthful(row) ==
    /\ row.call \in Calls /\ Handled(row.call)
    /\ row.tenant = ResolveTenantId(calls[row.call].header)
    /\ row.verb = "sent" <=> calls[row.call].outcome = "taken"
    /\ row.source = "interceptor" => calls[row.call].state = "answered"
    /\ row.source = "service" => calls[row.call].outcome # "none" /\ row = ServiceRow(row.call)

Written ==
    /\ \A row \in log \cup writing : Truthful(row)
    /\ faults = 0 => \A c \in Calls : calls[c].outcome # "none" =>
          \E row \in log \cup writing : row.call = c /\ row.source = "service"

(* A mail at the server is what its request asked for, rendered. *)
Posted ==
    /\ \A c \in Calls : calls[c].state \in {"accepted", "delivered"} =>
          calls[c].input.kind # "invalid"
    /\ \A mail \in mailbox : /\ Handled(mail.call)
                             /\ calls[mail.call].input.kind # "invalid"
                             /\ calls[mail.call].outcome \in {"taken", "lost"}
                             /\ mail.body = BodyOf(calls[mail.call].input)

IInv == TypeOK /\ Owned /\ Told /\ Written /\ Posted

-----------------------------------------------------------------------------
LEMMA InitIInv == Init => IInv
<1> SUFFICES ASSUME Init PROVE IInv
  OBVIOUS
<1>1. Idle \in CallRecord
  BY DEF Idle, CallRecord, States, AnyInput, Headers
<1>2. TypeOK
  BY <1>1 DEF Init, TypeOK, CallRecord, Headers
<1>. QED
  BY <1>2 DEF Init, IInv, Owned, Told, Written, Posted, Idle, Handled

(* A tenant resolved is never blank. *)
LEMMA Resolves == ASSUME NEW header \in Headers
                  PROVE  ResolveTenantId(header) \in Tenants /\ ResolveTenantId(header) # Unset
BY DEF Headers, ResolveTenantId

(* The steps that give one request a new record g and write its rows. *)
LEMMA CallStep ==
    ASSUME TypeOK, NEW c \in Calls, NEW g \in CallRecord, calls' = [calls EXCEPT ![c] = g]
    PROVE  /\ calls' \in [Calls -> CallRecord]
           /\ calls'[c] = g
           /\ \A d \in Calls \ {c} : calls'[d] = calls[d]
BY DEF TypeOK, CallRecord

LEMMA CallType == ASSUME TypeOK, NEW c \in Calls
                  PROVE  calls[c] \in CallRecord /\ calls[c].header \in Headers
                         /\ calls[c].tenant \in Headers /\ calls[c].input \in AnyInput
BY DEF TypeOK, CallRecord

-----------------------------------------------------------------------------
(* A request that has not been handled has no row and no outcome. *)
LEMMA Unhandled ==
    ASSUME IInv, NEW c \in Calls, calls[c].state \in {"idle", "arrived"}
    PROVE  /\ \A row \in log \cup writing : row.call # c
           /\ calls[c].outcome = "none"
           /\ calls[c].tenant = Unset
BY DEF IInv, Written, Truthful, Told, Owned, Handled

(* The steps before the delivery: they write no row, and c had none. *)
Early(c, g) ==
    /\ calls[c].state \in {"idle", "arrived"}
    /\ calls' = [calls EXCEPT ![c] = g]
    /\ UNCHANGED <<renderer, mailbox, writing, log, faults>>
    /\ injected' \in [Calls -> Headers] /\ injected'[c] = g.header
    /\ \A d \in Calls \ {c} : injected'[d] = injected[d]
    /\ g.outcome = "none" /\ g.status # 201
    /\ \/ g.state \in {"arrived", "answered"} /\ g.tenant = Unset
       \/ /\ g.state = "accepted" /\ g.tenant = ResolveTenantId(g.header)
          /\ g.input.kind # "invalid"

LEMMA EarlyStep ==
    ASSUME IInv, NEW c \in Calls, NEW g \in CallRecord, Early(c, g)
    PROVE  IInv'
<1> USE DEF Early
<1>1. /\ calls' \in [Calls -> CallRecord]
      /\ calls'[c] = g
      /\ \A d \in Calls \ {c} : calls'[d] = calls[d]
  BY CallStep DEF IInv
<1>2. TypeOK'
  BY <1>1 DEF IInv, TypeOK, CallRecord
<1>3. Owned'
  BY <1>1 DEF IInv, Owned, Handled
<1>4. Told'
  BY <1>1 DEF IInv, Told, Taken
<1>5. Written'
  <2>1. ASSUME NEW row \in log \cup writing PROVE Truthful(row)'
    <3>1. Truthful(row) /\ row.call # c
      BY Unhandled DEF IInv, Written
    <3>2. row.call \in Calls /\ calls'[row.call] = calls[row.call]
      BY <1>1, <3>1 DEF Truthful
    <3>3. ServiceRow(row.call)' = ServiceRow(row.call) /\ Handled(row.call)' = Handled(row.call)
      BY <3>2 DEF ServiceRow, Row, Verb, Handled
    <3>. QED
      BY <3>1, <3>2, <3>3 DEF Truthful
  <2>2. ASSUME NEW d \in Calls, calls'[d].outcome # "none" PROVE calls[d].outcome # "none"
    BY <1>1, <2>2
  <2>. QED
    BY <2>1, <2>2 DEF IInv, Written
<1>6. Posted'
  <2>1. ASSUME NEW mail \in mailbox
        PROVE  mail.call \in Calls /\ mail.call # c /\ calls'[mail.call] = calls[mail.call]
    BY <1>1 DEF IInv, TypeOK, Posted, Handled
  <2>2. \A input : BodyOf(input)' = BodyOf(input)
    BY DEF BodyOf
  <2>. QED
    BY <1>1, <2>1, <2>2 DEF IInv, Posted, Handled
<1>. QED
  BY <1>2, <1>3, <1>4, <1>5, <1>6 DEF IInv

LEMMA ArriveKeeps ==
    ASSUME IInv, NEW c \in Calls, NEW route \in Routes, NEW input \in Inputs,
           NEW header \in Headers, Arrive(c, route, input, header)
    PROVE  IInv'
<1> DEFINE g == [Idle EXCEPT !.state = "arrived", !.route = route, !.input = input,
                             !.header = header]
<1>1. /\ g \in CallRecord /\ g.state = "arrived" /\ g.outcome = "none" /\ g.status = 0
      /\ g.tenant = Unset /\ g.header = header
  BY DEF Idle, CallRecord, States, Headers
<1>2. calls' = [calls EXCEPT ![c] = g] /\ calls[c].state = "idle"
  BY DEF Arrive
<1> HIDE DEF g
<1>3. /\ injected' = [d \in Calls |-> IF d = c THEN header ELSE injected[d]]
      /\ UNCHANGED <<renderer, mailbox, writing, log, faults>>
  BY DEF Arrive, ServedBy
<1>4. injected \in [Calls -> Headers]
  BY DEF IInv, TypeOK
<1>5. Early(c, g)
  BY <1>1, <1>2, <1>3, <1>4 DEF Early
<1>. QED
  BY <1>1, <1>5, EarlyStep

LEMMA RejectKeeps == ASSUME IInv, NEW c \in Calls, Reject(c) PROVE IInv'
<1>0. calls[c] \in CallRecord /\ calls[c].state = "arrived"
  BY CallType DEF IInv, Reject
<1> DEFINE status == IF calls[c].route = "dispatch" THEN 400 ELSE 500
           g == [calls[c] EXCEPT !.state = "answered", !.status = status]
<1>1. /\ g \in CallRecord /\ g.state = "answered" /\ g.status # 201
      /\ g.outcome = calls[c].outcome /\ g.tenant = calls[c].tenant /\ g.header = calls[c].header
  <2>1. status \in Nat /\ status # 201
    OBVIOUS
  <2> HIDE DEF status
  <2>. QED
    BY <1>0, <2>1 DEF CallRecord, States
<1>2. calls' = [calls EXCEPT ![c] = g]
  <2>1. calls' = [calls EXCEPT ![c].state = "answered", ![c].status = status]
    BY DEF Reject
  <2>2. calls \in [Calls -> CallRecord]
    BY DEF IInv, TypeOK, CallRecord
  <2> HIDE DEF status
  <2>. QED
    BY <1>0, <2>1, <2>2 DEF CallRecord
<1> HIDE DEF g
<1>3. UNCHANGED <<renderer, injected, mailbox, writing, log, faults>>
  BY DEF Reject
<1>4. injected \in [Calls -> Headers] /\ injected[c] = calls[c].header
  BY <1>0 DEF IInv, TypeOK, Owned
<1>5. g.outcome = "none" /\ g.tenant = Unset
  BY <1>0, <1>1, Unhandled
<1>6. Early(c, g)
  BY <1>0, <1>1, <1>2, <1>3, <1>4, <1>5 DEF Early
<1>. QED
  BY <1>1, <1>6, EarlyStep

LEMMA HandleKeeps == ASSUME IInv, NEW c \in Calls, Handle(c) PROVE IInv'
<1>0. calls[c] \in CallRecord /\ calls[c].state = "arrived" /\ calls[c].header \in Headers
  BY CallType DEF IInv, Handle
<1>1. injected \in [Calls -> Headers] /\ injected[c] = calls[c].header
  BY <1>0 DEF IInv, TypeOK, Owned
<1>2. TenantOf(c) = ResolveTenantId(calls[c].header)
  BY <1>1 DEF TenantOf
<1> DEFINE g == [calls[c] EXCEPT !.state = "accepted", !.tenant = ResolveTenantId(calls[c].header)]
<1>3. /\ g \in CallRecord /\ g.state = "accepted" /\ g.outcome = calls[c].outcome
      /\ g.tenant = ResolveTenantId(g.header) /\ g.header = calls[c].header
      /\ g.status = calls[c].status /\ g.input = calls[c].input
  BY <1>0, Resolves DEF CallRecord, States, Headers
<1>4. calls' = [calls EXCEPT ![c] = g]
  BY <1>0, <1>2 DEF Handle, IInv, TypeOK, CallRecord
<1> HIDE DEF g
<1>5. UNCHANGED <<renderer, injected, mailbox, writing, log, faults>>
  BY DEF Handle
<1>6. g.outcome = "none" /\ g.status # 201 /\ g.input.kind # "invalid"
  BY <1>0, <1>3, Unhandled DEF IInv, Told, Handle
<1>7. Early(c, g)
  BY <1>0, <1>1, <1>3, <1>4, <1>5, <1>6 DEF Early
<1>. QED
  BY <1>3, <1>7, EarlyStep

-----------------------------------------------------------------------------
(* The steps of a request that has been handled, with the rows they write. *)
Late(c, g, rows) ==
    /\ calls[c].state \in {"accepted", "delivered"} /\ g.state \in {"delivered", "answered"}
    /\ calls' = [calls EXCEPT ![c] = g] /\ writing' = writing \cup rows
    /\ UNCHANGED <<renderer, injected, log>>
    /\ g.header = calls[c].header /\ g.tenant = calls[c].tenant /\ g.input = calls[c].input
    /\ g.outcome = calls[c].outcome \/ calls[c].outcome = "none"
    \* what is told
    /\ g.outcome # "none" \/ g.state = "answered"
    /\ g.status = 201 => g.outcome = "taken"
    /\ g.state = "answered" /\ ~Unsendable(g.input) =>
          g.status = IF g.outcome = "taken" THEN 201 ELSE 502
    /\ g.state = "answered" /\ g.outcome = "taken" => g.status = 201
    \* what is taken
    /\ \A mail \in mailbox' : mail.call \in Calls
    /\ mailbox \subseteq mailbox'
    /\ g.outcome = "taken" => \E mail \in mailbox' : mail.call = c
    /\ \A mail \in mailbox' \ mailbox :
          mail.call = c /\ mail.body = BodyOf(g.input) /\ g.outcome \in {"taken", "lost"}
    /\ faults' \in 0..MaxFaults /\ faults <= faults'
    \* what is written
    /\ \A row \in rows :
          /\ row.call = c /\ row.tenant = calls[c].tenant
          /\ row.verb = "sent" <=> g.outcome = "taken"
          /\ row.source = "interceptor" => g.state = "answered"
          /\ row.source = "service" =>
                /\ g.outcome # "none"
                /\ row = Row(c, "service", IF g.outcome = "taken" THEN "sent" ELSE "failed")
    /\ g.outcome # calls[c].outcome => \E row \in rows : row.call = c /\ row.source = "service"

LEMMA LateStep ==
    ASSUME IInv, NEW c \in Calls, NEW g \in CallRecord, NEW rows \in SUBSET Rows,
           Late(c, g, rows)
    PROVE  IInv'
<1> USE DEF Late
<1>1. /\ calls' \in [Calls -> CallRecord]
      /\ calls'[c] = g
      /\ \A d \in Calls \ {c} : calls'[d] = calls[d]
  BY CallStep DEF IInv
<1>2. TypeOK'
  BY <1>1 DEF IInv, TypeOK, CallRecord
<1>3. calls[c].tenant = ResolveTenantId(calls[c].header)
  BY DEF IInv, Owned
<1>4. Owned'
  BY <1>1, <1>3 DEF IInv, Owned, Handled
<1>5. Told'
  <2>1. \A d \in Calls : Taken(d) => Taken(d)'
    BY DEF Taken
  <2>2. g.outcome = "taken" => Taken(c)'
    BY DEF Taken
  <2>3. ASSUME NEW d \in Calls \ {c}
        PROVE  calls'[d] = calls[d] /\ Unsendable(calls[d].input)' = Unsendable(calls[d].input)
    BY <1>1 DEF Unsendable
  <2>4. Unsendable(calls[c].input)' = Unsendable(g.input)
    BY <1>1 DEF Unsendable
  <2>. QED
    BY <1>1, <2>1, <2>2, <2>3, <2>4 DEF IInv, Told
<1>6. \A d \in Calls : /\ calls'[d].header = calls[d].header
                       /\ calls'[d].tenant = calls[d].tenant
                       /\ Handled(d) => Handled(d)'
                       /\ calls[d].outcome # "none" => calls'[d].outcome = calls[d].outcome
  BY <1>1 DEF Handled
<1>7. Written'
  <2>1. ASSUME NEW row \in rows PROVE Truthful(row)'
    <3>1. Handled(c)' /\ calls'[c].header = calls[c].header
      BY <1>1, <1>6 DEF Handled
    <3>2. ServiceRow(c)' = Row(c, "service", IF g.outcome = "taken" THEN "sent" ELSE "failed")
      BY <1>1 DEF ServiceRow, Row, Verb
    <3>3. row.call = c /\ row.tenant = calls[c].tenant /\ (row.verb = "sent" <=> g.outcome = "taken")
          /\ (row.source = "interceptor" => calls'[c].state = "answered")
      BY <1>1
    <3>4. row.source = "service" => g.outcome # "none" /\ row = ServiceRow(c)'
      BY <3>2
    <3>. QED
      BY <1>1, <1>3, <3>1, <3>3, <3>4 DEF Truthful
  <2>2. ASSUME NEW row \in log \cup writing PROVE Truthful(row)'
    <3>1. Truthful(row)
      BY DEF IInv, Written
    <3>2. row.source = "service" => ServiceRow(row.call)' = ServiceRow(row.call)
      BY <1>6, <3>1 DEF Truthful, ServiceRow, Row, Verb
    <3>3. row.source \in {"service", "interceptor"}
      BY DEF IInv, TypeOK, Rows
    <3>4. CASE row.source = "service"
      BY <1>6, <3>1, <3>2, <3>4 DEF Truthful
    <3>5. CASE row.source = "interceptor"
      <4>1. row.call # c /\ row.call \in Calls
        BY <3>1, <3>5 DEF Truthful
      <4>2. calls'[row.call] = calls[row.call]
        BY <1>1, <4>1
      <4>. QED
        BY <1>6, <3>1, <3>5, <4>2 DEF Truthful
    <3>. QED
      BY <3>3, <3>4, <3>5
  <2>3. ASSUME faults' = 0, NEW d \in Calls, calls'[d].outcome # "none"
        PROVE  \E row \in log \cup writing' : row.call = d /\ row.source = "service"
    <3>1. faults = 0
      BY <2>3 DEF IInv, TypeOK
    <3>2. CASE calls[d].outcome # "none"
      BY <3>1, <3>2 DEF IInv, Written
    <3>3. CASE calls[d].outcome = "none"
      BY <1>1, <2>3, <3>3
    <3>. QED
      BY <3>2, <3>3
  <2>4. \A row \in log' \cup writing' : Truthful(row)'
    BY <2>1, <2>2
  <2>5. faults' = 0 => \A d \in Calls : calls'[d].outcome # "none" =>
           \E row \in log' \cup writing' : row.call = d /\ row.source = "service"
    BY <2>3
  <2>. QED
    BY <2>4, <2>5 DEF Written
<1>8. Posted'
  <2>1. \A d \in Calls : calls'[d].input = calls[d].input
    BY <1>1
  <2>2. \A input : BodyOf(input)' = BodyOf(input)
    BY DEF BodyOf
  <2>3. ASSUME NEW d \in Calls, calls'[d].state \in {"accepted", "delivered"}
        PROVE  calls[d].state \in {"accepted", "delivered"}
    BY <1>1, <2>3
  <2>4. ASSUME NEW mail \in mailbox
        PROVE  /\ Handled(mail.call)' /\ calls'[mail.call].input.kind # "invalid"
               /\ calls'[mail.call].outcome \in {"taken", "lost"}
               /\ mail.body = BodyOf(calls'[mail.call].input)
    BY <1>6, <2>1 DEF IInv, TypeOK, Posted
  <2>5. ASSUME NEW mail \in mailbox' \ mailbox
        PROVE  /\ Handled(mail.call)' /\ calls'[mail.call].input.kind # "invalid"
               /\ calls'[mail.call].outcome \in {"taken", "lost"}
               /\ mail.body = BodyOf(calls'[mail.call].input)
    BY <1>1 DEF IInv, Posted, Handled
  <2>6. \A d \in Calls : calls'[d].state \in {"accepted", "delivered"} =>
           calls'[d].input.kind # "invalid"
    BY <2>1, <2>3 DEF IInv, Posted
  <2>. QED
    BY <2>2, <2>4, <2>5, <2>6 DEF Posted
<1>. QED
  BY <1>2, <1>4, <1>5, <1>7, <1>8 DEF IInv

LEMMA BoundaryRow ==
    ASSUME IInv, NEW c \in Calls, NEW status \in Nat
    PROVE  /\ BoundaryRows(c, status) \in SUBSET Rows
           /\ \A row \in BoundaryRows(c, status) :
                 /\ row.call = c /\ row.tenant = calls[c].tenant /\ row.source = "interceptor"
                 /\ row.verb = "sent" <=> status = 201
<1>1. calls[c].tenant \in Headers
  BY CallType DEF IInv
<1>. QED
  BY <1>1 DEF BoundaryRows, Row, Rows

(* Settle, with the record it leaves. *)
LEMMA Settled ==
    ASSUME IInv, NEW c \in Calls, NEW status \in Nat, Settle(c, status)
    PROVE  \E g \in CallRecord :
              /\ calls' = [calls EXCEPT ![c] = g] /\ g.state = "answered" /\ g.status = status
              /\ g.header = calls[c].header /\ g.tenant = calls[c].tenant
              /\ g.input = calls[c].input /\ g.outcome = calls[c].outcome
<1>0. calls[c] \in CallRecord
  BY CallType DEF IInv
<1> DEFINE g == [calls[c] EXCEPT !.state = "answered", !.status = status]
<1>1. /\ g \in CallRecord /\ g.state = "answered" /\ g.status = status
      /\ g.header = calls[c].header /\ g.tenant = calls[c].tenant
      /\ g.input = calls[c].input /\ g.outcome = calls[c].outcome
  BY <1>0 DEF CallRecord, States
<1>2. calls' = [calls EXCEPT ![c] = g]
  BY <1>0 DEF Settle, IInv, TypeOK, CallRecord
<1>. QED
  BY <1>1, <1>2

LEMMA RefuseKeeps == ASSUME IInv, NEW c \in Calls, Refuse(c) PROVE IInv'
<1> DEFINE status == IF calls[c].input.kind = "raw" THEN 413 ELSE 500
<1>1. Settle(c, status) /\ status \in Nat /\ status \in {413, 500}
  BY DEF Refuse
<1> HIDE DEF status
<1>2. PICK g \in CallRecord :
         /\ calls' = [calls EXCEPT ![c] = g] /\ g.state = "answered" /\ g.status = status
         /\ g.header = calls[c].header /\ g.tenant = calls[c].tenant
         /\ g.input = calls[c].input /\ g.outcome = calls[c].outcome
  BY <1>1, Settled
<1>3. /\ writing' = writing \cup BoundaryRows(c, status)
      /\ calls[c].state = "accepted" /\ Unsendable(calls[c].input)
      /\ UNCHANGED <<renderer, injected, mailbox, log, faults>>
  BY <1>1 DEF Refuse, Settle
<1>4. /\ BoundaryRows(c, status) \in SUBSET Rows
      /\ \A row \in BoundaryRows(c, status) :
            /\ row.call = c /\ row.tenant = calls[c].tenant /\ row.source = "interceptor"
            /\ row.verb # "sent"
  BY <1>1, BoundaryRow
<1>5. calls[c].outcome = "none"
  BY <1>3 DEF IInv, Told
<1>6. /\ \A mail \in mailbox' : mail.call \in Calls
      /\ mailbox \subseteq mailbox' /\ faults' \in 0..MaxFaults /\ faults <= faults'
  BY <1>3 DEF IInv, TypeOK
<1>7. Late(c, g, BoundaryRows(c, status))
  BY <1>1, <1>2, <1>3, <1>4, <1>5, <1>6 DEF Late
<1>. QED
  BY <1>2, <1>4, <1>7, LateStep

LEMMA AnswerKeeps == ASSUME IInv, NEW c \in Calls, Answer(c) PROVE IInv'
<1> DEFINE status == IF calls[c].outcome = "taken" THEN 201 ELSE 502
<1>1. Settle(c, status) /\ status \in Nat
  BY DEF Answer, Resolved
<1>2. PICK g \in CallRecord :
         /\ calls' = [calls EXCEPT ![c] = g] /\ g.state = "answered" /\ g.status = status
         /\ g.header = calls[c].header /\ g.tenant = calls[c].tenant
         /\ g.input = calls[c].input /\ g.outcome = calls[c].outcome
  <2> HIDE DEF status
  <2>. QED
    BY <1>1, Settled
<1>3. /\ writing' = writing \cup BoundaryRows(c, status)
      /\ calls[c].state = "delivered"
      /\ UNCHANGED <<renderer, injected, mailbox, log, faults>>
  BY <1>1 DEF Answer, Settle
<1>4. /\ BoundaryRows(c, status) \in SUBSET Rows
      /\ \A row \in BoundaryRows(c, status) :
            /\ row.call = c /\ row.tenant = calls[c].tenant /\ row.source = "interceptor"
            /\ row.verb = "sent" <=> calls[c].outcome = "taken"
  BY <1>1, BoundaryRow
<1>5. /\ calls[c].outcome # "none"
      /\ calls[c].outcome = "taken" => \E mail \in mailbox' : mail.call = c
  BY <1>3 DEF IInv, Told, Taken
<1>6. /\ \A mail \in mailbox' : mail.call \in Calls
      /\ mailbox \subseteq mailbox' /\ faults' \in 0..MaxFaults /\ faults <= faults'
  BY <1>3 DEF IInv, TypeOK
<1>7. /\ g.status = 201 => g.outcome = "taken"
      /\ g.status = IF g.outcome = "taken" THEN 201 ELSE 502
  BY <1>2
<1> HIDE DEF status
<1>8. Late(c, g, BoundaryRows(c, status))
  BY <1>2, <1>3, <1>4, <1>5, <1>6, <1>7 DEF Late
<1>. QED
  BY <1>2, <1>4, <1>8, LateStep

LEMMA DeliverKeeps ==
    ASSUME IInv, NEW c \in Calls, NEW outcome \in Outcomes, Deliver(c, outcome)
    PROVE  IInv'
<1>0. calls[c] \in CallRecord /\ calls[c].tenant \in Headers
  BY CallType DEF IInv
<1> DEFINE g   == [calls[c] EXCEPT !.state = "delivered", !.outcome = outcome]
           row == Row(c, "service", IF outcome = "taken" THEN "sent" ELSE "failed")
<1>1. /\ g \in CallRecord /\ g.state = "delivered" /\ g.outcome = outcome
      /\ g.header = calls[c].header /\ g.tenant = calls[c].tenant
      /\ g.input = calls[c].input /\ g.status = calls[c].status
  BY <1>0 DEF CallRecord, States, Outcomes
<1>2. calls' = [calls EXCEPT ![c] = g]
  BY <1>0 DEF Deliver, IInv, TypeOK, CallRecord
<1>3. /\ calls[c].state = "accepted"
      /\ writing' = writing \cup {row}
      /\ UNCHANGED <<renderer, injected, log>>
  BY DEF Deliver, Resolved
<1>4. /\ \A mail \in mailbox' : mail.call \in Calls
      /\ mailbox \subseteq mailbox'
      /\ outcome = "taken" => \E mail \in mailbox' : mail.call = c
      /\ \A mail \in mailbox' \ mailbox :
            mail.call = c /\ mail.body = BodyOf(calls[c].input) /\ outcome \in {"taken", "lost"}
  <2> DEFINE taken == [call |-> c, body |-> BodyOf(calls[c].input)]
  <2>1. mailbox' = IF outcome = "refused" THEN mailbox ELSE mailbox \cup {taken}
    BY DEF Deliver
  <2>2. taken.call = c /\ taken.body = BodyOf(calls[c].input)
    OBVIOUS
  <2> HIDE DEF taken
  <2>. QED
    BY <2>1, <2>2 DEF IInv, TypeOK, Outcomes
<1>5. faults' \in 0..MaxFaults /\ faults <= faults'
  BY DEF Deliver, IInv, TypeOK
<1>6. calls[c].outcome = "none" /\ outcome # "none"
  BY <1>3 DEF IInv, Told, Outcomes
<1>7. calls[c].status # 201
  BY <1>6 DEF IInv, Told
<1>8. /\ {row} \in SUBSET Rows /\ row.call = c /\ row.tenant = calls[c].tenant
      /\ row.source = "service" /\ (row.verb = "sent" <=> outcome = "taken")
  BY <1>0 DEF Row, Rows
<1>9. row = Row(c, "service", IF g.outcome = "taken" THEN "sent" ELSE "failed")
  BY <1>1
<1> HIDE DEF g, row
<1>10. Late(c, g, {row})
  BY <1>1, <1>2, <1>3, <1>4, <1>5, <1>6, <1>7, <1>8, <1>9 DEF Late
<1>. QED
  BY <1>1, <1>8, <1>10, LateStep

(* A row is stored, or lost: the requests go on as they were. *)
LEMMA StoreKeeps ==
    ASSUME IInv, NEW row \in writing, Store(row) \/ StoreFails(row)
    PROVE  IInv'
<1>1. UNCHANGED <<renderer, calls, injected, mailbox>>
  BY DEF Store, StoreFails, CallsAfterLoss
<1>2. /\ writing' \subseteq writing /\ log' \subseteq log \cup writing
      /\ faults' \in 0..MaxFaults
      /\ \/ faults' = faults /\ log' \cup writing' = log \cup writing
         \/ faults' # 0
  BY DEF Store, StoreFails, IInv, TypeOK
<1>3. TypeOK'
  BY <1>1, <1>2 DEF IInv, TypeOK
<1>4. Owned' /\ Told'
  BY <1>1 DEF IInv, Owned, Told, Handled, Taken, Unsendable
<1>5. Written'
  <2>1. \A r \in log' \cup writing' : r \in log \cup writing
    BY <1>2
  <2>. QED
    BY <1>1, <1>2, <2>1 DEF IInv, Written, Truthful, ServiceRow, Verb, Handled, Row
<1>6. Posted'
  <2>1. \A input : BodyOf(input)' = BodyOf(input)
    BY <1>1 DEF BodyOf
  <2>. QED
    BY <1>1, <2>1 DEF IInv, Posted, Handled
<1>. QED
  BY <1>3, <1>4, <1>5, <1>6 DEF IInv

LEMMA NextIInv == IInv /\ [Next]_vars => IInv'
<1> SUFFICES ASSUME IInv, [Next]_vars PROVE IInv'
  OBVIOUS
<1>1. ASSUME NEW c \in Calls, NEW route \in Routes, NEW input \in Inputs, NEW header \in Headers,
             Arrive(c, route, input, header)
      PROVE  IInv'
  BY <1>1, ArriveKeeps
<1>2. ASSUME NEW c \in Calls, Reject(c) \/ Handle(c) \/ Refuse(c) \/ Answer(c) PROVE IInv'
  BY <1>2, RejectKeeps, HandleKeeps, RefuseKeeps, AnswerKeeps
<1>3. ASSUME NEW c \in Calls, NEW outcome \in Outcomes, Deliver(c, outcome) PROVE IInv'
  BY <1>3, DeliverKeeps
<1>4. ASSUME NEW row \in writing, Store(row) \/ StoreFails(row) PROVE IInv'
  BY <1>4, StoreKeeps
<1>5. CASE UNCHANGED vars
  BY <1>5 DEF vars, IInv, TypeOK, Owned, Told, Written, Truthful, ServiceRow, Verb,
            Posted, BodyOf, Handled, Taken, Unsendable, Row
<1>. QED
  BY <1>1, <1>2, <1>3, <1>4, <1>5 DEF Next

LEMMA Inductive == Spec => []IInv
BY InitIInv, NextIInv, PTL DEF Spec

-----------------------------------------------------------------------------
(* Every variable keeps its type. *)
THEOREM DeliveryTypeCorrect == Spec => []TypeOK
BY Inductive, PTL DEF IInv

(* What is told of a mail, by an answer or by a row, is what became of it,  *)
(* except that it may have been taken by a server whose reply was lost.     *)
THEOREM SentIsTaken == Spec => []SentMeansTaken
<1>1. ASSUME IInv, NEW row \in log \cup writing
      PROVE  /\ row.verb = "sent" => Taken(row.call)
             /\ row.verb = "failed" /\ Taken(row.call) => calls[row.call].outcome = "lost"
  <2>1. /\ row.call \in Calls
        /\ row.verb = "sent" <=> calls[row.call].outcome = "taken"
    BY <1>1 DEF IInv, Written, Truthful
  <2>. QED
    BY <1>1, <2>1 DEF IInv, Told, Posted, Taken
<1>2. ASSUME IInv, NEW c \in Calls
      PROVE  /\ calls[c].status = 201 => Taken(c)
             /\ calls[c].state = "answered" /\ Taken(c) =>
                   calls[c].status = 201 \/ calls[c].outcome = "lost"
  BY <1>2 DEF IInv, Told, Posted, Taken
<1>3. IInv => SentMeansTaken
  BY <1>1, <1>2 DEF SentMeansTaken
<1>. QED
  BY Inductive, <1>3, PTL

(* Every row names the tenant of its own request. *)
THEOREM EachUnderItsTenant == Spec => []UnderOwnTenant
<1>1. IInv => UnderOwnTenant
  BY DEF IInv, Written, Truthful, UnderOwnTenant
<1>. QED
  BY Inductive, <1>1, PTL

(* The audit log changes no answer, and has at most one row of a delivery. *)
THEOREM LogBlocksNothing == Spec => []AuditNeverBlocks
<1>1. ASSUME IInv, NEW c \in Calls
      PROVE  LET rows == {row \in log \cup writing : row.call = c /\ row.source = "service"}
             IN  /\ Cardinality(rows) <= 1
                 /\ \A row \in rows : row.verb = "sent" <=> calls[c].outcome = "taken"
                 /\ calls[c].outcome # "none" /\ faults = 0 => rows # {}
  <2> DEFINE rows == {row \in log \cup writing : row.call = c /\ row.source = "service"}
             only == ServiceRow(c)
  <2>1. \A row \in rows : row = only
    BY <1>1 DEF IInv, Written, Truthful
  <2>2. only.verb = "sent" <=> calls[c].outcome = "taken"
    BY DEF ServiceRow, Verb, Row
  <2>3. Cardinality({only}) = 1 /\ IsFiniteSet({only})
    BY FS_Singleton
  <2>4. rows \subseteq {only}
    BY <2>1
  <2>5. Cardinality(rows) <= 1
    <3> HIDE DEF rows, only
    <3>. QED
      BY <2>3, <2>4, FS_Subset
  <2>6. calls[c].outcome # "none" /\ faults = 0 => rows # {}
    BY <1>1 DEF IInv, Written
  <2>. QED
    BY <2>1, <2>2, <2>5, <2>6
<1>2. IInv => AuditNeverBlocks
  BY <1>1 DEF IInv, Told, AuditNeverBlocks
<1>. QED
  BY Inductive, <1>2, PTL
-----------------------------------------------------------------------------
(* What a renderer shows, for any template and any data. *)

LEMMA ShownIsSafe ==
    ASSUME NEW data, NEW var, NEW escape \in BOOLEAN
    PROVE  /\ Shown(data, var, TRUE) # "markup"
           /\ Shown(data, var, escape) = "secret" => var \in DOMAIN data /\ data[var] = "secret"
           /\ Shown(data, var, escape) = "blank" /\ var \in DOMAIN data =>
                 data[var] \in {"null", "blank"}
BY DEF Shown, Stringify, EscapeHtml

(* Every renderer fills the holes of a part, escaping where the part is the *)
(* html; React Email makes its text of the html's holes.                    *)
FilledFrom(body, template, data, part) ==
    \E from \in Parts, escape \in BOOLEAN :
       /\ body = Fill(template[from], data, escape)
       /\ part = "html" => from = "html" /\ escape = TRUE
       /\ from = part \/ (part = "text" /\ from = "html")

LEMMA Rendered ==
    ASSUME NEW wired \in Renderers, NEW template, NEW data, NEW part \in Parts
    PROVE  FilledFrom(Render(wired, template, data)[part], template, data, part)
<1>1. CASE wired = "Handlebars"
  BY <1>1 DEF FilledFrom, Render, HandlebarsRender, Parts
<1>2. CASE wired = "React Email"
  BY <1>2 DEF FilledFrom, Render, ReactRender, Parts
<1>3. CASE wired \in {"Default", "MJML"}
  BY <1>3 DEF FilledFrom, Render, MjmlRender, Parts
<1>. QED
  BY <1>1, <1>2, <1>3 DEF Renderers

LEMMA FilledSafely ==
    ASSUME NEW holes, NEW data, NEW escape \in BOOLEAN, NEW var \in DOMAIN Fill(holes, data, escape)
    PROVE  /\ var \in holes
           /\ Fill(holes, data, escape)[var] = Shown(data, var, escape)
BY DEF Fill

(* The one secret among the data of any request is its code. *)
LEMMA SecretIsCode ==
    ASSUME NEW input \in AnyInput, input.kind \notin {"raw", "invalid"},
           NEW var \in DOMAIN DataOf(input), DataOf(input)[var] = "secret"
    PROVE  var = "code"
<1>1. CASE input \in TemplateInputs
  <2>1. input.kind = "template" /\ input.user # "secret"
    BY <1>1 DEF TemplateInputs, UserData
  <2>. QED
    BY <2>1 DEF DataOf
<1>2. CASE input \in AuthInputs
  <2>1. input.kind = "auth" /\ input.user # "secret" /\ input.method \in AuthMethods
    BY <1>2 DEF AuthInputs, UserData
  <2>. QED
    BY <2>1 DEF DataOf, AuthData, AuthMethods, OtpData, SessionData, EncodeURIComponent
<1>3. CASE input \in OtpInputs
  <2>1. input.kind = "otp" /\ input.user # "secret"
    BY <1>3 DEF OtpInputs, UserData
  <2>. QED
    BY <2>1 DEF DataOf, OtpMailData
<1>4. CASE input \in OtpPayloads
  <2>1. input.kind = "otp-payload" /\ input.user # "secret"
    BY <1>4 DEF OtpPayloads, UserData
  <2>. QED
    BY <2>1 DEF DataOf, OtpPayloadData
<1>. QED
  BY <1>1, <1>2, <1>3, <1>4 DEF AnyInput, RawInputs

(* The preview interpolates as the default renderer does. *)
LEMMA PreviewRenders == \A wired \in {"Default", "MJML"} : PreviewsAs(wired)
<1> SUFFICES ASSUME NEW wired \in {"Default", "MJML"}, NEW id \in DOMAIN PREVIEW_TEMPLATES,
                    NEW variable \in {"plain", "markup"}
             PROVE  Preview(id, variable) =
                    Render(wired, PREVIEW_TEMPLATES[id], PreviewData(variable))
  BY DEF PreviewsAs
<1> DEFINE data == PreviewData(variable)
           template == PREVIEW_TEMPLATES[id]
<1>1. \A var \in DOMAIN data : data[var] \in {"plain", "markup"}
  BY DEF PreviewData
<1>2. GetPreviewTemplate(id) = template
  BY DEF GetPreviewTemplate
<1> HIDE DEF data, template
<1>3. \A holes, escape : Interpolate(holes, data, escape) = Fill(holes, data, escape)
  <2> SUFFICES ASSUME NEW holes, NEW escape, NEW var \in holes
               PROVE  (IF var \notin DOMAIN data THEN "blank"
                       ELSE IF escape THEN EscapePreview(data[var]) ELSE data[var])
                      = Shown(data, var, escape)
    BY DEF Interpolate, Fill
  <2>. QED
    BY <1>1 DEF Shown, Stringify, EscapeHtml, EscapePreview
<1>4. RenderPreview(template, data) = MjmlRender(template, data)
  BY <1>3 DEF RenderPreview, MjmlRender
<1>5. Render(wired, template, data) = MjmlRender(template, data)
  BY DEF Render
<1>. QED
  BY <1>2, <1>4, <1>5 DEF Preview, data, template

(* What a renderer makes of any template is safe, when no datum but the code is a secret. *)
LEMMA RenderIsSafe ==
    ASSUME NEW wired \in Renderers, NEW template, NEW data,
           \A v \in DOMAIN data : data[v] = "secret" => v = "code",
           NEW part \in Parts, NEW var \in DOMAIN Render(wired, template, data)[part]
    PROVE  /\ part = "html" => Render(wired, template, data)[part][var] # "markup"
           /\ Render(wired, template, data)[part][var] = "secret" => var = "code"
<1> DEFINE body == Render(wired, template, data)[part]
<1>1. FilledFrom(body, template, data, part)
  BY Rendered
<1>2. var \in DOMAIN body
  OBVIOUS
<1> HIDE DEF body
<1>3. PICK from \in Parts, escape \in BOOLEAN :
         /\ body = Fill(template[from], data, escape)
         /\ part = "html" => escape = TRUE
  BY <1>1 DEF FilledFrom
<1>4. body[var] = Shown(data, var, escape)
  BY <1>2, <1>3, FilledSafely
<1>5. part = "html" => body[var] # "markup"
  BY <1>3, <1>4, ShownIsSafe
<1>6. body[var] = "secret" => var = "code"
  <2> SUFFICES ASSUME Shown(data, var, escape) = "secret" PROVE var = "code"
    BY <1>4
  <2>1. var \in DOMAIN data /\ data[var] = "secret"
    BY ShownIsSafe
  <2>. QED
    BY <2>1
<1>. QED
  BY <1>5, <1>6 DEF body

(* No mark-up of a user's in a mail, and no code outside its placeholder,   *)
(* whichever renderer is wired; the preview shows what is sent.             *)
THEOREM BodiesStaySafe == Spec => []BodiesAreSafe
<1>1. ASSUME IInv, NEW mail \in mailbox, NEW part \in Parts, NEW var \in DOMAIN mail.body[part]
      PROVE  /\ part = "html" => mail.body[part][var] # "markup"
             /\ mail.body[part][var] = "secret" => var = "code"
  <2> DEFINE input == calls[mail.call].input
  <2>1. /\ input \in AnyInput /\ input.kind # "invalid" /\ mail.body = BodyOf(input)
        /\ renderer \in Renderers
    BY <1>1, CallType DEF IInv, TypeOK, Posted
  <2>2. CASE input.kind = "raw"
    BY <1>1, <2>1, <2>2 DEF BodyOf
  <2>3. CASE input.kind # "raw"
    <3> DEFINE data     == DataOf(input)
               template == TEMPLATES[TemplateOf(input)]
    <3>0. mail.body = Render(renderer, template, data)
      BY <2>1, <2>3 DEF BodyOf
    <3>1. \A v \in DOMAIN data : data[v] = "secret" => v = "code"
      BY <2>1, <2>3, SecretIsCode
    <3> HIDE DEF data, template
    <3>2. var \in DOMAIN Render(renderer, template, data)[part]
      BY <1>1, <3>0
    <3>3. /\ part = "html" => Render(renderer, template, data)[part][var] # "markup"
          /\ Render(renderer, template, data)[part][var] = "secret" => var = "code"
      BY <2>1, <3>1, <3>2, RenderIsSafe
    <3>. QED
      BY <3>0, <3>3
  <2>. QED
    BY <2>2, <2>3
<1>2. IInv => BodiesAreSafe
  BY <1>1, PreviewRenders DEF BodiesAreSafe, Parts
<1>. QED
  BY Inductive, <1>2, PTL

(* What nest-auth hands over fills every hole of its template but those the *)
(* OTP mails leave blank, unless the user's own datum is null.              *)
LEMMA DataFillsHoles ==
    ASSUME NEW input \in AuthInputs, NEW part \in Parts,
           NEW var \in TEMPLATES[TemplateOf(input)][part] \ LeftBlank(input)
    PROVE  /\ var \in DOMAIN DataOf(input)
           /\ DataOf(input)[var] \in {"null", "blank"} => input.user = "null"
<1>1. input.kind = "auth" /\ input.method \in AuthMethods
  BY DEF AuthInputs
<1>2. TemplateOf(input) = AuthTemplate(input.method) /\ DataOf(input) = AuthData(input.method, input.user)
  BY <1>1 DEF TemplateOf, DataOf
<1> DEFINE data == AuthData(input.method, input.user)
<1>3. CASE input.method \in {"sendEmailVerificationOtp", "sendPasswordResetOtp"}
  <2>1. data = OtpData
    BY <1>3 DEF AuthData
  <2>2. AuthTemplate(input.method) \in {"otp_code", "otp_password_reset"}
    BY <1>3 DEF AuthTemplate
  <2>3. var \in {"code", "appName"}
    BY <1>1, <1>2, <2>2 DEF TEMPLATES, WithSubject, OtpHoles, LeftBlank, Parts
  <2>. QED
    BY <1>2, <2>1, <2>3 DEF OtpData
<1>4. CASE input.method = "sendPasswordResetToken"
  <2>1. data = [resetUrl |-> "plain", appName |-> "plain"]
    BY <1>4 DEF AuthData, EncodeURIComponent
  <2>2. var \in {"resetUrl", "appName"}
    BY <1>2, <1>4 DEF AuthTemplate, TEMPLATES, WithSubject, Parts
  <2>. QED
    BY <1>2, <2>1, <2>2
<1>5. CASE input.method \in {"sendMfaEnabledNotification", "sendMfaDisabledNotification"}
  <2>1. data = [appName |-> "plain"]
    BY <1>5 DEF AuthData
  <2>2. AuthTemplate(input.method) \in {"mfa_enabled", "mfa_disabled"}
    BY <1>5 DEF AuthTemplate
  <2>3. var = "appName"
    BY <1>2, <2>2 DEF TEMPLATES, Same, Parts
  <2>. QED
    BY <1>2, <2>1, <2>3
<1>6. CASE input.method = "sendNewSessionAlert"
  <2>1. data = SessionData(input.user)
    BY <1>6 DEF AuthData
  <2>2. var \in {"appName", "device", "ip", "sessionHash"}
    BY <1>2, <1>6 DEF AuthTemplate, TEMPLATES, WithSubject, Parts
  <2>3. input.user \in UserData
    BY DEF AuthInputs
  <2>. QED
    BY <1>2, <2>1, <2>2, <2>3 DEF SessionData, UserData, Data
<1>7. CASE input.method = "sendInvitation"
  <2>1. data = [inviterName |-> input.user, tenantName |-> input.user,
                acceptUrl |-> "plain", expiresAt |-> "plain", appName |-> "plain"]
    BY <1>7 DEF AuthData, EncodeURIComponent
  <2>2. var \in {"inviterName", "tenantName", "appName", "expiresAt", "acceptUrl"}
    BY <1>2, <1>7 DEF AuthTemplate, TEMPLATES, WithSubject, Parts
  <2>3. input.user \in UserData
    BY DEF AuthInputs
  <2>. QED
    BY <1>2, <2>1, <2>2, <2>3 DEF UserData, Data
<1>. QED
  BY <1>1, <1>3, <1>4, <1>5, <1>6, <1>7 DEF AuthMethods

(* An OTP mail of OtpController has all its names filled.                   *)
LEMMA OtpDataFillsHoles ==
    ASSUME NEW input \in OtpInputs, input.template \in {"otp_code", "otp_password_reset"},
           NEW part \in Parts, NEW var \in TEMPLATES[TemplateOf(input)][part]
    PROVE  /\ var \in DOMAIN DataOf(input)
           /\ DataOf(input)[var] \in {"null", "blank"} => input.user = "null"
<1>1. input.kind = "otp" /\ input.user \in UserData
  BY DEF OtpInputs
<1>2. var \in {"name", "code", "expiresInMinutes", "appName"}
  BY <1>1 DEF TemplateOf, TEMPLATES, WithSubject, OtpHoles, Parts
<1>3. DataOf(input) = [name |-> input.user, appName |-> "plain", code |-> "secret",
                       expiresInMinutes |-> "plain", purpose |-> "plain"]
  BY <1>1 DEF DataOf, OtpMailData
<1>. QED
  BY <1>1, <1>2, <1>3 DEF UserData, Data

(* A part shows blank only what it has a hole for and no datum fills. *)
LEMMA BlankIsUnfilled ==
    ASSUME NEW wired \in Renderers, NEW template, NEW data, NEW part \in Parts,
           NEW var \in DOMAIN Render(wired, template, data)[part],
           Render(wired, template, data)[part][var] = "blank"
    PROVE  /\ \E from \in Parts : var \in template[from]
           /\ var \in DOMAIN data => data[var] \in {"null", "blank"}
<1> DEFINE body == Render(wired, template, data)[part]
<1>1. FilledFrom(body, template, data, part)
  BY Rendered
<1>2. var \in DOMAIN body /\ body[var] = "blank"
  OBVIOUS
<1> HIDE DEF body
<1>3. PICK from \in Parts, escape \in BOOLEAN : body = Fill(template[from], data, escape)
  BY <1>1 DEF FilledFrom
<1>4. var \in template[from] /\ body[var] = Shown(data, var, escape)
  BY <1>2, <1>3, FilledSafely
<1>5. Shown(data, var, escape) = "blank"
  BY <1>2, <1>4
<1>6. var \in DOMAIN data => data[var] \in {"null", "blank"}
  BY <1>5, ShownIsSafe
<1>. QED
  BY <1>4, <1>6

(* Every placeholder of a mail sent for nest-auth, or by OtpController with  *)
(* a code in it, is filled, but the name and the expiry in the OTP mails of *)
(* nest-auth, whichever renderer is wired.                                  *)
THEOREM HolesStayFilled == Spec => []HolesAreFilled
<1>1. ASSUME IInv, NEW mail \in mailbox, Ours(calls[mail.call].input), NEW part \in Parts,
             NEW var \in DOMAIN mail.body[part] \ LeftBlank(calls[mail.call].input),
             mail.body[part][var] = "blank"
      PROVE  calls[mail.call].input.user = "null"
  <2>1. PICK input \in AnyInput : input = calls[mail.call].input
    BY <1>1, CallType DEF IInv, TypeOK, Posted
  <2>2. mail.body = BodyOf(input) /\ renderer \in Renderers
    BY <1>1, <2>1 DEF IInv, TypeOK, Posted
  <2>3. \/ input \in AuthInputs
        \/ input \in OtpInputs /\ input.template \in {"otp_code", "otp_password_reset"}
    BY <1>1, <2>1 DEF Ours, AnyInput, RawInputs, TemplateInputs, OtpPayloads, AuthInputs, OtpInputs
  <2> DEFINE data     == DataOf(input)
             template == TEMPLATES[TemplateOf(input)]
  <2>4. mail.body = Render(renderer, template, data)
    BY <1>1, <2>1, <2>2 DEF BodyOf, Ours
  <2>5. \A from \in Parts : \A v \in template[from] \ LeftBlank(input) :
           v \in DOMAIN data /\ (data[v] \in {"null", "blank"} => input.user = "null")
    BY <2>3, DataFillsHoles, OtpDataFillsHoles
  <2> HIDE DEF data, template
  <2>6. /\ \E from \in Parts : var \in template[from]
        /\ var \in DOMAIN data => data[var] \in {"null", "blank"}
    BY <1>1, <2>2, <2>4, BlankIsUnfilled
  <2>7. var \in DOMAIN data /\ (data[var] \in {"null", "blank"} => input.user = "null")
    BY <1>1, <2>1, <2>5, <2>6
  <2>. QED
    BY <2>1, <2>6, <2>7
<1>2. IInv => HolesAreFilled
  BY <1>1 DEF HolesAreFilled
<1>. QED
  BY Inductive, <1>2, PTL
=============================================================================

------------------------- MODULE ApiLifecycleProofs -------------------------
(***************************************************************************)
(* The life of the API process, proved for every set of environments and   *)
(* connections and any number of signals, outages and requests.            *)
(*                                                                         *)
(* Signals and the hooks of app.close() interleave with boot and with      *)
(* requests in every order; what keeps a shutdown orderly is how far close *)
(* has come (Shutdown), what it has let go of by then (Released), and why  *)
(* a signal may find no handler (Disarmed).                                *)
(***************************************************************************)
EXTENDS ApiLifecycle, TLAPS

USE LifecycleAssumption

(* close() is called by the first signal, and settles when its hooks have   *)
(* returned or one has rejected; nothing else ends the process cleanly.     *)
Shutdown ==
    /\ isShuttingDown <=> closing # "no"
    /\ closes = IF isShuttingDown THEN 1 ELSE 0
    /\ closing = "settled" => hooks = {} \/ hookFailed
    /\ exit = "clean" => closing = "settled"

(* The hooks run when the server has drained, and only they let go of Redis *)
(* and Postgres.                                                            *)
AfterDrain == closing \in {"hooks", "settled"}
Released ==
    /\ AfterDrain /\ ~lateListen => Waiting = {}
    /\ db = "released" \/ client = "ended" \/ quitting => AfterDrain

(* A handler is gone because its signal has come. *)
Disarmed ==
    boot \in {"initialising", "listening"} => \A s \in Signals \ armed : received[s] > 0

IInv == TypeOK /\ Shutdown /\ Released /\ Disarmed

-----------------------------------------------------------------------------
LEMMA InitIInv == Init => IInv
<1> SUFFICES ASSUME Init PROVE IInv
  OBVIOUS
<1>1. TypeOK
  <2>1. conns \in [Conns -> Conn]
    BY DEF Init, NoConn, Conn, Kinds
  <2>2. /\ outages \in 0..MaxOutages /\ silences \in 0..MaxOutages /\ requests \in 0..MaxRequests
        /\ received \in [Signals -> 0..MaxSignals] /\ closes \in 0..1
    BY DEF Init
  <2>. QED
    BY <2>1, <2>2 DEF Init, TypeOK
<1>. QED
  BY <1>1 DEF Init, IInv, Shutdown, Released, AfterDrain, Waiting, NoConn, Disarmed

(* A connection is replaced by another: nobody new waits unless it says so. *)
LEMMA Replaced ==
    ASSUME TypeOK, NEW c \in Conns, NEW g \in Conn, conns' = [conns EXCEPT ![c] = g],
           g.caller = "waiting" => conns[c].caller = "waiting"
    PROVE  conns' \in [Conns -> Conn] /\ Waiting' \subseteq Waiting
<1>1. conns \in [Conns -> Conn]
  BY DEF TypeOK
<1>2. conns' \in [Conns -> Conn]
  BY <1>1
<1>3. \A d \in Conns : conns'[d] = IF d = c THEN g ELSE conns[d]
  BY <1>1
<1>. QED
  BY <1>2, <1>3 DEF Waiting

-----------------------------------------------------------------------------
(* The steps of a request. *)
LEMMA HandleKeeps == ASSUME IInv, NEW c \in Conns, Handle(c) \/ GiveUp(c) PROVE IInv'
<1>1. conns \in [Conns -> Conn] /\ conns[c] \in Conn /\ NoConn \in Conn
  BY DEF IInv, TypeOK, NoConn, Conn
<1> DEFINE Goes(at) == [conns[c] EXCEPT !.at = at]
<1>2. \A at \in {"smtp", "db", "over"} : Goes(at) \in Conn /\ Goes(at).caller = conns[c].caller
  BY <1>1 DEF Conn
<1>3. \/ \E at \in {"smtp", "db", "over"} : conns' = [conns EXCEPT ![c] = Goes(at)]
      \/ conns' = [conns EXCEPT ![c] = NoConn]
      \/ conns' = conns
  BY DEF Handle, Execute, HandOver, GiveUp, Query, Respond, Mailing
<1> HIDE DEF Goes
<1>4. conns' \in [Conns -> Conn] /\ Waiting' \subseteq Waiting
  <2>1. CASE \E at \in {"smtp", "db", "over"} : conns' = [conns EXCEPT ![c] = Goes(at)]
    BY <2>1, <1>2, Replaced DEF IInv
  <2>2. CASE conns' = [conns EXCEPT ![c] = NoConn]
    BY <2>2, <1>1, Replaced DEF IInv, NoConn
  <2>3. CASE conns' = conns
    BY <2>3, <1>1 DEF Waiting
  <2>. QED
    BY <1>3, <2>1, <2>2, <2>3
<1>5. /\ client' \in {client, "ready", "away"}
      /\ UNCHANGED <<env, boot, armed, closeVars, exit, peers, db, boundVars, history>>
  BY DEF Handle, Execute, HandOver, GiveUp, Query, Respond
<1>. QED
  BY <1>4, <1>5 DEF IInv, TypeOK, Shutdown, Released, AfterDrain, Disarmed, closeVars,
                    boundVars, peers, history

LEMMA LeaveKeeps == ASSUME IInv, NEW c \in Conns, Leave(c) PROVE IInv'
<1>1. conns \in [Conns -> Conn] /\ conns[c] \in Conn /\ NoConn \in Conn
  BY DEF IInv, TypeOK, NoConn, Conn
<1> DEFINE g == IF conns[c].kind = "stream" THEN NoConn ELSE [conns[c] EXCEPT !.caller = "gone"]
<1>2. g \in Conn /\ g.caller = "gone"
  BY <1>1 DEF Conn, NoConn
<1>3. conns' = [conns EXCEPT ![c] = g]
  BY DEF Leave
<1> HIDE DEF g
<1>4. conns' \in [Conns -> Conn] /\ Waiting' \subseteq Waiting
  BY <1>2, <1>3, Replaced DEF IInv
<1>. QED
  BY <1>4 DEF IInv, TypeOK, Shutdown, Released, AfterDrain, Disarmed, Leave, closeVars,
              boundVars, peers, history

(* The port is open before the server is closed, or if it was opened after. *)
LEMMA AcceptKeeps ==
    ASSUME IInv, NEW c \in Conns, NEW kind \in Kinds, Accept(c, kind)
    PROVE  IInv'
<1> DEFINE g == [kind |-> kind, caller |-> "waiting", at |-> FirstLeg(kind)]
<1>1. g \in Conn
  BY DEF Conn, FirstLeg, Kinds
<1>2. conns' = [conns EXCEPT ![c] = g]
  BY DEF Accept
<1> HIDE DEF g
<1>3. conns' \in [Conns -> Conn]
  BY <1>1, <1>2 DEF IInv, TypeOK
<1>4. requests' \in 0..MaxRequests
  BY DEF IInv, TypeOK, Accept
<1>5. closing \in {"no", "destroying"} \/ lateListen
  BY DEF Accept, PortOpen
<1>6. UNCHANGED <<env, boot, armed, closeVars, exit, peers, client, db, outages, silences, history>>
  BY DEF Accept
<1>. QED
  BY <1>3, <1>4, <1>5, <1>6 DEF IInv, TypeOK, Shutdown, Released, AfterDrain, Disarmed,
                                closeVars, peers, history

-----------------------------------------------------------------------------
(* The first signal calls close(); each takes its own handler away. *)
LEMMA SignalKeeps == ASSUME IInv, NEW s \in Signals, Signal(s) PROVE IInv'
<1>1. received \in [Signals -> 0..MaxSignals] /\ received[s] < MaxSignals
  BY DEF IInv, TypeOK, Signal
<1>2. /\ received' \in [Signals -> 0..MaxSignals]
      /\ received'[s] > 0
      /\ \A r \in Signals : received[r] > 0 => received'[r] > 0
  BY <1>1 DEF Signal
<1>3. UNCHANGED <<env, boot, hooks, quitting, conns, peers, client, db, boundVars,
                  hookFailed, lateListen>>
  BY DEF Signal
<1>4. CASE s \notin armed
  <2>1. exit' = "killed" /\ UNCHANGED <<armed, isShuttingDown, closing, closes>>
    BY <1>4 DEF Signal
  <2>. QED
    BY <1>2, <1>3, <2>1 DEF IInv, TypeOK, Shutdown, Released, AfterDrain, Waiting, Disarmed,
                            boundVars, peers
<1>5. CASE s \in armed
  <2>1. /\ armed' = armed \ {s} /\ isShuttingDown' = TRUE /\ exit' = exit /\ exit = "running"
        /\ IF isShuttingDown THEN UNCHANGED <<closing, closes>>
                             ELSE closes' = closes + 1 /\ closing' = "destroying"
    BY <1>5 DEF Signal, FirstSignal, CloseApp, Running
  <2>2. closes' = 1 /\ closing' # "no" /\ closing' \in {closing, "destroying"}
    BY <2>1 DEF IInv, TypeOK, Shutdown
  <2>3. closing' = closing \/ (closing = "no" /\ closing' = "destroying")
    BY <2>1 DEF IInv, Shutdown
  <2>4. TypeOK'
    BY <1>2, <1>3, <2>1, <2>2 DEF IInv, TypeOK, boundVars, peers
  <2>5. Shutdown'
    BY <1>3, <2>1, <2>2, <2>3 DEF IInv, Shutdown
  <2>6. Released'
    BY <1>3, <2>3 DEF IInv, Released, AfterDrain, Waiting
  <2>7. Disarmed'
    BY <1>2, <1>3, <2>1 DEF IInv, Disarmed
  <2>. QED
    BY <2>4, <2>5, <2>6, <2>7 DEF IInv
<1>. QED
  BY <1>4, <1>5

-----------------------------------------------------------------------------
(* Boot, the Redis server, and close(): nobody's connection changes. *)
LEMMA BootKeeps ==
    ASSUME IInv, Import \/ CreateApp \/ ConnectDb \/ Listen \/ BootFails
    PROVE  IInv'
<1> USE DEF IInv, TypeOK, Shutdown, Released, AfterDrain, Waiting, Disarmed, Running,
            closeVars, boundVars, peers, history
<1>1. CASE Import
  BY <1>1 DEF Import
<1>2. CASE CreateApp
  BY <1>2 DEF CreateApp, ArmedAtCreate
<1>3. CASE ConnectDb
  BY <1>3 DEF ConnectDb
<1>4. CASE Listen
  BY <1>4 DEF Listen
<1>5. CASE BootFails
  BY <1>5 DEF BootFails
<1>. QED
  BY <1>1, <1>2, <1>3, <1>4, <1>5

LEMMA PeersKeep ==
    ASSUME IInv, RedisLost \/ RedisBack \/ Reconnect \/ MailServer
    PROVE  IInv'
<1>1. /\ UNCHANGED <<env, boot, armed, closeVars, exit, conns, db, requests, history>>
      /\ client' \in {client, "away", "ready"} /\ redisUp' \in BOOLEAN /\ mailUp' \in BOOLEAN
  BY DEF IInv, TypeOK, RedisLost, RedisBack, Reconnect, MailServer, boundVars, peers
<1>2. outages' \in 0..MaxOutages /\ silences' \in 0..MaxOutages
  BY DEF IInv, TypeOK, RedisLost, RedisBack, Reconnect, MailServer, boundVars
<1>. QED
  BY <1>1, <1>2 DEF IInv, TypeOK, Shutdown, Released, AfterDrain, Waiting, Disarmed, closeVars,
                    history

LEMMA CloseKeeps ==
    ASSUME IInv, \/ CloseServer \/ Drain \/ QuitRedis \/ QuitAnswered \/ DisconnectDb
                 \/ HooksDone \/ Exit \/ \E h \in Hooks : HookRejects(h)
    PROVE  IInv'
<1> USE DEF IInv, TypeOK, Shutdown, Released, AfterDrain, Waiting, Disarmed, Running,
            closeVars, boundVars, peers, history
<1>1. CASE CloseServer
  BY <1>1 DEF CloseServer
<1>2. CASE Drain
  BY <1>2 DEF Drain, Drained
<1>3. CASE QuitRedis
  BY <1>3 DEF QuitRedis, HookReturns
<1>4. CASE QuitAnswered
  BY <1>4 DEF QuitAnswered, HookReturns
<1>5. CASE DisconnectDb
  BY <1>5 DEF DisconnectDb, HookReturns
<1>6. CASE HooksDone
  BY <1>6 DEF HooksDone
<1>7. CASE Exit
  BY <1>7 DEF Exit, MayExit
<1>8. ASSUME NEW h \in Hooks, HookRejects(h) PROVE IInv'
  BY <1>8 DEF HookRejects
<1>. QED
  BY <1>1, <1>2, <1>3, <1>4, <1>5, <1>6, <1>7, <1>8

LEMMA NextIInv == IInv /\ [Next]_vars => IInv'
<1> SUFFICES ASSUME IInv, [Next]_vars PROVE IInv'
  OBVIOUS
<1>1. CASE Progress
  BY <1>1, BootKeeps, PeersKeep, CloseKeeps DEF Progress
<1>2. CASE BootFails \/ RedisLost \/ RedisBack \/ MailServer
  BY <1>2, BootKeeps, PeersKeep
<1>3. ASSUME NEW c \in Conns, Handle(c) \/ GiveUp(c) \/ Leave(c) PROVE IInv'
  BY <1>3, HandleKeeps, LeaveKeeps
<1>4. ASSUME NEW c \in Conns, NEW kind \in Kinds, Accept(c, kind)
      PROVE  IInv'
  BY <1>4, AcceptKeeps
<1>5. ASSUME NEW s \in Signals, Signal(s) PROVE IInv'
  BY <1>5, SignalKeeps
<1>6. ASSUME NEW h \in Hooks, HookRejects(h) PROVE IInv'
  BY <1>6, CloseKeeps
<1>7. CASE UNCHANGED vars
  BY <1>7 DEF vars, closeVars, boundVars, peers, history, IInv, TypeOK, Shutdown, Released,
              AfterDrain, Waiting, Disarmed
<1>. QED
  BY <1>1, <1>2, <1>3, <1>4, <1>5, <1>6, <1>7 DEF Next

LEMMA Inductive == Spec => []IInv
BY InitIInv, NextIInv, PTL DEF Spec

-----------------------------------------------------------------------------
(* Every variable has its type: app.close() is called once at most,         *)
(* whichever signals arrive.                                                *)
THEOREM LifecycleTypeCorrect == Spec => []TypeOK
BY Inductive, PTL DEF IInv

(* A clean exit ends a shutdown whose hooks have returned, or one rejected. *)
THEOREM ExitOrdered == Spec => []ExitIsOrderly
<1>1. IInv => ExitIsOrderly
  BY DEF IInv, Shutdown, ExitIsOrderly
<1>. QED
  BY Inductive, <1>1, PTL

(* Nobody waits for an answer when Redis, Postgres or the process go. *)
THEOREM NobodyCutOff == Spec => []NobodyIsCutOff
<1>1. IInv => NobodyIsCutOff
  BY DEF IInv, Shutdown, Released, AfterDrain, NobodyIsCutOff
<1>. QED
  BY Inductive, <1>1, PTL

(* A signal that kills came too early, or for a second time. *)
THEOREM KillHasCause == Spec => KilledForCause
<1> DEFINE Cause == exit' = "killed" => \/ boot \in {"importing", "creating"}
                                        \/ \E s \in Signals : received[s] > 0 /\ received'[s] > received[s]
<1>1. ASSUME IInv, [Next]_vars PROVE [Cause]_vars
  <2>1. ASSUME NEW s \in Signals, Signal(s) PROVE Cause
    <3>1. received \in [Signals -> 0..MaxSignals] /\ boot \in {"importing", "creating", "initialising", "listening"}
      BY <1>1 DEF IInv, TypeOK
    <3>2. received'[s] > received[s]
      BY <2>1, <3>1 DEF Signal
    <3>3. s \in armed => exit' = "running"
      BY <2>1 DEF Signal, Running
    <3>4. s \notin armed /\ boot \notin {"importing", "creating"} => received[s] > 0
      BY <1>1, <3>1 DEF IInv, Disarmed
    <3>. QED
      BY <3>2, <3>3, <3>4
  <2>2. ASSUME Next, \A s \in Signals : ~Signal(s) PROVE exit' \in {"running", "clean", "error"}
    BY <2>2 DEF Next, Progress, Handle, Running, Import, CreateApp, ConnectDb, Listen, Reconnect,
       CloseServer, Drain, QuitRedis, QuitAnswered, DisconnectDb, HooksDone, Exit, BootFails,
       RedisLost, RedisBack, MailServer, Execute, HandOver, GiveUp, Query, Respond, Leave, Accept,
       HookRejects
  <2>. QED
    BY <1>1, <2>1, <2>2
<1>. QED
  BY Inductive, <1>1, PTL DEF Spec, KilledForCause

-----------------------------------------------------------------------------
(***************************************************************************)
(* ShutdownEnds and RequestsEnd, as far as they are safety: what a shutdown *)
(* or a request waits for is a step the process may take, unless it is one *)
(* of the things the properties name; and a shutdown never goes back.      *)
(***************************************************************************)
Streams == {c \in Conns : conns[c].kind = "stream"}

(* The guards of Handle, Reconnect and the steps of app.close(). *)
MayHandle(c) ==
    \/ conns[c].at = "redis" /\ client # "away"
    \/ conns[c].at = "smtp" /\ mailUp
    \/ conns[c].at = "db"
    \/ conns[c].at = "over" /\ conns[c].kind # "none"

MayReconnect == client = "away" /\ redisUp

MayQuit ==
    \/ quitting /\ client = "ready" /\ Queued = {}
    \/ ~quitting /\ "redis" \in hooks /\ client # "ended"

MayClose ==
    \/ closing \in {"destroying", "settled"}
    \/ closing = "draining" /\ (Drained \/ lateListen)
    \/ closing = "hooks" /\ (hooks = {} \/ MayQuit)
    \/ closing = "hooks" /\ "prisma" \in hooks /\ ~quitting

ShutdownGoesOn ==
    Running /\ isShuttingDown =>
        \/ HeldBy(Streams) \/ (~mailUp /\ HeldBy(Mailing))
        \/ Outage /\ (quitting \/ HeldBy(Queued))
        \/ MayReconnect \/ MayClose \/ \E c \in Conns : MayHandle(c)

RequestsGoOn ==
    \A c \in Conns : Running /\ conns[c].kind \in Kinds \ {"stream"} =>
                        \/ (Outage /\ c \in Queued) \/ (~mailUp /\ c \in Mailing)
                        \/ MayReconnect \/ MayHandle(c)

(* What a connection is at fits what was asked; the client is let go of by  *)
(* its own hook alone, so that a QUIT that waits still has one to send it;  *)
(* and no shutdown begins before the handlers are installed.                *)
Fits(k) ==
    /\ k.kind = "none" => k.caller = "gone"
    /\ k.kind = "stream" <=> k.at = "open"

ConnInv == \A c \in Conns : Fits(conns[c])

ClientInv ==
    /\ quitting => client \in {"ready", "away"}
    /\ client = "ended" => "redis" \notin hooks
    /\ boot \in {"importing", "creating"} => armed = {} /\ closing = "no"

LEMMA ConnsKept == ASSUME IInv, ConnInv, [Next]_vars PROVE ConnInv'
<1>1. conns \in [Conns -> Conn] /\ Fits(NoConn)
  BY DEF IInv, TypeOK, NoConn, Fits
<1>2. ASSUME NEW c \in Conns, NEW g, conns' = [conns EXCEPT ![c] = g], Fits(g)
      PROVE  ConnInv'
  <2>1. \A d \in Conns : conns'[d] = IF d = c THEN g ELSE conns[d]
    BY <1>1, <1>2
  <2>. QED
    BY <1>2, <2>1 DEF ConnInv
<1>3. ASSUME NEW c \in Conns, Handle(c) \/ GiveUp(c) PROVE ConnInv'
  <2> DEFINE Goes(at) == [conns[c] EXCEPT !.at = at]
  <2>1. conns[c] \in Conn /\ Fits(conns[c])
    BY <1>1 DEF ConnInv
  <2>2. conns[c].at # "open" => \A at \in {"smtp", "db", "over"} : Fits(Goes(at))
    BY <2>1 DEF Fits, Conn
  <2>3. \/ \E at \in {"smtp", "db", "over"} : conns' = [conns EXCEPT ![c] = Goes(at)] /\ conns[c].at # "open"
        \/ conns' = [conns EXCEPT ![c] = NoConn]
        \/ conns' = conns
    BY <1>3 DEF Handle, Execute, HandOver, GiveUp, Query, Respond, Mailing
  <2> HIDE DEF Goes
  <2>4. CASE conns' = conns
    BY <2>4 DEF ConnInv
  <2>. QED
    BY <1>1, <1>2, <2>2, <2>3, <2>4
<1>4. ASSUME NEW c \in Conns, Leave(c) PROVE ConnInv'
  <2> DEFINE g == IF conns[c].kind = "stream" THEN NoConn ELSE [conns[c] EXCEPT !.caller = "gone"]
  <2>1. conns[c] \in Conn /\ Fits(conns[c])
    BY <1>1 DEF ConnInv
  <2>2. Fits(g) /\ conns' = [conns EXCEPT ![c] = g]
    BY <1>1, <1>4, <2>1 DEF Leave, Fits, Conn
  <2> HIDE DEF g
  <2>. QED
    BY <1>2, <2>2
<1>5. ASSUME NEW c \in Conns, NEW kind \in Kinds, Accept(c, kind)
      PROVE  ConnInv'
  <2> DEFINE g == [kind |-> kind, caller |-> "waiting", at |-> FirstLeg(kind)]
  <2>1. Fits(g) /\ conns' = [conns EXCEPT ![c] = g]
    BY <1>5 DEF Accept, Fits, FirstLeg, Kinds
  <2> HIDE DEF g
  <2>. QED
    BY <1>2, <2>1
<1>6. ASSUME UNCHANGED conns PROVE ConnInv'
  BY <1>6 DEF ConnInv
<1>7. CASE \/ Progress \/ BootFails \/ RedisLost \/ RedisBack \/ MailServer \/ UNCHANGED vars
           \/ (\E s \in Signals : Signal(s)) \/ (\E h \in Hooks : HookRejects(h))
  BY <1>6, <1>7 DEF Progress, Import, CreateApp, ConnectDb, Listen, Reconnect, CloseServer, Drain,
     QuitRedis, QuitAnswered, DisconnectDb, HooksDone, Exit, BootFails, RedisLost, RedisBack,
     MailServer, Signal, HookRejects, vars
<1>. QED
  BY <1>3, <1>4, <1>5, <1>7 DEF Next

LEMMA ClientKept == ASSUME IInv, ClientInv, [Next]_vars PROVE ClientInv'
<1> USE DEF ClientInv, closeVars
<1>1. ASSUME NEW c \in Conns, Handle(c) \/ GiveUp(c) PROVE ClientInv'
  BY <1>1 DEF Handle, Execute, HandOver, GiveUp, Query, Respond
<1>2. ASSUME UNCHANGED <<client, quitting, hooks>>,
             UNCHANGED <<boot, armed, closing>> \/ boot' \in {"initialising", "listening"}
      PROVE  ClientInv'
  BY <1>2
<1>3. CASE Import
  BY <1>3 DEF Import, IInv, Released, AfterDrain
<1>4. CASE RedisLost \/ RedisBack \/ Reconnect \/ MailServer
  BY <1>4 DEF RedisLost, RedisBack, Reconnect, MailServer
<1>5. CASE QuitRedis
  BY <1>5 DEF QuitRedis, HookReturns
<1>6. CASE QuitAnswered
  BY <1>6 DEF QuitAnswered, HookReturns
<1>7. CASE DisconnectDb
  BY <1>7 DEF DisconnectDb, HookReturns
<1>8. ASSUME NEW s \in Signals, Signal(s) PROVE ClientInv'
  BY <1>8 DEF Signal
<1>9. CASE \/ CloseServer \/ Drain \/ HooksDone \/ (\E h \in Hooks : HookRejects(h))
  BY <1>9 DEF CloseServer, Drain, HooksDone, HookRejects
<1>10. CASE \/ CreateApp \/ ConnectDb \/ Listen \/ BootFails \/ Exit \/ UNCHANGED vars
            \/ (\E c \in Conns : Leave(c))
            \/ (\E c \in Conns, kind \in Kinds : Accept(c, kind))
  BY <1>2, <1>10 DEF CreateApp, ConnectDb, Listen, BootFails, Exit, Leave, Accept, vars
<1>. QED
  BY <1>1, <1>3, <1>4, <1>5, <1>6, <1>7, <1>8, <1>9, <1>10 DEF Next, Progress

LEMMA Going == Spec => [](IInv /\ ConnInv /\ ClientInv)
<1>1. Init => ConnInv /\ ClientInv
  BY DEF Init, ConnInv, ClientInv, Fits, NoConn
<1>. QED
  BY <1>1, ConnsKept, ClientKept, InitIInv, NextIInv, PTL DEF Spec

(* A request has a step, unless its own command waits for Redis or its own  *)
(* mail for the mail server.                                                *)
LEMMA Handled ==
    ASSUME IInv, ConnInv, NEW c \in Conns, conns[c].kind \in Kinds \ {"stream"}
    PROVE  \/ (Outage /\ c \in Queued) \/ (~mailUp /\ c \in Mailing)
           \/ MayReconnect \/ MayHandle(c)
<1>1. conns[c] \in Conn /\ Fits(conns[c]) /\ redisUp \in BOOLEAN
  BY DEF IInv, TypeOK, ConnInv
<1>2. conns[c].at \in {"redis", "smtp", "db", "over"} /\ conns[c].kind # "none"
  BY <1>1 DEF Conn, Fits, Kinds
<1>. QED
  BY <1>1, <1>2 DEF Outage, Queued, Mailing, MayReconnect, MayHandle

(* A shutdown under way has a step to take, at every point of the drain and *)
(* the hooks, with a QUIT in the offline queue or a hook that rejected: all *)
(* that it may have to wait for is, in the drain, a caller with a stream, a *)
(* queued command or an unanswered mail, and afterwards a queued QUIT.      *)
THEOREM ShutdownNeverStuck == Spec => []ShutdownGoesOn
<1>1. IInv /\ ConnInv /\ ClientInv => ShutdownGoesOn
  <2> SUFFICES ASSUME IInv, ConnInv, ClientInv, Running, isShuttingDown,
                      ~HeldBy(Streams), ~(~mailUp /\ HeldBy(Mailing)),
                      ~(Outage /\ (quitting \/ HeldBy(Queued))),
                      ~MayReconnect, \A c \in Conns : ~MayHandle(c)
               PROVE  MayClose
    BY DEF ShutdownGoesOn
  <2>1. /\ closing \in {"destroying", "draining", "hooks", "settled"} /\ hooks \subseteq Hooks
        /\ conns \in [Conns -> Conn] /\ redisUp \in BOOLEAN /\ quitting \in BOOLEAN
    BY DEF IInv, TypeOK, Shutdown
  <2>2. CASE closing = "draining"
    <3> SUFFICES ASSUME ~lateListen, NEW c \in Waiting PROVE FALSE
      BY <2>2 DEF MayClose, Drained
    <3>1. c \in Conns /\ conns[c] \in Conn /\ conns[c].caller = "waiting"
      BY <2>1 DEF Waiting
    <3>2. conns[c].kind \in Kinds \ {"stream"}
      BY <2>2, <3>1 DEF HeldBy, Streams, ConnInv, Fits, Conn
    <3>. QED
      BY <2>2, <3>1, <3>2, Handled DEF HeldBy
  <2>3. CASE closing = "hooks" /\ quitting
    <3>1. client = "ready"
      BY <2>1, <2>3 DEF ClientInv, Outage, MayReconnect
    <3>2. Queued = {}
      BY <3>1 DEF Queued, MayHandle
    <3>. QED
      BY <2>3, <3>1, <3>2 DEF MayClose, MayQuit
  <2>4. CASE closing = "hooks" /\ ~quitting
    BY <2>1, <2>4 DEF ClientInv, MayClose, MayQuit, Hooks
  <2>. QED
    BY <2>1, <2>2, <2>3, <2>4 DEF MayClose
<1>. QED
  BY <1>1, Going, PTL

(* A request under way has a step to take, or it is its own command or mail *)
(* that waits for the peer: an outage delays it and leaves it where a later *)
(* step finds it, and delays no other.                                      *)
THEOREM RequestsNeverStuck == Spec => []RequestsGoOn
<1>1. IInv /\ ConnInv => RequestsGoOn
  BY Handled DEF RequestsGoOn
<1>. QED
  BY <1>1, Going, PTL

(* The shutdown's steps, in their order. *)
Progressed == [no |-> 0, destroying |-> 1, draining |-> 2, hooks |-> 3, settled |-> 4]

(* app.close() never goes back, whatever signals repeat, and once the port  *)
(* is closed nobody new is waited for.                                      *)
Advances ==
    [][/\ Progressed[closing] <= Progressed[closing']
       /\ closing \notin {"no", "destroying"} /\ ~lateListen => Waiting' \subseteq Waiting]_vars

THEOREM ShutdownAdvances == Spec => Advances
<1> DEFINE Forward == Progressed[closing] <= Progressed[closing']
           Shrinks == closing \notin {"no", "destroying"} /\ ~lateListen => Waiting' \subseteq Waiting
<1>1. ASSUME IInv, [Next]_vars PROVE Forward
  <2>1. closing \in {"no", "destroying", "draining", "hooks", "settled"}
    BY <1>1 DEF IInv, TypeOK
  <2>2. UNCHANGED closing => Forward
    BY <2>1 DEF Progressed
  <2>3. ASSUME NEW s \in Signals, Signal(s) PROVE Forward
    <3>1. closing' = closing \/ (closing = "no" /\ closing' = "destroying")
      BY <1>1, <2>3 DEF Signal, FirstSignal, CloseApp, IInv, Shutdown
    <3>. QED
      BY <2>2, <3>1 DEF Progressed
  <2>4. CASE \/ CloseServer \/ Drain \/ HooksDone \/ (\E h \in Hooks : HookRejects(h))
    BY <2>4 DEF CloseServer, Drain, HooksDone, HookRejects, Progressed
  <2>5. CASE \/ Import \/ CreateApp \/ ConnectDb \/ Listen \/ BootFails \/ Reconnect \/ QuitRedis
             \/ QuitAnswered \/ DisconnectDb \/ Exit \/ RedisLost \/ RedisBack \/ MailServer
             \/ UNCHANGED vars \/ (\E c \in Conns : Handle(c) \/ GiveUp(c) \/ Leave(c))
             \/ (\E c \in Conns, kind \in Kinds : Accept(c, kind))
    BY <2>2, <2>5 DEF Import, CreateApp, ConnectDb, Listen, BootFails, Reconnect, QuitRedis,
       QuitAnswered, DisconnectDb, Exit, RedisLost, RedisBack, MailServer, Handle, Execute, HandOver, GiveUp, Query, Respond,
       Leave, Accept, vars, closeVars
  <2>. QED
    BY <1>1, <2>3, <2>4, <2>5 DEF Next, Progress
<1>2. ASSUME IInv, [Next]_vars PROVE Shrinks
  <2>1. conns \in [Conns -> Conn] /\ NoConn \in Conn
    BY <1>2 DEF IInv, TypeOK, NoConn, Conn
  <2>2. ASSUME NEW c \in Conns, Handle(c) \/ GiveUp(c) \/ Leave(c) PROVE Waiting' \subseteq Waiting
    <3>1. \A d \in Conns \ {c} : conns'[d] = conns[d]
      BY <2>1, <2>2 DEF Handle, Execute, HandOver, GiveUp, Query, Respond, Leave
    <3>2. conns'[c].caller \in {conns[c].caller, "gone"}
      BY <2>1, <2>2 DEF Handle, Execute, HandOver, GiveUp, Query, Respond, Leave, NoConn, Conn
    <3>. QED
      BY <3>1, <3>2 DEF Waiting
  <2>3. ASSUME NEW c \in Conns, NEW kind \in Kinds, Accept(c, kind) PROVE Shrinks
    BY <2>3 DEF Accept, PortOpen
  <2>4. UNCHANGED conns => Shrinks
    BY DEF Waiting
  <2>5. CASE \/ Progress \/ BootFails \/ RedisLost \/ RedisBack \/ MailServer \/ UNCHANGED vars
             \/ (\E s \in Signals : Signal(s)) \/ (\E h \in Hooks : HookRejects(h))
    BY <2>4, <2>5 DEF Progress, Import, CreateApp, ConnectDb, Listen, Reconnect, CloseServer, Drain,
       QuitRedis, QuitAnswered, DisconnectDb, HooksDone, Exit, BootFails, RedisLost, RedisBack,
       MailServer, Signal, HookRejects, vars
  <2>. QED
    BY <1>2, <2>2, <2>3, <2>5 DEF Next
<1>3. ASSUME IInv, [Next]_vars PROVE [Forward /\ Shrinks]_vars
  BY <1>1, <1>2, <1>3
<1>. QED
  BY <1>3, Inductive, PTL DEF Spec, Advances
=============================================================================

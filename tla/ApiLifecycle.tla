---------------------------- MODULE ApiLifecycle ----------------------------
(***************************************************************************)
(* The life of the API process (apps/api/src/main.ts): boot, the signals   *)
(* it owns, app.close() with its drain and its shutdown hooks, and the     *)
(* requests and streams under way meanwhile, with a Redis that comes and   *)
(* goes and a mail server that falls silent and answers again.             *)
(*                                                                         *)
(* app.listen() initialises the modules (PrismaService connects) and only  *)
(* then opens the port; the signal handlers are installed before it.       *)
(* app.close() closes the HTTP server, which waits for its connections,    *)
(* and then runs the onApplicationShutdown hooks, one module at a time.    *)
(***************************************************************************)
EXTENDS ApiConfig, Naturals, FiniteSets

CONSTANTS
    Environments,   \* the environments the process may be started with
    Conns,          \* connections to the HTTP server
    MaxSignals,     \* bound: signals sent to the process
    MaxOutages,     \* bound: Redis outages, and silences of the mail server
    MaxRequests     \* bound: requests accepted

ASSUME LifecycleAssumption ==
    /\ Environments \subseteq RawEnv
    /\ {MaxSignals, MaxOutages, MaxRequests} \subseteq Nat

Signals == {"SIGTERM", "SIGINT"}
Hooks   == {"redis", "prisma"}
Kinds   == {"otp", "mail", "plain", "stream"}

VARIABLES
    env,        \* process.env
    boot,       \* how far bootstrap() has come
    armed,      \* signals a handler waits for
    isShuttingDown,
    closing,    \* how far app.close() has come
    hooks,      \* shutdown hooks that have not returned
    quitting,   \* a QUIT waits in the offline queue
    exit,       \* how the process ended, or "running"
    conns,      \* the connections
    redisUp,    \* the Redis server answers
    mailUp,     \* the mail server answers
    client,     \* status of the ioredis client; "null" without one
    db,         \* the connection pool
    outages, silences, requests,  \* counters of the bounds
    received,   \* history: how often each signal was received
    closes,     \* history: times app.close() was called
    hookFailed, \* history: a hook rejected
    lateListen  \* history: the port was opened after the server had been closed

boundVars == <<outages, silences, requests>>
peers     == <<redisUp, mailUp>>
history   == <<received, closes, hookFailed, lateListen>>
closeVars == <<isShuttingDown, closing, hooks, quitting>>
vars == <<env, boot, armed, closeVars, exit, conns, peers, client, db, boundVars, history>>

(* A connection: what was asked, whether the caller still waits, and what  *)
(* the handler does next.                                                  *)
NoConn == [kind |-> "none", caller |-> "gone", at |-> "over"]
Conn   == [kind   : Kinds \cup {"none"},
           caller : {"waiting", "gone"},
           at     : {"redis", "smtp", "db", "open", "over"}]

Running == exit = "running"
Waiting == {c \in Conns : conns[c].caller = "waiting"}
Queued  == {c \in Conns : conns[c].at = "redis"}
Mailing == {c \in Conns : conns[c].at = "smtp"}
Outage  == client = "away" /\ ~redisUp

(* Every variable has its type, and app.close() is called once at most      *)
(* (main.ts:57), whichever signals arrive.                                  *)
TypeOK ==
    /\ env \in Environments
    /\ boot \in {"importing", "creating", "initialising", "listening"}
    /\ armed \subseteq Signals
    /\ isShuttingDown \in BOOLEAN
    /\ closing \in {"no", "destroying", "draining", "hooks", "settled"}
    /\ hooks \subseteq Hooks
    /\ quitting \in BOOLEAN
    /\ exit \in {"running", "clean", "error", "killed"}
    /\ conns \in [Conns -> Conn]
    /\ redisUp \in BOOLEAN
    /\ mailUp \in BOOLEAN
    /\ client \in {"null", "wait", "ready", "away", "ended"}
    /\ db \in {"idle", "open", "released"}
    /\ outages \in 0..MaxOutages
    /\ silences \in 0..MaxOutages
    /\ requests \in 0..MaxRequests
    /\ received \in [Signals -> 0..MaxSignals]
    /\ closes \in 0..1
    /\ hookFailed \in BOOLEAN
    /\ lateListen \in BOOLEAN

Init ==
    /\ env \in Environments
    /\ boot = "importing"
    /\ armed = {}
    /\ isShuttingDown = FALSE
    /\ closing = "no"
    /\ hooks = Hooks
    /\ quitting = FALSE
    /\ exit = "running"
    /\ conns = [c \in Conns |-> NoConn]
    /\ redisUp \in BOOLEAN
    /\ mailUp = TRUE
    /\ client = "null"
    /\ db = "idle"
    /\ outages = 0
    /\ silences = 0
    /\ requests = 0
    /\ received = [s \in Signals |-> 0]
    /\ closes = 0
    /\ hookFailed = FALSE
    /\ lateListen = FALSE

-----------------------------------------------------------------------------
(* Boot. *)

(* ConfigModule.forRoot validates the environment while AppModule is        *)
(* imported; then NestFactory.create instantiates the providers.  The Redis *)
(* client is made lazily connecting, or not at all.                         *)
Import ==
    /\ Running
    /\ boot = "importing"
    /\ \/ /\ ~ValidEnv(env)
          /\ exit' = "error"
          /\ UNCHANGED <<boot, client>>
       \/ /\ ValidEnv(env)
          /\ boot' = "creating"
          /\ client' = IF NotificationConfig(env).storage = "redis" THEN "wait" ELSE "null"
          /\ UNCHANGED exit
    /\ UNCHANGED <<env, armed, closeVars, conns, peers, db, boundVars, history>>

(* The part of bootstrap() between its two awaits. *)
ArmedAtCreateNever == {}  \* mutant: the handlers are installed after app.listen()
ArmedAtCreate == Signals

CreateApp ==
    /\ Running
    /\ boot = "creating"
    /\ boot' = "initialising"
    /\ armed' = ArmedAtCreate
    /\ UNCHANGED <<env, closeVars, exit, conns, peers, client, db, boundVars, history>>

(* PrismaService.onModuleInit. *)
ConnectDb ==
    /\ Running
    /\ boot = "initialising"
    /\ db = "idle"
    /\ db' = "open"
    /\ UNCHANGED <<env, boot, armed, closeVars, exit, conns, peers, client, boundVars, history>>

(* The port is opened, though a shutdown may have begun meanwhile. *)
Listen ==
    /\ Running
    /\ boot = "initialising"
    /\ db # "idle"
    /\ boot' = "listening"
    /\ lateListen' = (closing \notin {"no", "destroying"})
    /\ UNCHANGED <<env, armed, closeVars, exit, conns, peers, client, db, boundVars,
                   received, closes, hookFailed>>

(* $connect or listen rejects: nobody catches bootstrap()'s rejection. *)
BootFails ==
    /\ Running
    /\ boot = "initialising"
    /\ exit' = "error"
    /\ UNCHANGED <<env, boot, armed, closeVars, conns, peers, client, db, boundVars, history>>

-----------------------------------------------------------------------------
(* Requests.  An OTP request uses the storage, may deliver the code by      *)
(* mail, and ends with the database; an email, a dispatch or an auth demo   *)
(* hands its mail over and logs it; any other is a query; a stream stays    *)
(* until its caller leaves.                                                 *)
PortOpen == boot = "listening" /\ (closing \in {"no", "destroying"} \/ lateListen)

FirstLeg(kind) == CASE kind = "otp"    -> "redis"
                    [] kind = "mail"   -> "smtp"
                    [] kind = "plain"  -> "db"
                    [] kind = "stream" -> "open"

Accept(c, kind) ==
    /\ Running
    /\ PortOpen
    /\ conns[c].kind = "none"
    /\ requests < MaxRequests
    /\ requests' = requests + 1
    /\ conns' = [conns EXCEPT ![c] = [kind |-> kind, caller |-> "waiting", at |-> FirstLeg(kind)]]
    /\ UNCHANGED <<env, boot, armed, closeVars, exit, peers, client, db, outages, silences,
                   history>>

(* The caller goes away: the socket closes, the handler runs on; a stream   *)
(* has none and is over.                                                    *)
Leave(c) ==
    /\ Running
    /\ c \in Waiting
    /\ conns' = [conns EXCEPT ![c] = IF @.kind = "stream" THEN NoConn
                                     ELSE [@ EXCEPT !.caller = "gone"]]
    /\ UNCHANGED <<env, boot, armed, closeVars, exit, peers, client, db, boundVars, history>>

(* A command: the in-memory store answers, a lazy client connects first, a  *)
(* ready one executes.  With maxRetriesPerRequest null a command stays in   *)
(* the offline queue while Redis is away and never fails; once the client   *)
(* has ended it is rejected.                                                *)
Execute(c) ==
    /\ Running
    /\ conns[c].at = "redis"
    /\ \/ /\ client \in {"null", "ready"}
          /\ \E leg \in {"smtp", "db"} : conns' = [conns EXCEPT ![c].at = leg]
          /\ UNCHANGED client
       \/ /\ client = "wait"
          /\ client' = IF redisUp THEN "ready" ELSE "away"
          /\ UNCHANGED conns
       \/ /\ client = "ended"
          /\ conns' = [conns EXCEPT ![c].at = "over"]
          /\ UNCHANGED client
    /\ UNCHANGED <<env, boot, armed, closeVars, exit, peers, db, boundVars, history>>

(* sendMail: a mail server that answers takes the mail or refuses it, and   *)
(* the outcome is logged either way.                                        *)
HandOver(c) ==
    /\ Running
    /\ c \in Mailing
    /\ mailUp
    /\ conns' = [conns EXCEPT ![c].at = "db"]
    /\ UNCHANGED <<env, boot, armed, closeVars, exit, peers, client, db, boundVars, history>>

(* The transport is made from the URL alone and sets no time limit: when a  *)
(* silent server is given up on is the library's affair.                    *)
GiveUp(c) ==
    /\ Running
    /\ c \in Mailing
    /\ ~mailUp
    /\ conns' = [conns EXCEPT ![c].at = "db"]
    /\ UNCHANGED <<env, boot, armed, closeVars, exit, peers, client, db, boundVars, history>>

(* The last query of a request.  A released client connects anew. *)
Query(c) ==
    /\ Running
    /\ conns[c].at = "db"
    /\ conns' = [conns EXCEPT ![c].at = "over"]
    /\ UNCHANGED <<env, boot, armed, closeVars, exit, peers, client, db, boundVars, history>>

(* The answer, for whoever still waits for it. *)
Respond(c) ==
    /\ Running
    /\ conns[c].kind # "none"
    /\ conns[c].at = "over"
    /\ conns' = [conns EXCEPT ![c] = NoConn]
    /\ UNCHANGED <<env, boot, armed, closeVars, exit, peers, client, db, boundVars, history>>

(* The mail server falls silent, or answers again. *)
MailServer ==
    /\ Running
    /\ \/ mailUp /\ silences < MaxOutages /\ silences' = silences + 1
       \/ ~mailUp /\ UNCHANGED silences
    /\ mailUp' = ~mailUp
    /\ UNCHANGED <<env, boot, armed, closeVars, exit, conns, redisUp, client, db, outages,
                   requests, history>>

RedisLost ==
    /\ Running
    /\ redisUp
    /\ outages < MaxOutages
    /\ outages' = outages + 1
    /\ redisUp' = FALSE
    /\ client' = IF client = "ready" THEN "away" ELSE client
    /\ UNCHANGED <<env, boot, armed, closeVars, exit, conns, mailUp, db, silences, requests,
                   history>>

RedisBack ==
    /\ Running
    /\ ~redisUp
    /\ redisUp' = TRUE
    /\ UNCHANGED <<env, boot, armed, closeVars, exit, conns, mailUp, client, db, boundVars, history>>

(* redisRetryStrategy never gives up: the client connects once it can, and  *)
(* sends what was queued, a QUIT last.                                      *)
RetriesOnce == outages = 0  \* mutant: no delay, hence no retry, for a later outage
RetriesAlways == TRUE

Reconnect ==
    /\ Running
    /\ RetriesAlways
    /\ client = "away"
    /\ redisUp
    /\ client' = "ready"
    /\ UNCHANGED <<env, boot, armed, closeVars, exit, conns, peers, db, boundVars, history>>

-----------------------------------------------------------------------------
(* Shutdown. *)

CloseApp ==
    /\ closes' = closes + 1
    /\ closing' = "destroying"

(* The handlers are removed by once() as they run; a signal without one     *)
(* terminates the process. *)
FirstSignal == ~isShuttingDown

Signal(s) ==
    /\ Running
    /\ received[s] < MaxSignals
    /\ received' = [received EXCEPT ![s] = @ + 1]
    /\ \/ /\ s \notin armed
          /\ exit' = "killed"
          /\ UNCHANGED <<armed, isShuttingDown, closing, closes>>
       \/ /\ s \in armed
          /\ armed' = armed \ {s}
          /\ isShuttingDown' = TRUE
          /\ \/ FirstSignal /\ CloseApp
             \/ ~FirstSignal /\ UNCHANGED <<closing, closes>>
          /\ UNCHANGED exit
    /\ UNCHANGED <<env, boot, hooks, quitting, conns, peers, client, db, boundVars,
                   hookFailed, lateListen>>

(* The destroy hooks, of which the application has none; then the server    *)
(* stops listening, and close() waits for its connections.                  *)
CloseServer ==
    /\ Running
    /\ closing = "destroying"
    /\ closing' = "draining"
    /\ UNCHANGED <<env, boot, armed, isShuttingDown, hooks, quitting, exit, conns, peers,
                   client, db, boundVars, history>>

DrainedAtOnce == TRUE  \* mutant: Redis and Prisma are released in onModuleDestroy
Drained == Waiting = {}

Drain ==
    /\ Running
    /\ closing = "draining"
    /\ Drained \/ lateListen
    /\ closing' = "hooks"
    /\ UNCHANGED <<env, boot, armed, isShuttingDown, hooks, quitting, exit, conns, peers,
                   client, db, boundVars, history>>

HookReturns(h) == hooks' = hooks \ {h} /\ UNCHANGED hookFailed

(* RedisModule.onApplicationShutdown.  QUIT on a client that is not ready   *)
(* disconnects at once, unless commands are queued before it.               *)
QuitRedis ==
    /\ Running
    /\ closing = "hooks"
    /\ "redis" \in hooks
    /\ ~quitting
    /\ \/ /\ client = "null"
          /\ HookReturns("redis")
          /\ UNCHANGED <<client, quitting>>
       \/ /\ client \in {"wait", "ready"} \/ (client = "away" /\ Queued = {})
          /\ client' = "ended"
          /\ HookReturns("redis")
          /\ UNCHANGED quitting
       \/ /\ client = "away"
          /\ Queued # {}
          /\ quitting' = TRUE
          /\ UNCHANGED <<client, hooks, hookFailed>>
    /\ UNCHANGED <<env, boot, armed, isShuttingDown, closing, exit, conns, peers, db,
                   boundVars, received, closes, lateListen>>

(* The queued QUIT is answered, once what was queued before it has been. *)
QuitAnswered ==
    /\ Running
    /\ quitting
    /\ client = "ready"
    /\ Queued = {}
    /\ quitting' = FALSE
    /\ client' = "ended"
    /\ HookReturns("redis")
    /\ UNCHANGED <<env, boot, armed, isShuttingDown, closing, exit, conns, peers, db,
                   boundVars, received, closes, lateListen>>

(* PrismaService.onApplicationShutdown. *)
DisconnectDb ==
    /\ Running
    /\ closing = "hooks"
    /\ "prisma" \in hooks
    /\ ~quitting
    /\ db' = "released"
    /\ HookReturns("prisma")
    /\ UNCHANGED <<env, boot, armed, isShuttingDown, closing, quitting, exit, conns, peers,
                   client, boundVars, received, closes, lateListen>>

(* A hook rejects: close() rejects, and the hooks after it do not run. *)
HookRejects(h) ==
    /\ Running
    /\ closing = "hooks"
    /\ h \in hooks
    /\ ~hookFailed
    /\ h = "redis" => client \in {"ready", "away"}
    /\ quitting => h = "redis"
    /\ closing' = "settled"
    /\ hookFailed' = TRUE
    /\ UNCHANGED <<env, boot, armed, isShuttingDown, hooks, quitting, exit, conns, peers,
                   client, db, boundVars, received, closes, lateListen>>

HooksDone ==
    /\ Running
    /\ closing = "hooks"
    /\ hooks = {}
    /\ closing' = "settled"
    /\ UNCHANGED <<env, boot, armed, isShuttingDown, hooks, quitting, exit, conns, peers,
                   client, db, boundVars, history>>

(* .catch(...).finally(() => process.exit(0)) *)
MayExitAtOnce == isShuttingDown  \* mutant: exit() does not wait for close()
MayExitOnSuccess == closing = "settled" /\ ~hookFailed  \* mutant: then(), not finally()
MayExit == closing = "settled"

Exit ==
    /\ Running
    /\ MayExit
    /\ exit' = "clean"
    /\ UNCHANGED <<env, boot, armed, closeVars, conns, peers, client, db, boundVars, history>>

-----------------------------------------------------------------------------
Handle(c) == Execute(c) \/ HandOver(c) \/ Query(c) \/ Respond(c)

Progress == Import \/ CreateApp \/ ConnectDb \/ Listen \/ Reconnect \/ CloseServer \/ Drain
            \/ QuitRedis \/ QuitAnswered \/ DisconnectDb \/ HooksDone \/ Exit

Next ==
    \/ Progress
    \/ BootFails
    \/ RedisLost
    \/ RedisBack
    \/ MailServer
    \/ \E c \in Conns : Handle(c) \/ GiveUp(c) \/ Leave(c)
    \/ \E c \in Conns, kind \in Kinds : Accept(c, kind)
    \/ \E s \in Signals : Signal(s)
    \/ \E h \in Hooks : HookRejects(h)

Spec == Init /\ [][Next]_vars

(* Node runs every continuation; Postgres, and Redis and the mail server    *)
(* while they are up, answer.  Nobody need leave, Redis need not come back, *)
(* and a silent mail server need not be given up on.                        *)
FairSpec == /\ Spec
            /\ WF_vars(Progress)
            /\ \A c \in Conns : WF_vars(Handle(c))

-----------------------------------------------------------------------------
(* A clean exit ends a shutdown in which every shutdown hook returned, or   *)
(* one of them rejected (main.ts:55-67): no pool or client is left behind   *)
(* because signals arrived in some order, or the exit did not wait.         *)
ExitIsOrderly ==
    exit = "clean" => closes > 0 /\ (hooks = {} \/ hookFailed)

(* Redis and Postgres are released, and the process exits, only when no     *)
(* caller waits for an answer any more: app.close() drains before the       *)
(* onApplicationShutdown hooks.  A port that was opened after the drain,    *)
(* because the signal came while the modules were initialised, is the       *)
(* exception.                                                               *)
NobodyIsCutOff ==
    (exit = "clean" \/ db = "released" \/ client = "ended") /\ ~lateListen => Waiting = {}

(* A signal kills the process only if it came before bootstrap() had        *)
(* installed its handlers, or for a second time; in particular not while    *)
(* the database connects, nor because the other signal came first.          *)
KilledForCause ==
    [][exit' = "killed" => \/ boot \in {"importing", "creating"}
                           \/ \E s \in Signals : received[s] > 0 /\ received'[s] > received[s]]_vars

(* A shutdown ends: if it has begun and the process never ends, then       *)
(* app.close() waits for ever for something that never comes.  In the drain *)
(* that is a caller who holds a stream, whose command is queued for a Redis *)
(* that stays away, or whose mail a silent mail server never answers; in    *)
(* the hooks it is a QUIT queued for such a Redis, and nothing else.        *)
(* Neither a rejected hook, nor a repeated signal, nor a request whose      *)
(* caller has left, nor an outage that nobody waits for keeps it alive.     *)
HeldBy(cause) == closing = "draining" /\ ~lateListen /\ Waiting \cap cause # {}

ShutdownEnds ==
    <>[](isShuttingDown /\ Running)
        => \/ <>[]HeldBy({c \in Conns : conns[c].kind = "stream"})
           \/ <>[](Outage /\ (quitting \/ HeldBy(Queued)))
           \/ <>[](~mailUp /\ HeldBy(Mailing))

(* A request ends, unless the process does: one without code or mail in any *)
(* case, an OTP request unless its own command waits for a Redis that stays *)
(* away, and one that sends mail unless its own mail waits for a silent     *)
(* server.  A command waits for the whole of an outage, but is not lost in  *)
(* it, and neither peer holds up a request that does not need it.           *)
RequestsEnd ==
    \A c \in Conns : <>[](conns[c].kind \in Kinds \ {"stream"} /\ Running)
                        => \/ <>[](Outage /\ c \in Queued)
                           \/ <>[](~mailUp /\ c \in Mailing)
=============================================================================

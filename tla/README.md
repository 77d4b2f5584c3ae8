# Verification of nest-notification-example

TLA+ models of the parts of this repository whose correctness depends on the order in which
things happen, or on several pieces of code agreeing: the audit log and its live tail, the console
that shows them, the one-time codes, the mails, and the life of the API process. Each module
translates the source; TLC checks it on small instances; TLAPS proves the most important
properties for every value of the constants. `PROJECT.json` maps every definition to the lines it
stands for.

To check a run: `tlc -config Tail.cfg MCAuditTail`. To check the proofs of a module:
`tlapm AuditTailProofs.tla`.

## 1. The system

`apps/api` is a NestJS service around the library `@bymax-one/nest-notification`, which is a
dependency and not part of the repository. `apps/web` is a Next.js console. They meet in three
places: the audit list and aggregate (`GET /audit/logs`, `/audit/aggregate`), the audit stream
(`GET /audit/stream`, an SSE endpoint reached through a proxy route of the console) and the
operations (`/otp/*`, `/dispatch/*`, `/email/*`).

```
 operations ──> library ──> PrismaNotificationLogRepository.create ──> Postgres
        │                               │ after the commit
        └──> renderer ──> SMTP          v
                                 AuditEventBus ──> AuditSseController ──> proxy ──> useAuditStream ──┐
                                        ^ replay (Last-Event-ID)                                      v
                                        Postgres ──> AuditController.list ──> useAuditLogs ──> Explorer, follow mode
 OTP panel, Trigger Center ──> OtpController, EmailController, DispatchController ──> library
 Overview ──> AuditController.aggregate ──> AuditAggregateService ──> Postgres
 query bar, rail, drawer, links ──> the URL ──> useAuditQuery (one per view) ──> list, stream, aggregate
 signals ──> main.ts ──> app.close() ──> HTTP server, Redis, Prisma
```

| Component | State | Operations | Interaction | What must hold |
|---|---|---|---|---|
| Audit write path, event bus (`prisma-notification-log.repository.ts`, `audit-event.bus.ts`) | rows, an RxJS subject | `create`, `publishPersisted`, `replaySince` | library → Postgres → every open stream | only committed rows are announced; a resume loses nothing |
| SSE endpoint (`audit-sse.controller.ts`) | one merged stream per connection | `stream` | replay ∪ live feed ∪ keep-alive | tenants are isolated; the filter of the replay and of the feed agree |
| Proxy route (`app/api/audit/stream/route.ts`) | none | `GET` | browser → API, passes `Last-Event-ID` on | an unreachable API ends the tail, it does not hang |
| Audit list (`audit.controller.ts`, `use-audit-logs.ts`, `log-table.tsx`) | pages on screen, a fetch under way | open, next page, refresh, retry | console ↔ API ↔ Postgres, rows being written meanwhile | pages do not drift: no duplicate, no gap |
| Live-tail hook (`lib/sse.ts`) | EventSource, pending rows, frame handle, ring buffer, timers, three React states | effect, `onopen`, `onerror`, `onmessage`, flush, idle stop, clear | browser callbacks in any order | rows are not skipped, repeated, or shown under another filter; the status does not lie |
| Follow mode (`use-follow-mode.ts`, `explorer-content.tsx`) | pinned, explicit pause, new-rows count, previous count | paint effect, scroll event, pause, resume, jump | React paint → effect → scroll event | a table told to follow follows; the pill counts what was missed |
| Explorer page (`explorer-content.tsx`, `query-bar.tsx`, `facet-rail.tsx`, `detail-drawer.tsx`, `tenant-role-switcher.tsx`, `live-toggle.tsx`) | the URL, drafts, two compiled queries with a ticker each, the row in the drawer, history and tail | type, submit, clear, facet click, pivot, open and close a row, tenant, role, live toggle | all of them write one URL and read it back | the bar says what the URL filters for; a count or a pivot leads to the rows it names; what the table lacks or repeats has a reason |
| OTP endpoints (`otp.controller.ts`, `otp-verify-mapping.ts`) | codes and cooldowns (in the library) | generate, resend, verify, consume | console ↔ API ↔ Redis | attempts are bounded; a consumed code is gone |
| OTP panel (`otp-verify-panel.tsx`) | selection, session, feedback, busy flag | generate, resend, verify, consume, purpose change, countdown | requests overlap the user and the clocks | what is shown is about the code on screen, and true |
| Console filter state (`lib/filters.ts`, `lib/explorer-link.ts`, `audit-query.dto.ts`) | the URL, a 30 s clock | set a filter, compile a query, build a link | feeds the list, the stream, the charts | a relative window keeps up with the clock; a link opens on what it is about, and the API accepts it |
| Aggregates (`audit-aggregate.service.ts`, `use-aggregate.ts`, `overview-content.tsx`) | one cached series per query | SQL grouping, zero fill, the panels over it | charts ↔ API ↔ Postgres | buckets partition the window and count every row once; panels of one page agree |
| Facets and metrics (`audit-facets.ts`, `metrics.ts`) | none | counts of the rows loaded | facet rail, overview | part of the two components above |
| Dispatch and email endpoints (`dispatch-input.decorator.ts`, `email.controller.ts`) | none | dispatch, send, send-template | library → providers → audit log | the trusted tenant wins; every dispatch leaves a boundary row; a failing log fails no request |
| Email providers and renderers (`auth-email.provider.ts`, `nodemailer-email.provider.ts`, `renderers/`, `templates.ts`, the console's preview) | the request an adapter serves | render, send, the seven methods of the auth port | controllers and nest-auth → SMTP | nobody is told of a mail that did not leave; no mark-up of a user's in a body; every hole is filled |
| Trigger center (`trigger-card.tsx`, `trigger-grid.tsx`, `lib/trigger-api.ts`) | per card: firing, last result | fire a script of calls | console → operations, in any order | a card ends as its label says, and the log has the row it announces |
| Configuration (`env.schema.ts`, `notification.config.ts`) | none | validate, choose provider and storage | read at boot | production never starts on a local database |
| Process life cycle (`main.ts`, Redis, Prisma) | connections, signal handlers, hooks | boot, signal, drain, hooks, exit | signals, open streams, Redis outages | a shutdown ends, orderly, and cuts nobody off |
| Probes, health, debug; presentation | none | reads, rendering | — | — |

**What is hard here.** A row is stamped before its INSERT, committed by Postgres later, and
announced later still, when `create` resumes; the replay's query is issued when a stream opens,
sees the table some time later and is drained row by row while the live feed already runs; the
browser moves its cursor with every row it receives, whichever of the two sent it; pages of one
scan are read through windows fixed at different times; rows wait for animation frames while
effects, clears and filter changes run; a scroll event reports a position of a list that has
grown since; every answer to an OTP request arrives at a panel that may have moved on; the table
and the rail compile the same URL at different ticks, and the drafts of the query bar are a second
copy of two of its parameters; a mail may be taken and its reply lost; and signals arrive while the
server boots, drains or waits for a Redis that is away. The hazards are listed, with their lines and the properties aimed at them, in `PROJECT.json`.

## 2. Modules

| Module | Models | Built on |
|---|---|---|
| `AuditRows` | rows, their keyset order, `buildWhere`, `matches`, the two keyset clauses | – |
| `TailContract` | abstract: what the live tail promises | `AuditRows` |
| `AuditTail` | write path, event bus, SSE endpoint, EventSource, crashes | `AuditRows`; implements `TailContract` |
| `KeysetPages` | `AuditController.list` and the infinite query over it | `AuditRows` |
| `LiveStream` | `useAuditStream`, `subscribeAuditStream`, `RingBuffer` | – |
| `ExplorerLive` | follow mode over the rows of the stream | extends `LiveStream` |
| `OtpService` | the codes behind `/otp/*` | – |
| `OtpPanel` | `useOtpController` and its runners | extends `OtpService` |
| `ConsoleUrl` | what the code makes of a URL: query, tenant, links, what the API accepts (pure) | `AuditRows` |
| `TriggerCenter` | the cards, their scripts, the endpoints they call, the audit log | extends `OtpService`, `ConsoleUrl` |
| `ConsolePage` | the clock, the address bar and the committed rows that both pages are over | extends `ConsoleUrl` |
| `AuditOverview` | the relative window's ticker, the cached series, the aggregate query, the panels | extends `ConsolePage` |
| `ExplorerView` | the Explorer page around its table: every control that writes the URL, and what is on screen | extends `ConsolePage` |
| `EmailTemplates` | the registry, the three renderers, the console's preview (pure) | – |
| `EmailDelivery` | a mail's way from a route to SMTP and to the log | extends `EmailTemplates` |
| `ApiConfig` | the environment, its guards, the choices made of it (pure) | – |
| `ApiLifecycle` | boot, signals, drain, shutdown hooks, Redis outages | extends `ApiConfig` |
| `MC*` | constants of the instances TLC checks | one each |
| `*Proofs` | the theorems | the module proved; `LiveStreamProofs` also proves `ExplorerLive`, `ExplorerViewProofs` also `AuditOverview` |

### AuditRows

A row keeps its timestamp, an `id` that stands for the uuid's place in the order, and what
the filters can tell apart: tenant, the columns compared for equality, and the search terms
its error text contains. `Where` is `buildWhere` with the window already fixed, `Matches` is the
predicate the live feed applies; `NewerThan` and `OlderThan` are the keyset clauses of the
replay and of the list. A `findMany` with `take` is `FirstAsc` (ascending) or `IsFirstDesc`
(descending).

### AuditTail and TailContract

One action per continuation of the asynchronous code. `BeginCreate` stamps the row; `Commit`
is Postgres; `Publish` is `create` resuming; `FailCreate` is a rejected INSERT. `Connect` runs
the controller: it decodes the id, fixes the replay's window, and subscribes the live feed in
the same turn; `RunReplayQuery` is the moment the `findMany` sees the table; `EmitReplayed` is
one step of the async generator. The browser's half is `ReceiveRow`, `ReceivePing`, `Close` and
the reconnect; `ConnectRefused` is the proxy's answer when the API is down. `Crash` loses what
was not announced and keeps a subset of the INSERTs under way.

Three variables are history, read by no guard, as is the mark in the frames of which source sent
a row: `since` (what was in the table when a client first connected), `hazard` (what its resumes
were exposed to) and `late` (by source, the rows it was still owed when a newer row moved its
cursor past them). Three hazards say of a whole resume that it may lose rows: `blank` (the last
event id was not a row's), `truncated` (more than `REPLAY_LIMIT` rows were missed) and `window` (a
pinned or late window excludes a row). The other two ways in which the code loses, repeats or
reorders rows are said row by row in `late`: a row announced after a newer one, and a row of a
replay that a live row overtook. Only rows in `late` may be missing (`LossIsExplained`) or out of
order (`OutOfOrderIsLate`), which covers the row that is sent twice.

`TailContract` says what remains when all of that is abstracted: while a client is attached, a
row recorded in its scope becomes owed to it, what is owed leaves the feed only by delivery or
detachment, and nothing is delivered that was not owed. `ImplementsContract` instantiates it
with the rows on the wire, left in the replay, or committed and not yet announced.

### KeysetPages

`Ask` fixes the window, `Answer` reads the table, `Receive` adds the page: three steps, so that
rows are stamped and committed between any two. `Refresh` rebuilds the pages one by one and
replaces them together, `FetchNextPage` cancels it, `FetchFails` retries or gives up. The
infinite query itself (TanStack Query) is external and modelled from the options `useAuditLogs`
passes it.

### LiveStream and ExplorerLive

`RunEffect` is the effect's cleanup and body in one turn. `Flush` is the animation frame;
`FlushThrows` is the same frame after more rows than the engine takes as arguments of
`push(...items)` (`MaxSpread`), which loses the batch and leaves the frame handle set. An
absolute range turns the tail off (`enabled` is `live && isRelative`): it is one of the changes
`Toggle` makes. `arrived` and `lost` are history.

`ExplorerLive` adds `Paint`, `FollowEffect` and `ScrollEvent`, each a step of its own, and the
user. The Live switch (`live`) is kept apart from `enabled`: the bar, the pill and the live rows
hang on the switch alone, so over an absolute range the rows stay in the list, with no stream
(`SwitchLive`). `Paint` may find the list itself longer or shorter (`loaded`): a page fetched, a
query replaced, which moves the end of the table and is no news to the follow mode. Geometry is
counted in rows: `ROW_HEIGHT` is 36 px and `PINNED_THRESHOLD` 48 px, so
`PinnedBelow` is 1. `missed`, `replaced`, `following` and `spoiled` are history.

### OtpService and OtpPanel

`OtpService` says of the library what `otp.controller.ts`, `otp-verify-mapping.ts` and the
end-to-end tests rely on and observe. `OtpPanel` has one action per click, per clock, per
handling of a request and per return of a runner; a request may be refused (`Refuse`), may fail
before the API saw it or after (`Throw`), and any number may overlap. A tenant and a recipient
count as one addressee (`who`): the panel treats them alike. Four variables are history, one for
each way panel and service may part: `overlapped` (a request was started during another one),
`strays` (the purposes whose answers landed under another one, until the next selection, session
or consume), `unaware` (references whose code a consume took, its answer lost or early) and
`cleared` (sessions that an accepted consume of their own ended). The properties name nothing
wider than these: an answer that lands after a switch shows its own purpose and no other, and a
session whose code is gone is one a consume took.

### ConsoleUrl, TriggerCenter and AuditOverview

`CompileQuery` is the memo of `useAuditQuery`: a known range token gives a window that ends at
the clock rounded down to `NOW_QUANTUM`; channel and verb tokens no one knows are dropped, a
purpose is not. `Accepted` is what `auditQuerySchema` and the validation pipe say of the request
that `EncodeAuditQuery` makes of it: 400 for a purpose that is not among `AuditPurposes`.
`ResolveTenantId` is what the API makes of the header, `ExplorerHref` the URL of a link, with
`DEFAULT_RANGE`. The schema's checks of dates and of the length of a text are left out: the console
compiles dates itself, and no property is about what else a user may put in a URL.

In `TriggerCenter` each card is a script of calls (`Script`), each call a request that is
handled (`Handle`), refused, or lost before or after the API saw it; fires of different cards
interleave call by call. An OTP fire has an address of its own (`FreshOtpRecipient`), as the
code gives it a uuid. `Toast` is what the card says of a result, which `OutcomeMatchesLabel`
compares with its label. What the library logs is external (`VerbOf`, `ServiceRow`); what the
application adds is translated: the trusted tenant (`DispatchTenant`) and the dispatch put on
the request for the interceptor (`BoundaryRow`). A lost row, a lapse under a running script and
a lucky guess are recorded in `spoiled`, which excuses the card it happened to. Every demo address
has the same mask, so the recipient of a link is one value. The clock is `AuditOverview`'s subject:
rows are stamped 0, and `LinkFitsRows` quantifies over the instant of the row within a tick and over
its age when the link is clicked.

`AuditOverview` has the clock. `ChangeUrl` changes the URL under a mounted view, where the effect
leaves a running interval alone; `SetNowTick` is the interval firing; `Mount` starts afresh. `Answer` computes the series in one
snapshot: `Grid` starts at the bucket that holds `from`, both subqueries apply window, tenant and
source (and none of the other filters), and the bucket width may come from a second reading of the
clock. Browser and API host share the clock; cached entries are kept with the rows they were
computed from (history). `DeliverySeries` and the operators next to it are the panels, which read
the same series in different ways. They add up counts with `Sum`, which is the number of pairs of a
bucket and a number up to its count: a sum without a fold, so that it can be reasoned about.

### ExplorerView

The page has one URL (`url`) and two views that compile it, the table and the rail, each with a
memo (`compiled`) and an interval (`ticker`) of its own: between two ticks they hold different
queries, and the rail counts the rows of its own. Every control is an action, and the whole of what
its handler does: `SetQuery` recompiles, restarts the tail if the effect's dependencies changed
(`StreamEffect`), and drops a history no view asks for (`Forget`). `SyncDrafts` is the effect of
the query bar, with the focus it looks at. The drawer is modal (`Free`). A history is one read
(`Read`), with the window `buildWhere` defaults; paging is `KeysetPages`'s subject, frames and
connection errors are `LiveStream`'s. `typed`, `read` and the time a tail opened are history.

### EmailTemplates and EmailDelivery

What is said of a hole of a template is one of `Data`: blank, plain, mark-up, its escaped form, or a
secret. A template is the set of holes of each of its parts, a renderer a function from a template
and data to what is shown in each hole, so that three renderers and the console's preview can be
compared. Layout is left out.

`EmailDelivery` has one action per await: a request arrives, is rejected by its schema or handled,
refused by the library or delivered, answered; its rows are stored, or lost, by themselves. The SMTP
server takes a mail, refuses it, or takes it and loses the reply. `injected` is the request the
auth adapter reads its tenant from: `Scope.REQUEST` gives every request an adapter of its own
(`ServedBy`). The routes are those of the email, dispatch and auth-demo controllers, nest-auth's
calls, and `OtpController` with `deliverVia` email, whose mail carries what the controller merges
into the caller's data (`OtpMailData`); a dispatched code passes the caller's data on as it is
(`OtpPayloadData`). Of an OTP request only the mail is here. `HolesAreFilled` speaks of the mails
whose data the application chooses (`Ours`), except for the two holes the adapter never fills
(`LeftBlank`).

### ApiConfig and ApiLifecycle

An environment is a record of what may be said of each of the 13 variables (unset, malformed,
zero, blank, local, remote, ...). `ValidEnv` is the schema with its defaults and the guards of
production; `NotificationConfig` is what the module options choose of it. `ApiLifecycle` boots under one of them, await by await:
`Import` validates, `CreateApp` installs the handlers, `ConnectDb` and `Listen` are
`app.listen()`. `Signal` is the handler, which `once` has removed when it runs; `CloseServer`,
`Drain`, the hooks and `Exit` are `app.close()` and what follows it. The Redis client is lazy
and queues commands while it is away, a QUIT after them. A request is of one of four `Kinds`: an
OTP request goes to Redis, then Postgres; one that sends mail is handed to the mail server
(`HandOver`), then Postgres; a plain one is a query; a stream stays open. The mail server may fall
silent (`MailServer`): the transport is made from the URL alone, so when a silent server is given
up on (`GiveUp`) is the library's affair, and may be never. `Drain` does not wait when the port was
opened after the server had been closed (a signal during boot).

## 3. Runs

| Run | Bounds | Checks |
|---|---|---|
| `Tail` | 2 tenants, 3 kinds of rows, 2 rows, 1 client, 1 fault, no state constraint | `TenantIsolation`, `OnlyCommittedMatches`; refinement `ImplementsContract`; `AnnouncedRowsArrive`, `ResumeSettles` under `FairSpec` |
| `TailResume` | 3 rows, 2 milliseconds, replay limit 1, 2 faults, an open and a pinned window | `LossIsExplained`, `OutOfOrderIsLate` |
| `TailGapless` | as `TailResume` | finding: `ResumeIsGapless` is violated |
| `Pages` | 3 rows, 3 milliseconds, pages of 1, window 1, 4 fetches, 2 queries | `PagesDescend`, `NoStableRowSkipped`, `OnlyAskedRows` |
| `Stream` | capacity 2, 5 rows, spread limit 3, 2 idle checks, 2 filters, 2 changes | `TailIsNewest`, `NoStaleRows`, `StatusFollowsSource`; `PendingIsShown` under `StreamFairSpec` |
| `Follow` | capacity 1, 3 rows, 1 change, 1 filter, a list of 0 or 1 row | `PillCountsArrivals`, `FollowsUnlessSpoiled` |
| `Otp` | 2 purposes, 2 addressees, 1 attempt, 2 codes, 3 requests | `ShownIsSelected`, `SessionHasCode`, `SuccessIsValidated` |
| `Trigger` | 8 cards, 2 fires, 1 attempt, 1 fault, 3 tenants, quantum 2, a link's window 2 | `TrustedTenant`, `OutcomeMatchesLabel`, `AuditedAsTold`, `LinkFitsRows` |
| `Overview` | 4 URLs, quantum 2, 4 instants, 2 rows, 1 fetch, buckets of 2, 3 and 5 | `WindowKeepsUp`, `SeriesCountsAll`, `PanelsAgree` |
| `Explorer` | 2 URLs, 3 kinds of rows, 1 row, 2 clicks, 4 instants | `DraftsMatchUrl`, `NarrowingKeepsRows`, `MissingIsExplained`, `TwiceIsExplained` |
| `Delivery` | 14 inputs over 6 routes, 2 requests, 2 faults, 2 renderers | `SentMeansTaken`, `UnderOwnTenant`, `BodiesAreSafe`, `HolesAreFilled`, `AuditNeverBlocks` |
| `Lifecycle` | 7 environments, 2 connections, 2 signals of each kind, 1 outage, 1 silence of the mail server, 2 requests | `ExitIsOrderly`, `NobodyIsCutOff`; `KilledForCause`; `ShutdownEnds`, `RequestsEnd` under `FairSpec` |

**Why the bounds are enough.** The races of the tail take at most three rows (one received, one
overtaken, one missed) and two faults (one to lose the connection, one to lose it again during
the replay); a replay limit of 1 makes a truncated replay a matter of two missed rows; two
milliseconds give rows that tie and rows that do not. A client never acts on another, so one per
instance is enough; two subscriptions and two tenants are alternatives of its initial state.
A scan shows drift with three rows, one per page, and a window that slides (clock 2, window 1)
or is pinned; four fetches allow a refresh in the middle of a scan and a retry of it. A ring of
two evicts from the third row on, and five rows evict in batches of one, two and three; under
the follow mode a ring of one row evicts with every batch, and Clear makes the count start again. Three
requests give two that overlap and one that was answered before; two purposes and two addressees
give an answer that lands under another purpose and one under the same. A row and a link are
compared for every instant of a tick (quantum 2), at the age that is the first and, the window
being one quantum long, the last at which the link must find it: both bounds at once. Two fires are enough for one card
to disturb another: nothing relates three of them. The code's lockout takes 5 wrong codes and 6
tries; 1 and 2 keep the relation the script relies on (`MAX_ATTEMPT_TRIES > MAX_ATTEMPTS`). The
overview's instants cover two firings of the ticker, its widths divide neither the windows nor
each other, and the URLs cross every change between presets, an absolute and an open window.
Every property of the Explorer is about one row (is it shown, is it shown twice, does a link keep
it), so one row that may be any of three, with two clicks to open and to pivot or to type and to
change the URL, is enough; `MAX_ROWS` is then the one bar of the panel. Two requests show what one
does to the other's tenant and rows; two faults lose a reply and a row. Two signals of each kind
give every order of a first, a repeated and an unhandled signal; one outage may begin and end at
any point of a request, a QUIT or the boot, and one silence at any point of a mail; two requests
are one that waits for such a peer and one that must not.

A type invariant is stated in every module with state and, where a proof module exists, proved
(section 4) instead of run.

Mutants: every checked property is violated when one mapped definition is replaced by the mutant
named for it in `PROJECT.json` (`\* mutant` in the modules), so none of them holds by the shape
of the model.

`SomeoneListens` (`TailResume`, `TailGapless`) prunes states whose only EventSource is closed for
good: nothing can reach it any more. `CallSymmetry` (run `Delivery`) is sound because requests
are only compared with each other and the run checks invariants only. `CHECK_DEADLOCK FALSE` is
set where the system really stops: the clock, the rows, the requests and the faults of the
instance are used up and nothing is under way. The browser may fire an interval late (`LATE` is 1).

**Fairness.** Safety runs assume none. `FairSpec` assumes that Node runs every continuation
(`Publish`, `EmitReplayed`), that Postgres answers (`Commit` or `FailCreate`,
`RunReplayQuery`), that TCP delivers on a connection that holds (`ReceiveRow`, `ReceivePing`) and
that the browser's reconnect timer fires; it does not assume that anybody writes, closes or
restarts. `StreamFairSpec` assumes only that a visible tab runs its animation frames; in a
hidden one the rows wait, which is how a burst gets long enough for `FlushThrows`. `FairSpec` of
`ApiLifecycle` assumes that Node runs its continuations and that Postgres and a Redis that is up
answer, and a mail server that is not silent: nobody need leave, Redis need not come back, and a
silent mail server need neither speak again nor be given up on. `ShutdownEnds` and `RequestsEnd`
say what alone can then wait without end: a shutdown whose remaining callers are on streams, wait
for commands queued in the outage or for mails a silent server holds, or whose own QUIT is queued;
and a request whose own command or mail it is. Nothing else is excused.

## 4. Theorems

All for every value of the constants, under the modules' named assumptions.

| Module | Theorems | Argument |
|---|---|---|
| `AuditTailProofs` | `MatchesMirrorsWhere`, `KeysetIsStrict` | SQL filter and in-process predicate agree on rows of the tenant inside the window; the keyset order is strict and total |
| | `TypeCorrect`, `Isolation`, `OnlyCommitted` | `ScopeInv`, below |
| | `LossExplained`, `InOrderReceived` | `ResumeInv`, below |
| | `Implements` | every step a step of the contract or a stutter, under `ScopeInv` and `ResumeInv` |
| | `TailNeverStuck` | `ServeInv`, below |
| `KeysetPagesProofs` | `PagesTypeCorrect`, `DescendsAlways`, `NothingSkipped`, `OnlyAsked` | `IInv`, below |
| `LiveStreamProofs` | `StreamTypeCorrect`, `NoneStale`, `StatusTold`, `TailIsSuffix` | `IInv`, below |
| | `FrameAwaited` | `FrameInv`, below |
| | `StreamIsKept`, `FollowTypeCorrect`, `PillCounts`, `Follows` | the page keeps the stream; `LiveInv`, below |
| `OtpPanelProofs` | `PanelTypeCorrect`, `BusyWhileInFlight`, `ShowsSelected`, `SessionBacked`, `SuccessTold` | `IInv`, below |
| `TriggerCenterProofs` | `CenterTypeCorrect`, `OneFireEach`, `TenantIsTrusted` | every step of a fire keeps its card and its tenant, and every row is its fire's, below |
| | `LinkFits`, `OutcomesMatch`, `RowsAreAsTold` | `PageInv` and `OutcomeInv`, below |
| `ExplorerViewProofs` | `ViewTypeCorrect`, `DraftsFollowUrl`, `NarrowingKeeps`, `Missing`, `Twice` | `IInv`, below |
| | `ViewsKeepUpTogether` | `TickInv`, below |
| | `OverviewTypeCorrect`, `KeepsUp`, `SeriesCount`, `PanelsTell` (of `AuditOverview`) | `ChartInv` and `OverviewInv`, below |
| `EmailDeliveryProofs` | `DeliveryTypeCorrect`, `SentIsTaken`, `EachUnderItsTenant`, `LogBlocksNothing`, `BodiesStaySafe`, `HolesStayFilled` | rows, answers and mails are tied to the outcome and the header of their request, below |
| `ApiLifecycleProofs` | `LifecycleTypeCorrect`, `ExitOrdered`, `NobodyCutOff`, `KillHasCause` | what has been released says how far the shutdown is, below |
| | `ShutdownNeverStuck`, `ShutdownAdvances`, `RequestsNeverStuck` | `ConnInv` and `ClientInv`, below |

*The tail.* What a client has received is committed only because what is on the wire is, which
is so only because rows awaiting announcement are in the table; and a replay's rows are the
tenant's only because the query carried the restriction. `ScopeInv` says this of the wire, the
replay and the announcements together.

*The resume.* `LossIsExplained` speaks of a client that is connected; what makes it true is what
holds while it is not. `Lossless` says that whatever an unexposed client lacks is late, on its way,
or newer than the last row it received, which the cursor names (`CursorIsLast`) and the replay
starts after. `InOrder` says the same of what it is owed: everything on the wire, in the replay
or still being inserted is late or comes after what it has, so that a row received moves the cursor
past rows it then makes late, and past no others; it needs no exemption of a client. Between the opening of a stream and the query of its replay `FedSince` covers
the rows of later milliseconds, which the feed brings. Each action then either adds to a client's
exposure or keeps these. For the refinement, what a client is owed is read off wire, replay and
announcements (`FeedOf`), and every step changes it as one of the contract's actions may.

*The list.* That no row is skipped cannot be shown of the pages alone. `ChainOK` says what the
next page relies on: the cursor is the oldest row listed, the windows of the chain lie before
the one the handler would fix now, and every stable row down to the cursor is listed. The same
is required of the chain a refresh is rebuilding (`RequestOK`), and of an answer that it holds
the newest of the rows it was chosen from (`CutsAt`). Finiteness of the table is part of `IInv`:
the oldest row of a page exists only in a finite set.

*The hook.* `TailIsNewest` speaks of suffixes; `Ends` takes them apart into positions, which
appending a row and evicting the oldest ones preserve (`EndsAppend`, `EvictedEnds`). `IInv` adds
that the rows shown are a snapshot of the buffer, that the buffer stays within its capacity, and
that a source that may still deliver belongs to the effect that ran last (`Wanted`).

*Follow mode.* The pill is told by an effect that runs after the paint, from the difference of two
lengths: the rows on screen are all different because they are numbered as they come (`Numbered`),
and the count that the effect due will reach, `Counted`, is never below the rows missed, although
the count itself is for a while. `FollowInv` says where the table stands before the scroll event
it owes has come.

*The panel.* Its properties are about what is shown; `IInv` adds what the requests under way
will make it show, whatever is selected by then. An answer fits its kind (`AnswerFits`); a code on
screen or about to be is at the service, or a consume took it that the panel has not been told of
(`CodeIsKept`); every number the panel knows was given out, so that a code issued later is not one
it cleared (`IdsAreIssued`). Without an overlap there is at most one request (`Alone`), nothing
follows the consume it had accepted (`TakenIsGone`), and a success on screen or about to be is of a
validated code (`SuccessIsTrue`).

*The cards.* `IInv` adds that every row belongs to a fire and has its tenant (`RowsOfFires`).
Every action either moves one fire without ending it (`GoesOn`, `GoesOnKeeps`), ends one and
releases its button (`OverReleases`), begins one (`FireKeeps`) or touches none; a handler logs
rows of its own fire only, because a trusted tenant resolves to itself (`Trusted`, `Logged`).
For the outcomes, `OwnRef` shows that two fires never share a reference: a fire that no fault has
touched finds the code and the cooldown that its own calls left. `OnTrack` says what these are
after each call of its script (the cooldown taken, as many attempts used as wrong codes sent), and
that the last one leaves the status and the row its label tells of; an address that no fire has
used is untouched (`UnusedInv`). That a result on screen is its card's, and every row one its card
may write, is `PageInv`. What a link finds then is arithmetic: a window whose end is rounded down
to a tick still holds a row that is a tick old, and one no older than the window is long.

*The mails.* What a row says is fixed when it is written and what a caller is told later, with
steps of other requests between the two. `Told` and `Written` tie each to the outcome of the
delivery, `Owned` the tenant to the request's own header, and `Posted` says that a mail the
server holds is its request's input, rendered. `BodiesStaySafe` and `HolesStayFilled` then are
facts of the renderers: each fills a part from one part of the template and escapes where the
part is the html (`Rendered`), and the data of the adapter has what its template's holes need
(`DataFillsHoles`).

*The Explorer.* Every part of the page belongs to the URL, but at an instant of its own.
`CompiledInv` says that each view's query was compiled of the address bar's URL at some instant,
hence that two of them differ in the window alone (`CompiledAlike`) and keep the same rows;
`HistoryInv` that a history holds what its key selects of the table it was read from; `TailInv`
that an open tail holds every row of its query announced since it opened, and that it did not
open before the end of a relative window; `SelectedInv` that the row in the drawer passes the
filters under it, which is what a pivot relies on. `MissingIsExplained` and `TwiceIsExplained`
are then about one row and the three windows it may be in. The assumption that no preset reaches
back beyond the epoch (`ViewAssumption`) makes the start of a window an instant.

`TickInv` bounds each interval by the instant its own view compiled at, and the clock by the interval,
whatever is clicked between two firings. The two views, which tick apart, are therefore never more
than two quanta and the interval's lateness behind the clock, nor one further behind the other.

*The Overview.* A click from one preset to another compiles the window and leaves the interval
alone; `ChartInv` therefore bounds the interval by the instant of the last compilation, whichever
step that was, and the clock by the interval. `OverviewInv` says of a loaded series that it is
`Series` of committed rows of its query's tenant, inside the window it was asked for. That its grid
has a bucket for every instant is arithmetic (`GridCovers`): the first bucket and an instant's are
multiples of one width. That its counts add up is counted twice: what `Sum` counts of the buckets
of a dimension is in bijection with the rows of that dimension, each row in the bucket `DateBin`
puts it in and numbered there. The panels then read the same two totals, over all buckets or bucket
by bucket. The columns a series may be grouped by are those of the API's allow list
(`audit-aggregate-query.dto.ts:17`, `OverviewAssumption`).

*The process.* `Shutdown` orders the steps of `app.close()`, `Released` says that only its hooks
let go of Redis and Postgres, and after the drain, and `Disarmed` that a handler is gone only
because its signal has come. `ConnInv` and `ClientInv` add what a shutdown waits for: that a
request has a step that fits what it asked, that a QUIT still has a client to send it, and that no
shutdown begins before the handlers are installed. `ShutdownAdvances` is an action property:
`app.close()` never goes back, and once the port is closed nobody new is waited for.

*Never stuck.* Liveness is out of the prover's reach, as is ENABLED, but a system that must go on
can fail to in two ways: it reaches a state from which no step leads on, or it has one and never
takes it. The first is safety and proved here, with the guards of the fair actions written out.
`TailNeverStuck`: both ends agree on whether a stream is open, no stream is open to a process that
is down, nothing is on a wire nobody reads, and a replay under way has a row that is the oldest of
those left, because ids are unique (`ServeInv`). `FrameAwaited`: pending rows of a subscribed view
have an animation frame queued that will show them, unless a frame threw before (`FrameInv`).
`ShutdownNeverStuck` and `RequestsNeverStuck`: unless a stream, a queued command or a mail at a
silent server is in the way, one of the continuations `FairSpec` runs can be taken.

Model-checked only: liveness itself, that is that those steps are taken and end
(`AnnouncedRowsArrive`, `ResumeSettles`, `PendingIsShown`, `ShutdownEnds`, `RequestsEnd`).

## 5. Findings

Each is stated in `PROJECT.json` with the line it contradicts. TLC finds a counterexample of the
first as a run:

1. A resume is not gapless: a live row that overtakes the replay moves the cursor past rows the
   replay still owes, and a second drop loses them (`TailGapless`).

The others have no run of their own. A definition in parentheses states the claim; as the
INVARIANT of the component's configuration it is violated.

Live tail and list:

2. A resume sends a row twice when it was committed before the replay's snapshot and announced
   after the stream opened (`ResumeNeverResends`).
3. `isConnected` survives a filter change of an open stream (`ConnectedIsOpen`).
4. Resume and the pill leave following to a scroll event that may report a list that has grown,
   or never fire.
5. The new-rows count misses rows that arrive at the ring buffer's capacity (`PillCountsAll`).

Console:

6. Every link to a row of purpose `login` opens an Explorer whose query the API refuses
   (`LinkIsAccepted`, `NarrowingIsAnswered`); the OTP cards write such rows.
7. "View in Explorer" drops the tenant: a card fired with none is audited under acme and opens
   the Explorer on the tenant default.
8. A refused consume ends the OTP session like an accepted one, and the OTP
   box is not disabled while a verify is under way.
9. The live toggle pauses the tail over an absolute range, ⌥/Alt-click on the rail clears only
   the active value, and the rail and the table compile their queries on separate tickers.
10. A blank tenant shows the tenant `default` and not all; the oversize card is refused by the body
    parser and leaves no audit row; a relative window ends up to a minute ago; `ratePct` may exceed
    100; `isRelative` is true of unknown range tokens.
11. The preview's renderer selector changes a label and nothing else.

API:

12. The OTP mails of the auth adapter leave the name and the expiry blank (`LeftBlank`); the mail of
    a code that is dispatched lacks the defaults `OtpController` merges in (`OtpPayloadData`).
13. `maxRetriesPerRequest: null` queues commands for the length of an outage, which the comment
    says it prevents; the overview asks for `enableShutdownHooks`, which the code avoids.
14. `SMTP_URL` has a default and no production guard, which also leaves the no-op provider
    unreachable.

## 6. Not modelled, and the plan

Not modelled, because there is no state or order to get wrong:

- the probes, the health check and the debug endpoints report what the library and the
  configuration say at the moment they are asked; the status of an OTP is a read;
- presentation: the UI kit, the settings page, the layout, the geometry of the charts, and
  MJML's layout to HTML;
- the sanitising of headers by the SSE proxy, and the tags and headers of a mail.

Not modelled yet, in the order planned:

1. The cursor as text: its encoding, decoding and the 410 of a cursor that is not one of the
   list's (`AuditRows` takes a cursor to be the pair it encodes).
2. The stream reopened by a sliding relative range composed with `AuditTail`, to say what is lost
   between two URLs; `ExplorerView` has the list and the tail of one URL.
3. Proofs about those models as they come.

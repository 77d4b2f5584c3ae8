----------------------------- MODULE LiveStream -----------------------------
(***************************************************************************)
(* The browser's half of the live tail: useAuditStream and RingBuffer of   *)
(* apps/web/lib/sse.ts.                                                    *)
(*                                                                         *)
(* A React effect opens one EventSource per (enabled, url) pair; messages  *)
(* gather in `pending` and one animation frame moves them to a bounded     *)
(* buffer and publishes a snapshot.  The browser's own steps -- opening,   *)
(* losing and giving up the connection, delivering a message, running a    *)
(* frame, a timer or an effect -- interleave freely with the user's.       *)
(***************************************************************************)
EXTENDS Integers, Sequences, SequencesExt, FiniteSets

CONSTANTS
    Filters,          \* the URLs the Explorer's filter compiles to
    BUFFER_CAPACITY,
    IDLE_CHECKS,      \* IDLE_STOP_MS / IDLE_CHECK_MS
    MaxSpread,        \* most arguments the engine takes in push(...items)
    MaxMessages,      \* bound: rows received
    MaxChanges        \* bound: toggles and filter changes

ASSUME StreamAssumption ==
    /\ Filters # {}
    /\ BUFFER_CAPACITY \in Nat \ {0} /\ IDLE_CHECKS \in Nat \ {0}
    /\ MaxSpread \in Nat \ {0} /\ MaxMessages \in Nat /\ MaxChanges \in Nat

VARIABLES
    enabled,      \* live && isRelative, as rendered
    url,          \* the stream URL, as rendered
    effect,       \* the dependencies the effect last ran with
    source,       \* EventSource.readyState; "none" before the first one
    idleTimer,    \* the idle check is armed
    quiet,        \* idle checks since the last data message
    pending,      \* pendingRef
    frame,        \* rafRef: none, queued, or stuck (a callback that threw)
    buffer,       \* the ring buffer
    rows,         \* React state
    isConnected,
    isFailed,
    arrived,      \* history: rows received since the tail last started afresh
    lost,         \* history: a frame threw since then
    received,     \* rows received so far
    changes       \* toggles and filter changes so far

statusVars == <<isConnected, isFailed>>
tailVars   == <<pending, frame, buffer, rows, arrived, lost, received>>
userVars   == <<enabled, url, changes>>
streamVars == <<enabled, url, effect, source, idleTimer, quiet, pending, frame,
                buffer, rows, isConnected, isFailed, arrived, lost, received, changes>>

Tailed == [url : Filters, n : Nat]
ReadyState == {"none", "connecting", "open", "closed"}

KeepOldest(seq) ==  \* mutant: evicts the newest
    SubSeq(seq, 1, IF Len(seq) > BUFFER_CAPACITY THEN BUFFER_CAPACITY ELSE Len(seq))
Newest(seq) ==
    SubSeq(seq, IF Len(seq) > BUFFER_CAPACITY THEN Len(seq) - BUFFER_CAPACITY + 1 ELSE 1,
           Len(seq))

-----------------------------------------------------------------------------
StreamInit ==
    /\ enabled \in BOOLEAN /\ url \in Filters
    /\ effect = [enabled |-> FALSE, url |-> url]
    /\ source = "none" /\ idleTimer = FALSE /\ quiet = 0
    /\ pending = <<>> /\ frame = "none" /\ buffer = <<>> /\ rows = <<>>
    /\ isConnected = FALSE /\ isFailed = FALSE
    /\ arrived = <<>> /\ lost = FALSE /\ received = 0 /\ changes = 0

(* The user: the Live switch, a range made absolute or relative (which may  *)
(* change the URL too), and any control that changes the filter.            *)
Change(on, u) ==
    /\ <<on, u>> # <<enabled, url>>
    /\ changes < MaxChanges
    /\ enabled' = on /\ url' = u
    /\ changes' = changes + 1
    /\ UNCHANGED <<effect, source, idleTimer, quiet>>
    /\ UNCHANGED statusVars /\ UNCHANGED tailVars

Toggle == \E u \in Filters : Change(~enabled, u)
SetFilter == \E u \in Filters : Change(enabled, u)

(* A frame that is queued or stuck is cancelled and its handle dropped.     *)
CancelFrame == frame' = "none"

(* Everything shown and everything about to be shown is thrown away.        *)
StartAfresh ==
    /\ pending' = <<>> /\ buffer' = <<>> /\ rows' = <<>>
    /\ arrived' = <<>> /\ lost' = FALSE
    /\ UNCHANGED received

(* The effect runs again: the previous one's cleanup, then its body.        *)
Disable ==
    /\ ~enabled
    /\ source' = IF source = "none" THEN "none" ELSE "closed"
    /\ idleTimer' = FALSE
    /\ isConnected' = FALSE
    /\ UNCHANGED <<quiet, pending, buffer, rows, arrived, lost, received>>

SubscribeKeepingRows ==  \* mutant: the old filter's rows stay
    /\ enabled
    /\ source' = "connecting"
    /\ idleTimer' = TRUE /\ quiet' = 0
    /\ UNCHANGED <<isConnected, pending, buffer, rows, arrived, lost, received>>

Subscribe ==
    /\ enabled
    /\ source' = "connecting"
    /\ idleTimer' = TRUE /\ quiet' = 0
    /\ UNCHANGED isConnected
    /\ StartAfresh

RunEffect ==
    /\ effect # [enabled |-> enabled, url |-> url]
    /\ effect' = [enabled |-> enabled, url |-> url]
    /\ isFailed' = FALSE
    /\ IF effect.enabled THEN CancelFrame ELSE UNCHANGED frame
    /\ Disable \/ Subscribe
    /\ UNCHANGED userVars

(* onopen *)
Open ==
    /\ source = "connecting"
    /\ source' = "open"
    /\ isConnected' = TRUE /\ isFailed' = FALSE
    /\ UNCHANGED <<effect, idleTimer, quiet>>
    /\ UNCHANGED tailVars /\ UNCHANGED userVars

FailedOnAnyError(state) == TRUE  \* mutant: readyState is not looked at
FailedBy(state) == isFailed \/ state = "closed"

(* onerror: the connection dropped and the browser reconnects, or it was    *)
(* refused (an HTTP error, not an event stream) and the browser gives up.   *)
Error(state) ==
    /\ source \in {"connecting", "open"}
    /\ source' = state
    /\ isConnected' = FALSE
    /\ isFailed' = FailedBy(state)
    /\ UNCHANGED <<effect, idleTimer, quiet>>
    /\ UNCHANGED tailVars /\ UNCHANGED userVars

Lose == Error("connecting")
Refuse == source = "connecting" /\ Error("closed")

(* onmessage, a row: it waits for a frame, which is requested unless one is *)
(* believed to be queued.                                                   *)
Message ==
    LET row == [url |-> effect.url, n |-> received + 1] IN
    /\ source = "open"
    /\ received < MaxMessages
    /\ received' = received + 1
    /\ pending' = Append(pending, row)
    /\ arrived' = Append(arrived, row)
    /\ quiet' = 0
    /\ frame' = IF frame = "none" THEN "queued" ELSE frame
    /\ UNCHANGED <<effect, source, idleTimer, buffer, rows, lost>>
    /\ UNCHANGED statusVars /\ UNCHANGED userVars

(* The idle check.  The IDLE_CHECKS-th one since the last row falls on the  *)
(* limit itself and may find it passed or not; the next one does.           *)
IdleStop ==
    /\ idleTimer /\ quiet + 1 >= IDLE_CHECKS
    /\ source' = "closed" /\ isConnected' = FALSE /\ idleTimer' = FALSE
    /\ UNCHANGED <<effect, quiet, isFailed>>
    /\ UNCHANGED tailVars /\ UNCHANGED userVars

IdleCheck ==
    /\ idleTimer /\ quiet < IDLE_CHECKS
    /\ quiet' = quiet + 1
    /\ UNCHANGED <<effect, source, idleTimer>>
    /\ UNCHANGED statusVars /\ UNCHANGED tailVars /\ UNCHANGED userVars

FrameHandleKept == "stuck"  \* mutant: rafRef not reset
FrameDone == "none"

(* The animation frame runs. *)
Flush ==
    /\ frame = "queued" /\ Len(pending) <= MaxSpread
    /\ buffer' = Newest(buffer \o pending)
    /\ rows' = buffer'
    /\ pending' = <<>>
    /\ frame' = FrameDone
    /\ UNCHANGED <<effect, source, idleTimer, quiet, arrived, lost, received>>
    /\ UNCHANGED statusVars /\ UNCHANGED userVars

(* A burst too long for push(...items) -- a hidden tab runs no frames while *)
(* rows keep coming -- throws after the splice and before the handle is     *)
(* reset: no later row requests a frame.                                    *)
FlushThrows ==
    /\ frame = "queued" /\ Len(pending) > MaxSpread
    /\ pending' = <<>> /\ frame' = "stuck" /\ lost' = TRUE
    /\ UNCHANGED <<effect, source, idleTimer, quiet, buffer, rows, arrived, received>>
    /\ UNCHANGED statusVars /\ UNCHANGED userVars

(* The Clear button. *)
Clear ==
    /\ CancelFrame
    /\ StartAfresh
    /\ UNCHANGED <<effect, source, idleTimer, quiet>>
    /\ UNCHANGED statusVars /\ UNCHANGED userVars

HookNext ==
    \/ Toggle \/ SetFilter \/ RunEffect
    \/ Open \/ Lose \/ Refuse \/ Message
    \/ IdleStop \/ IdleCheck \/ Flush \/ FlushThrows

StreamNext == HookNext \/ Clear

StreamSpec == StreamInit /\ [][StreamNext]_streamVars

(* A visible tab runs its animation frames. *)
StreamFairSpec == StreamSpec /\ WF_streamVars(Flush \/ FlushThrows)

-----------------------------------------------------------------------------
StreamTypeOK ==
    /\ enabled \in BOOLEAN /\ url \in Filters
    /\ effect \in [enabled : BOOLEAN, url : Filters]
    /\ source \in ReadyState /\ idleTimer \in BOOLEAN /\ quiet \in 0..IDLE_CHECKS
    /\ frame \in {"none", "queued", "stuck"}
    /\ \A seq \in {pending, buffer, rows, arrived} : seq \in Seq(Tailed)
    /\ isConnected \in BOOLEAN /\ isFailed \in BOOLEAN /\ lost \in BOOLEAN
    /\ received \in Nat /\ changes \in Nat

(* However frames, clears, effects and messages interleave, what is shown   *)
(* followed by what is about to be is the end of what was received since    *)
(* the tail started afresh, and is shorter only at capacity: no row is      *)
(* skipped, repeated or reordered between onmessage and the table.          *)
TailIsNewest ==
    ~lost => /\ IsSuffix(rows \o pending, arrived)
             /\ Len(rows \o pending) < Len(arrived) => Len(rows) = BUFFER_CAPACITY

(* Once the effect has run for a filter, the list holds no row received     *)
(* under an earlier one, not even one whose frame was queued at the time.   *)
NoStaleRows ==
    effect.enabled => \A r \in ToSet(rows) \cup ToSet(pending) : r.url = effect.url

(* The status bar never hides an open connection, and says "failed" only    *)
(* when the browser has given up on a stream that is still wanted.          *)
StatusFollowsSource ==
    /\ source = "open" => isConnected /\ ~isFailed
    /\ isFailed => source = "closed" /\ effect.enabled

(* A row received is shown, unless the list is cleared or the stream turned *)
(* off first, or a frame threw.                                             *)
PendingIsShown == pending # <<>> ~> (pending = <<>> \/ lost \/ ~effect.enabled)

(* AuditStream.isConnected: "Whether the EventSource is currently open".    *)
ConnectedIsOpen == isConnected => source = "open"
=============================================================================

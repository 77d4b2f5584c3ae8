---------------------------- MODULE ExplorerLive ----------------------------
(***************************************************************************)
(* The Explorer's live surface: the stream of LiveStream and the follow    *)
(* mode of apps/web/hooks/use-follow-mode.ts over the rows it shows.       *)
(*                                                                         *)
(* Four asynchronous steps separate a row from the viewport: React paints  *)
(* the rows, the follow effect runs after the paint, its assignment to     *)
(* scrollTop fires a scroll event one frame later, and that event decides  *)
(* whether the table is still pinned to its end.  Geometry is counted in   *)
(* rows: `below` is how many lie under the viewport (ROW_HEIGHT 36 px), so *)
(* less than PINNED_THRESHOLD (48 px) is at most one row.                  *)
(***************************************************************************)
EXTENDS LiveStream

CONSTANTS
    History,      \* bound: rows of the list itself, above the live ones
    PinnedBelow   \* most rows below the viewport that still count as the end

ASSUME FollowAssumption == History \in Nat /\ PinnedBelow \in Nat

VARIABLES
    live,           \* the Live switch; enabled over a relative range only
    loaded,         \* rows of the list itself in the DOM
    painted,        \* the stream's rows as of the last paint
    listed,         \* the live rows in the DOM
    effectDue,      \* the row count changed in the last paint
    effectPaused,   \* `paused` as of that paint
    prevCount,
    pinned,
    explicitPause,
    newCount,
    below,
    scrollDue,      \* a scroll event is queued
    missed,         \* history: rows painted while paused and not jumped to since
    replaced,       \* history: rows left the list meanwhile
    following,      \* history: untouched, or Jump or Resume was the last command
    spoiled         \* history: what came between that command and its effect

followVars == <<loaded, painted, listed, effectDue, effectPaused, prevCount, pinned,
                explicitPause, newCount, below, scrollDue, missed, replaced, following, spoiled>>
vars == <<streamVars, live, followVars>>

paused == explicitPause \/ ~pinned

AtEndInverted == below > PinnedBelow  \* mutant: the comparison is inverted
AtEnd == below <= PinnedBelow
Monus(a, b) == IF a >= b THEN a - b ELSE 0

-----------------------------------------------------------------------------
Init ==
    /\ StreamInit
    /\ live \in BOOLEAN /\ (enabled => live)
    /\ loaded = 0 /\ painted = <<>> /\ listed = <<>> /\ effectDue = FALSE /\ effectPaused = FALSE /\ prevCount = 0
    /\ pinned = TRUE /\ explicitPause = FALSE /\ newCount = 0
    /\ below = 0 /\ scrollDue = FALSE
    /\ missed = 0 /\ replaced = FALSE /\ following = TRUE /\ spoiled = {}

(* The live rows are in the list while the switch is on, whatever the       *)
(* range; one that is absolute stops the stream and leaves them.            *)
LiveRows == IF live THEN rows ELSE <<>>

(* React paints the rows, having run the effects of the paint before; the   *)
(* list itself may have gained a page or been replaced, which the follow    *)
(* mode is not told of.  A list that shrinks under the viewport moves it:   *)
(* a scroll event.                                                          *)
PaintOver(h) ==
    LET grown == h + Len(LiveRows) - (loaded + Len(listed))
        fresh == Cardinality(ToSet(rows) \ ToSet(painted))
    IN
    /\ <<h, rows, LiveRows>> # <<loaded, painted, listed>> /\ ~effectDue
    /\ loaded' = h /\ painted' = rows /\ listed' = LiveRows
    /\ effectDue' = (Len(rows) # Len(painted))
    /\ effectPaused' = paused
    /\ below' = IF grown >= 0 THEN below + grown ELSE Monus(below, -grown)
    /\ scrollDue' = (scrollDue \/ below + grown < 0)
    /\ missed' = IF paused THEN missed + fresh ELSE missed
    /\ replaced' = (replaced \/ (paused /\ ~(ToSet(painted) \subseteq ToSet(rows))))
    /\ spoiled' = IF grown > 0 /\ scrollDue THEN spoiled \cup {"outrun"} ELSE spoiled
    /\ UNCHANGED <<prevCount, pinned, explicitPause, newCount, following>>
    /\ UNCHANGED <<streamVars, live>>

Paint == \E h \in 0..History : PaintOver(h)

ScrollToEnd ==
    /\ below' = 0
    /\ scrollDue' = (scrollDue \/ below # 0)

Arrivals(delta) == IF delta > 0 THEN delta ELSE 0

(* The effect on [count, paused]. *)
FollowEffect ==
    LET delta == Len(painted) - prevCount IN
    /\ effectDue
    /\ effectDue' = FALSE
    /\ prevCount' = Len(painted)
    /\ IF delta > 0 /\ ~effectPaused
       THEN ScrollToEnd /\ UNCHANGED newCount
       ELSE /\ newCount' = newCount + Arrivals(delta)
            /\ UNCHANGED <<below, scrollDue>>
    /\ UNCHANGED <<loaded, painted, listed, effectPaused, pinned, explicitPause, missed,
                   replaced, following, spoiled>>
    /\ UNCHANGED <<streamVars, live>>

Seen == newCount' = 0 /\ missed' = 0 /\ replaced' = FALSE

SeenAnywhere ==  \* mutant: the count is reset wherever the table is
    newCount' = 0 /\ UNCHANGED <<missed, replaced>>
SeenAtEnd == IF AtEnd THEN Seen ELSE UNCHANGED <<newCount, missed, replaced>>

(* onScroll *)
ScrollEvent ==
    /\ scrollDue
    /\ scrollDue' = FALSE
    /\ pinned' = AtEnd
    /\ SeenAtEnd
    /\ UNCHANGED <<loaded, painted, listed, effectDue, effectPaused, prevCount, explicitPause,
                   below, following, spoiled>>
    /\ UNCHANGED <<streamVars, live>>

(* The user drags the table somewhere else. *)
UserScroll ==
    /\ \E b \in 0..(loaded + Len(listed)) : b # below /\ below' = b
    /\ scrollDue' = TRUE
    /\ following' = FALSE
    /\ UNCHANGED <<loaded, painted, listed, effectDue, effectPaused, prevCount, pinned,
                   explicitPause, newCount, missed, replaced, spoiled>>
    /\ UNCHANGED <<streamVars, live>>

(* jumpToLatest, the "N new" pill; resume, the button, does the same.       *)
(* Neither sets `pinned`: the scroll event is left to do it, and a table    *)
(* already at its end fires none.                                           *)
FollowAgain ==
    /\ ScrollToEnd
    /\ explicitPause' = FALSE
    /\ Seen
    /\ following' = TRUE
    /\ spoiled' = IF below = 0 /\ ~scrollDue THEN {"still"} ELSE {}
    /\ UNCHANGED <<loaded, painted, listed, effectDue, effectPaused, prevCount, pinned>>
    /\ UNCHANGED <<streamVars, live>>

Jump == live /\ newCount > 0 /\ FollowAgain
Resume == live /\ paused /\ FollowAgain

Pause ==
    /\ live /\ ~paused
    /\ explicitPause' = TRUE
    /\ following' = FALSE
    /\ UNCHANGED <<loaded, painted, listed, effectDue, effectPaused, prevCount, pinned, newCount,
                   below, scrollDue, missed, replaced, spoiled>>
    /\ UNCHANGED <<streamVars, live>>

(* The hook goes on by itself; Clear is on the live bar.  A stream that is  *)
(* enabled has the switch on; one that stops, the switch off or an absolute *)
(* range.                                                                   *)
Stream ==
    /\ HookNext \/ (live /\ Clear)
    /\ IF enabled' = enabled THEN live' = live ELSE live' \in BOOLEAN /\ (enabled' => live')
    /\ UNCHANGED followVars

(* The switch over an absolute range: the live rows come and go, no stream. *)
SwitchLive ==
    /\ ~enabled
    /\ live' = ~live
    /\ UNCHANGED streamVars /\ UNCHANGED followVars

Follow == \/ Paint \/ FollowEffect \/ ScrollEvent
          \/ UserScroll \/ Jump \/ Resume \/ Pause

Next == Stream \/ SwitchLive \/ Follow

Spec == Init /\ [][Next]_vars
-----------------------------------------------------------------------------
TypeOK ==
    /\ StreamTypeOK
    /\ live \in BOOLEAN /\ loaded \in 0..History
    /\ painted \in Seq(Tailed) /\ listed \in Seq(Tailed) /\ effectDue \in BOOLEAN /\ effectPaused \in BOOLEAN
    /\ prevCount \in Nat /\ newCount \in Nat /\ below \in Nat /\ missed \in Nat
    /\ \A b \in {pinned, explicitPause, scrollDue, replaced, following} : b \in BOOLEAN
    /\ spoiled \subseteq {"outrun", "still"}

Settled == painted = rows /\ listed = LiveRows /\ ~effectDue /\ ~scrollDue

(* The pill never tells a paused user of fewer rows than arrived while      *)
(* paused, as long as no row left the list meanwhile (cleared, or evicted   *)
(* at capacity).                                                            *)
PillCountsArrivals == Settled /\ ~replaced => newCount >= missed

(* useFollowMode.newCount: "Count of rows that arrived while paused."       *)
PillCountsAll == Settled => newCount >= missed

(* A table nobody touched, or last told to follow, is followed -- unless    *)
(* rows were painted between a scroll to the end and the event it fires     *)
(* ("outrun"), or it was at the end already, unpinned, when told ("still"). *)
FollowsUnlessSpoiled == Settled /\ following /\ spoiled = {} => ~paused

(* "clicking it resumes follow mode and jumps back to the newest row".      *)
FollowsWhenAsked == Settled /\ following => ~paused
=============================================================================

---------------------------- MODULE ConsolePage -----------------------------
(***************************************************************************)
(* What the Overview and the Explorer are pages over: a clock, the filter  *)
(* state in the address bar and the rows the API has committed.            *)
(***************************************************************************)
EXTENDS ConsoleUrl

CONSTANTS
    Urls,            \* what the address bar may hold: the links that open a page
    Contents,        \* what the pipeline may log
    DEFAULT_WINDOW,  \* DEFAULT_WINDOW_MS
    LATE,            \* how late a browser's interval may fire
    None,            \* no interval
    Start, MaxNow,   \* bound: the instants of a behaviour
    MaxRows          \* bound: rows logged

ASSUME PageAssumption ==
    /\ Urls \subseteq Url /\ Contents \subseteq Content
    /\ None \notin Int
    /\ {DEFAULT_WINDOW, LATE, Start, MaxNow, MaxRows} \subseteq Nat
    /\ 0 < Start /\ Start <= MaxNow
    /\ \A p \in Presets : RANGE_MS[p] <= Quantized(Start)

VARIABLES
    now,    \* the clock of browser and API host
    url,    \* nuqs state
    table   \* committed rows
=============================================================================

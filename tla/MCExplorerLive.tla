--------------------------- MODULE MCExplorerLive ---------------------------
(* A small instance of ExplorerLive for TLC. *)
EXTENDS ExplorerLive

CONSTANTS all

(* One filter: what a change of filter does to the rows is MCLiveStream's    *)
(* question; here the switch and the range change.                          *)
MCFilters == {all}
=============================================================================

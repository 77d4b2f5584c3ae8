---------------------------- MODULE MCLiveStream ----------------------------
(* A small instance of LiveStream for TLC. *)
EXTENDS LiveStream

CONSTANTS all, failed

MCFilters == {all, failed}
=============================================================================

----------------------------- MODULE MCOtpPanel -----------------------------
(* A small instance of OtpPanel for TLC. *)
EXTENDS OtpPanel

CONSTANTS signup, reset, alice, bob

MCPurposes   == {signup, reset}
MCAddressees == {alice, bob}
MCDefault    == [who |-> alice, purpose |-> signup]
=============================================================================

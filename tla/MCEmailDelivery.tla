-------------------------- MODULE MCEmailDelivery --------------------------
(* A small instance of EmailDelivery for TLC. *)
EXTENDS EmailDelivery, TLC

CONSTANTS r1, r2

Auth(method, locale, user) ==
    [kind |-> "auth", method |-> method, locale |-> locale, user |-> user]

(* One input of each sort, each method of the adapter, and users who use    *)
(* mark-up where they may.                                                  *)
MCInputs ==
    {[kind |-> "invalid"], [kind |-> "raw", oversize |-> FALSE], [kind |-> "raw", oversize |-> TRUE],
     [kind |-> "template", template |-> "welcome", locale |-> "pt", user |-> "markup"],
     [kind |-> "template", template |-> "unknown", locale |-> "en", user |-> "plain"],
     [kind |-> "otp", template |-> "otp_code", locale |-> "pt", user |-> "markup"],
     [kind |-> "otp-payload", template |-> "otp_code", locale |-> "en", user |-> "none"],
     Auth("sendEmailVerificationOtp", "en", "plain"), Auth("sendPasswordResetOtp", "pt", "plain"),
     Auth("sendPasswordResetToken", "en", "markup"), Auth("sendMfaEnabledNotification", "en", "plain"),
     Auth("sendMfaDisabledNotification", "en", "plain"), Auth("sendNewSessionAlert", "en", "markup"),
     Auth("sendInvitation", "en", "markup")}

(* Requests are only compared with each other. *)
CallSymmetry == Permutations(Calls)
=============================================================================

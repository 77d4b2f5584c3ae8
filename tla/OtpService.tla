----------------------------- MODULE OtpService -----------------------------
(***************************************************************************)
(* The one-time codes behind /otp/*: OtpController and mapOtpVerifyResult  *)
(* of apps/api over the library's OtpService and its storage.              *)
(*                                                                         *)
(* The library is not part of the repository; what is said of it here is   *)
(* what apps/api relies on (otp.controller.ts, otp-verify-mapping.ts) and  *)
(* its end-to-end tests observe: generate and resend share a cooldown      *)
(* lock, verify counts attempts atomically and locks the code out, consume *)
(* deletes the code and its cooldown, both are keyed by tenant, recipient  *)
(* and purpose, and both lapse by themselves.                              *)
(***************************************************************************)
EXTENDS Integers, FiniteSets

CONSTANTS
    Purposes,
    Addressees,    \* a tenant and a recipient in it
    MAX_ATTEMPTS,  \* wrong guesses a code survives
    MaxCodes       \* bound: codes issued

ASSUME OtpAssumption == MAX_ATTEMPTS \in Nat \ {0} /\ MaxCodes \in Nat

VARIABLES
    code,      \* the stored code of each reference
    cooldown,  \* references whose resend lock is held
    issued     \* codes issued so far

serviceVars == <<code, cooldown, issued>>

Ref == [who : Addressees, purpose : Purposes]

(* id: which issue it was (0: none yet).  state: why a code is absent is     *)
(* history; the service itself cannot tell.                                  *)
Code == [id : Nat, state : {"none", "active", "expired", "consumed"},
         attempts : 0..MAX_ATTEMPTS, validated : BOOLEAN]

NoCode == [id |-> 0, state |-> "none", attempts |-> 0, validated |-> FALSE]

ServiceInit ==
    /\ code = [ref \in Ref |-> NoCode]
    /\ cooldown = {}
    /\ issued = 0

(* POST /otp/generate, /otp/resend *)
Generate(ref, answer) ==
    \/ /\ ref \in cooldown
       /\ answer = "cooldown"
       /\ UNCHANGED serviceVars
    \/ /\ ref \notin cooldown
       /\ issued < MaxCodes
       /\ issued' = issued + 1
       /\ code' = [code EXCEPT ![ref] = [NoCode EXCEPT !.id = issued + 1, !.state = "active"]]
       /\ cooldown' = cooldown \cup {ref}
       /\ answer = "issued"

LockedOut(c) == c.attempts = MAX_ATTEMPTS

(* POST /otp/verify: 404, 429, 401 or 200. *)
Verify(ref, right, answer) ==
    LET c == code[ref] IN
    /\ answer = CASE c.state # "active" -> "not_found"
                  [] c.state = "active" /\ LockedOut(c) -> "max_attempts"
                  [] c.state = "active" /\ ~LockedOut(c) -> IF right THEN "valid" ELSE "invalid_code"
    /\ code' = CASE answer = "valid" -> [code EXCEPT ![ref].validated = TRUE]
                 [] answer = "invalid_code" -> [code EXCEPT ![ref].attempts = @ + 1]
                 [] OTHER -> code
    /\ UNCHANGED <<cooldown, issued>>

(* POST /otp/consume: 204, whatever was there. *)
Consume(ref, answer) ==
    /\ answer = "consumed"
    /\ code' = IF code[ref].state = "active" THEN [code EXCEPT ![ref].state = "consumed"] ELSE code
    /\ cooldown' = cooldown \ {ref}
    /\ UNCHANGED issued

(* Time passes in the storage. *)
Lapse(ref) ==
    \/ /\ code[ref].state = "active"
       /\ code' = [code EXCEPT ![ref].state = "expired"]
       /\ UNCHANGED <<cooldown, issued>>
    \/ /\ ref \in cooldown
       /\ cooldown' = cooldown \ {ref}
       /\ UNCHANGED <<code, issued>>

ServiceTypeOK ==
    /\ code \in [Ref -> Code]
    /\ cooldown \subseteq Ref
    /\ issued \in Nat
=============================================================================

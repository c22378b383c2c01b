------------------------------- MODULE MCOtp -------------------------------
(* Small instances of Otp for TLC. *)
EXTENDS Otp
============================================================================

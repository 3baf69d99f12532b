--------------------------- MODULE MCMailLiveness ---------------------------
(***************************************************************************)
(* A small instance of the outbox for the liveness properties.             *)
(***************************************************************************)
EXTENDS MailLiveness

SignupOnly == {"signup_auth"}
NoIntents == {}
=============================================================================

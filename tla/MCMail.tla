------------------------------- MODULE MCMail -------------------------------
(***************************************************************************)
(* Small instances of the outbox for TLC.                                  *)
(***************************************************************************)
EXTENDS MailCleanup, MailInvariant, MailRefinement, TLC

\* Mails, challenges and users are interchangeable names.
MailSymmetry == Permutations(Mails) \union Permutations(Challenges) \union Permutations(Users)

SignupOnly == {"signup_auth"}
LoginOnly == {"existing_auth_first_login"}
NoIntents == {}
Routine == {"base_routine_or_announce"}
Digests == {"base_routine_or_announce", "urgent_late_discovery"}
=============================================================================

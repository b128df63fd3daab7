----------------------------- MODULE MCAccounts -----------------------------
(***************************************************************************)
(* TLC instances of Accounts: two server processes and two accounts.       *)
(***************************************************************************)
EXTENDS Accounts

CONSTANTS p1, p2, default, work
=============================================================================

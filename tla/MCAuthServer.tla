---------------------------- MODULE MCAuthServer -----------------------------
(***************************************************************************)
(* TLC instance of AuthServer: a first consent and two accounts that are   *)
(* added at once, on a range of two ports.                                 *)
(***************************************************************************)
EXTENDS AuthServer

CONSTANTS first, home, work
=============================================================================

---------------------------- MODULE MCTeamSignIn ----------------------------
(***************************************************************************)
(* TLC instances of TeamSignIn: two people and room for one.               *)
(***************************************************************************)
EXTENDS TeamSignIn

CONSTANTS k1, k2, ann, bob
=============================================================================

---------------------------- MODULE MCTeamGrant ----------------------------
(***************************************************************************)
(* TLC instances of TeamGrant: two tool calls and one new sign-in.         *)
(***************************************************************************)
EXTENDS TeamGrant

CONSTANTS c1, c2
=============================================================================

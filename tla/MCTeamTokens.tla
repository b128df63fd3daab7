--------------------------- MODULE MCTeamTokens ---------------------------
(***************************************************************************)
(* TLC instance of TeamTokens.  The server boots with two active sessions  *)
(* of member s1 on file, families c1 and c2 of client k1: the first with   *)
(* the tombstone of a rotation at the end of its grace, the second old.    *)
(* c3 is a sign-in of s2 still to come, k2 a client with no session and k3 *)
(* one that has yet to register.                                           *)
(***************************************************************************)
EXTENDS TeamTokens, TLC

CONSTANTS k1, k2, k3, c1, c2, c3, s1, s2, read, write

MCGrant == (c1 :> [client |-> k1, sub |-> s1, scopes |-> {read}])
        @@ (c2 :> [client |-> k1, sub |-> s1, scopes |-> {read}])
        @@ (c3 :> [client |-> k1, sub |-> s2, scopes |-> {read, write}])

MCOnFile(c, successor, expiry) ==
    [client |-> MCGrant[c].client, sub |-> MCGrant[c].sub,
     scopes |-> MCGrant[c].scopes, family |-> c,
     expiresAt |-> expiry, supersededBy |-> successor, graceUntil |-> 0]

MCBootTokens ==
    [p \in Pairs |-> CASE p = 1 -> MCOnFile(c1, 2, TombstoneTtl)
                       [] p = 2 -> MCOnFile(c1, 0, RefreshTtl)
                       [] p = 3 -> MCOnFile(c2, 0, 1)
                       [] OTHER -> None]

\* k2 was active after k1; k3 is not on file.
MCBoot == (k1 :> 1) @@ (k2 :> 2) @@ (k3 :> 0)
===========================================================================

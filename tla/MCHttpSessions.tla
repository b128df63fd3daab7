--------------------------- MODULE MCHttpSessions ---------------------------
(***************************************************************************)
(* TLC instances of HttpSessions: two members of a team, or a local user   *)
(* with up to two accounts, and calls that differ in what decides their    *)
(* account.                                                                *)
(***************************************************************************)
EXTENDS HttpSessions

CONSTANTS alice, bob, home, work

Call(tool, op, acceptable, account, token) ==
    [tool |-> tool, op |-> op, acceptable |-> acceptable, account |-> account, token |-> token]

MCCalls == [m \in {"team", "local"} |->
    IF m = "team"
    THEN {Call("plain", "write", {"write"}, Absent, {"read"}),
          Call("plain", "write", {"write"}, Absent, {"read", "write"}),
          Call("admin", "admin", {}, Absent, {"read"})}
    ELSE {Call("plain", "write", {"write"}, Absent, {}),
          Call("plain", "read", {"read", "write"}, work, {}),
          Call("resource", "read", {}, Absent, {})}]

Files(first, firstScopes, second, secondScopes) ==
    [a \in {first, second} |-> IF a = first THEN firstScopes ELSE secondScopes]

MCTables == [m \in {"team", "local"} |->
    IF m = "team"
    THEN {[granted |-> Files(alice, {"read", "write"}, bob, {"read"}), def |-> Absent],
          [granted |-> Files(bob, {"read", "write"}, bob, {}), def |-> Absent]}
    ELSE {[granted |-> <<>>, def |-> Absent],
          [granted |-> Files(home, {"read"}, work, {"write"}), def |-> home],
          [granted |-> Files(home, {"read"}, work, {"write"}), def |-> Absent],
          [granted |-> Files(home, {"write"}, work, {"write"}), def |-> Absent]}]
=============================================================================

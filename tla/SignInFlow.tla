----------------------------- MODULE SignInFlow -----------------------------
(***************************************************************************)
(* What one sign-in through the team server promises: the client that      *)
(* asked, and no other, gets at most one grant out of it, by at most one   *)
(* callback and one authorization code, and what is over stays over.       *)
(***************************************************************************)
CONSTANTS Flows, Clients, None

VARIABLES
    stage,       \* flow -> how far it has come
    asker        \* flow -> the client it serves, None outside a sign-in

vars == <<stage, asker>>

Stages == {"unused", "asked", "back", "code", "granted", "over"}

\* The stages a sign-in can pass to.
After(s) ==
    CASE s = "unused" -> {"asked", "over"}
      [] s = "asked"  -> {"back", "over"}
      [] s = "back"   -> {"code", "over"}
      [] s = "code"   -> {"granted", "over"}
      [] OTHER        -> {}

Init ==
    /\ stage = [f \in Flows |-> "unused"]
    /\ asker = [f \in Flows |-> None]

Ask(f) ==
    /\ stage[f] = "unused" /\ stage'[f] = "asked"
    /\ asker'[f] \in Clients

Advance(f) ==
    /\ stage[f] # "unused"
    /\ stage'[f] \in After(stage[f]) \ {"over"}
    /\ asker'[f] = asker[f]

End(f) ==
    /\ "over" \in After(stage[f]) /\ stage'[f] = "over"
    /\ asker'[f] = None

Stay(f) == stage'[f] = stage[f] /\ asker'[f] = asker[f]

\* Several sign-ins may move at once: a sweep or a restart ends many.
Next == \A f \in Flows : Ask(f) \/ Advance(f) \/ End(f) \/ Stay(f)

Spec == Init /\ [][Next]_vars
=============================================================================

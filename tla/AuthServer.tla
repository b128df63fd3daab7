----------------------------- MODULE AuthServer ------------------------------
(***************************************************************************)
(* The consent pages of a local user: src/src/auth/server.ts, opened by    *)
(* the first boot of a process (src/src/auth.ts), by manage_accounts and   *)
(* by the auth command (src/src/index.ts).                                 *)
(*                                                                         *)
(* Each flow has an AuthServer of its own, on the first port of the range  *)
(* that it gets.  Flows of one process and of several share the range with *)
(* whatever else runs on the machine.  The browser, Express and Google are *)
(* external; what is done with the tokens is in Accounts.                  *)
(***************************************************************************)
EXTENDS Integers, FiniteSets

CONSTANTS
    Flows,
    FirstTime,              \* those that buildAuthSystem opens by itself
    Ports,                  \* how many the range has
    ErrorReachesListener,   \* Express calls back listen also when it fails: from version 5
    Other, None,            \* another program; nobody
    MaxOthers               \* bound of the model: ports taken by other programs

VARIABLES
    holder,     \* port -> who listens there
    step,       \* flow -> where it is
    port,       \* flow -> the port it tries, and then the one in its link
    consent,    \* flow -> the flow whose callback has the code of its user's consent
    got,        \* flow -> the flows whose consents its onTokens has stored
    others

vars == <<holder, step, port, consent, got, others>>

Range == 1..Ports

Init ==
    /\ holder = [p \in Range |-> None]
    /\ step = [f \in Flows |-> "idle"]
    /\ port = [f \in Flows |-> 1]
    /\ consent = [f \in Flows |-> None]
    /\ got = [f \in Flows |-> {}]
    /\ others = 0

Goto(f, to) == step' = [step EXCEPT ![f] = to]

\* server.close: the port is free at once; callbacks under way go on.
Released(f) == [p \in Range |-> IF holder[p] = f THEN None ELSE holder[p]]

Ends(f, to) == Goto(f, to) /\ holder' = Released(f)

-----------------------------------------------------------------------------
Start(f) ==
    /\ step[f] = "idle"
    /\ Goto(f, "binding")
    /\ UNCHANGED <<holder, port, consent, got, others>>

\* One turn of startServerOnAvailablePort.  The promise takes the first answer:
\* the callback of listen is asked before the error handler that follows.
TryPort(f) ==
    LET free == holder[port[f]] = None IN
      /\ step[f] = "binding"
      /\ holder' = IF free THEN [holder EXCEPT ![port[f]] = f] ELSE holder
      /\ IF free \/ ErrorReachesListener
         THEN Goto(f, "bound") /\ UNCHANGED port
         ELSE IF port[f] < Ports
         THEN port' = [port EXCEPT ![f] = @ + 1] /\ UNCHANGED step
         ELSE Goto(f, "failed") /\ UNCHANGED port
      /\ UNCHANGED <<consent, got, others>>

\* start makes the client of the flow, with the port in its redirect URI.
LoadCredentials(f, ok) ==
    /\ step[f] = "bound"
    /\ IF ok THEN Goto(f, "waiting") /\ UNCHANGED holder ELSE Ends(f, "failed")
    /\ UNCHANGED <<port, consent, got, others>>

\* The user follows the link of flow f and consents: the browser takes the code to
\* whoever listens at the port of the link.  The code is good for any of them: it
\* is bound to the client id and the redirect URI only.
Consent(f) ==
    LET h == holder[port[f]] IN
      /\ step[f] = "waiting" /\ consent[f] = None
      /\ h \in Flows /\ step[h] = "waiting"
      /\ consent' = [consent EXCEPT ![f] = h]
      /\ UNCHANGED <<holder, step, port, got, others>>

\* The callback of flow h stores the tokens.  A flow that adds an account closes
\* its listener in the same turn; a first consent is found by the next poll.
Stored(f) ==
    LET h == consent[f] IN
      /\ h # None
      /\ got' = [got EXCEPT ![h] = @ \cup {f}]
      /\ IF step[h] # "waiting" THEN UNCHANGED <<step, holder>>
         ELSE IF h \in FirstTime THEN Goto(h, "stored") /\ UNCHANGED holder
         ELSE Ends(h, "done")
      /\ consent' = [consent EXCEPT ![f] = None]
      /\ UNCHANGED <<port, others>>

\* The exchange or the store fails: when the store does, an added account fails,
\* and a first consent that the poll has not found yet is forgotten.
CallbackFails(f, exchanged) ==
    LET h == consent[f] IN
      /\ h # None
      /\ IF exchanged /\ h \notin FirstTime /\ step[h] = "waiting"
         THEN Ends(h, "failed")
         ELSE /\ IF step[h] = "stored" THEN Goto(h, "waiting") ELSE UNCHANGED step
              /\ UNCHANGED holder
      /\ consent' = [consent EXCEPT ![f] = None]
      /\ UNCHANGED <<port, got, others>>

\* setInterval of buildAuthSystem.
Poll(f) ==
    /\ step[f] = "stored"
    /\ Ends(f, "done")
    /\ UNCHANGED <<port, consent, got, others>>

\* awaitConsentCompletion and the auth command give up; a first consent waits for ever.
Timeout(f) ==
    /\ step[f] = "waiting" /\ f \notin FirstTime
    /\ Ends(f, "failed")
    /\ UNCHANGED <<port, consent, got, others>>

OtherTakes(p) ==
    /\ others < MaxOthers /\ others' = others + 1
    /\ holder[p] = None
    /\ holder' = [holder EXCEPT ![p] = Other]
    /\ UNCHANGED <<step, port, consent, got>>

OtherLeaves(p) ==
    /\ holder[p] = Other
    /\ holder' = [holder EXCEPT ![p] = None]
    /\ UNCHANGED <<step, port, consent, got, others>>

Next ==
    \/ \E f \in Flows :
         \/ Start(f) \/ TryPort(f) \/ Consent(f) \/ Stored(f) \/ Poll(f) \/ Timeout(f)
         \/ \E ok \in BOOLEAN : LoadCredentials(f, ok) \/ CallbackFails(f, ok)
    \/ \E p \in Range : OtherTakes(p) \/ OtherLeaves(p)

Spec == Init /\ [][Next]_vars

-----------------------------------------------------------------------------
\* docs/authentication.md:43 and 49: a port that is taken is skipped.  A flow that
\* has started listens itself at the port in its link, so that its user's consent
\* comes to it, and not to another account's flow or another program.
ListensAtItsPort ==
    \A f \in Flows : step[f] = "waiting" => holder[port[f]] = f
=============================================================================

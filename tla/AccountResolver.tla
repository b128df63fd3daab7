--------------------------- MODULE AccountResolver ---------------------------
(***************************************************************************)
(* Which account a tool call runs as:                                      *)
(*   src/src/auth/accountResolver.ts  explicit account, defaults, the only *)
(*                                    eligible account                     *)
(*   src/src/index.ts                 what the dispatch makes of it        *)
(*                                                                         *)
(* granted maps every account on file (team mode: every member) to the     *)
(* scopes of its consent; a call is what toolMeta says of its tool and the *)
(* arguments and token it comes with:                                      *)
(*   [tool, op, acceptable, account, token]                                *)
(* tool is "plain", "accounts" (manage_accounts), "hidden" (the tools that *)
(* report local state), "admin" (the other admin tools) or "resource".     *)
(***************************************************************************)
CONSTANTS
    Absent,             \* no alias: absent, null or blank
    Listed              \* an `account` argument that is not a string

NoInput == [kind |-> "none", accounts |-> {}]

Single(a) == [kind |-> "single", accounts |-> {a}]

Fanout(accounts) == [kind |-> "fanout", accounts |-> accounts]

Refusal == [kind |-> "error", accounts |-> {}]

\* coversScopes: any acceptable scope will do, and none is needed when the
\* list is empty.
Covers(scopes, acceptable) == acceptable = {} \/ scopes \cap acceptable # {}

Eligible(granted, acceptable) ==
    {a \in DOMAIN granted : Covers(granted[a], acceptable)}

\* An explicit account, or an array of them on a read tool.
ResolveExplicit(eligible, input, op) ==
    IF ~ input.accounts \subseteq eligible THEN Refusal
    ELSE IF input.kind = "one" THEN input
    ELSE IF op = "read" /\ input.accounts # {} THEN Fanout(input.accounts)
    ELSE Refusal

\* Mutant: a default without the scopes counts as no default.
IgnoredDefault(granted, chosen, def) == FALSE

\* A default that is on file but lacks the scopes: the call is refused rather
\* than sent to another account.
SkippedDefault(granted, chosen, def) == {chosen, def} \cap DOMAIN granted # {}

\* AccountResolver.resolve.  chosen is the default of the session, def that of
\* tokens.json.
Resolve(granted, chosen, def, input, op, acceptable) ==
    LET eligible == Eligible(granted, acceptable)
    IN  IF input.kind # "none" THEN ResolveExplicit(eligible, input, op)
        ELSE IF chosen \in eligible THEN Single(chosen)
        ELSE IF def \in eligible THEN Single(def)
        ELSE IF SkippedDefault(granted, chosen, def) THEN Refusal
        ELSE IF \E a \in eligible : eligible = {a} THEN [kind |-> "single", accounts |-> eligible]
        ELSE IF op = "read" /\ eligible # {} THEN Fanout(eligible)
        ELSE Refusal

----------------------------------------------------------------------------
(* Dispatch *)

\* normalizeAccountArg, as far as it does not throw.
Input(account) ==
    IF account = Absent THEN NoInput ELSE [kind |-> "one", accounts |-> {account}]

\* defaultAccountOrUndefined: the default, or whichever account tokens.json
\* lists first.
DefaultAccounts(granted, def) ==
    IF def \in DOMAIN granted THEN {def} ELSE DOMAIN granted

\* The accounts a call may run as on a local server; with none it is refused.
\* Admin tools run without a client when there is no account.  No session ever
\* has a default of its own.
LocalTargets(call, granted, def) ==
    IF call.tool = "resource" THEN DefaultAccounts(granted, def)
    ELSE IF call.tool # "plain"
      THEN IF DOMAIN granted = {} THEN {Absent} ELSE DefaultAccounts(granted, def)
    ELSE IF call.account = Listed THEN {}
    ELSE LET targeting == Resolve(granted, Absent, def, Input(call.account), call.op, call.acceptable)
         IN  IF targeting.kind = "single" THEN targeting.accounts ELSE {}

TeamRefuses(call) ==
    call.tool \in {"accounts", "hidden", "resource"} \/ call.account # Absent

\* The token's own scopes bind as well as the member's consent.
TeamAllows(call, caller, granted) ==
    \/ call.tool = "admin"
    \/ /\ caller \in Eligible(granted, call.acceptable)
       /\ Covers(call.token, call.acceptable)

\* handleTeamToolCall: the caller or nobody.
TeamTargets(call, caller, granted) ==
    IF TeamRefuses(call) \/ ~ TeamAllows(call, caller, granted) THEN {} ELSE {caller}

----------------------------------------------------------------------------
(* What the user may rely on *)

\* The account a tool call on Google data is meant for: the one it names, or
\* the user's default, or without a default the only one that could serve it;
\* and always one that consented to a scope of the tool.
MeantFor(a, account, granted, def, acceptable) ==
    /\ a \in DOMAIN granted
    /\ Covers(granted[a], acceptable)
    /\ account # Absent => a = account
    /\ (account = Absent /\ def \in DOMAIN granted) => a = def
    /\ (account = Absent /\ def \notin DOMAIN granted)
          => \A b \in DOMAIN granted : Covers(granted[b], acceptable) => b = a

RightLocally(a, call, granted, def) ==
    /\ call.tool = "plain" => MeantFor(a, call.account, granted, def, call.acceptable)
    /\ call.tool = "resource" => a \in DOMAIN granted /\ (def \in DOMAIN granted => a = def)

RightForMember(a, call, caller, granted) ==
    /\ a = caller
    /\ call.tool = "plain" =>
          /\ a \in DOMAIN granted
          /\ Covers(granted[a], call.acceptable)
          /\ Covers(call.token, call.acceptable)
    /\ call.account = Absent
=============================================================================

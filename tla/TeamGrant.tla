----------------------------- MODULE TeamGrant -----------------------------
(***************************************************************************)
(* One team member's Google grant and the objects that use it:             *)
(*   src/src/auth/team/clientFactory.ts   cached client, service, refresh  *)
(*   src/src/auth/team/callback.ts        a new sign-in replaces the grant *)
(*   src/src/auth/team/runtime.ts         and evicts what was cached       *)
(*   src/src/index.ts                     a tool call gathers its clients  *)
(*                                                                         *)
(* Everything here is keyed by the member's sub, so one member is enough.  *)
(* A grant is one consent; a refresh token and the access tokens got with  *)
(* it are named by it.  OAuth2Client objects are numbered as they are      *)
(* made.  getDrive and getCalendar are alike: `service` is either cache.   *)
(* Handlers run from one await to the next; those that wait for one        *)
(* refresh go on together when it settles, before anything else runs.      *)
(* A mutation runs on what it re-reads from the file; when its write fails *)
(* the maps keep it until the next one re-reads.                           *)
(***************************************************************************)
EXTENDS Integers, Sequences, FiniteSets

CONSTANTS
    Calls,              \* tool calls of the member, at once
    MaxGrants,          \* bounds of the model: consents,
    MaxTokens,          \* access tokens,
    MaxObjects,         \* OAuth2Client objects, when a call starts,
    MaxFaults           \* and failed writes

Grants == 1..MaxGrants
Tokens == 1..MaxTokens
Objects == 1..MaxObjects

ASSUME ConstantsAssumption ==
    /\ MaxGrants \in Nat \ {0} /\ MaxTokens \in Nat \ {0}
    /\ MaxObjects \in Nat /\ MaxFaults \in Nat

VARIABLES
    granted,     \* grants so far
    dead,        \* grants that Google no longer honours
    tokens,      \* access token -> its grant, in the order they were issued
    due,         \* access tokens at their refresh buffer, or expired
    user,        \* the member's record, in memory
    client,      \* the cached OAuth2Client, 0 if there is none
    service,     \* the client of the cached Drive service, 0 if none
    creds,       \* object -> its credentials
    refresh,     \* the refresh in flight that callers share
    library,     \* objects refreshing in the library, for a request of theirs
    call,        \* tool call -> where it is, and the objects it has got
    queue,       \* mutations behind mutateDurable
    writing,     \* the mutation being written, as a sequence of at most one
    signIn,      \* "none", "saving" or "code"
    mcp,         \* whether the maps have MCP tokens of the member
    file,        \* the record and the MCP tokens, as the file has them
    faults,      \* failed writes so far
    settled,     \* history: the grant of a sign-in that nothing overlapped
    givenUp      \* history: revocations given up because a write failed

google == <<granted, dead, tokens, due>>
caches == <<client, service>>
queueVars == <<queue, writing>>
disk == <<file, faults, givenUp>>
vars == <<google, user, caches, creds, refresh, library, call, queueVars, signIn,
          mcp, disk, settled>>

Credentials == [refresh : Grants, access : Tokens \cup {0}]

NoRefresh == [obj |-> 0, state |-> "none"]

IdleCall == [step |-> "idle", obj |-> 0, service |-> 0]

\* The server starts with a signed-in member on file and empty caches.
Init ==
    /\ granted = 1 /\ dead = {}
    /\ tokens = <<1>> /\ due = {}
    /\ user = [refresh |-> 1, access |-> 1, needsReauth |-> FALSE]
    /\ client = 0 /\ service = 0
    /\ creds = <<>>
    /\ refresh = NoRefresh
    /\ library = {}
    /\ call = [k \in Calls |-> IdleCall]
    /\ queue = <<>> /\ writing = <<>>
    /\ signIn = "none"
    /\ mcp = TRUE
    /\ file = [user |-> user, mcp |-> mcp]
    /\ faults = 0
    /\ settled = 0 /\ givenUp = 0

\* mutateDurable puts a mutation in the queue.
Mutation(op, g, t) == [op |-> op, refresh |-> g, access |-> t]

Enqueue(m) == queue' = Append(queue, m)

Fault == faults < MaxFaults /\ faults' = faults + 1

-----------------------------------------------------------------------------
(***************************************************************************)
(* getClient and getDrive.                                                 *)
(***************************************************************************)

\* The record a caller may build a client from.
Usable == ~user.needsReauth

\* ensureClient: the cached client, or a new one with the record's tokens.
ClientOf(objects) == IF client # 0 THEN client ELSE Len(objects) + 1

WithClient(objects) ==
    IF client # 0 THEN objects
    ELSE Append(objects, [refresh |-> user.refresh, access |-> user.access])

\* refreshIfNeeded goes by the client's expiry, or else by the record's.
NeedsRefresh(c) ==
    IF c.access # 0 THEN c.access \in due
    ELSE user.access = 0 \/ user.access \in due

\* A refresh in flight is waited for, whichever client it is for.
AskFor(o) == IF refresh.state = "none" THEN [obj |-> o, state |-> "asked"] ELSE refresh

At(step, o, s) == [step |-> step, obj |-> o, service |-> s]

\* A tool call of the member passes the bearer check and asks for its service
\* and its client: it has both at once, or waits for a refresh.
Start(k) ==
    LET o == ClientOf(creds)
        s == IF service # 0 THEN service ELSE o
    IN  /\ call[k].step = "idle"
        /\ mcp /\ Usable
        /\ o <= MaxObjects
        /\ client' = o
        /\ creds' = WithClient(creds)
        /\ IF NeedsRefresh(creds'[o])
           THEN /\ call' = [call EXCEPT ![k] = At("drive", o, 0)]
                /\ refresh' = AskFor(o)
                /\ UNCHANGED service
           ELSE /\ call' = [call EXCEPT ![k] = At("using", o, s)]
                /\ service' = s
                /\ UNCHANGED refresh
        /\ UNCHANGED <<google, user, library, queueVars, signIn, mcp, disk, settled>>

InDrive == {k \in Calls : call[k].step = "drive"}

Waiters == {k \in Calls : call[k].step \in {"drive", "client"}}

\* The refresh is over and the objects have the given credentials.  Who waits
\* in getDrive caches the service, unless there is one, on the client it asked
\* with, and asks for its client again; who waits for that goes on.
WaitersGoOn(objects) ==
    IF InDrive = {}
    THEN /\ call' = [k \in Calls |-> IF k \in Waiters THEN [call[k] EXCEPT !.step = "using"]
                                     ELSE call[k]]
         /\ creds' = objects
         /\ refresh' = NoRefresh
         /\ UNCHANGED caches
    ELSE \E first \in InDrive :
         LET o == ClientOf(objects)
             s == IF service # 0 THEN service ELSE call[first].obj
             with == WithClient(objects)
             again == Usable /\ NeedsRefresh(with[o])
             next == IF ~Usable THEN IdleCall ELSE At(IF again THEN "client" ELSE "using", o, s)
         IN  /\ service' = s
             /\ client' = IF Usable THEN o ELSE client
             /\ creds' = IF Usable THEN with ELSE objects
             /\ refresh' = IF again THEN [obj |-> o, state |-> "asked"] ELSE NoRefresh
             /\ call' = [k \in Calls |-> IF k \in InDrive THEN next
                                         ELSE IF k \in Waiters THEN [call[k] EXCEPT !.step = "using"]
                                         ELSE call[k]]

Using(k) == {call[k].obj, call[k].service} \ {0}

\* The tool's requests are answered.
End(k) ==
    /\ call[k].step = "using"
    /\ Using(k) \cap library = {}
    /\ call' = [call EXCEPT ![k] = IdleCall]
    /\ UNCHANGED <<google, user, caches, creds, refresh, library, queueVars,
                   signIn, mcp, disk, settled>>

\* Mutant: the service stays cached.
EvictClient == client' = 0 /\ UNCHANGED service

\* Forget what is cached for the member.
Evict == client' = 0 /\ service' = 0

-----------------------------------------------------------------------------
(***************************************************************************)
(* Refreshes.                                                              *)
(***************************************************************************)

\* The refresh in flight may bring one more token.
Coming == IF refresh.state = "ok" THEN 1 ELSE 0

\* Google answers a refresh by object o with a token, with invalid_grant, or
\* not at all.
Answers(o) ==
    {"failed"} \cup IF creds[o].refresh \in dead THEN {"dead"}
                    ELSE IF Len(tokens) + Coming < MaxTokens THEN {"ok"} ELSE {}

AnswerRefresh ==
    /\ refresh.state = "asked"
    /\ \E a \in Answers(refresh.obj) : refresh' = [refresh EXCEPT !.state = a]
    /\ UNCHANGED <<google, user, caches, creds, library, call,
                   queueVars, signIn, mcp, disk, settled>>

\* Object o has its new access token.
Refreshed(o) == [creds EXCEPT ![o].access = Len(tokens) + 1]

\* Its listener queues the record's update; by the time that runs, the library
\* may have put o's own refresh token beside the access token it reported.
PersistRefreshed(o) ==
    LET t == Len(tokens) + 1 IN
        /\ tokens' = Append(tokens, creds[o].refresh)
        /\ \E g \in {0, creds[o].refresh} : Enqueue(Mutation("persist", g, t))

\* The refresh succeeds: everybody who waits goes on.
RefreshSucceeds ==
    /\ refresh.state = "ok"
    /\ PersistRefreshed(refresh.obj)
    /\ WaitersGoOn(Refreshed(refresh.obj))
    /\ UNCHANGED <<granted, dead, due, user, library, writing, signIn, mcp, disk, settled>>

\* Any error but invalid_grant is left for the tool's own request to meet.
RefreshFails ==
    /\ refresh.state = "failed"
    /\ WaitersGoOn(creds)
    /\ UNCHANGED <<google, user, library, queueVars, signIn, mcp, disk, settled>>

IsInvalidGrant(state) == state = "dead"

\* handleRevokedGrant: flag the record, then revoke the member's tokens.
GrantIsDead ==
    /\ IsInvalidGrant(refresh.state)
    /\ refresh' = [refresh EXCEPT !.state = "flagging"]
    /\ Enqueue(Mutation("flag", 0, 0))
    /\ UNCHANGED <<google, user, caches, creds, library, call, writing,
                   signIn, mcp, disk, settled>>

\* The request of a call finds its object's access token due and refreshes it
\* in the library, outside the refresh that callers share.
AskLibrary(o) ==
    /\ \E k \in Calls : call[k].step = "using" /\ o \in Using(k)
    /\ o \notin library
    /\ creds[o].access = 0 \/ creds[o].access \in due
    /\ library' = library \cup {o}
    /\ UNCHANGED <<google, user, caches, creds, refresh, call, queueVars,
                   signIn, mcp, disk, settled>>

\* Google answers; the request goes on with the new token, or its call fails.
LibraryReturns(o) ==
    /\ o \in library
    /\ library' = library \ {o}
    /\ \E a \in Answers(o) :
         IF a = "ok"
         THEN PersistRefreshed(o) /\ creds' = Refreshed(o) /\ UNCHANGED call
         ELSE /\ call' = [k \in Calls |-> IF call[k].step = "using" /\ o \in Using(k)
                                          THEN IdleCall ELSE call[k]]
              /\ UNCHANGED <<tokens, creds, queue>>
    /\ UNCHANGED <<granted, dead, due, user, caches, refresh, writing, signIn, mcp, disk, settled>>

-----------------------------------------------------------------------------
(***************************************************************************)
(* A new sign-in of the member.                                            *)
(***************************************************************************)

\* Nothing holds or awaits what an earlier grant gave.
Quiet ==
    /\ refresh = NoRefresh
    /\ queue = <<>>
    /\ library = {}
    /\ \A k \in Calls : call[k].step = "idle"

RefreshToken(g, offline) == IF offline THEN g ELSE user.refresh

\* Google issues a grant, usually with a refresh token; the callback reads the
\* record and queues the whole new one.
SignInReturns(offline) ==
    /\ signIn = "none"
    /\ granted < MaxGrants /\ Len(tokens) + Coming < MaxTokens
    /\ granted' = granted + 1
    /\ tokens' = Append(tokens, granted')
    /\ Enqueue(Mutation("upsert", RefreshToken(granted', offline), Len(tokens')))
    /\ signIn' = "saving"
    /\ settled' = 0
    /\ UNCHANGED <<dead, due, user, caches, creds, refresh, library, call, writing, mcp, disk>>

\* The client exchanges its code.  The mutations that store its pair of MCP
\* tokens re-read the file like any other and are one step here, between two
\* of the queue; when a write of theirs fails the client gets an error.
ExchangeCode ==
    /\ signIn = "code" /\ signIn' = "none"
    /\ writing = <<>>
    /\ user' = file.user
    /\ \/ file' = [file EXCEPT !.mcp = TRUE] /\ UNCHANGED faults
       \/ Fault /\ UNCHANGED file
    /\ mcp' = file'.mcp
    /\ UNCHANGED <<google, caches, creds, refresh, library, call, queueVars,
                   settled, givenUp>>

-----------------------------------------------------------------------------
(***************************************************************************)
(* The mutations, applied one at a time, and what follows them.            *)
(***************************************************************************)

\* What mutation m makes of record u.
Applied(m, u) ==
    CASE m.op = "upsert"  -> [refresh |-> m.refresh, access |-> m.access, needsReauth |-> FALSE]
      [] m.op = "flag"    -> [u EXCEPT !.access = 0, !.needsReauth = TRUE]
      [] m.op = "persist" -> [u EXCEPT !.access = m.access,
                                       !.refresh = IF m.refresh = 0 THEN @ ELSE m.refresh]
      [] m.op = "revoke"  -> u

Apply ==
    /\ writing = <<>> /\ queue # <<>>
    /\ writing' = <<Head(queue)>>
    /\ queue' = Tail(queue)
    /\ user' = Applied(Head(queue), file.user)
    /\ mcp' = (file.mcp /\ Head(queue).op # "revoke")
    /\ UNCHANGED <<google, caches, creds, refresh, library, call, signIn, disk, settled>>

Taken(op) == writing # <<>> /\ writing[1].op = op /\ writing' = <<>>

\* The write succeeds: the file has what the maps have.
Written(op) ==
    /\ Taken(op)
    /\ file' = [user |-> user, mcp |-> mcp]
    /\ UNCHANGED <<user, mcp, faults, givenUp>>

Failed(op) ==
    /\ Taken(op)
    /\ Fault
    /\ UNCHANGED <<user, mcp, file>>

\* A failed write of refreshed tokens is logged.
PersistDone ==
    /\ Written("persist") \/ (Failed("persist") /\ UNCHANGED givenUp)
    /\ UNCHANGED <<google, caches, creds, refresh, library, call, queue, signIn, settled>>

\* onUserAuthorized evicts, and the code is issued.
UpsertDone ==
    /\ LET m == writing[1] IN Written("upsert") /\ settled' = IF Quiet THEN m.refresh ELSE 0
    /\ Evict
    /\ signIn' = "code"
    /\ UNCHANGED <<google, creds, refresh, library, call, queue>>

\* Or the callback throws.
UpsertFails ==
    /\ Failed("upsert")
    /\ signIn' = "none"
    /\ UNCHANGED <<google, caches, creds, refresh, library, call, queue, settled, givenUp>>

\* Mutant: the tokens are left to expire.
ThenNothing == UNCHANGED queue

ThenRevoke == Enqueue(Mutation("revoke", 0, 0))

\* Mutant: the refresh is forgotten before its callers hear of it.
Forget == refresh' = NoRefresh

KeepWaiters == refresh' = [refresh EXCEPT !.state = "revoking"]

FlagDone ==
    /\ Written("flag")
    /\ ThenRevoke
    /\ KeepWaiters
    /\ UNCHANGED <<google, caches, creds, library, call, signIn, settled>>

Reject == [k \in Calls |-> IF k \in Waiters THEN IdleCall ELSE call[k]]

\* The handler evicts and throws to everybody who waits.
RejectWaiters ==
    /\ Evict
    /\ refresh' = NoRefresh
    /\ call' = Reject
    /\ UNCHANGED <<google, creds, library, queue, signIn, settled>>

RevokeDone == Written("revoke") /\ RejectWaiters

\* So it does when either write fails, without the rest of the revocation.
RevocationFails ==
    /\ Failed("flag") \/ Failed("revoke")
    /\ givenUp' = givenUp + 1
    /\ RejectWaiters

\* A mutation of somebody else's re-reads the file.
Reread ==
    /\ writing = <<>>
    /\ user' = file.user /\ mcp' = file.mcp
    /\ UNCHANGED <<google, caches, creds, refresh, library, call, queueVars, signIn,
                   disk, settled>>

-----------------------------------------------------------------------------
(***************************************************************************)
(* Outside the server.                                                     *)
(***************************************************************************)

\* Access tokens live equally long.
Expire(t) ==
    /\ t <= Len(tokens) /\ t \notin due
    /\ 1..(t - 1) \subseteq due
    /\ due' = due \cup {t}
    /\ UNCHANGED <<granted, dead, tokens, user, caches, creds, refresh, library, call,
                   queueVars, signIn, mcp, disk, settled>>

\* The member withdraws the consent, or the account's password changes.
Withdraw ==
    /\ dead # 1..granted
    /\ dead' = 1..granted
    /\ UNCHANGED <<granted, tokens, due, user, caches, creds, refresh, library, call,
                   queueVars, signIn, mcp, disk, settled>>

-----------------------------------------------------------------------------
Refreshing == AnswerRefresh \/ RefreshSucceeds \/ RefreshFails \/ GrantIsDead

Mutating ==
    Apply \/ PersistDone \/ UpsertDone \/ UpsertFails
          \/ FlagDone \/ RevokeDone \/ RevocationFails

Next ==
    \/ Refreshing \/ Mutating \/ Reread \/ ExchangeCode \/ Withdraw
    \/ \E k \in Calls : Start(k) \/ End(k)
    \/ \E o \in Objects : AskLibrary(o) \/ LibraryReturns(o)
    \/ \E offline \in BOOLEAN : SignInReturns(offline)
    \/ \E t \in Tokens : Expire(t)

\* Google and the disk answer, and a tool whose requests are answered returns.
Fairness ==
    /\ WF_vars(Refreshing) /\ WF_vars(Mutating)
    /\ \A o \in Objects : WF_vars(LibraryReturns(o))
    /\ \A k \in Calls : WF_vars(End(k))

Spec == Init /\ [][Next]_vars /\ Fairness

-----------------------------------------------------------------------------
MutationRecords ==
    [op : {"upsert", "persist", "flag", "revoke"}, refresh : Grants \cup {0},
     access : Tokens \cup {0}]

Users == [refresh : Grants, access : Tokens \cup {0}, needsReauth : BOOLEAN]

TypeOK ==
    /\ granted \in Grants /\ dead \subseteq Grants
    /\ tokens \in Seq(Grants) /\ Len(tokens) <= MaxTokens /\ due \subseteq 1..Len(tokens)
    /\ user \in Users /\ file \in [user : Users, mcp : BOOLEAN]
    /\ creds \in Seq(Credentials) /\ {client, service} \subseteq 0..Len(creds)
    /\ refresh \in [obj : 0..Len(creds), state : {"none", "asked", "ok", "dead", "failed",
                                                  "flagging", "revoking"}]
    /\ library \subseteq 1..Len(creds)
    /\ call \in [Calls -> [step : {"idle", "drive", "client", "using"},
                           obj : 0..Len(creds), service : 0..Len(creds)]]
    /\ queue \in Seq(MutationRecords) /\ writing \in Seq(MutationRecords) /\ Len(writing) <= 1
    /\ signIn \in {"none", "saving", "code"}
    /\ mcp \in BOOLEAN
    /\ faults \in 0..MaxFaults /\ givenUp \in 0..faults
    /\ settled \in Grants \cup {0}

\* What a sign-in that nothing overlapped has put in place stays, whatever is
\* refreshed, flagged, written or not afterwards: the record holds its grant,
\* in memory and on file, unflagged unless Google drops it, and so do the
\* caches.
SignInTakesEffect ==
    settled # 0 =>
        /\ \A u \in {user, file.user} :
              u.refresh = settled /\ (u.needsReauth => settled \in dead)
        /\ \A o \in {client, service} \ {0} : creds[o].refresh = settled

\* Calls that wait always have a refresh to wait for.
WaitersAreServed == Waiters # {} => refresh # NoRefresh

-----------------------------------------------------------------------------
(***************************************************************************)
(* The inductive invariant.                                                *)
(***************************************************************************)

\* The objects that something still goes through.
Held ==
    ({client, service, refresh.obj} \cup library
        \cup {call[k].obj : k \in Calls} \cup {call[k].service : k \in Calls}) \ {0}

\* A refresh in flight has its object, and no other outcome than an answer of
\* Google about a grant that is gone leads to a revocation.
RefreshKnown ==
    /\ refresh.state = "none" <=> refresh.obj = 0
    /\ refresh.state \in {"dead", "flagging", "revoking"} =>
           creds[refresh.obj].refresh \in dead

\* What is still to come fits: a token for a refresh that Google granted.
RoomForToken == Len(tokens) + Coming <= MaxTokens

IdleHoldsNothing == \A k \in Calls : call[k].step = "idle" => call[k] = IdleCall

\* The mutations that are not done.
Pending == {queue[i] : i \in 1..Len(queue)} \cup {writing[i] : i \in 1..Len(writing)}

Revoking(m) == m.op \in {"flag", "revoke"}

\* One revocation at a time, the one that the shared refresh waits for.
OneRevocation ==
    /\ \A i \in 1..Len(queue) : Revoking(queue[i]) =>
           /\ \A j \in 1..Len(queue) : Revoking(queue[j]) => i = j
           /\ \A j \in 1..Len(writing) : ~Revoking(writing[j])
    /\ \A m \in Pending :
           /\ m.op = "flag" => refresh.state = "flagging"
           /\ m.op = "revoke" => refresh.state = "revoking"

\* A sign-in brings a refresh token, and what it wrote stays until its
\* callback goes on.
UpsertInPlace ==
    /\ \A m \in Pending : m.op = "upsert" => m.refresh # 0
    /\ \A i \in 1..Len(writing) : writing[i].op = "upsert" =>
           user.refresh = writing[i].refresh /\ ~user.needsReauth

\* Once a sign-in has settled, a pending mutation cannot undo it.
Harmless(m) ==
    \/ m.op = "persist" /\ m.refresh \in {0, settled}
    \/ Revoking(m) /\ settled \in dead

SettledInPlace ==
    settled # 0 =>
        /\ \A u \in {user, file.user} :
              u.refresh = settled /\ (u.needsReauth => settled \in dead)
        /\ \A o \in Held : creds[o].refresh = settled
        /\ \A m \in Pending : Harmless(m)

IInv ==
    /\ TypeOK
    /\ dead \subseteq 1..granted
    /\ RefreshKnown /\ RoomForToken /\ IdleHoldsNothing
    /\ WaitersAreServed /\ OneRevocation /\ UpsertInPlace /\ SettledInPlace

\* When Google calls the grant dead, the member's MCP tokens are withdrawn, in
\* memory and on file, unless this revocation is given up: the handler catches
\* a failed write, logs it, and leaves the tokens.
DeadGrantSignsOut ==
    \A n \in 0..MaxFaults :
        refresh.state = "dead" /\ givenUp = n ~> (~mcp /\ ~file.mcp) \/ givenUp > n
=============================================================================

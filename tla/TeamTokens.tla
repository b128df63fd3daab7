---------------------------- MODULE TeamTokens ----------------------------
(***************************************************************************)
(* The token endpoint of the team OAuth server: authorization codes turned *)
(* into token pairs, refresh-token rotation with a grace window and        *)
(* reuse-detection tombstones, revocation, expiry, per-user caps and the   *)
(* least-recently-used registry of clients.                                *)
(*   src/src/auth/team/provider.ts     the request handlers                *)
(*   src/src/auth/team/memoryStore.ts  the maps and their mutations        *)
(*   src/src/auth/team/fileStore.ts    the queue the mutations go through  *)
(*                                                                         *)
(* A handler reads the maps directly and changes them only through         *)
(* mutateDurable, whose queue runs one mutation at a time: it changes the  *)
(* maps, then writes the file, then the handler continues. So a request is *)
(* a job that is queued, applied and continued, and other requests read    *)
(* and queue in between.  Pairs are numbered in the order they are minted, *)
(* so createdAt and expiresAt grow with the number and the oldest token of *)
(* a set is its smallest number.                                           *)
(***************************************************************************)
EXTENDS Integers, FiniteSets, Sequences

CONSTANTS
    Subs,                 \* team members, by Google sub
    Clients,              \* MCP clients, by client_id
    Scopes,
    Codes,                \* authorization codes; a code names its token family
    CodeGrant,            \* [Codes -> what the sign-in behind the code granted]
    BootTokens,           \* the refresh tokens init() loads from the file:
    BootPairs,            \* pairs 1..BootPairs, one token each
    BootLastUsed,         \* client recency ticks on file; 0: not registered
    BootTick,             \* the highest of them
    Requests,             \* HTTP requests in flight at once
    Sweeper,              \* the sweep timer's job
    None,
    TokenTtl, RefreshTtl, RefreshGrace, TombstoneTtl,
    MaxClients, MaxTokensPerSub, MaxTombstonesPerSub,
    MaxPairs, MaxTime,    \* bounds of the model: pairs minted, clock,
    MaxRequests           \* requests that change the store

Pairs == 1..MaxPairs
Times == 0..MaxTime
Jobs == Requests \cup {Sweeper}

Grants == [client : Clients, sub : Subs, scopes : SUBSET Scopes]

AccessRecords ==
    [client : Clients, sub : Subs, scopes : SUBSET Scopes, family : Codes,
     expiresAt : Nat]

\* supersededBy = 0 is the record whose supersededByHash is undefined.
RefreshRecords ==
    [client : Clients, sub : Subs, scopes : SUBSET Scopes, family : Codes,
     expiresAt : Nat, supersededBy : Nat, graceUntil : Nat]

ASSUME ConstantsAssumption ==
    /\ CodeGrant \in [Codes -> Grants]
    /\ BootTokens \in [Pairs -> RefreshRecords \cup {None}]
    /\ BootPairs \in 0..MaxPairs
    /\ \A p \in Pairs : BootTokens[p] # None <=> p <= BootPairs
    /\ \A p \in 1..BootPairs :
           LET t == BootTokens[p]  g == CodeGrant[t.family]
           IN  t.client = g.client /\ t.sub = g.sub /\ t.scopes = g.scopes
    /\ BootTick \in Nat /\ BootLastUsed \in [Clients -> 0..BootTick]
    /\ Sweeper \notin Requests
    /\ None \notin Codes \cup Clients \cup Subs \cup Jobs
    /\ None \notin AccessRecords \cup RefreshRecords
    /\ {TokenTtl, RefreshTtl, RefreshGrace, TombstoneTtl} \subseteq Nat
    /\ {MaxClients, MaxTokensPerSub, MaxTombstonesPerSub} \subseteq Nat \ {0}
    /\ {MaxPairs, MaxTime, MaxRequests} \subseteq Nat

BootOf(s, active) ==
    {p \in 1..BootPairs : BootTokens[p].sub = s /\ (BootTokens[p].supersededBy = 0 <=> active)}

\* The file was written by this code: within the caps, which the server does
\* not configure, with a tick of its own for every client, and a successor
\* was minted before it was named.
ASSUME FileAssumption ==
    /\ IsFiniteSet(Requests) /\ IsFiniteSet({k \in Clients : BootLastUsed[k] > 0})
    /\ \A i, k \in Clients :
           BootLastUsed[i] = BootLastUsed[k] /\ BootLastUsed[k] > 0 => i = k
    /\ \A p \in 1..BootPairs : BootTokens[p].supersededBy <= BootPairs
    /\ \A s \in Subs :
           /\ Cardinality(BootOf(s, TRUE)) <= MaxTokensPerSub
           /\ Cardinality(BootOf(s, FALSE))
                 <= MaxTombstonesPerSub - 1 + Cardinality(Requests)

VARIABLES
    now,
    codes,           \* code -> "unissued", "live" or "consumed"
    users,           \* sub -> None, "authorized" or "needsReauth"
    accessTokens,    \* pair -> its access token record, or None
    refreshTokens,   \* pair -> its refresh token record, or None
    minted,          \* pairs minted so far
    requests,        \* requests begun so far
    clientLastUsed,  \* client -> recency tick, 0 when not registered
    lastClientTick,
    job,             \* request -> the mutation it waits for
    writeQueue,      \* jobs queued behind mutateDurable
    writing,         \* job whose mutation is applied and being written
    revoked,         \* history: how each family was revoked
    known,           \* history: clients that ever registered
    usedSince        \* history: clients active since a client last was

store == <<accessTokens, refreshTokens, clientLastUsed, lastClientTick>>
queueVars == <<writeQueue, writing>>
history == <<revoked, known, usedSince>>
vars == <<now, codes, users, store, minted, requests, job, queueVars, history>>

Ops == {"idle", "saveClient", "upsertUser", "saveAccessToken",
        "saveRefreshToken", "updateRefreshToken", "deleteAccessToken",
        "revokeTokenFamily", "updateUser", "revokeTokensForSub",
        "sweepExpired"}

\* What a handler keeps across its awaits.  old is the refresh record it
\* read, pair the one it mints (or the token it acts on), at its clock.
JobRecords ==
    [op : Ops, client : Clients \cup {None}, sub : Subs \cup {None},
     code : Codes \cup {None}, scopes : SUBSET Scopes,
     accessScopes : SUBSET Scopes, pair : 0..MaxPairs, parent : 0..MaxPairs,
     old : RefreshRecords \cup {None}, at : Times]

Idle == [op |-> "idle", client |-> None, sub |-> None, code |-> None,
         scopes |-> {}, accessScopes |-> {}, pair |-> 0, parent |-> 0,
         old |-> None, at |-> 0]

MintOps == {"saveAccessToken", "saveRefreshToken", "updateRefreshToken"}

\* Job j is minting a pair of family c.
Minting(j, c) == job[j].op \in MintOps /\ job[j].code = c

\* Families with a token on file.
OnFile == {BootTokens[p].family : p \in 1..BootPairs}

Init ==
    /\ now = 0
    /\ codes = [c \in Codes |-> IF c \in OnFile THEN "consumed" ELSE "unissued"]
    /\ users = [s \in Subs |->
                   IF \E c \in OnFile : CodeGrant[c].sub = s THEN "authorized" ELSE None]
    /\ accessTokens = [p \in Pairs |-> None]
    /\ refreshTokens = BootTokens
    /\ minted = BootPairs
    /\ requests = 0
    /\ clientLastUsed = BootLastUsed
    /\ lastClientTick = BootTick
    /\ job = [j \in Jobs |-> Idle]
    /\ writeQueue = <<>>
    /\ writing = None
    /\ revoked = [c \in Codes |-> "no"]
    /\ known = {k \in Clients : BootLastUsed[k] > 0}
    /\ usedSince = [k \in Clients |->
                       {i \in Clients : BootLastUsed[i] > BootLastUsed[k]}]

-----------------------------------------------------------------------------
(***************************************************************************)
(* The write queue of fileStore.ts.  Each job waits for one mutation at a  *)
(* time, so the queue is a sequence of jobs.                               *)
(***************************************************************************)

\* Handler j reaches `await mutateDurable(...)`: job record rec is queued.
Enqueue(j, rec) ==
    /\ job' = [job EXCEPT ![j] = rec]
    /\ writeQueue' = Append(writeQueue, j)

\* The head of the queue is job j and its mutation is op: it is applied now.
Dequeue(j, op) ==
    /\ writing = None
    /\ writeQueue # <<>>
    /\ j = Head(writeQueue)
    /\ job[j].op = op
    /\ writeQueue' = Tail(writeQueue)
    /\ writing' = j

\* A new request takes the idle slot j.
Begin(j) ==
    /\ job[j] = Idle
    /\ requests < MaxRequests
    /\ requests' = requests + 1

Registered(k) == clientLastUsed[k] > 0

-----------------------------------------------------------------------------
(***************************************************************************)
(* Requests: what a handler does up to its first mutation.  A request that *)
(* is rejected without changing the store is not a step.                   *)
(***************************************************************************)

\* registerClient: the SDK has generated a fresh client_id.
RegisterClient(j, k) ==
    /\ Begin(j)
    /\ k \notin known
    /\ \A i \in Jobs : ~(job[i].op = "saveClient" /\ job[i].client = k)
    /\ Enqueue(j, [Idle EXCEPT !.op = "saveClient", !.client = k])
    /\ UNCHANGED <<now, codes, users, store, minted, writing, history>>

\* The Google callback of an allowed member: upsertUser, then the code.  The
\* client registered before it called /authorize; it may be evicted by now.
SignIn(j, c) ==
    /\ Begin(j)
    /\ codes[c] = "unissued"
    /\ \A i \in Jobs : ~(job[i].op = "upsertUser" /\ job[i].code = c)
    /\ CodeGrant[c].client \in known
    /\ Enqueue(j, [Idle EXCEPT !.op = "upsertUser", !.code = c,
                               !.sub = CodeGrant[c].sub])
    /\ UNCHANGED <<now, codes, users, store, minted, writing, history>>

\* The job of mintTokenPair: pair minted + 1 of the given family, for a grant
\* or for the record old of pair parent, which the new pair may supersede.
MintTokenPair(grant, family, accessScopes, parent, old) ==
    [op |-> "saveAccessToken", client |-> grant.client, sub |-> grant.sub,
     code |-> family, scopes |-> grant.scopes, accessScopes |-> accessScopes,
     pair |-> minted + 1, parent |-> parent, old |-> old, at |-> now]

\* consumeAuthorizationCode takes the code whoever asks for it; a request by
\* another client, or with another redirect_uri or resource, burns it.
ExchangeAuthorizationCode(j, c, k, matches) ==
    /\ Begin(j)
    /\ Registered(k)
    /\ codes[c] = "live"
    /\ codes' = [codes EXCEPT ![c] = "consumed"]
    /\ \/ /\ k = CodeGrant[c].client /\ matches
          /\ minted < MaxPairs
          /\ minted' = minted + 1
          /\ Enqueue(j, MintTokenPair(CodeGrant[c], c, CodeGrant[c].scopes, 0, None))
       \/ /\ ~(k = CodeGrant[c].client /\ matches)
          /\ UNCHANGED <<minted, job, writeQueue>>
    /\ UNCHANGED <<now, users, store, writing, history>>

Superseded(r) == r.supersededBy # 0

InGrace(r) == now <= r.graceUntil

\* Refresh token p as client k presents it: known, its own, unexpired.
Presented(p, k) ==
    /\ Registered(k)
    /\ refreshTokens[p] # None
    /\ refreshTokens[p].client = k
    /\ refreshTokens[p].expiresAt > now

\* A live token, or a superseded one within its grace, starts a new pair.
\* wanted = {} is a request for no scopes in particular.
ExchangeRefreshToken(j, p, k, wanted) ==
    /\ Begin(j)
    /\ Presented(p, k)
    /\ Superseded(refreshTokens[p]) => InGrace(refreshTokens[p])
    /\ wanted \subseteq refreshTokens[p].scopes
    /\ minted < MaxPairs
    /\ minted' = minted + 1
    /\ LET r == refreshTokens[p] IN
           Enqueue(j, MintTokenPair(r, r.family, IF wanted = {} THEN r.scopes ELSE wanted,
                                    p, r))
    /\ UNCHANGED <<now, codes, users, store, writing, history>>

\* Reuse past the grace window is a theft signal: the family is revoked.
ReuseRefreshToken(j, p, k) ==
    /\ Begin(j)
    /\ Presented(p, k)
    /\ Superseded(refreshTokens[p])
    /\ ~InGrace(refreshTokens[p])
    /\ Enqueue(j, [Idle EXCEPT !.op = "revokeTokenFamily",
                               !.code = refreshTokens[p].family])
    /\ UNCHANGED <<now, codes, users, store, minted, writing, history>>

\* verifyAccessToken deletes the token it finds expired.
VerifyExpired(j, p) ==
    /\ Begin(j)
    /\ accessTokens[p] # None
    /\ accessTokens[p].expiresAt <= now
    /\ Enqueue(j, [Idle EXCEPT !.op = "deleteAccessToken", !.pair = p])
    /\ UNCHANGED <<now, codes, users, store, minted, writing, history>>

\* /revoke with an access token drops it; with a refresh token, its family.
RevokeToken(j, p, k) ==
    /\ Begin(j)
    /\ Registered(k)
    /\ \/ /\ accessTokens[p] # None
          /\ accessTokens[p].client = k
          /\ Enqueue(j, [Idle EXCEPT !.op = "deleteAccessToken", !.pair = p])
       \/ /\ refreshTokens[p] # None
          /\ refreshTokens[p].client = k
          /\ Enqueue(j, [Idle EXCEPT !.op = "revokeTokenFamily",
                                     !.code = refreshTokens[p].family])
    /\ UNCHANGED <<now, codes, users, store, minted, writing, history>>

\* A tool call of member s learns from Google that the grant is dead; the
\* record may have been flagged by another call since this one read it.
HandleRevokedGrant(j, s) ==
    /\ Begin(j)
    /\ users[s] # None
    /\ Enqueue(j, [Idle EXCEPT !.op = "updateUser", !.sub = s])
    /\ UNCHANGED <<now, codes, users, store, minted, writing, history>>

\* The interval timer calls sweepExpired with the clock of the call; a sweep
\* that would find nothing expired changes nothing and is left out.
SweepTimer ==
    /\ job[Sweeper] = Idle
    /\ \E p \in Pairs : \/ accessTokens[p] # None /\ accessTokens[p].expiresAt <= now
                        \/ refreshTokens[p] # None /\ refreshTokens[p].expiresAt <= now
    /\ Enqueue(Sweeper, [Idle EXCEPT !.op = "sweepExpired", !.at = now])
    /\ UNCHANGED <<now, codes, users, store, minted, requests, writing, history>>

Tick ==
    /\ now < MaxTime
    /\ now' = now + 1
    /\ UNCHANGED <<codes, users, store, minted, requests, job, queueVars, history>>

-----------------------------------------------------------------------------
(***************************************************************************)
(* Mutations: the store methods, applied one at a time.                    *)
(***************************************************************************)

\* Mutant: off by one.
BeyondCap(S, cap) == Cardinality(S) > cap

AtCap(S, cap) == Cardinality(S) >= cap

Oldest(S) == CHOOSE p \in S : \A q \in S : p <= q

\* evictOldestIfAtCap over the tokens S of one member.
EvictOldestIfAtCap(tokens, S, cap) ==
    IF AtCap(S, cap) THEN [tokens EXCEPT ![Oldest(S)] = None] ELSE tokens

SubOf(tokens, s) == {p \in Pairs : tokens[p] # None /\ tokens[p].sub = s}

Active(s) == {p \in SubOf(refreshTokens, s) : ~Superseded(refreshTokens[p])}

Tombstones(s) == {p \in SubOf(refreshTokens, s) : Superseded(refreshTokens[p])}

UsedNow(k) == usedSince' = [i \in Clients |-> IF i = k THEN {} ELSE usedSince[i] \cup {k}]

EvictTombstones(tokens, s) ==
    EvictOldestIfAtCap(tokens, Tombstones(s), MaxTombstonesPerSub)

\* touchClient; the tick is the code's strictly increasing clock.
TouchClient(k) ==
    IF Registered(k)
    THEN /\ clientLastUsed' = [clientLastUsed EXCEPT ![k] = lastClientTick + 1]
         /\ lastClientTick' = lastClientTick + 1
         /\ UsedNow(k)
    ELSE UNCHANGED <<clientLastUsed, lastClientTick, usedSince>>

\* Mutant: the newest registration is the victim.
MostRecentlyUsed ==
    CHOOSE k \in Clients :
        /\ Registered(k)
        /\ \A i \in Clients : Registered(i) => clientLastUsed[k] >= clientLastUsed[i]

LeastRecentlyUsed ==
    CHOOSE k \in Clients :
        /\ Registered(k)
        /\ \A i \in Clients : Registered(i) => clientLastUsed[k] <= clientLastUsed[i]

SaveClient(j) ==
    /\ Dequeue(j, "saveClient")
    /\ LET k == job[j].client
           full == AtCap({i \in Clients : Registered(i)}, MaxClients)
       IN  /\ clientLastUsed' =
                  [i \in Clients |-> CASE i = k -> lastClientTick + 1
                                       [] i # k /\ full /\ i = LeastRecentlyUsed -> 0
                                       [] OTHER -> clientLastUsed[i]]
           /\ known' = known \cup {k}
           /\ UsedNow(k)
    /\ lastClientTick' = lastClientTick + 1
    /\ UNCHANGED <<now, codes, users, accessTokens, refreshTokens, minted, requests, job,
                   revoked>>

UpsertUser(j) ==
    /\ Dequeue(j, "upsertUser")
    /\ users' = [users EXCEPT ![job[j].sub] = "authorized"]
    /\ UNCHANGED <<now, codes, store, minted, requests, job, history>>

SaveAccessToken(j) ==
    /\ Dequeue(j, "saveAccessToken")
    /\ accessTokens' =
           [EvictOldestIfAtCap(accessTokens, SubOf(accessTokens, job[j].sub), MaxTokensPerSub)
               EXCEPT ![job[j].pair] =
                   [client |-> job[j].client, sub |-> job[j].sub,
                    scopes |-> job[j].accessScopes, family |-> job[j].code,
                    expiresAt |-> job[j].at + TokenTtl]]
    /\ TouchClient(job[j].client)
    /\ UNCHANGED <<now, codes, users, refreshTokens, minted, requests, job, revoked, known>>

\* Mutant: a one-time narrowing of the scopes sticks to the grant.
NarrowedScopes(rec) == rec.accessScopes

\* The refresh token keeps the full grant.
RefreshScopes(rec) == rec.scopes

SaveRefreshToken(j) ==
    /\ Dequeue(j, "saveRefreshToken")
    /\ LET s == job[j].sub
           activeKept == EvictOldestIfAtCap(refreshTokens, Active(s), MaxTokensPerSub)
           kept == EvictTombstones(activeKept, s)
       IN  refreshTokens' =
               [kept EXCEPT ![job[j].pair] =
                   [client |-> job[j].client, sub |-> s,
                    scopes |-> RefreshScopes(job[j]), family |-> job[j].code,
                    expiresAt |-> job[j].at + RefreshTtl,
                    supersededBy |-> 0, graceUntil |-> 0]]
    /\ TouchClient(job[j].client)
    /\ UNCHANGED <<now, codes, users, accessTokens, minted, requests, job, revoked, known>>

Earlier(a, b) == IF a <= b THEN a ELSE b

\* Mutant: the lifetime is bounded and the supersession forgotten.
StillActive(rec) ==
    [rec.old EXCEPT !.expiresAt = Earlier(rec.old.expiresAt, rec.at + TombstoneTtl)]

\* The tombstone is built from the record the handler READ, and is set
\* whether or not the store still holds that token.
Tombstone(rec) ==
    [client |-> rec.old.client, sub |-> rec.old.sub, scopes |-> rec.old.scopes,
     family |-> rec.old.family,
     expiresAt |-> Earlier(rec.old.expiresAt, rec.at + TombstoneTtl),
     supersededBy |-> rec.pair, graceUntil |-> rec.at + RefreshGrace]

UpdateRefreshToken(j) ==
    /\ Dequeue(j, "updateRefreshToken")
    /\ refreshTokens' = [refreshTokens EXCEPT ![job[j].parent] = Tombstone(job[j])]
    /\ UNCHANGED <<now, codes, users, accessTokens, clientLastUsed, lastClientTick,
                   minted, requests, job, history>>

DeleteAccessToken(j) ==
    /\ Dequeue(j, "deleteAccessToken")
    /\ accessTokens' = [accessTokens EXCEPT ![job[j].pair] = None]
    /\ UNCHANGED <<now, codes, users, refreshTokens, clientLastUsed, lastClientTick,
                   minted, requests, job, history>>

\* Mutant: the loop stops at the first match.
WithoutFirst(tokens, S) ==
    [p \in Pairs |-> IF S # {} /\ p = Oldest(S) THEN None ELSE tokens[p]]

Without(tokens, S) == [p \in Pairs |-> IF p \in S THEN None ELSE tokens[p]]

\* The tokens of family c; those expired at time t.
FamilyOf(tokens, c) == {p \in Pairs : tokens[p] # None /\ tokens[p].family = c}

\* Mutant: strict comparison.
ExpiredBefore(tokens, t) == {p \in Pairs : tokens[p] # None /\ tokens[p].expiresAt < t}

ExpiredBy(tokens, t) == {p \in Pairs : tokens[p] # None /\ tokens[p].expiresAt <= t}

\* How a revocation that is applied now finds family c.
Revocation(c) ==
    IF \E i \in Jobs : Minting(i, c) THEN "racing" ELSE "clean"

RevokeTokenFamily(j) ==
    /\ Dequeue(j, "revokeTokenFamily")
    /\ accessTokens' = Without(accessTokens, FamilyOf(accessTokens, job[j].code))
    /\ refreshTokens' = Without(refreshTokens, FamilyOf(refreshTokens, job[j].code))
    /\ revoked' = [revoked EXCEPT ![job[j].code] = Revocation(job[j].code)]
    /\ UNCHANGED <<now, codes, users, clientLastUsed, lastClientTick, minted, requests, job,
                   known, usedSince>>

\* handleRevokedGrant's updateUser: flag the record for re-authorization.
UpdateUser(j) ==
    /\ Dequeue(j, "updateUser")
    /\ users' = [users EXCEPT ![job[j].sub] = "needsReauth"]
    /\ UNCHANGED <<now, codes, store, minted, requests, job, history>>

RevokeTokensForSub(j) ==
    /\ Dequeue(j, "revokeTokensForSub")
    /\ accessTokens' = Without(accessTokens, SubOf(accessTokens, job[j].sub))
    /\ refreshTokens' = Without(refreshTokens, SubOf(refreshTokens, job[j].sub))
    /\ revoked' = [c \in Codes |->
                      IF codes[c] = "consumed" /\ CodeGrant[c].sub = job[j].sub
                      THEN Revocation(c) ELSE revoked[c]]
    /\ UNCHANGED <<now, codes, users, clientLastUsed, lastClientTick, minted, requests, job,
                   known, usedSince>>

SweepExpired(j) ==
    /\ Dequeue(j, "sweepExpired")
    /\ accessTokens' = Without(accessTokens, ExpiredBy(accessTokens, job[j].at))
    /\ refreshTokens' = Without(refreshTokens, ExpiredBy(refreshTokens, job[j].at))
    /\ UNCHANGED <<now, codes, users, clientLastUsed, lastClientTick, minted, requests, job,
                   history>>

-----------------------------------------------------------------------------
(***************************************************************************)
(* The write is on disk: the handler behind it continues.                  *)
(***************************************************************************)

WriteDone(j) == writing = j /\ writing' = None

\* exchangeRefreshToken rotates only a token it READ as not superseded.
Rotates(rec) == rec.parent # 0 /\ ~Superseded(rec.old)

\* Mutant: the old token is superseded before its successor is stored.
NextOpSupersedeFirst(rec) ==
    CASE rec.op = "saveAccessToken" /\ Rotates(rec) -> "updateRefreshToken"
      [] rec.op = "saveAccessToken" /\ ~Rotates(rec) -> "saveRefreshToken"
      [] rec.op = "updateRefreshToken" -> "saveRefreshToken"
      [] rec.op = "updateUser" -> "revokeTokensForSub"
      [] OTHER -> "idle"

\* The mutation a handler awaits next: the refresh token after the access
\* token, then the tombstone; the member's tokens after the member's flag.
NextOp(rec) ==
    CASE rec.op = "saveAccessToken" -> "saveRefreshToken"
      [] rec.op = "saveRefreshToken" /\ Rotates(rec) -> "updateRefreshToken"
      [] rec.op = "updateUser" -> "revokeTokensForSub"
      [] OTHER -> "idle"

ThenMutateAgain(j) ==
    /\ WriteDone(j)
    /\ NextOp(job[j]) # "idle"
    /\ Enqueue(j, [job[j] EXCEPT !.op = NextOp(job[j])])
    /\ UNCHANGED <<now, codes, users, store, minted, requests, history>>

\* The callback stores the authorization code, in memory, and redirects.
ThenIssueCode(j) ==
    /\ WriteDone(j)
    /\ job[j].op = "upsertUser"
    /\ codes' = [codes EXCEPT ![job[j].code] = "live"]
    /\ job' = [job EXCEPT ![j] = Idle]
    /\ UNCHANGED <<now, users, store, minted, requests, writeQueue, history>>

ThenRespond(j) ==
    /\ WriteDone(j)
    /\ job[j].op # "upsertUser"
    /\ NextOp(job[j]) = "idle"
    /\ job' = [job EXCEPT ![j] = Idle]
    /\ UNCHANGED <<now, codes, users, store, minted, requests, writeQueue, history>>

-----------------------------------------------------------------------------
Request(j) ==
    \/ \E k \in Clients : RegisterClient(j, k)
    \/ \E c \in Codes : SignIn(j, c)
    \/ \E c \in Codes, k \in Clients, matches \in BOOLEAN :
           ExchangeAuthorizationCode(j, c, k, matches)
    \/ \E p \in Pairs, k \in Clients, wanted \in SUBSET Scopes :
           ExchangeRefreshToken(j, p, k, wanted)
    \/ \E p \in Pairs, k \in Clients : ReuseRefreshToken(j, p, k)
    \/ \E p \in Pairs : VerifyExpired(j, p)
    \/ \E p \in Pairs, k \in Clients : RevokeToken(j, p, k)
    \/ \E s \in Subs : HandleRevokedGrant(j, s)

Mutation(j) ==
    \/ SaveClient(j)
    \/ UpsertUser(j)
    \/ SaveAccessToken(j)
    \/ SaveRefreshToken(j)
    \/ UpdateRefreshToken(j)
    \/ DeleteAccessToken(j)
    \/ RevokeTokenFamily(j)
    \/ UpdateUser(j)
    \/ RevokeTokensForSub(j)
    \/ SweepExpired(j)

Continuation(j) ==
    \/ ThenMutateAgain(j)
    \/ ThenIssueCode(j)
    \/ ThenRespond(j)

Next ==
    \/ \E j \in Requests : Request(j)
    \/ \E j \in Jobs : Mutation(j) \/ Continuation(j)
    \/ SweepTimer
    \/ Tick

\* The disk answers every write, the event loop runs every continuation and
\* the interval timer keeps firing.  No request has to arrive and the clock
\* may stand still.
Fairness ==
    /\ WF_vars(\E j \in Jobs : Mutation(j) \/ Continuation(j))
    /\ WF_vars(SweepTimer)

Spec == Init /\ [][Next]_vars /\ Fairness
-----------------------------------------------------------------------------
(***************************************************************************)
(* Properties.                                                             *)
(***************************************************************************)

\* Every variable keeps its type; the queue holds exactly the waiting jobs.
TypeOK ==
    /\ now \in Times
    /\ codes \in [Codes -> {"unissued", "live", "consumed"}]
    /\ users \in [Subs -> {None, "authorized", "needsReauth"}]
    /\ accessTokens \in [Pairs -> AccessRecords \cup {None}]
    /\ refreshTokens \in [Pairs -> RefreshRecords \cup {None}]
    /\ minted \in 0..MaxPairs
    /\ requests \in 0..MaxRequests
    /\ clientLastUsed \in [Clients -> Nat]
    /\ lastClientTick \in Nat
    /\ job \in [Jobs -> JobRecords]
    /\ writeQueue \in Seq(Jobs)
    /\ writing \in Jobs \cup {None}
    /\ revoked \in [Codes -> {"no", "racing", "clean"}]
    /\ known \subseteq Clients
    /\ usedSince \in [Clients -> SUBSET Clients]

\* A token never speaks for another member or client than the sign-in its
\* family descends from, an access token never exceeds what was granted
\* there, and a refresh token keeps all of it however often a refresh
\* narrowed the access token (provider.ts exchangeRefreshToken).
TokensKeepTheirGrant ==
    \A p \in Pairs :
        /\ accessTokens[p] # None =>
               LET t == accessTokens[p]  g == CodeGrant[t.family]
               IN  t.client = g.client /\ t.sub = g.sub /\ t.scopes \subseteq g.scopes
        /\ refreshTokens[p] # None =>
               LET t == refreshTokens[p]  g == CodeGrant[t.family]
               IN  t.client = g.client /\ t.sub = g.sub /\ t.scopes = g.scopes

\* Rotations of member s that saved their new token and have not yet turned
\* the old one into a tombstone.
Superseding(s) ==
    {j \in Jobs : /\ job[j].sub = s
                  /\ \/ job[j].op = "updateRefreshToken" /\ writing # j
                     \/ job[j].op = "saveRefreshToken" /\ Rotates(job[j]) /\ writing = j}

\* A member never has more than MaxTokensPerSub access tokens, nor more active
\* refresh tokens, in any interleaving of sign-ins, rotations and tombstones
\* put back by a late updateRefreshToken.  The backstop on tombstones is
\* checked when a token is saved, one mutation before the tombstone is
\* written, so rotations that overlap can exceed it: by at most one less than
\* the requests in flight, and never by more.
TokensCapped ==
    \A s \in Subs :
        /\ Cardinality(SubOf(accessTokens, s)) <= MaxTokensPerSub
        /\ Cardinality(Active(s)) <= MaxTokensPerSub
        /\ Cardinality(Tombstones(s)) + Cardinality(Superseding(s))
              <= MaxTombstonesPerSub - 1 + Cardinality(Requests)

\* Once a family is revoked with no exchange of it in flight, by /revoke, by
\* the reuse of a rotated token or by a dead Google grant, nothing of it is
\* ever stored again: no queued mutation brings a token back and no request
\* can start a new one from what is left.
CleanRevocationIsFinal ==
    \A c \in Codes :
        revoked[c] = "clean" =>
            /\ FamilyOf(accessTokens, c) = {}
            /\ FamilyOf(refreshTokens, c) = {}
            /\ \A j \in Jobs : ~Minting(j, c)

\* A refresh token is superseded only after its successor was stored, so a
\* session always keeps a token it can come back with, wherever the server
\* stops between the two writes.
SuccessorStoredFirst ==
    \A p \in Pairs :
        refreshTokens[p] # None /\ Superseded(refreshTokens[p]) =>
            \A j \in Jobs :
                /\ job[j].pair = refreshTokens[p].supersededBy
                /\ job[j].op \in MintOps
                => \/ job[j].op = "updateRefreshToken"
                   \/ job[j].op = "saveRefreshToken" /\ writing = j

\* A client is evicted only when MaxClients others registered or were issued
\* a token since it last was: a flood of registrations nobody uses cannot
\* evict the connector in use (memoryStore.ts saveClient).
ActiveClientSurvives ==
    \A k \in known : Cardinality(usedSince[k]) < MaxClients => Registered(k)

\* Pair p has been saved, or dropped since.
Saved(p) ==
    /\ p <= minted
    /\ \A j \in Jobs :
           ~(job[j].pair = p /\ job[j].op \in {"saveAccessToken", "saveRefreshToken"})

ActiveToken(p) == refreshTokens[p] # None /\ ~Superseded(refreshTokens[p])

\* A refresh token that was superseded, evicted, revoked or swept never
\* becomes an active one again, whatever stale record a handler writes back.
NeverReactivated ==
    [][\A p \in Pairs : Saved(p) /\ ~ActiveToken(p) => ~ActiveToken(p)']_vars

ExpiredRefresh(p) == refreshTokens[p] # None /\ refreshTokens[p].expiresAt <= now

\* No expired refresh token or tombstone stays in the store: it is swept, or
\* a rotation in flight writes it back with a later expiry, swept in its turn.
ExpiredTokensSwept == \A p \in Pairs : ExpiredRefresh(p) ~> ~ExpiredRefresh(p)

\* What the theft response promises: once a family is revoked and no exchange
\* of it is in flight, no refresh token of it can be exchanged (types.ts "drop
\* all tokens in a rotation family", provider.ts "revoke the entire family and
\* force a full re-auth").
RevokedFamilyIsDead ==
    \A c \in Codes :
        revoked[c] # "no" /\ (\A j \in Jobs : ~Minting(j, c)) =>
            \A p \in FamilyOf(refreshTokens, c) : ~ActiveToken(p)

-----------------------------------------------------------------------------
(***************************************************************************)
(* The inductive invariant behind CleanRevocationIsFinal.                  *)
(***************************************************************************)

\* What a handler keeps across its awaits is one grant, and the record it
\* rotates is of the family it mints for.
KeepsGrant(rec) ==
    /\ rec.op \in MintOps =>
           /\ rec.code \in Codes
           /\ rec.client = CodeGrant[rec.code].client
           /\ rec.sub = CodeGrant[rec.code].sub
           /\ rec.scopes = CodeGrant[rec.code].scopes
           /\ rec.accessScopes \subseteq rec.scopes
           /\ rec.pair \in Pairs
           /\ rec.parent # 0 =>
                  /\ rec.parent \in Pairs
                  /\ rec.old \in RefreshRecords
                  /\ rec.old.family = rec.code
                  /\ rec.old.client = rec.client
                  /\ rec.old.sub = rec.sub
                  /\ rec.old.scopes = rec.scopes
    /\ rec.op = "updateRefreshToken" => rec.parent # 0
    /\ rec.op = "saveClient" => rec.client \in Clients

JobsKeepTheirGrant == \A j \in Jobs : KeepsGrant(job[j])

\* A mint or a revocation is of a family whose code is spent, a sign-in under
\* way has a code that is not issued yet.
FitsCodes(rec) ==
    /\ rec.op \in MintOps \cup {"revokeTokenFamily"} =>
           rec.code \in Codes /\ codes[rec.code] = "consumed"
    /\ rec.op = "upsertUser" =>
           rec.code \in Codes /\ codes[rec.code] = "unissued"

\* A code that named a family is spent, one about to be issued is not.
FamiliesAreConsumed ==
    /\ \A p \in Pairs :
           /\ accessTokens[p] # None => codes[accessTokens[p].family] = "consumed"
           /\ refreshTokens[p] # None => codes[refreshTokens[p].family] = "consumed"
    /\ \A j \in Jobs : FitsCodes(job[j])
    /\ \A i, j \in Jobs :
           job[i].op = "upsertUser" /\ job[j].op = "upsertUser" /\ i # j =>
               job[i].code # job[j].code
    /\ \A c \in Codes : revoked[c] = "clean" => codes[c] = "consumed"

IInv ==
    /\ TypeOK
    /\ TokensKeepTheirGrant
    /\ JobsKeepTheirGrant
    /\ FamiliesAreConsumed
    /\ CleanRevocationIsFinal

-----------------------------------------------------------------------------
(***************************************************************************)
(* The inductive invariants behind ActiveClientSurvives,                   *)
(* SuccessorStoredFirst and TokensCapped.                                  *)
(***************************************************************************)

\* Clients have a tick each, and who has a later one was active since.
TicksTellActivity ==
    /\ IsFiniteSet(known)
    /\ \A k \in Clients :
           /\ clientLastUsed[k] <= lastClientTick
           /\ Registered(k) => k \in known
           /\ usedSince[k] \subseteq known
    /\ \A i, k \in Clients : Registered(k) =>
           /\ clientLastUsed[i] = clientLastUsed[k] => i = k
           /\ clientLastUsed[i] > clientLastUsed[k] => i \in usedSince[k]

\* A client_id is registered once.
RegistersOnce ==
    \A j \in Jobs : job[j].op = "saveClient" =>
        /\ writing # j => job[j].client \notin known
        /\ \A i \in Jobs : job[i].op = "saveClient" /\ i # j => job[i].client # job[j].client

RegistryInv == IInv /\ TicksTellActivity /\ RegistersOnce /\ ActiveClientSurvives

\* Handlers mint different pairs.
MintsApart ==
    \A j \in Jobs : job[j].op \in MintOps =>
        /\ job[j].pair <= minted
        /\ \A i \in Jobs : job[i].op \in MintOps /\ i # j => job[i].pair # job[j].pair

\* The successor a tombstone names is past its two saves.
SuccessorIsSaved ==
    \A p \in Pairs : refreshTokens[p] # None /\ Superseded(refreshTokens[p]) =>
        /\ refreshTokens[p].supersededBy <= minted
        /\ \A j \in Jobs :
               job[j].op \in MintOps /\ job[j].pair = refreshTokens[p].supersededBy =>
                   job[j].op = "updateRefreshToken"

SuccessorInv == IInv /\ MintsApart /\ SuccessorIsSaved

CapsInv ==
    /\ IInv
    /\ job[Sweeper].op \in {"idle", "sweepExpired"}
    /\ TokensCapped
=============================================================================

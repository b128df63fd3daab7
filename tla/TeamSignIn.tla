----------------------------- MODULE TeamSignIn -----------------------------
(***************************************************************************)
(* Signing in to the team server, the two hops of OAuth:                   *)
(*   src/src/auth/team/provider.ts     authorize, the code's challenge     *)
(*                                     and exchange                        *)
(*   src/src/auth/team/callback.ts     the way back from Google            *)
(*   src/src/auth/team/memoryStore.ts  pending sign-ins, codes, members    *)
(*                                                                         *)
(* A flow is one call of /authorize and stands for the state sent to       *)
(* Google.  Several callbacks may come back with one state; callback c     *)
(* stands for the grant Google gives it (its refresh token) and for the    *)
(* authorization code it mints.  Pending sign-ins and codes live in memory *)
(* only; members go through the write queue.  Google revokes all grants of *)
(* a person at once (callback.ts:103), so a sign-in that is refused and    *)
(* given back can reach the grant of another one.                          *)
(***************************************************************************)
EXTENDS Integers, FiniteSets, Sequences

CONSTANTS
    Clients,            \* MCP clients
    People,             \* Google accounts
    Restricted,         \* whether allowedDomains is set
    None,
    PendingTtl, CodeTtl, MaxLookups, MaxPending, MaxUsers,
    MaxFlows, MaxCallbacks, MaxRequests,   \* bounds of the model: calls of
    MaxTime, MaxFaults                     \* each kind, clock, failed writes
                                           \* and restarts
Flows == 1..MaxFlows
Callbacks == 1..MaxCallbacks
Requests == 1..MaxRequests
Times == 0..MaxTime

ASSUME ConstantsAssumption ==
    /\ Restricted \in BOOLEAN
    /\ None \notin Clients \cup People \cup Callbacks \cup Flows
    /\ {PendingTtl, CodeTtl, MaxLookups, MaxPending, MaxUsers} \subseteq Nat \ {0}
    /\ {MaxFlows, MaxCallbacks, MaxRequests, MaxTime, MaxFaults} \subseteq Nat

VARIABLES
    now,
    flow,        \* flow -> "unused", "accepted" or "turnedAway"
    pending,     \* flow -> its pending authorization, None once consumed
    cb,          \* callback -> where its handler is and what it knows
    codes,       \* callback -> the authorization code it issued, or None
    users,       \* person -> the refresh token on record, None if no member
    file,        \* the same, as the file holds it
    writeQueue,  \* callbacks waiting in upsertUser
    writing,     \* callback whose upsert is being written
    live,        \* refresh tokens that Google honours
    req,         \* token request -> where it is
    faults

memory == <<pending, codes, users>>
queueVars == <<writeQueue, writing>>
vars == <<now, flow, memory, cb, file, queueVars, live, req, faults>>

PendingRecords == [client : Clients, expiresAt : Nat]

CodeRecords == [client : Clients, expiresAt : Nat, lookups : Nat]

\* code, refused and failed are the ends: a code was issued, the sign-in was
\* refused and its grant given back or not needed, or something went wrong.
Waiting == {"exchanging", "saving", "givingBack"}

NewCallback == [step |-> "new", flow |-> 0, client |-> None, person |-> None, token |-> None]

NewRequest == [step |-> "new", client |-> None, code |-> None]

Init ==
    /\ now = 0
    /\ flow = [f \in Flows |-> "unused"]
    /\ pending = [f \in Flows |-> None]
    /\ cb = [c \in Callbacks |-> NewCallback]
    /\ codes = [c \in Callbacks |-> None]
    /\ users = [m \in People |-> None]
    /\ file = users
    /\ writeQueue = <<>>
    /\ writing = None
    /\ live = {}
    /\ req = [t \in Requests |-> NewRequest]
    /\ faults = 0

\* Calls are numbered as they come.
NextNew(calls, i) == \A j \in DOMAIN calls : j < i => calls[j] # calls[i]

Fault == faults < MaxFaults /\ faults' = faults + 1

Members(records) == {m \in People : records[m] # None}

Tick ==
    /\ now < MaxTime
    /\ now' = now + 1
    /\ UNCHANGED <<flow, memory, cb, file, queueVars, live, req, faults>>

-----------------------------------------------------------------------------
(***************************************************************************)
(* The first hop: /authorize, and the sweep it shares with the timer.      *)
(***************************************************************************)

Unexpired(records) ==
    [i \in DOMAIN records |->
        IF records[i] # None /\ records[i].expiresAt <= now THEN None ELSE records[i]]

Held(records) == {i \in DOMAIN records : records[i] # None}

Full(records) == Cardinality(Held(records)) >= MaxPending

\* savePendingAuthorization: at the cap it sweeps, then it may refuse.
Authorize(f, k) ==
    /\ flow[f] = "unused" /\ NextNew(flow, f)
    /\ LET swept == IF Full(pending) THEN Unexpired(pending) ELSE pending IN
           IF Full(swept)
           THEN /\ flow' = [flow EXCEPT ![f] = "turnedAway"]
                /\ pending' = swept
           ELSE /\ flow' = [flow EXCEPT ![f] = "accepted"]
                /\ pending' = [swept EXCEPT ![f] =
                                  [client |-> k, expiresAt |-> now + PendingTtl]]
    /\ codes' = IF Full(pending) THEN Unexpired(codes) ELSE codes
    /\ UNCHANGED <<now, cb, users, file, queueVars, live, req, faults>>

\* The timer's sweep, as far as pending sign-ins and codes go.
Sweep ==
    /\ pending' = Unexpired(pending)
    /\ codes' = Unexpired(codes)
    /\ <<pending', codes'>> # <<pending, codes>>
    /\ UNCHANGED <<now, flow, cb, users, file, queueVars, live, req, faults>>

-----------------------------------------------------------------------------
(***************************************************************************)
(* The way back: GET /oauth/google/callback.                               *)
(***************************************************************************)

Proceed(c, step) == cb' = [cb EXCEPT ![c].step = step]

\* Mutant: the state can be used again.
ReadPending(f) == pending

ConsumePending(f) == [pending EXCEPT ![f] = None]

AskedBy(f) == pending[f].client

\* The browser is back with state f and a code, or with an error.  An unknown
\* or used state changes nothing; an expired one is consumed.
Callback(c, f, approved) ==
    /\ cb[c].step = "new" /\ NextNew(cb, c)
    /\ pending[f] # None
    /\ pending' = ConsumePending(f)
    /\ LET good == approved /\ pending[f].expiresAt > now IN
           cb' = [cb EXCEPT ![c].step = IF good THEN "exchanging" ELSE "refused",
                            ![c].flow = IF good THEN f ELSE 0,
                            ![c].client = IF good THEN AskedBy(f) ELSE None]
    /\ UNCHANGED <<now, flow, codes, users, file, queueVars, live, req, faults>>

\* exchangeCode throws, before or after Google has issued the grant.
ExchangeFails(c, m) ==
    /\ cb[c].step = "exchanging"
    /\ \/ /\ cb' = [cb EXCEPT ![c].step = "failed"]
          /\ UNCHANGED live
       \/ /\ cb' = [cb EXCEPT ![c].step = "failed", ![c].person = m]
          /\ live' = live \cup {c}
    /\ UNCHANGED <<now, flow, memory, file, queueVars, req, faults>>

\* Mutant: no refused sign-in gives its grant back.
GiveBackNever(m) == FALSE

GiveBack(m) == users[m] = None

\* Google names person m, whose hosted domain is allowed or not, and issues
\* access and usually a refresh token; the rest runs up to the next await.
ExchangeCode(c, m, allowed, offline) ==
    /\ cb[c].step = "exchanging"
    /\ Restricted \/ allowed
    /\ live' = live \cup {c}
    /\ LET token == IF offline THEN c ELSE users[m]
           step == CASE ~allowed -> IF GiveBack(m) THEN "givingBack" ELSE "refused"
                     [] allowed /\ token = None -> "failed"
                     [] OTHER -> "saving"
       IN  /\ cb' = [cb EXCEPT ![c].step = step, ![c].person = m,
                               ![c].token = IF step = "saving" THEN token ELSE None]
           /\ writeQueue' = IF step = "saving" THEN Append(writeQueue, c) ELSE writeQueue
    /\ UNCHANGED <<now, flow, memory, file, writing, req, faults>>

GrantsOf(m) == {c \in Callbacks : cb[c].person = m}

\* revokeGrant: Google drops every grant of the person, or is not reached.
RevokeGrant(c) ==
    /\ cb[c].step = "givingBack"
    /\ \/ /\ live' = live \ GrantsOf(cb[c].person)
          /\ Proceed(c, "refused")
       \/ /\ Proceed(c, "failed")
          /\ UNCHANGED live
    /\ UNCHANGED <<now, flow, memory, file, queueVars, req, faults>>

-----------------------------------------------------------------------------
(***************************************************************************)
(* upsertUser behind the write queue.                                      *)
(***************************************************************************)

\* Mutant: off by one.
HasRoomAtCap(records, m) == records[m] # None \/ Cardinality(Members(records)) <= MaxUsers

\* Mutant: a member who signs in again counts once more.
HasRoomOnce(records, m) == Cardinality(Members(records)) < MaxUsers

HasRoom(records, m) == records[m] # None \/ Cardinality(Members(records)) < MaxUsers

\* Mutant: the capacity error is swallowed.
Ignore(c) == cb' = cb

Refuse(c) == Proceed(c, "givingBack")

\* The mutation runs on what it re-reads from the file: the member is stored,
\* or refused for good at the cap, and then the grant is given back.
UpsertUser(c) ==
    /\ writing = None /\ writeQueue # <<>> /\ c = Head(writeQueue)
    /\ writeQueue' = Tail(writeQueue)
    /\ IF HasRoom(file, cb[c].person)
       THEN /\ users' = [file EXCEPT ![cb[c].person] = cb[c].token]
            /\ writing' = c
            /\ UNCHANGED cb
       ELSE /\ users' = file
            /\ Refuse(c)
            /\ UNCHANGED writing
    /\ UNCHANGED <<now, flow, pending, codes, file, live, req, faults>>

\* The member is on file: the code is issued and the browser sent back.
IssueCode(c) ==
    /\ writing = c
    /\ writing' = None
    /\ file' = users
    /\ codes' = [codes EXCEPT ![c] = [client |-> cb[c].client,
                                      expiresAt |-> now + CodeTtl, lookups |-> 0]]
    /\ Proceed(c, "code")
    /\ UNCHANGED <<now, flow, pending, users, writeQueue, live, req, faults>>

\* The write fails: the handler throws, and the maps keep the member until
\* the next mutation re-reads the file.
WriteFails(c) ==
    /\ Fault
    /\ writing = c
    /\ writing' = None
    /\ Proceed(c, "failed")
    /\ UNCHANGED <<now, flow, memory, file, writeQueue, live, req>>

\* A mutation of the token endpoint re-reads the file.
Reread ==
    /\ writing = None /\ writeQueue = <<>>
    /\ users # file
    /\ users' = file
    /\ UNCHANGED <<now, flow, pending, codes, cb, file, queueVars, live, req, faults>>

\* The process ends and starts again: what is only in memory is gone, and a
\* write under way is on file or not.
Restart ==
    /\ Fault
    /\ file' \in IF writing = None THEN {file} ELSE {file, users}
    /\ users' = file'
    /\ pending' = [f \in Flows |-> None]
    /\ codes' = [c \in Callbacks |-> None]
    /\ cb' = [c \in Callbacks |->
                 IF cb[c].step \in Waiting THEN [cb[c] EXCEPT !.step = "failed"] ELSE cb[c]]
    /\ req' = [t \in Requests |->
                 IF req[t].step = "verified" THEN [req[t] EXCEPT !.step = "over"] ELSE req[t]]
    /\ writeQueue' = <<>>
    /\ writing' = None
    /\ UNCHANGED <<now, flow, live>>

-----------------------------------------------------------------------------
(***************************************************************************)
(* The code at /token: looked up for its PKCE challenge, then consumed.    *)
(***************************************************************************)

\* Mutant: off by one.
BurntLate(lookups) == lookups > MaxLookups + 1

Burnt(lookups) == lookups > MaxLookups

\* challengeForAuthorizationCode: every lookup counts, whoever asks; the
\* SDK then checks the verifier against the challenge.
LookUpCode(t, c, k, verifies) ==
    /\ req[t].step = "new" /\ NextNew(req, t)
    /\ codes[c] # None
    /\ LET code == [codes[c] EXCEPT !.lookups = @ + 1]
           found == code.expiresAt > now /\ ~Burnt(code.lookups)
       IN  /\ codes' = [codes EXCEPT ![c] = IF found THEN code ELSE None]
           /\ req' = [req EXCEPT ![t] =
                [step |-> IF found /\ k = code.client /\ verifies THEN "verified" ELSE "over",
                 client |-> k, code |-> IF found THEN c ELSE None]]
    /\ UNCHANGED <<now, flow, pending, users, cb, file, queueVars, live, faults>>

\* Mutant: the code stays until it expires.
KeepCode(c) == codes

ConsumeCode(c) == [codes EXCEPT ![c] = None]

\* exchangeAuthorizationCode: consumed first, then checked.
ExchangeCodeForTokens(t, matches) ==
    /\ req[t].step = "verified"
    /\ LET c == req[t].code
           granted == /\ codes[c] # None /\ codes[c].expiresAt > now
                      /\ codes[c].client = req[t].client /\ matches
       IN  /\ codes' = ConsumeCode(c)
           /\ req' = [req EXCEPT ![t].step = IF granted THEN "granted" ELSE "over"]
    /\ UNCHANGED <<now, flow, pending, users, cb, file, queueVars, live, faults>>

-----------------------------------------------------------------------------
\* A handler that waits goes on: Google answers, the queue runs.
Answer(c) ==
    \/ \E m \in People : ExchangeFails(c, m)
    \/ \E m \in People, allowed, offline \in BOOLEAN : ExchangeCode(c, m, allowed, offline)
    \/ RevokeGrant(c)
    \/ UpsertUser(c)
    \/ IssueCode(c)

Next ==
    \/ Tick \/ Sweep \/ Reread \/ Restart
    \/ \E f \in Flows, k \in Clients : Authorize(f, k)
    \/ \E c \in Callbacks, f \in Flows, approved \in BOOLEAN : Callback(c, f, approved)
    \/ \E c \in Callbacks : Answer(c) \/ WriteFails(c)
    \/ \E t \in Requests, c \in Callbacks, k \in Clients, verifies \in BOOLEAN :
           LookUpCode(t, c, k, verifies)
    \/ \E t \in Requests, matches \in BOOLEAN : ExchangeCodeForTokens(t, matches)

\* Google and the disk answer, and the event loop runs what they answer to.
Fairness == \A c \in Callbacks : WF_vars(Answer(c))

Spec == Init /\ [][Next]_vars /\ Fairness

-----------------------------------------------------------------------------
TypeOK ==
    /\ now \in Times
    /\ flow \in [Flows -> {"unused", "accepted", "turnedAway"}]
    /\ pending \in [Flows -> PendingRecords \cup {None}]
    /\ cb \in [Callbacks -> [step : Waiting \cup {"new", "code", "refused", "failed"},
                             flow : Flows \cup {0}, client : Clients \cup {None},
                             person : People \cup {None}, token : Callbacks \cup {None}]]
    /\ codes \in [Callbacks -> CodeRecords \cup {None}]
    /\ {users, file} \subseteq [People -> Callbacks \cup {None}]
    /\ writeQueue \in Seq(Callbacks)
    /\ writing \in Callbacks \cup {None}
    /\ live \subseteq Callbacks
    /\ req \in [Requests -> [step : {"new", "verified", "granted", "over"},
                             client : Clients \cup {None}, code : Callbacks \cup {None}]]
    /\ faults \in 0..MaxFaults

\* Sign-ins that were under way together never make more members than the
\* cap allows, in memory or on file.
MembersCapped == Cardinality(Members(users)) <= MaxUsers /\ Cardinality(Members(file)) <= MaxUsers

\* A code is never answered for more often than the limit on PKCE guesses,
\* and never before its member is on file.
CodesAreGuarded ==
    \A c \in Callbacks :
        /\ Cardinality({t \in Requests : req[t].code = c}) <= MaxLookups
        /\ codes[c] # None => file[cb[c].person] # None

\* A refused sign-in leaves no grant at Google: a live one belongs to a member,
\* to a sign-in under way, or to somebody for whom a sign-in went wrong.
NoGrantLeftBehind ==
    \A c \in live :
        LET m == cb[c].person IN
            \/ file[m] # None
            \/ \E d \in GrantsOf(m) : cb[d].step \in Waiting \cup {"failed"}

\* What else holds in every reachable state, and carries those three: the
\* members, the callbacks and the codes, each with what depends on it.

\* Only a failed write, or one under way, puts a member in memory who is not
\* on file.
MembersFollowFile ==
    /\ Members(file) \subseteq Members(users)
    /\ IsFiniteSet(Members(users))
    /\ \A m \in Members(users) \ Members(file) :
          \E d \in GrantsOf(m) : cb[d].step \in {"saving", "failed"}

\* The queue and the write hold different sign-ins, all of them to be saved.
QueueSaves ==
    /\ \A i \in DOMAIN writeQueue : writeQueue[i] # writing /\ cb[writeQueue[i]].step = "saving"
    /\ \A i, j \in DOMAIN writeQueue : writeQueue[i] = writeQueue[j] => i = j
    /\ writing # None => cb[writing].step = "saving" /\ users[cb[writing].person] # None

\* A callback knows its person once Google has named one.
PersonKnown(c) ==
    /\ cb[c].step \in {"new", "exchanging"} => cb[c].person = None
    /\ cb[c].step \in {"saving", "givingBack", "code"} \/ c \in live => cb[c].person # None
    /\ cb[c].step = "saving" => cb[c].token # None

\* It alone came back with its flow's state, which cannot be used again.
FlowKnown(c) ==
    /\ cb[c].step \in {"new", "refused"} \/ cb[c].flow # 0
    /\ cb[c].step = "new" => cb[c].flow = 0
    /\ cb[c].flow # 0 =>
          /\ cb[c].client # None
          /\ pending[cb[c].flow] = None /\ flow[cb[c].flow] # "unused"
          /\ \A d \in Callbacks : cb[d].flow = cb[c].flow => d = c

Uses(c) == {t \in Requests : req[t].code = c}

\* A code is for the client of its callback, counts its uses, and is gone once
\* tokens were granted for it.
CodeKnows(c) ==
    /\ codes[c] # None =>
          /\ cb[c].step = "code" /\ codes[c].client = cb[c].client
          /\ codes[c].lookups = Cardinality(Uses(c))
          /\ \A t \in Uses(c) : req[t].step # "granted"
          /\ file[cb[c].person] # None
    /\ Cardinality(Uses(c)) <= MaxLookups
    /\ \A t \in Uses(c) :
          /\ cb[c].step = "code"
          /\ req[t].step \in {"verified", "granted"} => req[t].client = cb[c].client
    /\ \A t, u \in Uses(c) : req[t].step = "granted" /\ req[u].step = "granted" => t = u

RequestKnows(t) ==
    /\ req[t].step = "new" => req[t].code = None
    /\ req[t].step \in {"verified", "granted"} => req[t].code # None

IInv ==
    /\ TypeOK /\ MembersCapped /\ NoGrantLeftBehind
    /\ MembersFollowFile /\ QueueSaves
    /\ \A f \in Flows : flow[f] = "unused" => pending[f] = None
    /\ \A c \in Callbacks : PersonKnown(c) /\ FlowKnown(c) /\ CodeKnows(c)
    /\ \A t \in Requests : RequestKnows(t)

\* A grant on record is its member's own, and so is one about to be stored.
OwnTokens ==
    /\ \A m \in People, c \in Callbacks : c \in {file[m], users[m]} => cb[c].person = m
    /\ \A c \in Callbacks : cb[c].step = "saving" => cb[cb[c].token].person = cb[c].person

\* The member's grant is honoured, in the file, in memory and in what waits to
\* be stored, and none of the member's sign-ins is being given back.
Stands(m) ==
    /\ {file[m], users[m]} \subseteq live
    /\ \A c \in GrantsOf(m) :
          /\ cb[c].step # "givingBack"
          /\ cb[c].step = "saving" => cb[c].token \in live

\* Once a member's grant stands, no sign-in takes it away for good or for a
\* moment: whichever is refused later, by domain or at the cap, overlaps the
\* next one or fails, and whoever else's grants are given back, the grant on
\* file stays one that Google honours.  (A refusal that was already giving
\* back when the member was stored does take the stored grant: callback.ts:109
\* read the record before, and Stands leaves exactly that out.)
RefusalSparesMembers == \A m \in People : [](Stands(m) => [](file[m] \in live))

\* Every sign-in that comes back from Google is answered.
EverySignInAnswered == \A c \in Callbacks : cb[c].step \in Waiting ~> cb[c].step \notin Waiting

\* A flow is wherever its state, its callback, its code or its token is.
Carriers(f) == {c \in Callbacks : cb[c].flow = f}

Stage(f) ==
    CASE flow[f] = "unused" -> "unused"
      [] pending[f] # None -> "asked"
      [] \E c \in Carriers(f) : cb[c].step \in Waiting -> "back"
      [] \E c \in Carriers(f) : codes[c] # None -> "code"
      [] \E t \in Requests : req[t].step = "granted" /\ req[t].code \in Carriers(f) -> "granted"
      [] OTHER -> "over"

Asker(f) ==
    CASE Stage(f) = "asked" -> pending[f].client
      [] Stage(f) = "back" -> LET c == CHOOSE c \in Carriers(f) : cb[c].step \in Waiting IN cb[c].client
      [] Stage(f) = "code" -> LET c == CHOOSE c \in Carriers(f) : codes[c] # None IN codes[c].client
      [] Stage(f) = "granted" ->
             LET t == CHOOSE t \in Requests : req[t].step = "granted" /\ req[t].code \in Carriers(f)
             IN  req[t].client
      [] OTHER -> None

Abstract == INSTANCE SignInFlow WITH
    stage <- [f \in Flows |-> Stage(f)],
    asker <- [f \in Flows |-> Asker(f)]

\* Whatever is replayed, repeated or overlaps, a flow is used once, by one
\* callback and one exchange of one code, for the client that asked.
ImplementsSignInFlow == Abstract!Spec
=============================================================================

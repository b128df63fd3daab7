-------------------------- MODULE TeamSignInProofs --------------------------
(***************************************************************************)
(* Proofs about TeamSignIn, for any clients and people, any lifetimes and  *)
(* limits and any number of calls that satisfy ConstantsAssumption.        *)
(***************************************************************************)
EXTENDS TeamSignIn, FiniteSetTheorems, TLAPS

Steps == Waiting \cup {"new", "code", "refused", "failed"}

CallbackRecords ==
    [step : Steps, flow : Flows \cup {0}, client : Clients \cup {None},
     person : People \cup {None}, token : Callbacks \cup {None}]

RequestRecords ==
    [step : {"new", "verified", "granted", "over"},
     client : Clients \cup {None}, code : Callbacks \cup {None}]

Records == [People -> Callbacks \cup {None}]

\* TypeOK, with names for the sets of records.
Types ==
    /\ now \in Times
    /\ flow \in [Flows -> {"unused", "accepted", "turnedAway"}]
    /\ pending \in [Flows -> PendingRecords \cup {None}]
    /\ cb \in [Callbacks -> CallbackRecords]
    /\ codes \in [Callbacks -> CodeRecords \cup {None}]
    /\ users \in Records /\ file \in Records
    /\ writeQueue \in Seq(Callbacks)
    /\ writing \in Callbacks \cup {None}
    /\ live \subseteq Callbacks
    /\ req \in [Requests -> RequestRecords]
    /\ faults \in 0..MaxFaults

LEMMA Typed == TypeOK <=> Types
BY DEF TypeOK, Types, CallbackRecords, RequestRecords, Records, Steps

LEMMA TypedNext == TypeOK' <=> Types'
BY Typed, PTL

\* The bounds are numbers; None is none of the calls.
LEMMA Constants ==
    /\ PendingTtl \in Nat \ {0} /\ CodeTtl \in Nat \ {0} /\ MaxLookups \in Nat \ {0}
    /\ MaxPending \in Nat \ {0} /\ MaxUsers \in Nat \ {0}
    /\ MaxFlows \in Nat /\ MaxCallbacks \in Nat /\ MaxRequests \in Nat
    /\ MaxTime \in Nat /\ MaxFaults \in Nat
    /\ None \notin Clients /\ None \notin People /\ None \notin Callbacks /\ None \notin Flows
BY ConstantsAssumption

----------------------------------------------------------------------------
(* How a step moves the callbacks *)

\* What the other handlers leave alone.
LEMMA Aside ==
    /\ UNCHANGED vars \/ Tick \/ Reread =>
           UNCHANGED <<flow, pending, codes, cb, file, writeQueue, writing, live, req, faults>>
    /\ UNCHANGED vars \/ Tick => UNCHANGED users
    /\ Reread => users' = file
    /\ UNCHANGED vars \/ Reread \/ Sweep => UNCHANGED now
    /\ Sweep => UNCHANGED <<flow, cb, users, file, writeQueue, writing, live, req, faults>>
    /\ \A f \in Flows, k \in Clients : Authorize(f, k) =>
           UNCHANGED <<now, cb, users, file, writeQueue, writing, live, req, faults>>
    /\ \A c \in Callbacks, f \in Flows, approved \in BOOLEAN : Callback(c, f, approved) =>
           UNCHANGED <<now, flow, codes, users, file, writeQueue, writing, live, req, faults>>
    /\ \A t \in Requests, c \in Callbacks, k \in Clients, verifies \in BOOLEAN :
           LookUpCode(t, c, k, verifies) =>
               UNCHANGED <<now, flow, pending, users, cb, file, writeQueue, writing, live, faults>>
    /\ \A t \in Requests, matches \in BOOLEAN : ExchangeCodeForTokens(t, matches) =>
           UNCHANGED <<now, flow, pending, users, cb, file, writeQueue, writing, live, faults>>
<1>1. /\ UNCHANGED vars \/ Tick \/ Reread =>
             UNCHANGED <<flow, pending, codes, cb, file, writeQueue, writing, live, req, faults>>
      /\ UNCHANGED vars \/ Tick => UNCHANGED users
      /\ Reread => users' = file
      /\ UNCHANGED vars \/ Reread => UNCHANGED now
    BY DEF vars, memory, queueVars, Tick, Reread
<1>2. Sweep => UNCHANGED <<now, flow, cb, users, file, writeQueue, writing, live, req, faults>>
    BY DEF Sweep, queueVars
<1>3. ASSUME NEW f \in Flows, NEW k \in Clients, Authorize(f, k)
      PROVE  UNCHANGED <<now, cb, users, file, writeQueue, writing, live, req, faults>>
    BY <1>3 DEF Authorize, queueVars
<1>4. ASSUME NEW c \in Callbacks, NEW f \in Flows, NEW approved \in BOOLEAN, Callback(c, f, approved)
      PROVE  UNCHANGED <<now, flow, codes, users, file, writeQueue, writing, live, req, faults>>
    BY <1>4 DEF Callback, queueVars
<1>5. ASSUME NEW t \in Requests, NEW c \in Callbacks, NEW k \in Clients, NEW verifies \in BOOLEAN,
             LookUpCode(t, c, k, verifies)
      PROVE  UNCHANGED <<now, flow, pending, users, cb, file, writeQueue, writing, live, faults>>
    BY <1>5 DEF LookUpCode, queueVars
<1>6. ASSUME NEW t \in Requests, NEW matches \in BOOLEAN, ExchangeCodeForTokens(t, matches)
      PROVE  UNCHANGED <<now, flow, pending, users, cb, file, writeQueue, writing, live, faults>>
    BY <1>6 DEF ExchangeCodeForTokens, queueVars
<1> QED BY <1>1, <1>2, <1>3, <1>4, <1>5, <1>6

\* What a handler that goes on leaves alone.
LEMMA Answering ==
    ASSUME NEW c \in Callbacks, Answer(c) \/ WriteFails(c)
    PROVE  /\ UNCHANGED <<pending, flow, req, now>>
           /\ UNCHANGED codes \/ IssueCode(c)
           /\ UNCHANGED <<users, file>> \/ UpsertUser(c) \/ IssueCode(c)
           /\ UNCHANGED file \/ file' = users
<1>1. CASE WriteFails(c)
    BY <1>1 DEF WriteFails, memory
<1>2. CASE RevokeGrant(c)
    BY <1>2 DEF RevokeGrant, memory
<1>3. CASE UpsertUser(c)
  <2>1. UNCHANGED <<now, flow, pending, codes, file, req>>
      BY <1>3 DEF UpsertUser
  <2> QED BY <1>3, <2>1
<1>4. CASE IssueCode(c)
  <2>1. file' = users /\ UNCHANGED <<now, flow, pending, users, req>>
      BY <1>4 DEF IssueCode
  <2> QED BY <1>4, <2>1
<1>5. ASSUME NEW m \in People, ExchangeFails(c, m)
      PROVE  UNCHANGED <<now, flow, memory, file, req>>
    BY <1>5 DEF ExchangeFails
<1>6. ASSUME NEW m \in People, NEW allowed \in BOOLEAN, NEW offline \in BOOLEAN,
             ExchangeCode(c, m, allowed, offline)
      PROVE  UNCHANGED <<now, flow, memory, file, req>>
  <2> HIDE DEF memory
  <2> QED BY <1>6 DEF ExchangeCode
<1>7. UNCHANGED <<now, flow, memory, file, req>> => UNCHANGED <<pending, flow, req, now, codes, users, file>>
    BY DEF memory
<1>8. WriteFails(c) \/ RevokeGrant(c) \/ UpsertUser(c) \/ IssueCode(c)
      \/ UNCHANGED <<now, flow, memory, file, req>>
    BY <1>5, <1>6, Zenon DEF Answer
<1> QED BY <1>1, <1>2, <1>3, <1>4, <1>7, <1>8

\* A handler that proceeds keeps what it knows; the others stay.
LEMMA Proceeds ==
    ASSUME Types, NEW c \in Callbacks, NEW s, Proceed(c, s), NEW d \in Callbacks
    PROVE  /\ cb'[d].flow = cb[d].flow /\ cb'[d].client = cb[d].client
           /\ cb'[d].person = cb[d].person /\ cb'[d].token = cb[d].token
           /\ d = c => cb'[d].step = s
           /\ d # c => cb'[d].step = cb[d].step
<1>1. cb[c] \in CallbackRecords /\ cb[d] \in CallbackRecords
    BY DEF Types
<1>2. cb' = [cb EXCEPT ![c] = [cb[c] EXCEPT !.step = s]]
    BY DEF Proceed
<1>3. CASE d = c
    BY <1>1, <1>2, <1>3 DEF Types, CallbackRecords
<1>4. CASE d # c
    BY <1>1, <1>2, <1>4 DEF Types
<1> QED BY <1>3, <1>4

LEMMA ProceedsType ==
    ASSUME Types, NEW c \in Callbacks, NEW s \in Steps, Proceed(c, s)
    PROVE  cb' \in [Callbacks -> CallbackRecords]
<1>1. [cb[c] EXCEPT !.step = s] \in CallbackRecords
    BY DEF Types, CallbackRecords
<1> QED BY <1>1 DEF Types, Proceed

\* What the callback learns when the browser is back.
LEMMA CalledBack ==
    ASSUME Types, NEW c \in Callbacks, NEW f \in Flows, NEW approved \in BOOLEAN,
           Callback(c, f, approved)
    PROVE  /\ cb' \in [Callbacks -> CallbackRecords]
           /\ \A d \in Callbacks \ {c} : cb'[d] = cb[d]
           /\ cb'[c].person = cb[c].person /\ cb'[c].token = cb[c].token
           /\ \/ cb'[c].step = "refused" /\ cb'[c].flow = 0
              \/ /\ cb'[c].step = "exchanging" /\ cb'[c].flow = f
                 /\ cb'[c].client = pending[f].client /\ cb'[c].client \in Clients
<1> DEFINE good == approved /\ pending[f].expiresAt > now
           new == [cb[c] EXCEPT !.step = IF good THEN "exchanging" ELSE "refused",
                                !.flow = IF good THEN f ELSE 0,
                                !.client = IF good THEN AskedBy(f) ELSE None]
<1>1. cb[c] \in CallbackRecords
    BY DEF Types
<1>2. pending[f].client \in Clients
    BY DEF Types, Callback, PendingRecords
<1>3. cb' = [cb EXCEPT ![c] = new]
    BY DEF Callback
<1>4. new.person = cb[c].person /\ new.token = cb[c].token
    BY <1>1 DEF CallbackRecords
<1>5. CASE good
  <2>1. new.step = "exchanging" /\ new.flow = f /\ new.client = pending[f].client
      BY <1>1, <1>5 DEF CallbackRecords, AskedBy
  <2>2. new \in CallbackRecords
      BY <1>1, <1>2, <1>5 DEF CallbackRecords, AskedBy, Steps, Waiting
  <2> HIDE DEF new
  <2> QED BY <1>2, <1>3, <1>4, <2>1, <2>2 DEF Types
<1>6. CASE ~good
  <2>1. new.step = "refused" /\ new.flow = 0
      BY <1>1, <1>6 DEF CallbackRecords
  <2>2. new \in CallbackRecords
      BY <1>1, <1>6 DEF CallbackRecords, Steps
  <2> HIDE DEF new
  <2> QED BY <1>3, <1>4, <2>1, <2>2 DEF Types
<1> QED BY <1>5, <1>6

\* What it learns when the exchange with Google fails.
LEMMA Failed ==
    ASSUME Types, NEW c \in Callbacks, NEW m \in People, ExchangeFails(c, m)
    PROVE  /\ cb' \in [Callbacks -> CallbackRecords]
           /\ \A d \in Callbacks \ {c} : cb'[d] = cb[d]
           /\ cb'[c].step = "failed" /\ cb'[c].flow = cb[c].flow /\ cb'[c].client = cb[c].client
           /\ \/ cb'[c].person = cb[c].person /\ live' = live
              \/ cb'[c].person = m /\ live' = live \cup {c}
<1>1. cb[c] \in CallbackRecords
    BY DEF Types
<1>2. \E n \in CallbackRecords :
         /\ cb' = [cb EXCEPT ![c] = n]
         /\ n.step = "failed" /\ n.flow = cb[c].flow /\ n.client = cb[c].client
         /\ \/ n.person = cb[c].person /\ live' = live
            \/ n.person = m /\ live' = live \cup {c}
  <2>1. CASE cb' = [cb EXCEPT ![c].step = "failed"] /\ UNCHANGED live
    <3>1. [cb[c] EXCEPT !.step = "failed"] \in CallbackRecords
        BY <1>1 DEF CallbackRecords, Steps
    <3> QED BY <1>1, <2>1, <3>1 DEF CallbackRecords
  <2>2. CASE cb' = [cb EXCEPT ![c].step = "failed", ![c].person = m] /\ live' = live \cup {c}
    <3>1. [cb[c] EXCEPT !.step = "failed", !.person = m] \in CallbackRecords
        BY <1>1 DEF CallbackRecords, Steps
    <3> QED BY <1>1, <2>2, <3>1 DEF CallbackRecords
  <2> QED BY <2>1, <2>2 DEF ExchangeFails
<1> QED BY <1>2 DEF Types

\* What it learns when Google names the person.
LEMMA Exchanged ==
    ASSUME Types, NEW c \in Callbacks, NEW m \in People,
           NEW allowed \in BOOLEAN, NEW offline \in BOOLEAN, ExchangeCode(c, m, allowed, offline)
    PROVE  /\ cb' \in [Callbacks -> CallbackRecords]
           /\ \A d \in Callbacks \ {c} : cb'[d] = cb[d]
           /\ cb'[c].flow = cb[c].flow /\ cb'[c].client = cb[c].client /\ cb'[c].person = m
           /\ \/ /\ cb'[c].step = "saving" /\ cb'[c].token # None /\ cb'[c].token \in {c, users[m]}
                 /\ writeQueue' = Append(writeQueue, c)
              \/ cb'[c].step = "givingBack" /\ users[m] = None /\ writeQueue' = writeQueue
              \/ cb'[c].step = "refused" /\ users[m] # None /\ writeQueue' = writeQueue
              \/ cb'[c].step = "failed" /\ writeQueue' = writeQueue
<1> DEFINE token == IF offline THEN c ELSE users[m]
           step == CASE ~allowed -> IF GiveBack(m) THEN "givingBack" ELSE "refused"
                     [] allowed /\ token = None -> "failed"
                     [] OTHER -> "saving"
           kept == IF step = "saving" THEN token ELSE None
           new == [cb[c] EXCEPT !.step = step, !.person = m, !.token = kept]
<1>1. cb[c] \in CallbackRecords /\ token \in Callbacks \cup {None} /\ token \in {c, users[m]}
    BY DEF Types, Records
<1>2. \/ step = "saving" /\ token # None
      \/ step = "givingBack" /\ users[m] = None
      \/ step = "refused" /\ users[m] # None
      \/ step = "failed"
    BY DEF GiveBack
<1>3. cb' = [cb EXCEPT ![c] = new] /\ writeQueue' = IF step = "saving" THEN Append(writeQueue, c) ELSE writeQueue
    BY DEF ExchangeCode
<1>4. step \in Steps
    BY <1>2 DEF Steps, Waiting
<1>5. kept \in Callbacks \cup {None} /\ (step = "saving" => kept = token)
    BY <1>1
<1> HIDE DEF step, token, kept
<1>6. new \in CallbackRecords
    BY <1>1, <1>4, <1>5 DEF CallbackRecords
<1>7. /\ new.flow = cb[c].flow /\ new.client = cb[c].client /\ new.person = m
      /\ new.step = step /\ new.token = kept
    BY <1>1 DEF CallbackRecords
<1> HIDE DEF new
<1>8. cb' \in [Callbacks -> CallbackRecords] /\ cb'[c] = new /\ \A d \in Callbacks \ {c} : cb'[d] = cb[d]
    BY <1>3, <1>6 DEF Types
<1>9. step = "saving" => cb'[c].token # None /\ cb'[c].token \in {c, users[m]}
    BY <1>1, <1>2, <1>5, <1>7, <1>8
<1> QED BY <1>2, <1>3, <1>7, <1>8, <1>9

\* Only the step of a callback can change otherwise, and a restart fails the
\* callbacks that wait.
LEMMA Restarted ==
    ASSUME Types, Restart
    PROVE  /\ cb' \in [Callbacks -> CallbackRecords]
           /\ req' \in [Requests -> RequestRecords]
           /\ \A c \in Callbacks :
                /\ cb'[c].flow = cb[c].flow /\ cb'[c].client = cb[c].client
                /\ cb'[c].person = cb[c].person /\ cb'[c].token = cb[c].token
                /\ cb[c].step \in Waiting => cb'[c].step = "failed"
                /\ cb[c].step \notin Waiting => cb'[c].step = cb[c].step
           /\ \A t \in Requests :
                /\ req'[t].client = req[t].client /\ req'[t].code = req[t].code
                /\ req[t].step = "verified" => req'[t].step = "over"
                /\ req[t].step # "verified" => req'[t].step = req[t].step
<1>1. \A r \in CallbackRecords :
         LET n == [r EXCEPT !.step = "failed"] IN
             /\ n \in CallbackRecords /\ n.step = "failed" /\ n.flow = r.flow
             /\ n.client = r.client /\ n.person = r.person /\ n.token = r.token
    BY DEF CallbackRecords, Steps
<1>2. \A r \in RequestRecords :
         LET n == [r EXCEPT !.step = "over"] IN
             n \in RequestRecords /\ n.step = "over" /\ n.client = r.client /\ n.code = r.code
    BY DEF RequestRecords
<1>3. (\A c \in Callbacks : cb[c] \in CallbackRecords) /\ (\A t \in Requests : req[t] \in RequestRecords)
    BY DEF Types
<1>4. cb' = [c \in Callbacks |->
                IF cb[c].step \in Waiting THEN [cb[c] EXCEPT !.step = "failed"] ELSE cb[c]]
      /\ req' = [t \in Requests |->
                   IF req[t].step = "verified" THEN [req[t] EXCEPT !.step = "over"] ELSE req[t]]
    BY DEF Restart
<1>5. cb' \in [Callbacks -> CallbackRecords]
    BY <1>1, <1>3, <1>4
<1>6. req' \in [Requests -> RequestRecords]
    BY <1>2, <1>3, <1>4
<1>7. ASSUME NEW c \in Callbacks
      PROVE  /\ cb'[c].flow = cb[c].flow /\ cb'[c].client = cb[c].client
             /\ cb'[c].person = cb[c].person /\ cb'[c].token = cb[c].token
             /\ cb[c].step \in Waiting => cb'[c].step = "failed"
             /\ cb[c].step \notin Waiting => cb'[c].step = cb[c].step
    BY <1>1, <1>3, <1>4
<1>8. ASSUME NEW t \in Requests
      PROVE  /\ req'[t].client = req[t].client /\ req'[t].code = req[t].code
             /\ req[t].step = "verified" => req'[t].step = "over"
             /\ req[t].step # "verified" => req'[t].step = req[t].step
    BY <1>2, <1>3, <1>4
<1> QED BY <1>5, <1>6, <1>7, <1>8

----------------------------------------------------------------------------
(* How a step moves the codes *)

\* What a sweep leaves of the pending sign-ins or codes was there before.
LEMMA Swept ==
    ASSUME NEW records, NEW i \in DOMAIN records
    PROVE  Unexpired(records)[i] \in {records[i], None}
BY DEF Unexpired

LEMMA SweptType ==
    ASSUME NEW S, NEW R, NEW records \in [S -> R \cup {None}]
    PROVE  Unexpired(records) \in [S -> R \cup {None}]
BY DEF Unexpired

LEMMA Authorized ==
    ASSUME Types, NEW f \in Flows, NEW k \in Clients, Authorize(f, k)
    PROVE  /\ pending' \in [Flows -> PendingRecords \cup {None}]
           /\ codes' \in [Callbacks -> CodeRecords \cup {None}]
           /\ flow' \in [Flows -> {"unused", "accepted", "turnedAway"}]
           /\ \A c \in Callbacks : codes'[c] \in {codes[c], None}
           /\ \A g \in Flows \ {f} : pending'[g] \in {pending[g], None} /\ flow'[g] = flow[g]
           /\ flow'[f] # "unused"
           /\ pending'[f] \in {pending[f], None} \/ pending'[f].client = k
<1> DEFINE swept == IF Full(pending) THEN Unexpired(pending) ELSE pending
           asked == [client |-> k, expiresAt |-> now + PendingTtl]
<1>1. swept \in [Flows -> PendingRecords \cup {None}] /\ Unexpired(codes) \in [Callbacks -> CodeRecords \cup {None}]
    BY SweptType DEF Types
<1>2. \A g \in Flows : swept[g] \in {pending[g], None}
    BY Swept DEF Types
<1>3. \A c \in Callbacks : Unexpired(codes)[c] \in {codes[c], None}
    BY Swept DEF Types
<1>4. asked \in PendingRecords /\ asked.client = k
    BY Constants DEF Types, PendingRecords, Times
<1>5. codes' \in [Callbacks -> CodeRecords \cup {None}] /\ \A c \in Callbacks : codes'[c] \in {codes[c], None}
    BY <1>1, <1>3 DEF Authorize, Types
<1>6. \/ flow' = [flow EXCEPT ![f] = "turnedAway"] /\ pending' = swept
      \/ flow' = [flow EXCEPT ![f] = "accepted"] /\ pending' = [swept EXCEPT ![f] = asked]
    BY DEF Authorize
<1> HIDE DEF swept, asked
<1>7. CASE flow' = [flow EXCEPT ![f] = "turnedAway"] /\ pending' = swept
    BY <1>1, <1>2, <1>5, <1>7 DEF Types
<1>8. CASE flow' = [flow EXCEPT ![f] = "accepted"] /\ pending' = [swept EXCEPT ![f] = asked]
    BY <1>1, <1>2, <1>4, <1>5, <1>8 DEF Types
<1> QED BY <1>6, <1>7, <1>8

\* A code is issued unread, for the client of its callback.
LEMMA Issued ==
    ASSUME Types, NEW c \in Callbacks, IssueCode(c)
    PROVE  /\ codes' \in [Callbacks -> CodeRecords \cup {None}] \/ cb[c].client = None
           /\ codes'[c].client = cb[c].client /\ codes'[c].lookups = 0
           /\ \A d \in Callbacks \ {c} : codes'[d] = codes[d]
<1> DEFINE new == [client |-> cb[c].client, expiresAt |-> now + CodeTtl, lookups |-> 0]
<1>1. cb[c].client \in Clients \cup {None}
    BY DEF Types, CallbackRecords
<1>2. new \in CodeRecords \/ cb[c].client = None
    BY <1>1, Constants DEF CodeRecords, Types, Times
<1>3. new.client = cb[c].client /\ new.lookups = 0
    OBVIOUS
<1>4. codes' = [codes EXCEPT ![c] = new]
    BY DEF IssueCode
<1> HIDE DEF new
<1> QED BY <1>2, <1>3, <1>4 DEF Types

\* A lookup counts, and gives the code to the request or burns it.
LEMMA LookedUp ==
    ASSUME Types, NEW t \in Requests, NEW c \in Callbacks, NEW k \in Clients,
           NEW verifies \in BOOLEAN, LookUpCode(t, c, k, verifies)
    PROVE  /\ codes' \in [Callbacks -> CodeRecords \cup {None}]
           /\ req' \in [Requests -> RequestRecords]
           /\ \A d \in Callbacks \ {c} : codes'[d] = codes[d]
           /\ \A u \in Requests \ {t} : req'[u] = req[u]
           /\ req'[t].step \in {"verified", "over"}
           /\ \/ codes'[c] = None /\ req'[t].code = None /\ req'[t].step = "over"
              \/ /\ codes'[c].client = codes[c].client /\ codes'[c].lookups = codes[c].lookups + 1
                 /\ codes'[c].lookups <= MaxLookups /\ req'[t].code = c
                 /\ req'[t].step = "verified" => req'[t].client = codes[c].client
<1> DEFINE code == [codes[c] EXCEPT !.lookups = @ + 1]
           found == code.expiresAt > now /\ ~Burnt(code.lookups)
           new == [step |-> IF found /\ k = code.client /\ verifies THEN "verified" ELSE "over",
                   client |-> k, code |-> IF found THEN c ELSE None]
<1>1. codes[c] \in CodeRecords
    BY DEF LookUpCode, Types
<1>2. code \in CodeRecords /\ code.client = codes[c].client /\ code.lookups = codes[c].lookups + 1
    BY <1>1 DEF CodeRecords
<1>3. found => code.lookups <= MaxLookups
    BY <1>2, Constants DEF Burnt, CodeRecords
<1>4. codes' = [codes EXCEPT ![c] = IF found THEN code ELSE None]
    BY DEF LookUpCode
<1>5. req' = [req EXCEPT ![t] = new]
    BY DEF LookUpCode
<1> HIDE DEF code, found
<1>6. new \in RequestRecords
    BY DEF RequestRecords
<1>7. /\ new.step \in {"verified", "over"} /\ (new.step = "verified" => new.client = code.client)
      /\ found => new.code = c
      /\ ~found => new.code = None /\ new.step = "over"
    OBVIOUS
<1> HIDE DEF new
<1>8. codes' \in [Callbacks -> CodeRecords \cup {None}] /\ \A d \in Callbacks \ {c} : codes'[d] = codes[d]
    BY <1>2, <1>4 DEF Types
<1>9. req' \in [Requests -> RequestRecords] /\ req'[t] = new /\ \A u \in Requests \ {t} : req'[u] = req[u]
    BY <1>5, <1>6 DEF Types
<1>10. codes'[c] = IF found THEN code ELSE None
    BY <1>4 DEF Types
<1> QED BY <1>2, <1>3, <1>7, <1>8, <1>9, <1>10

\* The code of an exchange is gone, granted or not.
LEMMA Redeemed ==
    ASSUME Types, NEW t \in Requests, NEW matches \in BOOLEAN,
           ExchangeCodeForTokens(t, matches), req[t].code # None
    PROVE  /\ req[t].code \in Callbacks /\ req[t].step = "verified"
           /\ codes' \in [Callbacks -> CodeRecords \cup {None}]
           /\ req' \in [Requests -> RequestRecords]
           /\ codes'[req[t].code] = None
           /\ \A d \in Callbacks \ {req[t].code} : codes'[d] = codes[d]
           /\ \A u \in Requests \ {t} : req'[u] = req[u]
           /\ req'[t].client = req[t].client /\ req'[t].code = req[t].code
           /\ \/ req'[t].step = "granted" /\ codes[req[t].code] # None
              \/ req'[t].step = "over"
<1> DEFINE granted == /\ codes[req[t].code] # None /\ codes[req[t].code].expiresAt > now
                      /\ codes[req[t].code].client = req[t].client /\ matches
           step == IF granted THEN "granted" ELSE "over"
<1>1. req[t] \in RequestRecords
    BY DEF Types
<1>2. req[t].code \in Callbacks /\ req[t].step = "verified"
    BY <1>1 DEF RequestRecords, ExchangeCodeForTokens
<1>3. codes' = [codes EXCEPT ![req[t].code] = None]
    BY DEF ExchangeCodeForTokens, ConsumeCode
<1>4. req' = [req EXCEPT ![t] = [req[t] EXCEPT !.step = step]]
    BY DEF ExchangeCodeForTokens
<1>5. step \in {"granted", "over"} /\ (step = "granted" => codes[req[t].code] # None)
    OBVIOUS
<1> HIDE DEF step
<1>6. [req[t] EXCEPT !.step = step] \in RequestRecords
    BY <1>1, <1>5 DEF RequestRecords
<1>7. codes' \in [Callbacks -> CodeRecords \cup {None}] /\ codes'[req[t].code] = None
      /\ \A d \in Callbacks \ {req[t].code} : codes'[d] = codes[d]
    BY <1>2, <1>3 DEF Types
<1>8. /\ req' \in [Requests -> RequestRecords] /\ req'[t] = [req[t] EXCEPT !.step = step]
      /\ \A u \in Requests \ {t} : req'[u] = req[u]
    BY <1>4, <1>6 DEF Types
<1>9. req'[t].step = step /\ req'[t].client = req[t].client /\ req'[t].code = req[t].code
    BY <1>1, <1>8 DEF RequestRecords
<1> QED BY <1>2, <1>5, <1>7, <1>8, <1>9

----------------------------------------------------------------------------
(* Types *)

\* The callback whose upsert runs waits to be saved, and has a person.
LEMMA Served ==
    ASSUME IInv, NEW c \in Callbacks, UpsertUser(c)
    PROVE  /\ writeQueue # <<>> /\ writeQueue \in Seq(Callbacks) /\ c = writeQueue[1]
           /\ writeQueue' = Tail(writeQueue) /\ writeQueue' \in Seq(Callbacks)
           /\ cb[c].step = "saving" /\ cb[c].person \in People /\ cb[c].token \in Callbacks
<1>1. writeQueue # <<>> /\ c = Head(writeQueue) /\ writeQueue' = Tail(writeQueue)
    BY DEF UpsertUser
<1>2. writeQueue \in Seq(Callbacks) /\ cb[c] \in CallbackRecords
    BY Typed DEF IInv, Types
<1>3. c = writeQueue[1] /\ 1 \in DOMAIN writeQueue /\ writeQueue' \in Seq(Callbacks)
    BY <1>1, <1>2
<1>4. cb[c].step = "saving"
    BY <1>3 DEF IInv, QueueSaves
<1> QED BY <1>1, <1>2, <1>3, <1>4 DEF IInv, PersonKnown, CallbackRecords

LEMMA Written ==
    ASSUME IInv, NEW c \in Callbacks, writing = c
    PROVE  /\ cb[c].step = "saving" /\ cb[c].person \in People /\ cb[c].client \in Clients
           /\ users[cb[c].person] # None
<1>1. cb[c] \in CallbackRecords /\ None \notin Callbacks
    BY Typed, Constants DEF IInv, Types
<1>2. cb[c].step = "saving" /\ users[cb[c].person] # None
    BY <1>1 DEF IInv, QueueSaves
<1> QED BY <1>1, <1>2 DEF IInv, PersonKnown, FlowKnown, CallbackRecords

LEMMA CallbacksKept ==
    ASSUME IInv, [Next]_vars
    PROVE  cb' \in [Callbacks -> CallbackRecords] /\ req' \in [Requests -> RequestRecords]
<1>1. Types
    BY Typed DEF IInv
<1>2. CASE UNCHANGED <<cb, req>>
    BY <1>1, <1>2 DEF Types
<1>3. CASE Restart
    BY <1>1, <1>3, Restarted
<1>4. ASSUME NEW c \in Callbacks, NEW f \in Flows, NEW approved \in BOOLEAN, Callback(c, f, approved)
      PROVE  cb' \in [Callbacks -> CallbackRecords] /\ req' = req
    BY <1>1, <1>4, CalledBack DEF Callback
<1>5. ASSUME NEW c \in Callbacks, Answer(c) \/ WriteFails(c)
      PROVE  cb' \in [Callbacks -> CallbackRecords] /\ req' = req
  <2>1. ASSUME NEW m \in People, ExchangeFails(c, m)
        PROVE  cb' \in [Callbacks -> CallbackRecords] /\ req' = req
      BY <1>1, <2>1, Failed DEF ExchangeFails
  <2>2. ASSUME NEW m \in People, NEW allowed \in BOOLEAN, NEW offline \in BOOLEAN,
               ExchangeCode(c, m, allowed, offline)
        PROVE  cb' \in [Callbacks -> CallbackRecords] /\ req' = req
      BY <1>1, <2>2, Exchanged DEF ExchangeCode
  <2>3. ASSUME RevokeGrant(c) \/ UpsertUser(c) \/ IssueCode(c) \/ WriteFails(c)
        PROVE  cb' \in [Callbacks -> CallbackRecords] /\ req' = req
    <3>1. \/ cb' = cb
          \/ \E s \in {"refused", "failed", "givingBack", "code"} : Proceed(c, s)
        BY <2>3 DEF RevokeGrant, UpsertUser, IssueCode, WriteFails, Refuse
    <3>2. {"refused", "failed", "givingBack", "code"} \subseteq Steps
        BY DEF Steps, Waiting
    <3>3. req' = req
        BY <2>3 DEF RevokeGrant, UpsertUser, IssueCode, WriteFails
    <3> QED BY <1>1, <3>1, <3>2, <3>3, ProceedsType DEF Types
  <2> QED BY <1>5, <2>1, <2>2, <2>3 DEF Answer
<1>6. ASSUME NEW t \in Requests, NEW c \in Callbacks, NEW k \in Clients, NEW verifies \in BOOLEAN,
             LookUpCode(t, c, k, verifies)
      PROVE  req' \in [Requests -> RequestRecords] /\ cb' = cb
    BY <1>1, <1>6, LookedUp DEF LookUpCode
<1>7. ASSUME NEW t \in Requests, NEW matches \in BOOLEAN, ExchangeCodeForTokens(t, matches)
      PROVE  req' \in [Requests -> RequestRecords] /\ cb' = cb
  <2>1. req[t].code # None
      BY <1>7 DEF ExchangeCodeForTokens, IInv, RequestKnows
  <2> QED BY <1>1, <1>7, <2>1, Redeemed DEF ExchangeCodeForTokens
<1> QED BY <1>1, <1>2, <1>3, <1>4, <1>5, <1>6, <1>7, Aside DEF Next, Types

LEMMA CodesTyped ==
    ASSUME IInv, [Next]_vars
    PROVE  codes' \in [Callbacks -> CodeRecords \cup {None}]
<1>1. Types
    BY Typed DEF IInv
<1>2. CASE UNCHANGED codes
    BY <1>1, <1>2 DEF Types
<1>3. CASE Sweep
    BY <1>1, <1>3, SweptType DEF Sweep, Types
<1>4. CASE Restart
    BY <1>4 DEF Restart
<1>5. ASSUME NEW f \in Flows, NEW k \in Clients, Authorize(f, k)
      PROVE  codes' \in [Callbacks -> CodeRecords \cup {None}]
    BY <1>1, <1>5, Authorized
<1>6. ASSUME NEW c \in Callbacks, IssueCode(c)
      PROVE  codes' \in [Callbacks -> CodeRecords \cup {None}]
  <2>1. cb[c].client # None
      BY <1>6, Written, Constants DEF IssueCode
  <2> QED BY <1>1, <1>6, <2>1, Issued
<1>7. ASSUME NEW t \in Requests, NEW c \in Callbacks, NEW k \in Clients, NEW verifies \in BOOLEAN,
             LookUpCode(t, c, k, verifies)
      PROVE  codes' \in [Callbacks -> CodeRecords \cup {None}]
    BY <1>1, <1>7, LookedUp
<1>8. ASSUME NEW t \in Requests, NEW matches \in BOOLEAN, ExchangeCodeForTokens(t, matches)
      PROVE  codes' \in [Callbacks -> CodeRecords \cup {None}]
  <2>1. req[t].code # None
      BY <1>8 DEF ExchangeCodeForTokens, IInv, RequestKnows
  <2> QED BY <1>1, <1>8, <2>1, Redeemed
<1>9. ASSUME NEW c \in Callbacks, Answer(c) \/ WriteFails(c)
      PROVE  codes' \in [Callbacks -> CodeRecords \cup {None}]
    BY <1>2, <1>6, <1>9, Answering
<1> QED BY <1>2, <1>3, <1>4, <1>5, <1>7, <1>8, <1>9, Aside DEF Next

LEMMA PendingTyped ==
    ASSUME IInv, [Next]_vars
    PROVE  /\ pending' \in [Flows -> PendingRecords \cup {None}]
           /\ flow' \in [Flows -> {"unused", "accepted", "turnedAway"}]
<1>1. Types
    BY Typed DEF IInv
<1>2. CASE UNCHANGED <<pending, flow>>
    BY <1>1, <1>2 DEF Types
<1>3. CASE Sweep
    BY <1>1, <1>3, SweptType DEF Sweep, Types
<1>4. CASE Restart
    BY <1>1, <1>4 DEF Restart, Types
<1>5. ASSUME NEW f \in Flows, NEW k \in Clients, Authorize(f, k)
      PROVE  /\ pending' \in [Flows -> PendingRecords \cup {None}]
             /\ flow' \in [Flows -> {"unused", "accepted", "turnedAway"}]
    BY <1>1, <1>5, Authorized
<1>6. ASSUME NEW c \in Callbacks, NEW f \in Flows, NEW approved \in BOOLEAN, Callback(c, f, approved)
      PROVE  /\ pending' \in [Flows -> PendingRecords \cup {None}]
             /\ flow' \in [Flows -> {"unused", "accepted", "turnedAway"}]
    BY <1>1, <1>6 DEF Callback, ConsumePending, Types
<1>7. ASSUME NEW c \in Callbacks, Answer(c) \/ WriteFails(c)
      PROVE  UNCHANGED <<pending, flow>>
    BY <1>7, Answering
<1> QED BY <1>2, <1>3, <1>4, <1>5, <1>6, <1>7, Aside DEF Next

LEMMA MembersTyped ==
    ASSUME IInv, [Next]_vars
    PROVE  users' \in Records /\ file' \in Records
<1>1. Types
    BY Typed DEF IInv
<1>2. CASE UNCHANGED <<users, file>>
    BY <1>1, <1>2 DEF Types
<1>3. CASE Restart
    BY <1>1, <1>3 DEF Restart, Types
<1>4. CASE Reread
    BY <1>1, <1>4 DEF Reread, Types
<1>5. ASSUME NEW c \in Callbacks, UpsertUser(c)
      PROVE  users' \in Records /\ file' \in Records
  <2>1. cb[c].token \in Callbacks \cup {None}
      BY <1>1 DEF Types, CallbackRecords
  <2>2. file' = file /\ (users' = file \/ users' = [file EXCEPT ![cb[c].person] = cb[c].token])
      BY <1>5 DEF UpsertUser
  <2> QED BY <1>1, <2>1, <2>2 DEF Types, Records
<1>6. ASSUME NEW c \in Callbacks, IssueCode(c)
      PROVE  users' \in Records /\ file' \in Records
    BY <1>1, <1>6 DEF IssueCode, Types
<1>7. ASSUME NEW c \in Callbacks, Answer(c) \/ WriteFails(c)
      PROVE  users' \in Records /\ file' \in Records
    BY <1>2, <1>5, <1>6, <1>7, Answering
<1> QED BY <1>2, <1>3, <1>4, <1>7, Aside DEF Next

LEMMA QueueTyped ==
    ASSUME IInv, [Next]_vars
    PROVE  /\ writeQueue' \in Seq(Callbacks) /\ writing' \in Callbacks \cup {None}
           /\ live' \subseteq Callbacks /\ now' \in Times /\ faults' \in 0..MaxFaults
<1>1. /\ writeQueue \in Seq(Callbacks) /\ writing \in Callbacks \cup {None}
      /\ live \subseteq Callbacks /\ now \in Times /\ faults \in 0..MaxFaults
    BY Typed DEF IInv, Types
<1>2. ASSUME NEW c \in Callbacks, UpsertUser(c)
      PROVE  /\ writeQueue' \in Seq(Callbacks) /\ writing' \in Callbacks \cup {None}
             /\ UNCHANGED <<live, now, faults>>
    BY <1>1, <1>2, Served DEF UpsertUser
<1>3. ASSUME NEW c \in Callbacks, NEW m \in People, NEW allowed \in BOOLEAN, NEW offline \in BOOLEAN,
             ExchangeCode(c, m, allowed, offline)
      PROVE  /\ writeQueue' \in Seq(Callbacks) /\ live' \subseteq Callbacks
             /\ UNCHANGED <<writing, now, faults>>
  <2>1. writeQueue' \in {writeQueue, Append(writeQueue, c)}
      BY <1>3 DEF ExchangeCode
  <2>2. live' = live \cup {c} /\ UNCHANGED <<writing, now, faults>>
      BY <1>3 DEF ExchangeCode
  <2> QED BY <1>1, <2>1, <2>2
<1>4. ASSUME NEW c \in Callbacks, Answer(c) \/ WriteFails(c)
      PROVE  /\ writeQueue' \in Seq(Callbacks) /\ writing' \in Callbacks \cup {None}
             /\ live' \subseteq Callbacks /\ now' \in Times /\ faults' \in 0..MaxFaults
  <2>1. CASE WriteFails(c)
      BY <1>1, <2>1, Constants DEF WriteFails, Fault
  <2>2. CASE RevokeGrant(c) \/ IssueCode(c) \/ \E m \in People : ExchangeFails(c, m)
      BY <1>1, <2>2 DEF RevokeGrant, IssueCode, ExchangeFails, queueVars
  <2> QED BY <1>1, <1>2, <1>3, <1>4, <2>1, <2>2 DEF Answer
<1>5. CASE Tick
    BY <1>1, <1>5, Constants DEF Tick, Times, queueVars
<1>6. CASE Restart
    BY <1>1, <1>6, Constants DEF Restart, Fault
<1>7. CASE UNCHANGED <<writeQueue, writing, live, now, faults>>
    BY <1>1, <1>7
<1> QED BY <1>4, <1>5, <1>6, <1>7, Aside DEF Next

LEMMA TypesKept ==
    ASSUME IInv, [Next]_vars
    PROVE  TypeOK'
<1>1. Types'
    BY CallbacksKept, CodesTyped, PendingTyped, MembersTyped, QueueTyped DEF Types
<1> QED BY <1>1, TypedNext

----------------------------------------------------------------------------
(* The members *)

\* d goes on explaining why somebody is a member in memory and not on file.
Explains(d) ==
    \A m \in People :
        cb[d].person = m /\ cb[d].step \in {"saving", "failed"} =>
            cb'[d].person = m /\ cb'[d].step \in {"saving", "failed"}

LEMMA MembersRest ==
    ASSUME IInv, UNCHANGED <<users, file>>, \A d \in Callbacks : Explains(d)
    PROVE  MembersCapped' /\ MembersFollowFile'
<1>1. Members(users') = Members(users) /\ Members(file') = Members(file)
    BY DEF Members
<1>2. MembersCapped'
    BY <1>1 DEF IInv, MembersCapped
<1>3. MembersFollowFile'
  <2>1. ASSUME NEW m \in Members(users') \ Members(file')
        PROVE  \E d \in Callbacks : cb'[d].person = m /\ cb'[d].step \in {"saving", "failed"}
    <3>1. PICK d \in Callbacks : cb[d].person = m /\ cb[d].step \in {"saving", "failed"}
        BY <1>1, <2>1 DEF IInv, MembersFollowFile, GrantsOf
    <3>2. m \in People
        BY <2>1 DEF Members
    <3> QED BY <3>1, <3>2 DEF Explains
  <2> QED BY <1>1, <2>1 DEF IInv, MembersFollowFile, GrantsOf
<1> QED BY <1>2, <1>3

\* The maps hold what is on file.
LEMMA MembersReread ==
    ASSUME IInv, users' = file', file' = file \/ file' = users
    PROVE  MembersCapped' /\ MembersFollowFile'
<1>1. IsFiniteSet(Members(users)) /\ Members(file) \subseteq Members(users)
    BY DEF IInv, MembersFollowFile
<1>2. IsFiniteSet(Members(file))
    BY <1>1, FS_Subset
<1>3. Members(users') = Members(file') /\ (Members(file') = Members(file) \/ Members(file') = Members(users))
    BY DEF Members
<1>4. MembersCapped'
    BY <1>3 DEF IInv, MembersCapped
<1>5. MembersFollowFile'
    BY <1>1, <1>2, <1>3 DEF MembersFollowFile
<1> QED BY <1>4, <1>5

\* The member is stored: one more than on file, if there was room, or none.
LEMMA MembersStored ==
    ASSUME IInv, NEW c \in Callbacks, UpsertUser(c), HasRoom(file, cb[c].person)
    PROVE  MembersCapped' /\ MembersFollowFile'
<1> DEFINE m == cb[c].person
<1>1. cb[c].step = "saving" /\ m \in People /\ cb[c].token # None
    BY Served, Constants
<1>2. users' = [file EXCEPT ![m] = cb[c].token] /\ file' = file /\ cb' = cb
    BY DEF UpsertUser
<1>3. file \in Records
    BY Typed DEF IInv, Types
<1>4. Members(file') = Members(file)
    BY <1>2 DEF Members
<1>5. Members(users') = Members(file) \cup {m}
    BY <1>1, <1>2, <1>3 DEF Members, Records
<1>6. IsFiniteSet(Members(file))
    BY FS_Subset DEF IInv, MembersFollowFile
<1>7. m \in Members(file) <=> file[m] # None
    BY <1>1 DEF Members
<1>8. HasRoom(file, m)
    OBVIOUS
<1> HIDE DEF m
<1>9. /\ IsFiniteSet(Members(file) \cup {m})
      /\ Cardinality(Members(file) \cup {m}) =
            IF m \in Members(file) THEN Cardinality(Members(file)) ELSE Cardinality(Members(file)) + 1
      /\ Cardinality(Members(file)) \in Nat
    BY <1>6, FS_AddElement, FS_CardinalityType
<1>10. Cardinality(Members(file) \cup {m}) <= MaxUsers
  <2>1. CASE m \in Members(file)
      BY <1>9, <2>1 DEF IInv, MembersCapped
  <2>2. CASE m \notin Members(file)
      BY <1>7, <1>8, <1>9, <2>2, Constants DEF HasRoom
  <2> QED BY <2>1, <2>2
<1>11. MembersCapped'
    BY <1>4, <1>5, <1>10 DEF IInv, MembersCapped
<1>12. \E d \in Callbacks : cb'[d].person = m /\ cb'[d].step \in {"saving", "failed"}
    BY <1>1, <1>2 DEF m
<1>13. MembersFollowFile'
    BY <1>4, <1>5, <1>9, <1>12 DEF MembersFollowFile, GrantsOf
<1> QED BY <1>11, <1>13

\* The write succeeds.
LEMMA MembersWritten ==
    ASSUME IInv, NEW c \in Callbacks, IssueCode(c)
    PROVE  MembersCapped' /\ MembersFollowFile'
<1>1. users' = users /\ file' = users
    BY DEF IssueCode
<1> QED BY <1>1, MembersReread

LEMMA MembersKept ==
    ASSUME IInv, [Next]_vars
    PROVE  MembersCapped' /\ MembersFollowFile'
<1>1. Types
    BY Typed DEF IInv
<1>2. CASE UNCHANGED <<users, file, cb>>
  <2>1. \A d \in Callbacks : Explains(d)
      BY <1>2 DEF Explains
  <2> QED BY <1>2, <2>1, MembersRest
<1>3. CASE Restart \/ Reread
  <2>1. users' = file' /\ (file' = file \/ file' = users)
      BY <1>3 DEF Restart, Reread
  <2> QED BY <2>1, MembersReread
<1>4. ASSUME NEW c \in Callbacks, NEW f \in Flows, NEW approved \in BOOLEAN, Callback(c, f, approved)
      PROVE  MembersCapped' /\ MembersFollowFile'
  <2>1. \A d \in Callbacks \ {c} : cb'[d] = cb[d]
      BY <1>1, <1>4, CalledBack
  <2>2. \A d \in Callbacks : Explains(d)
      BY <1>4, <2>1 DEF Explains, Callback
  <2> QED BY <1>4, <2>2, MembersRest DEF Callback
<1>5. ASSUME NEW c \in Callbacks, NEW m \in People, ExchangeFails(c, m)
      PROVE  MembersCapped' /\ MembersFollowFile'
  <2>1. \A d \in Callbacks \ {c} : cb'[d] = cb[d]
      BY <1>1, <1>5, Failed
  <2>2. \A d \in Callbacks : Explains(d)
      BY <1>5, <2>1 DEF Explains, ExchangeFails
  <2> QED BY <1>5, <2>2, MembersRest DEF ExchangeFails, memory
<1>6. ASSUME NEW c \in Callbacks, NEW m \in People, NEW allowed \in BOOLEAN, NEW offline \in BOOLEAN,
             ExchangeCode(c, m, allowed, offline)
      PROVE  MembersCapped' /\ MembersFollowFile'
  <2>1. \A d \in Callbacks \ {c} : cb'[d] = cb[d]
      BY <1>1, <1>6, Exchanged
  <2>2. \A d \in Callbacks : Explains(d)
      BY <1>6, <2>1 DEF Explains, ExchangeCode
  <2> QED BY <1>6, <2>2, MembersRest DEF ExchangeCode, memory
<1>7. ASSUME NEW c \in Callbacks, RevokeGrant(c)
      PROVE  MembersCapped' /\ MembersFollowFile'
  <2>1. cb[c].step = "givingBack" /\ (Proceed(c, "refused") \/ Proceed(c, "failed"))
      BY <1>7 DEF RevokeGrant
  <2>2. \A d \in Callbacks : Explains(d)
      BY <1>1, <2>1, Proceeds DEF Explains
  <2> QED BY <1>7, <2>2, MembersRest DEF RevokeGrant, memory
<1>8. ASSUME NEW c \in Callbacks, WriteFails(c)
      PROVE  MembersCapped' /\ MembersFollowFile'
  <2>1. Proceed(c, "failed")
      BY <1>8 DEF WriteFails
  <2>2. \A d \in Callbacks : Explains(d)
      BY <1>1, <2>1, Proceeds DEF Explains
  <2> QED BY <1>8, <2>2, MembersRest DEF WriteFails, memory
<1>9. ASSUME NEW c \in Callbacks, UpsertUser(c)
      PROVE  MembersCapped' /\ MembersFollowFile'
  <2>1. CASE ~HasRoom(file, cb[c].person)
      BY <1>9, <2>1, MembersReread DEF UpsertUser
  <2> QED BY <1>9, <2>1, MembersStored
<1> QED BY <1>2, <1>3, <1>4, <1>5, <1>6, <1>7, <1>8, <1>9, MembersWritten, Aside DEF Next, Answer

----------------------------------------------------------------------------
(* The write queue *)

StaysSaving(d) ==
    cb[d].step = "saving" => cb'[d].step = "saving" /\ cb'[d].person = cb[d].person

LEMMA QueueRests ==
    ASSUME IInv, writeQueue' = writeQueue,
           writing' = None \/ (writing' = writing /\ users' = users),
           \A d \in Callbacks : StaysSaving(d) \/ (d = writing /\ writing' = None)
    PROVE  QueueSaves'
<1>1. writeQueue \in Seq(Callbacks) /\ writing \in Callbacks \cup {None} /\ None \notin Callbacks
    BY Typed, Constants DEF IInv, Types
<1>2. ASSUME NEW i \in DOMAIN writeQueue
      PROVE  writeQueue[i] # writing' /\ cb'[writeQueue[i]].step = "saving"
  <2>1. writeQueue[i] \in Callbacks /\ writeQueue[i] # writing /\ cb[writeQueue[i]].step = "saving"
      BY <1>1 DEF IInv, QueueSaves
  <2> QED BY <1>1, <2>1 DEF StaysSaving
<1>3. writing' # None => cb'[writing'].step = "saving" /\ users'[cb'[writing'].person] # None
  <2> SUFFICES ASSUME writing' # None
               PROVE  cb'[writing'].step = "saving" /\ users'[cb'[writing'].person] # None
      OBVIOUS
  <2>1. writing' = writing /\ users' = users /\ writing \in Callbacks
      BY <1>1
  <2>2. cb[writing].step = "saving" /\ users[cb[writing].person] # None
      BY <2>1 DEF IInv, QueueSaves
  <2> QED BY <2>1, <2>2 DEF StaysSaving
<1> QED BY <1>2, <1>3 DEF IInv, QueueSaves

LEMMA QueueJoined ==
    ASSUME IInv, NEW c \in Callbacks, cb[c].step # "saving", cb'[c].step = "saving",
           writeQueue' = Append(writeQueue, c), writing' = writing, users' = users,
           \A d \in Callbacks \ {c} : cb'[d] = cb[d]
    PROVE  QueueSaves'
<1>1. writeQueue \in Seq(Callbacks) /\ writing \in Callbacks \cup {None} /\ None \notin Callbacks
    BY Typed, Constants DEF IInv, Types
<1>2. \A i \in DOMAIN writeQueue : /\ writeQueue[i] \in Callbacks \ {c} /\ writeQueue[i] # writing
                                   /\ cb[writeQueue[i]].step = "saving"
    BY <1>1 DEF IInv, QueueSaves
<1>3. writing # c
    BY <1>1 DEF IInv, QueueSaves
<1>4. \A i \in DOMAIN writeQueue' : \/ i \in DOMAIN writeQueue /\ writeQueue'[i] = writeQueue[i]
                                    \/ i = Len(writeQueue) + 1 /\ writeQueue'[i] = c
    BY <1>1
<1>5. ASSUME NEW i \in DOMAIN writeQueue'
      PROVE  writeQueue'[i] # writing' /\ cb'[writeQueue'[i]].step = "saving"
    BY <1>2, <1>3, <1>4
<1>6. ASSUME NEW i \in DOMAIN writeQueue', NEW j \in DOMAIN writeQueue', writeQueue'[i] = writeQueue'[j]
      PROVE  i = j
    BY <1>2, <1>4, <1>6 DEF IInv, QueueSaves
<1>7. writing' # None => cb'[writing'].step = "saving" /\ users'[cb'[writing'].person] # None
    BY <1>1, <1>3 DEF IInv, QueueSaves
<1> QED BY <1>5, <1>6, <1>7 DEF QueueSaves

LEMMA QueueServed ==
    ASSUME IInv, NEW c \in Callbacks, UpsertUser(c)
    PROVE  QueueSaves'
<1>1. /\ writeQueue # <<>> /\ writeQueue \in Seq(Callbacks) /\ c = writeQueue[1]
      /\ writeQueue' = Tail(writeQueue) /\ cb[c].step = "saving" /\ cb[c].person \in People
      /\ cb[c].token # None /\ file \in Records
    BY Served, Typed, Constants DEF IInv, Types
<1>2. \A i \in DOMAIN writeQueue' : i + 1 \in DOMAIN writeQueue /\ i \in Nat \ {0} /\ writeQueue'[i] = writeQueue[i + 1]
    BY <1>1
<1>3. 1 \in DOMAIN writeQueue
    BY <1>1
<1>4. \A i \in DOMAIN writeQueue' : writeQueue'[i] # c /\ writeQueue'[i] \in Callbacks /\ cb[writeQueue'[i]].step = "saving"
  <2> SUFFICES ASSUME NEW i \in DOMAIN writeQueue'
               PROVE  writeQueue'[i] # c /\ writeQueue'[i] \in Callbacks /\ cb[writeQueue'[i]].step = "saving"
      OBVIOUS
  <2>1. i + 1 \in DOMAIN writeQueue /\ i + 1 # 1 /\ writeQueue'[i] = writeQueue[i + 1]
      BY <1>2
  <2>2. writeQueue[i + 1] # writeQueue[1]
      BY <1>3, <2>1 DEF IInv, QueueSaves
  <2> QED BY <1>1, <2>1, <2>2 DEF IInv, QueueSaves
<1>5. \A i, j \in DOMAIN writeQueue' : writeQueue'[i] = writeQueue'[j] => i = j
  <2> SUFFICES ASSUME NEW i \in DOMAIN writeQueue', NEW j \in DOMAIN writeQueue', writeQueue'[i] = writeQueue'[j]
               PROVE  i = j
      OBVIOUS
  <2>1. i + 1 = j + 1
      BY <1>2 DEF IInv, QueueSaves
  <2> QED BY <1>2, <2>1
<1>6. CASE HasRoom(file, cb[c].person)
  <2>1. users' = [file EXCEPT ![cb[c].person] = cb[c].token] /\ writing' = c /\ cb' = cb
      BY <1>6 DEF UpsertUser
  <2>2. users'[cb[c].person] # None
      BY <1>1, <2>1 DEF Records
  <2> QED BY <1>1, <1>4, <1>5, <2>1, <2>2 DEF QueueSaves
<1>7. CASE ~HasRoom(file, cb[c].person)
  <2>1. Proceed(c, "givingBack") /\ writing' = None
      BY <1>7 DEF UpsertUser, Refuse
  <2>2. \A d \in Callbacks \ {c} : cb'[d].step = cb[d].step
      BY <2>1, Proceeds, Typed DEF IInv
  <2>3. \A i \in DOMAIN writeQueue' : writeQueue'[i] # writing' /\ cb'[writeQueue'[i]].step = "saving"
      BY <1>4, <2>1, <2>2, Constants
  <2> QED BY <1>5, <2>1, <2>3 DEF QueueSaves
<1> QED BY <1>6, <1>7

LEMMA QueueKept ==
    ASSUME IInv, [Next]_vars
    PROVE  QueueSaves'
<1>1. Types
    BY Typed DEF IInv
<1>2. CASE UNCHANGED <<writeQueue, writing, users, cb>>
  <2>1. \A d \in Callbacks : StaysSaving(d)
      BY <1>2 DEF StaysSaving
  <2> QED BY <1>2, <2>1, QueueRests
<1>3. CASE Reread
  <2>1. writing' = None /\ writeQueue' = writeQueue /\ \A d \in Callbacks : StaysSaving(d)
      BY <1>3 DEF Reread, queueVars, StaysSaving
  <2> QED BY <2>1, QueueRests
<1>4. CASE Restart
  <2>1. writeQueue' = <<>> /\ writing' = None
      BY <1>4 DEF Restart
  <2> QED BY <2>1 DEF QueueSaves
<1>5. ASSUME NEW c \in Callbacks, NEW f \in Flows, NEW approved \in BOOLEAN, Callback(c, f, approved)
      PROVE  QueueSaves'
  <2>1. \A d \in Callbacks \ {c} : cb'[d] = cb[d]
      BY <1>1, <1>5, CalledBack
  <2>2. \A d \in Callbacks : StaysSaving(d)
      BY <1>5, <2>1 DEF StaysSaving, Callback
  <2> QED BY <1>5, <2>2, QueueRests DEF Callback, queueVars
<1>6. ASSUME NEW c \in Callbacks, NEW m \in People, ExchangeFails(c, m)
      PROVE  QueueSaves'
  <2>1. \A d \in Callbacks \ {c} : cb'[d] = cb[d]
      BY <1>1, <1>6, Failed
  <2>2. \A d \in Callbacks : StaysSaving(d)
      BY <1>6, <2>1 DEF StaysSaving, ExchangeFails
  <2> QED BY <1>6, <2>2, QueueRests DEF ExchangeFails, memory, queueVars
<1>7. ASSUME NEW c \in Callbacks, NEW m \in People, NEW allowed \in BOOLEAN, NEW offline \in BOOLEAN,
             ExchangeCode(c, m, allowed, offline)
      PROVE  QueueSaves'
  <2>1. \A d \in Callbacks \ {c} : cb'[d] = cb[d]
      BY <1>1, <1>7, Exchanged
  <2>2. cb[c].step = "exchanging" /\ writing' = writing /\ users' = users
      BY <1>7 DEF ExchangeCode, memory
  <2>3. CASE cb'[c].step = "saving" /\ writeQueue' = Append(writeQueue, c)
      BY <2>1, <2>2, <2>3, QueueJoined
  <2>4. CASE writeQueue' = writeQueue
    <3>1. \A d \in Callbacks : StaysSaving(d)
        BY <2>1, <2>2 DEF StaysSaving
    <3> QED BY <2>2, <2>4, <3>1, QueueRests
  <2> QED BY <1>1, <1>7, <2>3, <2>4, Exchanged
<1>8. ASSUME NEW c \in Callbacks, RevokeGrant(c)
      PROVE  QueueSaves'
  <2>1. cb[c].step = "givingBack" /\ (Proceed(c, "refused") \/ Proceed(c, "failed"))
      BY <1>8 DEF RevokeGrant
  <2>2. \A d \in Callbacks : StaysSaving(d)
      BY <1>1, <2>1, Proceeds DEF StaysSaving
  <2> QED BY <1>8, <2>2, QueueRests DEF RevokeGrant, memory, queueVars
<1>9. ASSUME NEW c \in Callbacks, WriteFails(c) \/ IssueCode(c)
      PROVE  QueueSaves'
  <2>1. writing = c /\ writing' = None /\ writeQueue' = writeQueue /\ (Proceed(c, "failed") \/ Proceed(c, "code"))
      BY <1>9 DEF WriteFails, IssueCode
  <2>2. \A d \in Callbacks : StaysSaving(d) \/ d = writing
      BY <1>1, <2>1, Proceeds DEF StaysSaving
  <2> QED BY <2>1, <2>2, QueueRests
<1>10. ASSUME NEW c \in Callbacks, Answer(c) \/ WriteFails(c)
       PROVE  QueueSaves'
    BY <1>6, <1>7, <1>8, <1>9, <1>10, QueueServed DEF Answer
<1> QED BY <1>2, <1>3, <1>4, <1>5, <1>10, Aside DEF Next

----------------------------------------------------------------------------
(* The grants at Google *)

Covered(m) ==
    file[m] # None \/ \E d \in Callbacks : cb[d].person = m /\ cb[d].step \in Waiting \cup {"failed"}

\* d goes on covering its person, unless that is a member now.
Covers(d) ==
    cb[d].person \in People /\ cb[d].step \in Waiting \cup {"failed"} =>
        \/ cb'[d].person = cb[d].person /\ cb'[d].step \in Waiting \cup {"failed"}
        \/ file'[cb[d].person] # None

\* A member on file stays one.
LEMMA FileGrows ==
    ASSUME IInv, [Next]_vars, NEW m \in People, file[m] # None
    PROVE  file'[m] # None
<1>1. users[m] # None
    BY DEF IInv, MembersFollowFile, Members
<1>2. file' = file \/ file' = users
  <2>1. ASSUME NEW c \in Callbacks, Answer(c) \/ WriteFails(c)
        PROVE  file' = file \/ file' = users
      BY <2>1, Answering
  <2> QED BY <2>1, Aside DEF Next, Restart
<1> QED BY <1>1, <1>2

LEMMA GrantsRest ==
    ASSUME IInv, [Next]_vars, \A d \in Callbacks : Covers(d),
           \A c \in live', m \in People : cb'[c].person = m =>
               (c \in live /\ cb[c].person = m) \/ Covered(m)',
           \A c \in live' : cb'[c].person \in People
    PROVE  NoGrantLeftBehind'
<1>1. ASSUME NEW c \in live', NEW m \in People, cb'[c].person = m
      PROVE  Covered(m)'
  <2> SUFFICES ASSUME c \in live, cb[c].person = m
               PROVE  Covered(m)'
      BY <1>1
  <2>1. CASE file[m] # None
    <3>1. file'[m] # None
        BY <2>1, FileGrows
    <3> QED BY <3>1 DEF Covered
  <2>2. CASE \E d \in Callbacks : cb[d].person = m /\ cb[d].step \in Waiting \cup {"failed"}
      BY <2>2 DEF Covers, Covered
  <2> QED BY <2>1, <2>2 DEF IInv, NoGrantLeftBehind, GrantsOf
<1>2. ASSUME NEW c \in live'
      PROVE  \/ file'[cb'[c].person] # None
             \/ \E d \in Callbacks : cb'[d].person = cb'[c].person /\ cb'[d].step \in Waiting \cup {"failed"}
  <2>1. PICK m \in People : cb'[c].person = m
      OBVIOUS
  <2>2. Covered(m)'
      BY <1>1, <2>1
  <2> QED BY <2>1, <2>2 DEF Covered
<1> QED BY <1>2 DEF NoGrantLeftBehind, GrantsOf

LEMMA GrantsKept ==
    ASSUME IInv, [Next]_vars
    PROVE  NoGrantLeftBehind'
<1>1. Types
    BY Typed DEF IInv
<1>2. \A c \in live : c \in Callbacks /\ cb[c].person \in People
    BY <1>1 DEF IInv, PersonKnown, Types, CallbackRecords
<1>3. None \notin People
    BY Constants
<1>4. CASE UNCHANGED <<live, cb>>
  <2>1. \A d \in Callbacks : Covers(d)
      BY <1>4 DEF Covers
  <2> QED BY <1>2, <1>4, <2>1, GrantsRest
<1>5. CASE Restart
  <2>1. \A d \in Callbacks : /\ cb'[d].person = cb[d].person
                             /\ cb[d].step \in Waiting => cb'[d].step = "failed"
                             /\ cb[d].step \notin Waiting => cb'[d].step = cb[d].step
      BY <1>1, <1>5, Restarted
  <2>2. \A d \in Callbacks : Covers(d)
      BY <2>1 DEF Covers
  <2>3. live' = live
      BY <1>5 DEF Restart
  <2> QED BY <1>2, <2>1, <2>2, <2>3, GrantsRest
<1>6. ASSUME NEW c \in Callbacks, NEW f \in Flows, NEW approved \in BOOLEAN, Callback(c, f, approved)
      PROVE  NoGrantLeftBehind'
  <2>1. (\A d \in Callbacks \ {c} : cb'[d] = cb[d]) /\ cb'[c].person = cb[c].person
      BY <1>1, <1>6, CalledBack
  <2>2. cb[c].step = "new" /\ live' = live
      BY <1>6 DEF Callback
  <2>3. \A d \in Callbacks : Covers(d)
      BY <2>1, <2>2 DEF Covers, Waiting
  <2> QED BY <1>2, <2>1, <2>2, <2>3, GrantsRest
<1>7. ASSUME NEW c \in Callbacks, NEW m \in People, ExchangeFails(c, m)
      PROVE  NoGrantLeftBehind'
  <2>1. /\ \A d \in Callbacks \ {c} : cb'[d] = cb[d]
        /\ cb'[c].step = "failed"
        /\ (cb'[c].person = cb[c].person /\ live' = live) \/ (cb'[c].person = m /\ live' = live \cup {c})
      BY <1>1, <1>7, Failed
  <2>2. cb[c].person = None
      BY <1>7 DEF ExchangeFails, IInv, PersonKnown
  <2>3. \A d \in Callbacks : Covers(d)
      BY <1>3, <2>1, <2>2 DEF Covers
  <2>4. cb'[c].person = m => Covered(m)'
      BY <2>1 DEF Covered
  <2> QED BY <1>2, <2>1, <2>2, <2>3, <2>4, GrantsRest
<1>8. ASSUME NEW c \in Callbacks, NEW m \in People, NEW allowed \in BOOLEAN, NEW offline \in BOOLEAN,
             ExchangeCode(c, m, allowed, offline)
      PROVE  NoGrantLeftBehind'
  <2>1. /\ \A d \in Callbacks \ {c} : cb'[d] = cb[d]
        /\ cb'[c].person = m
        /\ cb'[c].step \in {"saving", "givingBack", "failed"} \/ (cb'[c].step = "refused" /\ users[m] # None)
      BY <1>1, <1>8, Exchanged
  <2>2. cb[c].person = None
      BY <1>8 DEF ExchangeCode, IInv, PersonKnown
  <2>3. \A d \in Callbacks : Covers(d)
      BY <1>3, <2>1, <2>2 DEF Covers
  <2>4. live' = live \cup {c} /\ file' = file
      BY <1>8 DEF ExchangeCode
  <2>5. Covered(m)'
    <3>1. CASE cb'[c].step \in {"saving", "givingBack", "failed"}
        BY <2>1, <3>1 DEF Covered, Waiting
    <3>2. CASE users[m] # None /\ file[m] = None
      <4>1. \E d \in Callbacks : cb[d].person = m /\ cb[d].step \in {"saving", "failed"}
          BY <3>2 DEF IInv, MembersFollowFile, Members, GrantsOf
      <4>2. \E d \in Callbacks \ {c} : cb[d].person = m /\ cb[d].step \in {"saving", "failed"}
          BY <1>3, <2>2, <4>1
      <4> QED BY <2>1, <4>2 DEF Covered, Waiting
    <3>3. CASE file[m] # None
        BY <2>4, <3>3 DEF Covered
    <3> QED BY <2>1, <3>1, <3>2, <3>3
  <2> QED BY <1>2, <2>1, <2>3, <2>4, <2>5, GrantsRest
<1>9. ASSUME NEW c \in Callbacks, RevokeGrant(c)
      PROVE  NoGrantLeftBehind'
  <2>1. cb[c].step = "givingBack" /\ (Proceed(c, "refused") \/ Proceed(c, "failed"))
      BY <1>9 DEF RevokeGrant
  <2>2. \A d \in Callbacks : cb'[d].person = cb[d].person /\ (d # c => cb'[d].step = cb[d].step)
      BY <1>1, <2>1, Proceeds
  <2>3. CASE Proceed(c, "failed") /\ live' = live
    <3>1. \A d \in Callbacks : Covers(d)
        BY <1>1, <2>2, <2>3, Proceeds DEF Covers
    <3> QED BY <1>2, <2>2, <2>3, <3>1, GrantsRest
  <2>4. CASE live' = live \ GrantsOf(cb[c].person)
    <3>1. \A m \in People : m # cb[c].person /\ Covered(m) => Covered(m)'
      <4> SUFFICES ASSUME NEW m \in People, m # cb[c].person, Covered(m)
                   PROVE  Covered(m)'
          OBVIOUS
      <4>1. CASE file[m] # None
        <5>1. file'[m] # None
            BY <4>1, FileGrows
        <5> QED BY <5>1 DEF Covered
      <4>2. CASE \E d \in Callbacks : cb[d].person = m /\ cb[d].step \in Waiting \cup {"failed"}
          BY <2>2, <4>2 DEF Covered
      <4> QED BY <4>1, <4>2 DEF Covered
    <3>2. ASSUME NEW d \in live'
          PROVE  \/ file'[cb'[d].person] # None
                 \/ \E e \in Callbacks : cb'[e].person = cb'[d].person /\ cb'[e].step \in Waiting \cup {"failed"}
      <4>1. d \in live /\ cb[d].person # cb[c].person
          BY <1>2, <2>4 DEF GrantsOf
      <4>2. PICK m \in People : cb[d].person = m
          BY <1>2, <4>1
      <4>3. Covered(m)
          BY <4>1, <4>2 DEF Covered, IInv, NoGrantLeftBehind, GrantsOf
      <4>4. Covered(m)' /\ cb'[d].person = m
          BY <1>2, <2>2, <3>1, <4>1, <4>2, <4>3
      <4> QED BY <4>4 DEF Covered
    <3> QED BY <3>2 DEF NoGrantLeftBehind, GrantsOf
  <2> QED BY <1>9, <2>3, <2>4 DEF RevokeGrant
<1>10. ASSUME NEW c \in Callbacks, WriteFails(c) \/ IssueCode(c) \/ (UpsertUser(c) /\ cb' # cb)
       PROVE  NoGrantLeftBehind'
  <2>1. \/ Proceed(c, "failed") \/ Proceed(c, "givingBack")
        \/ Proceed(c, "code") /\ file' = users /\ writing = c
      BY <1>10 DEF WriteFails, IssueCode, UpsertUser, Refuse
  <2>2. \A d \in Callbacks : cb'[d].person = cb[d].person /\ (d # c => cb'[d].step = cb[d].step)
      BY <1>1, <2>1, Proceeds
  <2>3. Covers(c)
      BY <1>1, <2>1, <2>2, Written, Proceeds DEF Covers, Waiting
  <2>4. \A d \in Callbacks : Covers(d)
      BY <2>2, <2>3 DEF Covers
  <2>5. live' = live
      BY <1>10 DEF WriteFails, IssueCode, UpsertUser
  <2> QED BY <1>2, <2>2, <2>4, <2>5, GrantsRest
<1>11. ASSUME NEW c \in Callbacks, UpsertUser(c)
       PROVE  NoGrantLeftBehind'
  <2>1. live' = live
      BY <1>11 DEF UpsertUser
  <2> QED BY <1>4, <1>10, <1>11, <2>1
<1> QED BY <1>4, <1>5, <1>6, <1>7, <1>8, <1>9, <1>10, <1>11, Aside DEF Next, Answer


----------------------------------------------------------------------------
(* What a callback knows *)

\* d keeps its flow and its client, and neither begins nor is refused early.
Steady(d) ==
    /\ cb'[d].flow = cb[d].flow /\ cb'[d].client = cb[d].client
    /\ cb[d].step \in {"new", "refused"} => cb'[d].step = cb[d].step
    /\ cb'[d].step = "new" => cb[d].step = "new"

\* A flow that is under way has no pending sign-in but the one it had.
NoneAgain(f) ==
    flow[f] # "unused" => flow'[f] # "unused" /\ pending'[f] \in {pending[f], None}

LEMMA FlowsPass ==
    ASSUME IInv, [Next]_vars, NEW g \in Flows
    PROVE  NoneAgain(g)
<1>1. Types
    BY Typed DEF IInv
<1>2. CASE UNCHANGED <<flow, pending>>
    BY <1>2 DEF NoneAgain
<1>3. CASE Sweep
    BY <1>1, <1>3, Swept DEF Sweep, NoneAgain, Types
<1>4. CASE Restart
    BY <1>4 DEF Restart, NoneAgain
<1>5. ASSUME NEW f \in Flows, NEW k \in Clients, Authorize(f, k)
      PROVE  NoneAgain(g)
  <2>1. CASE g = f
      BY <1>5, <2>1 DEF Authorize, NoneAgain
  <2>2. CASE g # f
      BY <1>1, <1>5, <2>2, Authorized DEF NoneAgain
  <2> QED BY <2>1, <2>2
<1>6. ASSUME NEW c \in Callbacks, NEW f \in Flows, NEW approved \in BOOLEAN, Callback(c, f, approved)
      PROVE  NoneAgain(g)
    BY <1>1, <1>6 DEF Callback, ConsumePending, NoneAgain, Types
<1>7. ASSUME NEW c \in Callbacks, Answer(c) \/ WriteFails(c)
      PROVE  UNCHANGED <<pending, flow>>
    BY <1>7, Answering
<1> QED BY <1>2, <1>3, <1>4, <1>5, <1>6, <1>7, Aside DEF Next

\* Every step is steady but the browser's return.
LEMMA CallbacksSteady ==
    ASSUME IInv, [Next]_vars, NEW d \in Callbacks
    PROVE  \/ Steady(d)
           \/ \E f \in Flows, approved \in BOOLEAN : Callback(d, f, approved)
<1>1. Types
    BY Typed DEF IInv
<1>2. CASE UNCHANGED cb
    BY <1>2 DEF Steady
<1>3. CASE Restart
    BY <1>1, <1>3, Restarted DEF Steady, Waiting
<1>4. ASSUME NEW c \in Callbacks, NEW f \in Flows, NEW approved \in BOOLEAN, Callback(c, f, approved)
      PROVE  \/ Steady(d)
             \/ \E g \in Flows, good \in BOOLEAN : Callback(d, g, good)
    BY <1>1, <1>4, CalledBack DEF Steady
<1>5. ASSUME NEW c \in Callbacks, NEW m \in People, ExchangeFails(c, m)
      PROVE  Steady(d)
    BY <1>1, <1>5, Failed DEF Steady, ExchangeFails
<1>6. ASSUME NEW c \in Callbacks, NEW m \in People, NEW allowed \in BOOLEAN, NEW offline \in BOOLEAN,
             ExchangeCode(c, m, allowed, offline)
      PROVE  Steady(d)
  <2>1. cb[c].step = "exchanging"
      BY <1>6 DEF ExchangeCode
  <2> QED BY <1>1, <1>6, <2>1, Exchanged DEF Steady
<1>7. ASSUME NEW c \in Callbacks, RevokeGrant(c) \/ UpsertUser(c) \/ IssueCode(c) \/ WriteFails(c)
      PROVE  Steady(d)
  <2>1. cb[c].step \in {"givingBack", "saving"}
      BY <1>7, Served, Written DEF RevokeGrant, IssueCode, WriteFails
  <2>2. \/ cb' = cb
        \/ \E s \in {"refused", "failed", "givingBack", "code"} : Proceed(c, s)
      BY <1>7 DEF RevokeGrant, UpsertUser, IssueCode, WriteFails, Refuse
  <2> QED BY <1>1, <1>2, <2>1, <2>2, Proceeds DEF Steady
<1> QED BY <1>2, <1>3, <1>4, <1>5, <1>6, <1>7, Aside DEF Next, Answer

\* Only the browser's return takes a flow, and then a pending one.
LEMMA FlowsTaken ==
    ASSUME IInv, [Next]_vars, NEW d \in Callbacks
    PROVE  \/ cb'[d].flow = cb[d].flow
           \/ cb'[d].flow = 0
           \/ /\ cb'[d].flow \in Flows /\ pending[cb'[d].flow] # None /\ pending'[cb'[d].flow] = None
              /\ flow'[cb'[d].flow] = flow[cb'[d].flow]
              /\ cb'[d].client = pending[cb'[d].flow].client /\ cb'[d].step = "exchanging"
              /\ cb[d].step = "new" /\ \A e \in Callbacks \ {d} : cb'[e] = cb[e]
<1>1. CASE Steady(d)
    BY <1>1 DEF Steady
<1>2. ASSUME NEW f \in Flows, NEW approved \in BOOLEAN, Callback(d, f, approved)
      PROVE  \/ cb'[d].flow = 0
             \/ /\ cb'[d].flow \in Flows /\ pending[cb'[d].flow] # None /\ pending'[cb'[d].flow] = None
                /\ flow'[cb'[d].flow] = flow[cb'[d].flow]
                /\ cb'[d].client = pending[cb'[d].flow].client /\ cb'[d].step = "exchanging"
                /\ cb[d].step = "new" /\ \A e \in Callbacks \ {d} : cb'[e] = cb[e]
  <2>1. pending[f] # None /\ pending'[f] = None /\ flow' = flow /\ cb[d].step = "new"
      BY <1>2, Typed DEF IInv, Types, Callback, ConsumePending
  <2> QED BY <1>2, <2>1, CalledBack, Typed DEF IInv
<1> QED BY <1>1, <1>2, CallbacksSteady

LEMMA FlowKnownKept ==
    ASSUME IInv, [Next]_vars, NEW c \in Callbacks
    PROVE  FlowKnown(c)'
<1>1. Types /\ FlowKnown(c)
    BY Typed DEF IInv
<1>2. 0 \notin Flows /\ \A d \in Callbacks : cb[d].flow \in Flows \cup {0}
    BY <1>1 DEF Types, CallbackRecords, Flows
<1>3. CASE Steady(c)
  <2> SUFFICES ASSUME cb[c].flow # 0
               PROVE  /\ pending'[cb[c].flow] = None /\ flow'[cb[c].flow] # "unused"
                      /\ \A d \in Callbacks : cb'[d].flow = cb[c].flow => d = c
      BY <1>1, <1>3 DEF Steady, FlowKnown
  <2>1. cb[c].flow \in Flows /\ pending[cb[c].flow] = None /\ flow[cb[c].flow] # "unused"
      BY <1>1, <1>2 DEF FlowKnown
  <2>2. pending'[cb[c].flow] = None /\ flow'[cb[c].flow] # "unused"
      BY <2>1, FlowsPass DEF NoneAgain
  <2>3. ASSUME NEW d \in Callbacks, cb'[d].flow = cb[c].flow
        PROVE  cb[d].flow = cb[c].flow
      BY <1>2, <2>1, <2>3, FlowsTaken
  <2> QED BY <1>1, <2>2, <2>3 DEF FlowKnown
<1>4. ASSUME NEW f \in Flows, NEW approved \in BOOLEAN, Callback(c, f, approved)
      PROVE  FlowKnown(c)'
  <2>1. pending[f] # None /\ pending'[f] = None /\ flow' = flow /\ flow[f] # "unused"
      BY <1>1, <1>4 DEF IInv, Types, Callback, ConsumePending
  <2>2. \A d \in Callbacks \ {c} : cb'[d].flow # f
      BY <1>1, <1>2, <1>4, <2>1, CalledBack DEF IInv, FlowKnown
  <2> QED BY <1>1, <1>2, <1>4, <2>1, <2>2, CalledBack, Constants DEF FlowKnown
<1> QED BY <1>3, <1>4, CallbacksSteady

LEMMA PersonKnownKept ==
    ASSUME IInv, [Next]_vars, NEW d \in Callbacks
    PROVE  PersonKnown(d)'
<1>1. Types /\ PersonKnown(d) /\ None \notin People
    BY Typed, Constants DEF IInv
<1>2. CASE UNCHANGED <<cb, live>>
    BY <1>1, <1>2 DEF PersonKnown
<1>3. CASE Restart
  <2>1. live' = live
      BY <1>3 DEF Restart
  <2> QED BY <1>1, <1>3, <2>1, Restarted DEF PersonKnown, Waiting
<1>4. ASSUME NEW c \in Callbacks, NEW f \in Flows, NEW approved \in BOOLEAN, Callback(c, f, approved)
      PROVE  PersonKnown(d)'
  <2>1. live' = live /\ cb[c].step = "new"
      BY <1>4 DEF Callback
  <2> QED BY <1>1, <1>4, <2>1, CalledBack DEF PersonKnown
<1>5. ASSUME NEW c \in Callbacks, NEW m \in People, ExchangeFails(c, m)
      PROVE  PersonKnown(d)'
  <2>1. cb[c].step = "exchanging"
      BY <1>5 DEF ExchangeFails
  <2>2. CASE d # c
      BY <1>1, <1>5, <2>2, Failed DEF PersonKnown
  <2>3. CASE d = c
      BY <1>1, <1>5, <2>1, <2>3, Failed DEF PersonKnown
  <2> QED BY <2>2, <2>3
<1>6. ASSUME NEW c \in Callbacks, NEW m \in People, NEW allowed \in BOOLEAN, NEW offline \in BOOLEAN,
             ExchangeCode(c, m, allowed, offline)
      PROVE  PersonKnown(d)'
  <2>1. live' = live \cup {c}
      BY <1>6 DEF ExchangeCode
  <2>2. CASE d # c
      BY <1>1, <1>6, <2>1, <2>2, Exchanged DEF PersonKnown
  <2>3. CASE d = c
      BY <1>1, <1>6, <2>3, Exchanged DEF PersonKnown
  <2> QED BY <2>2, <2>3
<1>7. ASSUME NEW c \in Callbacks, RevokeGrant(c) \/ UpsertUser(c) \/ IssueCode(c) \/ WriteFails(c)
      PROVE  PersonKnown(d)'
  <2>1. cb[c].step \in {"givingBack", "saving"} /\ \A e \in live' : e \in live
      BY <1>7, Served, Written DEF RevokeGrant, UpsertUser, IssueCode, WriteFails
  <2>2. \/ cb' = cb
        \/ \E s \in {"refused", "failed", "givingBack", "code"} : Proceed(c, s)
      BY <1>7 DEF RevokeGrant, UpsertUser, IssueCode, WriteFails, Refuse
  <2>3. CASE cb' = cb
      BY <1>1, <2>1, <2>3 DEF PersonKnown
  <2>4. ASSUME NEW s \in {"refused", "failed", "givingBack", "code"}, Proceed(c, s)
        PROVE  PersonKnown(d)'
    <3>1. cb'[d].person = cb[d].person /\ cb'[d].token = cb[d].token /\ (d = c => cb'[d].step = s)
          /\ (d # c => cb'[d].step = cb[d].step)
        BY <1>1, <2>4, Proceeds
    <3> QED BY <1>1, <2>1, <3>1 DEF PersonKnown
  <2> QED BY <2>2, <2>3, <2>4
<1> QED BY <1>2, <1>3, <1>4, <1>5, <1>6, <1>7, Aside DEF Next, Answer

----------------------------------------------------------------------------
(* What is known of a code *)

\* A callback that is answered stays as it is.
LEMMA EndsStay ==
    ASSUME IInv, [Next]_vars, NEW d \in Callbacks, cb[d].step \in {"code", "refused", "failed"}
    PROVE  cb'[d].step = cb[d].step /\ cb'[d].person = cb[d].person /\ cb'[d].client = cb[d].client
<1>1. Types
    BY Typed DEF IInv
<1>2. CASE UNCHANGED cb
    BY <1>2
<1>3. CASE Restart
    BY <1>1, <1>3, Restarted DEF Waiting
<1>4. ASSUME NEW c \in Callbacks, NEW f \in Flows, NEW approved \in BOOLEAN, Callback(c, f, approved)
      PROVE  cb'[d] = cb[d]
    BY <1>1, <1>4, CalledBack DEF Callback
<1>5. ASSUME NEW c \in Callbacks, NEW m \in People, ExchangeFails(c, m)
      PROVE  cb'[d] = cb[d]
    BY <1>1, <1>5, Failed DEF ExchangeFails
<1>6. ASSUME NEW c \in Callbacks, NEW m \in People, NEW allowed \in BOOLEAN, NEW offline \in BOOLEAN,
             ExchangeCode(c, m, allowed, offline)
      PROVE  cb'[d] = cb[d]
  <2>1. cb[c].step = "exchanging"
      BY <1>6 DEF ExchangeCode
  <2>2. \A e \in Callbacks \ {c} : cb'[e] = cb[e]
      BY <1>1, <1>6, Exchanged
  <2> QED BY <2>1, <2>2
<1>7. ASSUME NEW c \in Callbacks, RevokeGrant(c) \/ UpsertUser(c) \/ IssueCode(c) \/ WriteFails(c)
      PROVE  cb'[d].step = cb[d].step /\ cb'[d].person = cb[d].person /\ cb'[d].client = cb[d].client
  <2>1. cb[c].step \in {"givingBack", "saving"}
      BY <1>7, Served, Written DEF RevokeGrant, IssueCode, WriteFails
  <2>2. \/ cb' = cb
        \/ \E s \in {"refused", "failed", "givingBack", "code"} : Proceed(c, s)
      BY <1>7 DEF RevokeGrant, UpsertUser, IssueCode, WriteFails, Refuse
  <2> QED BY <1>1, <2>1, <2>2, Proceeds
<1> QED BY <1>2, <1>3, <1>4, <1>5, <1>6, <1>7, Aside DEF Next, Answer

LEMMA UsesFinite ==
    ASSUME NEW c
    PROVE  IsFiniteSet(Uses(c)) /\ Cardinality(Uses(c)) \in Nat
<1>1. IsFiniteSet(Requests)
    BY Constants, FS_Interval DEF Requests
<1>2. Uses(c) \in SUBSET Requests
    BY DEF Uses
<1> QED BY <1>1, <1>2, FS_Subset, FS_CardinalityType

\* No request begins or ends to have c, and none is granted for it.
SameUses(c) ==
    \A t \in Requests :
        /\ req'[t].code = c <=> req[t].code = c
        /\ req[t].code = c => req'[t].client = req[t].client /\ req'[t].step \in {req[t].step, "over"}

LEMMA CodeRests ==
    ASSUME IInv, [Next]_vars, NEW c \in Callbacks, codes'[c] \in {codes[c], None}, SameUses(c)
    PROVE  CodeKnows(c)'
<1>1. Types /\ CodeKnows(c)
    BY Typed DEF IInv
<1>2. Uses(c)' = Uses(c)
    BY DEF Uses, SameUses
<1>3. ASSUME cb[c].step = "code"
      PROVE  cb'[c].step = "code" /\ cb'[c].person = cb[c].person /\ cb'[c].client = cb[c].client
    BY <1>3, EndsStay
<1>4. ASSUME codes'[c] # None
      PROVE  /\ cb'[c].step = "code" /\ codes'[c].client = cb'[c].client
             /\ codes'[c].lookups = Cardinality(Uses(c)')
             /\ \A t \in Uses(c)' : req'[t].step # "granted"
             /\ file'[cb'[c].person] # None
  <2>1. codes'[c] = codes[c] /\ codes[c] # None /\ cb[c].step = "code"
      BY <1>1, <1>4 DEF CodeKnows
  <2>2. cb[c].person \in People
      BY <1>1, <2>1 DEF IInv, PersonKnown, Types, CallbackRecords
  <2>3. file'[cb'[c].person] # None
      BY <1>1, <1>3, <2>1, <2>2, FileGrows DEF CodeKnows
  <2>4. \A t \in Uses(c)' : req'[t].step # "granted"
      BY <1>1, <1>2, <2>1 DEF CodeKnows, Uses, SameUses
  <2> QED BY <1>1, <1>2, <1>3, <2>1, <2>3, <2>4 DEF CodeKnows
<1>5. \A t \in Uses(c)' :
         /\ cb'[c].step = "code"
         /\ req'[t].step \in {"verified", "granted"} => req'[t].client = cb'[c].client
    BY <1>1, <1>2, <1>3 DEF CodeKnows, Uses, SameUses
<1>6. \A t, u \in Uses(c)' : req'[t].step = "granted" /\ req'[u].step = "granted" => t = u
    BY <1>1, <1>2 DEF CodeKnows, Uses, SameUses
<1>7. Cardinality(Uses(c)') <= MaxLookups
    BY <1>1, <1>2 DEF CodeKnows
<1> QED BY <1>4, <1>5, <1>6, <1>7 DEF CodeKnows

LEMMA CodeIssued ==
    ASSUME IInv, [Next]_vars, NEW c \in Callbacks, IssueCode(c)
    PROVE  CodeKnows(c)'
<1>1. Types /\ CodeKnows(c)
    BY Typed DEF IInv
<1>2. cb[c].step = "saving" /\ cb[c].person \in People /\ users[cb[c].person] # None
    BY Written DEF IssueCode
<1>3. Uses(c) = {}
    BY <1>1, <1>2 DEF CodeKnows
<1>4. Uses(c)' = {}
    BY <1>3 DEF IssueCode, Uses
<1>5. Proceed(c, "code") /\ file' = users
    BY DEF IssueCode
<1>6. cb'[c].step = "code" /\ cb'[c].client = cb[c].client /\ cb'[c].person = cb[c].person
    BY <1>1, <1>5, Proceeds
<1>7. codes'[c].client = cb[c].client /\ codes'[c].lookups = 0
    BY <1>1, Issued
<1>8. Cardinality(Uses(c)') = 0
    BY <1>4, FS_EmptySet
<1> QED BY <1>2, <1>4, <1>5, <1>6, <1>7, <1>8, Constants DEF CodeKnows

\* A request that finds the code is one more use of it.
LEMMA CodeLookedUp ==
    ASSUME IInv, [Next]_vars, NEW t \in Requests, NEW c \in Callbacks, NEW k \in Clients,
           NEW verifies \in BOOLEAN, LookUpCode(t, c, k, verifies)
    PROVE  CodeKnows(c)'
<1>1. Types /\ CodeKnows(c) /\ None \notin Callbacks
    BY Typed, Constants DEF IInv
<1>2. req[t].code = None /\ codes[c] # None /\ cb' = cb /\ file' = file
    BY DEF LookUpCode, IInv, RequestKnows
<1>3. \A u \in Requests \ {t} : req'[u] = req[u]
    BY <1>1, LookedUp
<1>4. CASE codes'[c] = None /\ req'[t].code = None /\ req'[t].step = "over"
  <2>1. SameUses(c)
      BY <1>1, <1>2, <1>3, <1>4 DEF SameUses
  <2> QED BY <1>4, <2>1, CodeRests
<1>5. CASE /\ codes'[c].client = codes[c].client /\ codes'[c].lookups = codes[c].lookups + 1
           /\ codes'[c].lookups <= MaxLookups /\ req'[t].code = c
           /\ req'[t].step = "verified" => req'[t].client = codes[c].client
  <2>1. t \notin Uses(c) /\ Uses(c)' = Uses(c) \cup {t}
      BY <1>1, <1>2, <1>3, <1>5 DEF Uses
  <2>2. Cardinality(Uses(c) \cup {t}) = Cardinality(Uses(c)) + 1
      BY <2>1, UsesFinite, FS_AddElement
  <2>3. req'[t].step # "granted"
      BY <1>1, LookedUp
  <2>4. cb[c].step = "code" /\ codes[c].client = cb[c].client /\ codes[c].lookups = Cardinality(Uses(c))
        /\ (\A u \in Uses(c) : req[u].step # "granted") /\ file[cb[c].person] # None
      BY <1>1, <1>2 DEF CodeKnows
  <2>5. codes'[c].lookups = Cardinality(Uses(c)') /\ Cardinality(Uses(c)') <= MaxLookups
      BY <1>5, <2>1, <2>2, <2>4
  <2>6. \A u \in Uses(c)' : req'[u].step # "granted"
      BY <1>3, <2>1, <2>3, <2>4 DEF Uses
  <2>7. \A u \in Uses(c)' : req'[u].step \in {"verified", "granted"} => req'[u].client = cb'[c].client
      BY <1>1, <1>2, <1>3, <1>5, <2>1, <2>3, <2>4 DEF Uses, CodeKnows
  <2> QED BY <1>2, <1>5, <2>4, <2>5, <2>6, <2>7 DEF CodeKnows
<1> QED BY <1>1, <1>4, <1>5, LookedUp

LEMMA CodeRedeemed ==
    ASSUME IInv, [Next]_vars, NEW t \in Requests, NEW matches \in BOOLEAN,
           ExchangeCodeForTokens(t, matches), NEW c \in Callbacks, req[t].code = c
    PROVE  CodeKnows(c)'
<1>1. Types
    BY Typed DEF IInv
<1>2. req[t].code # None
    BY DEF ExchangeCodeForTokens, IInv, RequestKnows
<1>3. req[t].code = c
    OBVIOUS
<1>4. /\ codes'[c] = None /\ (\A u \in Requests \ {t} : req'[u] = req[u])
      /\ req'[t].client = req[t].client /\ req'[t].code = c /\ req[t].step = "verified"
      /\ req'[t].step = "over" \/ (req'[t].step = "granted" /\ codes[c] # None)
    BY <1>1, <1>2, <1>3, Redeemed
<1>5. CodeKnows(c) /\ t \in Uses(c)
    BY <1>3 DEF IInv, Uses
<1>6. CASE req'[t].step = "over"
  <2>1. SameUses(c)
      BY <1>3, <1>4, <1>6 DEF SameUses
  <2> QED BY <1>4, <2>1, CodeRests
<1>7. CASE req'[t].step = "granted" /\ codes[c] # None
  <2>1. Uses(c)' = Uses(c)
      BY <1>3, <1>4 DEF Uses
  <2>2. \A u \in Uses(c) : req[u].step # "granted"
      BY <1>5, <1>7 DEF CodeKnows
  <2>3. cb' = cb
      BY DEF ExchangeCodeForTokens
  <2>4. \A u \in Uses(c)' : /\ cb'[c].step = "code"
                            /\ req'[u].step \in {"verified", "granted"} => req'[u].client = cb'[c].client
      BY <1>4, <1>5, <2>1, <2>3 DEF CodeKnows, Uses
  <2>5. \A u, v \in Uses(c)' : req'[u].step = "granted" /\ req'[v].step = "granted" => u = v
      BY <1>4, <2>1, <2>2 DEF Uses
  <2> QED BY <1>4, <1>5, <2>1, <2>4, <2>5 DEF CodeKnows
<1> QED BY <1>4, <1>6, <1>7

LEMMA CodeKnowsKept ==
    ASSUME IInv, [Next]_vars, NEW d \in Callbacks
    PROVE  CodeKnows(d)'
<1>1. Types
    BY Typed DEF IInv
<1>2. CASE UNCHANGED <<codes, req>>
  <2>1. SameUses(d)
      BY <1>2 DEF SameUses
  <2> QED BY <1>2, <2>1, CodeRests
<1>3. CASE Sweep
  <2>1. SameUses(d)
      BY <1>3 DEF Sweep, SameUses
  <2>2. codes'[d] \in {codes[d], None}
      BY <1>1, <1>3, Swept DEF Sweep, Types
  <2> QED BY <2>1, <2>2, CodeRests
<1>4. CASE Restart
  <2>1. SameUses(d)
      BY <1>1, <1>4, Restarted DEF SameUses
  <2>2. codes'[d] = None
      BY <1>4 DEF Restart
  <2> QED BY <2>1, <2>2, CodeRests
<1>5. ASSUME NEW f \in Flows, NEW k \in Clients, Authorize(f, k)
      PROVE  CodeKnows(d)'
  <2>1. SameUses(d)
      BY <1>5 DEF Authorize, SameUses
  <2>2. codes'[d] \in {codes[d], None}
      BY <1>1, <1>5, Authorized
  <2> QED BY <2>1, <2>2, CodeRests
<1>6. ASSUME NEW c \in Callbacks, IssueCode(c)
      PROVE  CodeKnows(d)'
  <2>1. CASE d = c
      BY <1>6, <2>1, CodeIssued
  <2>2. CASE d # c
    <3>1. SameUses(d)
        BY <1>6 DEF IssueCode, SameUses
    <3>2. codes'[d] = codes[d]
        BY <1>1, <1>6, <2>2, Issued
    <3> QED BY <3>1, <3>2, CodeRests
  <2> QED BY <2>1, <2>2
<1>7. ASSUME NEW t \in Requests, NEW c \in Callbacks, NEW k \in Clients, NEW verifies \in BOOLEAN,
             LookUpCode(t, c, k, verifies)
      PROVE  CodeKnows(d)'
  <2>1. CASE d = c
      BY <1>7, <2>1, CodeLookedUp
  <2>2. CASE d # c
    <3>1. req[t].code = None /\ None \notin Callbacks
        BY <1>7, Constants DEF LookUpCode, IInv, RequestKnows
    <3>2. req'[t].code \in {None, c} /\ (\A u \in Requests \ {t} : req'[u] = req[u]) /\ codes'[d] = codes[d]
        BY <1>1, <1>7, <2>2, LookedUp
    <3>3. SameUses(d)
        BY <2>2, <3>1, <3>2 DEF SameUses
    <3> QED BY <3>2, <3>3, CodeRests
  <2> QED BY <2>1, <2>2
<1>8. ASSUME NEW t \in Requests, NEW matches \in BOOLEAN, ExchangeCodeForTokens(t, matches)
      PROVE  CodeKnows(d)'
  <2>1. CASE d = req[t].code
      BY <1>8, <2>1, CodeRedeemed
  <2>2. CASE d # req[t].code
    <3>1. req[t].code # None
        BY <1>8 DEF ExchangeCodeForTokens, IInv, RequestKnows
    <3>2. req'[t].code = req[t].code /\ (\A u \in Requests \ {t} : req'[u] = req[u]) /\ codes'[d] = codes[d]
        BY <1>1, <1>8, <2>2, <3>1, Redeemed
    <3>3. SameUses(d)
        BY <2>2, <3>2 DEF SameUses
    <3> QED BY <3>2, <3>3, CodeRests
  <2> QED BY <2>1, <2>2
<1>9. ASSUME NEW c \in Callbacks, Answer(c) \/ WriteFails(c)
      PROVE  CodeKnows(d)'
    BY <1>2, <1>6, <1>9, Answering
<1> QED BY <1>2, <1>3, <1>4, <1>5, <1>7, <1>8, <1>9, Aside DEF Next

LEMMA RequestKnowsKept ==
    ASSUME IInv, [Next]_vars, NEW u \in Requests
    PROVE  RequestKnows(u)'
<1>1. Types /\ RequestKnows(u) /\ None \notin Callbacks
    BY Typed, Constants DEF IInv
<1>2. CASE UNCHANGED req
    BY <1>1, <1>2 DEF RequestKnows
<1>3. CASE Restart
    BY <1>1, <1>3, Restarted DEF RequestKnows
<1>4. ASSUME NEW t \in Requests, NEW c \in Callbacks, NEW k \in Clients, NEW verifies \in BOOLEAN,
             LookUpCode(t, c, k, verifies)
      PROVE  RequestKnows(u)'
    BY <1>1, <1>4, LookedUp DEF RequestKnows
<1>5. ASSUME NEW t \in Requests, NEW matches \in BOOLEAN, ExchangeCodeForTokens(t, matches)
      PROVE  RequestKnows(u)'
  <2>1. req[t].code # None
      BY <1>5 DEF ExchangeCodeForTokens, IInv, RequestKnows
  <2> QED BY <1>1, <1>5, <2>1, Redeemed DEF RequestKnows
<1>6. ASSUME NEW c \in Callbacks, Answer(c) \/ WriteFails(c)
      PROVE  req' = req
    BY <1>6, Answering
<1> QED BY <1>2, <1>3, <1>4, <1>5, <1>6, Aside DEF Next

\* A flow that nobody asked for has nothing pending.
LEMMA UnusedKept ==
    ASSUME IInv, [Next]_vars, NEW g \in Flows, flow'[g] = "unused"
    PROVE  flow[g] = "unused" /\ pending'[g] = None
<1>1. Types
    BY Typed DEF IInv
<1>2. flow[g] = "unused" /\ pending[g] = None
    BY FlowsPass DEF NoneAgain, IInv
<1>3. CASE UNCHANGED pending
    BY <1>2, <1>3
<1>4. CASE Sweep
    BY <1>1, <1>2, <1>4, Swept DEF Sweep, Types
<1>5. CASE Restart
    BY <1>2, <1>5 DEF Restart
<1>6. ASSUME NEW f \in Flows, NEW k \in Clients, Authorize(f, k)
      PROVE  pending'[g] = None
  <2>1. g # f
      BY <1>1, <1>6, Authorized
  <2> QED BY <1>1, <1>2, <1>6, <2>1, Authorized
<1>7. ASSUME NEW c \in Callbacks, NEW f \in Flows, NEW approved \in BOOLEAN, Callback(c, f, approved)
      PROVE  pending'[g] = None
    BY <1>1, <1>2, <1>7 DEF Callback, ConsumePending, Types
<1>8. ASSUME NEW c \in Callbacks, Answer(c) \/ WriteFails(c)
      PROVE  UNCHANGED pending
    BY <1>8, Answering
<1> QED BY <1>2, <1>3, <1>4, <1>5, <1>6, <1>7, <1>8, Aside DEF Next

----------------------------------------------------------------------------
(* The theorems *)

LEMMA InitInv == Init => IInv
<1> SUFFICES ASSUME Init
             PROVE  IInv
    OBVIOUS
<1>1. /\ flow = [f \in Flows |-> "unused"] /\ pending = [f \in Flows |-> None]
      /\ cb = [c \in Callbacks |-> NewCallback] /\ codes = [c \in Callbacks |-> None]
      /\ users = [m \in People |-> None] /\ file = users /\ writeQueue = <<>> /\ writing = None
      /\ live = {} /\ req = [t \in Requests |-> NewRequest] /\ now = 0 /\ faults = 0
    BY DEF Init
<1>2. TypeOK
  <2>1. NewCallback \in CallbackRecords /\ NewRequest \in RequestRecords
      BY DEF NewCallback, CallbackRecords, NewRequest, RequestRecords, Steps
  <2>2. 0 \in Times /\ 0 \in 0..MaxFaults
      BY Constants DEF Times
  <2>3. cb \in [Callbacks -> CallbackRecords] /\ req \in [Requests -> RequestRecords]
      BY <1>1, <2>1
  <2>4. users \in Records /\ file \in Records
      BY <1>1 DEF Records
  <2> QED BY <1>1, <2>2, <2>3, <2>4, Typed DEF Types
<1>3. Members(users) = {} /\ Members(file) = {}
    BY <1>1 DEF Members
<1>4. MembersCapped /\ MembersFollowFile
    BY <1>3, FS_EmptySet, Constants DEF MembersCapped, MembersFollowFile
<1>5. NoGrantLeftBehind /\ QueueSaves
    BY <1>1 DEF NoGrantLeftBehind, QueueSaves
<1>6. ASSUME NEW c \in Callbacks
      PROVE  PersonKnown(c) /\ FlowKnown(c) /\ CodeKnows(c)
  <2>1. cb[c].step = "new" /\ cb[c].flow = 0 /\ cb[c].person = None /\ codes[c] = None /\ c \notin live
      BY <1>1 DEF NewCallback
  <2>2. Uses(c) = {}
      BY <1>1, Constants DEF Uses, NewRequest
  <2>3. Cardinality(Uses(c)) <= MaxLookups
      BY <2>2, FS_EmptySet, Constants
  <2> QED BY <2>1, <2>2, <2>3 DEF PersonKnown, FlowKnown, CodeKnows
<1>7. \A t \in Requests : RequestKnows(t)
    BY <1>1 DEF RequestKnows, NewRequest
<1> QED BY <1>1, <1>2, <1>4, <1>5, <1>6, <1>7 DEF IInv

LEMMA NextInv == IInv /\ [Next]_vars => IInv'
<1> SUFFICES ASSUME IInv, [Next]_vars
             PROVE  IInv'
    OBVIOUS
<1>1. TypeOK' /\ MembersCapped' /\ NoGrantLeftBehind' /\ MembersFollowFile' /\ QueueSaves'
    BY TypesKept, MembersKept, GrantsKept, QueueKept
<1>2. \A f \in Flows : flow'[f] = "unused" => pending'[f] = None
    BY UnusedKept
<1>3. \A c \in Callbacks : PersonKnown(c)' /\ FlowKnown(c)' /\ CodeKnows(c)'
    BY PersonKnownKept, FlowKnownKept, CodeKnowsKept
<1>4. \A t \in Requests : RequestKnows(t)'
    BY RequestKnowsKept
<1> QED BY <1>1, <1>2, <1>3, <1>4 DEF IInv

\* The inductive invariant: what members, callbacks, codes and token requests
\* know of one another, however sign-ins overlap, fail or are cut short.
THEOREM Invariance == Spec => []IInv
BY InitInv, NextInv, PTL DEF Spec

\* Every variable keeps its type.
THEOREM TypeCorrect == Spec => []TypeOK
<1>1. IInv => TypeOK
    BY DEF IInv
<1> QED BY <1>1, Invariance, PTL

\* However many sign-ins wait for the write queue, and whatever writes fail,
\* there are never more members than the cap, in memory or on file.
THEOREM MembersAlwaysCapped == Spec => []MembersCapped
<1>1. IInv => MembersCapped
    BY DEF IInv
<1> QED BY <1>1, Invariance, PTL

\* No code answers more PKCE lookups than the limit, from any number of
\* requests, and none is issued before its member is on file.
THEOREM CodesAlwaysGuarded == Spec => []CodesAreGuarded
<1>1. IInv => CodesAreGuarded
    BY DEF IInv, CodeKnows, Uses, CodesAreGuarded
<1> QED BY <1>1, Invariance, PTL

\* A grant that Google still honours has a member on file, or a sign-in under
\* way, or one that went wrong.
THEOREM NoGrantEverLeftBehind == Spec => []NoGrantLeftBehind
<1>1. IInv => NoGrantLeftBehind
    BY DEF IInv
<1> QED BY <1>1, Invariance, PTL

----------------------------------------------------------------------------
(* A grant that stands is not given back *)

\* A callback gets its person once; one that starts to be saved carries its own
\* grant or the one on record; one that starts to be given back is refused
\* against somebody without a record.
LEMMA SignInMoves ==
    ASSUME IInv, [Next]_vars, NEW c \in Callbacks
    PROVE  /\ cb'[c].person = cb[c].person \/ cb[c].person = None
           /\ cb'[c].step = "saving" =>
                 \/ cb[c].step = "saving" /\ cb'[c].person = cb[c].person /\ cb'[c].token = cb[c].token
                 \/ cb'[c].token \in {c, users[cb'[c].person]} /\ cb'[c].token # None /\ c \in live'
           /\ cb'[c].step = "givingBack" =>
                 \/ cb[c].step = "givingBack" /\ cb'[c].person = cb[c].person
                 \/ users[cb'[c].person] = None
                 \/ file[cb'[c].person] = None
<1> DEFINE Goal == /\ cb'[c].person = cb[c].person \/ cb[c].person = None
                   /\ cb'[c].step = "saving" =>
                         \/ cb[c].step = "saving" /\ cb'[c].person = cb[c].person /\ cb'[c].token = cb[c].token
                         \/ cb'[c].token \in {c, users[cb'[c].person]} /\ cb'[c].token # None /\ c \in live'
                   /\ cb'[c].step = "givingBack" =>
                         \/ cb[c].step = "givingBack" /\ cb'[c].person = cb[c].person
                         \/ users[cb'[c].person] = None
                         \/ file[cb'[c].person] = None
<1>1. Types
    BY Typed DEF IInv
<1>2. CASE cb'[c] = cb[c]
    BY <1>2
<1>3. CASE Restart
  <2>1. cb'[c].person = cb[c].person /\ cb'[c].step \notin Waiting
      BY <1>1, <1>3, Restarted DEF Waiting
  <2> QED BY <2>1 DEF Waiting
<1>4. ASSUME NEW d \in Callbacks, NEW f \in Flows, NEW approved \in BOOLEAN, Callback(d, f, approved)
      PROVE  Goal
  <2>1. CASE d = c
    <3>1. cb'[c].person = cb[c].person /\ cb'[c].step \in {"refused", "exchanging"}
        BY <1>1, <1>4, <2>1, CalledBack
    <3> QED BY <3>1
  <2>2. CASE d # c
      BY <1>1, <1>2, <1>4, <2>2, CalledBack
  <2> QED BY <2>1, <2>2
<1>5. ASSUME NEW d \in Callbacks, NEW m \in People, ExchangeFails(d, m)
      PROVE  Goal
  <2>1. CASE d = c
    <3>1. cb[c].person = None
        BY <1>5, <2>1 DEF ExchangeFails, IInv, PersonKnown
    <3>2. cb'[c].step = "failed"
        BY <1>1, <1>5, <2>1, Failed
    <3> QED BY <3>1, <3>2
  <2>2. CASE d # c
      BY <1>1, <1>2, <1>5, <2>2, Failed
  <2> QED BY <2>1, <2>2
<1>6. ASSUME NEW d \in Callbacks, NEW m \in People, NEW allowed \in BOOLEAN, NEW offline \in BOOLEAN,
             ExchangeCode(d, m, allowed, offline)
      PROVE  Goal
  <2>1. CASE d = c
    <3>1. cb[c].person = None /\ live' = live \cup {c}
        BY <1>6, <2>1 DEF ExchangeCode, IInv, PersonKnown
    <3>2. /\ cb'[c].person = m
          /\ \/ cb'[c].step = "saving" /\ cb'[c].token # None /\ cb'[c].token \in {c, users[m]}
             \/ cb'[c].step = "givingBack" /\ users[m] = None
             \/ cb'[c].step \in {"refused", "failed"}
        BY <1>1, <1>6, <2>1, Exchanged
    <3> QED BY <3>1, <3>2
  <2>2. CASE d # c
      BY <1>1, <1>2, <1>6, <2>2, Exchanged
  <2> QED BY <2>1, <2>2
<1>7. ASSUME NEW d \in Callbacks, RevokeGrant(d) \/ IssueCode(d) \/ WriteFails(d)
      PROVE  Goal
  <2>1. PICK s \in {"refused", "failed", "code"} : Proceed(d, s)
      BY <1>7 DEF RevokeGrant, IssueCode, WriteFails
  <2> QED BY <1>1, <2>1, Proceeds
<1>8. ASSUME NEW d \in Callbacks, UpsertUser(d)
      PROVE  Goal
  <2>1. cb' = cb \/ (Proceed(d, "givingBack") /\ file[cb[d].person] = None)
      BY <1>8 DEF UpsertUser, Refuse, HasRoom
  <2> QED BY <1>1, <1>2, <2>1, Proceeds
<1> QED BY <1>2, <1>3, <1>4, <1>5, <1>6, <1>7, <1>8, Aside DEF Next, Answer

\* A record is the one of the file or of the maps, or what a sign-in that is
\* being saved brings.
LEMMA RecordMoves ==
    ASSUME IInv, [Next]_vars, NEW m \in People
    PROVE  /\ file'[m] \in {file[m], users[m]}
           /\ \/ users'[m] \in {file[m], users[m]}
              \/ \E d \in Callbacks :
                    /\ cb[d].step = "saving" /\ cb[d].person = m
                    /\ users'[m] = cb[d].token /\ users'[m] \in Callbacks
<1>1. Types
    BY Typed DEF IInv
<1>2. file' \in {file, users}
  <2>1. ASSUME NEW c \in Callbacks, Answer(c) \/ WriteFails(c)
        PROVE  file' \in {file, users}
      BY <2>1, Answering
  <2> QED BY <2>1, Aside DEF Next, Restart
<1>3. CASE users' \in {file, users}
    BY <1>2, <1>3
<1>4. ASSUME NEW d \in Callbacks, UpsertUser(d), users' = [file EXCEPT ![cb[d].person] = cb[d].token]
      PROVE  \/ users'[m] \in {file[m], users[m]}
             \/ /\ cb[d].step = "saving" /\ cb[d].person = m
                /\ users'[m] = cb[d].token /\ users'[m] \in Callbacks
  <2>1. cb[d].step = "saving" /\ cb[d].token \in Callbacks
      BY <1>4, Served
  <2>2. users'[m] = IF m = cb[d].person THEN cb[d].token ELSE file[m]
      BY <1>1, <1>4 DEF Types, Records
  <2> QED BY <2>1, <2>2
<1>5. \A d \in Callbacks : UpsertUser(d) =>
          users' = [file EXCEPT ![cb[d].person] = cb[d].token] \/ users' = file
    BY DEF UpsertUser
<1>6. ASSUME NEW c \in Callbacks, Answer(c) \/ WriteFails(c), ~ UpsertUser(c)
      PROVE  users' \in {file, users}
  <2>1. IssueCode(c) => users' = users
      BY DEF IssueCode
  <2> QED BY <1>6, <2>1, Answering
<1>7. users' \in {file, users} \/ \E d \in Callbacks : UpsertUser(d)
    BY <1>2, <1>6, Aside DEF Next, Restart
<1> QED BY <1>2, <1>3, <1>4, <1>5, <1>7

\* Google drops a grant only when a sign-in of its person is given back.
LEMMA GrantsMove ==
    ASSUME IInv, [Next]_vars
    PROVE  \/ live \subseteq live'
           \/ \E c \in Callbacks : cb[c].step = "givingBack" /\ live' = live \ GrantsOf(cb[c].person)
<1>1. ASSUME NEW c \in Callbacks, Answer(c) \/ WriteFails(c)
      PROVE  \/ live \subseteq live'
             \/ cb[c].step = "givingBack" /\ live' = live \ GrantsOf(cb[c].person)
    BY <1>1 DEF Answer, ExchangeFails, ExchangeCode, RevokeGrant, UpsertUser, IssueCode, WriteFails
<1> QED BY <1>1, Aside DEF Next, Restart

LEMMA OwnTokensKept ==
    ASSUME IInv, OwnTokens, [Next]_vars
    PROVE  OwnTokens'
<1>1. /\ Types /\ None \notin People /\ None \notin Callbacks
      /\ \A c \in Callbacks : cb[c] \in CallbackRecords
    BY Typed, Constants DEF IInv, Types
<1>2. \A c \in Callbacks : cb[c].person # None => cb'[c].person = cb[c].person
    BY SignInMoves
<1>3. \A m \in People, c \in Callbacks : c \in {file[m], users[m]} => cb'[c].person = m
    BY <1>1, <1>2 DEF OwnTokens
<1>4. ASSUME NEW d \in Callbacks, cb[d].step = "saving"
      PROVE  /\ cb[d].token \in Callbacks /\ cb'[d].person = cb[d].person
             /\ cb'[cb[d].token].person = cb[d].person
  <2>1. cb[d].token \in Callbacks /\ cb[d].person \in People
      BY <1>1, <1>4 DEF IInv, PersonKnown, CallbackRecords
  <2>2. cb[cb[d].token].person = cb[d].person
      BY <1>4 DEF OwnTokens
  <2> QED BY <1>1, <1>2, <2>1, <2>2
<1>5. ASSUME NEW m \in People, NEW c \in Callbacks, c \in {file'[m], users'[m]}
      PROVE  cb'[c].person = m
    BY <1>3, <1>4, <1>5, RecordMoves
<1>6. ASSUME NEW c \in Callbacks, cb'[c].step = "saving"
      PROVE  cb'[cb'[c].token].person = cb'[c].person
  <2>1. CASE cb[c].step = "saving" /\ cb'[c].person = cb[c].person /\ cb'[c].token = cb[c].token
      BY <1>4, <2>1
  <2>2. CASE cb'[c].token = c
      BY <2>2
  <2>3. CASE cb'[c].token = users[cb'[c].person] /\ cb'[c].token # None
    <3>1. cb'[c] \in CallbackRecords /\ cb'[c].person # None
        BY <1>6, CallbacksKept, PersonKnownKept DEF PersonKnown
    <3>2. cb'[c].token \in Callbacks /\ cb'[c].person \in People
        BY <2>3, <3>1 DEF CallbackRecords
    <3> QED BY <1>3, <2>3, <3>2
  <2> QED BY <1>6, <2>1, <2>2, <2>3, SignInMoves
<1> QED BY <1>5, <1>6 DEF OwnTokens

\* What stands goes on standing.
LEMMA StandsKept ==
    ASSUME IInv, OwnTokens, [Next]_vars, NEW m \in People, Stands(m)
    PROVE  Stands(m)'
<1>1. /\ Types /\ Types' /\ None \notin People /\ None \notin Callbacks /\ live \subseteq Callbacks
      /\ file[m] \in live /\ users[m] \in live
      /\ \A c \in Callbacks : cb[c].person = m => cb[c].step # "givingBack"
                                                  /\ (cb[c].step = "saving" => cb[c].token \in live)
    BY Typed, TypedNext, NextInv, Constants DEF IInv, Types, Stands, GrantsOf
<1>2. ASSUME NEW c \in live, c \in Callbacks, cb[c].person = m
      PROVE  c \in live'
  <2>1. CASE live \subseteq live'
      BY <2>1
  <2>2. ASSUME NEW d \in Callbacks, cb[d].step = "givingBack", live' = live \ GrantsOf(cb[d].person)
        PROVE  c \in live'
      BY <1>1, <1>2, <2>2 DEF GrantsOf
  <2> QED BY <2>1, <2>2, GrantsMove
<1>3. file[m] \in live' /\ users[m] \in live'
    BY <1>1, <1>2 DEF OwnTokens
<1>4. ASSUME NEW d \in Callbacks, cb[d].step = "saving", cb[d].person = m
      PROVE  cb[d].token \in live'
  <2>1. cb[d].token \in live /\ cb[d].token \in Callbacks
      BY <1>1, <1>4
  <2> QED BY <1>2, <1>4, <2>1 DEF OwnTokens
<1>5. file'[m] \in live' /\ users'[m] \in live'
    BY <1>3, <1>4, RecordMoves
<1>6. ASSUME NEW c \in Callbacks, cb'[c].person = m
      PROVE  cb'[c].step # "givingBack" /\ (cb'[c].step = "saving" => cb'[c].token \in live')
  <2>1. cb'[c].step # "givingBack"
      BY <1>1, <1>6, SignInMoves
  <2>2. ASSUME cb'[c].step = "saving"
        PROVE  cb'[c].token \in live'
      BY <1>3, <1>4, <1>6, <2>2, SignInMoves
  <2> QED BY <2>1, <2>2
<1> QED BY <1>5, <1>6 DEF Stands, GrantsOf

\* Once a member's grant stands, no sign-in that is refused, given back, failed
\* or cut short, hers or anybody's, ever takes it, for any number of sign-ins.
THEOREM RefusalAlwaysSparesMembers == Spec => RefusalSparesMembers
<1>1. Init => OwnTokens
  <2> SUFFICES ASSUME Init
               PROVE  OwnTokens
      OBVIOUS
  <2>1. \A m \in People : file[m] = None /\ users[m] = None
      BY DEF Init
  <2>2. \A c \in Callbacks : cb[c].step = "new"
      BY DEF Init, NewCallback
  <2> QED BY <2>1, <2>2, Constants DEF OwnTokens
<1>2. IInv /\ OwnTokens /\ [Next]_vars => OwnTokens'
    BY OwnTokensKept
<1>3. ASSUME NEW m \in People
      PROVE  Spec => [](Stands(m) => [](file[m] \in live))
  <2>1. IInv /\ OwnTokens /\ [Next]_vars /\ Stands(m) => Stands(m)'
      BY StandsKept
  <2>2. Stands(m) => file[m] \in live
      BY DEF Stands
  <2> QED BY <1>1, <1>2, <2>1, <2>2, Invariance, PTL DEF Spec
<1> QED BY <1>3 DEF RefusalSparesMembers

----------------------------------------------------------------------------
(* A sign-in implements SignInFlow *)

GrantedFor(c) == \E t \in Requests : req[t].step = "granted" /\ req[t].code = c

\* How far the flow of callback c has come.
Progress(c) ==
    CASE cb[c].step \in Waiting -> "back"
      [] cb[c].step \notin Waiting /\ codes[c] # None -> "code"
      [] cb[c].step \notin Waiting /\ codes[c] = None /\ GrantedFor(c) -> "granted"
      [] OTHER -> "over"

\* The stage of a flow nobody came back with.
LEMMA StageBefore ==
    ASSUME IInv, NEW f \in Flows
    PROVE  /\ flow[f] = "unused" => Stage(f) = "unused" /\ Asker(f) = None
           /\ pending[f] # None => Stage(f) = "asked" /\ Asker(f) = pending[f].client
           /\ flow[f] # "unused" /\ pending[f] = None /\ Carriers(f) = {} =>
                 Stage(f) = "over" /\ Asker(f) = None
<1>1. flow[f] = "unused" => pending[f] = None
    BY DEF IInv
<1>2. flow[f] = "unused" \/ pending[f] # None => Carriers(f) = {}
    BY DEF IInv, FlowKnown, Flows, Carriers
<1>3. CASE flow[f] = "unused"
  <2>1. Stage(f) = "unused"
      BY <1>1, <1>2, <1>3 DEF Stage
  <2> QED BY <1>1, <1>3, <2>1 DEF Asker
<1>4. CASE pending[f] # None
  <2>1. Stage(f) = "asked"
      BY <1>1, <1>2, <1>4 DEF Stage
  <2> QED BY <1>1, <1>4, <2>1 DEF Asker
<1>5. CASE flow[f] # "unused" /\ pending[f] = None /\ Carriers(f) = {}
  <2>1. Stage(f) = "over"
      BY <1>5 DEF Stage
  <2> QED BY <1>5, <2>1 DEF Asker
<1> QED BY <1>3, <1>4, <1>5

\* The stage of a flow is that of the one callback that came back with it.
LEMMA StageAfter ==
    ASSUME IInv, NEW c \in Callbacks, NEW f \in Flows, cb[c].flow = f
    PROVE  /\ Stage(f) = Progress(c)
           /\ Progress(c) \in {"back", "code", "granted"} => Asker(f) = cb[c].client
           /\ Progress(c) \notin {"back", "code", "granted"} => Asker(f) = None
<1>1. flow[f] # "unused" /\ pending[f] = None
    BY DEF IInv, FlowKnown, Flows
<1>2. Carriers(f) = {c}
    BY DEF IInv, FlowKnown, Flows, Carriers
<1>3. CodeKnows(c)
    BY DEF IInv
<1>4. CASE cb[c].step \in Waiting
  <2>1. codes[c] = None /\ ~GrantedFor(c)
      BY <1>3, <1>4 DEF CodeKnows, Uses, GrantedFor, Waiting
  <2>2. Stage(f) = "back" /\ Progress(c) = "back"
      BY <1>1, <1>2, <1>4, <2>1 DEF Stage, Progress, GrantedFor
  <2>3. (CHOOSE d \in Carriers(f) : cb[d].step \in Waiting) = c
      BY <1>2, <1>4
  <2> QED BY <2>2, <2>3 DEF Asker
<1>5. CASE cb[c].step \notin Waiting /\ codes[c] # None
  <2>1. ~GrantedFor(c)
      BY <1>3, <1>5 DEF CodeKnows, Uses, GrantedFor
  <2>2. Stage(f) = "code" /\ Progress(c) = "code"
      BY <1>1, <1>2, <1>5, <2>1 DEF Stage, Progress, GrantedFor
  <2>3. (CHOOSE d \in Carriers(f) : codes[d] # None) = c
      BY <1>2, <1>5
  <2>4. codes[c].client = cb[c].client
      BY <1>3, <1>5 DEF CodeKnows
  <2> QED BY <2>2, <2>3, <2>4 DEF Asker
<1>6. CASE cb[c].step \notin Waiting /\ codes[c] = None /\ GrantedFor(c)
  <2>1. Stage(f) = "granted" /\ Progress(c) = "granted"
      BY <1>1, <1>2, <1>6 DEF Stage, Progress, GrantedFor
  <2> DEFINE t == CHOOSE t \in Requests : req[t].step = "granted" /\ req[t].code \in Carriers(f)
  <2>2. t \in Requests /\ req[t].step = "granted" /\ req[t].code \in Carriers(f)
      BY <1>2, <1>6 DEF GrantedFor
  <2>3. Asker(f) = req[t].client
      BY <2>1 DEF Asker
  <2> HIDE DEF t
  <2>4. req[t].client = cb[c].client
      BY <1>2, <1>3, <2>2 DEF CodeKnows, Uses
  <2> QED BY <2>1, <2>3, <2>4
<1>7. CASE cb[c].step \notin Waiting /\ codes[c] = None /\ ~GrantedFor(c)
  <2>1. Stage(f) = "over" /\ Progress(c) = "over"
      BY <1>1, <1>2, <1>7 DEF Stage, Progress, GrantedFor
  <2> QED BY <2>1 DEF Asker
<1> QED BY <1>4, <1>5, <1>6, <1>7

\* Tokens are granted once, for a code that is there.
LEMMA GrantsStay ==
    ASSUME IInv, [Next]_vars, NEW u \in Requests
    PROVE  /\ req[u].step = "granted" => req'[u].step = "granted" /\ req'[u].code = req[u].code
           /\ req'[u].step = "granted" =>
                 /\ req'[u].code = req[u].code
                 /\ req[u].step = "granted" \/ (req[u].code \in Callbacks /\ codes[req[u].code] # None)
<1>1. Types
    BY Typed DEF IInv
<1>2. CASE UNCHANGED req
    BY <1>2
<1>3. CASE Restart
    BY <1>1, <1>3, Restarted
<1>4. ASSUME NEW t \in Requests, NEW c \in Callbacks, NEW k \in Clients, NEW verifies \in BOOLEAN,
             LookUpCode(t, c, k, verifies)
      PROVE  req'[u] = req[u] \/ (req[u].step # "granted" /\ req'[u].step # "granted")
  <2>1. req[t].step = "new"
      BY <1>4 DEF LookUpCode
  <2> QED BY <1>1, <1>4, <2>1, LookedUp
<1>5. ASSUME NEW t \in Requests, NEW matches \in BOOLEAN, ExchangeCodeForTokens(t, matches)
      PROVE  \/ req'[u] = req[u]
             \/ /\ req[u].step # "granted" /\ req'[u].code = req[u].code
                /\ req'[u].step = "granted" => req[u].code \in Callbacks /\ codes[req[u].code] # None
  <2>1. req[t].code # None
      BY <1>5 DEF ExchangeCodeForTokens, IInv, RequestKnows
  <2> QED BY <1>1, <1>5, <2>1, Redeemed
<1>6. ASSUME NEW c \in Callbacks, Answer(c) \/ WriteFails(c)
      PROVE  req' = req
    BY <1>6, Answering
<1> QED BY <1>2, <1>3, <1>4, <1>5, <1>6, Aside DEF Next

\* A code is issued to a callback that was saving, and never again.
LEMMA CodesAreNew ==
    ASSUME IInv, [Next]_vars, NEW d \in Callbacks, codes[d] = None, codes'[d] # None
    PROVE  cb[d].step = "saving"
<1>1. Types
    BY Typed DEF IInv
<1>2. CASE UNCHANGED codes
    BY <1>2
<1>3. CASE Sweep
    BY <1>1, <1>3, Swept DEF Sweep, Types
<1>4. CASE Restart
    BY <1>4 DEF Restart
<1>5. ASSUME NEW f \in Flows, NEW k \in Clients, Authorize(f, k)
      PROVE  FALSE
    BY <1>1, <1>5, Authorized
<1>6. ASSUME NEW c \in Callbacks, IssueCode(c)
      PROVE  cb[d].step = "saving"
  <2>1. d = c
      BY <1>1, <1>6, Issued
  <2> QED BY <1>6, <2>1, Written DEF IssueCode
<1>7. ASSUME NEW t \in Requests, NEW c \in Callbacks, NEW k \in Clients, NEW verifies \in BOOLEAN,
             LookUpCode(t, c, k, verifies)
      PROVE  FALSE
  <2>1. codes[c] # None
      BY <1>7 DEF LookUpCode
  <2> QED BY <1>1, <1>7, <2>1, LookedUp
<1>8. ASSUME NEW t \in Requests, NEW matches \in BOOLEAN, ExchangeCodeForTokens(t, matches)
      PROVE  FALSE
  <2>1. req[t].code # None
      BY <1>8 DEF ExchangeCodeForTokens, IInv, RequestKnows
  <2> QED BY <1>1, <1>8, <2>1, Redeemed
<1>9. ASSUME NEW c \in Callbacks, Answer(c) \/ WriteFails(c)
      PROVE  codes' = codes \/ IssueCode(c)
    BY <1>9, Answering
<1> QED BY <1>2, <1>3, <1>4, <1>5, <1>6, <1>7, <1>8, <1>9, Aside DEF Next

\* A callback goes on from the browser's return to one code and one grant.
LEMMA ProgressMoves ==
    ASSUME IInv, IInv', [Next]_vars, NEW c \in Callbacks, cb[c].flow # 0
    PROVE  /\ cb'[c].flow = cb[c].flow /\ cb'[c].client = cb[c].client
           /\ \/ Progress(c)' = Progress(c)
              \/ Progress(c) \in {"back", "code"} /\ Progress(c)' = "over"
              \/ Progress(c) = "back" /\ Progress(c)' = "code"
              \/ Progress(c) = "code" /\ Progress(c)' = "granted"
<1>1. Steady(c)
    BY CallbacksSteady DEF Callback, IInv, FlowKnown
<1>2. Types /\ Types' /\ CodeKnows(c) /\ CodeKnows(c)' /\ cb[c].step # "new"
    BY Typed, TypedNext DEF IInv, FlowKnown
<1>3. cb[c].step \notin Waiting => cb[c].step \in {"code", "refused", "failed"}
    BY <1>2 DEF Types, CallbackRecords, Steps
<1>4. cb[c].step \notin Waiting => cb'[c].step \notin Waiting
    BY <1>3, EndsStay
<1>5. Progress(c)' \in {"back", "code", "granted", "over"}
    BY DEF Progress
<1>6. CASE cb[c].step \in Waiting
  <2>1. Progress(c) = "back"
      BY <1>6 DEF Progress
  <2>2. ~GrantedFor(c)'
    <3>1. \A t \in Requests : req[t].code # c
        BY <1>2, <1>6 DEF CodeKnows, Uses, Waiting
    <3> QED BY <3>1, GrantsStay DEF GrantedFor
  <2>3. Progress(c)' # "granted"
      BY <2>2 DEF Progress
  <2> QED BY <1>1, <1>5, <2>1, <2>3 DEF Steady
<1>7. CASE cb[c].step \notin Waiting /\ codes[c] # None
  <2>1. Progress(c) = "code" /\ Progress(c)' # "back"
      BY <1>4, <1>7 DEF Progress
  <2> QED BY <1>1, <1>5, <2>1 DEF Steady
<1>8. CASE cb[c].step \notin Waiting /\ codes[c] = None /\ GrantedFor(c)
  <2>1. GrantedFor(c)'
      BY <1>8, GrantsStay DEF GrantedFor
  <2>2. codes'[c] = None
      BY <1>2, <1>3, <1>8, CodesAreNew DEF Waiting
  <2>3. Progress(c) = "granted" /\ Progress(c)' = "granted"
      BY <1>4, <1>8, <2>1, <2>2 DEF Progress
  <2> QED BY <1>1, <2>3 DEF Steady
<1>9. CASE cb[c].step \notin Waiting /\ codes[c] = None /\ ~GrantedFor(c)
  <2>1. ~GrantedFor(c)'
      BY <1>9, GrantsStay DEF GrantedFor
  <2>2. codes'[c] = None
      BY <1>2, <1>3, <1>9, CodesAreNew DEF Waiting
  <2>3. Progress(c) = "over" /\ Progress(c)' = "over"
      BY <1>4, <1>9, <2>1, <2>2 DEF Progress
  <2> QED BY <1>1, <2>3 DEF Steady
<1> QED BY <1>6, <1>7, <1>8, <1>9

\* Both, of all flows, now and after a step.
Stages ==
    /\ \A f \in Flows :
          /\ flow[f] = "unused" => Stage(f) = "unused" /\ Asker(f) = None
          /\ pending[f] # None => Stage(f) = "asked" /\ Asker(f) = pending[f].client
          /\ flow[f] # "unused" /\ pending[f] = None /\ Carriers(f) = {} =>
                Stage(f) = "over" /\ Asker(f) = None
    /\ \A c \in Callbacks, f \in Flows : cb[c].flow = f =>
          /\ Stage(f) = Progress(c)
          /\ Progress(c) \in {"back", "code", "granted"} => Asker(f) = cb[c].client
          /\ Progress(c) \notin {"back", "code", "granted"} => Asker(f) = None

LEMMA StagesHold == IInv => Stages
BY StageBefore, StageAfter DEF Stages

LEMMA StagesHoldNext == IInv' => Stages'
BY StagesHold, PTL

\* What a step does to a flow, as SignInFlow has it.
FlowStep(f) ==
    \/ Stage(f) = "unused" /\ Stage(f)' = "asked" /\ Asker(f)' \in Clients
    \/ /\ <<Stage(f), Stage(f)'>> \in {<<"asked", "back">>, <<"back", "code">>, <<"code", "granted">>}
       /\ Asker(f)' = Asker(f)
    \/ Stage(f) \in {"unused", "asked", "back", "code"} /\ Stage(f)' = "over" /\ Asker(f)' = None
    \/ Stage(f)' = Stage(f) /\ Asker(f)' = Asker(f)

\* Before somebody came back with its state, and when that happens.
LEMMA FlowBefore ==
    ASSUME IInv, IInv', [Next]_vars, NEW f \in Flows, flow[f] = "unused" \/ pending[f] # None
    PROVE  FlowStep(f)
<1>1. Types /\ Types'
    BY Typed, TypedNext DEF IInv
<1>2. Carriers(f) = {}
    BY DEF IInv, FlowKnown, Flows, Carriers
<1>3. ASSUME NEW d \in Callbacks, cb'[d].flow = f
      PROVE  /\ pending[f] # None /\ pending'[f] = None /\ flow'[f] = flow[f]
             /\ cb'[d].client = pending[f].client /\ cb'[d].step = "exchanging"
  <2>1. cb[d].flow # f /\ f # 0
      BY <1>2 DEF Carriers, Flows
  <2> QED BY <1>3, <2>1, FlowsTaken
<1>4. Stages /\ Stages'
    BY StagesHold, StagesHoldNext
<1>5. CASE flow[f] = "unused"
  <2>1. Stage(f) = "unused" /\ Asker(f) = None /\ pending[f] = None
      BY <1>4, <1>5 DEF Stages, IInv
  <2>2. Carriers(f)' = {}
      BY <1>3, <2>1 DEF Carriers
  <2>3. CASE flow'[f] = "unused"
      BY <1>4, <2>1, <2>3 DEF Stages, FlowStep
  <2>4. CASE pending'[f] # None
    <3>1. pending'[f].client \in Clients
        BY <1>1, <2>4 DEF Types, PendingRecords
    <3> QED BY <1>4, <2>1, <2>4, <3>1 DEF Stages, FlowStep
  <2>5. CASE flow'[f] # "unused" /\ pending'[f] = None
      BY <1>4, <2>1, <2>2, <2>5 DEF Stages, FlowStep
  <2> QED BY <2>3, <2>4, <2>5
<1>6. CASE flow[f] # "unused" /\ pending[f] # None
  <2>1. Stage(f) = "asked" /\ Asker(f) = pending[f].client
      BY <1>4, <1>6 DEF Stages
  <2>2. flow'[f] # "unused" /\ pending'[f] \in {pending[f], None}
      BY <1>6, FlowsPass DEF NoneAgain
  <2>3. CASE pending'[f] # None
      BY <1>4, <2>1, <2>2, <2>3 DEF Stages, FlowStep
  <2>4. CASE pending'[f] = None /\ Carriers(f)' = {}
      BY <1>4, <2>1, <2>2, <2>4 DEF Stages, FlowStep
  <2>5. ASSUME NEW d \in Callbacks, cb'[d].flow = f
        PROVE  FlowStep(f)
    <3>1. cb'[d].client = pending[f].client /\ cb'[d].step = "exchanging"
        BY <1>3, <2>5
    <3>2. Progress(d)' = "back"
      <4>1. (CodeKnows(d) /\ IInv)'
          BY DEF IInv
      <4>2. codes'[d] = None
          BY <3>1, <4>1 DEF CodeKnows
      <4> QED BY <3>1, <4>2 DEF Progress, Waiting
    <3>3. Stage(f)' = "back" /\ Asker(f)' = pending[f].client
        BY <1>4, <2>5, <3>1, <3>2 DEF Stages
    <3> QED BY <2>1, <3>3 DEF FlowStep
  <2> QED BY <2>3, <2>4, <2>5 DEF Carriers
<1> QED BY <1>5, <1>6

\* Once somebody came back with it, or nobody can.
LEMMA FlowAfter ==
    ASSUME IInv, IInv', [Next]_vars, NEW f \in Flows, flow[f] # "unused", pending[f] = None
    PROVE  FlowStep(f)
<1>1. Stages /\ Stages'
    BY StagesHold, StagesHoldNext
<1>2. flow'[f] # "unused" /\ pending'[f] = None /\ f # 0
    BY FlowsPass DEF NoneAgain, Flows
<1>3. CASE Carriers(f) = {}
  <2>1. Stage(f) = "over" /\ Asker(f) = None
      BY <1>1, <1>3 DEF Stages
  <2>2. Carriers(f)' = {}
    <3> SUFFICES ASSUME NEW d \in Callbacks, cb'[d].flow = f
                 PROVE  FALSE
        BY DEF Carriers
    <3>1. cb[d].flow # f
        BY <1>3 DEF Carriers
    <3> QED BY <1>2, <3>1, FlowsTaken
  <2>3. Stage(f)' = "over" /\ Asker(f)' = None
      BY <1>1, <1>2, <2>2 DEF Stages
  <2> QED BY <2>1, <2>3 DEF FlowStep
<1>4. ASSUME NEW c \in Callbacks, cb[c].flow = f
      PROVE  FlowStep(f)
  <2>1. cb'[c].flow = f /\ cb'[c].client = cb[c].client
      BY <1>2, <1>4, ProgressMoves
  <2>2. Stage(f) = Progress(c) /\ Stage(f)' = Progress(c)'
      BY <1>1, <1>4, <2>1 DEF Stages
  <2>3. Progress(c) \in {"back", "code", "granted", "over"}
      BY DEF Progress
  <2>4. /\ Progress(c) = "over" => Asker(f) = None
        /\ Progress(c) # "over" => Asker(f) = cb[c].client
      BY <1>1, <1>4, <2>3 DEF Stages
  <2>5. /\ Progress(c)' = "over" => Asker(f)' = None
        /\ Progress(c)' \in {"back", "code", "granted"} => Asker(f)' = cb[c].client
      BY <1>1, <2>1 DEF Stages
  <2>6. CASE Progress(c)' = Progress(c)
      BY <2>2, <2>3, <2>4, <2>5, <2>6 DEF FlowStep
  <2>7. CASE Progress(c) \in {"back", "code"} /\ Progress(c)' = "over"
      BY <2>2, <2>3, <2>5, <2>7 DEF FlowStep
  <2>8. CASE (Progress(c) = "back" /\ Progress(c)' = "code") \/ (Progress(c) = "code" /\ Progress(c)' = "granted")
      BY <2>2, <2>4, <2>5, <2>8 DEF FlowStep
  <2> QED BY <1>2, <1>4, <2>6, <2>7, <2>8, ProgressMoves
<1> QED BY <1>3, <1>4 DEF Carriers

\* FlowStep is a step of SignInFlow.
LEMMA AbstractStep ==
    ASSUME \A f \in Flows : FlowStep(f)
    PROVE  Abstract!Next
<1> SUFFICES ASSUME NEW f \in Flows
             PROVE  Abstract!Ask(f) \/ Abstract!Advance(f) \/ Abstract!End(f) \/ Abstract!Stay(f)
    BY DEF Abstract!Next
<1>1. CASE Stage(f) = "unused" /\ Stage(f)' = "asked" /\ Asker(f)' \in Clients
    BY <1>1 DEF Abstract!Ask
<1>2. CASE /\ <<Stage(f), Stage(f)'>> \in {<<"asked", "back">>, <<"back", "code">>, <<"code", "granted">>}
           /\ Asker(f)' = Asker(f)
    BY <1>2 DEF Abstract!Advance, Abstract!After
<1>3. CASE Stage(f) \in {"unused", "asked", "back", "code"} /\ Stage(f)' = "over" /\ Asker(f)' = None
    BY <1>3 DEF Abstract!End, Abstract!After
<1>4. CASE Stage(f)' = Stage(f) /\ Asker(f)' = Asker(f)
    BY <1>4 DEF Abstract!Stay
<1> QED BY <1>1, <1>2, <1>3, <1>4 DEF FlowStep

\* ImplementsSignInFlow: a flow serves the client that asked for it, once, by
\* one callback, one code and one grant of tokens, for any number of flows.
THEOREM Refinement == Spec => ImplementsSignInFlow
<1>1. IInv /\ Init => Abstract!Init
  <2> SUFFICES ASSUME IInv, Init
               PROVE  Abstract!Init
      OBVIOUS
  <2>1. \A f \in Flows : flow[f] = "unused"
      BY DEF Init
  <2>2. \A f \in Flows : Stage(f) = "unused" /\ Asker(f) = None
      BY <2>1, StagesHold DEF Stages
  <2> QED BY <2>2 DEF Abstract!Init
<1>2. IInv /\ IInv' /\ [Next]_vars => [Abstract!Next]_(Abstract!vars)
  <2> SUFFICES ASSUME IInv, IInv', [Next]_vars
               PROVE  Abstract!Next
      OBVIOUS
  <2>1. \A f \in Flows : FlowStep(f)
      BY FlowBefore, FlowAfter
  <2> QED BY <2>1, AbstractStep
<1> QED BY <1>1, <1>2, Invariance, PTL DEF Spec, ImplementsSignInFlow, Abstract!Spec
=============================================================================

------------------------- MODULE TeamTokensProofs -------------------------
(***************************************************************************)
(* Machine-checked proofs about TeamTokens, for every value of its         *)
(* constants.                                                              *)
(***************************************************************************)
EXTENDS TeamTokens, FiniteSetTheorems, WellFoundedInduction, TLAPS

\* What the proofs need of the shape of records and of the idle job.
LEMMA BoundsAreNat == MaxPairs \in Nat /\ MaxTime \in Nat /\ MaxRequests \in Nat
  BY ConstantsAssumption

LEMMA PairIsInRange == \A p \in Pairs : p \in 0..MaxPairs
  BY BoundsAreNat DEF Pairs

LEMMA IdleJob == Idle \in JobRecords
  BY ConstantsAssumption DEF Idle, JobRecords, Ops, Times

\* The initial state satisfies the inductive invariant: the file the server
\* boots from holds tokens of consumed codes only.
LEMMA InitInv == Init => IInv
  <1> SUFFICES ASSUME Init PROVE IInv
    OBVIOUS
  <1> USE ConstantsAssumption DEF Init
  <1>1. \A p \in Pairs : refreshTokens[p] # None => p \in 1..BootPairs
    BY DEF Pairs
  <1>2. \A p \in Pairs : refreshTokens[p] # None =>
            /\ refreshTokens[p] \in RefreshRecords
            /\ refreshTokens[p].family \in Codes
            /\ codes[refreshTokens[p].family] = "consumed"
    <2> SUFFICES ASSUME NEW p \in Pairs, refreshTokens[p] # None
                 PROVE  /\ refreshTokens[p] \in RefreshRecords
                        /\ refreshTokens[p].family \in Codes
                        /\ codes[refreshTokens[p].family] = "consumed"
      OBVIOUS
    <2>1. refreshTokens[p] \in RefreshRecords
      OBVIOUS
    <2>2. refreshTokens[p].family \in Codes
      BY <2>1 DEF RefreshRecords
    <2>3. refreshTokens[p].family \in OnFile
      BY <1>1 DEF OnFile
    <2> QED
      BY <2>1, <2>2, <2>3
  <1>3. TypeOK
    BY IdleJob DEF TypeOK, Times, Jobs
  <1>4. TokensKeepTheirGrant
    BY <1>1 DEF TokensKeepTheirGrant
  <1>5. JobsKeepTheirGrant
    BY DEF JobsKeepTheirGrant, KeepsGrant, Idle, MintOps
  <1>6. FamiliesAreConsumed
    BY <1>2 DEF FamiliesAreConsumed, FitsCodes, Idle, MintOps
  <1>7. CleanRevocationIsFinal
    BY DEF CleanRevocationIsFinal
  <1> QED
    BY <1>3, <1>4, <1>5, <1>6, <1>7 DEF IInv

-----------------------------------------------------------------------------
(***************************************************************************)
(* Types are kept by the queue operations and by the token-map operators.  *)
(***************************************************************************)

LEMMA EnqueueType ==
  ASSUME job \in [Jobs -> JobRecords], writeQueue \in Seq(Jobs),
         NEW j \in Jobs, NEW rec \in JobRecords, Enqueue(j, rec)
  PROVE  /\ job' \in [Jobs -> JobRecords]
         /\ job' = [job EXCEPT ![j] = rec]
         /\ writeQueue' \in Seq(Jobs)
  BY DEF Enqueue

LEMMA DequeueType ==
  ASSUME writeQueue \in Seq(Jobs), NEW j \in Jobs, NEW op, Dequeue(j, op)
  PROVE  writeQueue' \in Seq(Jobs) /\ writing' \in Jobs \cup {None}
  BY DEF Dequeue

\* Eviction and removal only put None into a map.
LEMMA EvictionType ==
  ASSUME NEW R, NEW tokens \in [Pairs -> R \cup {None}], NEW S, NEW cap
  PROVE  /\ EvictOldestIfAtCap(tokens, S, cap) \in [Pairs -> R \cup {None}]
         /\ \A p \in Pairs : \/ EvictOldestIfAtCap(tokens, S, cap)[p] = tokens[p]
                             \/ EvictOldestIfAtCap(tokens, S, cap)[p] = None
  BY DEF EvictOldestIfAtCap

LEMMA WithoutType ==
  ASSUME NEW R, NEW tokens \in [Pairs -> R \cup {None}], NEW S
  PROVE  /\ Without(tokens, S) \in [Pairs -> R \cup {None}]
         /\ \A p \in Pairs : /\ p \in S => Without(tokens, S)[p] = None
                             /\ \/ Without(tokens, S)[p] = tokens[p]
                                \/ Without(tokens, S)[p] = None
  BY DEF Without

\* The records the save and update mutations write.
AccessRecord(rec) ==
    [client |-> rec.client, sub |-> rec.sub, scopes |-> rec.accessScopes,
     family |-> rec.code, expiresAt |-> rec.at + TokenTtl]

RefreshRecord(rec) ==
    [client |-> rec.client, sub |-> rec.sub, scopes |-> rec.scopes,
     family |-> rec.code, expiresAt |-> rec.at + RefreshTtl,
     supersededBy |-> 0, graceUntil |-> 0]

\* A minting job writes well-typed records of its own grant.
LEMMA MintedRecords ==
  ASSUME TypeOK, JobsKeepTheirGrant, NEW j \in Jobs, job[j].op \in MintOps
  PROVE  /\ job[j].code \in Codes /\ job[j].pair \in Pairs /\ job[j].client \in Clients
         /\ AccessRecord(job[j]) \in AccessRecords
         /\ RefreshRecord(job[j]) \in RefreshRecords
         /\ job[j].op = "updateRefreshToken" =>
                /\ Tombstone(job[j]) \in RefreshRecords
                /\ Tombstone(job[j]).client = job[j].client
                /\ Tombstone(job[j]).sub = job[j].sub
                /\ Tombstone(job[j]).scopes = job[j].scopes
                /\ Tombstone(job[j]).family = job[j].code
                /\ Superseded(Tombstone(job[j]))
  <1>1. /\ job[j] \in JobRecords
        /\ job[j].code \in Codes
        /\ job[j].client = CodeGrant[job[j].code].client
        /\ job[j].sub = CodeGrant[job[j].code].sub
        /\ job[j].scopes = CodeGrant[job[j].code].scopes
        /\ job[j].accessScopes \subseteq job[j].scopes
        /\ job[j].pair \in Pairs
    BY DEF TypeOK, JobsKeepTheirGrant, KeepsGrant
  <1>2. CodeGrant[job[j].code] \in Grants
    BY <1>1, ConstantsAssumption
  <1>3. job[j].client \in Clients /\ job[j].sub \in Subs /\ job[j].scopes \in SUBSET Scopes
    BY <1>1, <1>2 DEF Grants
  <1>4. /\ job[j].at \in Nat /\ TokenTtl \in Nat /\ RefreshTtl \in Nat
        /\ TombstoneTtl \in Nat /\ RefreshGrace \in Nat /\ MaxPairs \in Nat
    BY <1>1, ConstantsAssumption DEF JobRecords, Times
  <1>5. AccessRecord(job[j]) \in AccessRecords
    BY <1>1, <1>3, <1>4 DEF AccessRecord, AccessRecords
  <1>6. RefreshRecord(job[j]) \in RefreshRecords
    BY <1>1, <1>3, <1>4 DEF RefreshRecord, RefreshRecords
  <1>7. ASSUME job[j].op = "updateRefreshToken"
        PROVE  /\ Tombstone(job[j]) \in RefreshRecords
               /\ Tombstone(job[j]).client = job[j].client
               /\ Tombstone(job[j]).sub = job[j].sub
               /\ Tombstone(job[j]).scopes = job[j].scopes
               /\ Tombstone(job[j]).family = job[j].code
               /\ Superseded(Tombstone(job[j]))
    <2>1. /\ job[j].old \in RefreshRecords
          /\ job[j].old.family = job[j].code
          /\ job[j].old.client = job[j].client
          /\ job[j].old.sub = job[j].sub
          /\ job[j].old.scopes = job[j].scopes
      BY <1>7 DEF JobsKeepTheirGrant, KeepsGrant
    <2>2. job[j].pair \in Nat /\ job[j].pair # 0
      BY <1>1, <1>4 DEF Pairs
    <2>3. Earlier(job[j].old.expiresAt, job[j].at + TombstoneTtl) \in Nat
      BY <1>4, <2>1 DEF Earlier, RefreshRecords
    <2> QED
      BY <1>4, <2>1, <2>2, <2>3 DEF Tombstone, RefreshRecords, Superseded
  <1> QED
    BY <1>1, <1>3, <1>5, <1>6, <1>7

-----------------------------------------------------------------------------
(***************************************************************************)
(* Every step keeps the types.                                             *)
(***************************************************************************)

\* A request puts a well-typed job record in its slot.
LEMMA RequestType ==
  ASSUME TypeOK, NEW j \in Requests, Request(j)
  PROVE  TypeOK'
  <1> USE DEF TypeOK
  <1>0. j \in Jobs /\ ConstantsAssumption
    BY ConstantsAssumption DEF Jobs
  <1>b. Begin(j)
    BY DEF Request, RegisterClient, SignIn, ExchangeAuthorizationCode,
       ExchangeRefreshToken, ReuseRefreshToken, VerifyExpired, RevokeToken,
       HandleRevokedGrant
  <1>r. requests' \in 0..MaxRequests
    BY <1>b, BoundsAreNat DEF Begin
  <1>1. ASSUME NEW k \in Clients, RegisterClient(j, k) PROVE TypeOK'
    <2>1. [Idle EXCEPT !.op = "saveClient", !.client = k] \in JobRecords
      BY IdleJob DEF JobRecords, Ops, Idle
    <2> QED
      BY <1>0, <1>1, <1>r, <2>1, EnqueueType DEF RegisterClient, store, history
  <1>2. ASSUME NEW c \in Codes, SignIn(j, c) PROVE TypeOK'
    <2>1. CodeGrant[c].sub \in Subs
      BY <1>0 DEF ConstantsAssumption, Grants
    <2>2. [Idle EXCEPT !.op = "upsertUser", !.code = c, !.sub = CodeGrant[c].sub]
              \in JobRecords
      BY IdleJob, <2>1 DEF JobRecords, Ops, Idle
    <2> QED
      BY <1>0, <1>2, <1>r, <2>2, EnqueueType DEF SignIn, store, history
  <1>3. ASSUME NEW c \in Codes, NEW k \in Clients, NEW matches \in BOOLEAN,
               ExchangeAuthorizationCode(j, c, k, matches)
        PROVE  TypeOK'
    <2>1. /\ CodeGrant[c].client \in Clients /\ CodeGrant[c].sub \in Subs
          /\ CodeGrant[c].scopes \in SUBSET Scopes
      BY <1>0 DEF ConstantsAssumption, Grants
    <2>2. codes' \in [Codes -> {"unissued", "live", "consumed"}]
      BY <1>3 DEF ExchangeAuthorizationCode
    <2>3. CASE k = CodeGrant[c].client /\ matches
      <3>1. minted < MaxPairs /\ MaxPairs \in Nat /\ minted \in Nat
        BY <1>0, <1>3, <2>3 DEF ExchangeAuthorizationCode, ConstantsAssumption
      <3>2. MintTokenPair(CodeGrant[c], c, CodeGrant[c].scopes, 0, None) \in JobRecords
        BY <2>1, <3>1, BoundsAreNat DEF JobRecords, Ops, MintTokenPair
      <3>3. minted' \in 0..MaxPairs
        BY <1>3, <2>3, <3>1 DEF ExchangeAuthorizationCode
      <3> QED
        BY <1>0, <1>3, <1>r, <2>2, <2>3, <3>2, <3>3, EnqueueType
           DEF ExchangeAuthorizationCode, store, history
    <2>4. CASE ~(k = CodeGrant[c].client /\ matches)
      BY <1>3, <1>r, <2>2, <2>4 DEF ExchangeAuthorizationCode, store, history
    <2> QED
      BY <2>3, <2>4
  <1>4. ASSUME NEW p \in Pairs, NEW k \in Clients, NEW wanted \in SUBSET Scopes,
               ExchangeRefreshToken(j, p, k, wanted)
        PROVE  TypeOK'
    <2>1. refreshTokens[p] \in RefreshRecords
      BY <1>4 DEF ExchangeRefreshToken, Presented
    <2>2. minted < MaxPairs /\ MaxPairs \in Nat /\ minted \in Nat
      BY <1>0, <1>4 DEF ExchangeRefreshToken, ConstantsAssumption
    <2>3. p \in 0..MaxPairs
      BY <2>2 DEF Pairs
    <2>4. ASSUME NEW accessScopes \in SUBSET Scopes
          PROVE  MintTokenPair(refreshTokens[p], refreshTokens[p].family, accessScopes,
                               p, refreshTokens[p]) \in JobRecords
      BY <2>1, <2>2, <2>3 DEF JobRecords, Ops, RefreshRecords, MintTokenPair
    <2>6. (IF wanted = {} THEN refreshTokens[p].scopes ELSE wanted) \in SUBSET Scopes
      BY <2>1 DEF RefreshRecords
    <2>5. minted' \in 0..MaxPairs
      BY <1>4, <2>2 DEF ExchangeRefreshToken
    <2> QED
      BY <1>0, <1>4, <1>r, <2>4, <2>5, <2>6, EnqueueType
         DEF ExchangeRefreshToken, store, history
  <1>5. ASSUME NEW p \in Pairs, NEW k \in Clients, ReuseRefreshToken(j, p, k)
        PROVE  TypeOK'
    <2>1. refreshTokens[p].family \in Codes
      BY <1>5 DEF ReuseRefreshToken, Presented, RefreshRecords
    <2>2. [Idle EXCEPT !.op = "revokeTokenFamily", !.code = refreshTokens[p].family]
              \in JobRecords
      BY IdleJob, <2>1 DEF JobRecords, Ops, Idle
    <2> QED
      BY <1>0, <1>5, <1>r, <2>2, EnqueueType DEF ReuseRefreshToken, store, history
  <1>6. ASSUME NEW p \in Pairs, VerifyExpired(j, p) PROVE TypeOK'
    <2>1. [Idle EXCEPT !.op = "deleteAccessToken", !.pair = p] \in JobRecords
      BY PairIsInRange, IdleJob DEF JobRecords, Ops, Idle
    <2> QED
      BY <1>0, <1>6, <1>r, <2>1, EnqueueType DEF VerifyExpired, store, history
  <1>7. ASSUME NEW p \in Pairs, NEW k \in Clients, RevokeToken(j, p, k)
        PROVE  TypeOK'
    <2>1. [Idle EXCEPT !.op = "deleteAccessToken", !.pair = p] \in JobRecords
      BY PairIsInRange, IdleJob DEF JobRecords, Ops, Idle
    <2>2. refreshTokens[p] # None =>
              [Idle EXCEPT !.op = "revokeTokenFamily",
                           !.code = refreshTokens[p].family] \in JobRecords
      BY IdleJob DEF JobRecords, Ops, Idle, RefreshRecords
    <2> QED
      BY <1>0, <1>7, <1>r, <2>1, <2>2, EnqueueType DEF RevokeToken, store, history
  <1>8. ASSUME NEW s \in Subs, HandleRevokedGrant(j, s) PROVE TypeOK'
    <2>1. [Idle EXCEPT !.op = "updateUser", !.sub = s] \in JobRecords
      BY IdleJob DEF JobRecords, Ops, Idle
    <2> QED
      BY <1>0, <1>8, <1>r, <2>1, EnqueueType DEF HandleRevokedGrant, store, history
  <1> QED
    BY <1>1, <1>2, <1>3, <1>4, <1>5, <1>6, <1>7, <1>8 DEF Request

\* A mutation keeps the types: what it writes is a record of its job.
LEMMA MutationType ==
  ASSUME TypeOK, JobsKeepTheirGrant, NEW j \in Jobs, Mutation(j)
  PROVE  TypeOK'
  <1> USE DEF TypeOK
  <1>t. ASSUME NEW k \in Clients, TouchClient(k)
        PROVE  /\ clientLastUsed' \in [Clients -> Nat]
               /\ lastClientTick' \in Nat
               /\ usedSince' \in [Clients -> SUBSET Clients]
    <2>1. CASE Registered(k)
      <3>1. usedSince' = [i \in Clients |-> IF i = k THEN {} ELSE usedSince[i] \cup {k}]
        BY <1>t, <2>1 DEF TouchClient, UsedNow
      <3>2. \A i \in Clients : usedSince[i] \cup {k} \in SUBSET Clients
        OBVIOUS
      <3>3. usedSince' \in [Clients -> SUBSET Clients]
        BY <3>1, <3>2
      <3>4. clientLastUsed' \in [Clients -> Nat] /\ lastClientTick' \in Nat
        BY <1>t, <2>1 DEF TouchClient
      <3> QED
        BY <3>3, <3>4
    <2>2. CASE ~Registered(k)
      BY <1>t, <2>2 DEF TouchClient
    <2> QED
      BY <2>1, <2>2
  <1>1. CASE SaveClient(j)
    <2>1. job[j].client \in Clients
      BY <1>1 DEF SaveClient, JobsKeepTheirGrant, KeepsGrant, Dequeue
    <2> QED
      BY <1>1, <2>1, DequeueType DEF SaveClient, UsedNow
  <1>2. CASE UpsertUser(j)
    BY <1>2, DequeueType DEF UpsertUser, store, history
  <1>3. CASE SaveAccessToken(j)
    <2> DEFINE kept == EvictOldestIfAtCap(accessTokens, SubOf(accessTokens, job[j].sub),
                                          MaxTokensPerSub)
    <2>1. job[j].op = "saveAccessToken"
      BY <1>3 DEF SaveAccessToken, Dequeue
    <2>2. /\ job[j].client \in Clients /\ job[j].pair \in Pairs
          /\ AccessRecord(job[j]) \in AccessRecords
      BY <2>1, MintedRecords DEF MintOps
    <2>3. kept \in [Pairs -> AccessRecords \cup {None}]
      BY EvictionType
    <2>4. accessTokens' = [kept EXCEPT ![job[j].pair] = AccessRecord(job[j])]
      BY <1>3 DEF SaveAccessToken, AccessRecord
    <2>5. accessTokens' \in [Pairs -> AccessRecords \cup {None}]
      BY <2>2, <2>3, <2>4
    <2> QED
      BY <1>3, <1>t, <2>2, <2>5, DequeueType DEF SaveAccessToken
  <1>4. CASE SaveRefreshToken(j)
    <2> DEFINE activeKept == EvictOldestIfAtCap(refreshTokens, Active(job[j].sub),
                                                MaxTokensPerSub)
               kept == EvictTombstones(activeKept, job[j].sub)
    <2>1. job[j].op = "saveRefreshToken"
      BY <1>4 DEF SaveRefreshToken, Dequeue
    <2>2. /\ job[j].client \in Clients /\ job[j].pair \in Pairs
          /\ RefreshRecord(job[j]) \in RefreshRecords
      BY <2>1, MintedRecords DEF MintOps
    <2>3. activeKept \in [Pairs -> RefreshRecords \cup {None}]
      BY EvictionType
    <2>4. kept \in [Pairs -> RefreshRecords \cup {None}]
      BY <2>3, EvictionType DEF EvictTombstones
    <2>5. refreshTokens' = [kept EXCEPT ![job[j].pair] = RefreshRecord(job[j])]
      BY <1>4 DEF SaveRefreshToken, RefreshRecord, RefreshScopes
    <2>6. refreshTokens' \in [Pairs -> RefreshRecords \cup {None}]
      BY <2>2, <2>4, <2>5
    <2> QED
      BY <1>4, <1>t, <2>2, <2>6, DequeueType DEF SaveRefreshToken
  <1>5. CASE UpdateRefreshToken(j)
    <2>1. job[j].op = "updateRefreshToken"
      BY <1>5 DEF UpdateRefreshToken, Dequeue
    <2>2. Tombstone(job[j]) \in RefreshRecords
      BY <2>1, MintedRecords DEF MintOps
    <2> QED
      BY <1>5, <2>2, DequeueType DEF UpdateRefreshToken, history
  <1>6. CASE DeleteAccessToken(j)
    BY <1>6, DequeueType DEF DeleteAccessToken, history
  <1>7. CASE RevokeTokenFamily(j)
    BY <1>7, DequeueType, WithoutType DEF RevokeTokenFamily, Revocation
  <1>8. CASE UpdateUser(j)
    BY <1>8, DequeueType DEF UpdateUser, store, history
  <1>9. CASE RevokeTokensForSub(j)
    <2>1. \A c \in Codes : Revocation(c) \in {"no", "racing", "clean"}
      BY DEF Revocation
    <2> QED
      BY <1>9, <2>1, DequeueType, WithoutType DEF RevokeTokensForSub
  <1>10. CASE SweepExpired(j)
    BY <1>10, DequeueType, WithoutType DEF SweepExpired, history
  <1> QED
    BY <1>1, <1>2, <1>3, <1>4, <1>5, <1>6, <1>7, <1>8, <1>9, <1>10 DEF Mutation

\* What a handler does after its write, the timer and the clock keep the types.
LEMMA ContinuationType ==
  ASSUME TypeOK, NEW j \in Jobs, Continuation(j)
  PROVE  TypeOK'
  <1> USE DEF TypeOK
  <1>1. CASE ThenMutateAgain(j)
    <2>1. NextOp(job[j]) \in Ops
      BY DEF NextOp, Ops
    <2>2. [job[j] EXCEPT !.op = NextOp(job[j])] \in JobRecords
      <3>1. job[j] \in JobRecords
        OBVIOUS
      <3> QED
        BY <2>1, <3>1 DEF JobRecords
    <2> QED
      BY <1>1, <2>2, EnqueueType DEF ThenMutateAgain, WriteDone, store, history
  <1>2. CASE ThenIssueCode(j)
    BY <1>2, IdleJob DEF ThenIssueCode, WriteDone, store, history
  <1>3. CASE ThenRespond(j)
    BY <1>3, IdleJob DEF ThenRespond, WriteDone, store, history
  <1> QED
    BY <1>1, <1>2, <1>3 DEF Continuation

LEMMA TimerType ==
  ASSUME TypeOK, SweepTimer \/ Tick \/ UNCHANGED vars
  PROVE  TypeOK'
  <1> USE DEF TypeOK
  <1>1. CASE SweepTimer
    <2>1. [Idle EXCEPT !.op = "sweepExpired", !.at = now] \in JobRecords
      BY IdleJob DEF JobRecords, Ops, Idle
    <2>2. Sweeper \in Jobs
      BY DEF Jobs
    <2> QED
      BY <1>1, <2>1, <2>2, EnqueueType DEF SweepTimer, store, history
  <1>2. CASE Tick
    <2>1. now' \in Times
      BY <1>2, BoundsAreNat DEF Tick, Times
    <2> QED
      BY <1>2, <2>1 DEF Tick, store, queueVars, history
  <1>3. CASE UNCHANGED vars
    BY <1>3 DEF vars, store, queueVars, history
  <1> QED
    BY <1>1, <1>2, <1>3

LEMMA TypeStep == IInv /\ [Next]_vars => TypeOK'
  <1> SUFFICES ASSUME IInv, [Next]_vars PROVE TypeOK'
    OBVIOUS
  <1> QED
    BY RequestType, MutationType, ContinuationType, TimerType DEF IInv, Next

-----------------------------------------------------------------------------
(***************************************************************************)
(* What a step may do to a token: keep it, drop it, or write the record of *)
(* the minting job whose mutation is applied.                              *)
(***************************************************************************)

AccessChange(p) ==
    \/ accessTokens'[p] = accessTokens[p]
    \/ accessTokens'[p] = None
    \/ \E j \in Jobs : /\ job[j].op = "saveAccessToken"
                       /\ accessTokens'[p] = AccessRecord(job[j])

RefreshChange(p) ==
    \/ refreshTokens'[p] = refreshTokens[p]
    \/ refreshTokens'[p] = None
    \/ \E j \in Jobs :
           \/ /\ job[j].op = "saveRefreshToken" /\ job[j].pair = p
              /\ refreshTokens'[p] = RefreshRecord(job[j])
           \/ /\ job[j].op = "updateRefreshToken"
              /\ refreshTokens'[p] = Tombstone(job[j])

LEMMA TokenChange ==
  ASSUME TypeOK, [Next]_vars, NEW p \in Pairs
  PROVE  AccessChange(p) /\ RefreshChange(p)
  <1> USE DEF AccessChange, RefreshChange
  <1>1. ASSUME NEW j \in Requests, Request(j)
        PROVE  UNCHANGED <<accessTokens, refreshTokens>>
    BY <1>1 DEF Request, RegisterClient, SignIn, ExchangeAuthorizationCode,
       ExchangeRefreshToken, ReuseRefreshToken, VerifyExpired, RevokeToken,
       HandleRevokedGrant, store
  <1>2. ASSUME NEW j \in Jobs, Continuation(j)
        PROVE  UNCHANGED <<accessTokens, refreshTokens>>
    BY <1>2 DEF Continuation, ThenMutateAgain, ThenIssueCode, ThenRespond, store
  <1>3. ASSUME SweepTimer \/ Tick \/ UNCHANGED vars
        PROVE  UNCHANGED <<accessTokens, refreshTokens>>
    BY <1>3 DEF SweepTimer, Tick, vars, store
  <1>4. ASSUME NEW j \in Jobs, Mutation(j)
        PROVE  AccessChange(p) /\ RefreshChange(p)
    <2>t. /\ accessTokens \in [Pairs -> AccessRecords \cup {None}]
          /\ refreshTokens \in [Pairs -> RefreshRecords \cup {None}]
      BY DEF TypeOK
    <2>1. CASE SaveClient(j) \/ UpsertUser(j) \/ UpdateUser(j)
      BY <2>1 DEF SaveClient, UpsertUser, UpdateUser, store
    <2>2. CASE SaveAccessToken(j)
      <3> DEFINE kept == EvictOldestIfAtCap(accessTokens, SubOf(accessTokens, job[j].sub),
                                            MaxTokensPerSub)
      <3>1. /\ kept \in [Pairs -> AccessRecords \cup {None}]
            /\ kept[p] = accessTokens[p] \/ kept[p] = None
        BY <2>t, EvictionType
      <3>2. accessTokens' = [kept EXCEPT ![job[j].pair] = AccessRecord(job[j])]
        BY <2>2 DEF SaveAccessToken, AccessRecord
      <3>3. job[j].op = "saveAccessToken" /\ refreshTokens' = refreshTokens
        BY <2>2 DEF SaveAccessToken, Dequeue
      <3>4. accessTokens'[p] = AccessRecord(job[j]) \/ accessTokens'[p] = kept[p]
        BY <3>1, <3>2
      <3> QED
        BY <3>1, <3>3, <3>4
    <2>3. CASE SaveRefreshToken(j)
      <3> DEFINE activeKept == EvictOldestIfAtCap(refreshTokens, Active(job[j].sub),
                                                  MaxTokensPerSub)
                 kept == EvictTombstones(activeKept, job[j].sub)
      <3>1. /\ activeKept \in [Pairs -> RefreshRecords \cup {None}]
            /\ activeKept[p] = refreshTokens[p] \/ activeKept[p] = None
        BY <2>t, EvictionType
      <3>2. /\ kept \in [Pairs -> RefreshRecords \cup {None}]
            /\ kept[p] = activeKept[p] \/ kept[p] = None
        BY <3>1, EvictionType DEF EvictTombstones
      <3>3. refreshTokens' = [kept EXCEPT ![job[j].pair] = RefreshRecord(job[j])]
        BY <2>3 DEF SaveRefreshToken, RefreshRecord, RefreshScopes
      <3>4. job[j].op = "saveRefreshToken" /\ accessTokens' = accessTokens
        BY <2>3 DEF SaveRefreshToken, Dequeue
      <3>5. \/ job[j].pair = p /\ refreshTokens'[p] = RefreshRecord(job[j])
            \/ refreshTokens'[p] = kept[p]
        BY <3>2, <3>3
      <3> QED
        BY <3>1, <3>2, <3>4, <3>5
    <2>4. CASE UpdateRefreshToken(j)
      BY <2>4, <2>t DEF UpdateRefreshToken, Dequeue
    <2>5. CASE DeleteAccessToken(j)
      BY <2>5, <2>t DEF DeleteAccessToken
    <2>6. CASE RevokeTokenFamily(j)
      BY <2>6 DEF RevokeTokenFamily, Without
    <2>7. CASE RevokeTokensForSub(j)
      BY <2>7 DEF RevokeTokensForSub, Without
    <2>8. CASE SweepExpired(j)
      BY <2>8 DEF SweepExpired, Without
    <2> QED
      BY <1>4, <2>1, <2>2, <2>3, <2>4, <2>5, <2>6, <2>7, <2>8 DEF Mutation
  <1> QED
    BY <1>1, <1>2, <1>3, <1>4 DEF Next

\* A token that a step writes carries the grant of its job, so a step keeps
\* every token within the sign-in of its family.
LEMMA GrantStep == IInv /\ [Next]_vars => TokensKeepTheirGrant'
  <1> SUFFICES ASSUME IInv, [Next]_vars, NEW p \in Pairs
               PROVE  /\ accessTokens'[p] # None =>
                             LET t == accessTokens'[p]  g == CodeGrant[t.family]
                             IN  /\ t.client = g.client /\ t.sub = g.sub
                                 /\ t.scopes \subseteq g.scopes
                      /\ refreshTokens'[p] # None =>
                             LET t == refreshTokens'[p]  g == CodeGrant[t.family]
                             IN  t.client = g.client /\ t.sub = g.sub /\ t.scopes = g.scopes
    BY DEF TokensKeepTheirGrant
  <1> USE DEF IInv
  <1>1. ASSUME NEW j \in Jobs, job[j].op \in MintOps
        PROVE  /\ job[j].client = CodeGrant[job[j].code].client
               /\ job[j].sub = CodeGrant[job[j].code].sub
               /\ job[j].scopes = CodeGrant[job[j].code].scopes
               /\ job[j].accessScopes \subseteq CodeGrant[job[j].code].scopes
    BY <1>1 DEF JobsKeepTheirGrant, KeepsGrant
  <1>2. AccessChange(p) /\ RefreshChange(p)
    BY TokenChange
  <1>3. accessTokens'[p] # None =>
            LET t == accessTokens'[p]  g == CodeGrant[t.family]
            IN  /\ t.client = g.client /\ t.sub = g.sub
                /\ t.scopes \subseteq g.scopes
    <2>1. CASE accessTokens'[p] = accessTokens[p]
      BY <2>1 DEF TokensKeepTheirGrant
    <2>2. ASSUME NEW j \in Jobs, job[j].op = "saveAccessToken",
                 accessTokens'[p] = AccessRecord(job[j])
          PROVE  LET t == accessTokens'[p]  g == CodeGrant[t.family]
                 IN  /\ t.client = g.client /\ t.sub = g.sub
                     /\ t.scopes \subseteq g.scopes
      <3>1. job[j].op \in MintOps
        BY <2>2 DEF MintOps
      <3> QED
        BY <1>1, <2>2, <3>1 DEF AccessRecord
    <2> QED
      BY <1>2, <2>1, <2>2 DEF AccessChange
  <1>4. refreshTokens'[p] # None =>
            LET t == refreshTokens'[p]  g == CodeGrant[t.family]
            IN  t.client = g.client /\ t.sub = g.sub /\ t.scopes = g.scopes
    <2>1. CASE refreshTokens'[p] = refreshTokens[p]
      BY <2>1 DEF TokensKeepTheirGrant
    <2>2. ASSUME NEW j \in Jobs, job[j].op = "saveRefreshToken",
                 refreshTokens'[p] = RefreshRecord(job[j])
          PROVE  LET t == refreshTokens'[p]  g == CodeGrant[t.family]
                 IN  t.client = g.client /\ t.sub = g.sub /\ t.scopes = g.scopes
      <3>1. job[j].op \in MintOps
        BY <2>2 DEF MintOps
      <3> QED
        BY <1>1, <2>2, <3>1 DEF RefreshRecord
    <2>3. ASSUME NEW j \in Jobs, job[j].op = "updateRefreshToken",
                 refreshTokens'[p] = Tombstone(job[j])
          PROVE  LET t == refreshTokens'[p]  g == CodeGrant[t.family]
                 IN  t.client = g.client /\ t.sub = g.sub /\ t.scopes = g.scopes
      <3>1. job[j].op \in MintOps
        BY <2>3 DEF MintOps
      <3>2. /\ Tombstone(job[j]).client = job[j].client
            /\ Tombstone(job[j]).sub = job[j].sub
            /\ Tombstone(job[j]).scopes = job[j].scopes
            /\ Tombstone(job[j]).family = job[j].code
        BY <2>3, <3>1, MintedRecords
      <3> QED
        BY <1>1, <2>3, <3>1, <3>2
    <2> QED
      BY <1>2, <2>1, <2>2, <2>3 DEF RefreshChange
  <1> QED
    BY <1>3, <1>4

-----------------------------------------------------------------------------
(***************************************************************************)
(* What a step may do to a job: leave it, finish it, hand it its next      *)
(* mutation, or start a request.                                           *)
(***************************************************************************)

\* Requests of the shapes the handlers queue.
NewRevocation(rec) ==
    \E p \in Pairs : /\ refreshTokens[p] # None
                     /\ rec = [Idle EXCEPT !.op = "revokeTokenFamily",
                                           !.code = refreshTokens[p].family]

NewSignIn(rec) ==
    \E c \in Codes : /\ codes[c] = "unissued"
                     /\ \A i \in Jobs : ~(job[i].op = "upsertUser" /\ job[i].code = c)
                     /\ rec = [Idle EXCEPT !.op = "upsertUser", !.code = c,
                                           !.sub = CodeGrant[c].sub]

NewMint(rec) ==
    /\ minted < MaxPairs /\ minted' = minted + 1
    /\ \/ \E c \in Codes :
              /\ codes[c] = "live"
              /\ codes' = [codes EXCEPT ![c] = "consumed"]
              /\ rec = MintTokenPair(CodeGrant[c], c, CodeGrant[c].scopes, 0, None)
       \/ \E p \in Pairs, scopes \in SUBSET Scopes :
              /\ refreshTokens[p] # None
              /\ scopes \subseteq refreshTokens[p].scopes
              /\ rec = MintTokenPair(refreshTokens[p], refreshTokens[p].family, scopes, p,
                                     refreshTokens[p])

NewOther(rec) ==
    /\ rec.op \in {"saveClient", "deleteAccessToken", "updateUser", "sweepExpired"}
    /\ rec.op = "saveClient" =>
           /\ rec.client \in Clients /\ rec.client \notin known
           /\ \A i \in Jobs : ~(job[i].op = "saveClient" /\ job[i].client = rec.client)

JobChange(j) ==
    \/ job'[j] = job[j]
    \/ job'[j] = Idle
    \/ /\ NextOp(job[j]) # "idle"
       /\ job'[j] = [job[j] EXCEPT !.op = NextOp(job[j])]
    \/ NewRevocation(job'[j])
    \/ NewSignIn(job'[j])
    \/ NewMint(job'[j])
    \/ NewOther(job'[j])

\* At most one job changes in a step.
LEMMA OneJob ==
  ASSUME TypeOK, [Next]_vars
  PROVE  \E j \in Jobs : /\ JobChange(j)
                         /\ \A i \in Jobs \ {j} : job'[i] = job[i]
  <1> USE DEF TypeOK
  <1>0. Sweeper \in Jobs /\ \A j \in Requests : j \in Jobs
    BY DEF Jobs
  <1>e. ASSUME NEW j \in Jobs, NEW rec, Enqueue(j, rec)
        PROVE  job'[j] = rec /\ \A i \in Jobs \ {j} : job'[i] = job[i]
    BY <1>e DEF Enqueue
  <1>1. ASSUME NEW j \in Requests, Request(j)
        PROVE  JobChange(j) /\ \A i \in Jobs \ {j} : job'[i] = job[i]
    <2>0. j \in Jobs
      BY <1>0
    <2>1. ASSUME NEW k \in Clients, RegisterClient(j, k)
          PROVE  JobChange(j) /\ \A i \in Jobs \ {j} : job'[i] = job[i]
      <3> DEFINE rec == [Idle EXCEPT !.op = "saveClient", !.client = k]
      <3>1. rec.op = "saveClient" /\ rec.client = k
        BY DEF Idle
      <3>2. /\ Enqueue(j, rec) /\ k \notin known
            /\ \A i \in Jobs : ~(job[i].op = "saveClient" /\ job[i].client = k)
        BY <2>1 DEF RegisterClient
      <3>3. job'[j] = rec /\ \A i \in Jobs \ {j} : job'[i] = job[i]
        BY <2>0, <3>2, <1>e
      <3> QED
        BY <3>1, <3>2, <3>3 DEF JobChange, NewOther
    <2>2. ASSUME NEW c \in Codes, SignIn(j, c)
          PROVE  JobChange(j) /\ \A i \in Jobs \ {j} : job'[i] = job[i]
      BY <2>0, <2>2, <1>e DEF SignIn, JobChange, NewSignIn
    <2>3. ASSUME NEW c \in Codes, NEW k \in Clients, NEW matches \in BOOLEAN,
                 ExchangeAuthorizationCode(j, c, k, matches)
          PROVE  JobChange(j) /\ \A i \in Jobs \ {j} : job'[i] = job[i]
      BY <2>0, <2>3, <1>e DEF ExchangeAuthorizationCode, JobChange, NewMint
    <2>4. ASSUME NEW p \in Pairs, NEW k \in Clients, NEW wanted \in SUBSET Scopes,
                 ExchangeRefreshToken(j, p, k, wanted)
          PROVE  JobChange(j) /\ \A i \in Jobs \ {j} : job'[i] = job[i]
      <3> DEFINE r == refreshTokens[p]
                 scopes == IF wanted = {} THEN r.scopes ELSE wanted
                 rec == MintTokenPair(r, r.family, scopes, p, r)
      <3>1. /\ r # None /\ wanted \subseteq r.scopes
            /\ minted < MaxPairs /\ minted' = minted + 1
        BY <2>4 DEF ExchangeRefreshToken, Presented
      <3>2. scopes \in SUBSET Scopes /\ scopes \subseteq r.scopes
        BY <3>1 DEF RefreshRecords
      <3>3. Enqueue(j, rec)
        BY <2>4 DEF ExchangeRefreshToken
      <3>4. job'[j] = rec /\ \A i \in Jobs \ {j} : job'[i] = job[i]
        BY <2>0, <3>3, <1>e
      <3>5. NewMint(rec)
        BY <3>1, <3>2 DEF NewMint
      <3> QED
        BY <3>4, <3>5 DEF JobChange
    <2>5. ASSUME NEW p \in Pairs, NEW k \in Clients, ReuseRefreshToken(j, p, k)
          PROVE  JobChange(j) /\ \A i \in Jobs \ {j} : job'[i] = job[i]
      BY <2>0, <2>5, <1>e DEF ReuseRefreshToken, Presented, JobChange, NewRevocation
    <2>d. ASSUME NEW p \in Pairs,
                 Enqueue(j, [Idle EXCEPT !.op = "deleteAccessToken", !.pair = p])
          PROVE  JobChange(j) /\ \A i \in Jobs \ {j} : job'[i] = job[i]
      <3> DEFINE rec == [Idle EXCEPT !.op = "deleteAccessToken", !.pair = p]
      <3>1. rec.op = "deleteAccessToken"
        BY DEF Idle
      <3>2. job'[j] = rec /\ \A i \in Jobs \ {j} : job'[i] = job[i]
        BY <2>0, <2>d, <1>e
      <3> QED
        BY <3>1, <3>2 DEF JobChange, NewOther
    <2>6. ASSUME NEW p \in Pairs, VerifyExpired(j, p)
          PROVE  JobChange(j) /\ \A i \in Jobs \ {j} : job'[i] = job[i]
      BY <2>6, <2>d DEF VerifyExpired
    <2>7. ASSUME NEW p \in Pairs, NEW k \in Clients, RevokeToken(j, p, k)
          PROVE  JobChange(j) /\ \A i \in Jobs \ {j} : job'[i] = job[i]
      <3>1. CASE Enqueue(j, [Idle EXCEPT !.op = "deleteAccessToken", !.pair = p])
        BY <3>1, <2>d
      <3>2. CASE /\ refreshTokens[p] # None
                 /\ Enqueue(j, [Idle EXCEPT !.op = "revokeTokenFamily",
                                            !.code = refreshTokens[p].family])
        BY <2>0, <3>2, <1>e DEF JobChange, NewRevocation
      <3> QED
        BY <2>7, <3>1, <3>2 DEF RevokeToken
    <2>8. ASSUME NEW s \in Subs, HandleRevokedGrant(j, s)
          PROVE  JobChange(j) /\ \A i \in Jobs \ {j} : job'[i] = job[i]
      <3> DEFINE rec == [Idle EXCEPT !.op = "updateUser", !.sub = s]
      <3>1. rec.op = "updateUser"
        BY DEF Idle
      <3>2. Enqueue(j, rec)
        BY <2>8 DEF HandleRevokedGrant
      <3>3. job'[j] = rec /\ \A i \in Jobs \ {j} : job'[i] = job[i]
        BY <2>0, <3>2, <1>e
      <3> QED
        BY <3>1, <3>3 DEF JobChange, NewOther
    <2> QED
      BY <1>1, <2>1, <2>2, <2>3, <2>4, <2>5, <2>6, <2>7, <2>8 DEF Request
  <1>2. ASSUME NEW j \in Jobs, Continuation(j)
        PROVE  JobChange(j) /\ \A i \in Jobs \ {j} : job'[i] = job[i]
    <2>1. CASE ThenMutateAgain(j)
      BY <2>1, <1>e DEF ThenMutateAgain, JobChange
    <2>2. CASE ThenIssueCode(j) \/ ThenRespond(j)
      BY <2>2 DEF ThenIssueCode, ThenRespond, JobChange
    <2> QED
      BY <1>2, <2>1, <2>2 DEF Continuation
  <1>3. ASSUME NEW j \in Jobs, Mutation(j) PROVE job' = job
    BY <1>3 DEF Mutation, SaveClient, UpsertUser, SaveAccessToken, SaveRefreshToken,
       UpdateRefreshToken, DeleteAccessToken, RevokeTokenFamily, UpdateUser,
       RevokeTokensForSub, SweepExpired
  <1>4. ASSUME SweepTimer
        PROVE  JobChange(Sweeper) /\ \A i \in Jobs \ {Sweeper} : job'[i] = job[i]
    <2> DEFINE rec == [Idle EXCEPT !.op = "sweepExpired", !.at = now]
    <2>1. rec.op = "sweepExpired"
      BY DEF Idle
    <2>2. Enqueue(Sweeper, rec)
      BY <1>4 DEF SweepTimer
    <2>3. job'[Sweeper] = rec /\ \A i \in Jobs \ {Sweeper} : job'[i] = job[i]
      BY <1>0, <2>2, <1>e
    <2> QED
      BY <2>1, <2>3 DEF JobChange, NewOther
  <1>5. ASSUME Tick \/ UNCHANGED vars PROVE job' = job
    BY <1>5 DEF Tick, vars
  <1>6. ASSUME job' = job
        PROVE  \E j \in Jobs : JobChange(j) /\ \A i \in Jobs \ {j} : job'[i] = job[i]
    BY <1>0, <1>6 DEF JobChange
  <1> QED
    BY <1>0, <1>1, <1>2, <1>3, <1>4, <1>5, <1>6 DEF Next

\* A job given its next mutation keeps everything else it holds.
LEMMA NextMutation ==
  ASSUME NEW rec \in JobRecords
  PROVE  LET next == [rec EXCEPT !.op = NextOp(rec)]
         IN  /\ next.op = NextOp(rec) /\ next.client = rec.client /\ next.sub = rec.sub
             /\ next.code = rec.code /\ next.scopes = rec.scopes
             /\ next.accessScopes = rec.accessScopes /\ next.pair = rec.pair
             /\ next.parent = rec.parent /\ next.old = rec.old
  BY DEF JobRecords

LEMMA NextOps ==
  ASSUME NEW rec, NextOp(rec) # "idle"
  PROVE  /\ NextOp(rec) \in MintOps => rec.op \in MintOps
         /\ NextOp(rec) = "updateRefreshToken" => rec.parent # 0
         /\ NextOp(rec) \in MintOps \cup {"revokeTokensForSub"}
  BY DEF NextOp, MintOps, Rotates

\* A new mint is of the grant it is made from, and its family's code is spent.
LEMMA NewMintFits ==
  ASSUME IInv, NEW rec, NewMint(rec)
  PROVE  /\ KeepsGrant(rec)
         /\ rec.op = "saveAccessToken" /\ rec.code \in Codes
         /\ \/ codes' = [codes EXCEPT ![rec.code] = "consumed"] /\ codes[rec.code] = "live"
            \/ /\ codes[rec.code] = "consumed"
               /\ FamilyOf(refreshTokens, rec.code) # {}
  <1> USE DEF IInv
  <1>1. minted + 1 \in Pairs
    BY BoundsAreNat DEF NewMint, TypeOK, Pairs
  <1>2. ASSUME NEW c \in Codes, codes[c] = "live",
               codes' = [codes EXCEPT ![c] = "consumed"],
               rec = MintTokenPair(CodeGrant[c], c, CodeGrant[c].scopes, 0, None)
        PROVE  /\ KeepsGrant(rec)
               /\ rec.op = "saveAccessToken" /\ rec.code = c
    BY <1>1, <1>2 DEF MintTokenPair, KeepsGrant
  <1>3. ASSUME NEW p \in Pairs, NEW scopes \in SUBSET Scopes, refreshTokens[p] # None,
               scopes \subseteq refreshTokens[p].scopes,
               rec = MintTokenPair(refreshTokens[p], refreshTokens[p].family, scopes, p,
                                   refreshTokens[p])
        PROVE  /\ KeepsGrant(rec)
               /\ rec.op = "saveAccessToken" /\ rec.code \in Codes
               /\ codes[rec.code] = "consumed"
               /\ FamilyOf(refreshTokens, rec.code) # {}
    <2> DEFINE r == refreshTokens[p]
    <2>1. r \in RefreshRecords
      BY <1>3 DEF TypeOK
    <2>2. r.family \in Codes
      BY <2>1 DEF RefreshRecords
    <2>3. /\ r.client = CodeGrant[r.family].client /\ r.sub = CodeGrant[r.family].sub
          /\ r.scopes = CodeGrant[r.family].scopes
      BY <1>3 DEF TokensKeepTheirGrant
    <2>4. /\ rec.op = "saveAccessToken" /\ rec.code = r.family /\ rec.client = r.client
          /\ rec.sub = r.sub /\ rec.scopes = r.scopes /\ rec.accessScopes = scopes
          /\ rec.pair = minted + 1 /\ rec.old = r /\ rec.parent = p
      BY <1>3 DEF MintTokenPair
    <2>5. KeepsGrant(rec)
      BY <1>1, <1>3, <2>1, <2>2, <2>3, <2>4 DEF KeepsGrant
    <2>6. codes[r.family] = "consumed"
      BY <1>3 DEF FamiliesAreConsumed
    <2>7. p \in FamilyOf(refreshTokens, r.family)
      BY <1>3 DEF FamilyOf
    <2> QED
      BY <2>2, <2>4, <2>5, <2>6, <2>7
  <1> QED
    BY <1>2, <1>3 DEF NewMint

LEMMA JobsStep == IInv /\ [Next]_vars => JobsKeepTheirGrant'
  <1> SUFFICES ASSUME IInv, [Next]_vars, NEW i \in Jobs PROVE KeepsGrant(job'[i])
    BY DEF JobsKeepTheirGrant, KeepsGrant
  <1>0. KeepsGrant(job[i]) /\ job[i] \in JobRecords
    BY DEF IInv, JobsKeepTheirGrant, TypeOK
  <1>1. PICK j \in Jobs : /\ JobChange(j)
                         /\ \A l \in Jobs \ {j} : job'[l] = job[l]
    BY OneJob DEF IInv
  <1>2. CASE job'[i] = job[i]
    BY <1>0, <1>2
  <1>3. CASE job'[i] = Idle
    BY <1>3 DEF KeepsGrant, Idle, MintOps
  <1>4. CASE NextOp(job[i]) # "idle" /\ job'[i] = [job[i] EXCEPT !.op = NextOp(job[i])]
    <2>1. /\ job'[i].op = NextOp(job[i]) /\ job'[i].client = job[i].client
          /\ job'[i].sub = job[i].sub /\ job'[i].code = job[i].code
          /\ job'[i].scopes = job[i].scopes /\ job'[i].accessScopes = job[i].accessScopes
          /\ job'[i].pair = job[i].pair /\ job'[i].parent = job[i].parent
          /\ job'[i].old = job[i].old
      BY <1>0, <1>4, NextMutation
    <2>2. /\ NextOp(job[i]) \in MintOps => job[i].op \in MintOps
          /\ NextOp(job[i]) = "updateRefreshToken" => job[i].parent # 0
          /\ NextOp(job[i]) # "saveClient"
      BY <1>4, NextOps DEF MintOps
    <2> QED
      BY <1>0, <2>1, <2>2 DEF KeepsGrant
  <1>5. CASE NewRevocation(job'[i])
    <2>1. job'[i].op = "revokeTokenFamily"
      BY <1>5 DEF NewRevocation, Idle
    <2> QED
      BY <2>1 DEF KeepsGrant, MintOps
  <1>6. CASE NewSignIn(job'[i])
    <2>1. job'[i].op = "upsertUser"
      BY <1>6 DEF NewSignIn, Idle
    <2> QED
      BY <2>1 DEF KeepsGrant, MintOps
  <1>7. CASE NewMint(job'[i])
    BY <1>7, NewMintFits
  <1>8. CASE NewOther(job'[i])
    BY <1>8 DEF NewOther, KeepsGrant, MintOps
  <1> QED
    BY <1>1, <1>2, <1>3, <1>4, <1>5, <1>6, <1>7, <1>8 DEF JobChange

-----------------------------------------------------------------------------
(***************************************************************************)
(* Codes only move from unissued to live to consumed.                      *)
(***************************************************************************)

LEMMA CodeChange ==
  ASSUME IInv, [Next]_vars, NEW c \in Codes
  PROVE  \/ codes'[c] = codes[c]
         \/ codes[c] = "live" /\ codes'[c] = "consumed"
         \/ /\ codes[c] = "unissued"
            /\ \E j \in Jobs : /\ job[j].op = "upsertUser" /\ job[j].code = c
                               /\ job' = [job EXCEPT ![j] = Idle]
  <1>t. codes \in [Codes -> {"unissued", "live", "consumed"}]
    BY DEF IInv, TypeOK
  <1>1. ASSUME NEW j \in Requests, Request(j)
        PROVE  \/ codes' = codes
               \/ \E d \in Codes : codes[d] = "live" /\ codes' = [codes EXCEPT ![d] = "consumed"]
    BY <1>1 DEF Request, RegisterClient, SignIn, ExchangeAuthorizationCode,
       ExchangeRefreshToken, ReuseRefreshToken, VerifyExpired, RevokeToken,
       HandleRevokedGrant
  <1>2. ASSUME NEW j \in Jobs, Mutation(j) PROVE codes' = codes
    BY <1>2 DEF Mutation, SaveClient, UpsertUser, SaveAccessToken, SaveRefreshToken,
       UpdateRefreshToken, DeleteAccessToken, RevokeTokenFamily, UpdateUser,
       RevokeTokensForSub, SweepExpired
  <1>3. ASSUME NEW j \in Jobs, ThenMutateAgain(j) \/ ThenRespond(j) PROVE codes' = codes
    BY <1>3 DEF ThenMutateAgain, ThenRespond
  <1>4. ASSUME NEW j \in Jobs, ThenIssueCode(j)
        PROVE  /\ job[j].op = "upsertUser" /\ codes[job[j].code] = "unissued"
               /\ codes' = [codes EXCEPT ![job[j].code] = "live"]
               /\ job' = [job EXCEPT ![j] = Idle]
    BY <1>4 DEF ThenIssueCode, IInv, FamiliesAreConsumed, FitsCodes
  <1>5. ASSUME SweepTimer \/ Tick \/ UNCHANGED vars PROVE codes' = codes
    BY <1>5 DEF SweepTimer, Tick, vars
  <1>6. ASSUME NEW d \in Codes, codes[d] = "live", codes' = [codes EXCEPT ![d] = "consumed"]
        PROVE  codes'[c] = codes[c] \/ (codes[c] = "live" /\ codes'[c] = "consumed")
    <2>1. codes'[d] = "consumed"
      BY <1>t, <1>6
    <2>2. c # d => codes'[c] = codes[c]
      BY <1>t, <1>6
    <2> QED
      BY <1>6, <2>1, <2>2
  <1>7. ASSUME NEW j \in Jobs, ThenIssueCode(j)
        PROVE  \/ codes'[c] = codes[c]
               \/ /\ codes[c] = "unissued" /\ job[j].op = "upsertUser" /\ job[j].code = c
                  /\ job' = [job EXCEPT ![j] = Idle]
    <2>1. CASE c = job[j].code
      BY <1>4, <1>7, <2>1
    <2>2. CASE c # job[j].code
      BY <1>t, <1>4, <1>7, <2>2
    <2> QED
      BY <2>1, <2>2
  <1> QED
    BY <1>1, <1>2, <1>3, <1>5, <1>6, <1>7 DEF Next, Continuation

LEMMA SpentStaysSpent ==
  ASSUME IInv, [Next]_vars, NEW c \in Codes, codes[c] = "consumed"
  PROVE  codes'[c] = "consumed"
  BY CodeChange

\* A family becomes cleanly revoked only by a revocation of it that finds no
\* exchange of it in flight.
LEMMA RevokedChange ==
  ASSUME IInv, [Next]_vars, NEW c \in Codes, revoked'[c] = "clean"
  PROVE  \/ revoked[c] = "clean"
         \/ \E j \in Jobs : /\ \/ RevokeTokenFamily(j) /\ job[j].code = c
                               \/ /\ RevokeTokensForSub(j)
                                  /\ codes[c] = "consumed" /\ CodeGrant[c].sub = job[j].sub
                            /\ \A i \in Jobs : ~Minting(i, c)
  <1>t. revoked \in [Codes -> {"no", "racing", "clean"}]
    BY DEF IInv, TypeOK
  <1>1. ASSUME NEW j \in Requests, Request(j) PROVE revoked' = revoked
    BY <1>1 DEF Request, RegisterClient, SignIn, ExchangeAuthorizationCode,
       ExchangeRefreshToken, ReuseRefreshToken, VerifyExpired, RevokeToken,
       HandleRevokedGrant, history
  <1>2. ASSUME NEW j \in Jobs, Continuation(j) PROVE revoked' = revoked
    BY <1>2 DEF Continuation, ThenMutateAgain, ThenIssueCode, ThenRespond, history
  <1>3. ASSUME SweepTimer \/ Tick \/ UNCHANGED vars PROVE revoked' = revoked
    BY <1>3 DEF SweepTimer, Tick, vars, history
  <1>r. ASSUME Revocation(c) = "clean" PROVE \A i \in Jobs : ~Minting(i, c)
    BY <1>r DEF Revocation
  <1>4. ASSUME NEW j \in Jobs, RevokeTokenFamily(j)
        PROVE  \/ revoked'[c] = revoked[c]
               \/ job[j].code = c /\ \A i \in Jobs : ~Minting(i, c)
    <2>1. revoked' = [revoked EXCEPT ![job[j].code] = Revocation(job[j].code)]
      BY <1>4 DEF RevokeTokenFamily
    <2>2. CASE job[j].code = c
      BY <1>t, <1>r, <2>1, <2>2
    <2>3. CASE job[j].code # c
      BY <1>t, <2>1, <2>3
    <2> QED
      BY <2>2, <2>3
  <1>5. ASSUME NEW j \in Jobs, RevokeTokensForSub(j)
        PROVE  \/ revoked'[c] = revoked[c]
               \/ /\ codes[c] = "consumed" /\ CodeGrant[c].sub = job[j].sub
                  /\ \A i \in Jobs : ~Minting(i, c)
    BY <1>5, <1>r DEF RevokeTokensForSub
  <1>6. ASSUME NEW j \in Jobs, Mutation(j), ~RevokeTokenFamily(j), ~RevokeTokensForSub(j)
        PROVE  revoked' = revoked
    BY <1>6 DEF Mutation, SaveClient, UpsertUser, SaveAccessToken, SaveRefreshToken,
       UpdateRefreshToken, DeleteAccessToken, UpdateUser, SweepExpired, history
  <1> QED
    BY <1>1, <1>2, <1>3, <1>4, <1>5, <1>6 DEF Next

LEMMA FamiliesStep == IInv /\ [Next]_vars => FamiliesAreConsumed'
  <1> SUFFICES ASSUME IInv, [Next]_vars PROVE FamiliesAreConsumed'
    OBVIOUS
  <1> USE DEF IInv
  <1>1. ASSUME NEW p \in Pairs, accessTokens'[p] # None
        PROVE  codes'[accessTokens'[p].family] = "consumed"
    <2>1. CASE accessTokens'[p] = accessTokens[p]
      <3>1. accessTokens[p].family \in Codes
        BY <1>1, <2>1 DEF TypeOK, AccessRecords
      <3> QED
        BY <1>1, <2>1, <3>1, SpentStaysSpent DEF FamiliesAreConsumed
    <2>2. ASSUME NEW j \in Jobs, job[j].op = "saveAccessToken",
                 accessTokens'[p] = AccessRecord(job[j])
          PROVE  codes'[accessTokens'[p].family] = "consumed"
      <3>1. job[j].code \in Codes /\ codes[job[j].code] = "consumed"
        BY <2>2 DEF FamiliesAreConsumed, FitsCodes, MintOps
      <3>2. accessTokens'[p].family = job[j].code
        BY <2>2 DEF AccessRecord
      <3> QED
        BY <3>1, <3>2, SpentStaysSpent
    <2> QED
      BY <1>1, <2>1, <2>2, TokenChange DEF AccessChange
  <1>2. ASSUME NEW p \in Pairs, refreshTokens'[p] # None
        PROVE  codes'[refreshTokens'[p].family] = "consumed"
    <2>1. CASE refreshTokens'[p] = refreshTokens[p]
      <3>1. refreshTokens[p].family \in Codes
        BY <1>2, <2>1 DEF TypeOK, RefreshRecords
      <3> QED
        BY <1>2, <2>1, <3>1, SpentStaysSpent DEF FamiliesAreConsumed
    <2>2. ASSUME NEW j \in Jobs,
                 \/ /\ job[j].op = "saveRefreshToken"
                    /\ refreshTokens'[p] = RefreshRecord(job[j])
                 \/ /\ job[j].op = "updateRefreshToken"
                    /\ refreshTokens'[p] = Tombstone(job[j])
          PROVE  codes'[refreshTokens'[p].family] = "consumed"
      <3>1. job[j].op \in MintOps
        BY <2>2 DEF MintOps
      <3>2. job[j].code \in Codes /\ codes[job[j].code] = "consumed"
        BY <3>1 DEF FamiliesAreConsumed, FitsCodes
      <3>3. refreshTokens'[p].family = job[j].code
        BY <2>2, <3>1, MintedRecords DEF RefreshRecord
      <3> QED
        BY <3>2, <3>3, SpentStaysSpent
    <2> QED
      BY <1>2, <2>1, <2>2, TokenChange DEF RefreshChange
  <1>j. PICK j \in Jobs : /\ JobChange(j)
                         /\ \A i \in Jobs \ {j} : job'[i] = job[i]
    BY OneJob
  <1>u. ASSUME NEW i \in Jobs, job'[i] = job[i] PROVE FitsCodes(job[i])'
    <2>1. FitsCodes(job[i])
      BY DEF FamiliesAreConsumed
    <2>2. job[i].op \in MintOps \cup {"revokeTokenFamily"} =>
              job[i].code \in Codes /\ codes'[job[i].code] = "consumed"
      BY <2>1, SpentStaysSpent DEF FitsCodes
    <2>3. ASSUME job[i].op = "upsertUser"
          PROVE  job[i].code \in Codes /\ codes'[job[i].code] = "unissued"
      <3>1. job[i].code \in Codes /\ codes[job[i].code] = "unissued"
        BY <2>1, <2>3 DEF FitsCodes
      <3>2. ASSUME NEW l \in Jobs, job[l].op = "upsertUser", job[l].code = job[i].code,
                   job' = [job EXCEPT ![l] = Idle]
            PROVE  FALSE
        <4>1. l = i
          BY <2>3, <3>2 DEF FamiliesAreConsumed
        <4>2. job'[i] = Idle
          BY <3>2, <4>1 DEF TypeOK
        <4> QED
          BY <1>u, <2>3, <4>2 DEF Idle
      <3> QED
        BY <3>1, <3>2, CodeChange
    <2> QED
      BY <1>u, <2>2, <2>3 DEF FitsCodes
  <1>n. ASSUME NewSignIn(job'[j])
        PROVE  /\ job'[j].op = "upsertUser" /\ job'[j].code \in Codes
               /\ codes'[job'[j].code] = "unissued"
               /\ \A i \in Jobs : ~(job[i].op = "upsertUser" /\ job[i].code = job'[j].code)
    <2>1. PICK c \in Codes :
              /\ codes[c] = "unissued"
              /\ \A i \in Jobs : ~(job[i].op = "upsertUser" /\ job[i].code = c)
              /\ job'[j] = [Idle EXCEPT !.op = "upsertUser", !.code = c,
                                        !.sub = CodeGrant[c].sub]
      BY <1>n DEF NewSignIn
    <2>2. job'[j].op = "upsertUser" /\ job'[j].code = c
      BY <2>1 DEF Idle
    <2>3. codes'[c] = "unissued"
      BY <2>1, CodeChange
    <2> QED
      BY <2>1, <2>2, <2>3
  <1>3. FitsCodes(job[j])'
    <2>1. CASE job'[j] = job[j]
      BY <2>1, <1>u
    <2>2. CASE job'[j] = Idle
      BY <2>2 DEF FitsCodes, Idle, MintOps
    <2>3. CASE NextOp(job[j]) # "idle" /\ job'[j] = [job[j] EXCEPT !.op = NextOp(job[j])]
      <3>1. job'[j].op = NextOp(job[j]) /\ job'[j].code = job[j].code
        BY <2>3, NextMutation DEF TypeOK
      <3>2. /\ NextOp(job[j]) \in MintOps => job[j].op \in MintOps
            /\ NextOp(job[j]) \notin {"upsertUser", "revokeTokenFamily"}
        BY <2>3, NextOps DEF MintOps
      <3>3. job[j].op \in MintOps => job[j].code \in Codes /\ codes[job[j].code] = "consumed"
        BY DEF FamiliesAreConsumed, FitsCodes
      <3> QED
        BY <3>1, <3>2, <3>3, SpentStaysSpent DEF FitsCodes
    <2>4. CASE NewRevocation(job'[j])
      <3>1. PICK p \in Pairs :
                /\ refreshTokens[p] # None
                /\ job'[j] = [Idle EXCEPT !.op = "revokeTokenFamily",
                                          !.code = refreshTokens[p].family]
        BY <2>4 DEF NewRevocation
      <3>2. job'[j].op = "revokeTokenFamily" /\ job'[j].code = refreshTokens[p].family
        BY <3>1 DEF Idle
      <3>3. refreshTokens[p].family \in Codes
        BY <3>1 DEF TypeOK, RefreshRecords
      <3>4. codes'[refreshTokens[p].family] = "consumed"
        BY <3>1, <3>3, SpentStaysSpent DEF FamiliesAreConsumed
      <3> QED
        BY <3>2, <3>3, <3>4 DEF FitsCodes, MintOps
    <2>5. CASE NewSignIn(job'[j])
      BY <1>n, <2>5 DEF FitsCodes, MintOps
    <2>6. CASE NewMint(job'[j])
      <3>1. /\ job'[j].op = "saveAccessToken" /\ job'[j].code \in Codes
            /\ \/ codes' = [codes EXCEPT ![job'[j].code] = "consumed"]
               \/ codes[job'[j].code] = "consumed"
        BY <2>6, NewMintFits
      <3>2. codes'[job'[j].code] = "consumed"
        BY <3>1, SpentStaysSpent DEF TypeOK
      <3> QED
        BY <3>1, <3>2 DEF FitsCodes, MintOps
    <2>7. CASE NewOther(job'[j])
      BY <2>7 DEF NewOther, FitsCodes, MintOps
    <2> QED
      BY <1>j, <2>1, <2>2, <2>3, <2>4, <2>5, <2>6, <2>7 DEF JobChange
  <1>4. ASSUME NEW i \in Jobs PROVE FitsCodes(job[i])'
    BY <1>j, <1>u, <1>3
  <1>5. ASSUME job'[j].op = "upsertUser", NEW i \in Jobs \ {j}, job'[i].op = "upsertUser"
        PROVE  job'[i].code # job'[j].code
    <2>1. job'[i] = job[i]
      BY <1>j
    <2>2. CASE job'[j] = job[j]
      BY <1>5, <2>1, <2>2 DEF FamiliesAreConsumed
    <2>3. CASE NewSignIn(job'[j])
      BY <1>5, <1>n, <2>1, <2>3
    <2>4. CASE job'[j] = Idle \/ NewRevocation(job'[j]) \/ NewOther(job'[j])
      <3>1. NewRevocation(job'[j]) => job'[j].op = "revokeTokenFamily"
        BY DEF NewRevocation, Idle
      <3> QED
        BY <1>5, <2>4, <3>1 DEF Idle, NewOther
    <2>5. CASE NewMint(job'[j])
      BY <1>5, <2>5, NewMintFits
    <2>6. CASE NextOp(job[j]) # "idle" /\ job'[j] = [job[j] EXCEPT !.op = NextOp(job[j])]
      <3>1. job'[j].op = NextOp(job[j])
        BY <2>6, NextMutation DEF TypeOK
      <3> QED
        BY <1>5, <2>6, <3>1, NextOps DEF MintOps
    <2> QED
      BY <1>j, <2>2, <2>3, <2>4, <2>5, <2>6 DEF JobChange
  <1>6. ASSUME NEW i \in Jobs, NEW l \in Jobs, i # l,
               job'[i].op = "upsertUser", job'[l].op = "upsertUser"
        PROVE  job'[i].code # job'[l].code
    <2>1. CASE i = j \/ l = j
      BY <1>5, <1>6, <2>1
    <2>2. CASE i # j /\ l # j
      BY <1>j, <1>6, <2>2 DEF FamiliesAreConsumed
    <2> QED
      BY <2>1, <2>2
  <1>7. ASSUME NEW c \in Codes, revoked'[c] = "clean" PROVE codes'[c] = "consumed"
    <2>1. ASSUME NEW i \in Jobs, RevokeTokenFamily(i), job[i].code = c
          PROVE  codes[c] = "consumed"
      BY <2>1 DEF RevokeTokenFamily, Dequeue, FamiliesAreConsumed, FitsCodes
    <2>2. codes[c] = "consumed"
      BY <1>7, <2>1, RevokedChange DEF FamiliesAreConsumed
    <2> QED
      BY <2>2, SpentStaysSpent
  <1> QED
    BY <1>1, <1>2, <1>4, <1>6, <1>7 DEF FamiliesAreConsumed

-----------------------------------------------------------------------------
(***************************************************************************)
(* A clean revocation is final.                                            *)
(***************************************************************************)

LEMMA CleanStep == IInv /\ [Next]_vars => CleanRevocationIsFinal'
  <1> SUFFICES ASSUME IInv, [Next]_vars, NEW c \in Codes, revoked'[c] = "clean"
               PROVE  /\ \A p \in Pairs : accessTokens'[p] # None => accessTokens'[p].family # c
                      /\ \A p \in Pairs : refreshTokens'[p] # None => refreshTokens'[p].family # c
                      /\ \A j \in Jobs : job'[j].op \in MintOps => job'[j].code # c
    BY DEF CleanRevocationIsFinal, FamilyOf, Minting
  <1> USE DEF IInv
  <1>1. CASE revoked[c] = "clean"
    <2>1. /\ \A p \in Pairs : accessTokens[p] # None => accessTokens[p].family # c
          /\ \A p \in Pairs : refreshTokens[p] # None => refreshTokens[p].family # c
          /\ FamilyOf(refreshTokens, c) = {}
          /\ \A j \in Jobs : job[j].op \in MintOps => job[j].code # c
      BY <1>1 DEF CleanRevocationIsFinal, FamilyOf, Minting
    <2>2. codes[c] = "consumed"
      BY <1>1 DEF FamiliesAreConsumed
    <2>3. ASSUME NEW p \in Pairs, accessTokens'[p] # None PROVE accessTokens'[p].family # c
      <3>1. CASE accessTokens'[p] = accessTokens[p]
        BY <2>1, <2>3, <3>1
      <3>2. ASSUME NEW j \in Jobs, job[j].op = "saveAccessToken",
                   accessTokens'[p] = AccessRecord(job[j])
            PROVE  accessTokens'[p].family # c
        BY <2>1, <3>2 DEF AccessRecord, MintOps
      <3> QED
        BY <2>3, <3>1, <3>2, TokenChange DEF AccessChange
    <2>4. ASSUME NEW p \in Pairs, refreshTokens'[p] # None PROVE refreshTokens'[p].family # c
      <3>1. CASE refreshTokens'[p] = refreshTokens[p]
        BY <2>1, <2>4, <3>1
      <3>2. ASSUME NEW j \in Jobs,
                   \/ /\ job[j].op = "saveRefreshToken"
                      /\ refreshTokens'[p] = RefreshRecord(job[j])
                   \/ /\ job[j].op = "updateRefreshToken"
                      /\ refreshTokens'[p] = Tombstone(job[j])
            PROVE  refreshTokens'[p].family # c
        <4>1. job[j].op \in MintOps
          BY <3>2 DEF MintOps
        <4>2. refreshTokens'[p].family = job[j].code
          BY <3>2, <4>1, MintedRecords DEF RefreshRecord
        <4> QED
          BY <2>1, <4>1, <4>2
      <3> QED
        BY <2>4, <3>1, <3>2, TokenChange DEF RefreshChange
    <2>j. PICK j \in Jobs : /\ JobChange(j)
                           /\ \A i \in Jobs \ {j} : job'[i] = job[i]
      BY OneJob
    <2>5. ASSUME job'[j].op \in MintOps PROVE job'[j].code # c
      <3>1. CASE job'[j] = job[j]
        BY <2>1, <2>5, <3>1
      <3>2. CASE NextOp(job[j]) # "idle" /\ job'[j] = [job[j] EXCEPT !.op = NextOp(job[j])]
        <4>1. job'[j].op = NextOp(job[j]) /\ job'[j].code = job[j].code
          BY <3>2, NextMutation DEF TypeOK
        <4> QED
          BY <2>1, <2>5, <3>2, <4>1, NextOps
      <3>3. CASE NewMint(job'[j])
        <4>1. \/ codes[job'[j].code] = "live"
              \/ FamilyOf(refreshTokens, job'[j].code) # {}
          BY <3>3, NewMintFits
        <4> QED
          BY <2>1, <2>2, <4>1
      <3>4. CASE job'[j] = Idle \/ NewOther(job'[j])
        BY <2>5, <3>4 DEF Idle, NewOther, MintOps
      <3>5. CASE NewRevocation(job'[j])
        BY <2>5, <3>5 DEF NewRevocation, Idle, MintOps
      <3>6. CASE NewSignIn(job'[j])
        BY <2>5, <3>6 DEF NewSignIn, Idle, MintOps
      <3> QED
        BY <2>j, <3>1, <3>2, <3>3, <3>4, <3>5, <3>6 DEF JobChange
    <2> QED
      BY <2>1, <2>3, <2>4, <2>j, <2>5
  <1>2. ASSUME NEW j \in Jobs, \A i \in Jobs : ~Minting(i, c),
               \/ RevokeTokenFamily(j) /\ job[j].code = c
               \/ /\ RevokeTokensForSub(j)
                  /\ codes[c] = "consumed" /\ CodeGrant[c].sub = job[j].sub
        PROVE  /\ \A p \in Pairs : accessTokens'[p] # None => accessTokens'[p].family # c
               /\ \A p \in Pairs : refreshTokens'[p] # None => refreshTokens'[p].family # c
               /\ \A i \in Jobs : job'[i].op \in MintOps => job'[i].code # c
    <2>1. job' = job
      BY <1>2 DEF RevokeTokenFamily, RevokeTokensForSub
    <2>2. CASE RevokeTokenFamily(j) /\ job[j].code = c
      BY <1>2, <2>1, <2>2 DEF RevokeTokenFamily, Without, FamilyOf, Minting
    <2>3. CASE RevokeTokensForSub(j) /\ CodeGrant[c].sub = job[j].sub
      <3>1. ASSUME NEW p \in Pairs
            PROVE  /\ accessTokens[p] # None =>
                          accessTokens[p].sub = CodeGrant[accessTokens[p].family].sub
                   /\ refreshTokens[p] # None =>
                          refreshTokens[p].sub = CodeGrant[refreshTokens[p].family].sub
        BY DEF TokensKeepTheirGrant
      <3> QED
        BY <1>2, <2>1, <2>3, <3>1 DEF RevokeTokensForSub, Without, SubOf, Minting
    <2> QED
      BY <1>2, <2>2, <2>3
  <1> QED
    BY <1>1, <1>2, RevokedChange

LEMMA InvStep == IInv /\ [Next]_vars => IInv'
  BY TypeStep, GrantStep, JobsStep, FamiliesStep, CleanStep DEF IInv

-----------------------------------------------------------------------------
(***************************************************************************)
(* Theorems.                                                               *)
(***************************************************************************)

\* The inductive invariant holds in every reachable state.
THEOREM Invariance == Spec => []IInv
  BY InitInv, InvStep, PTL DEF Spec

\* Every variable keeps its type, for any number of requests in flight.
THEOREM TypeCorrect == Spec => []TypeOK
  <1>1. IInv => TypeOK
    BY DEF IInv
  <1> QED
    BY <1>1, Invariance, PTL

\* No token ever speaks for another member or client than its sign-in did, or
\* for more than was granted there.
THEOREM TokensStayWithinGrant == Spec => []TokensKeepTheirGrant
  <1>1. IInv => TokensKeepTheirGrant
    BY DEF IInv
  <1> QED
    BY <1>1, Invariance, PTL

\* A family revoked with no exchange of it in flight never comes back.
THEOREM CleanRevocation == Spec => []CleanRevocationIsFinal
  <1>1. IInv => CleanRevocationIsFinal
    BY DEF IInv
  <1> QED
    BY <1>1, Invariance, PTL

\* No interleaving of stale write-backs reactivates a refresh token.
THEOREM RotatedStaysRotated == Spec => NeverReactivated
  <1>1. ASSUME IInv, [Next]_vars
        PROVE  \A p \in Pairs : Saved(p) /\ ~ActiveToken(p) => ~ActiveToken(p)'
    <2> SUFFICES ASSUME NEW p \in Pairs, Saved(p), ~ActiveToken(p), ActiveToken(p)'
                 PROVE  FALSE
      OBVIOUS
    <2>1. CASE refreshTokens'[p] = refreshTokens[p]
      BY <2>1 DEF ActiveToken, Superseded
    <2>2. CASE refreshTokens'[p] = None
      BY <2>2 DEF ActiveToken
    <2>3. ASSUME NEW j \in Jobs, job[j].op = "saveRefreshToken", job[j].pair = p
          PROVE  FALSE
      BY <2>3 DEF Saved
    <2>4. ASSUME NEW j \in Jobs, job[j].op = "updateRefreshToken",
                 refreshTokens'[p] = Tombstone(job[j])
          PROVE  FALSE
      <3>1. Superseded(Tombstone(job[j]))
        BY <1>1, <2>4, MintedRecords DEF IInv, MintOps
      <3> QED
        BY <2>4, <3>1 DEF ActiveToken, Superseded
    <2> QED
      BY <1>1, <2>1, <2>2, <2>3, <2>4, TokenChange DEF IInv, RefreshChange
  <1> QED
    BY <1>1, Invariance, PTL DEF Spec, NeverReactivated

-----------------------------------------------------------------------------
(***************************************************************************)
(* A successor is saved before a tombstone names it.                       *)
(***************************************************************************)

\* Pairs are only counted up.
LEMMA MintedGrows ==
  ASSUME TypeOK, [Next]_vars
  PROVE  minted \in Nat /\ minted' \in Nat /\ minted <= minted'
  <1>0. minted \in Nat
    BY BoundsAreNat DEF TypeOK
  <1>1. ASSUME NEW j \in Requests, Request(j) PROVE minted' = minted \/ minted' = minted + 1
    BY <1>1 DEF Request, RegisterClient, SignIn, ExchangeAuthorizationCode,
       ExchangeRefreshToken, ReuseRefreshToken, VerifyExpired, RevokeToken,
       HandleRevokedGrant
  <1>2. ASSUME NEW j \in Jobs, Mutation(j) PROVE minted' = minted
    BY <1>2 DEF Mutation, SaveClient, UpsertUser, SaveAccessToken, SaveRefreshToken,
       UpdateRefreshToken, DeleteAccessToken, RevokeTokenFamily, UpdateUser,
       RevokeTokensForSub, SweepExpired
  <1>3. ASSUME NEW j \in Jobs, Continuation(j) PROVE minted' = minted
    BY <1>3 DEF Continuation, ThenMutateAgain, ThenIssueCode, ThenRespond
  <1>4. ASSUME SweepTimer \/ Tick \/ UNCHANGED vars PROVE minted' = minted
    BY <1>4 DEF SweepTimer, Tick, vars
  <1>5. minted' = minted \/ minted' = minted + 1
    BY <1>1, <1>2, <1>3, <1>4 DEF Next
  <1> QED
    BY <1>0, <1>5

\* A new mint takes the next pair.
LEMMA NewMintPair ==
  ASSUME NEW rec, NewMint(rec)
  PROVE  rec.pair = minted + 1 /\ minted' = minted + 1
  <1>1. ASSUME NEW grant, NEW c, NEW scopes, NEW p, NEW old,
               rec = MintTokenPair(grant, c, scopes, p, old)
        PROVE  rec.pair = minted + 1
    BY <1>1 DEF MintTokenPair
  <1> QED
    BY <1>1 DEF NewMint

\* A mint after the step is one under way before it, with its pair and no
\* further back in its saves, or the only new one, with a new pair.
LEMMA MintJobs ==
  ASSUME TypeOK, [Next]_vars, NEW i \in Jobs, job'[i].op \in MintOps
  PROVE  \/ /\ job[i].op \in MintOps /\ job'[i].pair = job[i].pair
            /\ job[i].op = "updateRefreshToken" => job'[i].op = "updateRefreshToken"
         \/ /\ job'[i].pair = minted + 1 /\ minted' = minted + 1
            /\ \A l \in Jobs \ {i} : job'[l] = job[l]
  <1>1. PICK j \in Jobs : /\ JobChange(j)
                         /\ \A l \in Jobs \ {j} : job'[l] = job[l]
    BY OneJob
  <1>2. CASE job'[i] = job[i]
    BY <1>2
  <1>3. CASE job'[i] # job[i]
    <2>1. i = j
      BY <1>1, <1>3
    <2>2. CASE NextOp(job[i]) # "idle" /\ job'[i] = [job[i] EXCEPT !.op = NextOp(job[i])]
      <3>1. job'[i].op = NextOp(job[i]) /\ job'[i].pair = job[i].pair
        BY <2>2, NextMutation DEF TypeOK
      <3>2. job[i].op \in MintOps
        BY <2>2, <3>1, NextOps
      <3>3. job[i].op # "updateRefreshToken"
        BY <2>2 DEF NextOp
      <3> QED
        BY <3>1, <3>2, <3>3
    <2>3. CASE NewMint(job'[i])
      BY <1>1, <2>1, <2>3, NewMintPair
    <2>4. CASE job'[i] = Idle \/ NewOther(job'[i])
      BY <2>4 DEF Idle, NewOther, MintOps
    <2>5. CASE NewRevocation(job'[i])
      BY <2>5 DEF NewRevocation, Idle, MintOps
    <2>6. CASE NewSignIn(job'[i])
      BY <2>6 DEF NewSignIn, Idle, MintOps
    <2> QED
      BY <1>1, <1>3, <2>1, <2>2, <2>3, <2>4, <2>5, <2>6 DEF JobChange
  <1> QED
    BY <1>2, <1>3

\* A mint's pair is one of those minted.
LEMMA PairTypes ==
  ASSUME IInv
  PROVE  /\ \A j \in Jobs : job[j].pair \in Nat
         /\ \A p \in Pairs : refreshTokens[p] # None => refreshTokens[p].supersededBy \in Nat
  BY BoundsAreNat DEF IInv, TypeOK, JobRecords, RefreshRecords

LEMMA MintsApartStep == SuccessorInv /\ [Next]_vars => MintsApart'
  <1> SUFFICES ASSUME SuccessorInv, [Next]_vars, NEW j \in Jobs, job'[j].op \in MintOps
               PROVE  /\ job'[j].pair <= minted'
                      /\ \A i \in Jobs : job'[i].op \in MintOps /\ i # j =>
                             job'[i].pair # job'[j].pair
    BY DEF MintsApart
  <1>0. IInv /\ TypeOK
    BY DEF SuccessorInv, IInv
  <1>1. /\ minted \in Nat /\ minted' \in Nat /\ minted <= minted'
        /\ \A i \in Jobs : job[i].pair \in Nat
        /\ \A i \in Jobs : job[i].op \in MintOps => job[i].pair <= minted
    BY <1>0, MintedGrows, PairTypes DEF SuccessorInv, MintsApart
  <1>2. CASE job[j].op \in MintOps /\ job'[j].pair = job[j].pair
    <2>1. job'[j].pair <= minted'
      BY <1>1, <1>2
    <2>2. ASSUME NEW i \in Jobs, job'[i].op \in MintOps, i # j
          PROVE  job'[i].pair # job'[j].pair
      <3>1. CASE job[i].op \in MintOps /\ job'[i].pair = job[i].pair
        BY <1>2, <2>2, <3>1 DEF SuccessorInv, MintsApart
      <3>2. CASE job'[i].pair = minted + 1
        <4>1. job[j].pair # minted + 1
          BY <1>1, <1>2
        <4> QED
          BY <1>2, <3>2, <4>1
      <3> QED
        BY <1>0, <2>2, <3>1, <3>2, MintJobs
    <2> QED
      BY <2>1, <2>2
  <1>3. CASE /\ job'[j].pair = minted + 1 /\ minted' = minted + 1
             /\ \A l \in Jobs \ {j} : job'[l] = job[l]
    <2>1. ASSUME NEW i \in Jobs, job'[i].op \in MintOps, i # j
          PROVE  job'[i].pair # job'[j].pair
      <3>1. job'[i] = job[i] /\ job[i].pair # minted + 1
        BY <1>1, <1>3, <2>1
      <3> QED
        BY <1>3, <3>1
    <2> QED
      BY <1>1, <1>3, <2>1
  <1> QED
    BY <1>0, <1>2, <1>3, MintJobs

LEMMA SuccessorStep == SuccessorInv /\ [Next]_vars => SuccessorIsSaved'
  <1> SUFFICES ASSUME SuccessorInv, [Next]_vars, NEW p \in Pairs,
                      refreshTokens'[p] # None, refreshTokens'[p].supersededBy # 0
               PROVE  /\ refreshTokens'[p].supersededBy <= minted'
                      /\ \A j \in Jobs :
                             /\ job'[j].op \in MintOps
                             /\ job'[j].pair = refreshTokens'[p].supersededBy
                             => job'[j].op = "updateRefreshToken"
    BY DEF SuccessorIsSaved, Superseded
  <1>0. IInv /\ TypeOK
    BY DEF SuccessorInv, IInv
  <1>1. minted \in Nat /\ minted' \in Nat /\ minted <= minted'
    BY <1>0, MintedGrows
  <1>2. ASSUME NEW q, q = refreshTokens'[p].supersededBy, q \in Nat, q <= minted,
               \A j \in Jobs : job[j].op \in MintOps /\ job[j].pair = q =>
                   job[j].op = "updateRefreshToken"
        PROVE  /\ q <= minted'
               /\ \A j \in Jobs : job'[j].op \in MintOps /\ job'[j].pair = q =>
                      job'[j].op = "updateRefreshToken"
    <2>1. q # minted + 1 /\ q <= minted'
      BY <1>1, <1>2
    <2>2. ASSUME NEW j \in Jobs, job'[j].op \in MintOps, job'[j].pair = q
          PROVE  job'[j].op = "updateRefreshToken"
      BY <1>0, <1>2, <2>1, <2>2, MintJobs
    <2> QED
      BY <2>1, <2>2
  <1>3. CASE refreshTokens'[p] = refreshTokens[p]
    <2>1. /\ refreshTokens[p].supersededBy \in Nat
          /\ refreshTokens[p].supersededBy <= minted
          /\ \A j \in Jobs :
                 job[j].op \in MintOps /\ job[j].pair = refreshTokens[p].supersededBy =>
                     job[j].op = "updateRefreshToken"
      BY <1>0, <1>3, PairTypes DEF SuccessorInv, SuccessorIsSaved, Superseded
    <2> QED
      BY <1>2, <1>3, <2>1
  <1>4. ASSUME NEW j \in Jobs, job[j].op = "updateRefreshToken",
               refreshTokens'[p] = Tombstone(job[j])
        PROVE  /\ refreshTokens'[p].supersededBy <= minted'
               /\ \A i \in Jobs :
                      /\ job'[i].op \in MintOps
                      /\ job'[i].pair = refreshTokens'[p].supersededBy
                      => job'[i].op = "updateRefreshToken"
    <2>1. refreshTokens'[p].supersededBy = job[j].pair /\ job[j].pair \in Nat
      BY <1>0, <1>4, PairTypes DEF Tombstone
    <2>2. job[j].pair <= minted
      BY <1>4 DEF SuccessorInv, MintsApart, MintOps
    <2>3. ASSUME NEW i \in Jobs, job[i].op \in MintOps, job[i].pair = job[j].pair
          PROVE  job[i].op = "updateRefreshToken"
      BY <1>4, <2>3 DEF SuccessorInv, MintsApart, MintOps
    <2> QED
      BY <1>2, <2>1, <2>2, <2>3
  <1>5. ASSUME NEW j \in Jobs, refreshTokens'[p] = RefreshRecord(job[j]) PROVE FALSE
    BY <1>5 DEF RefreshRecord
  <1> QED
    BY <1>0, <1>3, <1>4, <1>5, TokenChange DEF RefreshChange

LEMMA SuccessorInit == Init => SuccessorInv
  <1> SUFFICES ASSUME Init PROVE SuccessorInv
    OBVIOUS
  <1>1. IInv
    BY InitInv
  <1>2. \A j \in Jobs : job[j].op \notin MintOps
    BY DEF Init, Idle, MintOps
  <1>3. MintsApart
    BY <1>2 DEF MintsApart
  <1>4. ASSUME NEW p \in Pairs, refreshTokens[p] # None
        PROVE  refreshTokens[p].supersededBy <= minted
    <2>1. p \in 1..BootPairs
      BY <1>4, ConstantsAssumption DEF Init, Pairs
    <2> QED
      BY <2>1, FileAssumption DEF Init
  <1>5. SuccessorIsSaved
    BY <1>2, <1>4 DEF SuccessorIsSaved
  <1> QED
    BY <1>1, <1>3, <1>5 DEF SuccessorInv

\* A refresh token is superseded only after its successor was stored,
\* whatever the other requests in flight do.
THEOREM SuccessorAlwaysStoredFirst == Spec => []SuccessorStoredFirst
  <1>1. SuccessorInv /\ [Next]_vars => SuccessorInv'
    BY InvStep, MintsApartStep, SuccessorStep DEF SuccessorInv
  <1>2. SuccessorInv => SuccessorStoredFirst
    BY DEF SuccessorInv, SuccessorIsSaved, SuccessorStoredFirst
  <1> QED
    BY <1>1, <1>2, SuccessorInit, PTL DEF Spec

-----------------------------------------------------------------------------
(***************************************************************************)
(* The registry of clients: who is evicted was not active lately.          *)
(***************************************************************************)

LEMMA NatMin ==
  ASSUME NEW S \in SUBSET Nat, S # {}
  PROVE  \E n \in S : \A m \in S : n <= m
  <1>1. IsWellFoundedOn(OpToRel(<, Nat), Nat)
    BY NatLessThanWellFounded
  <1>2. PICK n \in S : \A m \in S : ~(<<m, n>> \in OpToRel(<, Nat))
    BY <1>1, WFMin
  <1>3. ASSUME NEW m \in S PROVE n <= m
    <2>1. ~(m < n)
      BY <1>2 DEF OpToRel
    <2> QED
      BY <2>1
  <1> QED
    BY <1>3

\* A registry that is not empty has a least recently used client.
LEMMA VictimExists ==
  ASSUME clientLastUsed \in [Clients -> Nat], NEW k \in Clients, Registered(k)
  PROVE  /\ LeastRecentlyUsed \in Clients /\ Registered(LeastRecentlyUsed)
         /\ \A i \in Clients : Registered(i) =>
                clientLastUsed[LeastRecentlyUsed] <= clientLastUsed[i]
  <1> DEFINE ticks == {clientLastUsed[i] : i \in {l \in Clients : Registered(l)}}
  <1>1. ticks \in SUBSET Nat /\ ticks # {}
    OBVIOUS
  <1>2. PICK n \in ticks : \A m \in ticks : n <= m
    BY <1>1, NatMin
  <1>3. \E v \in Clients :
            /\ Registered(v)
            /\ \A i \in Clients : Registered(i) => clientLastUsed[v] <= clientLastUsed[i]
    BY <1>2
  <1> QED
    BY <1>3 DEF LeastRecentlyUsed

\* A step registers a client, touches a registered one or leaves the registry.
RegistryStays ==
    /\ clientLastUsed' = clientLastUsed /\ lastClientTick' = lastClientTick
    /\ known' = known /\ usedSince' = usedSince

Touches(k) ==
    /\ Registered(k)
    /\ clientLastUsed' = [clientLastUsed EXCEPT ![k] = lastClientTick + 1]
    /\ lastClientTick' = lastClientTick + 1
    /\ known' = known /\ UsedNow(k)

LEMMA RegistryChange ==
  ASSUME TypeOK, JobsKeepTheirGrant, [Next]_vars
  PROVE  \/ RegistryStays
         \/ \E k \in Clients : Touches(k)
         \/ \E j \in Jobs : SaveClient(j)
  <1>1. ASSUME NEW j \in Requests, Request(j) PROVE RegistryStays
    BY <1>1 DEF Request, RegisterClient, SignIn, ExchangeAuthorizationCode,
       ExchangeRefreshToken, ReuseRefreshToken, VerifyExpired, RevokeToken,
       HandleRevokedGrant, store, history, RegistryStays
  <1>2. ASSUME NEW j \in Jobs, Continuation(j) PROVE RegistryStays
    BY <1>2 DEF Continuation, ThenMutateAgain, ThenIssueCode, ThenRespond, store, history,
       RegistryStays
  <1>3. ASSUME SweepTimer \/ Tick \/ UNCHANGED vars PROVE RegistryStays
    BY <1>3 DEF SweepTimer, Tick, vars, store, history, RegistryStays
  <1>t. ASSUME NEW k \in Clients, TouchClient(k), known' = known
        PROVE  RegistryStays \/ Touches(k)
    BY <1>t DEF TouchClient, RegistryStays, Touches
  <1>4. ASSUME NEW j \in Jobs, Mutation(j)
        PROVE  RegistryStays \/ (\E k \in Clients : Touches(k)) \/ SaveClient(j)
    <2>1. CASE SaveAccessToken(j) \/ SaveRefreshToken(j)
      <3>1. job[j].op \in MintOps /\ TouchClient(job[j].client) /\ known' = known
        BY <2>1 DEF SaveAccessToken, SaveRefreshToken, Dequeue, MintOps
      <3>2. job[j].client \in Clients
        BY <3>1, MintedRecords
      <3> QED
        BY <3>1, <3>2, <1>t
    <2>2. CASE \/ UpsertUser(j) \/ UpdateRefreshToken(j) \/ DeleteAccessToken(j)
               \/ RevokeTokenFamily(j) \/ UpdateUser(j) \/ RevokeTokensForSub(j)
               \/ SweepExpired(j)
      BY <2>2 DEF UpsertUser, UpdateRefreshToken, DeleteAccessToken, RevokeTokenFamily,
         UpdateUser, RevokeTokensForSub, SweepExpired, store, history, RegistryStays
    <2> QED
      BY <1>4, <2>1, <2>2 DEF Mutation
  <1> QED
    BY <1>1, <1>2, <1>3, <1>4 DEF Next

\* A job whose write is on disk moves on.
LEMMA WrittenMovesOn ==
  ASSUME TypeOK, [Next]_vars, NEW i \in Jobs, writing = i, writing' # i
  PROVE  job'[i].op = NextOp(job[i])
  <1>n. writing # None
    BY ConstantsAssumption
  <1>1. ASSUME NEW j \in Requests, Request(j) PROVE writing' = writing
    BY <1>1 DEF Request, RegisterClient, SignIn, ExchangeAuthorizationCode,
       ExchangeRefreshToken, ReuseRefreshToken, VerifyExpired, RevokeToken,
       HandleRevokedGrant
  <1>2. ASSUME NEW j \in Jobs, Mutation(j) PROVE FALSE
    BY <1>2, <1>n DEF Mutation, SaveClient, UpsertUser, SaveAccessToken, SaveRefreshToken,
       UpdateRefreshToken, DeleteAccessToken, RevokeTokenFamily, UpdateUser,
       RevokeTokensForSub, SweepExpired, Dequeue
  <1>3. ASSUME SweepTimer \/ Tick \/ UNCHANGED vars PROVE writing' = writing
    BY <1>3 DEF SweepTimer, Tick, vars, queueVars
  <1>4. ASSUME NEW j \in Jobs, Continuation(j) PROVE job'[i].op = NextOp(job[i])
    <2>1. j = i
      BY <1>4 DEF Continuation, ThenMutateAgain, ThenIssueCode, ThenRespond, WriteDone
    <2>2. CASE ThenMutateAgain(j)
      <3>1. job'[i] = [job[i] EXCEPT !.op = NextOp(job[i])] /\ job[i] \in JobRecords
        BY <2>1, <2>2 DEF ThenMutateAgain, Enqueue, TypeOK
      <3> QED
        BY <3>1, NextMutation
    <2>3. CASE ThenIssueCode(j) \/ ThenRespond(j)
      <3>1. job'[i].op = "idle"
        BY <2>1, <2>3 DEF ThenIssueCode, ThenRespond, TypeOK, Idle
      <3>2. NextOp(job[i]) = "idle"
        BY <2>1, <2>3 DEF ThenIssueCode, ThenRespond, NextOp
      <3> QED
        BY <3>1, <3>2
    <2> QED
      BY <1>4, <2>2, <2>3 DEF Continuation
  <1> QED
    BY <1>1, <1>2, <1>3, <1>4 DEF Next

\* The client a mutation registers is new.
LEMMA RegistersNew ==
  ASSUME RegistryInv, NEW j \in Jobs, SaveClient(j)
  PROVE  /\ job[j].op = "saveClient" /\ job[j].client \in Clients
         /\ job[j].client \notin known /\ ~Registered(job[j].client)
         /\ job' = job /\ writing = None /\ writing' = j
         /\ known' = known \cup {job[j].client}
         /\ UsedNow(job[j].client) /\ lastClientTick' = lastClientTick + 1
  <1>1. /\ job[j].op = "saveClient" /\ job' = job /\ writing = None /\ writing' = j
        /\ known' = known \cup {job[j].client}
        /\ UsedNow(job[j].client) /\ lastClientTick' = lastClientTick + 1
    BY DEF SaveClient, Dequeue
  <1>2. job[j].client \in Clients
    BY <1>1 DEF RegistryInv, IInv, JobsKeepTheirGrant, KeepsGrant
  <1>3. writing # j
    BY <1>1, ConstantsAssumption
  <1>4. job[j].client \notin known
    BY <1>1, <1>3 DEF RegistryInv, RegistersOnce
  <1> QED
    BY <1>1, <1>2, <1>4 DEF RegistryInv, TicksTellActivity

\* Whom it evicts is registered, and everybody else who is has a later tick.
LEMMA Evicts ==
  ASSUME RegistryInv, NEW j \in Jobs, SaveClient(j)
  PROVE  LET k == job[j].client
             v == LeastRecentlyUsed
             R == {i \in Clients : Registered(i)}
         IN  \/ clientLastUsed' = [clientLastUsed EXCEPT ![k] = lastClientTick + 1]
             \/ /\ v \in R /\ v # k /\ Cardinality(R) >= MaxClients
                /\ \A i \in R \ {v} : i \in usedSince[v]
                /\ clientLastUsed' =
                       [clientLastUsed EXCEPT ![k] = lastClientTick + 1, ![v] = 0]
  <1> DEFINE k == job[j].client
             v == LeastRecentlyUsed
             R == {i \in Clients : Registered(i)}
  <1>t. /\ clientLastUsed \in [Clients -> Nat] /\ TicksTellActivity
        /\ k \in Clients /\ ~Registered(k)
    BY RegistersNew DEF RegistryInv, IInv, TypeOK
  <1>c. /\ clientLastUsed' =
               [i \in Clients |-> CASE i = k -> lastClientTick + 1
                                    [] i # k /\ AtCap(R, MaxClients) /\ i = v -> 0
                                    [] OTHER -> clientLastUsed[i]]
    BY DEF SaveClient
  <1>1. CASE ~AtCap(R, MaxClients)
    <2>1. clientLastUsed' = [clientLastUsed EXCEPT ![k] = lastClientTick + 1]
      BY <1>1, <1>t, <1>c
    <2> QED
      BY <2>1
  <1>2. CASE AtCap(R, MaxClients)
    <2>1. Cardinality(R) >= MaxClients /\ MaxClients \in Nat \ {0}
      BY <1>2, ConstantsAssumption DEF AtCap
    <2>2. R # {}
      BY <2>1, FS_EmptySet
    <2>3. /\ v \in Clients /\ Registered(v)
          /\ \A i \in Clients : Registered(i) => clientLastUsed[v] <= clientLastUsed[i]
      BY <2>2, <1>t, VictimExists
    <2>4. v # k
      BY <2>3, <1>t
    <2>5. ASSUME NEW i \in R \ {v} PROVE i \in usedSince[v]
      <3>1. clientLastUsed[i] # clientLastUsed[v]
        BY <1>t, <2>3, <2>5 DEF TicksTellActivity
      <3>2. clientLastUsed[i] > clientLastUsed[v]
        BY <1>t, <2>3, <2>5, <3>1
      <3> QED
        BY <1>t, <2>3, <2>5, <3>2 DEF TicksTellActivity
    <2>6. clientLastUsed' = [clientLastUsed EXCEPT ![k] = lastClientTick + 1, ![v] = 0]
      BY <1>2, <1>t, <1>c, <2>3, <2>4
    <2> QED
      BY <2>1, <2>3, <2>4, <2>5, <2>6
  <1> QED
    BY <1>1, <1>2

\* A client that is given the top tick was active since every other one.
LEMMA TopTick ==
  ASSUME TypeOK, TicksTellActivity, NEW k \in Clients, NEW S \in SUBSET Clients,
         known' = known \cup {k}, IsFiniteSet(known'),
         lastClientTick' = lastClientTick + 1, UsedNow(k),
         clientLastUsed' \in [Clients -> Nat],
         clientLastUsed'[k] = lastClientTick + 1,
         \A i \in Clients \ {k} :
             clientLastUsed'[i] = 0 \/ clientLastUsed'[i] = clientLastUsed[i]
  PROVE  TicksTellActivity'
  <1>t. /\ clientLastUsed \in [Clients -> Nat] /\ lastClientTick \in Nat
        /\ usedSince \in [Clients -> SUBSET Clients]
    BY DEF TypeOK
  <1>u. usedSince' = [i \in Clients |-> IF i = k THEN {} ELSE usedSince[i] \cup {k}]
    BY DEF UsedNow
  <1>b. \A i \in Clients \ {k} : clientLastUsed'[i] <= lastClientTick
    BY <1>t DEF TicksTellActivity
  <1>1. \A i \in Clients : clientLastUsed'[i] <= lastClientTick'
    BY <1>t, <1>b
  <1>2. \A i \in Clients : clientLastUsed'[i] > 0 => i \in known'
    BY <1>t DEF TicksTellActivity, Registered
  <1>3. \A i \in Clients : usedSince'[i] \subseteq known'
    BY <1>t, <1>u DEF TicksTellActivity
  <1>4. ASSUME NEW i \in Clients, NEW m \in Clients, clientLastUsed'[m] > 0,
               clientLastUsed'[i] = clientLastUsed'[m]
        PROVE  i = m
    <2>1. CASE i = k \/ m = k
      BY <1>t, <1>b, <1>4, <2>1
    <2>2. CASE i # k /\ m # k
      <3>1. clientLastUsed'[i] = clientLastUsed[i] /\ clientLastUsed'[m] = clientLastUsed[m]
        BY <1>t, <1>4, <2>2
      <3> QED
        BY <1>4, <3>1 DEF TicksTellActivity, Registered
    <2> QED
      BY <2>1, <2>2
  <1>5. ASSUME NEW i \in Clients, NEW m \in Clients, clientLastUsed'[m] > 0,
               clientLastUsed'[i] > clientLastUsed'[m]
        PROVE  i \in usedSince'[m]
    <2>1. m # k
      BY <1>t, <1>b, <1>5
    <2>2. CASE i = k
      BY <1>u, <2>1, <2>2
    <2>3. CASE i # k
      <3>1. clientLastUsed'[i] = clientLastUsed[i] /\ clientLastUsed'[m] = clientLastUsed[m]
        BY <1>t, <1>5, <2>1, <2>3
      <3>2. i \in usedSince[m]
        BY <1>5, <3>1 DEF TicksTellActivity, Registered
      <3> QED
        BY <1>u, <2>1, <3>2
    <2> QED
      BY <2>2, <2>3
  <1> QED
    BY <1>1, <1>2, <1>3, <1>4, <1>5 DEF TicksTellActivity, Registered

LEMMA TicksStep == RegistryInv /\ [Next]_vars => TicksTellActivity'
  <1> SUFFICES ASSUME RegistryInv, [Next]_vars PROVE TicksTellActivity'
    OBVIOUS
  <1>0. /\ TypeOK /\ TypeOK' /\ JobsKeepTheirGrant /\ TicksTellActivity
    BY TypeStep DEF RegistryInv, IInv
  <1>t. /\ clientLastUsed \in [Clients -> Nat] /\ clientLastUsed' \in [Clients -> Nat]
        /\ lastClientTick \in Nat /\ IsFiniteSet(known)
    BY <1>0 DEF TypeOK, TicksTellActivity
  <1>1. CASE RegistryStays
    BY <1>0, <1>1 DEF RegistryStays, TicksTellActivity, Registered
  <1>2. ASSUME NEW k \in Clients, Touches(k) PROVE TicksTellActivity'
    <2>1. known' = known \cup {k}
      BY <1>0, <1>2 DEF Touches, TicksTellActivity
    <2>2. /\ clientLastUsed'[k] = lastClientTick + 1
          /\ \A i \in Clients \ {k} : clientLastUsed'[i] = clientLastUsed[i]
      BY <1>t, <1>2 DEF Touches
    <2>3. IsFiniteSet(known') /\ lastClientTick' = lastClientTick + 1 /\ UsedNow(k)
      BY <1>t, <1>2 DEF Touches
    <2> QED
      BY <1>0, <1>t, <2>1, <2>2, <2>3, TopTick
  <1>3. ASSUME NEW j \in Jobs, SaveClient(j) PROVE TicksTellActivity'
    <2> DEFINE k == job[j].client
    <2>1. /\ k \in Clients /\ known' = known \cup {k}
          /\ lastClientTick' = lastClientTick + 1 /\ UsedNow(k)
      BY <1>3, RegistersNew
    <2>2. IsFiniteSet(known')
      BY <1>t, <2>1, FS_AddElement
    <2> DEFINE v == LeastRecentlyUsed
    <2>4. \/ clientLastUsed' = [clientLastUsed EXCEPT ![k] = lastClientTick + 1]
          \/ /\ v # k
             /\ clientLastUsed' =
                    [clientLastUsed EXCEPT ![k] = lastClientTick + 1, ![v] = 0]
      BY <1>3, Evicts
    <2> HIDE DEF v
    <2>3. /\ clientLastUsed'[k] = lastClientTick + 1
          /\ \A i \in Clients \ {k} :
                 clientLastUsed'[i] = 0 \/ clientLastUsed'[i] = clientLastUsed[i]
      BY <1>t, <2>1, <2>4
    <2> HIDE DEF k
    <2> QED
      BY <1>0, <1>t, <2>1, <2>2, <2>3, TopTick
  <1> QED
    BY <1>0, <1>1, <1>2, <1>3, RegistryChange

LEMMA RegistersOnceStep == RegistryInv /\ [Next]_vars => RegistersOnce'
  <1> SUFFICES ASSUME RegistryInv, [Next]_vars, NEW j \in Jobs, job'[j].op = "saveClient"
               PROVE  /\ writing' # j => job'[j].client \notin known'
                      /\ \A i \in Jobs : job'[i].op = "saveClient" /\ i # j =>
                             job'[i].client # job'[j].client
    BY DEF RegistersOnce
  <1>0. TypeOK /\ JobsKeepTheirGrant
    BY DEF RegistryInv, IInv
  <1>1. PICK l \in Jobs : /\ JobChange(l)
                         /\ \A i \in Jobs \ {l} : job'[i] = job[i]
    BY <1>0, OneJob
  <1>2. ASSUME job'[l].op = "saveClient", job'[l] # job[l]
        PROVE  /\ job'[l].client \notin known
               /\ \A i \in Jobs : ~(job[i].op = "saveClient" /\ job[i].client = job'[l].client)
    <2>1. CASE NextOp(job[l]) # "idle" /\ job'[l] = [job[l] EXCEPT !.op = NextOp(job[l])]
      <3>1. job'[l].op = NextOp(job[l])
        BY <1>0, <2>1, NextMutation DEF TypeOK
      <3> QED
        BY <1>2, <2>1, <3>1, NextOps DEF MintOps
    <2>2. CASE NewMint(job'[l])
      BY <1>2, <2>2, NewMintFits DEF RegistryInv
    <2>3. CASE NewRevocation(job'[l])
      BY <1>2, <2>3 DEF NewRevocation, Idle
    <2>5. CASE NewSignIn(job'[l])
      BY <1>2, <2>5 DEF NewSignIn, Idle
    <2>6. CASE job'[l] = Idle
      BY <1>2, <2>6 DEF Idle
    <2>4. CASE NewOther(job'[l])
      BY <1>2, <2>4 DEF NewOther
    <2> QED
      BY <1>1, <1>2, <2>1, <2>2, <2>3, <2>4, <2>5, <2>6 DEF JobChange
  <1>3. ASSUME NEW i \in Jobs, job'[i].op = "saveClient", i # j
        PROVE  job'[i].client # job'[j].client
    <2>1. CASE job'[i] = job[i] /\ job'[j] = job[j]
      BY <1>3, <2>1 DEF RegistryInv, RegistersOnce
    <2>2. CASE job'[i] # job[i] \/ job'[j] # job[j]
      BY <1>1, <1>2, <1>3, <2>2
    <2> QED
      BY <2>1, <2>2
  <1>4. ASSUME writing' # j PROVE job'[j].client \notin known'
    <2>1. CASE known' = known
      <3>1. CASE job'[j] = job[j]
        <4>1. writing # j
          <5> SUFFICES ASSUME writing = j PROVE FALSE
            OBVIOUS
          <5>1. job'[j].op = NextOp(job[j])
            BY <1>0, <1>4, WrittenMovesOn
          <5>2. job[j].op = "saveClient"
            BY <3>1
          <5>3. NextOp(job[j]) = "idle"
            BY <5>2 DEF NextOp
          <5> QED
            BY <5>1, <5>3
        <4> QED
          BY <2>1, <3>1, <4>1 DEF RegistryInv, RegistersOnce
      <3>2. CASE job'[j] # job[j]
        BY <1>1, <1>2, <2>1, <3>2
      <3> QED
        BY <3>1, <3>2
    <2>2. ASSUME NEW i \in Jobs, SaveClient(i) PROVE job'[j].client \notin known'
      <3>1. /\ job' = job /\ writing = None /\ writing' = i /\ job[i].op = "saveClient"
            /\ known' = known \cup {job[i].client}
        BY <2>2, RegistersNew
      <3>2. j # i /\ writing # j
        BY <1>4, <3>1, ConstantsAssumption
      <3> QED
        BY <3>1, <3>2 DEF RegistryInv, RegistersOnce
    <2> QED
      BY <1>0, <2>1, <2>2, RegistryChange DEF RegistryStays, Touches
  <1> QED
    BY <1>3, <1>4

LEMMA ActiveStep == RegistryInv /\ [Next]_vars => ActiveClientSurvives'
  <1> SUFFICES ASSUME RegistryInv, [Next]_vars, NEW i \in known', ~(clientLastUsed'[i] > 0)
               PROVE  ~(Cardinality(usedSince'[i]) < MaxClients)
    BY DEF ActiveClientSurvives, Registered
  <1>0. /\ TypeOK /\ TypeOK' /\ JobsKeepTheirGrant /\ TicksTellActivity
        /\ TicksTellActivity'
    BY TypeStep, TicksStep DEF RegistryInv, IInv
  <1>t. /\ clientLastUsed \in [Clients -> Nat] /\ lastClientTick \in Nat
        /\ usedSince \in [Clients -> SUBSET Clients]
        /\ MaxClients \in Nat \ {0} /\ i \in Clients
    BY <1>0, ConstantsAssumption DEF TypeOK
  <1>f. /\ IsFiniteSet(usedSince'[i]) /\ Cardinality(usedSince'[i]) \in Nat
    <2>1. usedSince'[i] \subseteq known' /\ IsFiniteSet(known')
      BY <1>0, <1>t DEF TicksTellActivity
    <2> QED
      BY <2>1, FS_Subset, FS_CardinalityType
  <1>o. ASSUME i \in known, ~Registered(i), usedSince[i] \subseteq usedSince'[i]
        PROVE  ~(Cardinality(usedSince'[i]) < MaxClients)
    <2>1. ~(Cardinality(usedSince[i]) < MaxClients)
      BY <1>o DEF RegistryInv, ActiveClientSurvives
    <2>2. /\ Cardinality(usedSince[i]) <= Cardinality(usedSince'[i])
          /\ Cardinality(usedSince[i]) \in Nat
      BY <1>f, <1>o, FS_Subset, FS_CardinalityType
    <2> QED
      BY <1>f, <1>t, <2>1, <2>2
  <1>1. CASE RegistryStays
    BY <1>o, <1>1 DEF RegistryStays, Registered
  <1>2. ASSUME NEW k \in Clients, Touches(k)
        PROVE  ~(Cardinality(usedSince'[i]) < MaxClients)
    <2>1. i # k /\ ~Registered(i) /\ i \in known
      BY <1>t, <1>2 DEF Touches, Registered
    <2>2. usedSince[i] \subseteq usedSince'[i]
      BY <1>t, <1>2, <2>1 DEF Touches, UsedNow
    <2> QED
      BY <1>o, <2>1, <2>2
  <1>3. ASSUME NEW j \in Jobs, SaveClient(j)
        PROVE  ~(Cardinality(usedSince'[i]) < MaxClients)
    <2> DEFINE k == job[j].client
               v == LeastRecentlyUsed
               R == {m \in Clients : Registered(m)}
    <2>1. /\ k \in Clients /\ k \notin known /\ k \notin R
          /\ known' = known \cup {k} /\ UsedNow(k)
      BY <1>3, RegistersNew
    <2>2. \/ clientLastUsed' = [clientLastUsed EXCEPT ![k] = lastClientTick + 1]
          \/ /\ v \in R /\ v # k /\ Cardinality(R) >= MaxClients
             /\ \A m \in R \ {v} : m \in usedSince[v]
             /\ clientLastUsed' =
                    [clientLastUsed EXCEPT ![k] = lastClientTick + 1, ![v] = 0]
      BY <1>3, Evicts
    <2>3. i # k /\ i \in known
      BY <1>t, <2>1, <2>2
    <2>4. usedSince'[i] = usedSince[i] \cup {k}
      BY <1>t, <2>1, <2>3 DEF UsedNow
    <2>5. CASE ~Registered(i)
      BY <1>o, <2>3, <2>4, <2>5
    <2>6. CASE Registered(i)
      <3>0. clientLastUsed[i] > 0
        BY <2>6 DEF Registered
      <3>1. /\ i = v /\ v \in R /\ Cardinality(R) >= MaxClients
            /\ R \ {v} \subseteq usedSince[v]
        <4> HIDE DEF R, v
        <4> QED
          BY <1>t, <2>2, <2>3, <3>0
      <3>2. R \subseteq known /\ IsFiniteSet(known)
        BY <1>0 DEF TicksTellActivity
      <3>3. IsFiniteSet(R) /\ Cardinality(R) \in Nat
        BY <3>2, FS_Subset, FS_CardinalityType
      <3>4. /\ IsFiniteSet(R \ {v}) /\ Cardinality(R \ {v}) = Cardinality(R) - 1
        <4> HIDE DEF R, v
        <4> QED
          BY <3>1, <3>3, FS_RemoveElement
      <3>5. Cardinality((R \ {v}) \cup {k}) = Cardinality(R)
        <4> HIDE DEF R, v, k
        <4>1. k \notin R \ {v}
          BY <2>1
        <4>2. Cardinality((R \ {v}) \cup {k}) = Cardinality(R \ {v}) + 1
          BY <3>4, <4>1, FS_AddElement
        <4> QED
          BY <3>3, <3>4, <4>2
      <3>6. (R \ {v}) \cup {k} \in SUBSET usedSince'[i]
        BY <2>4, <3>1
      <3>7. Cardinality((R \ {v}) \cup {k}) <= Cardinality(usedSince'[i])
        BY <1>f, <3>6, FS_Subset
      <3> QED
        BY <1>f, <1>t, <3>1, <3>3, <3>5, <3>7
    <2> QED
      BY <2>5, <2>6
  <1> QED
    BY <1>0, <1>1, <1>2, <1>3, RegistryChange

LEMMA RegistryInit == Init => RegistryInv
  <1> SUFFICES ASSUME Init PROVE RegistryInv
    OBVIOUS
  <1>1. IInv
    BY InitInv
  <1>2. RegistersOnce
    BY DEF Init, RegistersOnce, Idle
  <1>3. ActiveClientSurvives
    BY DEF Init, ActiveClientSurvives, Registered
  <1>t. BootLastUsed \in [Clients -> 0..BootTick] /\ BootTick \in Nat
    BY ConstantsAssumption
  <1>4. /\ clientLastUsed = BootLastUsed /\ lastClientTick = BootTick
        /\ known = {k \in Clients : BootLastUsed[k] > 0}
        /\ usedSince = [k \in Clients |-> {i \in Clients : BootLastUsed[i] > BootLastUsed[k]}]
    BY DEF Init
  <1>5. ASSUME NEW k \in Clients
        PROVE  /\ clientLastUsed[k] <= lastClientTick
               /\ Registered(k) => k \in known
               /\ usedSince[k] \subseteq known
    BY <1>t, <1>4 DEF Registered
  <1>6. ASSUME NEW i \in Clients, NEW k \in Clients, Registered(k)
        PROVE  /\ clientLastUsed[i] = clientLastUsed[k] => i = k
               /\ clientLastUsed[i] > clientLastUsed[k] => i \in usedSince[k]
    BY <1>4, <1>6, FileAssumption DEF Registered
  <1>7. TicksTellActivity
    BY <1>4, <1>5, <1>6, FileAssumption DEF TicksTellActivity
  <1> QED
    BY <1>1, <1>2, <1>3, <1>7 DEF RegistryInv

\* A client is never evicted while fewer than MaxClients others registered or
\* were issued a token since it last was.
THEOREM ActiveClientAlwaysSurvives == Spec => []ActiveClientSurvives
  <1>1. RegistryInv /\ [Next]_vars => RegistryInv'
    BY InvStep, TicksStep, RegistersOnceStep, ActiveStep DEF RegistryInv
  <1>2. RegistryInv => ActiveClientSurvives
    BY DEF RegistryInv
  <1> QED
    BY <1>1, <1>2, RegistryInit, PTL DEF Spec

-----------------------------------------------------------------------------
(***************************************************************************)
(* The caps of a member's tokens.                                          *)
(***************************************************************************)

LEMMA PairsAreFinite == ASSUME NEW S \in SUBSET Pairs
                        PROVE  IsFiniteSet(S) /\ Cardinality(S) \in Nat
  <1>1. IsFiniteSet(Pairs)
    BY BoundsAreNat, FS_Interval DEF Pairs
  <1> QED
    BY <1>1, FS_Subset, FS_CardinalityType

LEMMA OldestIsIn ==
  ASSUME NEW S \in SUBSET Pairs, S # {}
  PROVE  Oldest(S) \in S
  <1>1. S \in SUBSET Nat
    BY BoundsAreNat DEF Pairs
  <1>2. \E p \in S : \A q \in S : p <= q
    BY <1>1, NatMin
  <1> QED
    BY <1>2 DEF Oldest

\* What is at its cap is not empty.
LEMMA AtCapHasOldest ==
  ASSUME NEW S \in SUBSET Pairs, NEW cap \in Nat \ {0}, AtCap(S, cap)
  PROVE  Oldest(S) \in S
  <1>1. S # {}
    BY FS_EmptySet DEF AtCap
  <1> QED
    BY <1>1, OldestIsIn

LEMMA AddsAtMostOne ==
  ASSUME NEW S, IsFiniteSet(S), NEW p
  PROVE  /\ IsFiniteSet(S \cup {p}) /\ Cardinality(S \cup {p}) \in Nat
         /\ Cardinality(S \cup {p}) <= Cardinality(S) + 1
  <1>1. Cardinality(S) \in Nat
    BY FS_CardinalityType
  <1>2. CASE p \in S
    <2>1. IsFiniteSet(S \cup {p}) /\ Cardinality(S \cup {p}) = Cardinality(S)
      BY <1>2, FS_AddElement
    <2> QED
      BY <1>1, <2>1
  <1>3. CASE p \notin S
    <2>1. IsFiniteSet(S \cup {p}) /\ Cardinality(S \cup {p}) = Cardinality(S) + 1
      BY <1>3, FS_AddElement
    <2> QED
      BY <1>1, <2>1
  <1> QED
    BY <1>2, <1>3

\* Evicting the oldest at the cap and adding one keeps within the cap.
LEMMA SaveWithinCap ==
  ASSUME NEW S \in SUBSET Pairs, NEW T \in SUBSET Pairs, NEW p, NEW cap \in Nat \ {0},
         Cardinality(S) <= cap, T \subseteq S \cup {p},
         AtCap(S, cap) => T \subseteq (S \ {Oldest(S)}) \cup {p}
  PROVE  Cardinality(T) <= cap
  <1>1. IsFiniteSet(S) /\ Cardinality(S) \in Nat /\ Cardinality(T) \in Nat
    BY PairsAreFinite
  <1>2. CASE AtCap(S, cap)
    <2>1. Oldest(S) \in S
      BY <1>2, AtCapHasOldest
    <2>2. /\ IsFiniteSet(S \ {Oldest(S)})
          /\ Cardinality(S \ {Oldest(S)}) = Cardinality(S) - 1
      BY <1>1, <2>1, FS_RemoveElement
    <2>3. /\ IsFiniteSet((S \ {Oldest(S)}) \cup {p})
          /\ Cardinality((S \ {Oldest(S)}) \cup {p}) \in Nat
          /\ Cardinality((S \ {Oldest(S)}) \cup {p}) <= Cardinality(S \ {Oldest(S)}) + 1
      BY <2>2, AddsAtMostOne
    <2>4. Cardinality(T) <= Cardinality((S \ {Oldest(S)}) \cup {p})
      BY <1>2, <2>3, FS_Subset
    <2> QED
      BY <1>1, <2>2, <2>3, <2>4
  <1>3. CASE ~AtCap(S, cap)
    <2>1. Cardinality(S) + 1 <= cap
      BY <1>1, <1>3 DEF AtCap
    <2>2. /\ IsFiniteSet(S \cup {p}) /\ Cardinality(S \cup {p}) \in Nat
          /\ Cardinality(S \cup {p}) <= Cardinality(S) + 1
      BY <1>1, AddsAtMostOne
    <2>3. Cardinality(T) <= Cardinality(S \cup {p})
      BY <2>2, FS_Subset
    <2> QED
      BY <1>1, <2>1, <2>2, <2>3
  <1> QED
    BY <1>2, <1>3

\* A set that only shrank stays within its cap.
LEMMA ShrinkWithinCap ==
  ASSUME NEW S \in SUBSET Pairs, NEW T \in SUBSET S, NEW cap \in Nat,
         Cardinality(S) <= cap
  PROVE  Cardinality(T) <= cap
  <1>1. Cardinality(T) <= Cardinality(S)
    BY PairsAreFinite, FS_Subset
  <1>2. Cardinality(S) \in Nat /\ Cardinality(T) \in Nat
    BY PairsAreFinite
  <1> QED
    BY <1>1, <1>2

\* The tokens of a member are pairs.
LEMMA CountedPairs ==
  ASSUME NEW s
  PROVE  /\ SubOf(accessTokens, s) \in SUBSET Pairs /\ Active(s) \in SUBSET Pairs
         /\ Tombstones(s) \in SUBSET Pairs
         /\ SubOf(accessTokens, s)' \in SUBSET Pairs /\ Active(s)' \in SUBSET Pairs
         /\ Tombstones(s)' \in SUBSET Pairs
  BY DEF SubOf, Active, Tombstones

\* Only the save and update mutations write a token; the others drop some.
AccessShrinks ==
    \A p \in Pairs : accessTokens'[p] = accessTokens[p] \/ accessTokens'[p] = None

RefreshShrinks ==
    \A p \in Pairs : refreshTokens'[p] = refreshTokens[p] \/ refreshTokens'[p] = None

LEMMA Writers ==
  ASSUME TypeOK, [Next]_vars
  PROVE  /\ AccessShrinks \/ \E j \in Jobs : SaveAccessToken(j)
         /\ \/ RefreshShrinks
            \/ \E j \in Jobs : SaveRefreshToken(j)
            \/ \E j \in Jobs : UpdateRefreshToken(j)
  <1>1. ASSUME NEW j \in Requests, Request(j)
        PROVE  accessTokens' = accessTokens /\ refreshTokens' = refreshTokens
    BY <1>1 DEF Request, RegisterClient, SignIn, ExchangeAuthorizationCode,
       ExchangeRefreshToken, ReuseRefreshToken, VerifyExpired, RevokeToken,
       HandleRevokedGrant, store
  <1>2. ASSUME NEW j \in Jobs, Continuation(j)
        PROVE  accessTokens' = accessTokens /\ refreshTokens' = refreshTokens
    BY <1>2 DEF Continuation, ThenMutateAgain, ThenIssueCode, ThenRespond, store
  <1>3. ASSUME SweepTimer \/ Tick \/ UNCHANGED vars
        PROVE  accessTokens' = accessTokens /\ refreshTokens' = refreshTokens
    BY <1>3 DEF SweepTimer, Tick, vars, store
  <1>4. ASSUME NEW j \in Jobs, Mutation(j)
        PROVE  /\ AccessShrinks \/ SaveAccessToken(j)
               /\ RefreshShrinks \/ SaveRefreshToken(j) \/ UpdateRefreshToken(j)
    <2>1. CASE SaveClient(j) \/ UpsertUser(j) \/ UpdateUser(j)
      BY <2>1 DEF SaveClient, UpsertUser, UpdateUser, store, AccessShrinks, RefreshShrinks
    <2>2. CASE SaveAccessToken(j)
      BY <2>2 DEF SaveAccessToken, RefreshShrinks
    <2>3. CASE SaveRefreshToken(j)
      BY <2>3 DEF SaveRefreshToken, AccessShrinks
    <2>4. CASE UpdateRefreshToken(j)
      BY <2>4 DEF UpdateRefreshToken, AccessShrinks
    <2>5. CASE DeleteAccessToken(j)
      <3>1. \A p \in Pairs : accessTokens'[p] = accessTokens[p] \/ accessTokens'[p] = None
        BY <2>5 DEF DeleteAccessToken, TypeOK
      <3>2. refreshTokens' = refreshTokens
        BY <2>5 DEF DeleteAccessToken
      <3> QED
        BY <3>1, <3>2 DEF AccessShrinks, RefreshShrinks
    <2>6. CASE RevokeTokenFamily(j) \/ RevokeTokensForSub(j) \/ SweepExpired(j)
      BY <2>6 DEF RevokeTokenFamily, RevokeTokensForSub, SweepExpired, Without,
         AccessShrinks, RefreshShrinks
    <2> QED
      BY <1>4, <2>1, <2>2, <2>3, <2>4, <2>5, <2>6 DEF Mutation
  <1> QED
    BY <1>1, <1>2, <1>3, <1>4 DEF Next, AccessShrinks, RefreshShrinks

\* At its cap, the oldest is gone after an eviction.
LEMMA EvictionDrops ==
  ASSUME NEW R, NEW tokens \in [Pairs -> R \cup {None}], NEW S \in SUBSET Pairs,
         NEW cap \in Nat \ {0}, AtCap(S, cap)
  PROVE  EvictOldestIfAtCap(tokens, S, cap)[Oldest(S)] = None
  <1>1. Oldest(S) \in Pairs
    BY AtCapHasOldest
  <1> QED
    BY <1>1 DEF EvictOldestIfAtCap

\* Saving an access token makes room for it first.
LEMMA SavesAccess ==
  ASSUME IInv, NEW j \in Jobs, SaveAccessToken(j)
  PROVE  LET s == job[j].sub
             S == SubOf(accessTokens, s)
             p == job[j].pair
         IN  /\ p \in Pairs /\ accessTokens'[p].sub = s
             /\ \A q \in Pairs \ {p} :
                    accessTokens'[q] = accessTokens[q] \/ accessTokens'[q] = None
             /\ AtCap(S, MaxTokensPerSub) => Oldest(S) = p \/ accessTokens'[Oldest(S)] = None
  <1> DEFINE s == job[j].sub
             S == SubOf(accessTokens, s)
             p == job[j].pair
             kept == EvictOldestIfAtCap(accessTokens, S, MaxTokensPerSub)
  <1>t. /\ accessTokens \in [Pairs -> AccessRecords \cup {None}]
        /\ MaxTokensPerSub \in Nat \ {0} /\ S \in SUBSET Pairs
    BY ConstantsAssumption DEF IInv, TypeOK, SubOf
  <1>1. job[j].op = "saveAccessToken"
    BY DEF SaveAccessToken, Dequeue
  <1>2. p \in Pairs
    BY <1>1, MintedRecords DEF MintOps, IInv
  <1>3. /\ kept \in [Pairs -> AccessRecords \cup {None}]
        /\ \A q \in Pairs : kept[q] = accessTokens[q] \/ kept[q] = None
    BY <1>t, EvictionType
  <1>4. accessTokens' = [kept EXCEPT ![p] = AccessRecord(job[j])]
    BY DEF SaveAccessToken, AccessRecord
  <1>5. ASSUME AtCap(S, MaxTokensPerSub) PROVE Oldest(S) \in Pairs /\ kept[Oldest(S)] = None
    BY <1>t, <1>5, EvictionDrops, AtCapHasOldest
  <1>6. AccessRecord(job[j]).sub = s
    BY DEF AccessRecord
  <1> HIDE DEF s, S, p, kept
  <1>7. /\ accessTokens'[p].sub = s
        /\ \A q \in Pairs \ {p} : accessTokens'[q] = kept[q]
    BY <1>2, <1>3, <1>4, <1>6
  <1>8. \A q \in Pairs \ {p} :
            accessTokens'[q] = accessTokens[q] \/ accessTokens'[q] = None
    BY <1>3, <1>7
  <1>9. AtCap(S, MaxTokensPerSub) => Oldest(S) = p \/ accessTokens'[Oldest(S)] = None
    BY <1>5, <1>7
  <1> QED
    BY <1>2, <1>7, <1>8, <1>9 DEF s, S, p

\* Saving a refresh token makes room among the active ones and the tombstones.
LEMMA SavesRefresh ==
  ASSUME IInv, NEW j \in Jobs, SaveRefreshToken(j)
  PROVE  LET s == job[j].sub
             p == job[j].pair
         IN  /\ p \in Pairs /\ refreshTokens'[p] = RefreshRecord(job[j])
             /\ \A q \in Pairs \ {p} :
                    refreshTokens'[q] = refreshTokens[q] \/ refreshTokens'[q] = None
             /\ AtCap(Active(s), MaxTokensPerSub) =>
                    \/ Oldest(Active(s)) = p
                    \/ refreshTokens'[Oldest(Active(s))] = None
             /\ AtCap(Tombstones(s), MaxTombstonesPerSub) =>
                    \/ Oldest(Tombstones(s)) = p
                    \/ refreshTokens'[Oldest(Tombstones(s))] = None
  <1> DEFINE s == job[j].sub
             p == job[j].pair
             A == Active(s)
             T == Tombstones(s)
             activeKept == EvictOldestIfAtCap(refreshTokens, A, MaxTokensPerSub)
             kept == EvictOldestIfAtCap(activeKept, T, MaxTombstonesPerSub)
  <1>t. /\ refreshTokens \in [Pairs -> RefreshRecords \cup {None}]
        /\ MaxTokensPerSub \in Nat \ {0} /\ MaxTombstonesPerSub \in Nat \ {0}
        /\ A \in SUBSET Pairs /\ T \in SUBSET Pairs
    BY ConstantsAssumption, CountedPairs DEF IInv, TypeOK
  <1>1. job[j].op = "saveRefreshToken"
    BY DEF SaveRefreshToken, Dequeue
  <1>2. p \in Pairs
    BY <1>1, MintedRecords DEF MintOps, IInv
  <1>3. /\ activeKept \in [Pairs -> RefreshRecords \cup {None}]
        /\ \A q \in Pairs : activeKept[q] = refreshTokens[q] \/ activeKept[q] = None
    BY <1>t, EvictionType
  <1>4. refreshTokens' = [kept EXCEPT ![p] = RefreshRecord(job[j])]
    BY DEF SaveRefreshToken, EvictTombstones, RefreshRecord, RefreshScopes
  <1>5. ASSUME AtCap(A, MaxTokensPerSub)
        PROVE  Oldest(A) \in Pairs /\ activeKept[Oldest(A)] = None
    BY <1>t, <1>5, EvictionDrops, AtCapHasOldest
  <1> HIDE DEF activeKept
  <1>6. /\ kept \in [Pairs -> RefreshRecords \cup {None}]
        /\ \A q \in Pairs : kept[q] = activeKept[q] \/ kept[q] = None
    BY <1>3, EvictionType
  <1>7. ASSUME AtCap(T, MaxTombstonesPerSub)
        PROVE  Oldest(T) \in Pairs /\ kept[Oldest(T)] = None
    BY <1>t, <1>3, <1>7, EvictionDrops, AtCapHasOldest
  <1> HIDE DEF s, p, A, T, kept
  <1>8. /\ refreshTokens'[p] = RefreshRecord(job[j])
        /\ \A q \in Pairs \ {p} : refreshTokens'[q] = kept[q]
    BY <1>2, <1>4, <1>6
  <1>9. \A q \in Pairs \ {p} :
            refreshTokens'[q] = refreshTokens[q] \/ refreshTokens'[q] = None
    BY <1>3, <1>6, <1>8
  <1>10. AtCap(A, MaxTokensPerSub) => Oldest(A) = p \/ refreshTokens'[Oldest(A)] = None
    BY <1>5, <1>6, <1>8
  <1>11. AtCap(T, MaxTombstonesPerSub) => Oldest(T) = p \/ refreshTokens'[Oldest(T)] = None
    BY <1>7, <1>8
  <1> QED
    BY <1>2, <1>8, <1>9, <1>10, <1>11 DEF s, p, A, T

LEMMA SavesActive ==
  ASSUME IInv, NEW j \in Jobs, SaveRefreshToken(j)
  PROVE  refreshTokens'[job[j].pair].supersededBy = 0
  <1>1. refreshTokens'[job[j].pair] = RefreshRecord(job[j])
    BY SavesRefresh
  <1>2. RefreshRecord(job[j]).supersededBy = 0
    BY DEF RefreshRecord
  <1> QED
    BY <1>1, <1>2

LEMMA AccessCapStep ==
  ASSUME CapsInv, [Next]_vars, NEW s \in Subs
  PROVE  Cardinality(SubOf(accessTokens, s)') <= MaxTokensPerSub
  <1> DEFINE S == SubOf(accessTokens, s)
             T == SubOf(accessTokens, s)'
  <1>t. /\ S \in SUBSET Pairs /\ T \in SUBSET Pairs /\ MaxTokensPerSub \in Nat \ {0}
        /\ Cardinality(S) <= MaxTokensPerSub
    BY ConstantsAssumption, CountedPairs DEF CapsInv, TokensCapped
  <1>1. ASSUME T \subseteq S PROVE Cardinality(T) <= MaxTokensPerSub
    <2> HIDE DEF S, T
    <2> QED
      BY <1>t, <1>1, ShrinkWithinCap
  <1>2. CASE AccessShrinks
    <2>1. T \subseteq S
      BY <1>2 DEF AccessShrinks, SubOf
    <2> QED
      BY <1>1, <2>1
  <1>3. ASSUME NEW j \in Jobs, SaveAccessToken(j)
        PROVE  Cardinality(T) <= MaxTokensPerSub
    <2> DEFINE p == job[j].pair
    <2>1. /\ p \in Pairs /\ accessTokens'[p].sub = job[j].sub
          /\ \A q \in Pairs \ {p} :
                 accessTokens'[q] = accessTokens[q] \/ accessTokens'[q] = None
      BY <1>3, SavesAccess DEF CapsInv
    <2>2. CASE job[j].sub # s
      <3>1. T \subseteq S
        BY <2>1, <2>2 DEF SubOf
      <3> QED
        BY <1>1, <3>1
    <2>3. CASE job[j].sub = s
      <3>1. T \subseteq S \cup {p}
        BY <2>1 DEF SubOf
      <3>2. AtCap(S, MaxTokensPerSub) => Oldest(S) = p \/ accessTokens'[Oldest(S)] = None
        BY <1>3, <2>3, SavesAccess DEF CapsInv
      <3>3. AtCap(S, MaxTokensPerSub) => T \subseteq (S \ {Oldest(S)}) \cup {p}
        <4>1. \A q \in T : accessTokens'[q] # None
          BY DEF SubOf
        <4> HIDE DEF S, T, p
        <4> QED
          BY <3>1, <3>2, <4>1
      <3> HIDE DEF S, T, p
      <3> QED
        BY <1>t, <3>1, <3>3, SaveWithinCap
    <2> QED
      BY <2>2, <2>3
  <1> QED
    BY <1>2, <1>3, Writers DEF CapsInv, IInv

LEMMA ActiveCapStep ==
  ASSUME CapsInv, [Next]_vars, NEW s \in Subs
  PROVE  Cardinality(Active(s)') <= MaxTokensPerSub
  <1> DEFINE S == Active(s)
             T == Active(s)'
  <1>t. /\ S \in SUBSET Pairs /\ T \in SUBSET Pairs /\ MaxTokensPerSub \in Nat \ {0}
        /\ Cardinality(S) <= MaxTokensPerSub
    BY ConstantsAssumption, CountedPairs DEF CapsInv, TokensCapped
  <1>1. ASSUME T \subseteq S PROVE Cardinality(T) <= MaxTokensPerSub
    <2> HIDE DEF S, T
    <2> QED
      BY <1>t, <1>1, ShrinkWithinCap
  <1>2. CASE RefreshShrinks
    <2>1. T \subseteq S
      BY <1>2 DEF RefreshShrinks, Active, SubOf, Superseded
    <2> QED
      BY <1>1, <2>1
  <1>3. ASSUME NEW j \in Jobs, SaveRefreshToken(j)
        PROVE  Cardinality(T) <= MaxTokensPerSub
    <2> DEFINE p == job[j].pair
    <2>1. /\ p \in Pairs /\ refreshTokens'[p] = RefreshRecord(job[j])
          /\ \A q \in Pairs \ {p} :
                 refreshTokens'[q] = refreshTokens[q] \/ refreshTokens'[q] = None
      BY <1>3, SavesRefresh DEF CapsInv
    <2>0. refreshTokens'[p].sub = job[j].sub
      BY <2>1 DEF RefreshRecord
    <2>2. CASE job[j].sub # s
      <3>1. T \subseteq S
        BY <2>0, <2>1, <2>2 DEF Active, SubOf, Superseded
      <3> QED
        BY <1>1, <3>1
    <2>3. CASE job[j].sub = s
      <3>1. T \subseteq S \cup {p}
        BY <2>1 DEF Active, SubOf, Superseded
      <3>2. AtCap(S, MaxTokensPerSub) => Oldest(S) = p \/ refreshTokens'[Oldest(S)] = None
        BY <1>3, <2>3, SavesRefresh DEF CapsInv
      <3>3. AtCap(S, MaxTokensPerSub) => T \subseteq (S \ {Oldest(S)}) \cup {p}
        <4>1. \A q \in T : refreshTokens'[q] # None
          BY DEF Active, SubOf
        <4> HIDE DEF S, T, p
        <4> QED
          BY <3>1, <3>2, <4>1
      <3> HIDE DEF S, T, p
      <3> QED
        BY <1>t, <3>1, <3>3, SaveWithinCap
    <2> QED
      BY <2>2, <2>3
  <1>4. ASSUME NEW j \in Jobs, UpdateRefreshToken(j)
        PROVE  Cardinality(T) <= MaxTokensPerSub
    <2>1. job[j].op = "updateRefreshToken"
      BY <1>4 DEF UpdateRefreshToken, Dequeue
    <2>2. Tombstone(job[j]).supersededBy # 0
      BY <2>1, MintedRecords DEF CapsInv, IInv, MintOps, Superseded
    <2>3. refreshTokens' = [refreshTokens EXCEPT ![job[j].parent] = Tombstone(job[j])]
      BY <1>4 DEF UpdateRefreshToken
    <2>4. \A q \in Pairs :
              refreshTokens'[q] = refreshTokens[q] \/ refreshTokens'[q].supersededBy # 0
      BY <2>2, <2>3 DEF CapsInv, IInv, TypeOK
    <2>5. T \subseteq S
      BY <2>4 DEF Active, SubOf, Superseded
    <2> QED
      BY <1>1, <2>5
  <1> QED
    BY <1>2, <1>3, <1>4, Writers DEF CapsInv, IInv

-----------------------------------------------------------------------------
(***************************************************************************)
(* Tombstones: each rotation that saved its new token adds one.            *)
(***************************************************************************)

\* A job whose mutation is being written has just had it applied.
LEMMA WritingStarts ==
  ASSUME TypeOK, [Next]_vars, NEW i \in Jobs, writing' = i, writing # i
  PROVE  Mutation(i) /\ job' = job /\ writing = None
  <1>n. i # None
    BY ConstantsAssumption
  <1>1. ASSUME NEW j \in Requests, Request(j) PROVE writing' = writing
    BY <1>1 DEF Request, RegisterClient, SignIn, ExchangeAuthorizationCode,
       ExchangeRefreshToken, ReuseRefreshToken, VerifyExpired, RevokeToken,
       HandleRevokedGrant
  <1>2. ASSUME NEW j \in Jobs, Continuation(j) PROVE writing' = None
    BY <1>2 DEF Continuation, ThenMutateAgain, ThenIssueCode, ThenRespond, WriteDone
  <1>3. ASSUME SweepTimer \/ Tick \/ UNCHANGED vars PROVE writing' = writing
    BY <1>3 DEF SweepTimer, Tick, vars, queueVars
  <1>4. ASSUME NEW j \in Jobs, Mutation(j)
        PROVE  writing' = j /\ job' = job /\ writing = None
    BY <1>4 DEF Mutation, SaveClient, UpsertUser, SaveAccessToken, SaveRefreshToken,
       UpdateRefreshToken, DeleteAccessToken, RevokeTokenFamily, UpdateUser,
       RevokeTokensForSub, SweepExpired, Dequeue
  <1> QED
    BY <1>1, <1>2, <1>3, <1>4, <1>n DEF Next

\* A job in flight changes only when its write is on disk, and the sweep
\* timer's job is only ever a sweep.
LEMMA MovesWhenWritten ==
  ASSUME TypeOK, [Next]_vars, NEW i \in Jobs, job[i].op # "idle", job'[i] # job[i]
  PROVE  writing = i /\ writing' = None /\ Continuation(i)
  <1>e. ASSUME NEW j \in Jobs, job[j] = Idle, NEW rec,
               job' = job \/ Enqueue(j, rec)
        PROVE  FALSE
    BY <1>e DEF Enqueue, TypeOK, Idle
  <1>1. ASSUME NEW j \in Requests, Request(j) PROVE FALSE
    <2>1. j \in Jobs /\ job[j] = Idle
      BY <1>1 DEF Jobs, Request, Begin, RegisterClient, SignIn, ExchangeAuthorizationCode,
         ExchangeRefreshToken, ReuseRefreshToken, VerifyExpired, RevokeToken,
         HandleRevokedGrant
    <2>2. job' = job \/ \E rec : Enqueue(j, rec)
      BY <1>1 DEF Request, RegisterClient, SignIn, ExchangeAuthorizationCode,
         ExchangeRefreshToken, ReuseRefreshToken, VerifyExpired, RevokeToken,
         HandleRevokedGrant
    <2> QED
      BY <1>e, <2>1, <2>2
  <1>2. ASSUME NEW j \in Jobs, Mutation(j) PROVE FALSE
    <2>1. job' = job
      BY <1>2 DEF Mutation, SaveClient, UpsertUser, SaveAccessToken, SaveRefreshToken,
         UpdateRefreshToken, DeleteAccessToken, RevokeTokenFamily, UpdateUser,
         RevokeTokensForSub, SweepExpired
    <2> QED
      BY <2>1
  <1>3. ASSUME SweepTimer PROVE FALSE
    BY <1>3, <1>e DEF SweepTimer, Jobs
  <1>4. ASSUME Tick \/ UNCHANGED vars PROVE FALSE
    BY <1>4 DEF Tick, vars
  <1>5. ASSUME NEW j \in Jobs, Continuation(j)
        PROVE  writing = i /\ writing' = None /\ Continuation(i)
    <2>1. writing = j /\ writing' = None
      BY <1>5 DEF Continuation, ThenMutateAgain, ThenIssueCode, ThenRespond, WriteDone
    <2>2. \E rec : job' = [job EXCEPT ![j] = rec]
      BY <1>5 DEF Continuation, ThenMutateAgain, ThenIssueCode, ThenRespond, Enqueue
    <2>3. i = j
      BY <2>2 DEF TypeOK
    <2> QED
      BY <1>5, <2>1, <2>3
  <1> QED
    BY <1>1, <1>2, <1>3, <1>4, <1>5 DEF Next

LEMMA SweeperStep ==
  ASSUME TypeOK, [Next]_vars, job[Sweeper].op \in {"idle", "sweepExpired"}
  PROVE  job'[Sweeper].op \in {"idle", "sweepExpired"}
  <1>0. Sweeper \in Jobs /\ Sweeper \notin Requests
    BY ConstantsAssumption DEF Jobs
  <1>e. ASSUME NEW j \in Requests, NEW rec, Enqueue(j, rec) PROVE job'[Sweeper] = job[Sweeper]
    BY <1>0, <1>e DEF Enqueue, TypeOK
  <1>1. ASSUME NEW j \in Requests, Request(j) PROVE job'[Sweeper] = job[Sweeper]
    <2>1. job' = job \/ \E rec : Enqueue(j, rec)
      BY <1>1 DEF Request, RegisterClient, SignIn, ExchangeAuthorizationCode,
         ExchangeRefreshToken, ReuseRefreshToken, VerifyExpired, RevokeToken,
         HandleRevokedGrant
    <2> QED
      BY <1>e, <2>1
  <1>2. ASSUME NEW j \in Jobs, Mutation(j) PROVE job' = job
    BY <1>2 DEF Mutation, SaveClient, UpsertUser, SaveAccessToken, SaveRefreshToken,
       UpdateRefreshToken, DeleteAccessToken, RevokeTokenFamily, UpdateUser,
       RevokeTokensForSub, SweepExpired
  <1>3. ASSUME SweepTimer PROVE job'[Sweeper].op = "sweepExpired"
    BY <1>0, <1>3 DEF SweepTimer, Enqueue, TypeOK, Idle
  <1>4. ASSUME Tick \/ UNCHANGED vars PROVE job' = job
    BY <1>4 DEF Tick, vars
  <1>5. ASSUME NEW j \in Jobs, Continuation(j)
        PROVE  job'[Sweeper] = job[Sweeper] \/ job'[Sweeper].op = "idle"
    <2>1. CASE j # Sweeper
      BY <1>0, <1>5, <2>1 DEF Continuation, ThenMutateAgain, ThenIssueCode, ThenRespond,
         Enqueue, TypeOK
    <2>2. CASE j = Sweeper
      <3>1. ~ThenMutateAgain(j)
        BY <2>2 DEF ThenMutateAgain, NextOp
      <3> QED
        BY <1>0, <1>5, <2>2, <3>1 DEF Continuation, ThenIssueCode, ThenRespond, TypeOK, Idle
    <2> QED
      BY <2>1, <2>2
  <1> QED
    BY <1>1, <1>2, <1>3, <1>4, <1>5 DEF Next

\* A handler reaches its later saves only from its earlier ones.
LEMMA LaterSaves ==
  ASSUME IInv, [Next]_vars, NEW i \in Jobs, job'[i] # job[i],
         job'[i].op \in {"saveRefreshToken", "updateRefreshToken"}
  PROVE  /\ job'[i].op = NextOp(job[i]) /\ job'[i].sub = job[i].sub
         /\ writing = i /\ writing' = None
  <1>t. TypeOK
    BY DEF IInv
  <1>1. PICK j \in Jobs : JobChange(j) /\ \A l \in Jobs \ {j} : job'[l] = job[l]
    BY <1>t, OneJob
  <1>2. i = j
    BY <1>1
  <1>3. CASE NextOp(job[i]) # "idle" /\ job'[i] = [job[i] EXCEPT !.op = NextOp(job[i])]
    <2>1. job'[i].op = NextOp(job[i]) /\ job'[i].sub = job[i].sub
      BY <1>t, <1>3, NextMutation DEF TypeOK
    <2>2. job[i].op # "idle"
      BY <1>3 DEF NextOp
    <2> QED
      BY <1>t, <2>1, <2>2, MovesWhenWritten
  <1>4. CASE job'[i] = Idle
    BY <1>4 DEF Idle
  <1>5. CASE NewRevocation(job'[i])
    BY <1>5 DEF NewRevocation, Idle
  <1>6. CASE NewSignIn(job'[i])
    BY <1>6 DEF NewSignIn, Idle
  <1>7. CASE NewMint(job'[i])
    BY <1>7, NewMintFits
  <1>8. CASE NewOther(job'[i])
    BY <1>8 DEF NewOther
  <1> QED
    BY <1>1, <1>2, <1>3, <1>4, <1>5, <1>6, <1>7, <1>8 DEF JobChange

\* A rotation under way was so before, or its new token has just been saved.
LEMMA SupersedingChange ==
  ASSUME IInv, [Next]_vars, NEW s, NEW i \in Superseding(s)'
  PROVE  \/ i \in Superseding(s) /\ ~UpdateRefreshToken(i)
         \/ SaveRefreshToken(i) /\ job[i].sub = s
  <1>0. /\ i \in Jobs /\ job'[i].sub = s
        /\ \/ job'[i].op = "updateRefreshToken" /\ writing' # i
           \/ job'[i].op = "saveRefreshToken" /\ Rotates(job'[i]) /\ writing' = i
    BY DEF Superseding
  <1>t. TypeOK /\ i # None
    BY <1>0, ConstantsAssumption DEF IInv
  <1>1. CASE job'[i].op = "updateRefreshToken" /\ writing' # i
    <2>1. ~UpdateRefreshToken(i)
      BY <1>1 DEF UpdateRefreshToken, Dequeue
    <2>2. CASE job'[i] = job[i]
      <3>1. writing # i
        <4> SUFFICES ASSUME writing = i PROVE FALSE
          OBVIOUS
        <4>1. job'[i].op = NextOp(job[i]) /\ job[i].op = "updateRefreshToken"
          BY <1>0, <1>t, <1>1, <2>2, WrittenMovesOn
        <4> QED
          BY <1>1, <4>1 DEF NextOp
      <3> QED
        BY <1>0, <1>1, <2>1, <2>2, <3>1 DEF Superseding
    <2>3. CASE job'[i] # job[i]
      <3>1. /\ job'[i].op = NextOp(job[i]) /\ job'[i].sub = job[i].sub /\ writing = i
        BY <1>0, <1>1, <2>3, LaterSaves
      <3>2. job[i].op = "saveRefreshToken" /\ Rotates(job[i])
        BY <1>1, <3>1 DEF NextOp
      <3> QED
        BY <1>0, <2>1, <3>1, <3>2 DEF Superseding
    <2> QED
      BY <2>2, <2>3
  <1>2. CASE job'[i].op = "saveRefreshToken" /\ Rotates(job'[i]) /\ writing' = i
    <2>1. job'[i] = job[i]
      BY <1>0, <1>t, <1>2, LaterSaves
    <2>2. CASE writing = i
      <3>1. ~UpdateRefreshToken(i)
        BY <1>t, <2>2 DEF UpdateRefreshToken, Dequeue
      <3> QED
        BY <1>0, <1>2, <2>1, <2>2, <3>1 DEF Superseding
    <2>3. CASE writing # i
      <3>1. Mutation(i)
        BY <1>0, <1>t, <1>2, <2>3, WritingStarts
      <3>2. job[i].op = "saveRefreshToken"
        BY <1>2, <2>1
      <3>3. SaveRefreshToken(i)
        BY <3>1, <3>2 DEF Mutation, SaveClient, UpsertUser, SaveAccessToken,
           UpdateRefreshToken, DeleteAccessToken, RevokeTokenFamily, UpdateUser,
           RevokeTokensForSub, SweepExpired, Dequeue
      <3> QED
        BY <1>0, <2>1, <3>3
    <2> QED
      BY <2>2, <2>3
  <1> QED
    BY <1>0, <1>1, <1>2

\* Rotations under way are requests.
LEMMA SupersedingFinite ==
  ASSUME CapsInv, NEW s
  PROVE  /\ Superseding(s) \in SUBSET Requests /\ IsFiniteSet(Superseding(s))
         /\ Cardinality(Superseding(s)) \in Nat
         /\ Cardinality(Superseding(s)) <= Cardinality(Requests)
         /\ Cardinality(Requests) \in Nat
  <1>1. Sweeper \notin Superseding(s)
    BY DEF CapsInv, Superseding
  <1>2. Superseding(s) \in SUBSET Requests
    BY <1>1 DEF Superseding, Jobs
  <1> QED
    BY <1>2, FileAssumption, FS_Subset, FS_CardinalityType

LEMMA SupersedingNextFinite ==
  ASSUME CapsInv, [Next]_vars, NEW s
  PROVE  /\ Superseding(s)' \in SUBSET Requests /\ IsFiniteSet(Superseding(s)')
         /\ Cardinality(Superseding(s)') \in Nat
         /\ Cardinality(Superseding(s)') <= Cardinality(Requests)
         /\ Cardinality(Requests) \in Nat
  <1>1. job'[Sweeper].op \in {"idle", "sweepExpired"}
    BY SweeperStep DEF CapsInv, IInv
  <1>2. Sweeper \notin Superseding(s)'
    BY <1>1 DEF Superseding
  <1>3. Superseding(s)' \in SUBSET Requests
    BY <1>2 DEF Superseding, Jobs
  <1> QED
    BY <1>3, FileAssumption, FS_Subset, FS_CardinalityType

\* One mutation is applied in a step.
LEMMA OneMutation ==
  ASSUME NEW i \in Jobs, NEW j \in Jobs,
         SaveRefreshToken(i) \/ UpdateRefreshToken(i),
         SaveRefreshToken(j) \/ UpdateRefreshToken(j)
  PROVE  i = j /\ (SaveRefreshToken(i) => ~UpdateRefreshToken(j))
  BY DEF SaveRefreshToken, UpdateRefreshToken, Dequeue

\* Only updateRefreshToken makes a tombstone, of its own member.
LEMMA TombstoneChange ==
  ASSUME IInv, [Next]_vars, NEW s, NEW p \in Tombstones(s)'
  PROVE  \/ p \in Tombstones(s)
         \/ \E j \in Jobs : UpdateRefreshToken(j) /\ p = job[j].parent /\ job[j].sub = s
  <1>0. /\ p \in Pairs /\ refreshTokens'[p] # None /\ refreshTokens'[p].sub = s
        /\ refreshTokens'[p].supersededBy # 0
    BY DEF Tombstones, SubOf, Superseded
  <1>1. CASE refreshTokens'[p] = refreshTokens[p]
    BY <1>0, <1>1 DEF Tombstones, SubOf, Superseded
  <1>2. CASE RefreshShrinks
    BY <1>0, <1>1, <1>2 DEF RefreshShrinks
  <1>3. ASSUME NEW j \in Jobs, SaveRefreshToken(j)
        PROVE  refreshTokens'[p] = refreshTokens[p]
    <2>1. p # job[j].pair
      <3>1. refreshTokens'[job[j].pair].supersededBy = 0
        BY <1>3, SavesActive
      <3> QED
        BY <1>0, <3>1
    <2> QED
      BY <1>0, <1>3, <2>1, SavesRefresh
  <1>4. ASSUME NEW j \in Jobs, UpdateRefreshToken(j), refreshTokens'[p] # refreshTokens[p]
        PROVE  p = job[j].parent /\ job[j].sub = s
    <2>1. job[j].op = "updateRefreshToken"
      BY <1>4 DEF UpdateRefreshToken, Dequeue
    <2>2. Tombstone(job[j]).sub = job[j].sub
      BY <2>1, MintedRecords DEF IInv, MintOps
    <2>3. refreshTokens' = [refreshTokens EXCEPT ![job[j].parent] = Tombstone(job[j])]
      BY <1>4 DEF UpdateRefreshToken
    <2>4. p = job[j].parent /\ refreshTokens'[p] = Tombstone(job[j])
      BY <1>0, <1>4, <2>3 DEF IInv, TypeOK
    <2> QED
      BY <1>0, <2>2, <2>4
  <1> QED
    BY <1>1, <1>2, <1>3, <1>4, Writers DEF IInv

\* A tombstone replaces a rotation under way; a rotation that starts while
\* the tombstones are at their cap has dropped one.
LEMMA TombstoneCapStep ==
  ASSUME CapsInv, [Next]_vars, NEW s \in Subs
  PROVE  Cardinality(Tombstones(s)') + Cardinality(Superseding(s)')
             <= MaxTombstonesPerSub - 1 + Cardinality(Requests)
  <1> DEFINE S == Tombstones(s)
             T == Tombstones(s)'
             U == Superseding(s)
             V == Superseding(s)'
             N == Cardinality(Requests)
  <1>i. IInv
    BY DEF CapsInv
  <1>t. /\ S \in SUBSET Pairs /\ T \in SUBSET Pairs /\ MaxTombstonesPerSub \in Nat \ {0}
        /\ IsFiniteSet(S) /\ Cardinality(S) \in Nat /\ Cardinality(T) \in Nat
    BY ConstantsAssumption, CountedPairs, PairsAreFinite
  <1>u. /\ IsFiniteSet(U) /\ Cardinality(U) \in Nat /\ N \in Nat
        /\ IsFiniteSet(V) /\ Cardinality(V) \in Nat /\ Cardinality(V) <= N
    BY SupersedingFinite, SupersedingNextFinite
  <1>c. Cardinality(S) + Cardinality(U) <= MaxTombstonesPerSub - 1 + N
    BY DEF CapsInv, TokensCapped
  <1>v. \A i \in V : \/ i \in U /\ ~UpdateRefreshToken(i)
                     \/ SaveRefreshToken(i) /\ job[i].sub = s
    BY <1>i, SupersedingChange
  <1>w. \A p \in T : \/ p \in S
                     \/ \E j \in Jobs : /\ UpdateRefreshToken(j) /\ p = job[j].parent
                                        /\ job[j].sub = s
    BY <1>i, TombstoneChange
  <1>j. \A i \in V : i \in Jobs
    BY DEF Superseding
  <1>1. ASSUME NEW j \in Jobs, SaveRefreshToken(j), job[j].sub = s
        PROVE  Cardinality(T) + Cardinality(V) <= MaxTombstonesPerSub - 1 + N
    <2>1. T \subseteq S
      BY <1>1, <1>w, OneMutation
    <2>2. V \subseteq U \cup {j}
      BY <1>1, <1>v, <1>j, OneMutation
    <2>3. AtCap(S, MaxTombstonesPerSub) => Oldest(S) \in S /\ Oldest(S) \notin T
      <3>1. AtCap(S, MaxTombstonesPerSub) =>
                Oldest(S) = job[j].pair \/ refreshTokens'[Oldest(S)] = None
        BY <1>i, <1>1, SavesRefresh
      <3>2. refreshTokens'[job[j].pair].supersededBy = 0
        BY <1>i, <1>1, SavesActive
      <3>3. \A p \in T : refreshTokens'[p] # None /\ refreshTokens'[p].supersededBy # 0
        BY DEF Tombstones, SubOf, Superseded
      <3>4. AtCap(S, MaxTombstonesPerSub) => Oldest(S) \in S
        BY <1>t, AtCapHasOldest
      <3> QED
        BY <3>1, <3>2, <3>3, <3>4
    <2> HIDE DEF S, T, U, V, N
    <2>4. Cardinality(V) <= Cardinality(U) + 1
      <3>1. /\ IsFiniteSet(U \cup {j}) /\ Cardinality(U \cup {j}) \in Nat
            /\ Cardinality(U \cup {j}) <= Cardinality(U) + 1
        BY <1>u, AddsAtMostOne
      <3>2. Cardinality(V) <= Cardinality(U \cup {j})
        BY <2>2, <3>1, FS_Subset
      <3> QED
        BY <1>u, <3>1, <3>2
    <2>5. CASE AtCap(S, MaxTombstonesPerSub)
      <3>1. /\ IsFiniteSet(S \ {Oldest(S)})
            /\ Cardinality(S \ {Oldest(S)}) = Cardinality(S) - 1
        BY <1>t, <2>3, <2>5, FS_RemoveElement
      <3>2. T \in SUBSET (S \ {Oldest(S)})
        BY <2>1, <2>3, <2>5
      <3>3. Cardinality(T) <= Cardinality(S) - 1
        BY <3>1, <3>2, FS_Subset
      <3> QED
        BY <1>t, <1>u, <1>c, <2>4, <3>3
    <2>6. CASE ~AtCap(S, MaxTombstonesPerSub)
      <3>1. Cardinality(S) <= MaxTombstonesPerSub - 1
        BY <1>t, <2>6 DEF AtCap
      <3>2. Cardinality(T) <= Cardinality(S)
        BY <1>t, <2>1, FS_Subset
      <3> QED
        BY <1>t, <1>u, <3>1, <3>2
    <2> QED
      BY <2>5, <2>6
  <1>2. ASSUME NEW j \in Jobs, UpdateRefreshToken(j), job[j].sub = s
        PROVE  Cardinality(T) + Cardinality(V) <= MaxTombstonesPerSub - 1 + N
    <2>1. T \subseteq S \cup {job[j].parent}
      BY <1>2, <1>w, OneMutation
    <2>2. V \subseteq U \ {j}
      BY <1>2, <1>v, <1>j, OneMutation
    <2>3. j \in U
      <3>1. job[j].op = "updateRefreshToken" /\ writing = None
        BY <1>2 DEF UpdateRefreshToken, Dequeue
      <3> QED
        BY <1>2, <3>1, ConstantsAssumption DEF Superseding
    <2> HIDE DEF S, T, U, V, N
    <2>4. Cardinality(T) <= Cardinality(S) + 1
      <3>1. /\ IsFiniteSet(S \cup {job[j].parent})
            /\ Cardinality(S \cup {job[j].parent}) \in Nat
            /\ Cardinality(S \cup {job[j].parent}) <= Cardinality(S) + 1
        BY <1>t, AddsAtMostOne
      <3>2. Cardinality(T) <= Cardinality(S \cup {job[j].parent})
        BY <2>1, <3>1, FS_Subset
      <3> QED
        BY <1>t, <3>1, <3>2
    <2>5. IsFiniteSet(U \ {j}) /\ Cardinality(U \ {j}) = Cardinality(U) - 1
      BY <1>u, <2>3, FS_RemoveElement
    <2>6. Cardinality(V) <= Cardinality(U) - 1
      BY <2>2, <2>5, FS_Subset
    <2> QED
      BY <1>t, <1>u, <1>c, <2>4, <2>6
  <1>3. ASSUME \A j \in Jobs : /\ ~(SaveRefreshToken(j) /\ job[j].sub = s)
                               /\ ~(UpdateRefreshToken(j) /\ job[j].sub = s)
        PROVE  Cardinality(T) + Cardinality(V) <= MaxTombstonesPerSub - 1 + N
    <2>1. T \subseteq S /\ V \subseteq U
      BY <1>3, <1>v, <1>w, <1>j
    <2> HIDE DEF S, T, U, V, N
    <2>2. Cardinality(T) <= Cardinality(S) /\ Cardinality(V) <= Cardinality(U)
      BY <1>t, <1>u, <2>1, FS_Subset
    <2> QED
      BY <1>t, <1>u, <1>c, <2>2
  <1> QED
    BY <1>1, <1>2, <1>3

LEMMA CapsInit == Init => CapsInv
  <1> SUFFICES ASSUME Init PROVE CapsInv
    OBVIOUS
  <1>1. IInv
    BY InitInv
  <1>2. job[Sweeper].op \in {"idle", "sweepExpired"}
    BY DEF Init, Jobs, Idle
  <1>3. ASSUME NEW s \in Subs
        PROVE  /\ Cardinality(SubOf(accessTokens, s)) <= MaxTokensPerSub
               /\ Cardinality(Active(s)) <= MaxTokensPerSub
               /\ Cardinality(Tombstones(s)) + Cardinality(Superseding(s))
                     <= MaxTombstonesPerSub - 1 + Cardinality(Requests)
    <2>1. SubOf(accessTokens, s) = {}
      BY DEF Init, SubOf
    <2>2. /\ \A p \in Pairs : refreshTokens[p] # None <=> p \in 1..BootPairs
          /\ 1..BootPairs \subseteq Pairs
      <3>1. BootPairs \in 0..MaxPairs /\ MaxPairs \in Nat
        BY ConstantsAssumption
      <3>2. 1..BootPairs \subseteq Pairs
        BY <3>1 DEF Pairs
      <3>3. \A p \in Pairs : p <= BootPairs <=> p \in 1..BootPairs
        BY <3>1 DEF Pairs
      <3>4. \A p \in Pairs : refreshTokens[p] # None <=> p <= BootPairs
        BY ConstantsAssumption DEF Init
      <3> QED
        BY <3>2, <3>3, <3>4
    <2>3. refreshTokens = BootTokens
      BY DEF Init
    <2>4. Active(s) = BootOf(s, TRUE)
      BY <2>2, <2>3 DEF Active, SubOf, Superseded, BootOf
    <2>5. Tombstones(s) = BootOf(s, FALSE)
      BY <2>2, <2>3 DEF Tombstones, SubOf, Superseded, BootOf
    <2>6. Superseding(s) = {}
      BY DEF Init, Superseding, Idle
    <2>7. /\ Cardinality({}) = 0 /\ MaxTokensPerSub \in Nat
          /\ Cardinality(BootOf(s, FALSE)) \in Nat
      BY <2>5, ConstantsAssumption, FS_EmptySet, CountedPairs, PairsAreFinite
    <2>8. /\ Cardinality(BootOf(s, TRUE)) <= MaxTokensPerSub
          /\ Cardinality(BootOf(s, FALSE))
                <= MaxTombstonesPerSub - 1 + Cardinality(Requests)
      BY FileAssumption
    <2>9. Cardinality(SubOf(accessTokens, s)) <= MaxTokensPerSub
      BY <2>1, <2>7
    <2>10. Cardinality(Tombstones(s)) + Cardinality(Superseding(s))
              = Cardinality(BootOf(s, FALSE))
      <3>1. Cardinality(Superseding(s)) = 0
        BY <2>6, <2>7
      <3>2. Cardinality(Tombstones(s)) = Cardinality(BootOf(s, FALSE))
        BY <2>5
      <3> DEFINE n == Cardinality(BootOf(s, FALSE))
      <3>3. n \in Nat /\ Cardinality(Tombstones(s)) = n
        BY <2>7, <3>2
      <3> HIDE DEF n
      <3>4. Cardinality(Tombstones(s)) + Cardinality(Superseding(s)) = n
        BY <3>1, <3>3
      <3> QED
        BY <3>4 DEF n
    <2> QED
      BY <2>4, <2>8, <2>9, <2>10
  <1> QED
    BY <1>1, <1>2, <1>3 DEF CapsInv, TokensCapped

\* No interleaving of sign-ins and rotations exceeds a member's caps, nor the
\* tombstones' by more than the rotations that overlap.
THEOREM TokensAlwaysCapped == Spec => []TokensCapped
  <1>1. CapsInv /\ [Next]_vars => CapsInv'
    <2> SUFFICES ASSUME CapsInv, [Next]_vars PROVE CapsInv'
      OBVIOUS
    <2>1. IInv'
      BY InvStep DEF CapsInv
    <2>2. (job[Sweeper].op \in {"idle", "sweepExpired"})'
      BY SweeperStep DEF CapsInv, IInv
    <2>3. TokensCapped'
      BY AccessCapStep, ActiveCapStep, TombstoneCapStep DEF TokensCapped
    <2> QED
      BY <2>1, <2>2, <2>3 DEF CapsInv
  <1>2. CapsInv => TokensCapped
    BY DEF CapsInv
  <1> QED
    BY <1>1, <1>2, CapsInit, PTL DEF Spec
=============================================================================

-------------------------- MODULE TeamGrantProofs --------------------------
(***************************************************************************)
(* Proofs about TeamGrant, for any set of calls and any number of grants,  *)
(* tokens and objects.                                                     *)
(*                                                                         *)
(* An object keeps the grant it was made with, and a new one gets that of  *)
(* the record.  So once a sign-in has settled everything that is held is   *)
(* of its grant (`HeldFrom`), all that is queued comes from what is held   *)
(* (`PendingFrom`), and the record changes only by what is queued.         *)
(***************************************************************************)
EXTENDS TeamGrant, TLAPS

RefreshStates == {"none", "asked", "ok", "dead", "failed", "flagging", "revoking"}

Refreshes(n) == [obj : 0..n, state : RefreshStates]

CallRecords(n) ==
    [step : {"idle", "drive", "client", "using"}, obj : 0..n, service : 0..n]

\* TypeOK, in parts.
GoogleTypes ==
    /\ granted \in Grants /\ dead \subseteq Grants
    /\ tokens \in Seq(Grants) /\ Len(tokens) <= MaxTokens /\ due \subseteq 1..Len(tokens)

ObjectTypes ==
    /\ creds \in Seq(Credentials)
    /\ client \in 0..Len(creds) /\ service \in 0..Len(creds)
    /\ refresh \in Refreshes(Len(creds))
    /\ library \subseteq 1..Len(creds)
    /\ call \in [Calls -> CallRecords(Len(creds))]

QueueTypes ==
    /\ user \in Users
    /\ queue \in Seq(MutationRecords) /\ writing \in Seq(MutationRecords) /\ Len(writing) <= 1
    /\ signIn \in {"none", "saving", "code"}
    /\ mcp \in BOOLEAN
    /\ file \in [user : Users, mcp : BOOLEAN]
    /\ faults \in 0..MaxFaults /\ givenUp \in 0..faults
    /\ settled \in Grants \cup {0}

Types == GoogleTypes /\ ObjectTypes /\ QueueTypes

LEMMA Typed == TypeOK <=> Types
BY DEF TypeOK, Types, GoogleTypes, ObjectTypes, QueueTypes, RefreshStates, Refreshes,
       CallRecords

LEMMA TypedNext == TypeOK' <=> Types'
BY Typed, PTL

LEMMA Constants ==
    /\ MaxGrants \in Nat \ {0} /\ MaxTokens \in Nat \ {0}
    /\ MaxObjects \in Nat /\ MaxFaults \in Nat
BY ConstantsAssumption

----------------------------------------------------------------------------
(* How a step moves the mutations *)

\* Every mutation pending after the step was pending before, or is m.
PendingFrom(m) == Pending' \subseteq Pending \cup {m}

\* Nothing is queued.
PendingKept == Pending' \subseteq Pending

LEMMA EnqueueAdds ==
    ASSUME QueueTypes, NEW m \in MutationRecords, Enqueue(m), UNCHANGED writing
    PROVE  /\ PendingFrom(m)
           /\ queue' \in Seq(MutationRecords)
           /\ Len(queue') = Len(queue) + 1 /\ Len(queue) \in Nat
           /\ queue'[Len(queue) + 1] = m
           /\ \A i \in 1..Len(queue) : queue'[i] = queue[i]
<1>1. queue \in Seq(MutationRecords) /\ queue' = Append(queue, m)
    BY DEF QueueTypes, Enqueue
<1>2. /\ queue' \in Seq(MutationRecords) /\ Len(queue) \in Nat
      /\ Len(queue') = Len(queue) + 1
      /\ queue'[Len(queue) + 1] = m
      /\ \A i \in 1..Len(queue) : queue'[i] = queue[i]
    BY <1>1
<1>3. \A i \in 1..Len(queue') : i = Len(queue) + 1 \/ i \in 1..Len(queue)
    BY <1>2
<1>4. PendingFrom(m)
    BY <1>2, <1>3 DEF PendingFrom, Pending
<1> QED BY <1>2, <1>4

LEMMA ApplyMoves ==
    ASSUME QueueTypes, Apply
    PROVE  /\ PendingKept
           /\ queue # <<>> /\ Len(writing') = 1 /\ writing'[1] = queue[1]
           /\ queue[1] \in MutationRecords /\ queue[1] \in Pending
           /\ writing' \in Seq(MutationRecords) /\ queue' \in Seq(MutationRecords)
           /\ Len(queue') = Len(queue) - 1 /\ Len(queue) \in Nat \ {0}
           /\ \A i \in 1..Len(queue') : i + 1 \in 1..Len(queue) /\ queue'[i] = queue[i + 1]
           /\ user' = Applied(queue[1], file.user)
           /\ mcp' = (file.mcp /\ queue[1].op # "revoke")
<1>1. queue \in Seq(MutationRecords) /\ queue # <<>> /\ queue' = Tail(queue) /\ Head(queue) = queue[1]
      /\ writing' = <<queue[1]>> /\ user' = Applied(queue[1], file.user)
      /\ mcp' = (file.mcp /\ queue[1].op # "revoke")
    BY DEF QueueTypes, Apply
<1>2. /\ Len(queue) \in Nat \ {0} /\ queue[1] \in MutationRecords
      /\ queue' \in Seq(MutationRecords) /\ Len(queue') = Len(queue) - 1
      /\ \A i \in 1..Len(queue') : i + 1 \in 1..Len(queue) /\ queue'[i] = queue[i + 1]
  <2>1. Len(queue) \in Nat \ {0}
      BY <1>1
  <2>2. queue[1] \in MutationRecords
      BY <1>1, <2>1
  <2>3. queue' \in Seq(MutationRecords) /\ Len(queue') = Len(queue) - 1
      BY <1>1
  <2>4. ASSUME NEW i \in 1..Len(queue')
        PROVE  i + 1 \in 1..Len(queue) /\ queue'[i] = queue[i + 1]
    <3>1. i \in Nat /\ i <= Len(queue) - 1 /\ 1 <= i
        BY <2>1, <2>3
    <3>2. i \in DOMAIN Tail(queue)
        BY <1>1, <2>3, <3>1
    <3>3. Tail(queue)[i] = queue[i + 1]
        BY <1>1, <3>2
    <3> QED BY <1>1, <2>1, <3>1, <3>3
  <2> QED BY <2>1, <2>2, <2>3, <2>4
<1>3. Len(writing') = 1 /\ writing'[1] = queue[1] /\ writing' \in Seq(MutationRecords)
    BY <1>1, <1>2
<1>4. queue[1] \in Pending
    BY <1>2 DEF Pending
<1>5. PendingKept
  <2>1. \A i \in 1..Len(queue') : queue'[i] \in Pending
      BY <1>2 DEF Pending
  <2>2. \A i \in 1..Len(writing') : writing'[i] \in Pending
      BY <1>3, <1>4
  <2> QED BY <2>1, <2>2 DEF Pending, PendingKept
<1> QED BY <1>1, <1>2, <1>3, <1>4, <1>5

\* The mutation that was being written is over, written or not.
LEMMA WrittenDrops ==
    ASSUME QueueTypes, NEW op, Taken(op)
    PROVE  /\ writing[1] \in MutationRecords /\ writing[1] \in Pending /\ writing[1].op = op
           /\ 1 \in 1..Len(writing)
           /\ writing' = <<>> /\ writing' \in Seq(MutationRecords) /\ Len(writing') = 0
           /\ UNCHANGED queue => PendingKept
           /\ \A m \in MutationRecords : Enqueue(m) => PendingFrom(m)
<1>1. writing \in Seq(MutationRecords) /\ writing # <<>> /\ writing[1].op = op /\ writing' = <<>>
    BY DEF QueueTypes, Taken
<1>2. 1 \in 1..Len(writing) /\ writing[1] \in MutationRecords
    BY <1>1
<1>3. writing[1] \in Pending
    BY <1>2 DEF Pending
<1>4. writing' \in Seq(MutationRecords) /\ Len(writing') = 0
    BY <1>1
<1>5. UNCHANGED queue => PendingKept
    BY <1>4 DEF Pending, PendingKept
<1>6. ASSUME NEW m \in MutationRecords, Enqueue(m)
      PROVE  PendingFrom(m)
  <2>1. queue \in Seq(MutationRecords) /\ queue' = Append(queue, m)
      BY <1>6 DEF QueueTypes, Enqueue
  <2>2. \A i \in 1..Len(queue') : queue'[i] = m \/ (i \in 1..Len(queue) /\ queue'[i] = queue[i])
      BY <2>1
  <2> QED BY <2>2, <1>4 DEF Pending, PendingFrom
<1> QED BY <1>1, <1>2, <1>3, <1>4, <1>5, <1>6

LEMMA QueueKept == ASSUME UNCHANGED queueVars PROVE PendingKept
BY DEF queueVars, Pending, PendingKept

LEMMA PendingTyped == QueueTypes => Pending \subseteq MutationRecords
<1> SUFFICES ASSUME QueueTypes PROVE Pending \subseteq MutationRecords
    OBVIOUS
<1>1. queue \in Seq(MutationRecords) /\ writing \in Seq(MutationRecords)
    BY DEF QueueTypes
<1> QED BY <1>1 DEF Pending

----------------------------------------------------------------------------
(* How a step moves the objects *)

\* No object changes its grant.
ObjectsGrow ==
    /\ creds' \in Seq(Credentials) /\ Len(creds) <= Len(creds')
    /\ \A o \in 1..Len(creds) : creds'[o].refresh = creds[o].refresh

\* What is held after the step was held before, or is of the record's grant.
HeldFrom ==
    \A o \in Held' : o \in 1..Len(creds') /\ (o \in Held \/ creds'[o].refresh = user.refresh)

\* What WaitersGoOn and Start find: the cached client or a new one.
LEMMA ClientFound ==
    ASSUME Types, NEW objects \in Seq(Credentials), Len(objects) = Len(creds)
    PROVE  /\ WithClient(objects) \in Seq(Credentials)
           /\ Len(objects) <= Len(WithClient(objects))
           /\ ClientOf(objects) \in 1..Len(WithClient(objects))
           /\ \A i \in 1..Len(objects) : WithClient(objects)[i] = objects[i]
           /\ \/ ClientOf(objects) \in Held
              \/ WithClient(objects)[ClientOf(objects)].refresh = user.refresh
<1>1. creds \in Seq(Credentials) /\ client \in 0..Len(creds) /\ user \in Users
    BY DEF Types, ObjectTypes, QueueTypes
<1>2. Len(objects) \in Nat
    OBVIOUS
<1>3. CASE client # 0
  <2>1. ClientOf(objects) = client /\ WithClient(objects) = objects
      BY <1>3 DEF ClientOf, WithClient
  <2>2. client \in Held
      BY <1>3 DEF Held
  <2> QED BY <2>1, <2>2, <1>1, <1>2, <1>3
<1>4. CASE client = 0
  <2> DEFINE c == [refresh |-> user.refresh, access |-> user.access]
  <2>1. ClientOf(objects) = Len(objects) + 1 /\ WithClient(objects) = Append(objects, c)
      BY <1>4 DEF ClientOf, WithClient
  <2>2. c \in Credentials /\ c.refresh = user.refresh
      BY <1>1 DEF Users, Credentials
  <2> HIDE DEF c
  <2>3. /\ Append(objects, c) \in Seq(Credentials) /\ Len(Append(objects, c)) = Len(objects) + 1
        /\ Append(objects, c)[Len(objects) + 1] = c
        /\ \A i \in 1..Len(objects) : Append(objects, c)[i] = objects[i]
      BY <2>2
  <2> QED BY <2>1, <2>2, <2>3, <1>2
<1> QED BY <1>3, <1>4

\* The waiters' call records when a refresh is over.
LEMMA GoOn ==
    ASSUME Types, RefreshKnown, IdleHoldsNothing, NEW objects \in Seq(Credentials),
           Len(objects) = Len(creds),
           \A o \in 1..Len(creds) : objects[o].refresh = creds[o].refresh,
           WaitersGoOn(objects), UNCHANGED library
    PROVE  /\ ObjectTypes' /\ ObjectsGrow /\ HeldFrom
           /\ refresh'.state \in {"none", "asked"}
           /\ refresh'.state = "none" <=> refresh'.obj = 0
           /\ IdleHoldsNothing' /\ WaitersAreServed'
<1>1. /\ creds \in Seq(Credentials) /\ Len(creds) \in Nat
      /\ client \in 0..Len(creds) /\ service \in 0..Len(creds)
      /\ refresh \in Refreshes(Len(creds)) /\ library \subseteq 1..Len(creds)
      /\ call \in [Calls -> CallRecords(Len(creds))]
    BY DEF Types, ObjectTypes
<1>2. NoRefresh.state = "none" /\ NoRefresh.obj = 0 /\ \A n \in Nat : NoRefresh \in Refreshes(n)
    BY DEF NoRefresh, Refreshes, RefreshStates
<1>3. ASSUME NEW k \in Calls, NEW n \in Nat, Len(creds) <= n
      PROVE  /\ call[k] \in CallRecords(n)
             /\ [call[k] EXCEPT !.step = "using"] \in CallRecords(n)
             /\ [call[k] EXCEPT !.step = "using"].step = "using"
             /\ [call[k] EXCEPT !.step = "using"].obj = call[k].obj
             /\ [call[k] EXCEPT !.step = "using"].service = call[k].service
  <2>1. call[k] \in CallRecords(Len(creds))
      BY <1>1
  <2>2. call[k] \in CallRecords(n)
      BY <2>1, <1>1, <1>3 DEF CallRecords
  <2> QED BY <2>2 DEF CallRecords
<1>4. \A n \in Nat : IdleCall \in CallRecords(n) /\ IdleCall.obj = 0 /\ IdleCall.service = 0
    BY DEF IdleCall, CallRecords
<1>5. CASE InDrive = {}
  <2>1. /\ call' = [k \in Calls |-> IF k \in Waiters THEN [call[k] EXCEPT !.step = "using"] ELSE call[k]]
        /\ creds' = objects /\ refresh' = NoRefresh /\ client' = client /\ service' = service
      BY <1>5 DEF WaitersGoOn, caches
  <2>2. ASSUME NEW k \in Calls
        PROVE  /\ call'[k] \in CallRecords(Len(creds))
               /\ call'[k].obj = call[k].obj /\ call'[k].service = call[k].service
               /\ call'[k].step \notin {"drive", "client"}
               /\ call'[k].step = "idle" => call'[k] = IdleCall
    <3>1. CASE k \in Waiters
      <4> DEFINE c == [call[k] EXCEPT !.step = "using"]
      <4>1. call'[k] = c
          BY <2>1, <3>1
      <4>2. /\ c \in CallRecords(Len(creds)) /\ c.step = "using"
            /\ c.obj = call[k].obj /\ c.service = call[k].service
        <5>1. Len(creds) \in Nat /\ Len(creds) <= Len(creds)
            BY <1>1
        <5> QED BY <1>3, <5>1
      <4> HIDE DEF c
      <4> QED BY <4>1, <4>2
    <3>2. CASE k \notin Waiters
      <4>1. call'[k] = call[k] /\ call[k].step \notin {"drive", "client"}
          BY <2>1, <3>2 DEF Waiters
      <4>2. call[k] \in CallRecords(Len(creds))
          BY <1>1
      <4> QED BY <4>1, <4>2 DEF IdleHoldsNothing
    <3> QED BY <3>1, <3>2
  <2>3. ObjectsGrow
      BY <2>1, <1>1 DEF ObjectsGrow
  <2>4. ObjectTypes'
    <3>1. call' \in [Calls -> CallRecords(Len(creds))]
        BY <2>1, <2>2
    <3> QED BY <3>1, <2>1, <1>1, <1>2 DEF ObjectTypes
  <2>5. \A o \in Held' : o \in 1..Len(creds') /\ o \in Held
    <3>1. TAKE o \in Held'
    <3>2. o \in {client, service, refresh'.obj} \cup library
             \/ \E k \in Calls : o \in {call'[k].obj, call'[k].service}
        BY <2>1 DEF Held
    <3>3. o # 0
        BY DEF Held
    <3>4. CASE o \in {client, service, refresh'.obj} \cup library
        BY <3>3, <3>4, <2>1, <1>1, <1>2 DEF Held
    <3>5. ASSUME NEW k \in Calls, o \in {call'[k].obj, call'[k].service}
          PROVE  o \in 1..Len(creds') /\ o \in Held
        BY <3>5, <3>3, <2>1, <2>2, <1>1 DEF Held, CallRecords
    <3> QED BY <3>2, <3>4, <3>5
  <2>6. IdleHoldsNothing' /\ WaitersAreServed'
      BY <2>2 DEF IdleHoldsNothing, WaitersAreServed, Waiters
  <2> QED BY <2>1, <2>3, <2>4, <2>5, <2>6, <1>2 DEF HeldFrom
<1>6. CASE InDrive # {}
  <2> DEFINE o == ClientOf(objects)
             with == WithClient(objects)
             again == Usable /\ NeedsRefresh(with[o])
  <2>1. PICK first \in InDrive :
          LET s == IF service # 0 THEN service ELSE call[first].obj
              next == IF ~Usable THEN IdleCall ELSE At(IF again THEN "client" ELSE "using", o, s)
          IN  /\ service' = s
              /\ client' = IF Usable THEN o ELSE client
              /\ creds' = IF Usable THEN with ELSE objects
              /\ refresh' = IF again THEN [obj |-> o, state |-> "asked"] ELSE NoRefresh
              /\ call' = [k \in Calls |-> IF k \in InDrive THEN next
                                          ELSE IF k \in Waiters THEN [call[k] EXCEPT !.step = "using"]
                                          ELSE call[k]]
      BY <1>6 DEF WaitersGoOn
  <2> DEFINE s == IF service # 0 THEN service ELSE call[first].obj
             next == IF ~Usable THEN IdleCall ELSE At(IF again THEN "client" ELSE "using", o, s)
  <2>2. /\ with \in Seq(Credentials) /\ Len(objects) <= Len(with)
        /\ o \in 1..Len(with)
        /\ \A i \in 1..Len(objects) : with[i] = objects[i]
        /\ o \in Held \/ with[o].refresh = user.refresh
      BY ClientFound
  <2>3. again \in BOOLEAN /\ (again => Usable)
      OBVIOUS
  <2>4. /\ service' = s /\ client' = IF Usable THEN o ELSE client
        /\ creds' = IF Usable THEN with ELSE objects
        /\ refresh' = IF again THEN [obj |-> o, state |-> "asked"] ELSE NoRefresh
        /\ \A k \in Calls : call'[k] = IF k \in InDrive THEN next
                                       ELSE IF k \in Waiters THEN [call[k] EXCEPT !.step = "using"]
                                       ELSE call[k]
        /\ DOMAIN call' = Calls /\ call' = [k \in Calls |-> call'[k]]
      BY <2>1
  <2>5. first \in Calls /\ call[first] \in CallRecords(Len(creds))
      BY <1>1 DEF InDrive
  <2>6. s \in 0..Len(creds) /\ (s # 0 => s \in Held)
      BY <2>5, <1>1 DEF CallRecords, Held
  <2> DEFINE rest == IF again THEN [obj |-> o, state |-> "asked"] ELSE NoRefresh
  <2>7. /\ rest.state \in {"none", "asked"}
        /\ rest.state = "none" <=> rest.obj = 0
        /\ again => rest.state = "asked"
        /\ rest.obj # 0 => Usable /\ rest.obj = o
        /\ rest \in [obj : 0..Len(with), state : RefreshStates]
      BY <2>2, <2>3, <1>2 DEF RefreshStates, Refreshes
  <2>8. /\ Usable => next.obj = o /\ next.service = s /\ next.step = IF again THEN "client" ELSE "using"
        /\ ~Usable => next = IdleCall
        /\ next.step \in {"idle", "client", "using"}
        /\ next.step = "client" => again
        /\ next.step = "idle" => next = IdleCall
        /\ next \in CallRecords(Len(with))
    <3>1. CASE Usable
      <4>1. next = [step |-> IF again THEN "client" ELSE "using", obj |-> o, service |-> s]
          BY <3>1 DEF At
      <4> HIDE DEF o, s, again, with
      <4> QED BY <4>1, <3>1, <2>2, <2>3, <2>6, <1>1 DEF CallRecords
    <3>2. CASE ~Usable
      <4>1. next = IdleCall
          BY <3>2
      <4>2. Len(with) \in Nat
          BY <2>2
      <4> HIDE DEF next
      <4> QED BY <4>1, <4>2, <3>2, <1>4 DEF IdleCall
    <3> QED BY <3>1, <3>2
  <2> HIDE DEF o, with, again, s, next, rest
  <2>9. refresh' = rest
      BY <2>4 DEF rest
  <2>10. creds' \in Seq(Credentials) /\ Len(creds) <= Len(creds') /\ Len(creds') \in Nat
         /\ (Usable => creds' = with) /\ (~Usable => creds' = objects)
      BY <2>2, <2>4, <1>1
  <2>11. ObjectsGrow
      BY <2>10, <2>2, <2>4, <1>1 DEF ObjectsGrow
  <2>12. ASSUME NEW k \in Calls
         PROVE  /\ call'[k] \in CallRecords(Len(creds'))
                /\ call'[k].step \notin {"drive"}
                /\ call'[k].step = "client" => again
                /\ call'[k].step = "idle" => call'[k] = IdleCall
                /\ \/ call'[k].obj = call[k].obj /\ call'[k].service = call[k].service
                   \/ call'[k].obj = o /\ call'[k].service = s /\ Usable
                   \/ call'[k] = IdleCall
    <3>1. CASE k \in InDrive
      <4>1. call'[k] = next
          BY <2>4, <3>1
      <4>2. CASE Usable
          BY <4>1, <4>2, <2>8, <2>10
      <4>3. CASE ~Usable
          BY <4>1, <4>3, <2>8, <2>10, <1>4 DEF IdleCall
      <4> QED BY <4>2, <4>3
    <3>2. CASE k \notin InDrive /\ k \in Waiters
      <4> DEFINE c == [call[k] EXCEPT !.step = "using"]
      <4>1. call'[k] = c
          BY <2>4, <3>2
      <4>2. /\ c \in CallRecords(Len(creds')) /\ c.step = "using"
            /\ c.obj = call[k].obj /\ c.service = call[k].service
          BY <1>3, <2>10
      <4> HIDE DEF c
      <4> QED BY <4>1, <4>2
    <3>3. CASE k \notin InDrive /\ k \notin Waiters
        BY <2>4, <3>3, <1>3, <2>10 DEF Waiters, IdleHoldsNothing
    <3> QED BY <3>1, <3>2, <3>3
  <2>13. ObjectTypes'
    <3>1. call' \in [Calls -> CallRecords(Len(creds'))]
        BY <2>4, <2>12
    <3>2. service' \in 0..Len(creds') /\ client' \in 0..Len(creds')
        BY <2>2, <2>4, <2>6, <2>10, <1>1
    <3>3. refresh' \in Refreshes(Len(creds'))
        BY <2>2, <2>7, <2>9, <2>10, <1>2, <1>1 DEF Refreshes
    <3>4. library' \subseteq 1..Len(creds')
        BY <2>10, <1>1
    <3> QED BY <3>1, <3>2, <3>3, <3>4, <2>10 DEF ObjectTypes
  <2>14. HeldFrom
    <3> SUFFICES ASSUME NEW h \in Held'
                 PROVE  h \in 1..Len(creds') /\ (h \in Held \/ creds'[h].refresh = user.refresh)
        BY DEF HeldFrom
    <3>1. \/ h \in {client', service', refresh'.obj} \cup library'
          \/ \E k \in Calls : h \in {call'[k].obj, call'[k].service}
        BY DEF Held
    <3>2. h # 0
        BY DEF Held
    <3>3. CASE h = o /\ Usable
        BY <3>3, <2>2, <2>10
    <3>4. CASE h \in Held
      <4>1. h \in 1..Len(creds)
          BY <3>4, <1>1 DEF Held, CallRecords, Refreshes
      <4> QED BY <4>1, <3>4, <2>10, <1>1
    <3>5. h \in {client', service', refresh'.obj} \cup library' => (h = o /\ Usable) \/ h \in Held
        BY <3>2, <2>4, <2>6, <2>7, <2>9, <1>2 DEF Held
    <3>6. ASSUME NEW k \in Calls, h \in {call'[k].obj, call'[k].service}
          PROVE  (h = o /\ Usable) \/ h \in Held
      <4>1. h \in {call[k].obj, call[k].service} => h \in Held
          BY <3>2 DEF Held
      <4>2. h = s => h \in Held
          BY <3>2, <2>6
      <4> QED BY <4>1, <4>2, <3>6, <3>2, <2>12, <1>4
    <3> QED BY <3>1, <3>3, <3>4, <3>5, <3>6
  <2>15. IdleHoldsNothing' /\ WaitersAreServed'
    <3>1. IdleHoldsNothing'
        BY <2>12 DEF IdleHoldsNothing
    <3>2. again => refresh' # NoRefresh
        BY <2>7, <2>9, <1>2
    <3>3. WaitersAreServed'
        BY <3>2, <2>12 DEF WaitersAreServed, Waiters
    <3> QED BY <3>1, <3>3
  <2> QED BY <2>7, <2>9, <2>11, <2>13, <2>14, <2>15
<1> QED BY <1>5, <1>6
\* What a step leaves of the objects and of who waits for them.
ObjectsStep ==
    /\ ObjectTypes' /\ ObjectsGrow /\ HeldFrom
    /\ refresh'.state = "none" <=> refresh'.obj = 0
    /\ IdleHoldsNothing' /\ WaitersAreServed'

\* A step that makes no object: what is no longer held is let go, and calls go
\* on or are over.
LEMMA NothingNew ==
    ASSUME Types, RefreshKnown, IdleHoldsNothing, WaitersAreServed,
           creds' \in Seq(Credentials), Len(creds') = Len(creds),
           \A o \in 1..Len(creds) : creds'[o].refresh = creds[o].refresh,
           client' \in {0, client}, service' \in {0, service},
           refresh' \in Refreshes(Len(creds)), refresh'.obj \in {0, refresh.obj},
           refresh'.state = "none" <=> refresh'.obj = 0,
           library' \subseteq library \cup Held,
           call' \in [Calls -> {call[k] : k \in Calls} \cup {IdleCall}],
           \A k \in Calls : call'[k] \in {call[k], IdleCall},
           refresh.state # "none" /\ refresh'.state = "none" =>
               \A k \in Waiters : call'[k] = IdleCall
    PROVE  ObjectsStep
<1>1. /\ creds \in Seq(Credentials) /\ Len(creds) \in Nat
      /\ client \in 0..Len(creds) /\ service \in 0..Len(creds)
      /\ refresh \in Refreshes(Len(creds)) /\ library \subseteq 1..Len(creds)
      /\ call \in [Calls -> CallRecords(Len(creds))]
    BY DEF Types, ObjectTypes
<1>2. /\ IdleCall \in CallRecords(Len(creds)) /\ IdleCall.obj = 0 /\ IdleCall.service = 0
      /\ IdleCall.step = "idle"
    BY <1>1 DEF IdleCall, CallRecords
<1>3. Held \subseteq 1..Len(creds)
  <2> SUFFICES ASSUME NEW o \in Held PROVE o \in 1..Len(creds)
      OBVIOUS
  <2>1. /\ o # 0
        /\ \/ o \in {client, service, refresh.obj} \cup library
           \/ \E k \in Calls : o \in {call[k].obj, call[k].service}
      BY DEF Held
  <2>2. refresh.obj \in 0..Len(creds)
      BY <1>1 DEF Refreshes
  <2>3. \A k \in Calls : call[k].obj \in 0..Len(creds) /\ call[k].service \in 0..Len(creds)
      BY <1>1 DEF CallRecords
  <2> QED BY <2>1, <2>2, <2>3, <1>1
<1>4. ASSUME NEW k \in Calls
      PROVE  /\ call'[k] \in CallRecords(Len(creds))
             /\ call'[k].obj \in {0, call[k].obj} /\ call'[k].service \in {0, call[k].service}
             /\ call'[k].step = "idle" => call'[k] = IdleCall
  <2>1. call[k] \in CallRecords(Len(creds))
      BY <1>1
  <2>2. CASE call'[k] = call[k]
      BY <2>1, <2>2 DEF IdleHoldsNothing
  <2>3. CASE call'[k] = IdleCall
      BY <2>3, <1>2
  <2> QED BY <2>2, <2>3
<1>5. ObjectTypes'
  <2>1. call' \in [Calls -> CallRecords(Len(creds'))]
      BY <1>4
  <2>2. library' \subseteq 1..Len(creds')
      BY <1>1, <1>3
  <2> QED BY <2>1, <2>2, <1>1 DEF ObjectTypes
<1>6. Held' \subseteq Held
  <2> SUFFICES ASSUME NEW o \in Held' PROVE o \in Held
      OBVIOUS
  <2>1. /\ o # 0
        /\ \/ o \in {client', service', refresh'.obj} \cup library'
           \/ \E k \in Calls : o \in {call'[k].obj, call'[k].service}
      BY DEF Held
  <2>2. CASE o \in {client', service', refresh'.obj} \cup library'
      BY <2>1, <2>2 DEF Held
  <2>3. ASSUME NEW k \in Calls, o \in {call'[k].obj, call'[k].service}
        PROVE  o \in Held
    <3>1. o \in {call[k].obj, call[k].service}
        BY <2>1, <2>3, <1>4
    <3> QED BY <2>1, <3>1 DEF Held
  <2> QED BY <2>1, <2>2, <2>3
<1>7. ObjectsGrow
    BY <1>1 DEF ObjectsGrow
<1>8. HeldFrom
    BY <1>3, <1>6 DEF HeldFrom
<1>9. IdleHoldsNothing'
    BY <1>4 DEF IdleHoldsNothing
<1>10. WaitersAreServed'
  <2>1. NoRefresh.state = "none" /\ NoRefresh.obj = 0
      BY DEF NoRefresh
  <2> SUFFICES ASSUME NEW k \in Calls, call'[k].step \in {"drive", "client"}, refresh' = NoRefresh
               PROVE  FALSE
      BY DEF WaitersAreServed, Waiters
  <2>2. call'[k] = call[k] /\ call'[k] # IdleCall
      BY <1>2
  <2>3. k \in Waiters
      BY <2>2 DEF Waiters
  <2>4. refresh.state = "none"
      BY <2>1, <2>2, <2>3
  <2>5. refresh = NoRefresh
    <3>1. refresh.obj = 0
        BY <2>4 DEF RefreshKnown
    <3>2. refresh = [obj |-> refresh.obj, state |-> refresh.state]
        BY <1>1 DEF Refreshes
    <3> QED BY <3>1, <3>2, <2>4 DEF NoRefresh
  <2> QED BY <2>3, <2>5 DEF WaitersAreServed
<1> QED BY <1>5, <1>7, <1>8, <1>9, <1>10 DEF ObjectsStep
LEMMA StartStep ==
    ASSUME Types, RefreshKnown, IdleHoldsNothing, WaitersAreServed, NEW k \in Calls, Start(k)
    PROVE  ObjectsStep
<1> DEFINE o == ClientOf(creds)
           with == WithClient(creds)
           s == IF service # 0 THEN service ELSE o
<1>1. /\ creds \in Seq(Credentials) /\ Len(creds) \in Nat
      /\ client \in 0..Len(creds) /\ service \in 0..Len(creds)
      /\ refresh \in Refreshes(Len(creds)) /\ library \subseteq 1..Len(creds)
      /\ call \in [Calls -> CallRecords(Len(creds))]
    BY DEF Types, ObjectTypes
<1>2. /\ with \in Seq(Credentials) /\ Len(creds) <= Len(with)
      /\ o \in 1..Len(with)
      /\ \A i \in 1..Len(creds) : with[i] = creds[i]
      /\ o \in Held \/ with[o].refresh = user.refresh
    BY <1>1, ClientFound
<1>3. client' = o /\ creds' = with /\ library' = library
    BY DEF Start
<1>4. PICK c \in {At("drive", o, 0), At("using", o, s)} :
        /\ call' = [call EXCEPT ![k] = c]
        /\ \/ c = At("drive", o, 0) /\ refresh' = AskFor(o) /\ service' = service
           \/ c = At("using", o, s) /\ refresh' = refresh /\ service' = s
    BY DEF Start
<1>5. s \in 0..Len(with) /\ (s # 0 => s \in Held \/ s = o)
  <2>1. service # 0 => service \in Held
      BY DEF Held
  <2> HIDE DEF o, with
  <2> QED BY <2>1, <1>1, <1>2
<1>6. AskFor(o).state # "none" /\ AskFor(o) \in Refreshes(Len(with))
      /\ (AskFor(o) = refresh \/ AskFor(o).obj = o)
      /\ AskFor(o).obj # 0
  <2>1. CASE refresh.state = "none"
    <3>1. AskFor(o) = [obj |-> o, state |-> "asked"]
        BY <2>1 DEF AskFor
    <3> HIDE DEF o, with
    <3> QED BY <3>1, <1>2, <1>1 DEF Refreshes, RefreshStates
  <2>2. CASE refresh.state # "none"
    <3>1. AskFor(o) = refresh
        BY <2>2 DEF AskFor
    <3> HIDE DEF o, with
    <3> QED BY <3>1, <2>2, <1>2, <1>1 DEF Refreshes, RefreshKnown
  <2> QED BY <2>1, <2>2
<1>7. /\ c.obj = o /\ c.service \in {0, s} /\ c.step \in {"drive", "using"}
      /\ c \in CallRecords(Len(with))
  <2>1. c \in {[step |-> "drive", obj |-> o, service |-> 0], [step |-> "using", obj |-> o, service |-> s]}
      BY <1>4 DEF At
  <2> HIDE DEF o, s, with
  <2> QED BY <2>1, <1>2, <1>5, <1>1 DEF CallRecords
<1>8. c.step = "drive" => refresh' = AskFor(o)
  <2>1. At("using", o, s).step = "using"
      BY DEF At
  <2> HIDE DEF o, s
  <2> QED BY <2>1, <1>4
<1> HIDE DEF o, s, with
<1>9. service' \in {service, s} /\ refresh' \in {refresh, AskFor(o)}
    BY <1>4
<1>10. ASSUME NEW j \in Calls
       PROVE  /\ j = k => call'[j] = c
              /\ j # k => call'[j] = call[j]
              /\ call'[j] \in CallRecords(Len(with))
  <2>1. call[j] \in CallRecords(Len(creds)) /\ call[k] \in CallRecords(Len(creds))
      BY <1>1
  <2>2. call[j] \in CallRecords(Len(with))
      BY <2>1, <1>1, <1>2 DEF CallRecords
  <2>3. (j = k => call'[j] = c) /\ (j # k => call'[j] = call[j])
      BY <1>4, <1>1
  <2> QED BY <2>2, <2>3, <1>7
<1>11. ObjectsGrow
    BY <1>1, <1>2, <1>3 DEF ObjectsGrow
<1>12. ObjectTypes'
  <2>1. call' \in [Calls -> CallRecords(Len(with))]
      BY <1>10, <1>4, <1>1
  <2>2. refresh \in Refreshes(Len(with))
      BY <1>1, <1>2 DEF Refreshes
  <2>3. refresh' \in Refreshes(Len(with))
      BY <1>9, <1>6, <2>2
  <2>4. client' \in 0..Len(with) /\ service' \in 0..Len(with) /\ library' \subseteq 1..Len(with)
      BY <1>1, <1>2, <1>3, <1>5, <1>9
  <2> QED BY <2>1, <2>3, <2>4, <1>2, <1>3 DEF ObjectTypes
<1>13. HeldFrom
  <2> SUFFICES ASSUME NEW h \in Held'
               PROVE  h \in 1..Len(creds') /\ (h \in Held \/ creds'[h].refresh = user.refresh)
      BY DEF HeldFrom
  <2>1. /\ h # 0
        /\ \/ h \in {client', service', refresh'.obj} \cup library'
           \/ \E j \in Calls : h \in {call'[j].obj, call'[j].service}
      BY DEF Held
  <2>2. CASE h = o
      BY <2>2, <1>2, <1>3
  <2>3. CASE h \in Held
    <3>1. h \in 1..Len(creds)
        BY <2>3, <1>1 DEF Held, CallRecords, Refreshes
    <3> QED BY <3>1, <2>3, <1>1, <1>2, <1>3
  <2>4. h \in {client', service', refresh'.obj} \cup library' => h = o \/ h \in Held
      BY <2>1, <1>3, <1>5, <1>6, <1>9 DEF Held
  <2>5. ASSUME NEW j \in Calls, h \in {call'[j].obj, call'[j].service}
        PROVE  h = o \/ h \in Held
    <3>1. CASE j = k
        BY <3>1, <2>1, <2>5, <1>5, <1>7, <1>10
    <3>2. CASE j # k
        BY <3>2, <2>1, <2>5, <1>10 DEF Held
    <3> QED BY <3>1, <3>2
  <2> QED BY <2>1, <2>2, <2>3, <2>4, <2>5
<1>14. refresh'.state = "none" <=> refresh'.obj = 0
    BY <1>6, <1>9 DEF RefreshKnown
<1>15. IdleHoldsNothing'
    BY <1>7, <1>10 DEF IdleHoldsNothing
<1>16. WaitersAreServed'
  <2>1. NoRefresh.state = "none"
      BY DEF NoRefresh
  <2> SUFFICES ASSUME NEW j \in Calls, call'[j].step \in {"drive", "client"}
               PROVE  refresh' # NoRefresh
      BY DEF WaitersAreServed, Waiters
  <2>2. CASE j = k
      BY <2>1, <2>2, <1>6, <1>7, <1>8, <1>10
  <2>3. CASE j # k
    <3>1. refresh # NoRefresh
        BY <2>3, <1>10 DEF WaitersAreServed, Waiters
    <3> QED BY <3>1, <2>1, <1>6, <1>9
  <2> QED BY <2>2, <2>3
<1> QED BY <1>11, <1>12, <1>13, <1>14, <1>15, <1>16 DEF ObjectsStep
\* A refresh that succeeds changes the access token of its object only.
LEMMA RefreshedTypes ==
    ASSUME Types, NEW o \in 1..Len(creds), Len(tokens) + 1 <= MaxTokens
    PROVE  /\ Refreshed(o) \in Seq(Credentials) /\ Len(Refreshed(o)) = Len(creds)
           /\ \A i \in 1..Len(creds) : Refreshed(o)[i].refresh = creds[i].refresh
           /\ Len(tokens) + 1 \in Tokens
           /\ creds[o].refresh \in Grants
<1>1. creds \in Seq(Credentials) /\ Len(creds) \in Nat
    BY DEF Types, ObjectTypes
<1>2. Len(tokens) + 1 \in Tokens
    BY Constants DEF Types, GoogleTypes, Tokens
<1> DEFINE c == [creds[o] EXCEPT !.access = Len(tokens) + 1]
<1>3. creds[o] \in Credentials
    BY <1>1
<1>4. c \in Credentials /\ c.refresh = creds[o].refresh
    BY <1>2, <1>3 DEF Credentials
<1>5. Refreshed(o) = [creds EXCEPT ![o] = c]
    BY DEF Refreshed
<1> HIDE DEF c
<1>6. Refreshed(o) \in Seq(Credentials) /\ Len(Refreshed(o)) = Len(creds)
    BY <1>1, <1>4, <1>5
<1>7. ASSUME NEW i \in 1..Len(creds)
      PROVE  Refreshed(o)[i].refresh = creds[i].refresh
  <2>1. Refreshed(o)[i] = IF i = o THEN c ELSE creds[i]
      BY <1>1, <1>5
  <2> QED BY <2>1, <1>4
<1> QED BY <1>2, <1>3, <1>6, <1>7 DEF Credentials

\* The mutation that a listener queues.
LEMMA Persisted ==
    ASSUME Types, NEW o \in 1..Len(creds), Len(tokens) + 1 <= MaxTokens, PersistRefreshed(o)
    PROVE  \E g \in {0, creds[o].refresh} :
               /\ Mutation("persist", g, Len(tokens) + 1) \in MutationRecords
               /\ Enqueue(Mutation("persist", g, Len(tokens) + 1))
<1>1. Len(tokens) + 1 \in Tokens /\ creds[o].refresh \in Grants
    BY RefreshedTypes
<1>2. PICK g \in {0, creds[o].refresh} : Enqueue(Mutation("persist", g, Len(tokens) + 1))
    BY DEF PersistRefreshed
<1>3. Mutation("persist", g, Len(tokens) + 1) \in MutationRecords
    BY <1>1 DEF Mutation, MutationRecords
<1> QED BY <1>2, <1>3

\* Whose refresh is in flight.
LEMMA InFlight ==
    ASSUME Types, RefreshKnown, refresh.state # "none"
    PROVE  refresh.obj \in 1..Len(creds) /\ refresh.obj \in Held
BY DEF Types, ObjectTypes, Refreshes, RefreshKnown, Held

LEMMA ResumeStep ==
    ASSUME IInv, RefreshSucceeds \/ RefreshFails
    PROVE  ObjectsStep /\ refresh'.state \in {"none", "asked"}
<1>1. Types /\ RefreshKnown /\ IdleHoldsNothing
    BY Typed DEF IInv
<1>2. CASE RefreshSucceeds
  <2>1. refresh.obj \in 1..Len(creds)
      BY <1>1, <1>2, InFlight DEF RefreshSucceeds
  <2>2. Len(tokens) + 1 <= MaxTokens
      BY <1>1, <1>2 DEF RefreshSucceeds, IInv, RoomForToken, Coming
  <2>3. WaitersGoOn(Refreshed(refresh.obj)) /\ UNCHANGED library
      BY <1>2 DEF RefreshSucceeds
  <2> QED BY <1>1, <2>1, <2>2, <2>3, RefreshedTypes, GoOn DEF ObjectsStep
<1>3. CASE RefreshFails
  <2>1. WaitersGoOn(creds) /\ UNCHANGED library /\ creds \in Seq(Credentials)
      BY <1>1, <1>3 DEF RefreshFails, Types, ObjectTypes
  <2> QED BY <1>1, <2>1, GoOn DEF ObjectsStep
<1> QED BY <1>2, <1>3

LEMMA LibraryStep ==
    ASSUME IInv, NEW o, AskLibrary(o) \/ LibraryReturns(o)
    PROVE  ObjectsStep
<1>1. Types /\ RefreshKnown /\ IdleHoldsNothing /\ WaitersAreServed
    BY Typed DEF IInv
<1>2. /\ creds \in Seq(Credentials) /\ refresh \in Refreshes(Len(creds)) /\ library \subseteq 1..Len(creds)
      /\ call \in [Calls -> CallRecords(Len(creds))]
      /\ refresh.state = "none" <=> refresh.obj = 0
    BY <1>1 DEF Types, ObjectTypes, RefreshKnown
<1>3. call = [k \in Calls |-> call[k]]
    BY <1>2
<1>4. CASE AskLibrary(o)
  <2>1. \E k \in Calls : o \in {call[k].obj, call[k].service} /\ o # 0
      BY <1>4 DEF AskLibrary, Using
  <2>2. o \in Held
      BY <2>1 DEF Held
  <2>3. /\ library' = library \cup {o}
        /\ client' = client /\ service' = service /\ creds' = creds /\ refresh' = refresh /\ call' = call
      BY <1>4 DEF AskLibrary, caches
  <2> QED BY <1>1, <1>2, <1>3, <2>2, <2>3, NothingNew
<1>5. CASE LibraryReturns(o)
  <2>1. /\ o \in 1..Len(creds) /\ library' = library \ {o}
        /\ client' = client /\ service' = service /\ refresh' = refresh
      BY <1>2, <1>5 DEF LibraryReturns, caches
  <2>2. PICK a \in Answers(o) :
          IF a = "ok"
          THEN PersistRefreshed(o) /\ creds' = Refreshed(o) /\ UNCHANGED call
          ELSE /\ call' = [k \in Calls |-> IF call[k].step = "using" /\ o \in Using(k)
                                           THEN IdleCall ELSE call[k]]
               /\ UNCHANGED <<tokens, creds, queue>>
      BY <1>5 DEF LibraryReturns
  <2>3. CASE a = "ok"
    <3>1. Len(tokens) + 1 <= MaxTokens
        BY <2>2, <2>3, <1>1, Constants DEF Answers, Coming, Types, GoogleTypes
    <3>2. creds' = Refreshed(o) /\ call' = call
        BY <2>2, <2>3
    <3>3. /\ creds' \in Seq(Credentials) /\ Len(creds') = Len(creds)
          /\ \A i \in 1..Len(creds) : creds'[i].refresh = creds[i].refresh
        BY <1>1, <2>1, <3>1, <3>2, RefreshedTypes
    <3> QED BY <1>1, <1>2, <1>3, <2>1, <3>2, <3>3, NothingNew
  <2>4. CASE a # "ok"
    <3>1. creds' = creds /\ call' = [k \in Calls |-> IF call[k].step = "using" /\ o \in Using(k)
                                                     THEN IdleCall ELSE call[k]]
        BY <2>2, <2>4
    <3>2. /\ \A k \in Calls : call'[k] \in {call[k], IdleCall}
          /\ call' \in [Calls -> {call[k] : k \in Calls} \cup {IdleCall}]
        BY <3>1
    <3> QED BY <1>1, <1>2, <2>1, <3>1, <3>2, NothingNew
  <2> QED BY <2>3, <2>4
<1> QED BY <1>4, <1>5

LEMMA OtherStep ==
    ASSUME IInv,
           \/ AnswerRefresh \/ GrantIsDead \/ Mutating \/ Reread \/ ExchangeCode \/ Withdraw
           \/ (\E k \in Calls : End(k)) \/ (\E t \in Tokens : Expire(t))
           \/ (\E offline \in BOOLEAN : SignInReturns(offline)) \/ UNCHANGED vars
    PROVE  ObjectsStep
<1>1. Types /\ RefreshKnown /\ IdleHoldsNothing /\ WaitersAreServed
    BY Typed DEF IInv
<1>2. /\ creds \in Seq(Credentials) /\ refresh \in Refreshes(Len(creds))
      /\ call \in [Calls -> CallRecords(Len(creds))]
      /\ refresh.state = "none" <=> refresh.obj = 0
    BY <1>1 DEF Types, ObjectTypes, RefreshKnown
<1>3. call = [k \in Calls |-> call[k]]
    BY <1>2
<1>4. ASSUME UNCHANGED <<client, service, creds, refresh, library, call>>
      PROVE  ObjectsStep
    BY <1>1, <1>2, <1>3, <1>4, NothingNew
<1>5. ASSUME NEW s \in RefreshStates \ {"none"}, refresh.state # "none",
             refresh' = [refresh EXCEPT !.state = s],
             UNCHANGED <<client, service, creds, library, call>>
      PROVE  ObjectsStep
  <2>1. refresh' \in Refreshes(Len(creds)) /\ refresh'.state = s /\ refresh'.obj = refresh.obj
      BY <1>2, <1>5 DEF Refreshes
  <2>2. refresh'.state = "none" <=> refresh'.obj = 0
      BY <2>1, <1>2, <1>5
  <2> QED BY <1>1, <1>2, <1>3, <1>5, <2>1, <2>2, NothingNew
<1>6. CASE AnswerRefresh
  <2>1. PICK a \in Answers(refresh.obj) : refresh' = [refresh EXCEPT !.state = a]
      BY <1>6 DEF AnswerRefresh
  <2>2. a \in RefreshStates \ {"none"}
      BY DEF Answers, RefreshStates
  <2> QED BY <1>5, <1>6, <2>1, <2>2 DEF AnswerRefresh, caches
<1>7. CASE GrantIsDead
  <2>1. "flagging" \in RefreshStates \ {"none"}
      BY DEF RefreshStates
  <2> QED BY <1>5, <1>7, <2>1 DEF GrantIsDead, IsInvalidGrant, caches
<1>8. CASE FlagDone
  <2>1. "revoking" \in RefreshStates \ {"none"}
      BY DEF RefreshStates
  <2>2. refresh.state = "flagging"
      BY <1>1, <1>8, WrittenDrops DEF FlagDone, Written, IInv, OneRevocation, Types
  <2> QED BY <1>5, <1>8, <2>1, <2>2 DEF FlagDone, KeepWaiters, caches
<1>9. CASE UpsertDone
  <2>1. client' = 0 /\ service' = 0 /\ UNCHANGED <<creds, refresh, library, call>>
      BY <1>9 DEF UpsertDone, Evict
  <2> QED BY <1>1, <1>2, <1>3, <2>1, NothingNew
<1>10. CASE RevokeDone \/ RevocationFails
  <2>1. /\ client' = 0 /\ service' = 0 /\ refresh' = NoRefresh /\ UNCHANGED <<creds, library>>
        /\ call' = [k \in Calls |-> IF k \in Waiters THEN IdleCall ELSE call[k]]
      BY <1>10 DEF RevokeDone, RevocationFails, RejectWaiters, Evict, Reject
  <2>2. /\ \A k \in Calls : call'[k] \in {call[k], IdleCall}
        /\ \A k \in Waiters : call'[k] = IdleCall
        /\ call' \in [Calls -> {call[k] : k \in Calls} \cup {IdleCall}]
      BY <2>1 DEF Waiters
  <2>3. refresh' \in Refreshes(Len(creds)) /\ refresh'.obj = 0 /\ refresh'.state = "none"
      BY <1>2, <2>1 DEF NoRefresh, Refreshes, RefreshStates
  <2> QED BY <1>1, <1>2, <2>1, <2>2, <2>3, NothingNew
<1>11. ASSUME NEW k \in Calls, End(k)
       PROVE  ObjectsStep
  <2>1. call' = [call EXCEPT ![k] = IdleCall] /\ call[k].step = "using"
        /\ UNCHANGED <<client, service, creds, refresh, library>>
      BY <1>11 DEF End, caches
  <2>2. /\ \A j \in Calls : call'[j] \in {call[j], IdleCall}
        /\ call' \in [Calls -> {call[j] : j \in Calls} \cup {IdleCall}]
      BY <2>1, <1>2
  <2> QED BY <1>1, <1>2, <2>1, <2>2, NothingNew
<1>12. CASE Apply \/ PersistDone \/ UpsertFails \/ Reread \/ ExchangeCode \/ Withdraw
    BY <1>4, <1>12 DEF Apply, PersistDone, UpsertFails, Reread, ExchangeCode, Withdraw, caches
<1>13. CASE (\E t \in Tokens : Expire(t)) \/ (\E offline \in BOOLEAN : SignInReturns(offline))
    BY <1>4, <1>13 DEF Expire, SignInReturns, caches
<1>14. CASE UNCHANGED vars
    BY <1>4, <1>14 DEF vars, caches
<1> QED BY <1>6, <1>7, <1>8, <1>9, <1>10, <1>11, <1>12, <1>13, <1>14 DEF Mutating
LEMMA ObjectsKept ==
    ASSUME IInv, [Next]_vars
    PROVE  ObjectsStep
<1>1. Types /\ RefreshKnown /\ IdleHoldsNothing /\ WaitersAreServed
    BY Typed DEF IInv
<1>2. CASE Refreshing
    BY <1>2, ResumeStep, OtherStep DEF Refreshing
<1>3. ASSUME NEW k \in Calls, Start(k) \/ End(k)
      PROVE  ObjectsStep
    BY <1>1, <1>3, StartStep, OtherStep
<1>4. ASSUME NEW o \in Objects, AskLibrary(o) \/ LibraryReturns(o)
      PROVE  ObjectsStep
    BY <1>4, LibraryStep
<1> QED BY <1>2, <1>3, <1>4, OtherStep DEF Next

----------------------------------------------------------------------------
(* Google *)

\* What a step leaves of Google: a grant that is gone stays gone.
GoogleStep ==
    /\ GoogleTypes' /\ RoomForToken'
    /\ dead \subseteq dead' /\ dead' \subseteq 1..granted'

LEMMA GoogleKept ==
    ASSUME IInv, [Next]_vars
    PROVE  GoogleStep
<1>1. /\ Types /\ RoomForToken /\ dead \subseteq 1..granted
      /\ granted \in 1..MaxGrants /\ granted \in Grants /\ dead \subseteq Grants
      /\ tokens \in Seq(Grants) /\ Len(tokens) <= MaxTokens /\ due \subseteq 1..Len(tokens)
      /\ Len(tokens) \in Nat /\ MaxGrants \in Nat /\ MaxTokens \in Nat
    BY Typed, Constants DEF IInv, Types, GoogleTypes, Grants
<1>2. ASSUME UNCHANGED google, refresh'.state = "ok" => refresh.state = "ok"
      PROVE  GoogleStep
  <2>1. Len(tokens') + Coming' <= MaxTokens
      BY <1>1, <1>2 DEF RoomForToken, Coming, google
  <2> QED BY <1>1, <1>2, <2>1 DEF GoogleStep, GoogleTypes, RoomForToken, google
<1>3. ASSUME UNCHANGED <<google, refresh>>
      PROVE  GoogleStep
    BY <1>2, <1>3
\* Google issues a token for grant g.
<1>4. ASSUME NEW g \in Grants, tokens' = Append(tokens, g), UNCHANGED <<dead, due>>,
             granted' \in Grants, granted <= granted',
             Len(tokens) + 1 + Coming' <= MaxTokens
      PROVE  GoogleStep
  <2>1. /\ tokens' \in Seq(Grants) /\ Len(tokens') = Len(tokens) + 1
      BY <1>1, <1>4
  <2>2. Len(tokens') <= MaxTokens
      BY <1>1, <1>4, <2>1 DEF Coming
  <2>3. due' \subseteq 1..Len(tokens')
      BY <1>1, <1>4, <2>1
  <2>4. dead' \subseteq 1..granted'
      BY <1>1, <1>4 DEF Grants
  <2> QED BY <1>1, <1>4, <2>1, <2>2, <2>3, <2>4 DEF GoogleStep, GoogleTypes, RoomForToken
<1>5. CASE AnswerRefresh
  <2>1. PICK a \in Answers(refresh.obj) : refresh' = [refresh EXCEPT !.state = a]
      BY <1>5 DEF AnswerRefresh
  <2>2. refresh'.state = a /\ refresh.state = "asked"
      BY <1>1, <1>5, <2>1 DEF AnswerRefresh, Types, ObjectTypes, Refreshes
  <2>3. CASE a = "ok"
    <3>1. Len(tokens) + 1 <= MaxTokens
        BY <1>1, <2>2, <2>3 DEF Answers, Coming
    <3>2. Coming' = 1
        BY <2>2, <2>3 DEF Coming
    <3>3. UNCHANGED google
        BY <1>5 DEF AnswerRefresh
    <3> QED BY <1>1, <3>1, <3>2, <3>3 DEF GoogleStep, GoogleTypes, RoomForToken, google
  <2>4. CASE a # "ok"
      BY <1>2, <1>5, <2>2, <2>4 DEF AnswerRefresh
  <2> QED BY <2>3, <2>4
<1>6. CASE RefreshSucceeds
  <2>1. refresh.obj \in 1..Len(creds)
      BY <1>1, <1>6, InFlight DEF RefreshSucceeds, IInv
  <2>2. Len(tokens) + 1 <= MaxTokens
      BY <1>1, <1>6 DEF RefreshSucceeds, RoomForToken, Coming
  <2>3. creds[refresh.obj].refresh \in Grants
      BY <1>1, <2>1, <2>2, RefreshedTypes
  <2>4. Coming' = 0
      BY <1>6, ResumeStep DEF Coming
  <2>5. tokens' = Append(tokens, creds[refresh.obj].refresh) /\ UNCHANGED <<granted, dead, due>>
      BY <1>6 DEF RefreshSucceeds, PersistRefreshed
  <2> QED BY <1>1, <1>4, <2>2, <2>3, <2>4, <2>5 DEF Grants
<1>7. CASE RefreshFails
    BY <1>2, <1>7, ResumeStep DEF RefreshFails
<1>8. CASE GrantIsDead
  <2>1. refresh'.state = "flagging"
      BY <1>1, <1>8 DEF GrantIsDead, Types, ObjectTypes, Refreshes
  <2> QED BY <1>2, <1>8, <2>1 DEF GrantIsDead
<1>9. CASE FlagDone
  <2>1. refresh'.state = "revoking"
      BY <1>1, <1>9 DEF FlagDone, KeepWaiters, Types, ObjectTypes, Refreshes
  <2> QED BY <1>2, <1>9, <2>1 DEF FlagDone
<1>10. CASE RevokeDone \/ RevocationFails
    BY <1>2, <1>10 DEF RevokeDone, RevocationFails, RejectWaiters, NoRefresh
<1>11. ASSUME NEW k \in Calls, Start(k)
       PROVE  GoogleStep
    BY <1>2, <1>11 DEF Start, AskFor
<1>12. ASSUME NEW o \in Objects, LibraryReturns(o)
       PROVE  GoogleStep
  <2>1. PICK a \in Answers(o) :
          IF a = "ok" THEN PersistRefreshed(o) ELSE UNCHANGED tokens
      BY <1>12 DEF LibraryReturns
  <2>2. UNCHANGED <<granted, dead, due, refresh>> /\ o \in 1..Len(creds)
      BY <1>1, <1>12 DEF LibraryReturns, Types, ObjectTypes
  <2>3. CASE a = "ok"
    <3>1. Len(tokens) + 1 + Coming <= MaxTokens
        BY <1>1, <2>1, <2>3 DEF Answers, Coming
    <3>2. tokens' = Append(tokens, creds[o].refresh)
        BY <2>1, <2>3 DEF PersistRefreshed
    <3>3. creds[o].refresh \in Grants
        BY <1>1, <2>2, <3>1, RefreshedTypes DEF Coming
    <3>4. Coming' = Coming
        BY <2>2 DEF Coming
    <3> QED BY <1>1, <1>4, <2>2, <3>1, <3>2, <3>3, <3>4 DEF Grants
  <2>4. CASE a # "ok"
      BY <1>3, <2>1, <2>2, <2>4 DEF google
  <2> QED BY <2>3, <2>4
<1>13. ASSUME NEW offline \in BOOLEAN, SignInReturns(offline)
       PROVE  GoogleStep
  <2>1. granted' = granted + 1 /\ granted < MaxGrants /\ tokens' = Append(tokens, granted')
        /\ UNCHANGED <<dead, due, refresh>> /\ Len(tokens) + Coming < MaxTokens
      BY <1>13 DEF SignInReturns
  <2>2. granted' \in Grants
      BY <1>1, <2>1 DEF Grants
  <2>3. Coming' = Coming /\ Coming \in Nat
      BY <2>1 DEF Coming
  <2> QED BY <1>1, <1>4, <2>1, <2>2, <2>3
<1>14. ASSUME NEW t \in Tokens, Expire(t)
       PROVE  GoogleStep
  <2>1. due' = due \cup {t} /\ t \in 1..Len(tokens) /\ UNCHANGED <<granted, dead, tokens, refresh>>
      BY <1>1, <1>14 DEF Expire, Tokens
  <2> QED BY <1>1, <2>1 DEF GoogleStep, GoogleTypes, RoomForToken, Coming
<1>15. CASE Withdraw
  <2>1. dead' = 1..granted /\ UNCHANGED <<granted, tokens, due, refresh>>
      BY <1>15 DEF Withdraw
  <2>2. dead' \subseteq Grants
      BY <1>1, <2>1 DEF Grants
  <2> QED BY <1>1, <2>1, <2>2 DEF GoogleStep, GoogleTypes, RoomForToken, Coming
<1>16. CASE Apply \/ PersistDone \/ UpsertDone \/ UpsertFails \/ Reread \/ ExchangeCode
    BY <1>3, <1>16 DEF Apply, PersistDone, UpsertDone, UpsertFails, Reread, ExchangeCode
<1>17. ASSUME NEW o \in Objects, AskLibrary(o)
       PROVE  GoogleStep
    BY <1>3, <1>17 DEF AskLibrary
<1>18. ASSUME NEW k \in Calls, End(k)
       PROVE  GoogleStep
    BY <1>3, <1>18 DEF End
<1>19. CASE UNCHANGED vars
    BY <1>3, <1>19 DEF vars
<1>20. GoogleStep
  <2>1. CASE Refreshing \/ Mutating
      BY <2>1, <1>5, <1>6, <1>7, <1>8, <1>9, <1>10, <1>16 DEF Refreshing, Mutating
  <2>2. CASE (\E k \in Calls : Start(k) \/ End(k)) \/ (\E o \in Objects : AskLibrary(o) \/ LibraryReturns(o))
    <3>1. ASSUME NEW k \in Calls, Start(k) \/ End(k)
          PROVE  GoogleStep
        BY <3>1, <1>11, <1>18
    <3>2. ASSUME NEW o \in Objects, AskLibrary(o) \/ LibraryReturns(o)
          PROVE  GoogleStep
        BY <3>2, <1>12, <1>17
    <3> QED BY <2>2, <3>1, <3>2
  <2>3. CASE (\E offline \in BOOLEAN : SignInReturns(offline)) \/ (\E t \in Tokens : Expire(t))
      BY <2>3, <1>13, <1>14
  <2> QED BY <2>1, <2>2, <2>3, <1>15, <1>16, <1>19 DEF Next
<1> QED BY <1>20
----------------------------------------------------------------------------
(* The queue *)

\* A revocation under way goes on.
StateHeld == refresh.state \in {"flagging", "revoking"} => refresh'.state = refresh.state

\* A step leaves the mutations alone; the record may be re-read between two.
Elsewhere ==
    /\ user' \in {user, file.user} /\ (writing = <<>> \/ user' = user)
    /\ UNCHANGED <<queue, writing, settled>> /\ StateHeld

\* A step queues mutation m: what a listener of an object that is held
\* reports, the flag for a grant that is gone, or the record of a sign-in.
Adds(m) ==
    /\ Enqueue(m) /\ UNCHANGED <<user, writing>>
    /\ \/ /\ m.op = "persist" /\ (\E o \in Held : m.refresh \in {0, creds[o].refresh})
          /\ UNCHANGED settled /\ StateHeld
       \/ /\ m.op = "flag"
          /\ refresh.state = "dead" /\ refresh'.state = "flagging" /\ UNCHANGED settled
       \/ m.op = "upsert" /\ m.refresh # 0 /\ settled' = 0 /\ StateHeld

LEMMA Listening ==
    ASSUME Types, NEW o \in Held, o \in 1..Len(creds), Len(tokens) + 1 <= MaxTokens,
           PersistRefreshed(o), UNCHANGED <<user, writing, settled>>, StateHeld
    PROVE  \E m \in MutationRecords : Adds(m)
<1>1. PICK g \in {0, creds[o].refresh} :
          /\ Mutation("persist", g, Len(tokens) + 1) \in MutationRecords
          /\ Enqueue(Mutation("persist", g, Len(tokens) + 1))
    BY Persisted
<1> DEFINE m == Mutation("persist", g, Len(tokens) + 1)
<1>2. m.op = "persist" /\ m.refresh = g
    BY DEF Mutation
<1>3. m \in MutationRecords /\ Enqueue(m)
    BY <1>1
<1> HIDE DEF m
<1> QED BY <1>2, <1>3 DEF Adds

LEMMA QueueMoves ==
    ASSUME IInv, [Next]_vars
    PROVE  \/ Elsewhere
           \/ \E m \in MutationRecords : Adds(m)
           \/ Mutating
<1>1. Types /\ RefreshKnown /\ RoomForToken /\ Len(tokens) \in Nat
      /\ creds \in Seq(Credentials) /\ library \subseteq 1..Len(creds) /\ MaxTokens \in Nat
      /\ MaxGrants \in Nat
    BY Typed, Constants DEF IInv, Types, GoogleTypes, ObjectTypes
<1>2. CASE AnswerRefresh \/ RefreshFails
    BY <1>2 DEF AnswerRefresh, RefreshFails, queueVars, StateHeld, Elsewhere
<1>3. CASE RefreshSucceeds
  <2>1. refresh.obj \in Held /\ refresh.obj \in 1..Len(creds)
      BY <1>1, <1>3, InFlight DEF RefreshSucceeds
  <2>2. Len(tokens) + 1 <= MaxTokens
      BY <1>1, <1>3 DEF RefreshSucceeds, RoomForToken, Coming
  <2>3. PersistRefreshed(refresh.obj) /\ UNCHANGED <<user, writing, settled>> /\ StateHeld
      BY <1>3 DEF RefreshSucceeds, StateHeld
  <2> QED BY <1>1, <2>1, <2>2, <2>3, Listening
<1>4. CASE GrantIsDead
  <2> DEFINE m == Mutation("flag", 0, 0)
  <2>1. m \in MutationRecords /\ m.op = "flag"
      BY DEF Mutation, MutationRecords
  <2>2. Enqueue(m) /\ UNCHANGED <<user, writing, settled>> /\ refresh.state = "dead"
      BY <1>4 DEF GrantIsDead, IsInvalidGrant
  <2>3. refresh'.state = "flagging"
      BY <1>1, <1>4 DEF GrantIsDead, Types, ObjectTypes, Refreshes
  <2> HIDE DEF m
  <2>4. Adds(m)
      BY <2>1, <2>2, <2>3 DEF Adds
  <2> QED BY <2>1, <2>4
<1>5. ASSUME NEW k \in Calls, Start(k) \/ End(k)
      PROVE  Elsewhere
  <2>1. CASE Start(k)
    <3>1. refresh' = refresh \/ \E o : refresh' = AskFor(o)
        BY <2>1 DEF Start
    <3>2. StateHeld
        BY <3>1 DEF StateHeld, AskFor
    <3> QED BY <2>1, <3>2 DEF Start, queueVars, Elsewhere
  <2>2. CASE End(k)
      BY <2>2 DEF End, queueVars, StateHeld, Elsewhere
  <2> QED BY <1>5, <2>1, <2>2
<1>6. ASSUME NEW o \in Objects, AskLibrary(o)
      PROVE  Elsewhere
    BY <1>6 DEF AskLibrary, queueVars, StateHeld, Elsewhere
<1>7. ASSUME NEW o \in Objects, LibraryReturns(o)
      PROVE  \/ Elsewhere
             \/ \E m \in MutationRecords : Adds(m)
  <2>1. PICK a \in Answers(o) : IF a = "ok" THEN PersistRefreshed(o) ELSE UNCHANGED queue
      BY <1>7 DEF LibraryReturns
  <2>2. o \in library /\ UNCHANGED <<user, writing, settled>> /\ StateHeld
      BY <1>7 DEF LibraryReturns, StateHeld
  <2>3. o \in 1..Len(creds)
      BY <1>1, <2>2
  <2>4. o \in Held
      BY <2>2, <2>3 DEF Held
  <2>5. CASE a = "ok"
    <3>1. Len(tokens) + 1 <= MaxTokens
        BY <1>1, <2>1, <2>5 DEF Answers, Coming
    <3> QED BY <1>1, <2>1, <2>2, <2>3, <2>4, <2>5, <3>1, Listening
  <2> QED BY <2>1, <2>2, <2>5 DEF Elsewhere
<1>8. ASSUME NEW offline \in BOOLEAN, SignInReturns(offline)
      PROVE  \E m \in MutationRecords : Adds(m)
  <2> DEFINE g == RefreshToken(granted', offline)
             m == Mutation("upsert", g, Len(tokens'))
  <2>1. /\ granted' = granted + 1 /\ granted < MaxGrants /\ tokens' = Append(tokens, granted')
        /\ Len(tokens) + Coming < MaxTokens /\ Enqueue(m) /\ settled' = 0
        /\ UNCHANGED <<user, writing, refresh>>
      BY <1>8 DEF SignInReturns
  <2>2. granted' \in Grants
      BY <1>1, <2>1 DEF Types, GoogleTypes, Grants
  <2>3. g \in Grants
      BY <1>1, <2>2 DEF RefreshToken, Types, QueueTypes, Users
  <2>4. Len(tokens') \in Tokens
    <3>1. tokens \in Seq(Grants)
        BY <1>1 DEF Types, GoogleTypes
    <3>2. Len(tokens') = Len(tokens) + 1
        BY <2>1, <2>2, <3>1
    <3> QED BY <1>1, <2>1, <3>2 DEF Tokens, Coming
  <2> HIDE DEF g
  <2>5. m \in MutationRecords /\ m.op = "upsert" /\ m.refresh = g /\ g # 0
      BY <2>3, <2>4 DEF Mutation, MutationRecords, Grants
  <2>6. StateHeld
      BY <2>1 DEF StateHeld
  <2> HIDE DEF m
  <2>7. Adds(m)
      BY <2>1, <2>5, <2>6 DEF Adds
  <2> QED BY <2>5, <2>7
<1>9. CASE Reread \/ ExchangeCode \/ Withdraw
    BY <1>9 DEF Reread, ExchangeCode, Withdraw, queueVars, StateHeld, Elsewhere
<1>10. ASSUME NEW t \in Tokens, Expire(t)
       PROVE  Elsewhere
    BY <1>10 DEF Expire, queueVars, StateHeld, Elsewhere
<1>11. CASE UNCHANGED vars
    BY <1>11 DEF vars, queueVars, StateHeld, Elsewhere
<1>12. CASE Refreshing
    BY <1>12, <1>2, <1>3, <1>4 DEF Refreshing
<1>13. ASSUME NEW o \in Objects, AskLibrary(o) \/ LibraryReturns(o)
       PROVE  \/ Elsewhere
              \/ \E m \in MutationRecords : Adds(m)
    BY <1>13, <1>6, <1>7, Zenon
<1> QED BY <1>5, <1>8, <1>9, <1>10, <1>11, <1>12, <1>13 DEF Next

\* What a step leaves of the file: the record it holds was in memory or there.
DiskStep ==
    /\ file' \in [user : Users, mcp : BOOLEAN] /\ file'.user \in {user, file.user}
    /\ faults' \in 0..MaxFaults /\ givenUp' \in 0..faults'

LEMMA DiskKept ==
    ASSUME QueueTypes, [Next]_vars
    PROVE  DiskStep
<1>1. /\ user \in Users /\ mcp \in BOOLEAN /\ file \in [user : Users, mcp : BOOLEAN]
      /\ faults \in 0..MaxFaults /\ givenUp \in 0..faults /\ MaxFaults \in Nat
    BY Constants DEF QueueTypes
<1>2. ASSUME UNCHANGED disk
      PROVE  DiskStep
    BY <1>1, <1>2 DEF DiskStep, disk
<1>3. ASSUME NEW op, Written(op)
      PROVE  DiskStep
    BY <1>1, <1>3 DEF DiskStep, Written
<1>4. ASSUME UNCHANGED file, Fault, givenUp' \in {givenUp, givenUp + 1}
      PROVE  DiskStep
    BY <1>1, <1>4 DEF DiskStep, Fault
<1>5. CASE ExchangeCode
  <2>1. CASE file' = [file EXCEPT !.mcp = TRUE] /\ UNCHANGED faults
      BY <1>1, <1>5, <2>1 DEF DiskStep, ExchangeCode
  <2>2. CASE Fault /\ UNCHANGED file
      BY <1>4, <1>5, <2>2 DEF ExchangeCode
  <2> QED BY <1>5, <2>1, <2>2 DEF ExchangeCode
<1>6. CASE Mutating
  <2>1. CASE PersistDone \/ UpsertDone \/ FlagDone \/ RevokeDone
      BY <1>3, <1>4, <2>1 DEF PersistDone, UpsertDone, FlagDone, RevokeDone, Failed
  <2>2. CASE UpsertFails \/ RevocationFails
      BY <1>4, <2>2 DEF UpsertFails, RevocationFails, Failed
  <2> QED BY <1>2, <1>6, <2>1, <2>2 DEF Mutating, Apply
<1>7. CASE Refreshing \/ Reread \/ Withdraw \/ UNCHANGED vars
    BY <1>2, <1>7 DEF Refreshing, AnswerRefresh, RefreshSucceeds, RefreshFails, GrantIsDead,
       Reread, Withdraw, vars
<1>8. ASSUME NEW k \in Calls, Start(k) \/ End(k)
      PROVE  DiskStep
    BY <1>2, <1>8 DEF Start, End
<1>9. ASSUME NEW o \in Objects, AskLibrary(o) \/ LibraryReturns(o)
      PROVE  DiskStep
    BY <1>2, <1>9 DEF AskLibrary, LibraryReturns
<1>10. ASSUME NEW offline \in BOOLEAN, SignInReturns(offline)
       PROVE  DiskStep
    BY <1>2, <1>10 DEF SignInReturns
<1>11. ASSUME NEW s \in Tokens, Expire(s)
       PROVE  DiskStep
    BY <1>2, <1>11 DEF Expire
<1> QED BY <1>5, <1>6, <1>7, <1>8, <1>9, <1>10, <1>11 DEF Next

LEMMA SmallTypes ==
    ASSUME QueueTypes, [Next]_vars
    PROVE  signIn' \in {"none", "saving", "code"} /\ mcp' \in BOOLEAN
<1>1. /\ signIn' \in {signIn, "none", "saving", "code"}
      /\ mcp' \in BOOLEAN \cup {mcp, file.mcp, file'.mcp}
  <2>1. CASE Refreshing
      BY <2>1 DEF Refreshing, AnswerRefresh, RefreshSucceeds, RefreshFails, GrantIsDead
  <2>2. CASE Mutating
    <3>1. CASE Apply
        BY <3>1 DEF Apply
    <3>2. CASE PersistDone \/ UpsertDone \/ FlagDone \/ RevokeDone
        BY <3>2 DEF PersistDone, UpsertDone, FlagDone, RevokeDone, RejectWaiters, Written, Failed
    <3>3. CASE UpsertFails \/ RevocationFails
        BY <3>3 DEF UpsertFails, RevocationFails, RejectWaiters, Failed
    <3> QED BY <2>2, <3>1, <3>2, <3>3 DEF Mutating
  <2>3. CASE Reread \/ ExchangeCode \/ Withdraw \/ UNCHANGED vars
      BY <2>3 DEF Reread, ExchangeCode, Withdraw, vars
  <2>4. ASSUME NEW k \in Calls, Start(k) \/ End(k)
        PROVE  UNCHANGED <<signIn, mcp>>
      BY <2>4 DEF Start, End
  <2>5. ASSUME NEW o \in Objects, AskLibrary(o) \/ LibraryReturns(o)
        PROVE  UNCHANGED <<signIn, mcp>>
      BY <2>5 DEF AskLibrary, LibraryReturns
  <2>6. ASSUME NEW offline \in BOOLEAN, SignInReturns(offline)
        PROVE  signIn' = "saving" /\ mcp' = mcp
      BY <2>6 DEF SignInReturns
  <2>7. ASSUME NEW t \in Tokens, Expire(t)
        PROVE  UNCHANGED <<signIn, mcp>>
      BY <2>7 DEF Expire
  <2> QED BY <2>1, <2>2, <2>3, <2>4, <2>5, <2>6, <2>7 DEF Next
<1>2. mcp \in BOOLEAN /\ file.mcp \in BOOLEAN /\ file'.mcp \in BOOLEAN
    BY DiskKept DEF QueueTypes, DiskStep
<1> QED BY <1>1, <1>2 DEF QueueTypes

\* A mutation applied to a record.
LEMMA AppliedTypes ==
    ASSUME NEW u \in Users, NEW m \in MutationRecords, m.op = "upsert" => m.refresh # 0
    PROVE  /\ Applied(m, u) \in Users
           /\ m.op = "upsert" => Applied(m, u).refresh = m.refresh /\ ~Applied(m, u).needsReauth
           /\ m.op = "persist" => /\ Applied(m, u).refresh \in {u.refresh, m.refresh} \ {0}
                                  /\ Applied(m, u).needsReauth = u.needsReauth
           /\ m.op \in {"flag", "revoke"} => Applied(m, u).refresh = u.refresh
           /\ m.op = "revoke" => Applied(m, u) = u
<1>1. m.op \in {"upsert", "persist", "flag", "revoke"} /\ m.access \in Tokens \cup {0}
      /\ m.refresh \in Grants \cup {0}
    BY DEF MutationRecords
<1>2. 0 \notin Grants
    BY DEF Grants
<1>3. CASE m.op = "upsert"
  <2>1. Applied(m, u) = [refresh |-> m.refresh, access |-> m.access, needsReauth |-> FALSE]
      BY <1>3 DEF Applied
  <2> QED BY <2>1, <1>1, <1>3 DEF Users
<1>4. CASE m.op = "flag"
  <2>1. Applied(m, u) = [u EXCEPT !.access = 0, !.needsReauth = TRUE]
      BY <1>4 DEF Applied
  <2> QED BY <2>1, <1>1, <1>4 DEF Users
<1>5. CASE m.op = "persist"
  <2>1. Applied(m, u) = [u EXCEPT !.access = m.access,
                                  !.refresh = IF m.refresh = 0 THEN @ ELSE m.refresh]
      BY <1>5 DEF Applied
  <2> QED BY <2>1, <1>1, <1>2, <1>5 DEF Users
<1>6. CASE m.op = "revoke"
  <2>1. Applied(m, u) = u
      BY <1>6 DEF Applied
  <2> QED BY <2>1, <1>6 DEF Users
<1> QED BY <1>1, <1>3, <1>4, <1>5, <1>6

\* The revocation's mutation is a record like the others.
LEMMA RevokeTyped ==
    Mutation("revoke", 0, 0) \in MutationRecords /\ Mutation("revoke", 0, 0).op = "revoke"
BY DEF Mutation, MutationRecords

LEMMA QueueTypesKept ==
    ASSUME IInv, [Next]_vars
    PROVE  QueueTypes'
<1>1. Types /\ QueueTypes /\ user \in Users /\ file.user \in Users
      /\ queue \in Seq(MutationRecords) /\ writing \in Seq(MutationRecords) /\ Len(writing) <= 1
      /\ settled \in Grants \cup {0}
    BY Typed DEF IInv, Types, QueueTypes
<1>2. /\ user' \in Users
      /\ queue' \in Seq(MutationRecords) /\ writing' \in Seq(MutationRecords) /\ Len(writing') <= 1
      /\ settled' \in Grants \cup {0}
  <2>1. CASE Elsewhere
      BY <2>1, <1>1 DEF Elsewhere
  <2>2. ASSUME NEW m \in MutationRecords, Adds(m)
        PROVE  /\ user' \in Users
               /\ queue' \in Seq(MutationRecords) /\ writing' \in Seq(MutationRecords)
               /\ Len(writing') <= 1 /\ settled' \in Grants \cup {0}
    <3>1. queue' \in Seq(MutationRecords)
        BY <1>1, <2>2, EnqueueAdds DEF Adds
    <3> QED BY <1>1, <2>2, <3>1 DEF Adds
  <2>3. CASE Apply
    <3>1. queue[1].op = "upsert" => queue[1].refresh # 0
        BY <1>1, <2>3, ApplyMoves DEF IInv, UpsertInPlace
    <3>2. user' \in Users
        BY <1>1, <2>3, <3>1, ApplyMoves, AppliedTypes
    <3>3. writing' \in Seq(MutationRecords) /\ queue' \in Seq(MutationRecords) /\ Len(writing') = 1
        BY <1>1, <2>3, ApplyMoves
    <3> QED BY <1>1, <2>3, <3>2, <3>3 DEF Apply
  <2>4. CASE PersistDone \/ UpsertFails \/ RevokeDone \/ RevocationFails
    <3>1. writing' \in Seq(MutationRecords) /\ Len(writing') = 0
        BY <1>1, <2>4, WrittenDrops
           DEF PersistDone, UpsertFails, RevokeDone, RevocationFails, Written, Failed
    <3>2. UNCHANGED <<user, queue, settled>>
        BY <2>4 DEF PersistDone, UpsertFails, RevokeDone, RevocationFails, RejectWaiters,
           Written, Failed
    <3> QED BY <1>1, <3>1, <3>2
  <2>5. CASE UpsertDone
    <3>1. writing' \in Seq(MutationRecords) /\ Len(writing') = 0 /\ writing[1] \in MutationRecords
        BY <1>1, <2>5, WrittenDrops DEF UpsertDone, Written
    <3>2. settled' \in {writing[1].refresh, 0} /\ UNCHANGED <<user, queue>>
        BY <2>5 DEF UpsertDone, Written
    <3>3. settled' \in Grants \cup {0}
        BY <3>1, <3>2 DEF MutationRecords
    <3> QED BY <1>1, <3>1, <3>2, <3>3
  <2>6. CASE FlagDone
    <3>1. writing' \in Seq(MutationRecords) /\ Len(writing') = 0
        BY <1>1, <2>6, WrittenDrops DEF FlagDone, Written
    <3>2. queue' = Append(queue, Mutation("revoke", 0, 0)) /\ UNCHANGED <<user, settled>>
        BY <2>6 DEF FlagDone, ThenRevoke, Enqueue, Written
    <3>3. queue' \in Seq(MutationRecords)
        BY <1>1, <3>2, RevokeTyped
    <3> QED BY <1>1, <3>1, <3>2, <3>3
  <2> QED BY <2>1, <2>2, <2>3, <2>4, <2>5, <2>6, QueueMoves DEF Mutating
<1> QED BY <1>1, <1>2, SmallTypes, DiskKept DEF QueueTypes, DiskStep
\* A revocation is queued for the one refresh whose grant is gone, and then
\* the next one, until the refresh is over.
LEMMA RevocationKept ==
    ASSUME IInv, [Next]_vars
    PROVE  OneRevocation'
<1>1. /\ Types /\ QueueTypes /\ OneRevocation
      /\ Pending \subseteq MutationRecords
      /\ queue \in Seq(MutationRecords) /\ writing \in Seq(MutationRecords) /\ Len(writing) <= 1
    BY Typed, PendingTyped DEF IInv, Types, QueueTypes
<1> DEFINE Alone == \A i \in 1..Len(queue') : Revoking(queue'[i]) =>
                        /\ \A j \in 1..Len(queue') : Revoking(queue'[j]) => i = j
                        /\ \A j \in 1..Len(writing') : ~Revoking(writing'[j])
           Told == \A m \in Pending' :
                        /\ m.op = "flag" => refresh'.state = "flagging"
                        /\ m.op = "revoke" => refresh'.state = "revoking"
<1>2. Alone /\ Told => OneRevocation'
    BY DEF OneRevocation, Revoking
<1>3. ASSUME NEW m \in Pending, StateHeld
      PROVE  /\ m.op = "flag" => refresh'.state = "flagging"
             /\ m.op = "revoke" => refresh'.state = "revoking"
    BY <1>1, <1>3 DEF OneRevocation, StateHeld
<1>4. ASSUME refresh.state \notin {"flagging", "revoking"}
      PROVE  \A m \in Pending : ~Revoking(m)
    BY <1>1, <1>4 DEF OneRevocation, Revoking
<1>5. CASE Elsewhere
  <2>1. Alone
      BY <1>1, <1>5 DEF OneRevocation, Revoking, Elsewhere
  <2>2. Told
      BY <1>3, <1>5 DEF Pending, Elsewhere
  <2> QED BY <1>2, <2>1, <2>2
<1>6. ASSUME NEW m \in MutationRecords, Adds(m)
      PROVE  OneRevocation'
  <2>1. /\ PendingFrom(m) /\ Len(queue') = Len(queue) + 1 /\ Len(queue) \in Nat
        /\ queue'[Len(queue) + 1] = m /\ \A i \in 1..Len(queue) : queue'[i] = queue[i]
        /\ writing' = writing
      BY <1>1, <1>6, EnqueueAdds DEF Adds
  <2>2. \A i \in 1..Len(queue') : i = Len(queue) + 1 \/ i \in 1..Len(queue)
      BY <2>1
  <2>3. CASE m.op \in {"persist", "upsert"} /\ StateHeld
    <3>1. ~Revoking(m)
        BY <2>3 DEF Revoking
    <3>2. Alone
        BY <1>1, <2>1, <2>2, <3>1 DEF OneRevocation
    <3>3. Told
        BY <1>3, <2>1, <2>3 DEF PendingFrom
    <3> QED BY <1>2, <3>2, <3>3
  <2>4. CASE m.op = "flag" /\ refresh.state = "dead" /\ refresh'.state = "flagging"
    <3>1. \A n \in Pending : ~Revoking(n)
        BY <1>4, <2>4
    <3>2. \A i \in 1..Len(queue) : ~Revoking(queue[i])
        BY <3>1 DEF Pending
    <3>3. \A i \in 1..Len(writing) : ~Revoking(writing[i])
        BY <3>1 DEF Pending
    <3>4. Alone
        BY <2>1, <2>2, <3>2, <3>3
    <3>5. Told
        BY <2>1, <2>4, <3>1 DEF PendingFrom, Revoking
    <3> QED BY <1>2, <3>4, <3>5
  <2> QED BY <1>6, <2>3, <2>4 DEF Adds
<1>7. CASE Apply
  <2>1. /\ PendingKept /\ refresh' = refresh /\ Len(writing') = 1 /\ writing'[1] = queue[1]
        /\ Len(queue') = Len(queue) - 1 /\ Len(queue) \in Nat \ {0}
        /\ \A i \in 1..Len(queue') : i + 1 \in 1..Len(queue) /\ queue'[i] = queue[i + 1]
      BY <1>1, <1>7, ApplyMoves DEF Apply
  <2>2. \A i \in 1..Len(queue') : Revoking(queue'[i]) =>
            \A j \in 1..Len(queue') : Revoking(queue'[j]) => i = j
    <3> SUFFICES ASSUME NEW i \in 1..Len(queue'), NEW j \in 1..Len(queue'),
                        Revoking(queue'[i]), Revoking(queue'[j])
                 PROVE  i = j
        OBVIOUS
    <3>1. i + 1 = j + 1
        BY <1>1, <2>1 DEF OneRevocation
    <3> QED BY <2>1, <3>1
  <2>3. \A i \in 1..Len(queue') : Revoking(queue'[i]) =>
            \A j \in 1..Len(writing') : ~Revoking(writing'[j])
    <3> SUFFICES ASSUME NEW i \in 1..Len(queue'), NEW j \in 1..Len(writing'),
                        Revoking(queue'[i]), Revoking(writing'[j])
                 PROVE  FALSE
        OBVIOUS
    <3>1. j = 1 /\ Revoking(queue[1]) /\ 1 \in 1..Len(queue)
        BY <2>1
    <3>2. i + 1 = 1
        BY <1>1, <2>1, <3>1 DEF OneRevocation
    <3> QED BY <2>1, <3>2
  <2>4. Alone
      BY <2>2, <2>3
  <2>5. Told
      BY <1>1, <2>1 DEF OneRevocation, PendingKept
  <2> QED BY <1>2, <2>4, <2>5
<1>8. CASE PersistDone \/ UpsertDone \/ UpsertFails
  <2>1. refresh' = refresh /\ queue' = queue
      BY <1>8 DEF PersistDone, UpsertDone, UpsertFails
  <2>2. PendingKept /\ Len(writing') = 0
      BY <1>1, <1>8, <2>1, WrittenDrops DEF PersistDone, UpsertDone, UpsertFails, Written, Failed
  <2>3. Alone
      BY <1>1, <2>1, <2>2 DEF OneRevocation
  <2>4. Told
      BY <1>1, <2>1, <2>2 DEF OneRevocation, PendingKept
  <2> QED BY <1>2, <2>3, <2>4
<1>9. CASE FlagDone
  <2> DEFINE m == Mutation("revoke", 0, 0)
  <2>1. m \in MutationRecords /\ m.op = "revoke"
      BY RevokeTyped
  <2>2. Enqueue(m)
      BY <1>9 DEF FlagDone, ThenRevoke
  <2> HIDE DEF m
  <2>3. /\ writing[1].op = "flag" /\ writing[1] \in Pending /\ 1 \in 1..Len(writing) /\ Len(writing') = 0
        /\ PendingFrom(m)
      BY <1>1, <1>9, <2>1, <2>2, WrittenDrops DEF FlagDone, Written
  <2>4. refresh'.state = "revoking" /\ refresh.state = "flagging"
      BY <1>1, <1>9, <2>3 DEF OneRevocation, FlagDone, KeepWaiters, Types, ObjectTypes, Refreshes
  <2>5. \A i \in 1..Len(queue) : ~Revoking(queue[i])
      BY <1>1, <2>3 DEF OneRevocation, Revoking
  <2>6. \A i \in 1..Len(queue') : i = Len(queue) + 1 \/ (i \in 1..Len(queue) /\ queue'[i] = queue[i])
      BY <1>1, <2>1, <2>2 DEF Enqueue
  <2>7. Alone
      BY <2>3, <2>5, <2>6
  <2>8. \A n \in Pending' : n = m \/ ~Revoking(n)
    <3> SUFFICES ASSUME NEW n \in Pending' PROVE n = m \/ ~Revoking(n)
        OBVIOUS
    <3>1. (\E i \in 1..Len(queue') : n = queue'[i]) \/ (\E i \in 1..Len(writing') : n = writing'[i])
        BY DEF Pending
    <3>2. PICK i \in 1..Len(queue') : n = queue'[i]
        BY <2>3, <3>1
    <3>3. i = Len(queue) + 1 => queue'[i] = m
        BY <1>1, <2>1, <2>2 DEF Enqueue
    <3> QED BY <2>5, <2>6, <3>2, <3>3
  <2>9. Told
      BY <2>1, <2>4, <2>8 DEF Revoking
  <2> QED BY <1>2, <2>7, <2>9
<1>10. CASE RevokeDone \/ RevocationFails
  <2>1. PICK op \in {"flag", "revoke"} : Taken(op)
      BY <1>10 DEF RevokeDone, RevocationFails, Written, Failed
  <2>2. /\ writing[1].op = op /\ 1 \in 1..Len(writing) /\ Len(writing') = 0
      BY <1>1, <2>1, WrittenDrops
  <2>3. queue' = queue
      BY <1>10 DEF RevokeDone, RevocationFails, RejectWaiters
  <2>4. \A i \in 1..Len(queue) : ~Revoking(queue[i])
      BY <1>1, <2>1, <2>2 DEF OneRevocation, Revoking
  <2>5. Alone
      BY <2>2, <2>3, <2>4
  <2>6. Told
      BY <2>2, <2>3, <2>4 DEF Pending, Revoking
  <2> QED BY <1>2, <2>5, <2>6
<1> QED BY <1>5, <1>6, <1>7, <1>8, <1>9, <1>10, QueueMoves DEF Mutating

LEMMA RefreshKept ==
    ASSUME IInv, [Next]_vars
    PROVE  RefreshKnown'
<1>1. Types /\ RefreshKnown /\ ObjectsStep /\ dead \subseteq dead'
    BY Typed, ObjectsKept, GoogleKept DEF IInv, GoogleStep
<1>2. refresh \in Refreshes(Len(creds)) /\ (refresh.state = "none" <=> refresh.obj = 0)
    BY <1>1 DEF Types, ObjectTypes, RefreshKnown
<1> DEFINE Revoked == {"dead", "flagging", "revoking"}
<1>3. refresh'.state \in Revoked =>
          /\ refresh'.obj = refresh.obj
          /\ refresh.state # "none"
          /\ refresh.state \in Revoked \/ creds[refresh.obj].refresh \in dead
  <2>1. CASE AnswerRefresh
    <3>1. PICK a \in Answers(refresh.obj) : refresh' = [refresh EXCEPT !.state = a]
        BY <2>1 DEF AnswerRefresh
    <3>2. refresh'.state = a /\ refresh'.obj = refresh.obj /\ refresh.state = "asked"
        BY <1>2, <2>1, <3>1 DEF AnswerRefresh, Refreshes
    <3>3. a \in Revoked => creds[refresh.obj].refresh \in dead
        BY DEF Answers
    <3> QED BY <3>2, <3>3
  <2>2. CASE RefreshSucceeds \/ RefreshFails
      BY <2>2, ResumeStep
  <2>3. CASE GrantIsDead
    <3>1. refresh'.obj = refresh.obj /\ refresh.state = "dead"
        BY <1>2, <2>3 DEF GrantIsDead, IsInvalidGrant, Refreshes
    <3> QED BY <3>1
  <2>4. CASE FlagDone
    <3>1. refresh.state = "flagging"
        BY <1>1, <2>4, WrittenDrops DEF FlagDone, Written, IInv, OneRevocation, Types
    <3>2. refresh'.obj = refresh.obj
        BY <1>2, <2>4 DEF FlagDone, KeepWaiters, Refreshes
    <3> QED BY <3>1, <3>2
  <2>5. CASE RevokeDone \/ RevocationFails
      BY <2>5 DEF RevokeDone, RevocationFails, RejectWaiters, NoRefresh
  <2>6. ASSUME Apply \/ PersistDone \/ UpsertDone \/ UpsertFails \/ Reread \/ ExchangeCode
                 \/ Withdraw \/ UNCHANGED vars
        PROVE  refresh' = refresh
      BY <2>6 DEF Apply, PersistDone, UpsertDone, UpsertFails, Reread, ExchangeCode, Withdraw, vars
  <2>7. ASSUME NEW k \in Calls, Start(k) \/ End(k)
        PROVE  refresh' = refresh \/ refresh'.state = "asked"
      BY <2>7 DEF Start, End, AskFor
  <2>8. ASSUME NEW o \in Objects, AskLibrary(o) \/ LibraryReturns(o)
        PROVE  refresh' = refresh
      BY <2>8 DEF AskLibrary, LibraryReturns
  <2>9. ASSUME NEW offline \in BOOLEAN, SignInReturns(offline)
        PROVE  refresh' = refresh
      BY <2>9 DEF SignInReturns
  <2>10. ASSUME NEW t \in Tokens, Expire(t)
         PROVE  refresh' = refresh
      BY <2>10 DEF Expire
  <2>11. \/ refresh' = refresh \/ refresh'.state = "asked"
         \/ Refreshing \/ FlagDone \/ RevokeDone \/ RevocationFails
      BY <2>6, <2>7, <2>8, <2>9, <2>10 DEF Next, Mutating
  <2> QED BY <2>1, <2>2, <2>3, <2>4, <2>5, <2>11 DEF Refreshing
<1>4. refresh'.state \in Revoked => creds'[refresh'.obj].refresh \in dead'
  <2> SUFFICES ASSUME refresh'.state \in Revoked
               PROVE  creds'[refresh'.obj].refresh \in dead'
      OBVIOUS
  <2>1. creds[refresh.obj].refresh \in dead
      BY <1>1, <1>3 DEF RefreshKnown
  <2>2. refresh.obj \in 1..Len(creds)
      BY <1>1, <1>3, InFlight
  <2>3. creds'[refresh.obj].refresh = creds[refresh.obj].refresh
      BY <1>1, <2>2 DEF ObjectsStep, ObjectsGrow
  <2> QED BY <1>1, <1>3, <2>1, <2>3
<1> QED BY <1>1, <1>4 DEF RefreshKnown, ObjectsStep
LEMMA UpsertKept ==
    ASSUME IInv, [Next]_vars
    PROVE  UpsertInPlace'
<1>1. /\ Types /\ QueueTypes /\ UpsertInPlace /\ file.user \in Users
      /\ Pending \subseteq MutationRecords
    BY Typed, PendingTyped DEF IInv, Types, QueueTypes
<1> DEFINE Named == \A m \in Pending' : m.op = "upsert" => m.refresh # 0
           Stays == \A i \in 1..Len(writing') : writing'[i].op = "upsert" =>
                        user'.refresh = writing'[i].refresh /\ ~user'.needsReauth
<1>2. Named /\ Stays => UpsertInPlace'
    BY DEF UpsertInPlace
<1>3. CASE Elsewhere
  <2>1. Pending' = Pending
      BY <1>3 DEF Pending, Elsewhere
  <2>2. Stays
      BY <1>1, <1>3 DEF UpsertInPlace, Elsewhere
  <2> QED BY <1>1, <1>2, <2>1, <2>2 DEF UpsertInPlace
<1>4. ASSUME NEW m \in MutationRecords, Adds(m)
      PROVE  UpsertInPlace'
  <2>1. PendingFrom(m) /\ UNCHANGED <<user, writing>>
      BY <1>1, <1>4, EnqueueAdds DEF Adds
  <2>2. m.op = "upsert" => m.refresh # 0
      BY <1>4 DEF Adds
  <2>3. Named
      BY <1>1, <2>1, <2>2 DEF PendingFrom, UpsertInPlace
  <2>4. Stays
      BY <1>1, <2>1 DEF UpsertInPlace
  <2> QED BY <1>2, <2>3, <2>4
<1>5. CASE Apply
  <2> DEFINE m == queue[1]
  <2>1. /\ PendingKept /\ Len(writing') = 1 /\ writing'[1] = m
        /\ m \in MutationRecords /\ m \in Pending /\ user' = Applied(m, file.user)
      BY <1>1, <1>5, ApplyMoves
  <2> HIDE DEF m
  <2>2. m.op = "upsert" => m.refresh # 0
      BY <1>1, <2>1 DEF UpsertInPlace
  <2>3. m.op = "upsert" => user'.refresh = m.refresh /\ ~user'.needsReauth
      BY <1>1, <2>1, <2>2, AppliedTypes
  <2>4. Named
      BY <1>1, <2>1 DEF PendingKept, UpsertInPlace
  <2>5. Stays
      BY <2>1, <2>3
  <2> QED BY <1>2, <2>4, <2>5
<1>6. CASE PersistDone \/ UpsertDone \/ UpsertFails \/ RevokeDone \/ RevocationFails
  <2>1. PendingKept /\ Len(writing') = 0
      BY <1>1, <1>6, WrittenDrops DEF PersistDone, UpsertDone, UpsertFails, RevokeDone,
         RevocationFails, RejectWaiters, Written, Failed
  <2> QED BY <1>1, <1>2, <2>1 DEF PendingKept, UpsertInPlace
<1>7. CASE FlagDone
  <2> DEFINE m == Mutation("revoke", 0, 0)
  <2>1. m \in MutationRecords /\ m.op = "revoke" /\ Enqueue(m)
      BY <1>7, RevokeTyped DEF FlagDone, ThenRevoke
  <2> HIDE DEF m
  <2>2. PendingFrom(m) /\ Len(writing') = 0
      BY <1>1, <1>7, <2>1, WrittenDrops DEF FlagDone, Written
  <2> QED BY <1>1, <1>2, <2>1, <2>2 DEF PendingFrom, UpsertInPlace
<1> QED BY <1>3, <1>4, <1>5, <1>6, <1>7, QueueMoves DEF Mutating

----------------------------------------------------------------------------
(* The sign-in *)

\* What is pending after the step is harmless to a sign-in that has settled,
\* when all that is new comes from the settled grant.
LEMMA HarmlessStill ==
    ASSUME settled # 0, settled' = settled, dead \subseteq dead', NEW m, Harmless(m)
    PROVE  Harmless(m)'
BY DEF Harmless, Revoking

LEMMA SettledKept ==
    ASSUME IInv, [Next]_vars
    PROVE  SettledInPlace'
<1>1. /\ Types /\ QueueTypes /\ user \in Users /\ file.user \in Users
      /\ SettledInPlace /\ RefreshKnown /\ file'.user \in {user, file.user}
      /\ Pending \subseteq MutationRecords
      /\ dead \subseteq dead' /\ HeldFrom /\ ObjectsGrow
    BY Typed, PendingTyped, ObjectsKept, GoogleKept, DiskKept
       DEF IInv, Types, QueueTypes, GoogleStep, ObjectsStep, DiskStep
\* The record is the settled grant's in memory, as it is on file.
<1> DEFINE Good(u) == u.refresh = settled /\ (u.needsReauth => settled \in dead)
<1>2. ASSUME settled # 0, settled' = settled, Good(user'),
             \A m \in Pending' : m \in Pending \/ Harmless(m)
      PROVE  SettledInPlace'
  <2>1. \A u \in {user', file'.user} :
            u.refresh = settled' /\ (u.needsReauth => settled' \in dead')
    <3>1. Good(user) /\ Good(file.user)
        BY <1>1, <1>2 DEF SettledInPlace
    <3>2. Good(file'.user)
        BY <1>1, <3>1
    <3> QED BY <1>1, <1>2, <3>2
  <2>2. ASSUME NEW o \in Held'
        PROVE  creds'[o].refresh = settled'
    <3>1. CASE o \in Held
      <4>1. o \in 1..Len(creds)
        <5>1. /\ client \in 0..Len(creds) /\ service \in 0..Len(creds) /\ library \subseteq 1..Len(creds)
              /\ refresh.obj \in 0..Len(creds)
              /\ \A k \in Calls : call[k].obj \in 0..Len(creds) /\ call[k].service \in 0..Len(creds)
            BY <1>1 DEF Types, ObjectTypes, Refreshes, CallRecords
        <5>2. /\ o # 0
              /\ \/ o \in {client, service, refresh.obj} \cup library
                 \/ \E k \in Calls : o \in {call[k].obj, call[k].service}
            BY <3>1 DEF Held
        <5>3. creds \in Seq(Credentials) /\ Len(creds) \in Nat
            BY <1>1 DEF Types, ObjectTypes
        <5>4. o \in 0..Len(creds)
          <6>1. CASE o \in {client, service, refresh.obj} \cup library
              BY <5>1, <5>3, <6>1
          <6>2. CASE \E k \in Calls : o \in {call[k].obj, call[k].service}
              BY <5>1, <6>2
          <6> QED BY <5>2, <6>1, <6>2
        <5> QED BY <5>2, <5>3, <5>4
      <4>2. creds[o].refresh = settled
          BY <1>1, <1>2, <3>1 DEF SettledInPlace
      <4>3. creds'[o].refresh = creds[o].refresh
          BY <1>1, <4>1 DEF ObjectsGrow
      <4> QED BY <1>2, <4>2, <4>3
    <3>2. CASE o \notin Held
        BY <1>1, <1>2, <3>2 DEF HeldFrom, SettledInPlace
    <3> QED BY <3>1, <3>2
  <2>3. ASSUME NEW m \in Pending'
        PROVE  Harmless(m)'
    <3>1. Harmless(m)
        BY <1>1, <1>2, <2>3 DEF SettledInPlace
    <3> QED BY <1>1, <1>2, <3>1, HarmlessStill
  <2> QED BY <2>1, <2>2, <2>3 DEF SettledInPlace
<1>3. ASSUME settled' = 0
      PROVE  SettledInPlace'
    BY <1>3 DEF SettledInPlace
<1>4. CASE Elsewhere
  <2>1. Pending' = Pending /\ settled' = settled /\ user' \in {user, file.user}
      BY <1>4 DEF Pending, Elsewhere
  <2>2. CASE settled # 0
    <3>1. Good(user')
        BY <1>1, <2>1, <2>2 DEF SettledInPlace
    <3> QED BY <1>2, <2>1, <2>2, <3>1
  <2> QED BY <1>3, <2>1, <2>2
<1>5. ASSUME NEW m \in MutationRecords, Adds(m), settled' # 0
      PROVE  SettledInPlace'
  <2>1. PendingFrom(m) /\ user' = user /\ settled' = settled
      BY <1>1, <1>5, EnqueueAdds DEF Adds
  <2>2. Harmless(m)
    <3>1. CASE m.op = "persist" /\ \E o \in Held : m.refresh \in {0, creds[o].refresh}
        BY <1>1, <1>5, <2>1, <3>1 DEF SettledInPlace, Harmless
    <3>2. CASE m.op = "flag" /\ refresh.state = "dead"
      <4>1. creds[refresh.obj].refresh \in dead
          BY <1>1, <3>2 DEF RefreshKnown
      <4>2. refresh.obj \in Held
          BY <1>1, <3>2, InFlight
      <4>3. creds[refresh.obj].refresh = settled
          BY <1>1, <1>5, <2>1, <4>2 DEF SettledInPlace
      <4> QED BY <3>2, <4>1, <4>3 DEF Harmless, Revoking
    <3> QED BY <1>5, <3>1, <3>2 DEF Adds
  <2>3. Good(user')
      BY <1>1, <1>5, <2>1 DEF SettledInPlace
  <2> QED BY <1>2, <1>5, <2>1, <2>2, <2>3 DEF PendingFrom
<1>6. CASE Apply
  <2> DEFINE m == queue[1]
  <2>1. /\ PendingKept /\ m \in MutationRecords /\ m \in Pending
        /\ user' = Applied(m, file.user) /\ settled' = settled
      BY <1>1, <1>6, ApplyMoves DEF Apply
  <2> HIDE DEF m
  <2>2. CASE settled # 0
    <3>1. Harmless(m) /\ Good(file.user)
        BY <1>1, <2>1, <2>2 DEF SettledInPlace
    <3>2. m.op # "upsert"
        BY <3>1 DEF Harmless, Revoking
    <3>3. CASE m.op = "persist" /\ m.refresh \in {0, settled}
      <4>1. Good(user')
          BY <1>1, <2>1, <3>1, <3>2, <3>3, AppliedTypes
      <4> QED BY <1>2, <2>1, <2>2, <4>1 DEF PendingKept
    <3>4. CASE m.op \in {"flag", "revoke"} /\ settled \in dead
      <4>1. Good(user')
          BY <1>1, <2>1, <3>1, <3>2, <3>4, AppliedTypes
      <4> QED BY <1>2, <2>1, <2>2, <4>1 DEF PendingKept
    <3> QED BY <3>1, <3>3, <3>4 DEF Harmless, Revoking
  <2> QED BY <1>3, <2>1, <2>2
<1>7. CASE PersistDone \/ UpsertFails \/ RevokeDone \/ RevocationFails
  <2>1. user' = user /\ settled' = settled /\ queue' = queue
      BY <1>7 DEF PersistDone, UpsertFails, RevokeDone, RevocationFails, RejectWaiters,
         Written, Failed
  <2>2. PendingKept
      BY <1>1, <1>7, <2>1, WrittenDrops
         DEF PersistDone, UpsertFails, RevokeDone, RevocationFails, Written, Failed
  <2>3. CASE settled # 0
    <3>1. Good(user')
        BY <1>1, <2>1, <2>3 DEF SettledInPlace
    <3> QED BY <1>2, <2>1, <2>2, <2>3, <3>1 DEF PendingKept
  <2> QED BY <1>3, <2>1, <2>3
<1>8. CASE FlagDone
  <2> DEFINE m == Mutation("revoke", 0, 0)
  <2>1. m \in MutationRecords /\ m.op = "revoke" /\ Enqueue(m)
      BY <1>8, RevokeTyped DEF FlagDone, ThenRevoke
  <2> HIDE DEF m
  <2>2. PendingFrom(m) /\ writing[1] \in Pending /\ writing[1].op = "flag"
      BY <1>1, <1>8, <2>1, WrittenDrops DEF FlagDone, Written
  <2>3. user' = user /\ settled' = settled
      BY <1>8 DEF FlagDone, Written
  <2>4. CASE settled # 0
    <3>1. settled \in dead
      <4>1. Harmless(writing[1])
          BY <1>1, <2>2, <2>4 DEF SettledInPlace
      <4> QED BY <2>2, <4>1 DEF Harmless
    <3>2. Harmless(m)
        BY <2>1, <3>1 DEF Harmless, Revoking
    <3>3. Good(user')
        BY <1>1, <2>3, <2>4 DEF SettledInPlace
    <3> QED BY <1>2, <2>2, <2>3, <2>4, <3>2, <3>3 DEF PendingFrom
  <2> QED BY <1>3, <2>3, <2>4
\* The sign-in settles: nothing is held, and nothing is queued.
<1>9. CASE UpsertDone
  <2>1. /\ writing[1].op = "upsert" /\ 1 \in 1..Len(writing) /\ Len(writing') = 0
        /\ user' = user /\ file'.user = user /\ settled' = (IF Quiet THEN writing[1].refresh ELSE 0)
        /\ UNCHANGED <<refresh, library, call, queue>> /\ client' = 0 /\ service' = 0
      BY <1>1, <1>9, WrittenDrops DEF UpsertDone, Written, Evict
  <2>2. CASE Quiet
    <3>1. \A u \in {user', file'.user} : u.refresh = settled' /\ ~u.needsReauth
        BY <2>1, <2>2 DEF IInv, UpsertInPlace
    <3>2. Pending' = {}
        BY <2>1, <2>2 DEF Pending, Quiet
    <3>3. \A k \in Calls : call'[k].obj = 0 /\ call'[k].service = 0
        BY <2>1, <2>2 DEF Quiet, IInv, IdleHoldsNothing, IdleCall
    <3>4. refresh'.obj = 0 /\ library' = {}
        BY <2>1, <2>2 DEF Quiet, NoRefresh
    <3>5. Held' = {}
        BY <2>1, <3>3, <3>4 DEF Held
    <3> QED BY <3>1, <3>2, <3>5 DEF SettledInPlace
  <2> QED BY <1>3, <2>1, <2>2
<1> QED BY <1>3, <1>4, <1>5, <1>6, <1>7, <1>8, <1>9, QueueMoves DEF Mutating

----------------------------------------------------------------------------
LEMMA InitInv == Init => IInv
<1> SUFFICES ASSUME Init PROVE IInv
    OBVIOUS
<1> USE DEF Init
<1>1. 1 \in Grants /\ 1 \in Tokens /\ 1 \in 1..granted
    BY Constants DEF Grants, Tokens
<1>2. tokens \in Seq(Grants) /\ Len(tokens) = 1 /\ Len(tokens) <= MaxTokens
    BY <1>1, Constants
<1>3. GoogleTypes
    BY <1>1, <1>2 DEF GoogleTypes
<1>4. creds \in Seq(Credentials) /\ Len(creds) = 0
    OBVIOUS
<1>5. NoRefresh.state = "none" /\ NoRefresh.obj = 0 /\ NoRefresh \in Refreshes(0)
    BY DEF NoRefresh, Refreshes, RefreshStates
<1>6. /\ IdleCall \in CallRecords(0) /\ IdleCall.obj = 0 /\ IdleCall.service = 0
      /\ IdleCall.step = "idle"
    BY DEF IdleCall, CallRecords
<1>7. ObjectTypes
  <2>1. call \in [Calls -> CallRecords(0)]
      BY <1>6
  <2> QED BY <1>4, <1>5, <2>1 DEF ObjectTypes
<1>8. user \in Users
    BY <1>1 DEF Users
<1>9. QueueTypes
  <2>1. file \in [user : Users, mcp : BOOLEAN]
      BY <1>8
  <2> QED BY <1>8, <2>1, Constants DEF QueueTypes
<1>10. \A k \in Calls : call[k] = IdleCall
    OBVIOUS
<1>11. IdleHoldsNothing /\ WaitersAreServed
    BY <1>6, <1>10 DEF IdleHoldsNothing, WaitersAreServed, Waiters
<1>12. RefreshKnown
    BY <1>5 DEF RefreshKnown
<1>13. RoomForToken
    BY <1>2, <1>5, Constants DEF RoomForToken, Coming
<1>14. Pending = {} /\ Len(queue) = 0 /\ Len(writing) = 0
    BY DEF Pending
<1>15. OneRevocation /\ UpsertInPlace /\ SettledInPlace
    BY <1>14 DEF OneRevocation, UpsertInPlace, SettledInPlace
<1> QED BY <1>1, <1>3, <1>7, <1>9, <1>11, <1>12, <1>13, <1>15, Typed DEF IInv, Types

LEMMA NextInv == IInv /\ [Next]_vars => IInv'
<1> SUFFICES ASSUME IInv, [Next]_vars
             PROVE  IInv'
    OBVIOUS
<1>1. TypeOK'
    BY TypedNext, GoogleKept, ObjectsKept, QueueTypesKept DEF Types, GoogleStep, ObjectsStep
<1>2. RoomForToken' /\ (dead \subseteq 1..granted)'
    BY GoogleKept DEF GoogleStep
<1>3. IdleHoldsNothing' /\ WaitersAreServed'
    BY ObjectsKept DEF ObjectsStep
<1>4. RefreshKnown' /\ OneRevocation' /\ UpsertInPlace' /\ SettledInPlace'
    BY RefreshKept, RevocationKept, UpsertKept, SettledKept
<1> QED BY <1>1, <1>2, <1>3, <1>4 DEF IInv

\* The inductive invariant: at most one revocation at a time, for the refresh
\* that is shared; what is held and what is queued agree with a sign-in that
\* has settled.
THEOREM Invariance == Spec => []IInv
BY InitInv, NextInv, PTL DEF Spec

\* Every variable keeps its type, with as many objects as it takes.
THEOREM TypeCorrect == Spec => []TypeOK
<1>1. IInv => TypeOK
    BY DEF IInv
<1> QED BY <1>1, Invariance, PTL

\* A call that waits always has a refresh to wait for, whichever client the
\* refresh in flight is for.
THEOREM WaitersAlwaysServed == Spec => []WaitersAreServed
<1>1. IInv => WaitersAreServed
    BY DEF IInv
<1> QED BY <1>1, Invariance, PTL

\* A sign-in that nothing overlapped takes effect and keeps it: whatever is
\* refreshed, evicted, expired or withdrawn later, the record and the caches
\* are of its grant, and the record is flagged only when Google dropped it.
THEOREM SignInAlwaysTakesEffect == Spec => []SignInTakesEffect
<1>1. IInv => SignInTakesEffect
  <2> SUFFICES ASSUME SettledInPlace, settled # 0
               PROVE  SignInTakesEffect
      BY DEF IInv, SignInTakesEffect
  <2>1. {client, service} \ {0} \subseteq Held
      BY DEF Held
  <2> QED BY <2>1 DEF SettledInPlace, SignInTakesEffect
<1> QED BY <1>1, Invariance, PTL
=============================================================================

--------------------------- MODULE AccountsProofs ---------------------------
(***************************************************************************)
(* Proofs about Accounts, for any processes, aliases and bounds that       *)
(* satisfy ConstantsAssumption, and about the way of a call to one of them *)
(* (HttpSessions and AccountResolver), for any constants that satisfy      *)
(* SessionsAssumption.                                                     *)
(***************************************************************************)
EXTENDS Accounts, HttpSessions, TLAPS

----------------------------------------------------------------------------
(* Records *)

\* What the helpers return is a store, a file or a mutation.
LEMMA HelperTypes ==
    /\ NoAccounts \in [Aliases -> Grants \cup {0}] /\ Empty \in Data /\ Valid(Empty)
    /\ NoFlow \in Flows /\ NoWord \in Words /\ NoFlow.step = "none" /\ NoWord.state = "none"
    /\ \A k \in {"absent", "bad"} : Blank(k) \in Files /\ Valid(Blank(k)) /\ Blank(k).kind = k
                                    /\ Blank(k).accounts = NoAccounts
    /\ \A g \in Grants \cup {0} : FromV1(g) \in Data /\ FromV1(g).accounts[DefaultAlias] = g
    /\ \A g \in Grants : Valid(FromV1(g))
    /\ \A d \in Data : AsFile(d) \in Files /\ AsFile(d).kind = "v2"
                       /\ AsFile(d).accounts = d.accounts /\ (Valid(AsFile(d)) <=> Valid(d))
    /\ \A f \in Files : AsData(f) \in Data /\ AsData(f).accounts = f.accounts
                        /\ (Valid(AsData(f)) <=> Valid(f))
  <1>1. DefaultAlias \in Aliases /\ None \notin Aliases
    BY ConstantsAssumption
  <1>2. 0 \notin Grants
    BY DEF Grants
  <1>3. NoAccounts \in [Aliases -> Grants \cup {0}] /\ Empty \in Data /\ Valid(Empty)
    BY <1>1 DEF NoAccounts, Empty, Data, Valid
  <1>4. NoFlow \in Flows /\ NoWord \in Words /\ NoFlow.step = "none" /\ NoWord.state = "none"
    BY DEF NoFlow, NoWord, Flows, Words
  <1>5. \A k \in {"absent", "bad"} : Blank(k) \in Files /\ Valid(Blank(k)) /\ Blank(k).kind = k
                                     /\ Blank(k).accounts = NoAccounts
    BY <1>3 DEF Blank, Files, Valid
  <1>6. \A g \in Grants \cup {0} : FromV1(g) \in Data /\ FromV1(g).accounts[DefaultAlias] = g
    BY <1>1 DEF FromV1, NoAccounts, Data
  <1>7. \A g \in Grants : Valid(FromV1(g))
    BY <1>1, <1>2 DEF FromV1, NoAccounts, Valid
  <1>8. \A d \in Data : AsFile(d) \in Files /\ AsFile(d).kind = "v2"
                        /\ AsFile(d).accounts = d.accounts /\ (Valid(AsFile(d)) <=> Valid(d))
    BY DEF AsFile, Files, Data, Valid
  <1>9. \A f \in Files : AsData(f) \in Data /\ AsData(f).accounts = f.accounts
                         /\ (Valid(AsData(f)) <=> Valid(f))
    BY DEF AsData, Files, Data, Valid
  <1> QED  BY <1>3, <1>4, <1>5, <1>6, <1>7, <1>8, <1>9

\* A mutation has what it needs.
Whole(m) == m.op # "setDefault" => m.alias \in Aliases /\ (m.op = "upsert" <=> m.grant # 0)

\* What a mutation runs on is a store whose default is one of its accounts, and
\* so is what it leaves.
LEMMA MergedIsStore ==
    ASSUME TypeOK, DefaultIsAccount, NEW p \in Procs, NEW readable \in BOOLEAN
    PROVE  Merged(p, readable) \in Data /\ Valid(Merged(p, readable))
  <1>1. mem[p] \in Data /\ Valid(mem[p]) /\ file \in Files /\ Valid(file)
    BY DEF TypeOK, DefaultIsAccount
  <1> QED  BY <1>1, HelperTypes DEF Merged

LEMMA MutatedIsStore ==
    ASSUME NEW data \in Data, Valid(data), NEW m \in Mutations, Allowed(data, m),
           Whole(m)
    PROVE  /\ Mutated(data, m) \in Data /\ Valid(Mutated(data, m))
           /\ \A a \in Aliases :
                Mutated(data, m).accounts[a] =
                    IF m.op # "setDefault" /\ m.alias = a THEN m.grant ELSE data.accounts[a]
  <1>1. /\ data.accounts \in [Aliases -> Grants \cup {0}] /\ data.def \in Aliases \cup {None}
        /\ m.op \in {"upsert", "remove", "setDefault"} /\ m.alias \in Aliases \cup {None}
        /\ m.grant \in Grants \cup {0}
    BY DEF Data, Mutations
  <1>2. None \notin Aliases
    BY ConstantsAssumption
  <1>3. CASE m.op = "upsert"
    BY <1>1, <1>2, <1>3 DEF Mutated, Whole, Data, Valid
  <1>4. CASE m.op = "remove"
    BY <1>1, <1>2, <1>4 DEF Mutated, Removed, Whole, Data, Valid
  <1>5. CASE m.op = "setDefault"
    BY <1>1, <1>2, <1>5 DEF Mutated, Allowed, Data, Valid
  <1> QED  BY <1>1, <1>3, <1>4, <1>5

----------------------------------------------------------------------------
(* Queues *)

\* Queues that stay as they are.
LEMMA SameUnwritten ==
    ASSUME UNCHANGED queues, NEW p \in Procs
    PROVE  Unwritten(p)' = Unwritten(p)
  BY DEF queues, Unwritten

\* A mutation that is queued is the only new one.
LEMMA EnqueueUnwritten ==
    ASSUME queue \in [Procs -> Seq(Mutations)], writing' = writing,
           NEW p \in Procs, NEW m \in Mutations, Enqueue(p, m)
    PROVE  /\ queue' \in [Procs -> Seq(Mutations)]
           /\ Len(queue'[p]) = Len(queue[p]) + 1
           /\ Unwritten(p)' = Unwritten(p) \cup {m}
           /\ \A q \in Procs \ {p} : queue'[q] = queue[q] /\ Unwritten(q)' = Unwritten(q)
  <1>1. /\ queue'[p] = Append(queue[p], m)
        /\ \A q \in Procs \ {p} : queue'[q] = queue[q]
        /\ queue' \in [Procs -> Seq(Mutations)]
    BY DEF Enqueue
  <1>2. {queue'[p][i] : i \in 1..Len(queue'[p])} = {queue[p][i] : i \in 1..Len(queue[p])} \cup {m}
    <2>1. Len(queue'[p]) = Len(queue[p]) + 1 /\ Len(queue[p]) \in Nat
      BY <1>1
    <2>2. \A i \in 1..Len(queue[p]) : queue'[p][i] = queue[p][i]
      BY <1>1
    <2>3. queue'[p][Len(queue[p]) + 1] = m
      BY <1>1
    <2>4. 1..(Len(queue[p]) + 1) = 1..Len(queue[p]) \cup {Len(queue[p]) + 1}
      BY <2>1
    <2>5. {queue'[p][i] : i \in 1..Len(queue'[p])}
             = {queue'[p][i] : i \in 1..Len(queue[p])} \cup {queue'[p][Len(queue[p]) + 1]}
      BY <2>1, <2>4
    <2> QED  BY <2>2, <2>3, <2>5
  <1> QED  BY <1>1, <1>2 DEF Unwritten

\* The head of a queue is one of its mutations; without it there is none that
\* was not there.
LEMMA DequeueUnwritten ==
    ASSUME queue \in [Procs -> Seq(Mutations)], NEW p \in Procs, queue[p] # <<>>,
           writing[p] = <<>>
    PROVE  /\ Head(queue[p]) \in Unwritten(p) /\ Head(queue[p]) \in Mutations
           /\ Tail(queue[p]) \in Seq(Mutations) /\ Len(Tail(queue[p])) = Len(queue[p]) - 1
           /\ {Tail(queue[p])[i] : i \in 1..Len(Tail(queue[p]))} \subseteq Unwritten(p)
  <1>1. Len(queue[p]) \in Nat \ {0} /\ Head(queue[p]) = queue[p][1]
    OBVIOUS
  <1>2. Tail(queue[p]) \in Seq(Mutations) /\ Len(Tail(queue[p])) = Len(queue[p]) - 1
    OBVIOUS
  <1>3. \A i \in 1..Len(Tail(queue[p])) : Tail(queue[p])[i] = queue[p][i + 1]
    OBVIOUS
  <1>4. Head(queue[p]) \in Mutations
    BY <1>1
  <1> QED  BY <1>1, <1>2, <1>3, <1>4 DEF Unwritten

----------------------------------------------------------------------------
(* The invariant, one process at a time *)

\* A process that holds nothing but its store.
Idle(p) ==
    /\ Unwritten(p) = {}
    /\ NoClients(p)
    /\ \A a \in Aliases : flow[p][a].step = "none"

\* What a process keeps to by itself.
Cold(p) == stage[p] \in Booting \cup {"down"} => Idle(p)

Consenting(p) ==
    stage[p] = "consent" =>
        /\ NoClients(p)
        /\ \A a \in Aliases \ {DefaultAlias} : flow[p][a].step = "none"
        /\ flow[p][DefaultAlias].step \in {"none", "open"} => Unwritten(p) = {}
        /\ Len(queue[p]) + Len(writing[p]) <= 1
        /\ \A m \in Unwritten(p) : m.by = "flow" /\ m.alias = DefaultAlias

Applied(p) ==
    writing[p] # <<>> =>
        /\ Len(writing[p]) = 1
        /\ writing[p][1].op # "setDefault" =>
               mem[p].accounts[writing[p][1].alias] = writing[p][1].grant

Own(p) ==
    /\ Valid(mem[p]) /\ Cold(p) /\ Consenting(p) /\ Applied(p)
    /\ \A m \in Unwritten(p) : Whole(m)

\* What it owes to an account that the user has settled.
Settled(p, a) ==
    word[a].state = "stands" =>
        /\ stage[p] \notin {"renaming", "migrating", "adopting", "unlinking"}
        /\ stage[p] = "legacy" => word[a].grant = 0 /\ legacy = 0
        /\ HasRead(p) => Holds(p, a, word[a].grant)
        /\ \A m \in Unwritten(p) : Leaves(m, a, word[a].grant)

\* The oldest grant is still to be kept in the files.
Due == ~letGo /\ 1 \notin backups

\* What it owes to the oldest grant.
Oldest(p) ==
    Due =>
        /\ stage[p] \in {"up", "migrating", "renaming", "adopting", "unlinking"} =>
               mem[p].accounts[DefaultAlias] = 1
        /\ stage[p] \in {"up", "unlinking"} => file.accounts[DefaultAlias] = 1
        /\ stage[p] = "consent" => Unwritten(p) = {}
        /\ \A m \in Unwritten(p) : Leaves(m, DefaultAlias, 1)

\* What the files hold.
FileInv ==
    /\ Valid(file) /\ legacy \in {0, 1}
    /\ file.kind = "v1" => file.accounts[DefaultAlias] # 0
    /\ file.kind \in {"absent", "bad"} => file.accounts = NoAccounts
    /\ \A a \in Aliases :
         /\ word[a].state = "stands" =>
              /\ file.accounts[a] = word[a].grant
              /\ file.kind = "v2" \/ (file.kind = "absent" /\ word[a].grant = 0 /\ legacy = 0)
         /\ word[a].state = "aside" => word[a].grant \in backups
    /\ Due => /\ legacy = 1 \/ file.accounts[DefaultAlias] = 1
              /\ file.kind \in {"v1", "v2"} => file.accounts[DefaultAlias] = 1

ProcInv(p) == Own(p) /\ Oldest(p) /\ \A a \in Aliases : Settled(p, a)

Parts == TypeOK /\ FileInv /\ \A p \in Procs : ProcInv(p)

LEMMA InvByProcess == IInv <=> TypeOK /\ FileInv /\ \A p \in Procs : ProcInv(p)
  <1>1. IInv => TypeOK /\ FileInv /\ \A p \in Procs : ProcInv(p)
    <2> SUFFICES ASSUME IInv PROVE TypeOK /\ FileInv /\ \A p \in Procs : ProcInv(p)
      OBVIOUS
    <2>1. FileInv
      BY DEF IInv, FileInv, DefaultIsAccount, MutationsAreWhole, OldestIsHeld, Due,
             SettledAreAgreed, Agreed
    <2>2. ASSUME NEW p \in Procs PROVE Own(p)
      BY DEF IInv, Own, DefaultIsAccount, ColdUntilLoaded, ConsentIsAlone, MutationsAreWhole,
             WritingIsApplied, Cold, Idle, Consenting, Whole, Applied
    <2>3. ASSUME NEW p \in Procs PROVE Oldest(p)
      BY DEF IInv, Oldest, OldestIsHeld, Due
    <2>4. ASSUME NEW p \in Procs, NEW a \in Aliases PROVE Settled(p, a)
      BY DEF IInv, Settled, SettledAreAgreed, Agreed
    <2> QED  BY <2>1, <2>2, <2>3, <2>4 DEF IInv, ProcInv
  <1>2. TypeOK /\ FileInv /\ (\A p \in Procs : ProcInv(p)) => IInv
    <2> SUFFICES ASSUME TypeOK, FileInv, \A p \in Procs : ProcInv(p) PROVE IInv
      OBVIOUS
    <2> \A p \in Procs : Own(p) /\ Oldest(p) /\ \A a \in Aliases : Settled(p, a)
      BY DEF ProcInv
    <2>1. DefaultIsAccount
      BY DEF DefaultIsAccount, FileInv, Own
    <2>2. ColdUntilLoaded
      BY DEF ColdUntilLoaded, Own, Cold, Idle
    <2>3. ConsentIsAlone
      BY DEF ConsentIsAlone, Own, Consenting
    <2>4. MutationsAreWhole
      BY DEF MutationsAreWhole, Own, Whole, FileInv
    <2>5. WritingIsApplied
      BY DEF WritingIsApplied, Own, Applied
    <2>6. SettledAreAgreed
      BY DEF SettledAreAgreed, Agreed, Settled, FileInv
    <2>7. OldestIsHeld
      BY DEF OldestIsHeld, Oldest, FileInv, Due
    <2> QED  BY <2>1, <2>2, <2>3, <2>4, <2>5, <2>6, <2>7 DEF IInv
  <1> QED  BY <1>1, <1>2

LEMMA InvByProcessNext == Parts' => IInv'
  <1>1. Parts <=> IInv
    BY InvByProcess DEF Parts
  <1> QED  BY <1>1, PTL

\* A process that takes no part in a step.
Same(q) ==
    /\ mem'[q] = mem[q] /\ stage'[q] = stage[q]
    /\ queue'[q] = queue[q] /\ writing'[q] = writing[q] /\ flow'[q] = flow[q]
    /\ client'[q] = client[q] /\ service'[q] = service[q] /\ waiting'[q] = waiting[q]

\* A step of one process keeps the invariant when that process and the files do,
\* no other account is settled and no other process is left without the oldest
\* grant on file.
LEMMA StepOfOne ==
    ASSUME IInv, NEW p \in Procs, TypeOK', FileInv', ProcInv(p)', legacy' \in {0, legacy},
           \A q \in Procs \ {p} : Same(q),
           \A a \in Aliases : word'[a].state = "stands" =>
               \/ word[a].state = "stands" /\ word'[a] = word[a]
               \/ \A q \in Procs \ {p} : stage[q] = "down",
           Due' => Due /\ \A q \in Procs \ {p} :
                       stage[q] \in {"up", "unlinking"} => file'.accounts[DefaultAlias] = 1
    PROVE  IInv'
  <1> SUFFICES ASSUME NEW q \in Procs \ {p} PROVE ProcInv(q)'
    BY InvByProcessNext DEF Parts
  <1>1. /\ ProcInv(q)
        /\ Same(q)
    BY InvByProcess
  <1>2. Unwritten(q)' = Unwritten(q)
    BY <1>1 DEF Same, Unwritten
  <1>3. Own(q)'
    <2>1. Own(q)
      BY <1>1 DEF ProcInv
    <2>2. Valid(mem[q])' /\ Applied(q)'
      BY <1>1, <2>1 DEF Own, Applied, Same, Valid
    <2>3. Cold(q)'
      BY <1>1, <1>2, <2>1 DEF Own, Cold, Idle, NoClients, Same
    <2>5. Consenting(q)'
      <3>1. Consenting(q) /\ (NoClients(q)' <=> NoClients(q))
        BY <1>1, <2>1 DEF Own, NoClients, Same
      <3>2. /\ stage'[q] = stage[q] /\ flow'[q] = flow[q]
            /\ queue'[q] = queue[q] /\ writing'[q] = writing[q]
        BY <1>1 DEF Same
      <3> HIDE DEF Unwritten, NoClients
      <3> QED  BY <3>1, <3>2, <1>2 DEF Consenting
    <2>4. \A m \in Unwritten(q)' : Whole(m)
      BY <1>2, <2>1 DEF Own
    <2> QED  BY <2>2, <2>3, <2>4, <2>5 DEF Own, Whole
  <1>4. Oldest(q)'
    BY <1>1, <1>2 DEF ProcInv, Oldest, Same, Leaves
  <1>5. ASSUME NEW a \in Aliases PROVE Settled(q, a)'
    <2>1. CASE word[a].state = "stands" /\ word'[a] = word[a]
      BY <1>1, <1>2, <2>1 DEF ProcInv, Settled, Same, Holds, HasRead, Leaves
    <2>2. CASE stage[q] = "down"
      BY <1>1, <1>2, <2>2 DEF ProcInv, Own, Cold, Idle, Settled, HasRead, Same
    <2>3. CASE word'[a].state # "stands"
      BY <2>3 DEF Settled
    <2> QED  BY <2>1, <2>2, <2>3
  <1> QED  BY <1>3, <1>4, <1>5 DEF ProcInv

\* Files that a step leaves alone.
LEMMA QuietFile ==
    ASSUME IInv, UNCHANGED disk, letGo => letGo',
           \A a \in Aliases : word'[a] = word[a] \/ word'[a].state = "none"
    PROVE  FileInv' /\ (Due' => Due)
  BY InvByProcess DEF FileInv, disk, Due, Valid
\* A step that may fail changes no other counter than that of the faults.
LEMMA CountersTyped ==
    ASSUME TypeOK, NEW ok \in BOOLEAN, Succeeds(ok)
    PROVE  granted' = granted /\ ops' = ops /\ faults' \in Nat
  BY DEF TypeOK, Succeeds, Fault, counters

----------------------------------------------------------------------------
(* Boot *)

Stages == Booting \cup {"down", "consent", "up"}

\* The accounts that stay settled and the grant that stays due, over a step that
\* brings process p to stage s with store d.
BootKeeps(p, d, s) ==
    /\ FileInv'
    /\ \A a \in Aliases : word'[a].state = "stands" =>
         /\ word[a].state = "stands" /\ word'[a] = word[a]
         /\ s \notin {"renaming", "migrating", "adopting", "unlinking"}
         /\ s = "legacy" => word[a].grant = 0 /\ legacy' = 0
         /\ s = "up" \/ (s = "consent" /\ d # Empty) => d.accounts[a] = word[a].grant
    /\ Due' =>
         /\ Due
         /\ s \in {"up", "migrating", "renaming", "adopting", "unlinking"} =>
                d.accounts[DefaultAlias] = 1
         /\ s \in {"up", "unlinking"} => file'.accounts[DefaultAlias] = 1
         /\ \A q \in Procs \ {p} :
              stage[q] \in {"up", "unlinking"} => file'.accounts[DefaultAlias] = 1

LEMMA BootStep ==
    ASSUME IInv, NEW p \in Procs, Idle(p), BootFrame,
           NEW d \in Data, Valid(d), mem' = [mem EXCEPT ![p] = d],
           NEW s \in Stages, stage' = [stage EXCEPT ![p] = s],
           file' \in Files, legacy' \in {0, legacy}, backups' \subseteq Grants,
           word' \in [Aliases -> Words],
           granted' = granted, ops' = ops, faults' \in Nat,
           BootKeeps(p, d, s)
    PROVE  IInv'
  <1>1. TypeOK /\ Own(p) /\ DefaultAlias \in Aliases
    BY InvByProcess, ConstantsAssumption DEF ProcInv
  <1>2. mem' \in [Procs -> Data] /\ mem'[p] = d /\ \A q \in Procs \ {p} : mem'[q] = mem[q]
    BY <1>1 DEF TypeOK
  <1>3. stage' \in [Procs -> Stages] /\ stage'[p] = s
        /\ \A q \in Procs \ {p} : stage'[q] = stage[q]
    BY <1>1 DEF TypeOK, Stages
  <1>4. UNCHANGED <<queue, writing, flow, client, service, waiting, letGo>>
    BY DEF BootFrame, queues, caches
  <1>5. TypeOK'
    BY <1>1, <1>2, <1>3, <1>4 DEF TypeOK, Stages
  <1>6. \A q \in Procs \ {p} : Same(q)
    BY <1>2, <1>3, <1>4 DEF Same
  <1>7. Idle(p)' /\ writing'[p] = <<>> /\ queue'[p] = <<>>
    <2>1. Unwritten(p) = {} /\ NoClients(p) /\ \A a \in Aliases : flow[p][a].step = "none"
      BY DEF Idle
    <2>2. queue[p] \in Seq(Mutations) /\ writing[p] \in Seq(Mutations)
      BY <1>1 DEF TypeOK
    <2>3. \A x \in Seq(Mutations) : x # <<>> => 1 \in 1..Len(x)
      OBVIOUS
    <2>4. queue[p] = <<>> /\ writing[p] = <<>>
      <3>1. \A i \in 1..Len(queue[p]) : queue[p][i] \in Unwritten(p)
        BY DEF Unwritten
      <3>2. \A i \in 1..Len(writing[p]) : writing[p][i] \in Unwritten(p)
        BY DEF Unwritten
      <3> QED  BY <2>1, <2>2, <2>3, <3>1, <3>2
    <2>5. Unwritten(p)' = Unwritten(p)
      BY <1>4 DEF Unwritten
    <2> QED  BY <1>4, <2>1, <2>4, <2>5 DEF NoClients, Idle
  <1>8. Own(p)'
    <2>1. Valid(mem[p])'
      BY <1>2 DEF Valid
    <2>2. Cold(p)' /\ Consenting(p)' /\ Applied(p)'
      BY <1>7 DEF Cold, Idle, Consenting, Applied
    <2> QED  BY <1>7, <2>1, <2>2 DEF Own, Idle
  <1>9. Oldest(p)'
    BY <1>2, <1>3, <1>7 DEF Oldest, Idle, BootKeeps
  <1>10. ASSUME NEW a \in Aliases PROVE Settled(p, a)'
    BY <1>2, <1>3, <1>7 DEF Settled, Idle, BootKeeps, Holds, HasRead, NoClients
  <1> QED  BY <1>5, <1>6, <1>8, <1>9, <1>10, StepOfOne DEF ProcInv, BootKeeps

\* The stage that a loaded process goes to.
LEMMA LoadedStage ==
    ASSUME TypeOK, NEW p \in Procs, NEW d \in Data, Loaded(p, d)
    PROVE  \E s \in {"consent", "up"} :
              /\ stage' = [stage EXCEPT ![p] = s]
              /\ s = "consent" <=> d.accounts = NoAccounts
              /\ mem' = [mem EXCEPT ![p] = d]
  BY DEF Loaded

LEMMA SameStore ==
    ASSUME TypeOK, NEW p \in Procs
    PROVE  mem = [mem EXCEPT ![p] = mem[p]]
  BY DEF TypeOK

LEMMA LoadKeeps ==
    ASSUME IInv, NEW p \in Procs, NEW readable \in BOOLEAN, Load(p, readable)
    PROVE  IInv'
  <1>1. /\ TypeOK /\ FileInv /\ ProcInv(p) /\ DefaultAlias \in Aliases
        /\ mem[p] \in Data /\ Valid(mem[p]) /\ file \in Files
    BY InvByProcess, ConstantsAssumption DEF ProcInv, Own, TypeOK
  <1>2. stage[p] = "down" /\ Idle(p) /\ BootFrame /\ UNCHANGED <<disk, word>>
        /\ granted' = granted /\ ops' = ops /\ faults' \in Nat
    BY <1>1, CountersTyped DEF Load, ProcInv, Own, Cold
  <1>3. FileInv' /\ (Due' => Due)
    BY <1>2, QuietFile DEF BootFrame
  <1>4. /\ file' = file /\ legacy' = legacy /\ backups' = backups /\ word' = word
        /\ file' \in Files /\ legacy' \in {0, legacy} /\ backups' \subseteq Grants
        /\ word' \in [Aliases -> Words]
    BY <1>1, <1>2 DEF disk, TypeOK
  <1>5. Due => \A q \in Procs : stage[q] \in {"up", "unlinking"} => file.accounts[DefaultAlias] = 1
    BY InvByProcess DEF ProcInv, Oldest
  <1>6. CASE ~readable \/ file.kind = "bad"
    <2>1. stage' = [stage EXCEPT ![p] = "quarantine"] /\ mem' = [mem EXCEPT ![p] = mem[p]]
      BY <1>1, <1>6, SameStore DEF Load, Moves
    <2>2. BootKeeps(p, mem[p], "quarantine")
      BY <1>3, <1>4, <1>5 DEF BootKeeps
    <2> QED  BY <1>1, <1>2, <1>4, <2>1, <2>2, BootStep DEF Stages, Booting
  <1>7. CASE readable /\ file.kind = "v2"
    <2> DEFINE d == AsData(file)
    <2>1. Loaded(p, d)
      BY <1>7 DEF Load
    <2>2. d \in Data /\ Valid(d) /\ d.accounts = file.accounts
      BY <1>1, HelperTypes DEF FileInv
    <2>3. PICK s \in {"consent", "up"} :
              /\ stage' = [stage EXCEPT ![p] = s]
              /\ mem' = [mem EXCEPT ![p] = d]
      BY <1>1, <2>1, <2>2, LoadedStage
    <2>4. BootKeeps(p, d, s)
      BY <1>1, <1>3, <1>4, <1>5, <1>7, <2>2 DEF BootKeeps, FileInv
    <2> QED  BY <1>1, <1>2, <1>4, <2>2, <2>3, <2>4, BootStep DEF Stages
  <1>8. CASE readable /\ file.kind = "v1"
    <2> DEFINE d == FromV1(file.accounts[DefaultAlias])
    <2>1. stage' = [stage EXCEPT ![p] = "renaming"] /\ mem' = [mem EXCEPT ![p] = d]
      BY <1>8 DEF Load, Moves
    <2>2. d \in Data /\ Valid(d) /\ d.accounts[DefaultAlias] = file.accounts[DefaultAlias]
      BY <1>1, <1>8, HelperTypes DEF FileInv, Files
    <2>3. BootKeeps(p, d, "renaming")
      BY <1>1, <1>3, <1>4, <1>5, <1>8, <2>2 DEF BootKeeps, FileInv
    <2> QED  BY <1>1, <1>2, <1>4, <2>1, <2>2, <2>3, BootStep DEF Stages, Booting
  <1>9. CASE readable /\ file.kind = "absent"
    <2>1. stage' = [stage EXCEPT ![p] = "legacy"] /\ mem' = [mem EXCEPT ![p] = mem[p]]
      BY <1>1, <1>9, SameStore DEF Load, Moves
    <2>2. BootKeeps(p, mem[p], "legacy")
      BY <1>1, <1>3, <1>4, <1>5, <1>9 DEF BootKeeps, FileInv
    <2> QED  BY <1>1, <1>2, <1>4, <2>1, <2>2, BootStep DEF Stages, Booting
  <1> QED  BY <1>1, <1>6, <1>7, <1>8, <1>9 DEF Files

\* When a file is moved aside, the accounts that stood are in the backup; only a
\* removal still stands, and no older file is there to be adopted.
LEMMA SetAsideKeeps ==
    ASSUME IInv, SetAside, letGo' = letGo
    PROVE  /\ FileInv' /\ file' \in Files /\ backups' \subseteq Grants /\ legacy' = legacy
           /\ word' \in [Aliases -> Words]
           /\ \A a \in Aliases : word'[a].state = "stands" =>
                  word[a].state = "stands" /\ word'[a] = word[a]
           /\ Due' => /\ Due /\ legacy = 1
                      /\ \A q \in Procs : stage[q] \notin {"up", "unlinking"}
  <1>1. TypeOK /\ FileInv /\ DefaultAlias \in Aliases
    BY InvByProcess, ConstantsAssumption
  <1>2. file' = Blank("absent") /\ file' \in Files /\ Valid(file') /\ file'.kind = "absent"
        /\ file'.accounts = NoAccounts /\ legacy' = legacy
    BY HelperTypes DEF SetAside
  <1>3. ASSUME NEW a \in Aliases
        PROVE  /\ word'[a] = Unfiled(word[a]) /\ word'[a] \in Words
               /\ word'[a].state = "stands" =>
                      word[a].state = "stands" /\ word'[a] = word[a] /\ word[a].grant = 0 /\ legacy = 0
               /\ word'[a].state = "aside" =>
                      word'[a].grant = word[a].grant
                        /\ (word[a].state = "aside" \/ (word[a].state = "stands" /\ word[a].grant # 0))
    <2>1. word[a] \in Words /\ word'[a] = Unfiled(word[a])
      BY <1>1 DEF TypeOK, SetAside
    <2> QED  BY <2>1, HelperTypes DEF Unfiled, Words
  <1>4. backups \subseteq backups' /\ GrantsIn(file.accounts) \subseteq backups'
        /\ backups' \subseteq Grants
    <2>1. file.accounts \in [Aliases -> Grants \cup {0}] /\ backups \subseteq Grants
      BY <1>1 DEF TypeOK, Files
    <2>2. GrantsIn(file.accounts) \subseteq Grants
      BY <2>1 DEF GrantsIn
    <2> QED  BY <2>1, <2>2 DEF SetAside
  <1>5. Due' => /\ Due /\ legacy = 1
                /\ file.accounts[DefaultAlias] # 1
    <2>1. file.accounts[DefaultAlias] = 1 => 1 \in GrantsIn(file.accounts)
      BY <1>1 DEF GrantsIn
    <2> QED  BY <1>1, <1>4, <2>1 DEF Due, FileInv
  <1>6. Due' => \A q \in Procs : stage[q] \notin {"up", "unlinking"}
    BY <1>5, InvByProcess DEF ProcInv, Oldest
  <1>7. \A a \in Aliases : word'[a].state = "aside" => word'[a].grant \in backups'
    BY <1>1, <1>3, <1>4 DEF FileInv, GrantsIn
  <1>8. \A a \in Aliases : word'[a].state = "stands" =>
           word'[a].grant = 0 /\ legacy = 0 /\ file'.accounts[a] = 0
    BY <1>2, <1>3 DEF NoAccounts
  <1>9. FileInv'
    BY <1>1, <1>2, <1>5, <1>7, <1>8 DEF FileInv
  <1>10. word' \in [Aliases -> Words]
    BY <1>3 DEF SetAside
  <1> QED  BY <1>2, <1>3, <1>4, <1>5, <1>6, <1>9, <1>10

\* A store that has what stands may be written over the file.
LEMMA RewriteKeeps ==
    ASSUME IInv, NEW d \in Data, Valid(d), file' = AsFile(d),
           UNCHANGED <<legacy, backups, letGo, word>>,
           \A a \in Aliases : word[a].state = "stands" => d.accounts[a] = word[a].grant,
           Due => d.accounts[DefaultAlias] = 1
    PROVE  /\ FileInv' /\ file' \in Files /\ backups' \subseteq Grants
           /\ word' \in [Aliases -> Words]
           /\ Due' => Due /\ file'.accounts[DefaultAlias] = 1
  <1>1. TypeOK /\ FileInv /\ DefaultAlias \in Aliases
    BY InvByProcess, ConstantsAssumption
  <1>2. file' \in Files /\ Valid(file') /\ file'.kind = "v2" /\ file'.accounts = d.accounts
    BY HelperTypes
  <1>4. Due' => Due
    BY DEF Due
  <1>5. FileInv'
    BY <1>1, <1>2, <1>4 DEF FileInv
  <1> QED  BY <1>1, <1>2, <1>4, <1>5 DEF TypeOK

LEMMA RenameKeeps ==
    ASSUME IInv, NEW p \in Procs, NEW ok \in BOOLEAN, RenameV1(p, ok)
    PROVE  IInv'
  <1>1. /\ TypeOK /\ FileInv /\ ProcInv(p)
        /\ mem[p] \in Data /\ Valid(mem[p]) /\ file \in Files
    BY InvByProcess DEF ProcInv, Own, TypeOK
  <1>2. stage[p] = "renaming" /\ Idle(p) /\ BootFrame /\ mem' = [mem EXCEPT ![p] = mem[p]]
        /\ stage' = [stage EXCEPT ![p] = "migrating"] /\ letGo' = letGo
        /\ granted' = granted /\ ops' = ops /\ faults' \in Nat
    <2>2. Succeeds(ok \/ file.kind = "absent")
      BY DEF RenameV1
    <2>3. granted' = granted /\ ops' = ops /\ faults' \in Nat
      BY <1>1, <2>2 DEF TypeOK, Succeeds, Fault, counters
    <2> QED  BY <1>1, <2>3, SameStore DEF RenameV1, Moves, BootFrame, ProcInv, Own, Cold, Booting
  <1>3. /\ Due => mem[p].accounts[DefaultAlias] = 1
        /\ \A a \in Aliases : word[a].state # "stands"
        /\ Due => \A q \in Procs : stage[q] \in {"up", "unlinking"} => file.accounts[DefaultAlias] = 1
    BY <1>1, <1>2, InvByProcess DEF ProcInv, Oldest, Settled
  <1>4. CASE ok
    <2>1. SetAside
      BY <1>4 DEF RenameV1
    <2>2. /\ FileInv' /\ file' \in Files /\ backups' \subseteq Grants /\ legacy' = legacy
          /\ word' \in [Aliases -> Words] /\ \A a \in Aliases : word'[a].state # "stands"
          /\ Due' => Due /\ \A q \in Procs : stage[q] \notin {"up", "unlinking"}
      BY <1>2, <1>3, <2>1, SetAsideKeeps
    <2>3. BootKeeps(p, mem[p], "migrating")
      BY <1>3, <2>2 DEF BootKeeps
    <2> QED  BY <1>1, <1>2, <2>2, <2>3, BootStep DEF Stages, Booting
  <1>5. CASE ~ok
    <2>1. UNCHANGED <<disk, word>>
      BY <1>5 DEF RenameV1, Kept
    <2>2. FileInv' /\ (Due' => Due)
      BY <1>2, <2>1, QuietFile
    <2>3. BootKeeps(p, mem[p], "migrating")
      BY <1>3, <2>1, <2>2 DEF BootKeeps, disk
    <2> QED  BY <1>1, <1>2, <2>1, <2>3, BootStep DEF Stages, Booting, disk, TypeOK
  <1> QED  BY <1>4, <1>5

LEMMA WriteMigratedKeeps ==
    ASSUME IInv, NEW p \in Procs, NEW ok \in BOOLEAN, WriteMigrated(p, ok)
    PROVE  IInv'
  <1>1. /\ TypeOK /\ FileInv /\ ProcInv(p) /\ DefaultAlias \in Aliases
        /\ mem[p] \in Data /\ Valid(mem[p]) /\ file \in Files
    BY InvByProcess, ConstantsAssumption DEF ProcInv, Own, TypeOK
  <1>2. stage[p] = "migrating" /\ Idle(p) /\ BootFrame /\ UNCHANGED <<legacy, backups, letGo>>
        /\ granted' = granted /\ ops' = ops /\ faults' \in Nat
    BY <1>1, CountersTyped DEF WriteMigrated, BootFrame, ProcInv, Own, Cold, Booting
  <1>3. /\ Due => mem[p].accounts[DefaultAlias] = 1
        /\ \A a \in Aliases : word[a].state # "stands"
        /\ Due => \A q \in Procs : stage[q] \in {"up", "unlinking"} => file.accounts[DefaultAlias] = 1
    BY <1>1, <1>2, InvByProcess DEF ProcInv, Oldest, Settled
  <1>4. CASE ok
    <2>1. /\ file' = AsFile(mem[p]) /\ Loaded(p, mem[p]) /\ word' = word
      BY <1>4 DEF WriteMigrated
    <2>2. /\ FileInv' /\ file' \in Files /\ backups' \subseteq Grants
          /\ word' \in [Aliases -> Words]
          /\ Due' => Due /\ file'.accounts[DefaultAlias] = 1
      BY <1>1, <1>2, <1>3, <2>1, RewriteKeeps
    <2>3. PICK s \in {"consent", "up"} :
              /\ stage' = [stage EXCEPT ![p] = s]
              /\ mem' = [mem EXCEPT ![p] = mem[p]]
      BY <1>1, <2>1, LoadedStage
    <2>4. BootKeeps(p, mem[p], s)
      BY <1>3, <2>1, <2>2 DEF BootKeeps
    <2> QED  BY <1>1, <1>2, <2>2, <2>3, <2>4, BootStep DEF Stages, Booting
  <1>5. CASE ~ok
    <2>1. UNCHANGED <<disk, word>> /\ stage' = [stage EXCEPT ![p] = "quarantine"]
          /\ mem' = [mem EXCEPT ![p] = mem[p]]
      BY <1>1, <1>2, <1>5, SameStore DEF WriteMigrated, Moves, disk
    <2>2. FileInv' /\ (Due' => Due)
      BY <1>2, <2>1, QuietFile
    <2>3. BootKeeps(p, mem[p], "quarantine")
      BY <1>3, <2>1, <2>2 DEF BootKeeps, disk
    <2> QED  BY <1>1, <1>2, <2>1, <2>3, BootStep DEF Stages, Booting, disk, TypeOK
  <1> QED  BY <1>4, <1>5

LEMMA ReadLegacyKeeps ==
    ASSUME IInv, NEW p \in Procs, ReadLegacy(p)
    PROVE  IInv'
  <1>1. /\ TypeOK /\ FileInv /\ ProcInv(p)
        /\ stage[p] = "legacy" /\ Idle(p) /\ BootFrame /\ UNCHANGED <<disk, counters, word, letGo>>
    BY InvByProcess DEF ProcInv, Own, Cold, Booting, ReadLegacy, BootFrame
  <1>2. /\ granted' = granted /\ ops' = ops /\ faults' \in Nat
        /\ file' = file /\ legacy' = legacy /\ file' \in Files /\ backups' \subseteq Grants
        /\ word' = word /\ word' \in [Aliases -> Words]
    BY <1>1 DEF counters, disk, TypeOK
  <1>3. FileInv' /\ (Due' => Due)
    BY <1>1, QuietFile
  <1>4. /\ \A a \in Aliases : word[a].state = "stands" => word[a].grant = 0 /\ legacy = 0
        /\ Due => \A q \in Procs : stage[q] \in {"up", "unlinking"} => file.accounts[DefaultAlias] = 1
    BY <1>1, InvByProcess DEF ProcInv, Oldest, Settled
  <1>5. CASE legacy = 0
    <2>1. PICK s \in {"consent", "up"} :
              /\ stage' = [stage EXCEPT ![p] = s]
              /\ s = "consent" <=> Empty.accounts = NoAccounts
              /\ mem' = [mem EXCEPT ![p] = Empty]
      BY <1>1, <1>5, LoadedStage, HelperTypes DEF ReadLegacy
    <2>2. s = "consent" /\ Empty \in Data /\ Valid(Empty)
      BY <2>1, HelperTypes DEF Empty
    <2>3. BootKeeps(p, Empty, s)
      BY <1>2, <1>3, <1>4, <2>2 DEF BootKeeps
    <2> QED  BY <1>1, <1>2, <2>1, <2>2, <2>3, BootStep DEF Stages
  <1>6. CASE legacy # 0
    <2> DEFINE d == FromV1(legacy)
    <2>1. mem' = [mem EXCEPT ![p] = d] /\ stage' = [stage EXCEPT ![p] = "adopting"]
      BY <1>6 DEF ReadLegacy, Moves
    <2>2. legacy \in Grants /\ legacy = 1
      BY <1>1, <1>6 DEF TypeOK, FileInv
    <2>3. d \in Data /\ Valid(d) /\ d.accounts[DefaultAlias] = 1
      BY <2>2, HelperTypes
    <2>4. BootKeeps(p, d, "adopting")
      BY <1>2, <1>3, <1>4, <1>6, <2>3 DEF BootKeeps
    <2> QED  BY <1>1, <1>2, <2>1, <2>3, <2>4, BootStep DEF Stages, Booting
  <1> QED  BY <1>5, <1>6

LEMMA WriteAdoptedKeeps ==
    ASSUME IInv, NEW p \in Procs, NEW ok \in BOOLEAN, WriteAdopted(p, ok)
    PROVE  IInv'
  <1>1. /\ TypeOK /\ FileInv /\ ProcInv(p) /\ DefaultAlias \in Aliases
        /\ mem[p] \in Data /\ Valid(mem[p]) /\ file \in Files
    BY InvByProcess, ConstantsAssumption DEF ProcInv, Own, TypeOK
  <1>2. stage[p] = "adopting" /\ Idle(p) /\ BootFrame /\ UNCHANGED <<legacy, backups, letGo>>
        /\ granted' = granted /\ ops' = ops /\ faults' \in Nat
    BY <1>1, CountersTyped DEF WriteAdopted, BootFrame, ProcInv, Own, Cold, Booting
  <1>3. /\ Due => mem[p].accounts[DefaultAlias] = 1
        /\ \A a \in Aliases : word[a].state # "stands"
        /\ Due => \A q \in Procs : stage[q] \in {"up", "unlinking"} => file.accounts[DefaultAlias] = 1
    BY <1>1, <1>2, InvByProcess DEF ProcInv, Oldest, Settled
  <1>4. CASE ok
    <2>1. /\ file' = AsFile(mem[p]) /\ stage' = [stage EXCEPT ![p] = "unlinking"]
          /\ word' = word /\ mem' = [mem EXCEPT ![p] = mem[p]]
      BY <1>1, <1>4, SameStore DEF WriteAdopted, Moves
    <2>2. /\ FileInv' /\ file' \in Files /\ backups' \subseteq Grants
          /\ word' \in [Aliases -> Words]
          /\ Due' => Due /\ file'.accounts[DefaultAlias] = 1
      BY <1>1, <1>2, <1>3, <2>1, RewriteKeeps
    <2>3. BootKeeps(p, mem[p], "unlinking")
      BY <1>3, <2>1, <2>2 DEF BootKeeps
    <2> QED  BY <1>1, <1>2, <2>1, <2>2, <2>3, BootStep DEF Stages, Booting
  <1>5. CASE ~ok
    <2>1. UNCHANGED <<disk, word>> /\ Loaded(p, Empty)
      BY <1>2, <1>5 DEF WriteAdopted, disk
    <2>2. FileInv' /\ (Due' => Due)
      BY <1>2, <2>1, QuietFile
    <2>3. PICK s \in {"consent", "up"} :
              /\ stage' = [stage EXCEPT ![p] = s]
              /\ s = "consent" <=> Empty.accounts = NoAccounts
              /\ mem' = [mem EXCEPT ![p] = Empty]
      BY <1>1, <2>1, LoadedStage, HelperTypes
    <2>4. s = "consent" /\ Empty \in Data /\ Valid(Empty)
      BY <2>3, HelperTypes DEF Empty
    <2>5. BootKeeps(p, Empty, s)
      BY <1>3, <2>1, <2>2, <2>4 DEF BootKeeps, disk
    <2> QED  BY <1>1, <1>2, <2>1, <2>3, <2>4, <2>5, BootStep DEF Stages, disk, TypeOK
  <1> QED  BY <1>4, <1>5

LEMMA UnlinkLegacyKeeps ==
    ASSUME IInv, NEW p \in Procs, NEW ok \in BOOLEAN, UnlinkLegacy(p, ok)
    PROVE  IInv'
  <1>1. /\ TypeOK /\ FileInv /\ ProcInv(p)
        /\ mem[p] \in Data /\ Valid(mem[p]) /\ file \in Files
    BY InvByProcess DEF ProcInv, Own, TypeOK
  <1>2. /\ stage[p] = "unlinking" /\ Idle(p) /\ BootFrame /\ Loaded(p, mem[p])
        /\ UNCHANGED <<file, backups, word, letGo>> /\ legacy' \in {0, legacy}
        /\ granted' = granted /\ ops' = ops /\ faults' \in Nat
    BY <1>1, CountersTyped DEF UnlinkLegacy, BootFrame, ProcInv, Own, Cold, Booting
  <1>3. /\ Due => mem[p].accounts[DefaultAlias] = 1 /\ file.accounts[DefaultAlias] = 1
        /\ \A a \in Aliases : word[a].state # "stands"
        /\ Due => \A q \in Procs : stage[q] \in {"up", "unlinking"} => file.accounts[DefaultAlias] = 1
    BY <1>1, <1>2, InvByProcess DEF ProcInv, Oldest, Settled, Holds
  <1>4. Due' => Due
    BY <1>2 DEF Due
  <1>5. FileInv'
    BY <1>1, <1>2, <1>3, <1>4 DEF FileInv, Valid
  <1>6. PICK s \in {"consent", "up"} :
            /\ stage' = [stage EXCEPT ![p] = s]
            /\ mem' = [mem EXCEPT ![p] = mem[p]]
    BY <1>1, <1>2, LoadedStage
  <1>7. BootKeeps(p, mem[p], s)
    BY <1>2, <1>3, <1>4, <1>5 DEF BootKeeps
  <1> QED  BY <1>1, <1>2, <1>6, <1>7, BootStep DEF Stages, TypeOK

LEMMA QuarantineKeeps ==
    ASSUME IInv, NEW p \in Procs, NEW ok \in BOOLEAN, Quarantine(p, ok)
    PROVE  IInv'
  <1>1. /\ TypeOK /\ FileInv /\ ProcInv(p)
        /\ stage[p] = "quarantine" /\ Idle(p) /\ BootFrame /\ letGo' = letGo
        /\ granted' = granted /\ ops' = ops /\ faults' \in Nat
    BY InvByProcess, CountersTyped DEF Quarantine, BootFrame, ProcInv, Own, Cold, Booting
  <1>2. PICK s \in {"consent", "up"} :
            /\ stage' = [stage EXCEPT ![p] = s]
            /\ s = "consent" <=> Empty.accounts = NoAccounts
            /\ mem' = [mem EXCEPT ![p] = Empty]
    BY <1>1, LoadedStage, HelperTypes DEF Quarantine
  <1>3. s = "consent" /\ Empty \in Data /\ Valid(Empty)
    BY <1>2, HelperTypes DEF Empty
  <1>4. Due => \A q \in Procs : stage[q] \in {"up", "unlinking"} => file.accounts[DefaultAlias] = 1
    BY InvByProcess DEF ProcInv, Oldest
  <1>5. CASE ok
    <2>1. /\ FileInv' /\ file' \in Files /\ backups' \subseteq Grants /\ legacy' = legacy
          /\ word' \in [Aliases -> Words]
          /\ \A a \in Aliases : word'[a].state = "stands" =>
                 word[a].state = "stands" /\ word'[a] = word[a]
          /\ Due' => Due /\ \A q \in Procs : stage[q] \notin {"up", "unlinking"}
      BY <1>1, <1>5, SetAsideKeeps DEF Quarantine
    <2>2. BootKeeps(p, Empty, s)
      BY <1>3, <2>1 DEF BootKeeps
    <2> QED  BY <1>1, <1>2, <1>3, <2>1, <2>2, BootStep DEF Stages
  <1>6. CASE ~ok
    <2>1. UNCHANGED <<disk, word>>
      BY <1>6 DEF Quarantine, Kept
    <2>2. FileInv' /\ (Due' => Due)
      BY <1>1, <2>1, QuietFile
    <2>3. BootKeeps(p, Empty, s)
      BY <1>3, <1>4, <2>1, <2>2 DEF BootKeeps, disk
    <2> QED  BY <1>1, <1>2, <1>3, <2>1, <2>3, BootStep DEF Stages, disk, TypeOK
  <1> QED  BY <1>5, <1>6

LEMMA ConsentUnavailableKeeps ==
    ASSUME IInv, NEW p \in Procs, ConsentUnavailable(p)
    PROVE  IInv'
  <1>1. /\ TypeOK /\ FileInv /\ ProcInv(p) /\ DefaultAlias \in Aliases
        /\ stage[p] = "consent" /\ BootFrame /\ UNCHANGED <<disk, word, letGo>>
        /\ flow[p][DefaultAlias].step = "none"
        /\ stage' = [stage EXCEPT ![p] = "down"] /\ mem' = [mem EXCEPT ![p] = Empty]
    BY InvByProcess, ConstantsAssumption DEF ConsentUnavailable, BootFrame, Moves
  <1>2. granted' = granted /\ ops' = ops /\ faults' \in Nat
    BY <1>1 DEF ConsentUnavailable, Fault, TypeOK
  <1>3. Idle(p)
    BY <1>1 DEF ProcInv, Own, Consenting, Idle
  <1>4. FileInv' /\ (Due' => Due)
    BY <1>1, QuietFile
  <1>5. Due => \A q \in Procs : stage[q] \in {"up", "unlinking"} => file.accounts[DefaultAlias] = 1
    BY InvByProcess DEF ProcInv, Oldest
  <1>6. BootKeeps(p, Empty, "down")
    BY <1>1, <1>4, <1>5 DEF BootKeeps, disk
  <1> QED  BY <1>1, <1>2, <1>3, <1>6, BootStep, HelperTypes DEF Stages, disk, TypeOK

----------------------------------------------------------------------------
(* Requests and clients *)

\* A step that leaves the stores alone, and queues the mutations of new.
Queues(p, new) ==
    /\ Unwritten(p)' = Unwritten(p) \cup new /\ \A m \in new : Whole(m)
    /\ Cold(p)' /\ Consenting(p)'
    /\ letGo => letGo'
    /\ \A a \in Aliases : word'[a] = word[a] \/ word'[a].state = "none"
    /\ \A a \in Aliases : word'[a].state = "stands" =>
         /\ word[a].state = "stands" /\ word'[a] = word[a]
         /\ \A m \in new : Leaves(m, a, word[a].grant)
         /\ HasRead(p) => Holds(p, a, word[a].grant)'
    /\ Due' =>
         /\ stage[p] = "consent" => new = {}
         /\ \A m \in new : Leaves(m, DefaultAlias, 1)

LEMMA QueueingStep ==
    ASSUME IInv, NEW p \in Procs, UNCHANGED <<disk, mem, stage, writing>>, TypeOK',
           \A q \in Procs \ {p} : Same(q), NEW new, Queues(p, new)
    PROVE  IInv'
  <1>1. ProcInv(p) /\ \A q \in Procs : ProcInv(q)
    BY InvByProcess
  <1>2. FileInv' /\ (Due' => Due)
    BY QuietFile DEF Queues
  <1>3. Own(p)'
    BY <1>1 DEF ProcInv, Own, Valid, Applied, Queues
  <1>4. Oldest(p)'
    BY <1>1, <1>2 DEF ProcInv, Oldest, disk, Queues
  <1>5. ASSUME NEW a \in Aliases PROVE Settled(p, a)'
    BY <1>1 DEF ProcInv, Settled, Queues, HasRead, disk
  <1>6. Due' => Due /\ \A q \in Procs \ {p} :
                       stage[q] \in {"up", "unlinking"} => file'.accounts[DefaultAlias] = 1
    BY <1>1, <1>2 DEF ProcInv, Oldest, disk
  <1> QED  BY <1>2, <1>3, <1>4, <1>5, <1>6, StepOfOne DEF ProcInv, Queues, disk

\* A process holds what it held when neither its store nor its clients change.
LEMMA HoldsStill ==
    ASSUME IInv, NEW p \in Procs, UNCHANGED <<mem, caches>>, NEW a \in Aliases,
           word[a].state = "stands", word'[a] = word[a]
    PROVE  HasRead(p) => Holds(p, a, word[a].grant)'
  BY InvByProcess DEF ProcInv, Settled, Holds, HasRead, caches

LEMMA FlowOpens ==
    ASSUME IInv, NEW p \in Procs, NEW a \in Aliases, NEW f \in Flows,
           stage[p] = "up" \/ (stage[p] = "consent" /\ a = DefaultAlias),
           flow[p][a].step = "none", f.step = "open",
           flow' = [flow EXCEPT ![p][a] = f],
           UNCHANGED <<disk, mem, stage, queues, caches, history, granted, faults>>, ops' \in Nat
    PROVE  IInv'
  <1>1. TypeOK /\ ProcInv(p) /\ DefaultAlias \in Aliases
    BY InvByProcess, ConstantsAssumption
  <1>2. TypeOK'
    BY <1>1 DEF TypeOK, disk, queues, caches, history
  <1>3. \A q \in Procs \ {p} : Same(q)
    BY <1>1 DEF Same, TypeOK, queues, caches
  <1>4. Unwritten(p)' = Unwritten(p) \cup {}
    BY SameUnwritten
  <1>5. Cold(p)'
    BY DEF Cold, Booting
  <1>6. Consenting(p)'
    <2>1. /\ flow'[p][a] = f
          /\ \A b \in Aliases \ {a} : flow'[p][b] = flow[p][b]
      BY <1>1 DEF TypeOK
    <2>2. CASE stage[p] = "consent"
      BY <1>1, <1>4, <2>1, <2>2 DEF ProcInv, Own, Consenting, NoClients, queues, caches
    <2> QED  BY <2>2 DEF Consenting
  <1>7. \A b \in Aliases : word'[b].state = "stands" =>
           /\ word[b].state = "stands" /\ word'[b] = word[b]
           /\ HasRead(p) => Holds(p, b, word[b].grant)'
    BY HoldsStill DEF history
  <1>8. Queues(p, {})
    BY <1>4, <1>5, <1>6, <1>7 DEF Queues, history
  <1>9. UNCHANGED <<disk, mem, stage, writing>>
    BY DEF queues
  <1> QED  BY <1>2, <1>3, <1>8, <1>9, QueueingStep

LEMMA AddAccountKeeps ==
    ASSUME IInv, NEW p \in Procs, NEW a \in Aliases, AddAccount(p, a)
    PROVE  IInv'
  <1>1. [step |-> "open", existing |-> mem[p].accounts[a], grant |-> 0] \in Flows
    BY InvByProcess DEF TypeOK, Data, Flows
  <1>2. stage[p] = "up" /\ flow[p][a].step = "none" /\ ops' \in Nat
        /\ UNCHANGED <<disk, mem, stage, queues, caches, history, granted, faults>>
    BY InvByProcess DEF AddAccount, Op, TypeOK
  <1> QED  BY <1>1, <1>2, FlowOpens DEF AddAccount

LEMMA FirstConsentKeeps ==
    ASSUME IInv, NEW p \in Procs, FirstConsent(p)
    PROVE  IInv'
  <1> DEFINE f == [flow[p][DefaultAlias] EXCEPT !.step = "open"]
  <1>1. TypeOK /\ DefaultAlias \in Aliases
    BY InvByProcess, ConstantsAssumption
  <1>2. f \in Flows /\ f.step = "open"
    <2>1. \A o \in Flows : [o EXCEPT !.step = "open"] \in Flows
                           /\ [o EXCEPT !.step = "open"].step = "open"
      BY DEF Flows
    <2> QED  BY <1>1, <2>1 DEF TypeOK
  <1>3. flow' = [flow EXCEPT ![p][DefaultAlias] = f]
    BY <1>1 DEF FirstConsent, TypeOK
  <1>4. stage[p] = "consent" /\ flow[p][DefaultAlias].step = "none" /\ ops' \in Nat
        /\ UNCHANGED <<disk, mem, stage, queues, caches, history, granted, faults>>
    BY <1>1 DEF FirstConsent, counters, TypeOK
  <1> HIDE DEF f
  <1> QED  BY <1>1, <1>2, <1>3, <1>4, FlowOpens

LEMMA ConsentedKeeps ==
    ASSUME IInv, NEW p \in Procs, NEW a \in Aliases, NEW offline \in BOOLEAN,
           Consented(p, a, offline)
    PROVE  IInv'
  <1> DEFINE g == IF offline THEN granted' ELSE flow[p][a].existing
             m == Mutation("upsert", a, g, "flow")
             f == [step |-> "saving", existing |-> flow[p][a].existing, grant |-> g]
  <1>1. /\ TypeOK /\ ProcInv(p) /\ DefaultAlias \in Aliases
        /\ MaxGrants \in Nat
    BY InvByProcess, ConstantsAssumption
  <1>2. granted' \in Grants /\ g \in Grants
    BY <1>1 DEF Consented, TypeOK, Grants, Flows
  <1>3. m \in Mutations /\ Whole(m) /\ f \in Flows
    BY <1>1, <1>2 DEF Mutation, Mutations, Whole, Flows, TypeOK, Grants
  <1>4. Enqueue(p, m) /\ flow' = [flow EXCEPT ![p][a] = f] /\ Asked(a)
        /\ UNCHANGED <<disk, mem, stage, writing, caches, ops, faults>>
    BY DEF Consented
  <1> HIDE DEF m, f
  <1>5. /\ queue' \in [Procs -> Seq(Mutations)]
        /\ Len(queue'[p]) = Len(queue[p]) + 1
        /\ Unwritten(p)' = Unwritten(p) \cup {m}
        /\ \A q \in Procs \ {p} : queue'[q] = queue[q]
    BY <1>1, <1>3, <1>4, EnqueueUnwritten DEF TypeOK
  <1>6. letGo' = (letGo \/ a = DefaultAlias) /\ word' = [word EXCEPT ![a] = NoWord]
    BY <1>4 DEF Asked
  <1>7. TypeOK'
    <2>1. word' \in [Aliases -> Words]
      BY <1>1, <1>6, HelperTypes DEF TypeOK
    <2> QED  BY <1>1, <1>2, <1>3, <1>4, <1>5, <1>6, <2>1 DEF TypeOK, disk, caches
  <1>8. \A q \in Procs \ {p} : Same(q)
    BY <1>1, <1>4, <1>5 DEF Same, TypeOK, caches
  <1>9. flow[p][a].step = "open"
    BY DEF Consented
  <1>10. Cold(p)'
    <2>1. stage[p] \notin Booting \cup {"down"}
      BY <1>1, <1>9 DEF ProcInv, Own, Cold, Idle
    <2> QED  BY <1>4, <2>1 DEF Cold
  <1>11. Consenting(p)'
    <2> SUFFICES ASSUME stage[p] = "consent" PROVE Consenting(p)'
      BY <1>4 DEF Consenting
    <2>1. a = DefaultAlias /\ Unwritten(p) = {} /\ NoClients(p)
          /\ \A b \in Aliases \ {DefaultAlias} : flow[p][b].step = "none"
      BY <1>1, <1>9 DEF ProcInv, Own, Consenting
    <2>2. Len(queue[p]) = 0 /\ Len(writing[p]) = 0
      <3>1. queue[p] \in Seq(Mutations) /\ writing[p] \in Seq(Mutations)
        BY <1>1 DEF TypeOK
      <3>2. (\A i \in 1..Len(queue[p]) : queue[p][i] \in Unwritten(p))
            /\ \A i \in 1..Len(writing[p]) : writing[p][i] \in Unwritten(p)
        BY DEF Unwritten
      <3>3. Unwritten(p) = {}
        BY <2>1
      <3>4. (\A i \in 1..Len(queue[p]) : FALSE) /\ (\A i \in 1..Len(writing[p]) : FALSE)
        BY Zenon, <3>2, <3>3
      <3>5. Len(queue[p]) \in Nat /\ Len(writing[p]) \in Nat
        BY <3>1
      <3>6. \A n \in Nat : (\A i \in 1..n : FALSE) => n = 0
        OBVIOUS
      <3> QED  BY Zenon, <3>4, <3>5, <3>6
    <2>3. /\ flow'[p][DefaultAlias] = f
          /\ \A b \in Aliases \ {DefaultAlias} : flow'[p][b] = flow[p][b]
      BY <1>1, <1>4, <2>1 DEF TypeOK
    <2>4. f.step = "saving" /\ m.by = "flow" /\ m.alias = DefaultAlias
      BY <2>1 DEF f, m, Mutation
    <2>5. NoClients(p)'
      BY <1>4, <2>1 DEF NoClients, caches
    <2> QED  BY <1>4, <1>5, <2>1, <2>2, <2>3, <2>4, <2>5 DEF Consenting
  <1>15. \A b \in Aliases :
            /\ word'[b].state = "stands" => b # a /\ word[b].state = "stands" /\ word'[b] = word[b]
            /\ word'[b] = word[b] \/ word'[b].state = "none"
    BY <1>1, <1>6, HelperTypes DEF TypeOK
  <1>12. \A b \in Aliases : word'[b].state = "stands" =>
           /\ word[b].state = "stands" /\ word'[b] = word[b]
           /\ Leaves(m, b, word[b].grant)
           /\ HasRead(p) => Holds(p, b, word[b].grant)'
    <2>1. \A b \in Aliases : word'[b].state = "stands" => b # a /\ word[b].state = "stands" /\ word'[b] = word[b]
      BY <1>15
    <2>2. m.alias = a
      BY DEF m, Mutation
    <2> QED  BY <1>4, <2>1, <2>2, HoldsStill DEF Leaves
  <1>13. Due' => stage[p] # "consent" /\ Leaves(m, DefaultAlias, 1)
    <2>1. Due' => a # DefaultAlias
      BY <1>6 DEF Due
    <2>2. stage[p] = "consent" => a = DefaultAlias
      BY <1>1, <1>9 DEF ProcInv, Own, Consenting
    <2>3. m.alias = a
      BY DEF m, Mutation
    <2> QED  BY <2>1, <2>2, <2>3 DEF Leaves
  <1>14. Queues(p, {m})
    BY <1>3, <1>5, <1>6, <1>10, <1>11, <1>12, <1>13, <1>15 DEF Queues
  <1> QED  BY <1>4, <1>7, <1>8, <1>14, QueueingStep

\* A process that serves is neither cold nor on the consent page.
LEMMA UpIsUp ==
    ASSUME NEW p \in Procs, stage'[p] = "up"
    PROVE  Cold(p)' /\ Consenting(p)'
  BY DEF Cold, Consenting, Booting

\* Only a process that serves has clients.
LEMMA ClientsAreServed ==
    ASSUME IInv, NEW p \in Procs, ~NoClients(p)
    PROVE  stage[p] = "up"
  BY InvByProcess DEF ProcInv, Own, Cold, Idle, Consenting, TypeOK

LEMMA RemoveAccountKeeps ==
    ASSUME IInv, NEW p \in Procs, NEW a \in Aliases, RemoveAccount(p, a)
    PROVE  IInv'
  <1> DEFINE m == Mutation("remove", a, 0, "user")
  <1>1. TypeOK /\ ProcInv(p)
    BY InvByProcess
  <1>2. m \in Mutations /\ Whole(m) /\ m.alias = a
    BY DEF Mutation, Mutations, Whole
  <1>3. Enqueue(p, m) /\ Asked(a) /\ stage[p] = "up" /\ ops' \in Nat
        /\ UNCHANGED <<disk, mem, stage, writing, flow, caches, granted, faults>>
    BY <1>1 DEF RemoveAccount, Op, TypeOK
  <1> HIDE DEF m
  <1>4. /\ queue' \in [Procs -> Seq(Mutations)]
        /\ Unwritten(p)' = Unwritten(p) \cup {m}
        /\ \A q \in Procs \ {p} : queue'[q] = queue[q]
    BY <1>1, <1>2, <1>3, EnqueueUnwritten DEF TypeOK
  <1>5. letGo' = (letGo \/ a = DefaultAlias) /\ word' = [word EXCEPT ![a] = NoWord]
    BY <1>3 DEF Asked
  <1>6. TypeOK'
    <2>1. word' \in [Aliases -> Words]
      BY <1>1, <1>5, HelperTypes DEF TypeOK
    <2> QED  BY <1>1, <1>3, <1>4, <1>5, <2>1 DEF TypeOK, disk, caches
  <1>7. \A q \in Procs \ {p} : Same(q)
    BY <1>3, <1>4 DEF Same, caches
  <1>8. \A b \in Aliases : word'[b].state = "stands" =>
           /\ b # a /\ word[b].state = "stands" /\ word'[b] = word[b]
           /\ HasRead(p) => Holds(p, b, word[b].grant)'
    <2>1. \A b \in Aliases : word'[b].state = "stands" => b # a /\ word[b].state = "stands" /\ word'[b] = word[b]
      BY <1>1, <1>5, HelperTypes DEF TypeOK
    <2> QED  BY <1>3, <2>1, HoldsStill
  <1>9. Queues(p, {m})
    <2>1. \A b \in Aliases : word'[b] = word[b] \/ word'[b].state = "none"
      BY <1>1, <1>5, HelperTypes DEF TypeOK
    <2> QED  BY <1>2, <1>3, <1>4, <1>5, <1>8, <2>1, UpIsUp DEF Queues, Leaves, Due
  <1> QED  BY <1>3, <1>6, <1>7, <1>9, QueueingStep

LEMMA SetDefaultAccountKeeps ==
    ASSUME IInv, NEW p \in Procs, NEW a \in Aliases \cup {None}, SetDefaultAccount(p, a)
    PROVE  IInv'
  <1> DEFINE m == Mutation("setDefault", a, 0, "user")
  <1>1. TypeOK /\ ProcInv(p)
    BY InvByProcess
  <1>2. m \in Mutations /\ m.op = "setDefault"
    BY DEF Mutation, Mutations
  <1>3. Enqueue(p, m) /\ stage[p] = "up" /\ ops' \in Nat
        /\ UNCHANGED <<disk, mem, stage, writing, flow, caches, history, granted, faults>>
    BY <1>1 DEF SetDefaultAccount, Op, TypeOK
  <1> HIDE DEF m
  <1>4. /\ queue' \in [Procs -> Seq(Mutations)]
        /\ Unwritten(p)' = Unwritten(p) \cup {m}
        /\ \A q \in Procs \ {p} : queue'[q] = queue[q]
    BY <1>1, <1>2, <1>3, EnqueueUnwritten DEF TypeOK
  <1>5. TypeOK'
    BY <1>1, <1>3, <1>4 DEF TypeOK, disk, caches, history
  <1>6. \A q \in Procs \ {p} : Same(q)
    BY <1>3, <1>4 DEF Same, caches
  <1>7. \A b \in Aliases : word'[b].state = "stands" =>
           /\ word[b].state = "stands" /\ word'[b] = word[b]
           /\ HasRead(p) => Holds(p, b, word[b].grant)'
    BY <1>3, HoldsStill DEF history
  <1>8. Queues(p, {m})
    BY <1>2, <1>3, <1>4, <1>7, UpIsUp DEF Queues, Leaves, Whole, history
  <1> QED  BY <1>3, <1>5, <1>6, <1>8, QueueingStep

\* Mutations that settle nothing anew and take no grant away.
Rewrites(p, new) ==
    /\ Unwritten(p)' = Unwritten(p) \cup new /\ \A m \in new : Whole(m)
    /\ queue' \in [Procs -> Seq(Mutations)]
    /\ \A q \in Procs \ {p} : queue'[q] = queue[q]
    /\ \A b \in Aliases : word[b].state = "stands" => \A m \in new : Leaves(m, b, word[b].grant)
    /\ Due => \A m \in new : Leaves(m, DefaultAlias, 1)

\* The record that a refresh queues is the one in the maps; writing it again
\* settles nothing and takes no grant away.
LEMMA PersistQueues ==
    ASSUME IInv, NEW p \in Procs, NEW a \in Aliases, stage[p] = "up",
           PersistRefreshed(p, a), writing' = writing
    PROVE  \E new : Rewrites(p, new)
  <1> DEFINE m == Mutation("upsert", a, mem[p].accounts[a], "refresh")
  <1>1. TypeOK /\ ProcInv(p)
    BY InvByProcess
  <1>2. CASE mem[p].accounts[a] = 0
    <2>1. UNCHANGED queues
      BY <1>2 DEF PersistRefreshed, queues
    <2>2. Unwritten(p)' = Unwritten(p) \cup {}
      BY <2>1, SameUnwritten
    <2>3. Rewrites(p, {})
      BY <1>1, <2>1, <2>2 DEF queues, TypeOK, Rewrites
    <2> QED  BY <2>3
  <1>3. CASE mem[p].accounts[a] # 0
    <2>1. mem[p].accounts[a] \in Grants \cup {0}
      BY <1>1 DEF TypeOK, Data
    <2>2. m \in Mutations /\ Whole(m)
      BY <1>3, <2>1 DEF Mutation, Mutations, Whole
    <2>3. Enqueue(p, m)
      BY <1>3 DEF PersistRefreshed
    <2>4. m.alias = a /\ m.by = "refresh" /\ m.grant = mem[p].accounts[a]
      BY DEF Mutation
    <2> HIDE DEF m
    <2>5. /\ queue' \in [Procs -> Seq(Mutations)]
          /\ Unwritten(p)' = Unwritten(p) \cup {m}
          /\ \A q \in Procs \ {p} : queue'[q] = queue[q]
      BY <1>1, <2>2, <2>3, EnqueueUnwritten DEF TypeOK
    <2>6. \A b \in Aliases : word[b].state = "stands" => Leaves(m, b, word[b].grant)
      BY <1>1, <2>4 DEF ProcInv, Settled, Holds, HasRead, Leaves
    <2>7. Due => Leaves(m, DefaultAlias, 1)
      <3>1. Due => mem[p].accounts[DefaultAlias] = 1
        BY <1>1 DEF ProcInv, Oldest
      <3> QED  BY <2>4, <3>1 DEF Leaves
    <2>8. Rewrites(p, {m})
      BY <2>2, <2>5, <2>6, <2>7 DEF Rewrites
    <2> QED  BY <2>8
  <1> QED  BY <1>2, <1>3

\* A step of the clients of a process that serves.
LEMMA ClientStep ==
    ASSUME IInv, NEW p \in Procs, NEW a \in Aliases, stage[p] = "up",
           UNCHANGED <<disk, mem, stage, writing, flow, counters, history>>,
           PersistRefreshed(p, a) \/ UNCHANGED queue,
           client' \in [Procs -> [Aliases -> Grants \cup {0}]],
           service' \in [Procs -> [Aliases -> Grants \cup {0}]],
           waiting' \in [Procs -> [Aliases -> SUBSET Grants]],
           \A q \in Procs \ {p} :
               client'[q] = client[q] /\ service'[q] = service[q] /\ waiting'[q] = waiting[q],
           \A b \in Aliases : word[b].state = "stands" =>
               /\ {client'[p][b], service'[p][b]} \subseteq {0, word[b].grant}
               /\ waiting'[p][b] \subseteq {word[b].grant}
    PROVE  IInv'
  <1>1. TypeOK /\ ProcInv(p)
    BY InvByProcess
  <1>2. PICK new : Rewrites(p, new)
    <2>1. CASE PersistRefreshed(p, a)
      BY <2>1, PersistQueues
    <2>2. CASE UNCHANGED queue
      <3>1. Unwritten(p)' = Unwritten(p) \cup {}
        BY <2>2, SameUnwritten DEF queues
      <3>2. Rewrites(p, {})
        BY <1>1, <2>2, <3>1 DEF TypeOK, Rewrites
      <3> QED  BY <3>2
    <2> QED  BY <2>1, <2>2
  <1>3. TypeOK'
    BY <1>1, <1>2 DEF TypeOK, disk, counters, history, Rewrites
  <1>4. \A q \in Procs \ {p} : Same(q)
    BY <1>2 DEF Same, Rewrites
  <1>5. \A b \in Aliases : word[b].state = "stands" => Holds(p, b, word[b].grant)'
    BY <1>1 DEF ProcInv, Settled, Holds, HasRead, history
  <1>6. Due' => Due
    BY DEF Due, disk, history
  <1>7. Queues(p, new)
    BY <1>2, <1>5, <1>6, UpIsUp DEF Queues, Rewrites, history
  <1> QED  BY <1>3, <1>4, <1>7, QueueingStep

LEMMA LibraryRefreshesKeeps ==
    ASSUME IInv, NEW p \in Procs, NEW a \in Aliases, LibraryRefreshes(p, a)
    PROVE  IInv'
  <1>1. TypeOK /\ ProcInv(p)
    BY InvByProcess
  <1>2. stage[p] = "up"
    BY ClientsAreServed DEF LibraryRefreshes, NoClients
  <1>3. PersistRefreshed(p, a) /\ UNCHANGED <<caches, disk, mem, stage, writing, flow, counters, history>>
    BY DEF LibraryRefreshes
  <1>4. \A b \in Aliases : word[b].state = "stands" => Holds(p, b, word[b].grant)
    BY <1>1, <1>2 DEF ProcInv, Settled, HasRead
  <1> QED  BY <1>1, <1>2, <1>3, <1>4, ClientStep DEF caches, TypeOK, Holds

LEMMA GetDriveKeeps ==
    ASSUME IInv, NEW p \in Procs, NEW a \in Aliases, NEW due \in BOOLEAN, GetDrive(p, a, due)
    PROVE  IInv'
  <1> DEFINE c == IF client[p][a] # 0 THEN client[p][a] ELSE mem[p].accounts[a]
  <1>1. TypeOK /\ ProcInv(p)
    BY InvByProcess
  <1>2. stage[p] = "up" /\ client' = [client EXCEPT ![p][a] = c]
        /\ UNCHANGED <<disk, mem, stage, queues, flow, counters, history>>
        /\ \/ waiting' = [waiting EXCEPT ![p][a] = @ \cup {c}] /\ UNCHANGED service
           \/ service' = [service EXCEPT ![p][a] = c] /\ UNCHANGED waiting
    BY DEF GetDrive
  <1>3. c \in Grants
    BY <1>1 DEF GetDrive, TypeOK, Data
  <1>4. \A b \in Aliases : word[b].state = "stands" => Holds(p, b, word[b].grant)
    BY <1>1, <1>2 DEF ProcInv, Settled, HasRead
  <1>5. word[a].state = "stands" => c = word[a].grant
    BY <1>3, <1>4 DEF Holds
  <1> HIDE DEF c
  <1>6. client' \in [Procs -> [Aliases -> Grants \cup {0}]]
        /\ service' \in [Procs -> [Aliases -> Grants \cup {0}]]
        /\ waiting' \in [Procs -> [Aliases -> SUBSET Grants]]
    <2>1. /\ client \in [Procs -> [Aliases -> Grants \cup {0}]]
          /\ service \in [Procs -> [Aliases -> Grants \cup {0}]]
          /\ waiting \in [Procs -> [Aliases -> SUBSET Grants]]
      BY <1>1 DEF TypeOK
    <2>2. waiting[p][a] \cup {c} \in SUBSET Grants
      BY <1>3, <2>1
    <2>3. client' \in [Procs -> [Aliases -> Grants \cup {0}]]
      BY <1>2, <1>3, <2>1
    <2>4. CASE waiting' = [waiting EXCEPT ![p][a] = @ \cup {c}] /\ UNCHANGED service
      BY <2>1, <2>2, <2>3, <2>4
    <2>5. CASE service' = [service EXCEPT ![p][a] = c] /\ UNCHANGED waiting
      BY <1>3, <2>1, <2>3, <2>5
    <2> QED  BY <1>2, <2>4, <2>5
  <1>7. \A q \in Procs \ {p} :
            client'[q] = client[q] /\ service'[q] = service[q] /\ waiting'[q] = waiting[q]
    BY <1>1, <1>2 DEF TypeOK
  <1>8. ASSUME NEW b \in Aliases, word[b].state = "stands"
        PROVE  /\ {client'[p][b], service'[p][b]} \subseteq {0, word[b].grant}
               /\ waiting'[p][b] \subseteq {word[b].grant}
    BY <1>1, <1>2, <1>4, <1>5, <1>8 DEF TypeOK, Holds
  <1> QED  BY <1>2, <1>6, <1>7, <1>8, ClientStep DEF queues

LEMMA RefreshReturnsKeeps ==
    ASSUME IInv, NEW p \in Procs, NEW a \in Aliases, NEW answer, RefreshReturns(p, a, answer)
    PROVE  IInv'
  <1>1. TypeOK /\ ProcInv(p)
    BY InvByProcess
  <1>2. PICK c \in {service[p][a]} \cup waiting[p][a] : service' = [service EXCEPT ![p][a] = c]
    BY DEF RefreshReturns
  <1>3. waiting' = [waiting EXCEPT ![p][a] = {}] /\ UNCHANGED client
        /\ UNCHANGED <<disk, mem, stage, writing, flow, counters, history>>
        /\ (PersistRefreshed(p, a) \/ UNCHANGED queue)
    BY DEF RefreshReturns
  <1>4. stage[p] = "up"
    BY ClientsAreServed DEF RefreshReturns, NoClients
  <1>5. c \in Grants \cup {0}
    BY <1>1, <1>2 DEF TypeOK
  <1>6. \A b \in Aliases : word[b].state = "stands" => Holds(p, b, word[b].grant)
    BY <1>1, <1>4 DEF ProcInv, Settled, HasRead
  <1>7. word[a].state = "stands" => c \in {0, word[a].grant}
    BY <1>2, <1>6 DEF Holds
  <1>8. client' \in [Procs -> [Aliases -> Grants \cup {0}]]
        /\ service' \in [Procs -> [Aliases -> Grants \cup {0}]]
        /\ waiting' \in [Procs -> [Aliases -> SUBSET Grants]]
    <2>1. /\ client \in [Procs -> [Aliases -> Grants \cup {0}]]
          /\ service \in [Procs -> [Aliases -> Grants \cup {0}]]
          /\ waiting \in [Procs -> [Aliases -> SUBSET Grants]]
      BY <1>1 DEF TypeOK
    <2> QED  BY <1>2, <1>3, <1>5, <2>1
  <1>9. \A q \in Procs \ {p} :
            client'[q] = client[q] /\ service'[q] = service[q] /\ waiting'[q] = waiting[q]
    BY <1>1, <1>2, <1>3 DEF TypeOK
  <1>10. ASSUME NEW b \in Aliases, word[b].state = "stands"
         PROVE  /\ {client'[p][b], service'[p][b]} \subseteq {0, word[b].grant}
                /\ waiting'[p][b] \subseteq {word[b].grant}
    BY <1>1, <1>2, <1>3, <1>6, <1>7, <1>10 DEF TypeOK, Holds
  <1> QED  BY <1>3, <1>4, <1>8, <1>9, <1>10, ClientStep

----------------------------------------------------------------------------
(* The queue *)

\* What a mutation runs on still has what is settled, and the oldest grant
\* while that is due.
LEMMA MergedKeeps ==
    ASSUME IInv, NEW p \in Procs, stage[p] \in {"up", "consent"}, NEW readable \in BOOLEAN
    PROVE  /\ ~Blind(p, readable) => \A a \in Aliases : word[a].state = "stands" =>
                 Merged(p, readable).accounts[a] = word[a].grant
           /\ Due /\ stage[p] = "up" => Merged(p, readable).accounts[DefaultAlias] = 1
  <1>1. /\ TypeOK /\ FileInv /\ ProcInv(p) /\ DefaultAlias \in Aliases
        /\ file \in Files /\ AsData(file).accounts = file.accounts
    BY InvByProcess, ConstantsAssumption, HelperTypes DEF TypeOK
  <1>2. \A a \in Aliases : word[a].state = "stands" =>
           /\ file.accounts[a] = word[a].grant
           /\ file.kind = "v2" \/ (file.kind = "absent" /\ word[a].grant = 0)
           /\ mem[p].accounts[a] = word[a].grant \/ (stage[p] = "consent" /\ mem[p] = Empty)
    BY <1>1 DEF ProcInv, Settled, Holds, HasRead, FileInv
  <1>3. Due /\ stage[p] = "up" =>
           file.accounts[DefaultAlias] = 1 /\ mem[p].accounts[DefaultAlias] = 1
    BY <1>1 DEF ProcInv, Oldest
  <1>4. NoAccounts[DefaultAlias] = 0
    BY <1>1 DEF NoAccounts
  <1>5. CASE Merged(p, readable) = AsData(file) /\ file.kind = "v2"
    BY <1>1, <1>2, <1>3, <1>5
  <1>6. CASE /\ Merged(p, readable) = mem[p]
             /\ ~readable \/ file.kind \notin {"v2", "absent"}
    BY <1>1, <1>2, <1>3, <1>6 DEF Blind
  <1>7. CASE Merged(p, readable) = Empty /\ file.kind = "absent"
    <2>1. ~(Due /\ stage[p] = "up")
      BY <1>1, <1>3, <1>4, <1>7 DEF FileInv
    <2> QED  BY <1>2, <1>7, <2>1 DEF Empty, NoAccounts
  <1> QED  BY <1>5, <1>6, <1>7 DEF Merged

\* What is unwritten is there once the process is loaded.
LEMMA WorkIsLoaded ==
    ASSUME IInv, NEW p \in Procs, Unwritten(p) # {}
    PROVE  stage[p] \in {"up", "consent"}
  BY InvByProcess DEF ProcInv, Own, Cold, Idle, TypeOK

\* A flow that ends leaves the others as they are.
LEMMA EndFlowIsOne ==
    ASSUME TypeOK, NEW p \in Procs, NEW m \in Mutations, EndFlow(p, m)
    PROVE  /\ flow' \in [Procs -> [Aliases -> Flows]]
           /\ \A q \in Procs \ {p} : flow'[q] = flow[q]
           /\ \A a \in Aliases : flow'[p][a] = flow[p][a] \/ flow'[p][a].step = "none"
  <1>1. flow \in [Procs -> [Aliases -> Flows]] /\ NoFlow \in Flows /\ NoFlow.step = "none"
    BY HelperTypes DEF TypeOK
  <1>2. CASE flow' = flow
    BY <1>1, <1>2
  <1>3. CASE flow' = [flow EXCEPT ![p][m.alias] = NoFlow]
    <2>1. [flow[p] EXCEPT ![m.alias] = NoFlow] \in [Aliases -> Flows]
      BY <1>1
    <2> QED  BY <1>1, <1>3, <2>1
  <1> QED  BY <1>2, <1>3 DEF EndFlow

LEMMA MutateKeeps ==
    ASSUME IInv, NEW p \in Procs, NEW readable \in BOOLEAN, Mutate(p, readable)
    PROVE  IInv'
  <1> DEFINE m == Head(queue[p])
             data == Merged(p, readable)
  <1>1. /\ TypeOK /\ FileInv /\ ProcInv(p) /\ DefaultAlias \in Aliases
        /\ \A q \in Procs : ProcInv(q)
    BY InvByProcess, ConstantsAssumption
  <1>2. /\ writing[p] = <<>> /\ queue[p] # <<>> /\ queue' = [queue EXCEPT ![p] = Tail(@)]
        /\ UNCHANGED <<disk, stage, caches, letGo>>
        /\ word' = IF Blind(p, readable) THEN [a \in Aliases |-> NoWord] ELSE word
        /\ granted' = granted /\ ops' = ops /\ faults' \in Nat
    BY <1>1, CountersTyped DEF Mutate
  <1>3. /\ queue \in [Procs -> Seq(Mutations)] /\ writing \in [Procs -> Seq(Mutations)]
        /\ m \in Unwritten(p) /\ m \in Mutations
        /\ Tail(queue[p]) \in Seq(Mutations) /\ Len(Tail(queue[p])) = Len(queue[p]) - 1
        /\ {Tail(queue[p])[i] : i \in 1..Len(Tail(queue[p]))} \subseteq Unwritten(p)
    BY <1>1, <1>2, DequeueUnwritten DEF TypeOK
  <1>4. stage[p] \in {"up", "consent"} /\ Whole(m)
    BY <1>1, <1>3, WorkIsLoaded DEF ProcInv, Own
  <1>5. data \in Data /\ Valid(data)
    BY MergedIsStore DEF IInv
  <1>6. /\ ~Blind(p, readable) =>
             \A a \in Aliases : word[a].state = "stands" => data.accounts[a] = word[a].grant
        /\ Due /\ stage[p] = "up" => data.accounts[DefaultAlias] = 1
    BY <1>4, MergedKeeps
  <1>7. PICK d \in Data :
           /\ Valid(d) /\ mem' = [mem EXCEPT ![p] = d]
           /\ \/ /\ d = Mutated(data, m) /\ Allowed(data, m)
                 /\ writing' = [writing EXCEPT ![p] = <<m>>]
                 /\ UNCHANGED flow
              \/ d = data /\ EndFlow(p, m) /\ UNCHANGED writing
    <2>1. CASE Allowed(data, m)
      <3>1. Mutated(data, m) \in Data /\ Valid(Mutated(data, m))
        BY <1>3, <1>4, <1>5, <2>1, MutatedIsStore
      <3> QED  BY <2>1, <3>1 DEF Mutate
    <2>2. CASE ~Allowed(data, m)
      BY <1>5, <2>2 DEF Mutate
    <2> QED  BY <2>1, <2>2
  <1> HIDE DEF m, data
  <1>8. \A a \in Aliases :
           d.accounts[a] = data.accounts[a]
             \/ (m.op # "setDefault" /\ m.alias = a /\ d.accounts[a] = m.grant)
    BY <1>3, <1>4, <1>5, <1>7, MutatedIsStore
  <1>9. /\ writing' \in [Procs -> Seq(Mutations)] /\ flow' \in [Procs -> [Aliases -> Flows]]
        /\ \A q \in Procs \ {p} : flow'[q] = flow[q] /\ writing'[q] = writing[q]
        /\ \A a \in Aliases : flow'[p][a] = flow[p][a] \/ flow'[p][a].step = "none"
        /\ writing'[p] \in {<<>>, <<m>>}
    <2>1. flow \in [Procs -> [Aliases -> Flows]]
      BY <1>1 DEF TypeOK
    <2>2. CASE writing' = [writing EXCEPT ![p] = <<m>>] /\ UNCHANGED flow
      BY <1>3, <2>1, <2>2
    <2>3. CASE EndFlow(p, m) /\ UNCHANGED writing
      BY <1>1, <1>2, <1>3, <2>3, EndFlowIsOne
    <2> QED  BY <1>7, <2>2, <2>3
  <1>10. /\ queue' \in [Procs -> Seq(Mutations)] /\ queue'[p] = Tail(queue[p])
         /\ \A q \in Procs \ {p} : queue'[q] = queue[q]
    BY <1>2, <1>3
  <1>21. /\ word' \in [Aliases -> Words]
         /\ \A a \in Aliases :
              /\ word'[a] = word[a] \/ word'[a].state = "none"
              /\ word'[a].state = "stands" =>
                     word[a].state = "stands" /\ word'[a] = word[a] /\ ~Blind(p, readable)
    BY <1>1, <1>2, HelperTypes DEF TypeOK
  <1>11. TypeOK'
    BY <1>1, <1>2, <1>7, <1>9, <1>10, <1>21 DEF TypeOK, disk, caches
  <1>12. \A q \in Procs \ {p} : Same(q)
    BY <1>1, <1>2, <1>7, <1>9, <1>10 DEF Same, caches, TypeOK
  <1>13. Unwritten(p)' \subseteq Unwritten(p)
    <2>1. writing'[p][1] = m \/ Len(writing'[p]) = 0
      BY <1>9
    <2>2. Len(writing'[p]) \in {0, 1}
      BY <1>9
    <2>3. {writing'[p][i] : i \in 1..Len(writing'[p])} \subseteq {m}
      BY <2>1, <2>2
    <2> QED  BY <1>3, <1>10, <2>3 DEF Unwritten
  <1>14. mem'[p] = d
    BY <1>1, <1>7 DEF TypeOK
  <1>15. Own(p)'
    <2>1. Valid(mem[p])'
      BY <1>7, <1>14 DEF Valid
    <2>2. Cold(p)'
      BY <1>2, <1>4 DEF Cold, Booting
    <2>3. Consenting(p)'
      <3> SUFFICES ASSUME stage[p] = "consent" PROVE Consenting(p)'
        BY <1>2 DEF Consenting
      <3>1. /\ NoClients(p) /\ Len(queue[p]) + Len(writing[p]) <= 1
            /\ \A a \in Aliases \ {DefaultAlias} : flow[p][a].step = "none"
            /\ flow[p][DefaultAlias].step \notin {"none", "open"}
            /\ \A n \in Unwritten(p) : n.by = "flow" /\ n.alias = DefaultAlias
        BY <1>1, <1>3 DEF ProcInv, Own, Consenting
      <3>2. Len(queue[p]) = 1 /\ Len(writing[p]) = 0 /\ Len(queue'[p]) = 0
        BY <1>2, <1>3, <1>10, <3>1
      <3>3. NoClients(p)'
        BY <1>2, <3>1 DEF NoClients, caches
      <3>4. CASE UNCHANGED flow /\ writing'[p] = <<m>>
        BY <1>2, <1>13, <3>1, <3>2, <3>3, <3>4 DEF Consenting
      <3>5. CASE EndFlow(p, m) /\ writing'[p] = <<>>
        <4>1. queue'[p] = <<>>
          BY <1>3, <1>10, <3>2
        <4>2. Unwritten(p)' = {}
          BY <3>5, <4>1 DEF Unwritten
        <4>3. \A a \in Aliases \ {DefaultAlias} : flow'[p][a].step = "none"
          BY <1>9, <3>1
        <4> QED  BY <3>2, <3>3, <3>5, <4>2, <4>3 DEF Consenting
      <3> QED  BY <1>2, <1>3, <1>7, <3>4, <3>5
    <2>4. Applied(p)'
      <3> SUFFICES ASSUME writing'[p] # <<>> PROVE Applied(p)'
        BY DEF Applied
      <3>1. writing'[p] = <<m>> /\ d = Mutated(data, m) /\ Allowed(data, m)
        BY <1>2, <1>7, <1>9
      <3>2. m.op # "setDefault" => m.alias \in Aliases /\ d.accounts[m.alias] = m.grant
        BY <1>3, <1>4, <1>5, <3>1, MutatedIsStore DEF Whole
      <3>3. writing'[p][1] = m /\ Len(writing'[p]) = 1
        BY <3>1
      <3> QED  BY <1>14, <3>2, <3>3 DEF Applied
    <2>5. \A n \in Unwritten(p)' : Whole(n)
      BY <1>1, <1>13 DEF ProcInv, Own
    <2> QED  BY <2>1, <2>2, <2>3, <2>4, <2>5 DEF Own
  <1>16. Due' <=> Due
    BY <1>2 DEF Due, disk
  <1>17. Oldest(p)'
    <2> SUFFICES ASSUME Due PROVE Oldest(p)'
      BY <1>16 DEF Oldest
    <2>1. stage[p] = "up" /\ Leaves(m, DefaultAlias, 1) /\ file.accounts[DefaultAlias] = 1
          /\ \A n \in Unwritten(p) : Leaves(n, DefaultAlias, 1)
      BY <1>1, <1>3, <1>4 DEF ProcInv, Oldest
    <2>2. d.accounts[DefaultAlias] = 1
      BY <1>1, <1>6, <1>8, <2>1 DEF Leaves
    <2> QED  BY <1>2, <1>13, <1>14, <2>1, <2>2 DEF Oldest, disk
  <1>18. ASSUME NEW a \in Aliases PROVE Settled(p, a)'
    <2> SUFFICES ASSUME word'[a].state = "stands" PROVE Settled(p, a)'
      BY DEF Settled
    <2> DEFINE g == word[a].grant
    <2>1. word[a].state = "stands" /\ word'[a] = word[a] /\ ~Blind(p, readable)
      BY <1>21
    <2>2. Leaves(m, a, g) /\ \A n \in Unwritten(p) : Leaves(n, a, g)
      BY <1>1, <1>3, <2>1 DEF ProcInv, Settled
    <2>3. d.accounts[a] = g
      BY <1>6, <1>8, <2>1, <2>2 DEF Leaves
    <2>4. {client[p][a], service[p][a]} \subseteq {0, g} /\ waiting[p][a] \subseteq {g}
      <3>1. CASE stage[p] = "up"
        BY <1>1, <2>1, <3>1 DEF ProcInv, Settled, HasRead, Holds
      <3>2. CASE stage[p] = "consent"
        BY <1>1, <3>2 DEF ProcInv, Own, Consenting, NoClients
      <3> QED  BY <1>4, <3>1, <3>2
    <2>5. Holds(p, a, g)'
      BY <1>2, <1>14, <2>1, <2>3, <2>4 DEF Holds, caches
    <2> QED  BY <1>2, <1>4, <1>13, <2>1, <2>2, <2>5 DEF Settled
  <1>19. FileInv' /\ (Due' => Due)
    BY <1>2, <1>21, QuietFile
  <1>20. Due' => \A q \in Procs \ {p} :
                    stage[q] \in {"up", "unlinking"} => file'.accounts[DefaultAlias] = 1
    BY <1>1, <1>2, <1>16 DEF ProcInv, Oldest, disk
  <1>22. legacy' \in {0, legacy}
    BY <1>2 DEF disk
  <1> QED
    BY <1>11, <1>12, <1>15, <1>17, <1>18, <1>19, <1>20, <1>21, <1>22, StepOfOne DEF ProcInv

\* The mutation that is being written, as the invariant describes it.
LEMMA BeingWritten ==
    ASSUME IInv, NEW p \in Procs, writing[p] # <<>>
    PROVE  /\ writing[p] = <<writing[p][1]>> /\ Len(writing[p]) = 1
           /\ writing[p][1] \in Unwritten(p) /\ writing[p][1] \in Mutations
           /\ Whole(writing[p][1]) /\ stage[p] \in {"up", "consent"}
           /\ mem[p] \in Data /\ Valid(mem[p])
           /\ Due => stage[p] = "up" /\ mem[p].accounts[DefaultAlias] = 1
           /\ \A a \in Aliases : word[a].state = "stands" => Holds(p, a, word[a].grant)
  <1>1. TypeOK /\ ProcInv(p)
    BY InvByProcess
  <1>2. writing[p] \in Seq(Mutations) /\ Len(writing[p]) = 1
    BY <1>1 DEF TypeOK, ProcInv, Own, Applied
  <1>3. writing[p] = <<writing[p][1]>> /\ writing[p][1] \in Mutations
    BY <1>2
  <1>4. writing[p][1] \in Unwritten(p)
    BY <1>2 DEF Unwritten
  <1>5. stage[p] \in {"up", "consent"} /\ Whole(writing[p][1])
    BY <1>1, <1>4, WorkIsLoaded DEF ProcInv, Own
  <1>6. mem[p] \in Data /\ Valid(mem[p])
    BY <1>1 DEF TypeOK, ProcInv, Own
  <1>7. Due => stage[p] = "up" /\ mem[p].accounts[DefaultAlias] = 1
    BY <1>1, <1>4, <1>5 DEF ProcInv, Oldest
  <1>8. \A a \in Aliases : word[a].state = "stands" => Holds(p, a, word[a].grant)
    BY <1>1, <1>5 DEF ProcInv, Settled, HasRead
  <1> QED  BY <1>2, <1>3, <1>4, <1>5, <1>6, <1>7, <1>8

\* Where a flow goes when its mutation m has been written.
LEMMA FlowGoesOn ==
    ASSUME IInv, NEW p \in Procs, writing[p] # <<>>, writing' = [writing EXCEPT ![p] = <<>>],
           NEW m \in Mutations, m = writing[p][1],
           IF m.by = "flow" THEN ThenSetDefault(p, m.alias) ELSE UNCHANGED <<flow, queue, stage>>
    PROVE  /\ flow' \in [Procs -> [Aliases -> Flows]] /\ queue' \in [Procs -> Seq(Mutations)]
           /\ stage' \in [Procs -> Booting \cup {"down", "consent", "up"}]
           /\ \A q \in Procs \ {p} :
                flow'[q] = flow[q] /\ queue'[q] = queue[q] /\ stage'[q] = stage[q]
           /\ stage'[p] \in {stage[p], "up"}
           /\ \A n \in Unwritten(p)' :
                n \in {queue[p][i] : i \in 1..Len(queue[p])} \/ n.op = "setDefault"
           /\ stage'[p] = "consent" =>
                /\ \A a \in Aliases \ {DefaultAlias} : flow'[p][a].step = "none"
                /\ flow'[p][DefaultAlias].step = "defaulting"
                /\ Len(queue'[p]) + Len(writing'[p]) <= 1
                /\ \A n \in Unwritten(p)' : n.by = "flow" /\ n.alias = DefaultAlias
  <1> DEFINE sd == Mutation("setDefault", m.alias, 0, "flow")
             old == {queue[p][i] : i \in 1..Len(queue[p])}
  <1>1. /\ TypeOK /\ ProcInv(p) /\ DefaultAlias \in Aliases
        /\ flow \in [Procs -> [Aliases -> Flows]] /\ queue \in [Procs -> Seq(Mutations)]
        /\ writing \in [Procs -> Seq(Mutations)]
        /\ stage \in [Procs -> Booting \cup {"down", "consent", "up"}]
    BY InvByProcess, ConstantsAssumption DEF TypeOK
  <1>2. Len(writing[p]) = 1 /\ m \in Unwritten(p) /\ stage[p] \in {"up", "consent"}
    BY BeingWritten
  <1>3. writing'[p] = <<>> /\ Len(writing'[p]) = 0
    BY <1>1
  <1>4. stage[p] = "consent" =>
           /\ \A a \in Aliases \ {DefaultAlias} : flow[p][a].step = "none"
           /\ Len(queue[p]) = 0 /\ m.by = "flow" /\ m.alias = DefaultAlias
    <2>1. Len(queue[p]) \in Nat
      BY <1>1
    <2> QED  BY <1>1, <1>2, <2>1 DEF ProcInv, Own, Consenting
  <1>5. queue' = queue => Unwritten(p)' = old
    BY <1>3 DEF Unwritten
  <1>6. CASE UNCHANGED <<flow, queue, stage>> /\ m.by # "flow"
    BY <1>1, <1>4, <1>5, <1>6
  <1>7. CASE m.by = "flow" /\ flow' = [flow EXCEPT ![p][m.alias] = NoFlow]
             /\ stage' = [stage EXCEPT ![p] = "up"] /\ UNCHANGED queue
    <2>1. NoFlow \in Flows
      BY HelperTypes
    <2>2. [flow[p] EXCEPT ![m.alias] = NoFlow] \in [Aliases -> Flows]
      BY <1>1, <2>1
    <2>3. flow' \in [Procs -> [Aliases -> Flows]] /\ \A q \in Procs \ {p} : flow'[q] = flow[q]
      BY <1>1, <1>7, <2>2
    <2>4. /\ stage' \in [Procs -> Booting \cup {"down", "consent", "up"}] /\ stage'[p] = "up"
          /\ \A q \in Procs \ {p} : stage'[q] = stage[q]
      BY <1>1, <1>7
    <2> QED  BY <1>1, <1>5, <1>7, <2>3, <2>4
  <1>8. CASE m.by = "flow" /\ flow' = [flow EXCEPT ![p][m.alias].step = "defaulting"]
             /\ Enqueue(p, sd) /\ UNCHANGED stage
    <2>1. sd \in Mutations /\ sd.op = "setDefault" /\ sd.by = "flow" /\ sd.alias = m.alias
      BY DEF Mutation, Mutations
    <2>2. \A o \in Flows : [o EXCEPT !.step = "defaulting"] \in Flows
                           /\ [o EXCEPT !.step = "defaulting"].step = "defaulting"
      BY DEF Flows
    <2> DEFINE new == [flow[p] EXCEPT ![m.alias].step = "defaulting"]
    <2>3. flow' = [flow EXCEPT ![p] = new]
      BY <1>1, <1>8
    <2>4. /\ new \in [Aliases -> Flows]
          /\ \A a \in Aliases \ {m.alias} : new[a] = flow[p][a]
          /\ m.alias \in Aliases => new[m.alias].step = "defaulting"
      <3>1. flow[p] \in [Aliases -> Flows]
        BY <1>1
      <3>2. CASE m.alias \in Aliases
        <4>1. [flow[p][m.alias] EXCEPT !.step = "defaulting"] \in Flows
              /\ [flow[p][m.alias] EXCEPT !.step = "defaulting"].step = "defaulting"
          BY <2>2, <3>1, <3>2
        <4> QED  BY <3>1, <3>2, <4>1
      <3>3. CASE m.alias \notin Aliases
        <4>1. new = flow[p]
          BY <3>1, <3>3
        <4> QED  BY <3>1, <3>3, <4>1
      <3> QED  BY <3>2, <3>3
    <2> HIDE DEF sd, new
    <2>5. flow' \in [Procs -> [Aliases -> Flows]] /\ flow'[p] = new
          /\ \A q \in Procs \ {p} : flow'[q] = flow[q]
      BY <1>1, <2>3, <2>4
    <2>6. /\ queue' = [queue EXCEPT ![p] = Append(queue[p], sd)]
          /\ queue' \in [Procs -> Seq(Mutations)]
          /\ queue'[p] = Append(queue[p], sd)
          /\ \A q \in Procs \ {p} : queue'[q] = queue[q]
      BY <1>1, <1>8, <2>1 DEF Enqueue
    <2>7. Len(queue'[p]) = Len(queue[p]) + 1 /\ Len(queue[p]) \in Nat
      BY <1>1, <2>1, <2>6
    <2>8. \A i \in 1..Len(queue'[p]) : queue'[p][i] = sd \/ queue'[p][i] \in old
      BY <1>1, <2>1, <2>6
    <2>9. \A n \in Unwritten(p)' : n = sd \/ n \in old
      BY <1>3, <2>8 DEF Unwritten
    <2>10. stage[p] = "consent" => old = {}
      BY <1>1, <1>4
    <2>11. stage'[p] = "consent" =>
             /\ \A a \in Aliases \ {DefaultAlias} : flow'[p][a].step = "none"
             /\ flow'[p][DefaultAlias].step = "defaulting"
             /\ Len(queue'[p]) + Len(writing'[p]) <= 1
             /\ \A n \in Unwritten(p)' : n.by = "flow" /\ n.alias = DefaultAlias
      <3> SUFFICES ASSUME stage[p] = "consent"
                   PROVE  /\ \A a \in Aliases \ {DefaultAlias} : flow'[p][a].step = "none"
                          /\ flow'[p][DefaultAlias].step = "defaulting"
                          /\ Len(queue'[p]) + Len(writing'[p]) <= 1
                          /\ \A n \in Unwritten(p)' : n.by = "flow" /\ n.alias = DefaultAlias
        BY <1>8
      <3>1. m.alias = DefaultAlias /\ Len(queue[p]) = 0 /\ old = {}
        BY <1>4, <2>10
      <3>2. \A a \in Aliases \ {DefaultAlias} : flow'[p][a].step = "none"
        BY <1>4, <2>4, <2>5, <3>1
      <3>3. flow'[p][DefaultAlias].step = "defaulting"
        BY <1>1, <2>4, <2>5, <3>1
      <3>4. Len(queue'[p]) + Len(writing'[p]) <= 1
        BY <1>3, <2>7, <3>1
      <3>5. \A n \in Unwritten(p)' : n.by = "flow" /\ n.alias = DefaultAlias
        BY <2>1, <2>9, <3>1
      <3> QED  BY <3>2, <3>3, <3>4, <3>5
    <2>12. \A n \in Unwritten(p)' : n \in old \/ n.op = "setDefault"
      BY <2>1, <2>9
    <2> QED  BY <1>1, <1>8, <2>5, <2>6, <2>11, <2>12
  <1> QED  BY <1>6, <1>7, <1>8 DEF ThenSetDefault

LEMMA WrittenKeeps ==
    ASSUME IInv, NEW p \in Procs, Written(p)
    PROVE  IInv'
  <1> DEFINE m == writing[p][1]
             settles == m.by # "refresh" /\ m.op # "setDefault"
             old == {queue[p][i] : i \in 1..Len(queue[p])}
             Wrote == [grant |-> m.grant, state |-> IF Alone(p, m.alias) THEN "stands" ELSE "none"]
  <1>1. /\ TypeOK /\ FileInv /\ ProcInv(p) /\ DefaultAlias \in Aliases
        /\ \A q \in Procs : ProcInv(q)
    BY InvByProcess, ConstantsAssumption
  <1>2. /\ writing[p] # <<>> /\ writing' = [writing EXCEPT ![p] = <<>>] /\ file' = AsFile(mem[p])
        /\ UNCHANGED <<legacy, backups, mem, waiting, counters, letGo>>
        /\ IF m.by = "flow" THEN ThenSetDefault(p, m.alias) ELSE UNCHANGED <<flow, queue, stage>>
        /\ IF settles
           THEN /\ Evict(p, m.alias)
                /\ word' = [word EXCEPT ![m.alias] = Wrote]
           ELSE UNCHANGED <<client, service, word>>
    BY DEF Written
  <1>3. /\ writing[p] = <<m>> /\ m \in Unwritten(p) /\ m \in Mutations
        /\ Whole(m) /\ stage[p] \in {"up", "consent"}
        /\ mem[p] \in Data /\ Valid(mem[p])
        /\ Due => stage[p] = "up" /\ mem[p].accounts[DefaultAlias] = 1
        /\ \A a \in Aliases : word[a].state = "stands" => Holds(p, a, word[a].grant)
    BY <1>2, BeingWritten
  <1>4. m.op # "setDefault" => m.alias \in Aliases /\ mem[p].accounts[m.alias] = m.grant
    BY <1>1, <1>2, <1>3 DEF ProcInv, Own, Applied, Whole
  <1> HIDE DEF m
  <1>5. /\ flow' \in [Procs -> [Aliases -> Flows]] /\ queue' \in [Procs -> Seq(Mutations)]
        /\ stage' \in [Procs -> Booting \cup {"down", "consent", "up"}]
        /\ \A q \in Procs \ {p} :
             flow'[q] = flow[q] /\ queue'[q] = queue[q] /\ stage'[q] = stage[q]
        /\ stage'[p] \in {stage[p], "up"}
        /\ \A n \in Unwritten(p)' : n \in old \/ n.op = "setDefault"
        /\ stage'[p] = "consent" =>
             /\ \A a \in Aliases \ {DefaultAlias} : flow'[p][a].step = "none"
             /\ flow'[p][DefaultAlias].step = "defaulting"
             /\ Len(queue'[p]) + Len(writing'[p]) <= 1
             /\ \A n \in Unwritten(p)' : n.by = "flow" /\ n.alias = DefaultAlias
    BY <1>2, <1>3, FlowGoesOn DEF m
  <1>6. file' \in Files /\ Valid(file') /\ file'.kind = "v2" /\ file'.accounts = mem[p].accounts
    BY <1>2, <1>3, HelperTypes
  <1>7. /\ client' \in [Procs -> [Aliases -> Grants \cup {0}]]
        /\ service' \in [Procs -> [Aliases -> Grants \cup {0}]]
        /\ \A q \in Procs \ {p} : client'[q] = client[q] /\ service'[q] = service[q]
        /\ \A a \in Aliases : client'[p][a] \in {0, client[p][a]} /\ service'[p][a] \in {0, service[p][a]}
        /\ settles => client'[p][m.alias] = 0 /\ service'[p][m.alias] = 0
    <2>1. /\ client \in [Procs -> [Aliases -> Grants \cup {0}]]
          /\ service \in [Procs -> [Aliases -> Grants \cup {0}]]
      BY <1>1 DEF TypeOK
    <2>2. CASE settles
      <3>1. m.alias \in Aliases
        BY <1>4, <2>2
      <3>2. client' = [client EXCEPT ![p][m.alias] = 0] /\ service' = [service EXCEPT ![p][m.alias] = 0]
        BY <1>2, <2>2 DEF Evict
      <3>3. /\ client' \in [Procs -> [Aliases -> Grants \cup {0}]] /\ client'[p][m.alias] = 0
            /\ \A q \in Procs \ {p} : client'[q] = client[q]
            /\ \A a \in Aliases : client'[p][a] \in {0, client[p][a]}
        BY <2>1, <3>1, <3>2
      <3>4. /\ service' \in [Procs -> [Aliases -> Grants \cup {0}]] /\ service'[p][m.alias] = 0
            /\ \A q \in Procs \ {p} : service'[q] = service[q]
            /\ \A a \in Aliases : service'[p][a] \in {0, service[p][a]}
        BY <2>1, <3>1, <3>2
      <3> QED  BY <3>3, <3>4
    <2>3. CASE ~settles
      BY <1>2, <2>1, <2>3
    <2> QED  BY <2>2, <2>3
  <1>8. /\ word' \in [Aliases -> Words]
        /\ \A a \in Aliases : word'[a].state = "stands" =>
             \/ word[a].state = "stands" /\ word'[a] = word[a]
             \/ settles /\ a = m.alias /\ word'[a].grant = m.grant /\ Alone(p, a)
        /\ \A a \in Aliases : word'[a] = word[a] \/ word'[a].state # "aside"
    <2>1. word \in [Aliases -> Words]
      BY <1>1 DEF TypeOK
    <2>2. CASE settles
      <3>1. Wrote \in Words
        BY <1>3 DEF Words, Mutations
      <3> QED  BY <1>2, <1>4, <2>1, <2>2, <3>1
    <2>3. CASE ~settles
      BY <1>2, <2>1, <2>3
    <2> QED  BY <2>2, <2>3
  <1>9. /\ writing' \in [Procs -> Seq(Mutations)] /\ writing'[p] = <<>>
        /\ \A q \in Procs \ {p} : writing'[q] = writing[q]
    BY <1>1, <1>2 DEF TypeOK
  <1>10. TypeOK'
    BY <1>1, <1>2, <1>5, <1>6, <1>7, <1>8, <1>9 DEF TypeOK, counters
  <1>11. \A q \in Procs \ {p} : Same(q)
    BY <1>2, <1>5, <1>7, <1>9 DEF Same
  <1>12. old \subseteq Unwritten(p)
    BY DEF Unwritten
  <1>13. Own(p)'
    <2>1. Valid(mem[p])' /\ Applied(p)'
      BY <1>2, <1>3, <1>9 DEF Valid, Applied
    <2>2. Cold(p)'
      BY <1>3, <1>5 DEF Cold, Booting
    <2>3. NoClients(p) => NoClients(p)'
      BY <1>2, <1>7 DEF NoClients
    <2>4. stage'[p] = "consent" => NoClients(p)
      BY <1>1, <1>5 DEF ProcInv, Own, Consenting
    <2>5. Consenting(p)'
      BY <1>5, <2>3, <2>4 DEF Consenting
    <2>6. \A n \in Unwritten(p)' : Whole(n)
      BY <1>1, <1>5, <1>12 DEF ProcInv, Own, Whole
    <2> QED  BY <2>1, <2>2, <2>5, <2>6 DEF Own
  <1>14. Due' <=> Due
    BY <1>2 DEF Due
  <1>15. Oldest(p)'
    <2> SUFFICES ASSUME Due PROVE Oldest(p)'
      BY <1>14 DEF Oldest
    <2>1. \A n \in Unwritten(p)' : Leaves(n, DefaultAlias, 1)
      BY <1>1, <1>5, <1>12 DEF ProcInv, Oldest, Leaves
    <2> QED  BY <1>2, <1>3, <1>5, <1>6, <2>1 DEF Oldest
  <1>16. ASSUME NEW a \in Aliases, word'[a].state = "stands"
         PROVE  /\ mem[p].accounts[a] = word'[a].grant
                /\ {client'[p][a], service'[p][a]} \subseteq {0, word'[a].grant}
                /\ waiting[p][a] \subseteq {word'[a].grant}
                /\ \A n \in Unwritten(p)' : Leaves(n, a, word'[a].grant)
    <2>1. CASE word[a].state = "stands" /\ word'[a] = word[a]
      <3>1. Holds(p, a, word[a].grant) /\ \A n \in Unwritten(p) : Leaves(n, a, word[a].grant)
        BY <1>1, <1>3, <2>1 DEF ProcInv, Settled
      <3> QED  BY <1>5, <1>7, <1>12, <2>1, <3>1 DEF Holds, Leaves
    <2>2. CASE settles /\ a = m.alias /\ word'[a].grant = m.grant /\ Alone(p, a)
      <3>1. waiting[p][a] = {} /\ \A n \in old : n.alias # a
        BY <2>2 DEF Alone
      <3> QED  BY <1>4, <1>5, <1>7, <2>2, <3>1 DEF Leaves
    <2> QED  BY <1>8, <1>16, <2>1, <2>2
  <1>17. ASSUME NEW a \in Aliases PROVE Settled(p, a)'
    BY <1>2, <1>3, <1>5, <1>16 DEF Settled, Holds
  <1>18. FileInv'
    BY <1>1, <1>2, <1>3, <1>6, <1>8, <1>14, <1>16 DEF FileInv
  <1>19. \A a \in Aliases : word'[a].state = "stands" =>
               \/ word[a].state = "stands" /\ word'[a] = word[a]
               \/ \A q \in Procs \ {p} : stage[q] = "down"
    BY <1>8 DEF Alone
  <1>20. Due' => Due /\ \A q \in Procs \ {p} :
                       stage[q] \in {"up", "unlinking"} => file'.accounts[DefaultAlias] = 1
    BY <1>3, <1>6, <1>14
  <1> QED
    BY <1>2, <1>10, <1>11, <1>13, <1>15, <1>17, <1>18, <1>19, <1>20, StepOfOne DEF ProcInv

LEMMA WriteFailsKeeps ==
    ASSUME IInv, NEW p \in Procs, WriteFails(p)
    PROVE  IInv'
  <1> DEFINE m == writing[p][1]
  <1>1. /\ TypeOK /\ ProcInv(p) /\ \A q \in Procs : ProcInv(q)
    BY InvByProcess
  <1>2. /\ writing[p] # <<>> /\ writing' = [writing EXCEPT ![p] = <<>>] /\ EndFlow(p, m)
        /\ UNCHANGED <<disk, mem, stage, queue, caches, history>>
        /\ granted' = granted /\ ops' = ops /\ faults' \in Nat
    BY <1>1 DEF WriteFails, Fault, TypeOK
  <1>3. /\ Len(writing[p]) = 1 /\ m \in Unwritten(p) /\ m \in Mutations
        /\ stage[p] \in {"up", "consent"}
    BY <1>2, BeingWritten
  <1> HIDE DEF m
  <1>4. /\ flow' \in [Procs -> [Aliases -> Flows]]
        /\ \A q \in Procs \ {p} : flow'[q] = flow[q]
        /\ \A a \in Aliases : flow'[p][a] = flow[p][a] \/ flow'[p][a].step = "none"
    BY <1>1, <1>2, <1>3, EndFlowIsOne
  <1>5. /\ writing' \in [Procs -> Seq(Mutations)] /\ writing'[p] = <<>>
        /\ \A q \in Procs \ {p} : writing'[q] = writing[q]
    BY <1>1, <1>2 DEF TypeOK
  <1>6. TypeOK'
    BY <1>1, <1>2, <1>4, <1>5 DEF TypeOK, disk, caches, history
  <1>7. \A q \in Procs \ {p} : Same(q)
    BY <1>2, <1>4, <1>5 DEF Same, caches
  <1>8. Unwritten(p)' \subseteq Unwritten(p)
    BY <1>2, <1>5 DEF Unwritten
  <1>9. Own(p)'
    <2>1. Valid(mem[p])' /\ Applied(p)' /\ \A n \in Unwritten(p)' : Whole(n)
      BY <1>1, <1>2, <1>5, <1>8 DEF ProcInv, Own, Valid, Applied
    <2>2. Cold(p)'
      BY <1>2, <1>3 DEF Cold, Booting
    <2>3. Consenting(p)'
      <3> SUFFICES ASSUME stage[p] = "consent" PROVE Consenting(p)'
        BY <1>2 DEF Consenting
      <3>1. /\ NoClients(p) /\ Len(queue[p]) + Len(writing[p]) <= 1
            /\ \A a \in Aliases \ {DefaultAlias} : flow[p][a].step = "none"
        BY <1>1 DEF ProcInv, Own, Consenting
      <3>2. Len(queue[p]) = 0 /\ Len(queue'[p]) = 0 /\ Len(writing'[p]) = 0
        BY <1>1, <1>2, <1>3, <1>5, <3>1 DEF TypeOK
      <3>3. Unwritten(p)' = {}
        BY <3>2 DEF Unwritten
      <3>4. NoClients(p)'
        BY <1>2, <3>1 DEF NoClients, caches
      <3> QED  BY <1>4, <3>1, <3>2, <3>3, <3>4 DEF Consenting
    <2> QED  BY <2>1, <2>2, <2>3 DEF Own
  <1>10. FileInv' /\ (Due' => Due)
    BY <1>2, QuietFile DEF history
  <1>11. Oldest(p)'
    BY <1>1, <1>2, <1>8, <1>10 DEF ProcInv, Oldest, disk
  <1>12. ASSUME NEW a \in Aliases PROVE Settled(p, a)'
    BY <1>1, <1>2, <1>3, <1>8 DEF ProcInv, Settled, Holds, HasRead, disk, caches, history
  <1>13. Due' => Due /\ \A q \in Procs \ {p} :
                       stage[q] \in {"up", "unlinking"} => file'.accounts[DefaultAlias] = 1
    BY <1>1, <1>2, <1>10 DEF ProcInv, Oldest, disk
  <1> QED
    BY <1>2, <1>6, <1>7, <1>9, <1>10, <1>11, <1>12, <1>13, StepOfOne DEF ProcInv, history, disk

LEMMA CrashKeeps ==
    ASSUME IInv, NEW p \in Procs, Crash(p)
    PROVE  IInv'
  <1>1. /\ TypeOK /\ ProcInv(p) /\ \A q \in Procs : ProcInv(q)
    BY InvByProcess
  <1>2. /\ mem' = [mem EXCEPT ![p] = Empty] /\ stage' = [stage EXCEPT ![p] = "down"]
        /\ queue' = [queue EXCEPT ![p] = <<>>] /\ writing' = [writing EXCEPT ![p] = <<>>]
        /\ flow' = [flow EXCEPT ![p] = [a \in Aliases |-> NoFlow]]
        /\ client' = [client EXCEPT ![p] = NoAccounts]
        /\ service' = [service EXCEPT ![p] = NoAccounts]
        /\ waiting' = [waiting EXCEPT ![p] = [a \in Aliases |-> {}]]
        /\ UNCHANGED <<legacy, backups, letGo, word>>
        /\ granted' = granted /\ ops' = ops /\ faults' \in Nat
    BY <1>1 DEF Crash, Fault, TypeOK, history
  <1>3. /\ FileInv' /\ file' \in Files /\ word' \in [Aliases -> Words]
        /\ Due' => Due /\ (file' = file \/ file'.accounts[DefaultAlias] = 1)
    <2>1. CASE UNCHANGED file
      <3>1. FileInv' /\ (Due' => Due)
        BY <1>2, <2>1, QuietFile DEF disk
      <3> QED  BY <1>1, <1>2, <2>1, <3>1 DEF TypeOK
    <2>2. CASE writing[p] # <<>> /\ file' = AsFile(mem[p])
      <3>1. /\ mem[p] \in Data /\ Valid(mem[p]) /\ (Due => mem[p].accounts[DefaultAlias] = 1)
            /\ \A a \in Aliases : word[a].state = "stands" => mem[p].accounts[a] = word[a].grant
        BY <2>2, BeingWritten DEF Holds
      <3> QED  BY <1>2, <2>2, <3>1, RewriteKeeps
    <2> QED  BY <2>1, <2>2 DEF Crash
  <1>4. /\ Empty \in Data /\ Valid(Empty) /\ [a \in Aliases |-> NoFlow] \in [Aliases -> Flows]
        /\ NoAccounts \in [Aliases -> Grants \cup {0}] /\ NoFlow.step = "none"
    BY HelperTypes
  <1>5. /\ mem' \in [Procs -> Data] /\ stage' \in [Procs -> Booting \cup {"down", "consent", "up"}]
        /\ queue' \in [Procs -> Seq(Mutations)] /\ writing' \in [Procs -> Seq(Mutations)]
        /\ flow' \in [Procs -> [Aliases -> Flows]]
        /\ client' \in [Procs -> [Aliases -> Grants \cup {0}]]
        /\ service' \in [Procs -> [Aliases -> Grants \cup {0}]]
        /\ waiting' \in [Procs -> [Aliases -> SUBSET Grants]]
    BY <1>1, <1>2, <1>4 DEF TypeOK
  <1>6. TypeOK'
    BY <1>1, <1>2, <1>3, <1>5 DEF TypeOK
  <1>7. \A q \in Procs \ {p} : Same(q)
    BY <1>1, <1>2 DEF Same, TypeOK
  <1>8. /\ mem'[p] = Empty /\ stage'[p] = "down" /\ queue'[p] = <<>> /\ writing'[p] = <<>>
        /\ flow'[p] = [a \in Aliases |-> NoFlow] /\ client'[p] = NoAccounts
        /\ service'[p] = NoAccounts /\ waiting'[p] = [a \in Aliases |-> {}]
    BY <1>1, <1>2 DEF TypeOK
  <1>9. Unwritten(p)' = {}
    BY <1>8 DEF Unwritten
  <1>10. Own(p)'
    BY <1>4, <1>8, <1>9
       DEF Own, Cold, Idle, Consenting, Applied, Valid, NoClients, NoAccounts
  <1>11. Oldest(p)' /\ \A a \in Aliases : Settled(p, a)'
    BY <1>8, <1>9 DEF Oldest, Settled, HasRead
  <1>12. Due' => Due /\ \A q \in Procs \ {p} :
                       stage[q] \in {"up", "unlinking"} => file'.accounts[DefaultAlias] = 1
    BY <1>1, <1>3 DEF ProcInv, Oldest
  <1> QED  BY <1>2, <1>3, <1>6, <1>7, <1>10, <1>11, <1>12, StepOfOne DEF ProcInv

----------------------------------------------------------------------------
(* The theorems *)

LEMMA InitInv == Init => IInv
  <1> SUFFICES ASSUME Init PROVE IInv
    OBVIOUS
  <1>1. /\ DefaultAlias \in Aliases /\ None \notin Aliases
        /\ MaxGrants \in Nat \ {0} /\ 1 \in Grants
    BY ConstantsAssumption DEF Grants
  <1>2. /\ FromV1(1) \in Data /\ Valid(FromV1(1)) /\ FromV1(1).accounts[DefaultAlias] = 1
        /\ FromV1(1).accounts \in [Aliases -> Grants \cup {0}]
    BY <1>1, HelperTypes DEF Data
  <1>3. /\ file \in Files /\ Valid(file)
        /\ file.kind \in {"v1", "v2"} => file.accounts[DefaultAlias] = 1
        /\ file.kind \in {"absent", "bad"} => file.accounts = NoAccounts
    <2>1. CASE file \in {Blank("absent"), Blank("bad")}
      BY <2>1, HelperTypes
    <2>2. CASE file = AsFile(FromV1(1))
      BY <1>2, <2>2, HelperTypes
    <2>3. CASE file = [kind |-> "v1", accounts |-> FromV1(1).accounts, def |-> None]
      BY <1>2, <2>3 DEF Files, Valid
    <2> QED  BY <2>1, <2>2, <2>3 DEF Init
  <1>4. legacy \in {0, 1} /\ backups = {} /\ word = [a \in Aliases |-> NoWord]
        /\ granted = 1 /\ ops = 0 /\ faults = 0 /\ letGo = (1 \notin OnDisk)
    BY DEF Init
  <1>5. TypeOK
    BY <1>1, <1>3, <1>4, HelperTypes DEF Init, TypeOK
  <1>6. Due => legacy = 1 \/ file.accounts[DefaultAlias] = 1
    <2> SUFFICES ASSUME Due PROVE legacy = 1 \/ file.accounts[DefaultAlias] = 1
      OBVIOUS
    <2>1. 1 \in GrantsIn(file.accounts) \/ legacy = 1
      BY <1>4 DEF Due, OnDisk
    <2>2. GrantsIn(NoAccounts) = {}
      BY DEF GrantsIn, NoAccounts
    <2> QED  BY <1>3, <2>1, <2>2 DEF Files
  <1>7. FileInv
    BY <1>1, <1>3, <1>4, <1>6, HelperTypes DEF FileInv
  <1>8. ASSUME NEW p \in Procs PROVE ProcInv(p)
    <2>1. /\ mem[p] = Empty /\ stage[p] = "down" /\ queue[p] = <<>> /\ writing[p] = <<>>
          /\ flow[p] = [a \in Aliases |-> NoFlow] /\ client[p] = NoAccounts
          /\ service[p] = NoAccounts /\ waiting[p] = [a \in Aliases |-> {}]
      BY DEF Init
    <2>2. Unwritten(p) = {}
      BY <2>1 DEF Unwritten
    <2>3. Own(p)
      BY <2>1, <2>2, HelperTypes DEF Own, Cold, Idle, Consenting, Applied, NoClients, NoAccounts
    <2> QED  BY <1>4, <2>1, <2>2, <2>3, HelperTypes DEF ProcInv, Oldest, Settled
  <1> QED  BY <1>5, <1>7, <1>8, InvByProcess

LEMMA StutterKeeps == ASSUME IInv, UNCHANGED vars PROVE IInv'
  <1>1. UNCHANGED <<disk, mem, stage, queues, flow, caches, counters, history>>
    BY DEF vars
  <1>2. TypeOK'
    BY <1>1, InvByProcess DEF TypeOK, disk, queues, caches, counters, history
  <1>3. FileInv'
    BY <1>1, QuietFile DEF history
  <1>4. ASSUME NEW p \in Procs PROVE ProcInv(p)'
    <2>1. Unwritten(p)' = Unwritten(p)
      BY <1>1, SameUnwritten
    <2>2. ProcInv(p)
      BY InvByProcess
    <2>3. Cold(p)' /\ Consenting(p)' /\ Applied(p)' /\ Valid(mem[p])'
      BY <1>1, <2>1, <2>2
         DEF ProcInv, Own, Cold, Idle, Consenting, Applied, NoClients, Valid, queues, caches
    <2>4. Own(p)'
      BY <2>1, <2>2, <2>3 DEF ProcInv, Own
    <2>5. Oldest(p)'
      BY <1>1, <2>1, <2>2 DEF ProcInv, Oldest, Due, disk, history
    <2>6. \A a \in Aliases : Settled(p, a)'
      BY <1>1, <2>1, <2>2 DEF ProcInv, Settled, Holds, HasRead, queues, disk, caches, history
    <2> QED  BY <2>4, <2>5, <2>6 DEF ProcInv
  <1> QED  BY <1>2, <1>3, <1>4, InvByProcessNext DEF Parts

LEMMA NextInv == IInv /\ [Next]_vars => IInv'
  <1> SUFFICES ASSUME IInv, [Next]_vars PROVE IInv'
    OBVIOUS
  <1>1. CASE UNCHANGED vars
    BY <1>1, StutterKeeps
  <1>2. ASSUME NEW p \in Procs, Boot(p) PROVE IInv'
    BY <1>2, RenameKeeps, WriteMigratedKeeps, ReadLegacyKeeps, WriteAdoptedKeeps,
       UnlinkLegacyKeeps, QuarantineKeeps DEF Boot
  <1>3. ASSUME NEW p \in Procs, QueueStep(p) \/ WriteFails(p) \/ Crash(p) PROVE IInv'
    BY <1>3, MutateKeeps, WrittenKeeps, WriteFailsKeeps, CrashKeeps DEF QueueStep
  <1>4. ASSUME NEW p \in Procs,
               \/ FirstConsent(p) \/ ConsentUnavailable(p)
               \/ \E readable \in BOOLEAN : Load(p, readable)
               \/ \E a \in Aliases \cup {None} : SetDefaultAccount(p, a)
        PROVE  IInv'
    BY <1>4, FirstConsentKeeps, ConsentUnavailableKeeps, LoadKeeps, SetDefaultAccountKeeps
  <1>5. ASSUME NEW p \in Procs, NEW a \in Aliases,
               \/ AddAccount(p, a) \/ RemoveAccount(p, a)
               \/ LibraryRefreshes(p, a) \/ GoogleAnswers(p, a)
               \/ \E flag \in BOOLEAN : Consented(p, a, flag) \/ GetDrive(p, a, flag)
        PROVE  IInv'
    BY <1>5, AddAccountKeeps, RemoveAccountKeeps, LibraryRefreshesKeeps, RefreshReturnsKeeps,
       ConsentedKeeps, GetDriveKeeps DEF GoogleAnswers
  <1> QED  BY <1>1, <1>2, <1>3, <1>4, <1>5 DEF Next

\* The inductive invariant holds in every reachable state.
THEOREM Invariance == Spec => []IInv
  BY InitInv, NextInv, PTL DEF Spec

\* Every variable keeps its type.
THEOREM TypeCorrect == Spec => []TypeOK
  <1>1. IInv => TypeOK
    BY DEF IInv
  <1> QED  BY <1>1, Invariance, PTL

\* Whatever processes and requests of the user overlap, fail or crash, the
\* default account of the file and of every process is one of its accounts.
THEOREM DefaultAlwaysAccount == Spec => []DefaultIsAccount
  <1>1. IInv => DefaultIsAccount
    BY DEF IInv
  <1> QED  BY <1>1, Invariance, PTL

\* The grant from before the upgrade is in some file until the user lets go of
\* it: no migration, quarantine, failed write or crash, of however many
\* processes, loses it.
THEOREM CredentialsAlwaysKept == Spec => []CredentialsKept
  <1>1. IInv => CredentialsKept
    <2> SUFFICES ASSUME IInv, ~letGo, 1 \notin backups PROVE 1 \in OnDisk
      BY DEF CredentialsKept, OnDisk
    <2>1. FileInv /\ Due /\ DefaultAlias \in Aliases
      BY InvByProcess, ConstantsAssumption DEF Due
    <2>2. legacy = 1 \/ file.accounts[DefaultAlias] = 1
      BY <2>1 DEF FileInv
    <2> QED  BY <2>1, <2>2 DEF OnDisk, GrantsIn
  <1> QED  BY <1>1, Invariance, PTL

\* What the user did with an account while nothing else held or awaited
\* anything about it stays done, on file and in every process and its caches,
\* through crashes and failures: no queued refresh, cached client, answer of
\* Google or other process brings the old grant back.  An account is only lost
\* by a boot that cannot read the file; when that moves the file aside, the
\* account's grant is in the backup ever after.
THEOREM SettledAccountAlwaysStands == Spec => []SettledAccountStands
  <1>1. IInv => SettledAccountStands
    BY InvByProcess DEF ProcInv, FileInv, Settled, Holds, HasRead, SettledAccountStands
  <1> QED  BY <1>1, Invariance, PTL

-----------------------------------------------------------------------------
(***************************************************************************)
(* The way of a tool call through its session to its account.              *)
(***************************************************************************)

\* The invariant of the sessions, with what HttpSessions assumes of its constants.
SessionsInv == ConstantsAreSound /\ SessionParts

----------------------------------------------------------------------------
(* The account of a call *)

\* A single account of resolve is an eligible one, whatever it is asked for.
LEMMA SingleIsEligible ==
    ASSUME NEW grants, NEW chosen, NEW def, NEW input, NEW op, NEW acceptable,
           Resolve(grants, chosen, def, input, op, acceptable).kind = "single",
           input.kind # "none" => input.kind = "one"
    PROVE  Resolve(grants, chosen, def, input, op, acceptable).accounts
              \subseteq Eligible(grants, acceptable)
  <1> DEFINE eligible == Eligible(grants, acceptable)
             result == Resolve(grants, chosen, def, input, op, acceptable)
  <1>1. CASE input.kind # "none"
    <2>1. result = ResolveExplicit(eligible, input, op)
      BY <1>1 DEF Resolve
    <2> QED  BY <1>1, <2>1 DEF ResolveExplicit, Refusal
  <1>2. CASE input.kind = "none"
    <2>1. CASE chosen \in eligible
      BY <1>2, <2>1 DEF Resolve, Single
    <2>2. CASE chosen \notin eligible /\ def \in eligible
      BY <1>2, <2>2 DEF Resolve, Single
    <2>3. CASE chosen \notin eligible /\ def \notin eligible
      BY <1>2, <2>3 DEF Resolve, Refusal, Fanout
    <2> QED  BY <2>1, <2>2, <2>3
  <1> QED  BY <1>1, <1>2

\* Without an account argument and a session default, a single account of
\* resolve is the default or, when no account on file is the default, the only
\* eligible one.
LEMMA SingleIsDefaultOrOnly ==
    ASSUME NEW grants, NEW def, NEW op, NEW acceptable,
           Absent \notin DOMAIN grants,
           NEW a \in Resolve(grants, Absent, def, NoInput, op, acceptable).accounts,
           Resolve(grants, Absent, def, NoInput, op, acceptable).kind = "single"
    PROVE  /\ def \in DOMAIN grants => a = def
           /\ def \notin DOMAIN grants => Eligible(grants, acceptable) = {a}
  <1> DEFINE eligible == Eligible(grants, acceptable)
             result == Resolve(grants, Absent, def, NoInput, op, acceptable)
  <1>1. Absent \notin eligible /\ NoInput.kind = "none"
    BY DEF Eligible, NoInput
  <1>2. CASE def \in eligible
    BY <1>1, <1>2 DEF Resolve, Single, Eligible
  <1>3. CASE def \notin eligible
    <2>1. result = IF SkippedDefault(grants, Absent, def) THEN Refusal
                   ELSE IF \E b \in eligible : eligible = {b}
                     THEN [kind |-> "single", accounts |-> eligible]
                   ELSE IF op = "read" /\ eligible # {} THEN Fanout(eligible)
                   ELSE Refusal
      BY <1>1, <1>3 DEF Resolve
    <2>2. ~ SkippedDefault(grants, Absent, def) /\ \E b \in eligible : eligible = {b}
      BY <2>1 DEF Refusal, Fanout
    <2>3. def \notin DOMAIN grants
      BY <2>2 DEF SkippedDefault
    <2>4. result.accounts = eligible
      BY <2>1, <2>2
    <2> QED  BY <2>2, <2>3, <2>4
  <1> QED  BY <1>2, <1>3

\* An explicit account is the one that is resolved.
LEMMA SingleIsTheOneNamed ==
    ASSUME NEW grants, NEW def, NEW op, NEW acceptable, NEW alias,
           NEW a \in Resolve(grants, Absent, def, [kind |-> "one", accounts |-> {alias}],
                             op, acceptable).accounts
    PROVE  a = alias
  BY DEF Resolve, ResolveExplicit, Refusal

\* What the dispatch of a local server makes of a call on Google data is what
\* the user means by it: never another account in place of one that is named,
\* nor in place of a default that lacks the scope.
THEOREM LocalCallsAreRight ==
    ASSUME NEW toolCall, NEW grants, NEW def, Absent \notin DOMAIN grants,
           NEW a \in LocalTargets(toolCall, grants, def)
    PROVE  RightLocally(a, toolCall, grants, def)
  <1>1. CASE toolCall.tool = "resource"
    BY <1>1 DEF LocalTargets, DefaultAccounts, RightLocally
  <1>2. CASE toolCall.tool = "plain"
    <2> DEFINE input == Input(toolCall.account)
               targeting == Resolve(grants, Absent, def, input, toolCall.op, toolCall.acceptable)
    <2>1. toolCall.account # Listed /\ targeting.kind = "single" /\ a \in targeting.accounts
      BY <1>2 DEF LocalTargets
    <2>2. input.kind # "none" => input.kind = "one"
      BY DEF Input, NoInput
    <2>3. a \in Eligible(grants, toolCall.acceptable)
      <3>1. targeting.accounts \subseteq Eligible(grants, toolCall.acceptable)
        BY <2>1, <2>2, SingleIsEligible
      <3> QED  BY <2>1, <3>1
    <2>4. toolCall.account # Absent => a = toolCall.account
      BY <2>1, SingleIsTheOneNamed DEF Input
    <2>5. toolCall.account = Absent => /\ def \in DOMAIN grants => a = def
                                       /\ def \notin DOMAIN grants
                                             => Eligible(grants, toolCall.acceptable) = {a}
      BY <2>1, SingleIsDefaultOrOnly DEF Input
    <2>6. MeantFor(a, toolCall.account, grants, def, toolCall.acceptable)
      BY <2>3, <2>4, <2>5 DEF MeantFor, Eligible
    <2> QED  BY <1>2, <2>6 DEF RightLocally
  <1>3. CASE toolCall.tool # "resource" /\ toolCall.tool # "plain"
    BY <1>3 DEF RightLocally
  <1> QED  BY <1>1, <1>2, <1>3

\* In team mode a call runs as its caller, within the scopes of the consent and
\* of the token.
THEOREM MemberCallsAreRight ==
    ASSUME NEW toolCall, NEW caller, NEW grants, NEW a \in TeamTargets(toolCall, caller, grants)
    PROVE  RightForMember(a, toolCall, caller, grants)
  <1>1. a = caller /\ ~ TeamRefuses(toolCall) /\ TeamAllows(toolCall, caller, grants)
    BY DEF TeamTargets
  <1> QED  BY <1>1 DEF TeamRefuses, TeamAllows, RightForMember, Eligible

\* A call runs as a name that is known.
LEMMA TargetsAreNames ==
    ASSUME SessionTypes, NEW r \in Sids
    PROVE  Targets(r) \subseteq Names
  <1> DEFINE toolCall == request[r].call  grants == table.granted
  <1>0. request[r].by \in Users \cup {Absent}
    BY DEF SessionTypes, SessionRequests
  <1>1. DOMAIN grants \subseteq Names
    BY DEF SessionTypes, Names
  <1>2. TeamTargets(toolCall, request[r].by, grants) \subseteq Names
    BY <1>0 DEF TeamTargets, Names
  <1>3. LocalTargets(toolCall, grants, table.def) \subseteq DOMAIN grants \cup {Absent}
    <2>1. CASE toolCall.tool # "plain"
      BY <2>1 DEF LocalTargets, DefaultAccounts
    <2>2. CASE toolCall.tool = "plain"
      <3> DEFINE input == Input(toolCall.account)
                 targeting == Resolve(grants, Absent, table.def, input, toolCall.op, toolCall.acceptable)
      <3>1. input.kind # "none" => input.kind = "one"
        BY DEF Input, NoInput
      <3>2. targeting.kind = "single"
               => targeting.accounts \subseteq Eligible(grants, toolCall.acceptable)
        BY <3>1, SingleIsEligible
      <3>3. Eligible(grants, toolCall.acceptable) \subseteq DOMAIN grants
        BY DEF Eligible
      <3> HIDE DEF input
      <3>4. LocalTargets(toolCall, grants, table.def)
               \subseteq IF targeting.kind = "single" THEN targeting.accounts ELSE {}
        BY <2>2 DEF LocalTargets, input
      <3> QED  BY <3>2, <3>3, <3>4
    <2> QED  BY <2>1, <2>2
  <1> QED  BY <1>1, <1>2, <1>3 DEF Targets, Names

----------------------------------------------------------------------------
(* Timers and what they hold *)

\* A timer that is set again is the only one, and has the whole idle time.
LEMMA ResetIsAlone ==
    ASSUME SessionsInv, NEW s \in Sids, ResetTimer(s)
    PROVE  /\ left' = [left EXCEPT ![s] = {IdleTime}]
           /\ booked' = booked \cup {s}
           /\ quiet' = [quiet EXCEPT ![s] = 0]
  <1>1. CASE s \in booked
    <2>1. Cleared(s) = {}
      BY <1>1 DEF SessionsInv, SessionParts, NothingOutlivesItsSession, Cleared, SessionTypes
    <2> QED  BY <1>1, <2>1 DEF ResetTimer
  <1>2. CASE s \notin booked
    <2>1. left[s] = {}
      BY <1>2 DEF SessionsInv, SessionParts, NothingOutlivesItsSession, SessionTypes
    <2> QED  BY <1>2, <2>1 DEF ResetTimer
  <1> QED  BY <1>1, <1>2

\* Whoever closes a session, and however often, takes its timer, the timer's
\* handle and its selection along.
LEMMA CloseIsClean ==
    ASSUME SessionsInv, NEW s \in Sids, NEW fired, OnClose(s, fired)
    PROVE  /\ left' = [left EXCEPT ![s] = {}]
           /\ booked' = booked \ {s}
           /\ quiet' = [quiet EXCEPT ![s] = 0]
           /\ sessions' = sessions \ {s}
           /\ sub' = [sub EXCEPT ![s] = Absent]
           /\ selections' = selections \ {s}
  <1>1. left' = [left EXCEPT ![s] = {}]
    <2>1. CASE s \in booked
      <3>1. Cleared(s) = {}
        BY <2>1 DEF SessionsInv, SessionParts, NothingOutlivesItsSession, Cleared, SessionTypes
      <3> QED  BY <2>1, <3>1 DEF OnClose, ClearTimer
    <2>2. CASE s \notin booked
      <3>1. left[s] = {}
        BY <2>2 DEF SessionsInv, SessionParts, NothingOutlivesItsSession, SessionTypes
      <3> QED  BY <2>2, <3>1 DEF OnClose, ClearTimer
    <2> QED  BY <2>1, <2>2
  <1>2. selections' = selections \ {s}
    BY DEF OnClose, Forget, SessionsInv, SessionParts
  <1> QED  BY <1>1, <1>2 DEF OnClose, ClearTimer, Forget

\* The part of the invariant about sessions and timers.
TimersInv ==
    /\ sessions \subseteq Sids /\ booked \subseteq Sids /\ selections \subseteq Sids
    /\ sub \in [Sids -> Users \cup {Absent}]
    /\ left \in [Sids -> SUBSET (0..IdleTime)]
    /\ quiet \in [Sids -> 0..IdleTime]
    /\ NothingOutlivesItsSession
    /\ TimersCountQuiet
    /\ auth # "ready" => selections = {}

LEMMA TimersInvHolds == SessionsInv => TimersInv
  BY DEF SessionsInv, SessionParts, SessionTypes, TimersInv

LEMMA ResetKeepsTimers ==
    ASSUME SessionsInv, NEW s \in sessions, ResetTimer(s), UNCHANGED <<held, auth>>
    PROVE  TimersInv'
  <1>1. /\ left' = [left EXCEPT ![s] = {IdleTime}]
        /\ booked' = booked \cup {s}
        /\ quiet' = [quiet EXCEPT ![s] = 0]
    BY ResetIsAlone DEF SessionsInv, SessionParts, SessionTypes
  <1>2. IdleTime \in Nat
    BY DEF SessionsInv, ConstantsAreSound
  <1>3. booked' = booked
    BY <1>1 DEF SessionsInv, SessionParts, NothingOutlivesItsSession
  <1> QED
    BY <1>1, <1>2, <1>3, TimersInvHolds
       DEF TimersInv, NothingOutlivesItsSession, TimersCountQuiet, held

LEMMA CloseKeepsTimers ==
    ASSUME SessionsInv, NEW s \in Sids, NEW fired, OnClose(s, fired), UNCHANGED auth
    PROVE  TimersInv'
  <1>1. /\ left' = [left EXCEPT ![s] = {}]
        /\ booked' = booked \ {s}
        /\ quiet' = [quiet EXCEPT ![s] = 0]
        /\ sessions' = sessions \ {s}
        /\ sub' = [sub EXCEPT ![s] = Absent]
        /\ selections' = selections \ {s}
    BY CloseIsClean
  <1>2. IdleTime \in Nat
    BY DEF SessionsInv, ConstantsAreSound
  <1> QED
    BY <1>1, <1>2, TimersInvHolds
       DEF TimersInv, NothingOutlivesItsSession, TimersCountQuiet

LEMMA SameKeepsTimers ==
    ASSUME SessionsInv, UNCHANGED <<held, timers>>, auth' = "ready" \/ auth # "ready" \/ auth' = auth
    PROVE  TimersInv'
  BY TimersInvHolds
     DEF TimersInv, NothingOutlivesItsSession, TimersCountQuiet, held, timers

----------------------------------------------------------------------------
(* Ids *)

\* What every step but a new request and a registration does to the ids.
LEMMA IdsKept ==
    ASSUME SessionsInv, count' = count,
           \A r \in Sids : request[r].step = "none" => request'[r].step = "none",
           sessions' \subseteq sessions,
           \A k : \A s \in Sids : <<k, s>> \in closing' => <<k, s>> \in closing \/ s \in sessions \ sessions',
           \A r \in Sids : request'[r].step = "closing" =>
              \/ request[r].step = "closing" /\ request'[r].sid = request[r].sid
              \/ request'[r].sid \in sessions \ sessions'
    PROVE  IdsAreUsedOnce'
  <1>1. Gone' \subseteq Gone \cup (sessions \ sessions')
    BY DEF Gone
  <1>2. sessions \subseteq Sids
    BY DEF SessionsInv, SessionParts, SessionTypes
  <1> QED  BY <1>1, <1>2 DEF SessionsInv, SessionParts, IdsAreUsedOnce, Gone

\* A request that goes on or ends.
LEMMA OneRequestKeepsIds ==
    ASSUME SessionsInv, NEW r \in Sids, NEW q \in SessionRequests,
           request[r].step # "none", q.step # "closing",
           request' = [request EXCEPT ![r] = q],
           sessions' = sessions, UNCHANGED <<count, closing>>
    PROVE  IdsAreUsedOnce'
  <1>1. request \in [Sids -> SessionRequests]
    BY DEF SessionsInv, SessionParts, SessionTypes
  <1>2. \A p \in Sids : request'[p] = IF p = r THEN q ELSE request[p]
    BY <1>1
  <1> QED  BY <1>2, IdsKept

\* The sessions of a server that closes one, with the streams it ends.
LEMMA StreamsEndTyped ==
    ASSUME SessionsInv, NEW s \in Sids
    PROVE  /\ StreamsEnd(s) \in [Sids -> SessionRequests]
           /\ \A q \in Sids : StreamsEnd(s)[q] = request[q]
                 \/ (request[q].step = "listening" /\ StreamsEnd(s)[q] = NoRequest)
  <1>1. NoRequest \in SessionRequests
    BY DEF NoRequest, SessionRequests, Steps, Names
  <1>2. request \in [Sids -> SessionRequests]
    BY DEF SessionsInv, SessionParts, SessionTypes
  <1> QED  BY <1>1, <1>2 DEF StreamsEnd

----------------------------------------------------------------------------
(* The inductive invariant *)

LEMMA TypeFromParts ==
    ASSUME TimersInv', IdsAreUsedOnce',
           mode' \in Modes, count' \in 0..MaxRequests, request' \in [Sids -> SessionRequests],
           closing' \subseteq {"timer", "shutdown"} \X Sids,
           auth' \in {"none", "building", "ready"}, table' \in OnFile[mode'],
           down' \in {"up", "closing", "draining", "exited"}, changes' \in 0..MaxChanges
    PROVE  SessionParts'
  BY DEF SessionsInv, SessionParts, SessionTypes, TimersInv

LEMMA SessionsStart == ConstantsAreSound /\ SessionsInit => SessionsInv
  <1> SUFFICES ASSUME ConstantsAreSound, SessionsInit PROVE SessionParts
    BY DEF SessionsInv
  <1>1. NoRequest \in SessionRequests
    BY DEF NoRequest, SessionRequests, Steps, Names
  <1>2. IdleTime \in Nat /\ MaxRequests \in Nat /\ MaxChanges \in Nat
    BY DEF ConstantsAreSound
  <1>3. SessionTypes
    BY <1>1, <1>2 DEF SessionsInit, SessionTypes, Sids
  <1>4. NothingOutlivesItsSession /\ TimersCountQuiet
    BY DEF SessionsInit, NothingOutlivesItsSession, TimersCountQuiet
  <1>5. IdsAreUsedOnce
    BY DEF SessionsInit, IdsAreUsedOnce, Gone, NoRequest
  <1> QED  BY <1>3, <1>4, <1>5 DEF SessionsInit, SessionParts

\* A step of one request that leaves the sessions alone.
LEMMA RequestStep ==
    ASSUME SessionsInv, NEW r \in Sids, NEW q \in SessionRequests,
           request[r].step # "none", q.step # "closing",
           request' = [request EXCEPT ![r] = q],
           TimersInv', sessions' = sessions,
           UNCHANGED <<mode, count, closing, down, accounts>>,
           auth' \in {"none", "building", "ready"}
    PROVE  SessionParts'
  <1>1. request' \in [Sids -> SessionRequests]
    BY DEF SessionsInv, SessionParts, SessionTypes
  <1>2. IdsAreUsedOnce'
    BY OneRequestKeepsIds
  <1> QED  BY <1>1, <1>2, TypeFromParts DEF SessionsInv, SessionParts, SessionTypes, accounts

\* Where a request can go.
LEMMA RequestMoves ==
    ASSUME SessionsInv, NEW r \in Sids
    PROVE  /\ NoRequest \in SessionRequests /\ NoRequest.step = "none"
           /\ request[r] \in SessionRequests
           /\ Finished(r) = [request EXCEPT ![r] = NoRequest]
           /\ \A step \in Steps :
                 /\ [request[r] EXCEPT !.step = step] \in SessionRequests
                 /\ [request[r] EXCEPT !.step = step].step = step
                 /\ Goto(r, step) = [request EXCEPT ![r] = [request[r] EXCEPT !.step = step]]
  <1>1. NoRequest \in SessionRequests /\ NoRequest.step = "none"
    BY DEF NoRequest, SessionRequests, Steps, Names
  <1>2. request[r] \in SessionRequests
    BY DEF SessionsInv, SessionParts, SessionTypes
  <1>3. ASSUME NEW step \in Steps
        PROVE  /\ [request[r] EXCEPT !.step = step] \in SessionRequests
               /\ [request[r] EXCEPT !.step = step].step = step
    BY <1>2 DEF SessionRequests
  <1> QED  BY <1>1, <1>2, <1>3 DEF Finished, Goto

LEMMA SendInv == SessionsInv /\ Send => SessionParts'
  <1> SUFFICES ASSUME SessionsInv, Send PROVE SessionParts'
    OBVIOUS
  <1>0. MaxRequests \in Nat /\ count \in 0..MaxRequests
    BY DEF SessionsInv, ConstantsAreSound, SessionParts, SessionTypes
  <1>1. PICK q : /\ q \in SessionRequests /\ q.step = "sent"
                 /\ request' = [request EXCEPT ![count + 1] = q]
    <2>1. PICK k \in RequestKinds, u \in Callers,
               s \in Known \cup {0},
               c \in AllCalls \cup {Absent} :
            request' = [request EXCEPT ![count + 1] =
              [kind |-> k, by |-> u, sid |-> s, call |-> c, step |-> "sent", as |-> Absent]]
      <3>1. PICK k \in RequestKinds, u \in Callers :
              \E s \in Known \cup (IF k = "initialize" THEN {0} ELSE {}),
                 c \in IF k = "call" THEN Calls[mode] ELSE {Absent} :
                request' = [request EXCEPT ![count + 1] =
                  [kind |-> k, by |-> u, sid |-> s, call |-> c, step |-> "sent", as |-> Absent]]
        BY DEF Send
      <3>2. Calls[mode] \subseteq AllCalls
        BY DEF SessionsInv, SessionParts, SessionTypes, AllCalls
      <3> QED  BY <3>1, <3>2
    <2>2. s \in Sids \cup {0}
      BY DEF Known, SessionsInv, SessionParts, SessionTypes
    <2>3. u \in Users \cup {Absent}
      BY DEF Callers
    <2>4. [kind |-> k, by |-> u, sid |-> s, call |-> c, step |-> "sent", as |-> Absent] \in SessionRequests
      BY <2>2, <2>3 DEF SessionRequests, Steps, Names
    <2> QED  BY <2>1, <2>4
  <1>2. count + 1 \in Sids /\ count' = count + 1 /\ count' \in 0..MaxRequests
    BY <1>0 DEF Send, Sids
  <1>3. request \in [Sids -> SessionRequests] /\ request' \in [Sids -> SessionRequests]
    BY <1>1, <1>2 DEF SessionsInv, SessionParts, SessionTypes
  <1>4. request[count + 1].step = "none"
    BY <1>0, <1>2 DEF SessionsInv, SessionParts, IdsAreUsedOnce
  <1>5. Gone' \subseteq Gone
    BY <1>1, <1>3 DEF Gone, Send, server
  <1>6. IdsAreUsedOnce'
    <2>1. ASSUME NEW r \in Sids, r > count'
          PROVE  request'[r].step = "none"
      BY <2>1, <1>0, <1>1, <1>2, <1>3 DEF SessionsInv, SessionParts, IdsAreUsedOnce, Sids
    <2>2. ASSUME NEW s \in sessions' \cup Gone'
          PROVE  s <= count' /\ request'[s].step = "none"
      <3>1. s \in sessions \cup Gone /\ s \in Sids
        BY <1>5 DEF Send, held, SessionsInv, SessionParts, SessionTypes, Gone
      <3>2. s <= count /\ request[s].step = "none"
        BY <3>1 DEF SessionsInv, SessionParts, IdsAreUsedOnce
      <3> QED  BY <3>1, <3>2, <1>0, <1>1, <1>2, <1>3 DEF Sids
    <2> QED  BY <2>1, <2>2, <1>5 DEF IdsAreUsedOnce, SessionsInv, SessionParts, Send, held
  <1>7. TimersInv'
    BY SameKeepsTimers DEF Send, server
  <1> QED  BY <1>2, <1>3, <1>6, <1>7, TypeFromParts DEF SessionsInv, SessionParts, SessionTypes, Send, server, accounts

LEMMA PostToSessionInv == \A r \in Sids : SessionsInv /\ PostToSession(r) => SessionParts'
  <1> SUFFICES ASSUME NEW r \in Sids, SessionsInv, PostToSession(r) PROVE SessionParts'
    OBVIOUS
  <1>1. TimersInv'
    BY ResetKeepsTimers DEF PostToSession, Reaches, server
  <1>2. PICK q \in SessionRequests : /\ request' = [request EXCEPT ![r] = q]
                                     /\ q.step # "closing"
    BY RequestMoves DEF PostToSession, Steps
  <1> QED  BY <1>1, <1>2, RequestStep DEF PostToSession, held, server, SessionsInv, SessionParts, SessionTypes

\* Requests that are answered at once, and those that go on.
LEMMA QuietStepInv ==
    ASSUME SessionsInv, NEW r \in Sids, request[r].step # "none",
           request' = Finished(r) \/ \E step \in Steps \ {"closing"} : request' = Goto(r, step),
           UNCHANGED <<mode, count, held, timers, server, accounts>>
    PROVE  SessionParts'
  <1>1. TimersInv'
    BY SameKeepsTimers DEF server
  <1>2. PICK q \in SessionRequests : /\ request' = [request EXCEPT ![r] = q]
                                     /\ q.step # "closing"
    <2>1. CASE request' = Finished(r)
      BY <2>1, RequestMoves
    <2>2. CASE \E step \in Steps \ {"closing"} : request' = Goto(r, step)
      <3>1. PICK step \in Steps \ {"closing"} : request' = Goto(r, step)
        BY <2>2
      <3>2. /\ [request[r] EXCEPT !.step = step] \in SessionRequests
            /\ [request[r] EXCEPT !.step = step].step = step
            /\ request' = [request EXCEPT ![r] = [request[r] EXCEPT !.step = step]]
        BY <3>1, RequestMoves
      <3> QED  BY <3>2
    <2> QED  BY <2>1, <2>2
  <1> QED  BY <1>1, <1>2, RequestStep DEF held, server, SessionsInv, SessionParts, SessionTypes

LEMMA RefuseInv == \A r \in Sids : SessionsInv /\ Refuse(r) => SessionParts'
  BY QuietStepInv DEF Refuse

LEMMA InitializeInv == \A r \in Sids : SessionsInv /\ Initialize(r) => SessionParts'
  <1> SUFFICES ASSUME NEW r \in Sids, SessionsInv, Initialize(r) PROVE SessionParts'
    OBVIOUS
  <1>1. "answering" \in Steps \ {"closing"}
    BY DEF Steps
  <1> QED  BY <1>1, QuietStepInv DEF Initialize

LEMMA StopListeningInv == \A r \in Sids : SessionsInv /\ StopListening(r) => SessionParts'
  BY QuietStepInv DEF StopListening

LEMMA AnswerInv == \A r \in Sids : SessionsInv /\ Answer(r) => SessionParts'
  BY QuietStepInv DEF Answer

LEMMA RegisteredInv == \A r \in Sids : SessionsInv /\ Registered(r) => SessionParts'
  <1> SUFFICES ASSUME NEW r \in Sids, SessionsInv, Registered(r) PROVE SessionParts'
    OBVIOUS
  <1>0. IdleTime \in Nat
    BY DEF SessionsInv, ConstantsAreSound
  <1>1. /\ left' = [left EXCEPT ![r] = {IdleTime}]
        /\ booked' = booked \cup {r}
        /\ quiet' = [quiet EXCEPT ![r] = 0]
    BY ResetIsAlone DEF Registered
  <1>2. request[r] \in SessionRequests /\ request[r].by \in Users \cup {Absent}
    BY RequestMoves DEF SessionRequests
  <1>3. TimersInv'
    <2>1. /\ sessions' \subseteq Sids /\ booked' \subseteq Sids /\ selections' \subseteq Sids
          /\ sub' \in [Sids -> Users \cup {Absent}]
          /\ left' \in [Sids -> SUBSET (0..IdleTime)]
          /\ quiet' \in [Sids -> 0..IdleTime]
      BY <1>0, <1>1, <1>2, TimersInvHolds DEF TimersInv, Registered
    <2>2. NothingOutlivesItsSession'
      BY <1>1, TimersInvHolds DEF TimersInv, NothingOutlivesItsSession, Registered
    <2>3. TimersCountQuiet'
      BY <1>0, <1>1, TimersInvHolds DEF TimersInv, TimersCountQuiet
    <2>4. auth' # "ready" => selections' = {}
      BY TimersInvHolds DEF TimersInv, Registered, server
    <2> QED  BY <2>1, <2>2, <2>3, <2>4 DEF TimersInv
  <1>4. request \in [Sids -> SessionRequests] /\ request' = [request EXCEPT ![r] = NoRequest]
    BY RequestMoves DEF Registered, SessionsInv, SessionParts, SessionTypes
  <1>5. request' \in [Sids -> SessionRequests]
    BY <1>4, RequestMoves
  <1>6. r \notin Gone /\ r <= count
    <2>1. ~ (r > count) /\ r \in Int /\ count \in Int
      BY DEF SessionsInv, ConstantsAreSound, SessionParts, IdsAreUsedOnce, Registered, SessionTypes, Sids
    <2>2. r \notin Gone
      BY DEF SessionsInv, SessionParts, IdsAreUsedOnce, Registered
    <2> QED  BY <2>1, <2>2
  <1>7. Gone' \subseteq Gone
    BY <1>4, RequestMoves DEF Gone, Registered, server
  <1>8. IdsAreUsedOnce'
    <2>1. count' = count /\ sessions' = sessions \cup {r} /\ sessions \subseteq Sids
      BY DEF Registered, SessionsInv, SessionParts, SessionTypes
    <2>2. \A q \in Sids : request'[q] = IF q = r THEN NoRequest ELSE request[q]
      BY <1>4
    <2>3. \A q \in Sids : /\ q > count' => request'[q].step = "none"
                          /\ request'[q].step = "closing" => request'[q].sid \in Sids
      BY <2>1, <2>2, RequestMoves DEF SessionsInv, SessionParts, IdsAreUsedOnce
    <2>4. \A q \in sessions' \cup Gone' : q <= count' /\ request'[q].step = "none"
      BY <1>6, <1>7, <2>1, <2>2, RequestMoves DEF SessionsInv, SessionParts, IdsAreUsedOnce, Gone
    <2>5. Gone' \cap sessions' = {}
      BY <1>6, <1>7, <2>1 DEF SessionsInv, SessionParts, IdsAreUsedOnce
    <2> QED  BY <2>3, <2>4, <2>5 DEF IdsAreUsedOnce
  <1> QED  BY <1>3, <1>5, <1>8, TypeFromParts DEF SessionsInv, SessionParts, SessionTypes, Registered, server, accounts

LEMMA ListenInv == \A r \in Sids : SessionsInv /\ Listen(r) => SessionParts'
  <1> SUFFICES ASSUME NEW r \in Sids, SessionsInv, Listen(r) PROVE SessionParts'
    OBVIOUS
  <1>1. TimersInv'
    BY ResetKeepsTimers DEF Listen, Reaches, server
  <1>2. PICK q \in SessionRequests : /\ request' = [request EXCEPT ![r] = q]
                                     /\ q.step # "closing"
    BY RequestMoves DEF Listen, Steps
  <1> QED  BY <1>1, <1>2, RequestStep DEF Listen, held, server, SessionsInv, SessionParts, SessionTypes

LEMMA DeleteInv == \A r \in Sids : SessionsInv /\ Delete(r) => SessionParts'
  <1> SUFFICES ASSUME NEW r \in Sids, SessionsInv, Delete(r) PROVE SessionParts'
    OBVIOUS
  <1> DEFINE s == request[r].sid
             ended == StreamsEnd(s)
  <1>1. s \in sessions /\ s \in Sids
    BY DEF Delete, Reaches, SessionsInv, SessionParts, SessionTypes
  <1>2. TimersInv' /\ sessions' = sessions \ {s}
    BY <1>1, CloseKeepsTimers, CloseIsClean DEF Delete, server
  <1>3. /\ ended \in [Sids -> SessionRequests]
        /\ \A q \in Sids : \/ ended[q] = request[q]
                           \/ (request[q].step = "listening" /\ ended[q] = NoRequest)
    BY <1>1, StreamsEndTyped
  <1>4. request' = [ended EXCEPT ![r].step = "closing"]
    BY DEF Delete
  <1>5. ended[r] = request[r]
    BY <1>3 DEF Delete
  <1>6. request' = [ended EXCEPT ![r] = [request[r] EXCEPT !.step = "closing"]]
    BY <1>4, <1>5
  <1>7. "closing" \in Steps
    BY DEF Steps
  <1> HIDE DEF ended
  <1>8. request' \in [Sids -> SessionRequests] /\ request'[r] = [request[r] EXCEPT !.step = "closing"]
    BY <1>3, <1>6, <1>7, RequestMoves
  <1>9. \A q \in Sids \ {r} : request'[q] = ended[q]
    BY <1>3, <1>6
  <1>10. request'[r].sid = s
    BY <1>8, RequestMoves DEF SessionRequests
  <1>11. IdsAreUsedOnce'
    <2>1. \A q \in Sids : request[q].step = "none" => request'[q].step = "none"
      BY <1>3, <1>9 DEF Delete
    <2>2. \A q \in Sids : request'[q].step = "closing" =>
             \/ request[q].step = "closing" /\ request'[q].sid = request[q].sid
             \/ request'[q].sid \in sessions \ sessions'
      BY <1>1, <1>2, <1>3, <1>9, <1>10, RequestMoves
    <2> QED  BY <1>2, <2>1, <2>2, IdsKept DEF Delete, server
  <1> QED  BY <1>2, <1>8, <1>11, TypeFromParts DEF SessionsInv, SessionParts, SessionTypes, Delete, server, accounts

LEMMA DeletedInv == \A r \in Sids : SessionsInv /\ Deleted(r) => SessionParts'
  <1> SUFFICES ASSUME NEW r \in Sids, SessionsInv, Deleted(r) PROVE SessionParts'
    OBVIOUS
  <1> DEFINE s == request[r].sid
  <1>1. s \in Sids \cup {0}
    BY RequestMoves DEF SessionRequests
  <1>2. s \in Sids /\ s \in Gone
    BY DEF Deleted, SessionsInv, SessionParts, Gone, IdsAreUsedOnce
  <1>3. TimersInv' /\ sessions' = sessions
    <2>1. OnClose(s, {}) /\ UNCHANGED auth
      BY DEF Deleted, server
    <2>2. TimersInv'
      BY <1>2, <2>1, CloseKeepsTimers
    <2>3. sessions' = sessions \ {s}
      BY <1>2, <2>1, CloseIsClean
    <2>4. s \notin sessions
      BY <1>2 DEF SessionsInv, SessionParts, IdsAreUsedOnce
    <2> QED  BY <2>2, <2>3, <2>4
  <1>4. NoRequest \in SessionRequests /\ NoRequest.step # "closing" /\ request' = [request EXCEPT ![r] = NoRequest]
    BY RequestMoves DEF Deleted
  <1>5. request[r].step # "none" /\ UNCHANGED <<mode, count, closing, down, auth, accounts>>
    BY DEF Deleted, server
  <1>6. auth' \in {"none", "building", "ready"}
    BY <1>5 DEF SessionsInv, SessionParts, SessionTypes
  <1> QED  BY <1>3, <1>4, <1>5, <1>6, RequestStep

LEMMA TickInv == SessionsInv /\ Tick => SessionParts'
  <1> SUFFICES ASSUME SessionsInv, Tick PROVE SessionParts'
    OBVIOUS
  <1>0. IdleTime \in Nat
    BY DEF SessionsInv, ConstantsAreSound
  <1>1. ASSUME NEW s \in Sids, NEW t \in left'[s]
        PROVE  /\ t \in 0..IdleTime /\ t + 1 \in left[s] /\ left'[s] = {t}
               /\ s \in sessions /\ quiet'[s] + t = IdleTime
    <2>1. PICK u \in left[s] : t = u - 1
      BY <1>1 DEF Tick
    <2>2. u \in 0..IdleTime /\ u # 0
      BY <2>1 DEF Tick, SessionsInv, SessionParts, SessionTypes
    <2>3. s \in sessions /\ left[s] = {u} /\ quiet[s] + u = IdleTime /\ quiet[s] \in 0..IdleTime
      BY DEF SessionsInv, SessionParts, NothingOutlivesItsSession, TimersCountQuiet, SessionTypes
    <2>4. quiet[s] < IdleTime
      BY <1>0, <2>2, <2>3
    <2>5. quiet'[s] = quiet[s] + 1
      BY <2>3, <2>4 DEF Tick
    <2>6. left'[s] = {t}
      BY <2>1, <2>3 DEF Tick
    <2> QED  BY <1>0, <2>1, <2>2, <2>3, <2>5, <2>6
  <1>2. left' \in [Sids -> SUBSET (0..IdleTime)]
    <2>1. \A s \in Sids : left'[s] \subseteq 0..IdleTime
      BY <1>1
    <2> QED  BY <2>1 DEF Tick
  <1>3. quiet' \in [Sids -> 0..IdleTime]
    BY <1>0 DEF Tick, SessionsInv, SessionParts, SessionTypes
  <1>4. TimersInv'
    BY <1>1, <1>2, <1>3, TimersInvHolds
       DEF TimersInv, Tick, held, server, NothingOutlivesItsSession, TimersCountQuiet
  <1>5. IdsAreUsedOnce'
    BY IdsKept DEF Tick, held, server
  <1> QED  BY <1>4, <1>5, TypeFromParts DEF SessionsInv, SessionParts, SessionTypes, Tick, server, accounts

\* A session closed by its timer or by the shutdown.
LEMMA CloserInv ==
    ASSUME SessionsInv, NEW s \in sessions, NEW k \in {"timer", "shutdown"}, NEW fired,
           OnClose(s, fired),
           request' = StreamsEnd(s),
           closing' = closing \cup {<<k, s>>},
           UNCHANGED <<mode, count, auth, down, accounts>>
    PROVE  SessionParts'
  <1>1. s \in Sids
    BY DEF SessionsInv, SessionParts, SessionTypes
  <1>2. TimersInv' /\ sessions' = sessions \ {s}
    BY <1>1, CloseKeepsTimers, CloseIsClean
  <1>3. /\ request' \in [Sids -> SessionRequests]
        /\ \A q \in Sids : \/ request'[q] = request[q]
                           \/ (request[q].step = "listening" /\ request'[q] = NoRequest)
    BY <1>1, StreamsEndTyped
  <1>4. NoRequest.step = "none"
    BY DEF NoRequest
  <1>5. \A c : \A q \in Sids : <<c, q>> \in closing' => <<c, q>> \in closing \/ q \in sessions \ sessions'
    BY <1>2
  <1>6. IdsAreUsedOnce'
    BY <1>2, <1>3, <1>4, <1>5, IdsKept
  <1>7. closing' \subseteq {"timer", "shutdown"} \X Sids
    BY <1>1 DEF SessionsInv, SessionParts, SessionTypes
  <1> QED  BY <1>2, <1>3, <1>6, <1>7, TypeFromParts DEF SessionsInv, SessionParts, SessionTypes, accounts

\* The rest of a closer, which finds nothing left to forget.
LEMMA CloserEndsInv ==
    ASSUME SessionsInv, NEW s \in Sids, NEW k \in {"timer", "shutdown"},
           <<k, s>> \in closing,
           OnClose(s, {}),
           closing' = closing \ {<<k, s>>},
           UNCHANGED <<mode, count, request, auth, down, accounts>>
    PROVE  SessionParts' /\ sessions' = sessions
  <1>1. s \in Gone
    BY DEF Gone
  <1>2. TimersInv' /\ sessions' = sessions
    <2>1. TimersInv'
      BY CloseKeepsTimers
    <2>2. sessions' = sessions \ {s}
      BY CloseIsClean
    <2>3. s \notin sessions
      BY <1>1 DEF SessionsInv, SessionParts, IdsAreUsedOnce
    <2> QED  BY <2>1, <2>2, <2>3
  <1>3. IdsAreUsedOnce'
    BY <1>2, IdsKept
  <1> QED  BY <1>2, <1>3, TypeFromParts DEF SessionsInv, SessionParts, SessionTypes, accounts

LEMMA TimerFiresInv == \A s \in Sids : SessionsInv /\ TimerFires(s) => SessionParts'
  <1> SUFFICES ASSUME NEW s \in Sids, SessionsInv, TimerFires(s) PROVE SessionParts'
    OBVIOUS
  <1>1. s \in sessions
    BY DEF TimerFires, SessionsInv, SessionParts, NothingOutlivesItsSession
  <1> QED  BY <1>1, CloserInv DEF TimerFires

LEMMA TimerEndsInv == \A s \in Sids : SessionsInv /\ TimerEnds(s) => SessionParts' /\ sessions' = sessions
  BY CloserEndsInv DEF TimerEnds

LEMMA ShutdownClosesInv == \A s \in Sids : SessionsInv /\ ShutdownCloses(s) => SessionParts'
  BY CloserInv DEF ShutdownCloses

LEMMA ShutdownGoesOnInv ==
    \A s \in Sids : SessionsInv /\ ShutdownGoesOn(s) => SessionParts' /\ sessions' = sessions
  BY CloserEndsInv DEF ShutdownGoesOn

\* Steps that leave requests, sessions and timers alone.
LEMMA ElsewhereInv ==
    ASSUME SessionsInv, UNCHANGED <<mode, count, request, held, timers, auth, closing>>,
           table' \in OnFile[mode'], changes' \in 0..MaxChanges,
           down' \in {"up", "closing", "draining", "exited"}
    PROVE  SessionParts'
  <1>1. TimersInv'
    BY SameKeepsTimers
  <1>2. IdsAreUsedOnce'
    BY IdsKept DEF held
  <1> QED  BY <1>1, <1>2, TypeFromParts DEF SessionsInv, SessionParts, SessionTypes

LEMMA SignalInv == SessionsInv /\ Signal => SessionParts'
  BY ElsewhereInv DEF Signal, accounts, SessionsInv, SessionParts, SessionTypes

LEMMA DrainInv == SessionsInv /\ Drain => SessionParts'
  BY ElsewhereInv DEF Drain, accounts, SessionsInv, SessionParts, SessionTypes

LEMMA AccountsChangeInv == SessionsInv /\ AccountsChange => SessionParts'
  <1> SUFFICES ASSUME SessionsInv, AccountsChange PROVE SessionParts'
    OBVIOUS
  <1>1. changes' \in 0..MaxChanges
    BY DEF SessionsInv, ConstantsAreSound, AccountsChange, SessionParts, SessionTypes
  <1> QED  BY <1>1, ElsewhereInv DEF AccountsChange, server, SessionsInv, SessionParts, SessionTypes

LEMMA ExitInv == SessionsInv /\ Exit => SessionParts'
  <1> SUFFICES ASSUME SessionsInv, Exit PROVE SessionParts'
    OBVIOUS
  <1>1. NoRequest \in SessionRequests /\ NoRequest.step = "none"
    BY DEF NoRequest, SessionRequests, Steps, Names
  <1>2. TimersInv'
    BY DEF SessionsInv, ConstantsAreSound, Exit, TimersInv, NothingOutlivesItsSession, TimersCountQuiet
  <1>3. IdsAreUsedOnce'
    BY <1>1 DEF Exit, IdsAreUsedOnce, Gone
  <1> QED  BY <1>1, <1>2, <1>3, TypeFromParts DEF Exit, SessionsInv, SessionParts, SessionTypes, accounts

LEMMA EnsureAuthInv == \A r \in Sids : SessionsInv /\ EnsureAuth(r) => SessionParts'
  <1> SUFFICES ASSUME NEW r \in Sids, SessionsInv, EnsureAuth(r) PROVE SessionParts'
    OBVIOUS
  <1>1. TimersInv'
    BY SameKeepsTimers DEF EnsureAuth
  <1>2. PICK q \in SessionRequests : /\ request' = [request EXCEPT ![r] = q]
                                     /\ q.step # "closing"
    BY RequestMoves DEF EnsureAuth, Steps
  <1> QED  BY <1>1, <1>2, RequestStep DEF EnsureAuth, held, SessionsInv, SessionParts, SessionTypes

LEMMA BuildEndsInv == \A ok \in BOOLEAN : SessionsInv /\ BuildEnds(ok) => SessionParts'
  <1> SUFFICES ASSUME NEW ok \in BOOLEAN, SessionsInv, BuildEnds(ok) PROVE SessionParts'
    OBVIOUS
  <1>1. TimersInv'
    BY SameKeepsTimers DEF BuildEnds
  <1>2. "dispatch" \in Steps
    BY DEF Steps
  <1>3. ASSUME NEW r \in Sids
        PROVE  /\ request'[r] \in SessionRequests
               /\ request'[r] = request[r] \/ (request[r].step = "waiting" /\ request'[r].step # "closing")
    BY <1>2, RequestMoves DEF BuildEnds, Woken
  <1>4. request' \in [Sids -> SessionRequests]
    BY <1>3 DEF BuildEnds
  <1>5. IdsAreUsedOnce'
    BY <1>3, IdsKept DEF BuildEnds, held
  <1> QED  BY <1>1, <1>4, <1>5, TypeFromParts DEF BuildEnds, SessionsInv, SessionParts, SessionTypes, accounts

LEMMA DispatchInv == \A r \in Sids : SessionsInv /\ Dispatch(r) => SessionParts'
  <1> SUFFICES ASSUME NEW r \in Sids, SessionsInv, Dispatch(r) PROVE SessionParts'
    OBVIOUS
  <1>1. CASE Targets(r) = {}
    BY <1>1, QuietStepInv DEF Dispatch
  <1>2. CASE Targets(r) # {}
    <2>1. PICK a \in Targets(r) :
             request' = [request EXCEPT ![r].step = "running", ![r].as = a]
      BY <1>2 DEF Dispatch
    <2>2. a \in Names
      BY TargetsAreNames DEF SessionsInv, SessionParts
    <2> DEFINE p == [request[r] EXCEPT !.step = "running"]
               q == [p EXCEPT !.as = a]
    <2>3. q \in SessionRequests /\ q.step = "running"
      <3>1. p \in SessionRequests /\ p.step = "running"
        BY RequestMoves DEF Steps
      <3> HIDE DEF p
      <3> QED  BY <2>2, <3>1 DEF SessionRequests
    <2>4. request' = [request EXCEPT ![r] = q]
      <3>1. request \in [Sids -> SessionRequests]
        BY DEF SessionsInv, SessionParts, SessionTypes
      <3> QED  BY <2>1, <3>1, Zenon
    <2>5. TimersInv'
      BY SameKeepsTimers DEF Dispatch, server
    <2> HIDE DEF q
    <2> QED  BY Zenon, <2>3, <2>4, <2>5, RequestStep DEF Dispatch, held, server, SessionsInv, SessionParts, SessionTypes
  <1> QED  BY <1>1, <1>2

LEMMA SessionsStep == SessionsInv /\ [SessionsNext]_sessionVars => SessionParts'
  <1> SUFFICES ASSUME SessionsInv, [SessionsNext]_sessionVars PROVE SessionParts'
    OBVIOUS
  <1>1. CASE Send \/ Tick \/ Signal \/ AccountsChange
    BY <1>1, SendInv, TickInv, SignalInv, AccountsChangeInv
  <1>2. CASE Shutdown
    BY <1>2, ShutdownClosesInv, ShutdownGoesOnInv, DrainInv, ExitInv DEF Shutdown
  <1>3. ASSUME NEW r \in Sids, Handle(r) \/ StopListening(r) \/ Timer(r)
        PROVE  SessionParts'
    <2>1. CASE PostToSession(r) \/ Refuse(r) \/ Initialize(r) \/ Registered(r)
      BY <2>1, PostToSessionInv, RefuseInv, InitializeInv, RegisteredInv
    <2>2. CASE Listen(r) \/ Delete(r) \/ Deleted(r) \/ StopListening(r)
      BY <2>2, ListenInv, DeleteInv, DeletedInv, StopListeningInv
    <2>3. CASE EnsureAuth(r) \/ Dispatch(r) \/ Answer(r)
      BY <2>3, EnsureAuthInv, DispatchInv, AnswerInv
    <2>4. CASE Timer(r)
      BY <2>4, TimerFiresInv, TimerEndsInv DEF Timer
    <2> QED  BY <1>3, <2>1, <2>2, <2>3, <2>4 DEF Handle
  <1>4. ASSUME NEW ok \in BOOLEAN, BuildEnds(ok) PROVE SessionParts'
    BY <1>4, BuildEndsInv
  <1>5. CASE UNCHANGED sessionVars
    BY <1>5, ElsewhereInv DEF sessionVars, held, timers, server, accounts, SessionsInv, SessionParts, SessionTypes
  <1> QED  BY <1>1, <1>2, <1>3, <1>4, <1>5 DEF SessionsNext

\* SessionsInv is an invariant of the sessions.
THEOREM SessionsInvariance == SessionsSpec => []SessionsInv
  <1>1. SessionsInit => SessionsInv
    BY SessionsStart, SessionsAssumption
  <1>2. SessionsInv /\ [SessionsNext]_sessionVars => SessionsInv'
    <2>1. ConstantsAreSound'
      BY SessionsAssumption DEF ConstantsAreSound
    <2> QED BY <2>1, SessionsStep DEF SessionsInv
  <1> QED BY <1>1, <1>2, PTL DEF SessionsSpec

\* A closed session leaves no timer, handle or selection behind, in any order
\* of requests, closes, timeouts and the shutdown.
THEOREM CleanSessions == SessionsSpec => []NothingOutlivesItsSession
  <1>0. SessionsSpec => []SessionsInv
    BY SessionsInvariance
  <1>1. SessionsInv => NothingOutlivesItsSession
    BY DEF SessionsInv, SessionParts
  <1> QED  BY <1>1, <1>0, PTL

----------------------------------------------------------------------------
(* What a step may do to a session *)

\* Only its own user's DELETE, the shutdown or a whole idle time without a
\* request closes a session.
THEOREM OnlyForCause == SessionsSpec => ClosedForCause
  <1>0. SessionsSpec => []SessionsInv
    BY SessionsInvariance
  <1> DEFINE Caused == \A s \in sessions \ sessions' :
          \/ down # "up"
          \/ quiet[s] = IdleTime
          \/ \E r \in Sids :
                /\ request[r].kind = "delete" /\ request[r].sid = s
                /\ request[r].step = "sent" /\ request'[r].step = "closing"
                /\ mode = "team" => request[r].by = sub[s]
  <1>1. SessionsInv /\ [SessionsNext]_sessionVars => Caused
    <2> SUFFICES ASSUME SessionsInv, [SessionsNext]_sessionVars, NEW s \in sessions \ sessions', down = "up"
                 PROVE  \/ quiet[s] = IdleTime
                        \/ \E r \in Sids :
                              /\ request[r].kind = "delete" /\ request[r].sid = s
                              /\ request[r].step = "sent" /\ request'[r].step = "closing"
                              /\ mode = "team" => request[r].by = sub[s]
      OBVIOUS
    <2>0. sessions' # sessions /\ s \in Sids
      BY DEF SessionsInv, SessionParts, SessionTypes
    <2>1. CASE Send \/ Tick \/ Signal \/ AccountsChange \/ UNCHANGED sessionVars \/ \E ok \in BOOLEAN : BuildEnds(ok)
      BY <2>0, <2>1 DEF Send, Tick, Signal, AccountsChange, BuildEnds, sessionVars, held
    <2>2. CASE Shutdown
      <3>1. ASSUME NEW q \in Sids, ShutdownGoesOn(q) PROVE FALSE
        BY <2>0, <3>1, ShutdownGoesOnInv
      <3> QED  BY <2>0, <2>2, <3>1 DEF Shutdown, ShutdownCloses, Drain, Exit
    <2>3. ASSUME NEW r \in Sids,
                 PostToSession(r) \/ Refuse(r) \/ Initialize(r) \/ Registered(r)
                   \/ Listen(r) \/ StopListening(r) \/ EnsureAuth(r) \/ Dispatch(r) \/ Answer(r)
          PROVE FALSE
      BY <2>0, <2>3 DEF PostToSession, Refuse, Initialize, Registered, Listen, StopListening,
                        EnsureAuth, Dispatch, Answer, held
    <2>4. ASSUME NEW r \in Sids, Deleted(r) PROVE FALSE
      <3>1. request[r].sid \in Gone
        BY <2>4 DEF Deleted, SessionsInv, SessionParts, IdsAreUsedOnce, Gone
      <3>2. sessions' = sessions \ {request[r].sid}
        BY <2>4 DEF Deleted, OnClose, Forget
      <3> QED  BY <2>0, <3>1, <3>2 DEF SessionsInv, SessionParts, IdsAreUsedOnce
    <2>5. ASSUME NEW r \in Sids, Delete(r)
          PROVE  /\ request[r].kind = "delete" /\ request[r].sid = s
                 /\ request[r].step = "sent" /\ request'[r].step = "closing"
                 /\ mode = "team" => request[r].by = sub[s]
      <3>1. sessions' = sessions \ {request[r].sid} /\ Reaches(r) /\ request[r].kind = "delete"
            /\ request[r].step = "sent"
        BY <2>5 DEF Delete, OnClose, Forget
      <3>2. request[r].sid = s
        BY <3>1
      <3>3. StreamsEnd(s)[r] = request[r] /\ r \in DOMAIN StreamsEnd(s)
        BY <3>1 DEF StreamsEnd
      <3>4. request'[r] = [request[r] EXCEPT !.step = "closing"]
        BY <2>5, <3>2, <3>3 DEF Delete
      <3>5. request'[r].step = "closing"
        BY <3>4, RequestMoves DEF Steps
      <3> QED  BY <3>1, <3>2, <3>5 DEF Reaches, Belongs
    <2>6. ASSUME NEW q \in Sids, Timer(q) PROVE quiet[s] = IdleTime
      <3>1. TimerFires(q)
        BY <2>0, <2>6, TimerEndsInv DEF Timer
      <3>2. q = s /\ 0 \in left[s]
        BY <3>1 DEF TimerFires, OnClose, Forget, held
      <3> QED  BY <2>0, <3>2 DEF SessionsInv, SessionParts, TimersCountQuiet, SessionTypes
    <2> QED  BY <2>1, <2>2, <2>3, <2>4, <2>5, <2>6 DEF SessionsNext, Handle
  <1> QED  BY <1>1, <1>0, PTL DEF SessionsSpec, ClosedForCause

\* What each kind of step can do to a request that has only been sent.
LEMMA SentRequests ==
    ASSUME SessionsInv, [SessionsNext]_sessionVars, down' # "exited", NEW r \in Sids,
           request[r].step = "sent", request'[r] # request[r]
    PROVE  PostToSession(r) \/ Refuse(r) \/ Initialize(r) \/ Listen(r) \/ Delete(r)
  <1>0. request \in [Sids -> SessionRequests]
    BY DEF SessionsInv, SessionParts, SessionTypes
  <1>1. CASE Tick \/ Signal \/ AccountsChange \/ UNCHANGED sessionVars
    BY <1>1 DEF Tick, Signal, AccountsChange, sessionVars
  <1>2. CASE Send
    <2>1. PICK q : request' = [request EXCEPT ![count + 1] = q]
      BY <1>2 DEF Send
    <2>2. count \in 0..MaxRequests /\ MaxRequests \in Nat
      BY DEF SessionsInv, ConstantsAreSound, SessionParts, SessionTypes
    <2>3. r # count + 1
      BY <2>2 DEF SessionsInv, SessionParts, IdsAreUsedOnce
    <2> QED  BY <1>0, <2>1, <2>3
  <1>3. CASE Shutdown
    <2>1. \A s \in Sids : StreamsEnd(s)[r] = request[r]
      BY DEF StreamsEnd
    <2> QED  BY <1>3, <2>1 DEF Shutdown, ShutdownCloses, ShutdownGoesOn, Drain, Exit
  <1>4. ASSUME NEW ok \in BOOLEAN, BuildEnds(ok) PROVE FALSE
    BY <1>4 DEF BuildEnds, Woken
  <1>5. ASSUME NEW s \in Sids, Timer(s) PROVE FALSE
    <2>1. StreamsEnd(s)[r] = request[r]
      BY DEF StreamsEnd
    <2> QED  BY <1>5, <2>1 DEF Timer, TimerFires, TimerEnds
  <1>6. ASSUME NEW q \in Sids, Handle(q) \/ StopListening(q), q # r
        PROVE  FALSE
    <2>1. CASE \E v : request' = [request EXCEPT ![q] = v]
      BY <1>0, <1>6, <2>1
    <2>2. CASE Delete(q)
      <3>1. StreamsEnd(request[q].sid)[r] = request[r]
        BY DEF StreamsEnd
      <3>2. request'[r] = StreamsEnd(request[q].sid)[r]
        BY <1>6, <2>2 DEF Delete, StreamsEnd
      <3> QED  BY <3>1, <3>2
    <2>3. \A step : \E v : Goto(q, step) = [request EXCEPT ![q] = v]
      BY DEF Goto
    <2>4. \E v : Finished(q) = [request EXCEPT ![q] = v]
      BY DEF Finished
    <2>5. CASE Dispatch(q)
      <3>1. \A a : [request EXCEPT ![q].step = "running", ![q].as = a][r] = request[r]
        BY <1>0, <1>6
      <3>2. Finished(q)[r] = request[r]
        BY <1>0, <1>6 DEF Finished
      <3> QED  BY <2>5, <3>1, <3>2 DEF Dispatch
    <2>6. CASE PostToSession(q) \/ Refuse(q) \/ Initialize(q) \/ Registered(q) \/ Listen(q)
      BY <2>1, <2>3, <2>4, <2>6 DEF PostToSession, Refuse, Initialize, Registered, Listen
    <2>7. CASE StopListening(q) \/ Deleted(q) \/ EnsureAuth(q) \/ Answer(q)
      BY <2>1, <2>3, <2>4, <2>7 DEF StopListening, Deleted, EnsureAuth, Answer
    <2> QED  BY <1>6, <2>2, <2>5, <2>6, <2>7 DEF Handle
  <1>7. ASSUME Handle(r) \/ StopListening(r)
        PROVE  PostToSession(r) \/ Refuse(r) \/ Initialize(r) \/ Listen(r) \/ Delete(r)
    BY <1>7 DEF Handle, StopListening, Registered, Deleted, EnsureAuth, Dispatch, Answer
  <1> QED  BY <1>1, <1>2, <1>3, <1>4, <1>5, <1>6, <1>7 DEF SessionsNext

\* In team mode the id of another member's session is worth no more than an
\* unknown one.
THEOREM ForeignIdsAreWorthless == SessionsSpec => OnlyTheOpenerReaches
  <1>0. SessionsSpec => []SessionsInv
    BY SessionsInvariance
  <1> DEFINE Worthless(r) ==
          LET s == request[r].sid
          IN  request[r].step = "sent" /\ request'[r] # request[r] /\ down' # "exited"
              /\ s \in sessions /\ request[r].by # sub[s]
              => /\ s \in sessions' /\ left'[s] = left[s] /\ quiet'[s] = quiet[s]
                 /\ request'[r].step \in {"none", "answering"}
                 /\ \A q \in Sids \ {r} : request'[q] = request[q]
  <1>1. SessionsInv /\ [SessionsNext]_sessionVars => (mode = "team" => \A r \in Sids : Worthless(r))
    <2> SUFFICES ASSUME SessionsInv, [SessionsNext]_sessionVars, mode = "team", NEW r \in Sids,
                        request[r].step = "sent", request'[r] # request[r], down' # "exited",
                        request[r].sid \in sessions, request[r].by # sub[request[r].sid]
                 PROVE  LET s == request[r].sid
                        IN  /\ s \in sessions' /\ left'[s] = left[s] /\ quiet'[s] = quiet[s]
                            /\ request'[r].step \in {"none", "answering"}
                            /\ \A q \in Sids \ {r} : request'[q] = request[q]
      OBVIOUS
    <2>1. ~ Reaches(r)
      BY DEF Reaches, Belongs
    <2>2. Refuse(r) \/ Initialize(r)
      BY <2>1, SentRequests DEF PostToSession, Listen, Delete
    <2>3. request' = Goto(r, "answering") \/ request' = Finished(r)
      BY <2>2 DEF Refuse, Initialize
    <2>4. UNCHANGED <<held, timers>>
      BY <2>2 DEF Refuse, Initialize
    <2>5. request'[r].step \in {"none", "answering"} /\ \A q \in Sids \ {r} : request'[q] = request[q]
      <3>1. request \in [Sids -> SessionRequests] /\ "answering" \in Steps
        BY DEF SessionsInv, SessionParts, SessionTypes, Steps
      <3>2. CASE request' = Finished(r)
        BY <3>1, <3>2, RequestMoves
      <3>3. CASE request' = Goto(r, "answering")
        <4>1. /\ [request[r] EXCEPT !.step = "answering"].step = "answering"
              /\ request' = [request EXCEPT ![r] = [request[r] EXCEPT !.step = "answering"]]
          BY <3>1, <3>3, RequestMoves
        <4> QED  BY <3>1, <4>1
      <3> QED  BY <2>3, <3>2, <3>3
    <2> QED  BY <2>4, <2>5 DEF held, timers
  <1> HIDE DEF Worthless
  <1>2. SessionsSpec => [][mode = "team" => \A r \in Sids : Worthless(r)]_sessionVars
    BY <1>1, <1>0, PTL DEF SessionsSpec
  <1> QED  BY <1>2 DEF OnlyTheOpenerReaches, Worthless

\* A call only begins to run when it is dispatched.
LEMMA RunsWhenDispatched ==
    ASSUME SessionsInv, [SessionsNext]_sessionVars, NEW r \in Sids,
           request[r].step # "running", request'[r].step = "running"
    PROVE  Dispatch(r)
  <1>0. request \in [Sids -> SessionRequests] /\ NoRequest.step # "running"
    BY DEF SessionsInv, SessionParts, SessionTypes, NoRequest
  <1>1. CASE Tick \/ Signal \/ AccountsChange \/ UNCHANGED sessionVars
    BY <1>1 DEF Tick, Signal, AccountsChange, sessionVars
  <1>2. CASE Send
    <2>1. PICK q : request' = [request EXCEPT ![count + 1] = q] /\ q.step = "sent"
      BY <1>2 DEF Send
    <2> QED  BY <1>0, <2>1
  <1>3. \A s \in Sids : StreamsEnd(s)[r].step # "running"
    BY <1>0 DEF StreamsEnd
  <1>4. CASE Shutdown
    BY <1>0, <1>3, <1>4 DEF Shutdown, ShutdownCloses, ShutdownGoesOn, Drain, Exit
  <1>5. ASSUME NEW ok \in BOOLEAN, BuildEnds(ok) PROVE FALSE
    <2>1. [request[r] EXCEPT !.step = "dispatch"].step = "dispatch"
      BY RequestMoves DEF Steps
    <2> QED  BY <1>0, <1>5, <2>1 DEF BuildEnds
  <1>6. ASSUME NEW s \in Sids, Timer(s) PROVE FALSE
    BY <1>3, <1>6 DEF Timer, TimerFires, TimerEnds
  <1>7. ASSUME NEW q \in Sids, Handle(q) \/ StopListening(q), ~ Dispatch(q)
        PROVE  FALSE
    <2>1. ASSUME request' = Finished(q) \/ \E step \in Steps \ {"running"} : request' = Goto(q, step)
          PROVE  FALSE
      <3>1. CASE request' = Finished(q)
        BY <1>0, <3>1 DEF Finished
      <3>2. CASE \E step \in Steps \ {"running"} : request' = Goto(q, step)
        <4>1. PICK step \in Steps \ {"running"} : request' = Goto(q, step)
          BY <3>2
        <4>2. /\ [request[q] EXCEPT !.step = step].step = step
              /\ request' = [request EXCEPT ![q] = [request[q] EXCEPT !.step = step]]
          BY ZenonT(30), <4>1, RequestMoves
        <4> QED  BY <1>0, <4>2
      <3> QED  BY <2>1, <3>1, <3>2
    <2>2. CASE Delete(q)
      <3> DEFINE ended == StreamsEnd(request[q].sid)
      <3>1. request[q].sid \in Sids
        BY <2>2 DEF Delete, Reaches, SessionsInv, SessionParts, SessionTypes
      <3>2. ended[r].step # "running" /\ ended[q] = request[q] /\ DOMAIN ended = Sids
        BY <1>3, <2>2, <3>1 DEF Delete, StreamsEnd
      <3>3. request' = [ended EXCEPT ![q] = [request[q] EXCEPT !.step = "closing"]]
        BY <2>2, <3>2 DEF Delete
      <3>4. [request[q] EXCEPT !.step = "closing"].step = "closing"
        BY RequestMoves DEF Steps
      <3> HIDE DEF ended
      <3> QED  BY <3>2, <3>3, <3>4
    <2>3. CASE PostToSession(q) \/ Refuse(q) \/ Initialize(q) \/ Registered(q) \/ Listen(q)
      BY <2>1, <2>3 DEF PostToSession, Refuse, Initialize, Registered, Listen, Steps
    <2>4. CASE StopListening(q) \/ Deleted(q) \/ EnsureAuth(q) \/ Answer(q)
      BY <2>1, <2>4 DEF StopListening, Deleted, EnsureAuth, Answer, Steps
    <2> QED  BY <1>7, <2>2, <2>3, <2>4 DEF Handle
  <1>8. ASSUME NEW q \in Sids, Dispatch(q), q # r
        PROVE  FALSE
    <2>1. \A a : [request EXCEPT ![q].step = "running", ![q].as = a][r] = request[r]
      BY <1>0, <1>8
    <2>2. Finished(q)[r] = request[r]
      BY <1>0, <1>8 DEF Finished
    <2> QED  BY <1>8, <2>1, <2>2 DEF Dispatch
  <1> QED  BY <1>1, <1>2, <1>4, <1>5, <1>6, <1>7, <1>8 DEF SessionsNext

\* Every call runs as the account it is meant for.
THEOREM RightAccount == SessionsSpec => CallsHitTheirAccount
  <1>0. SessionsSpec => []SessionsInv
    BY SessionsInvariance
  <1> DEFINE Right(r) ==
          request[r].step # "running" /\ request'[r].step = "running"
          => IF mode = "team"
             THEN RightForMember(request'[r].as, request[r].call, request[r].by, table.granted)
             ELSE RightLocally(request'[r].as, request[r].call, table.granted, table.def)
  <1>1. SessionsInv /\ [SessionsNext]_sessionVars => \A r \in Sids : Right(r)
    <2> SUFFICES ASSUME SessionsInv, [SessionsNext]_sessionVars, NEW r \in Sids,
                        request[r].step # "running", request'[r].step = "running"
                 PROVE  IF mode = "team"
                        THEN RightForMember(request'[r].as, request[r].call, request[r].by, table.granted)
                        ELSE RightLocally(request'[r].as, request[r].call, table.granted, table.def)
      OBVIOUS
    <2>1. Dispatch(r)
      BY RunsWhenDispatched
    <2>2. request \in [Sids -> SessionRequests]
      BY DEF SessionsInv, SessionParts, SessionTypes
    <2>3. Finished(r)[r].step = "none"
      BY <2>2 DEF Finished, NoRequest
    <2>4. PICK a \in Targets(r) :
             request' = [request EXCEPT ![r].step = "running", ![r].as = a]
      BY <2>1, <2>3 DEF Dispatch
    <2>5. request'[r].as = a
      <3>1. [request[r] EXCEPT !.step = "running"] \in SessionRequests
        BY RequestMoves DEF Steps
      <3>2. request'[r] = [[request[r] EXCEPT !.step = "running"] EXCEPT !.as = a]
        BY <2>2, <2>4, Zenon
      <3> QED  BY <3>1, <3>2 DEF SessionRequests
    <2>6. Absent \notin DOMAIN table.granted
      BY DEF SessionsInv, ConstantsAreSound, SessionParts, SessionTypes
    <2>7. CASE mode = "team"
      BY <2>4, <2>5, <2>7, MemberCallsAreRight DEF Targets
    <2>8. CASE mode # "team"
      BY <2>4, <2>5, <2>6, <2>8, LocalCallsAreRight DEF Targets
    <2> QED  BY <2>7, <2>8
  <1> HIDE DEF Right
  <1>2. SessionsSpec => [][\A r \in Sids : Right(r)]_sessionVars
    BY <1>1, <1>0, PTL DEF SessionsSpec
  <1> QED  BY <1>2 DEF CallsHitTheirAccount, Right
=============================================================================

------------------------------ MODULE Accounts ------------------------------
(***************************************************************************)
(* The Google accounts of one local user, shared by every server process   *)
(* that an MCP client starts:                                              *)
(*   src/src/auth/accountStore.ts          tokens.json, migration, queue   *)
(*   src/src/auth.ts                       boot and the first consent      *)
(*   src/src/auth/accountClientFactory.ts  cached clients and refreshes    *)
(*   src/src/index.ts                      add, remove, set the default    *)
(*                                                                         *)
(* A grant is one consent and stands for its refresh token; an account is  *)
(* the grant its record holds.  Access tokens are left out: a refresh is a *)
(* record that is written again.  A read and a rename are atomic; what is  *)
(* between them interleaves with everything else.                          *)
(***************************************************************************)
EXTENDS Integers, Sequences, FiniteSets

CONSTANTS
    Procs,              \* server processes on one tokens.json
    Serving,            \* those whose client calls tools
    Aliases,
    DefaultAlias,       \* the reserved alias "default"
    None,
    MaxGrants,          \* bounds of the model: consents, requests of the user,
    MaxOps,             \* failed reads and writes, and crashes
    MaxFaults

Grants == 1..MaxGrants

ASSUME ConstantsAssumption ==
    /\ DefaultAlias \in Aliases /\ Serving \subseteq Procs
    /\ None \notin Aliases
    /\ MaxGrants \in Nat \ {0}
    /\ {MaxOps, MaxFaults} \subseteq Nat

VARIABLES
    file,        \* tokens.json
    legacy,      \* the grant in a token file of an older release, 0 if none
    backups,     \* grants in files that were moved aside
    mem,         \* process -> its AccountStore.data
    stage,       \* process -> where it is
    queue,       \* process -> mutations behind writeQueue
    writing,     \* process -> the one being written, as a sequence
    flow,        \* process, alias -> addAccountFlow
    client,      \* process, alias -> grant of the cached client, 0 if none
    service,     \* process, alias -> the same of the cached Drive service
    waiting,     \* process, alias -> clients of the calls that wait for a refresh
    granted, ops, faults,
    letGo,       \* history: the user replaced or removed the oldest grant
    word         \* history: alias -> what the user's last request left, and
                 \* whether that stands or its file was moved aside since

disk == <<file, legacy, backups>>
queues == <<queue, writing>>
caches == <<client, service, waiting>>
counters == <<granted, ops, faults>>
history == <<letGo, word>>
vars == <<disk, mem, stage, queues, flow, caches, counters, history>>

NoAccounts == [a \in Aliases |-> 0]

Empty == [accounts |-> NoAccounts, def |-> None]

\* A file that holds nothing: absent, or one that cannot be parsed.
Blank(kind) == [kind |-> kind, accounts |-> NoAccounts, def |-> None]

\* buildRecordFromV1: one account, under the reserved alias.
FromV1(g) == [accounts |-> [NoAccounts EXCEPT ![DefaultAlias] = g], def |-> DefaultAlias]

AsFile(data) == [kind |-> "v2", accounts |-> data.accounts, def |-> data.def]

AsData(f) == [accounts |-> f.accounts, def |-> f.def]

GrantsIn(accounts) == {accounts[a] : a \in Aliases} \ {0}

OnDisk == GrantsIn(file.accounts) \cup ({legacy} \ {0}) \cup backups

NoFlow == [step |-> "none", existing |-> 0, grant |-> 0]

NoWord == [grant |-> 0, state |-> "none"]

Init ==
    /\ file \in {Blank("absent"), Blank("bad"), AsFile(FromV1(1)),
                 [kind |-> "v1", accounts |-> FromV1(1).accounts, def |-> None]}
    /\ legacy \in IF file = Blank("absent") THEN {0, 1} ELSE {0}
    /\ backups = {}
    /\ mem = [p \in Procs |-> Empty]
    /\ stage = [p \in Procs |-> "down"]
    /\ queue = [p \in Procs |-> <<>>]
    /\ writing = [p \in Procs |-> <<>>]
    /\ flow = [p \in Procs |-> [a \in Aliases |-> NoFlow]]
    /\ client = [p \in Procs |-> NoAccounts]
    /\ service = [p \in Procs |-> NoAccounts]
    /\ waiting = [p \in Procs |-> [a \in Aliases |-> {}]]
    /\ granted = 1 /\ ops = 0 /\ faults = 0
    /\ letGo = (1 \notin OnDisk)
    /\ word = [a \in Aliases |-> NoWord]

Fault == faults < MaxFaults /\ faults' = faults + 1 /\ UNCHANGED <<granted, ops>>

\* A step that may fail: it counts when it does.
Succeeds(ok) == IF ok THEN UNCHANGED counters ELSE Fault

-----------------------------------------------------------------------------
(***************************************************************************)
(* Boot: AccountStore.reload and buildAuthSystem.                          *)
(***************************************************************************)

Booting == {"renaming", "migrating", "legacy", "adopting", "unlinking", "quarantine"}

\* Loaded: serve, or ask for a first consent when there is no account.
Loaded(p, data) ==
    /\ mem' = [mem EXCEPT ![p] = data]
    /\ stage' = [stage EXCEPT ![p] = IF data.accounts = NoAccounts THEN "consent" ELSE "up"]

Moves(p, to) == stage' = [stage EXCEPT ![p] = to]

BootFrame == UNCHANGED <<queues, flow, caches, letGo>>

\* reload reads the file, or cannot, which counts as corrupt.
Load(p, readable) ==
    /\ stage[p] = "down"
    /\ Succeeds(readable)
    /\ CASE ~readable \/ file.kind = "bad" -> Moves(p, "quarantine") /\ UNCHANGED mem
         [] readable /\ file.kind = "v2" -> Loaded(p, AsData(file))
         [] readable /\ file.kind = "v1" ->
                /\ mem' = [mem EXCEPT ![p] = FromV1(file.accounts[DefaultAlias])]
                /\ Moves(p, "renaming")
         [] readable /\ file.kind = "absent" -> Moves(p, "legacy") /\ UNCHANGED mem
    /\ BootFrame /\ UNCHANGED <<disk, word>>

\* What becomes of a word w that stands when the file is moved aside: an
\* account goes with it, a removal stays, except that the next boot may adopt
\* an older release's file that could not be unlinked.
Unfiled(w) ==
    IF w.state # "stands" THEN w
    ELSE IF w.grant # 0 THEN [w EXCEPT !.state = "aside"]
    ELSE IF legacy # 0 THEN NoWord ELSE w

\* Mutant: the file is deleted instead.
Discard ==
    /\ file' = Blank("absent")
    /\ word' = [a \in Aliases |-> Unfiled(word[a])]
    /\ UNCHANGED <<legacy, backups>>

\* A file is moved aside, under a name of its own.
SetAside ==
    /\ file' = Blank("absent")
    /\ backups' = backups \cup GrantsIn(file.accounts)
    /\ word' = [a \in Aliases |-> Unfiled(word[a])]
    /\ UNCHANGED legacy

Kept == UNCHANGED <<disk, word>>

\* migrateFromV1: the file is renamed to a backup, or the rename fails.
RenameV1(p, ok) ==
    /\ stage[p] = "renaming"
    /\ Succeeds(ok \/ file.kind = "absent")
    /\ IF ok THEN SetAside ELSE Kept
    /\ Moves(p, "migrating")
    /\ BootFrame /\ UNCHANGED mem

\* Then the v2 file is written; an error fails the reload.
WriteMigrated(p, ok) ==
    /\ stage[p] = "migrating"
    /\ Succeeds(ok)
    /\ IF ok
       THEN /\ file' = AsFile(mem[p])
            /\ Loaded(p, mem[p])
       ELSE /\ Moves(p, "quarantine")
            /\ UNCHANGED <<file, mem>>
    /\ BootFrame /\ UNCHANGED <<legacy, backups, word>>

\* tryMigrateLegacyPaths: an older file is adopted, and only then unlinked.
ReadLegacy(p) ==
    /\ stage[p] = "legacy"
    /\ IF legacy = 0
       THEN Loaded(p, Empty)
       ELSE /\ mem' = [mem EXCEPT ![p] = FromV1(legacy)]
            /\ Moves(p, "adopting")
    /\ BootFrame /\ UNCHANGED <<disk, counters, word>>

WriteAdopted(p, ok) ==
    /\ stage[p] = "adopting"
    /\ Succeeds(ok)
    /\ IF ok
       THEN /\ file' = AsFile(mem[p])
            /\ Moves(p, "unlinking")
            /\ UNCHANGED mem
       ELSE Loaded(p, Empty) /\ UNCHANGED file
    /\ BootFrame /\ UNCHANGED <<legacy, backups, word>>

UnlinkLegacy(p, ok) ==
    /\ stage[p] = "unlinking"
    /\ Succeeds(ok)
    /\ legacy' = IF ok THEN 0 ELSE legacy
    /\ Loaded(p, mem[p])
    /\ BootFrame /\ UNCHANGED <<file, backups, word>>

\* quarantineCorruptFile: whatever file is there now is moved aside, or is
\* left where it is; the process goes on without it.
Quarantine(p, ok) ==
    /\ stage[p] = "quarantine"
    /\ Succeeds(ok)
    /\ IF ok THEN SetAside ELSE Kept
    /\ Loaded(p, Empty)
    /\ BootFrame

\* No port for the consent page: the request fails, and the next boots again.
ConsentUnavailable(p) ==
    /\ stage[p] = "consent"
    /\ Fault
    /\ flow[p][DefaultAlias].step = "none"
    /\ Moves(p, "down")
    /\ mem' = [mem EXCEPT ![p] = Empty]
    /\ BootFrame /\ UNCHANGED <<disk, word>>

Boot(p) ==
    \E ok \in BOOLEAN :
        \/ RenameV1(p, ok) \/ WriteMigrated(p, ok) \/ ReadLegacy(p)
        \/ WriteAdopted(p, ok) \/ UnlinkLegacy(p, ok) \/ Quarantine(p, ok)

-----------------------------------------------------------------------------
(***************************************************************************)
(* The user's requests: manage_accounts, and the first consent.            *)
(***************************************************************************)

Mutation(op, a, g, by) == [op |-> op, alias |-> a, grant |-> g, by |-> by]

Enqueue(p, m) == queue' = [queue EXCEPT ![p] = Append(@, m)]

Op == ops < MaxOps /\ ops' = ops + 1 /\ UNCHANGED <<granted, faults>>

\* The user has asked for another grant of account a, or for none.
Asked(a) ==
    /\ word' = [word EXCEPT ![a] = NoWord]
    /\ letGo' = (letGo \/ a = DefaultAlias)

\* addAccountFlow starts, with the record as it is then; the reserved alias
\* can only be consented to again.
AddAccount(p, a) ==
    /\ Op
    /\ stage[p] = "up" /\ flow[p][a].step = "none"
    /\ a = DefaultAlias => mem[p].accounts[a] # 0
    /\ flow' = [flow EXCEPT ![p][a] = [step |-> "open", existing |-> mem[p].accounts[a], grant |-> 0]]
    /\ UNCHANGED <<disk, mem, stage, queues, caches, history>>

\* buildAuthSystem opens the consent page by itself.
FirstConsent(p) ==
    /\ stage[p] = "consent" /\ flow[p][DefaultAlias].step = "none"
    /\ flow' = [flow EXCEPT ![p][DefaultAlias].step = "open"]
    /\ UNCHANGED <<disk, mem, stage, queues, caches, counters, history>>

\* onTokens: Google has issued a grant, on a re-consent perhaps without a new
\* refresh token; the record is queued.
Consented(p, a, offline) ==
    /\ flow[p][a].step = "open"
    /\ offline \/ flow[p][a].existing # 0
    /\ granted < MaxGrants /\ granted' = granted + 1
    /\ LET g == IF offline THEN granted' ELSE flow[p][a].existing IN
         /\ flow' = [flow EXCEPT ![p][a] =
                         [step |-> "saving", existing |-> flow[p][a].existing, grant |-> g]]
         /\ Enqueue(p, Mutation("upsert", a, g, "flow"))
    /\ Asked(a)
    /\ UNCHANGED <<disk, mem, stage, writing, caches, ops, faults>>

RemoveAccount(p, a) ==
    /\ Op
    /\ stage[p] = "up" /\ mem[p].accounts[a] # 0
    /\ Enqueue(p, Mutation("remove", a, 0, "user"))
    /\ Asked(a)
    /\ UNCHANGED <<disk, mem, stage, writing, flow, caches>>

SetDefaultAccount(p, a) ==
    /\ Op
    /\ stage[p] = "up"
    /\ Enqueue(p, Mutation("setDefault", a, 0, "user"))
    /\ UNCHANGED <<disk, mem, stage, writing, flow, caches, history>>

-----------------------------------------------------------------------------
(***************************************************************************)
(* The queue: enqueue, mergeFromDisk, atomicWrite, and what follows them.  *)
(***************************************************************************)

\* mergeFromDisk; a read that fails, or finds no v2 file, leaves the maps.
Merged(p, readable) ==
    CASE readable /\ file.kind = "v2" -> AsData(file)
      [] readable /\ file.kind = "absent" -> Empty
      [] OTHER -> mem[p]

Removed(data, a) ==
    [accounts |-> [data.accounts EXCEPT ![a] = 0], def |-> IF data.def = a THEN None ELSE data.def]

Allowed(data, m) ==
    m.op = "setDefault" /\ m.alias # None => data.accounts[m.alias] # 0

Mutated(data, m) ==
    CASE m.op = "upsert" -> [accounts |-> [data.accounts EXCEPT ![m.alias] = m.grant], def |-> data.def]
      [] m.op = "remove" -> Removed(data, m.alias)
      [] m.op = "setDefault" -> [accounts |-> data.accounts, def |-> m.alias]

\* Mutant: the flow does not hear of it.
Unheard(p, m) == UNCHANGED flow

\* A flow whose mutation is rejected fails; the first consent may be tried again.
EndFlow(p, m) ==
    IF m.by = "flow" THEN flow' = [flow EXCEPT ![p][m.alias] = NoFlow] ELSE UNCHANGED flow

\* A process that could neither read the file at its boot, nor move it aside,
\* nor read it again, is about to write over it.
Blind(p, readable) == stage[p] = "consent" /\ mem[p] = Empty /\ ~readable

\* The head of the queue runs on what is re-read, up to the write.
Mutate(p, readable) ==
    /\ writing[p] = <<>> /\ queue[p] # <<>>
    /\ Succeeds(readable)
    /\ LET m == Head(queue[p])
           data == Merged(p, readable)
       IN  IF Allowed(data, m)
           THEN /\ mem' = [mem EXCEPT ![p] = Mutated(data, m)]
                /\ writing' = [writing EXCEPT ![p] = <<m>>]
                /\ UNCHANGED flow
           ELSE /\ mem' = [mem EXCEPT ![p] = data]
                /\ EndFlow(p, m)
                /\ UNCHANGED writing
    /\ queue' = [queue EXCEPT ![p] = Tail(@)]
    /\ word' = IF Blind(p, readable) THEN [a \in Aliases |-> NoWord] ELSE word
    /\ UNCHANGED <<disk, stage, caches, letGo>>

\* Nobody else holds or awaits anything about alias a.
Alone(p, a) ==
    /\ \A q \in Procs \ {p} : stage[q] = "down"
    /\ \A i \in DOMAIN queue[p] : queue[p][i].alias # a
    /\ waiting[p][a] = {}

\* Mutant: the Drive service stays cached.
EvictClient(p, a) == client' = [client EXCEPT ![p][a] = 0] /\ UNCHANGED service

\* evictAccountClients
Evict(p, a) ==
    /\ client' = [client EXCEPT ![p][a] = 0]
    /\ service' = [service EXCEPT ![p][a] = 0]

\* A flow goes on after its upsert: the first account becomes the default.
ThenSetDefault(p, a) ==
    IF flow[p][a].step = "saving" /\ mem[p].def = None
    THEN /\ flow' = [flow EXCEPT ![p][a].step = "defaulting"]
         /\ Enqueue(p, Mutation("setDefault", a, 0, "flow"))
         /\ UNCHANGED stage
    ELSE /\ flow' = [flow EXCEPT ![p][a] = NoFlow]
         /\ stage' = [stage EXCEPT ![p] = "up"]
         /\ UNCHANGED queue

Written(p) ==
    /\ writing[p] # <<>>
    /\ LET m == writing[p][1] IN
         /\ file' = AsFile(mem[p])
         /\ IF m.by = "flow" THEN ThenSetDefault(p, m.alias) ELSE UNCHANGED <<flow, queue, stage>>
         /\ IF m.by # "refresh" /\ m.op # "setDefault"
            THEN /\ Evict(p, m.alias)
                 /\ word' = [word EXCEPT ![m.alias] =
                                [grant |-> m.grant,
                                 state |-> IF Alone(p, m.alias) THEN "stands" ELSE "none"]]
            ELSE UNCHANGED <<client, service, word>>
    /\ writing' = [writing EXCEPT ![p] = <<>>]
    /\ UNCHANGED <<legacy, backups, mem, waiting, counters, letGo>>

\* The maps keep the mutation until they are re-read.
WriteFails(p) ==
    /\ Fault
    /\ writing[p] # <<>>
    /\ writing' = [writing EXCEPT ![p] = <<>>]
    /\ EndFlow(p, writing[p][1])
    /\ UNCHANGED <<disk, mem, stage, queue, caches, history>>

-----------------------------------------------------------------------------
(***************************************************************************)
(* Clients: getDriveFor (getCalendarFor is its twin) and getClient.        *)
(***************************************************************************)

\* A call for alias a finds its service, builds one, or waits for a refresh.
GetDrive(p, a, due) ==
    /\ p \in Serving /\ stage[p] = "up"
    /\ mem[p].accounts[a] # 0 /\ service[p][a] = 0
    /\ LET c == IF client[p][a] # 0 THEN client[p][a] ELSE mem[p].accounts[a] IN
         /\ client' = [client EXCEPT ![p][a] = c]
         /\ IF due
            THEN /\ waiting' = [waiting EXCEPT ![p][a] = @ \cup {c}]
                 /\ UNCHANGED service
            ELSE /\ service' = [service EXCEPT ![p][a] = c]
                 /\ UNCHANGED waiting
    /\ UNCHANGED <<disk, mem, stage, queues, flow, counters, history>>

\* persistRefreshedTokens: the record as it is now, written again later.
PersistRefreshed(p, a) ==
    IF mem[p].accounts[a] = 0 THEN UNCHANGED queue
    ELSE Enqueue(p, Mutation("upsert", a, mem[p].accounts[a], "refresh"))

\* One refreshed token at a time is on its way to the file.
Persisting(p, a) ==
    \E i \in DOMAIN queue[p] : queue[p][i].alias = a /\ queue[p][i].by = "refresh"

\* The library refreshes a cached client during a request of its own.
LibraryRefreshes(p, a) ==
    /\ {client[p][a], service[p][a]} # {0}
    /\ ~Persisting(p, a)
    /\ PersistRefreshed(p, a)
    /\ UNCHANGED <<disk, mem, stage, writing, flow, caches, counters, history>>

\* Google answers the refresh in flight: with a token, with an error, or with
\* invalid_grant, which every call that waits gets to see.
RefreshReturns(p, a, answer) ==
    /\ waiting[p][a] # {}
    /\ IF answer = "ok" /\ ~Persisting(p, a) THEN PersistRefreshed(p, a) ELSE UNCHANGED queue
    /\ \E c \in IF answer = "dead" THEN {service[p][a]} ELSE waiting[p][a] :
           service' = [service EXCEPT ![p][a] = c]
    /\ waiting' = [waiting EXCEPT ![p][a] = {}]
    /\ UNCHANGED <<disk, mem, stage, writing, flow, client, counters, history>>

-----------------------------------------------------------------------------
\* The process ends; a write under way is on file or not.
Crash(p) ==
    /\ Fault
    /\ stage[p] # "down"
    /\ \/ UNCHANGED file
       \/ writing[p] # <<>> /\ file' = AsFile(mem[p])
    /\ mem' = [mem EXCEPT ![p] = Empty]
    /\ stage' = [stage EXCEPT ![p] = "down"]
    /\ queue' = [queue EXCEPT ![p] = <<>>]
    /\ writing' = [writing EXCEPT ![p] = <<>>]
    /\ flow' = [flow EXCEPT ![p] = [a \in Aliases |-> NoFlow]]
    /\ client' = [client EXCEPT ![p] = NoAccounts]
    /\ service' = [service EXCEPT ![p] = NoAccounts]
    /\ waiting' = [waiting EXCEPT ![p] = [a \in Aliases |-> {}]]
    /\ UNCHANGED <<legacy, backups, history>>

QueueStep(p) == (\E readable \in BOOLEAN : Mutate(p, readable)) \/ Written(p)

GoogleAnswers(p, a) == \E answer \in {"ok", "failed", "dead"} : RefreshReturns(p, a, answer)

Next ==
    \E p \in Procs :
        \/ Boot(p) \/ QueueStep(p) \/ WriteFails(p) \/ Crash(p)
        \/ FirstConsent(p) \/ ConsentUnavailable(p)
        \/ \E readable \in BOOLEAN : Load(p, readable)
        \/ \E a \in Aliases \cup {None} : SetDefaultAccount(p, a)
        \/ \E a \in Aliases :
             \/ AddAccount(p, a) \/ RemoveAccount(p, a)
             \/ LibraryRefreshes(p, a) \/ GoogleAnswers(p, a)
             \/ \E flag \in BOOLEAN : Consented(p, a, flag) \/ GetDrive(p, a, flag)

\* The disk answers.  No boot, request, consent or answer of Google is assumed.
Fairness == \A p \in Procs : WF_vars(Boot(p)) /\ WF_vars(QueueStep(p))

Spec == Init /\ [][Next]_vars /\ Fairness

-----------------------------------------------------------------------------
Data == [accounts : [Aliases -> Grants \cup {0}], def : Aliases \cup {None}]

Mutations ==
    [op : {"upsert", "remove", "setDefault"}, alias : Aliases \cup {None},
     grant : Grants \cup {0}, by : {"flow", "user", "refresh"}]

Files ==
    [kind : {"absent", "bad", "v1", "v2"}, accounts : [Aliases -> Grants \cup {0}],
     def : Aliases \cup {None}]

Flows ==
    [step : {"none", "open", "saving", "defaulting"},
     existing : Grants \cup {0}, grant : Grants \cup {0}]

Words == [grant : Grants \cup {0}, state : {"none", "stands", "aside"}]

TypeOK ==
    /\ file \in Files
    /\ legacy \in Grants \cup {0} /\ backups \subseteq Grants
    /\ mem \in [Procs -> Data]
    /\ stage \in [Procs -> Booting \cup {"down", "consent", "up"}]
    /\ queue \in [Procs -> Seq(Mutations)] /\ writing \in [Procs -> Seq(Mutations)]
    /\ flow \in [Procs -> [Aliases -> Flows]]
    /\ {client, service} \subseteq [Procs -> [Aliases -> Grants \cup {0}]]
    /\ waiting \in [Procs -> [Aliases -> SUBSET Grants]]
    /\ granted \in Grants /\ ops \in Nat /\ faults \in Nat
    /\ letGo \in BOOLEAN
    /\ word \in [Aliases -> Words]

\* Whatever processes and requests overlap, the default account of a process
\* and of the file is one of its accounts.
Valid(data) == data.def # None => data.accounts[data.def] # 0

DefaultIsAccount == Valid(file) /\ \A p \in Procs : Valid(mem[p])

\* A grant from before the upgrade is always in some file, through migrations,
\* failures and crashes, until the user lets go of it.
CredentialsKept == letGo \/ 1 \in OnDisk

\* What the user did with an account while nothing else held or awaited
\* anything about it (Alone: two requests that overlap may undo each other)
\* stays done, on file and in every process and its caches, through crashes,
\* failed reads and writes and whatever other processes do later.  One thing
\* ends it: a process that cannot read the file at its boot moves it aside, and
\* the grant is then in the backup, but the account is gone from the processes
\* as they re-read; or, when it cannot move it either, writes over it (Blind).
\* A removal also ends there if an older release's file is left to adopt.
SettledAccountStands ==
    \A a \in Aliases :
        /\ word[a].state = "stands" =>
              /\ file.accounts[a] = word[a].grant
              /\ \A p \in Procs : stage[p] = "up" =>
                   /\ mem[p].accounts[a] = word[a].grant
                   /\ {client[p][a], service[p][a]} \subseteq {0, word[a].grant}
        /\ word[a].state = "aside" => word[a].grant \in backups

\* Every boot ends, in service or on the consent page, and every consent the
\* user gives is answered.
Settling ==
    \E p \in Procs :
        stage[p] \in Booting \/ \E a \in Aliases : flow[p][a].step \in {"saving", "defaulting"}

ConsentsAreAnswered == Settling ~> ~Settling
-----------------------------------------------------------------------------
(***************************************************************************)
(* The inductive invariant.                                                *)
(***************************************************************************)

\* The mutations of process p that are not on file yet.
Unwritten(p) ==
    {queue[p][i] : i \in 1..Len(queue[p])} \cup {writing[p][i] : i \in 1..Len(writing[p])}

\* Process p holds no client and no call that waits for one.
NoClients(p) == \A a \in Aliases : client[p][a] = 0 /\ service[p][a] = 0 /\ waiting[p][a] = {}

\* Before it serves, a process holds no client, mutation, call or consent.
ColdUntilLoaded ==
    \A p \in Procs :
        stage[p] \in Booting \cup {"down"} =>
            /\ Unwritten(p) = {}
            /\ NoClients(p)
            /\ \A a \in Aliases : flow[p][a].step = "none"

\* On the consent page a process has the flow of the reserved alias alone, and
\* a mutation only while that flow is being stored: one, its own.
ConsentIsAlone ==
    \A p \in Procs :
        stage[p] = "consent" =>
            /\ NoClients(p)
            /\ \A a \in Aliases \ {DefaultAlias} : flow[p][a].step = "none"
            /\ flow[p][DefaultAlias].step \in {"none", "open"} => Unwritten(p) = {}
            /\ Len(queue[p]) + Len(writing[p]) <= 1
            /\ \A m \in Unwritten(p) : m.by = "flow" /\ m.alias = DefaultAlias

\* An upsert has a grant to store, a removal has none; an account of the older
\* format has a grant, a file that cannot be read has none.
MutationsAreWhole ==
    /\ \A p \in Procs : \A m \in Unwritten(p) :
         m.op # "setDefault" => m.alias \in Aliases /\ (m.op = "upsert" <=> m.grant # 0)
    /\ file.kind = "v1" => file.accounts[DefaultAlias] # 0
    /\ file.kind \in {"absent", "bad"} => file.accounts = NoAccounts

\* One mutation at a time is being written, and it is in the maps.
WritingIsApplied ==
    \A p \in Procs :
        writing[p] # <<>> =>
            /\ Len(writing[p]) = 1
            /\ LET m == writing[p][1] IN
                 m.op # "setDefault" => mem[p].accounts[m.alias] = m.grant

\* m leaves account a as it is when that has grant g.
Leaves(m, a, g) ==
    m.op # "setDefault" /\ m.alias = a => m.by = "refresh" /\ m.grant = g

\* Process p holds grant g, and no other, for account a.
Holds(p, a, g) ==
    /\ mem[p].accounts[a] = g
    /\ {client[p][a], service[p][a]} \subseteq {0, g}
    /\ waiting[p][a] \subseteq {g}

\* What process p has read of the file.
HasRead(p) ==
    stage[p] = "up" \/ (stage[p] = "consent" /\ (mem[p] # Empty \/ writing[p] # <<>>))

Agreed(a, g) ==
    /\ file.accounts[a] = g
    /\ file.kind = "v2" \/ (file.kind = "absent" /\ g = 0 /\ legacy = 0)
    /\ \A p \in Procs :
         /\ stage[p] \notin {"renaming", "migrating", "adopting", "unlinking"}
         /\ stage[p] = "legacy" => g = 0 /\ legacy = 0
         /\ HasRead(p) => Holds(p, a, g)
         /\ \A m \in Unwritten(p) : Leaves(m, a, g)

SettledAreAgreed ==
    \A a \in Aliases :
        /\ word[a].state = "stands" => Agreed(a, word[a].grant)
        /\ word[a].state = "aside" => word[a].grant \in backups

\* While the oldest grant is in no backup and the user has not let go of it,
\* it is in the file or in the older release's, every process that serves has
\* it and writes nothing else, and what such a process has is on file.
OldestIsHeld ==
    /\ legacy \in {0, 1}
    /\ ~letGo /\ 1 \notin backups =>
         /\ legacy = 1 \/ file.accounts[DefaultAlias] = 1
         /\ file.kind \in {"v1", "v2"} => file.accounts[DefaultAlias] = 1
         /\ \A p \in Procs :
              /\ stage[p] \in {"up", "migrating", "renaming", "adopting", "unlinking"} =>
                     mem[p].accounts[DefaultAlias] = 1
              /\ stage[p] \in {"up", "unlinking"} => file.accounts[DefaultAlias] = 1
              /\ stage[p] = "consent" => Unwritten(p) = {}
              /\ \A m \in Unwritten(p) : Leaves(m, DefaultAlias, 1)

IInv ==
    /\ TypeOK /\ DefaultIsAccount
    /\ ColdUntilLoaded /\ ConsentIsAlone /\ MutationsAreWhole /\ WritingIsApplied
    /\ SettledAreAgreed /\ OldestIsHeld
=============================================================================

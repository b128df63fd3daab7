---------------------------- MODULE DurableStore ----------------------------
(***************************************************************************)
(* team-store.json and the processes that own it: FileTeamStore of         *)
(* src/src/auth/team/fileStore.ts, from init() at boot to flush() at       *)
(* shutdown.                                                               *)
(*                                                                         *)
(* A mutation is a number, in the order of the calls, and the content of   *)
(* the file or of a process's maps is the sequence of the mutations it     *)
(* holds: enough to tell whether one was lost, applied twice, applied out  *)
(* of order or kept although its caller was told it failed. A read and the *)
(* rename that replaces the file are atomic; everything between them may   *)
(* be interleaved with other processes, fail, or be cut off by a crash.    *)
(***************************************************************************)
EXTENDS Integers, FiniteSets, Sequences

CONSTANTS
    Procs,            \* processes given the same MCP_TEAM_STORE_PATH
    None,
    FileDamage,       \* whether the file may be removed or damaged from outside
    MaxWrites,        \* bounds of the model: calls of mutateDurable, and
    MaxFaults         \* failed reads and writes, crashes and file damages

Writes == 1..MaxWrites

ASSUME ConstantsAssumption ==
    /\ None \notin Procs
    /\ FileDamage \in BOOLEAN
    /\ MaxWrites \in Nat /\ MaxFaults \in Nat

VARIABLES
    file,        \* what can be read from the file; empty unless health is good
    health,      \* "good", "absent" or "corrupt"
    mem,         \* process -> its maps
    stage,       \* process -> where it is
    queue,       \* process -> calls behind writeQueue, the running one first
    draining,    \* processes in flush(), at shutdown
    tail,        \* process -> the call flush() waits for, 0 if there is none
    calls,       \* calls so far
    caller,      \* call -> the process it was made in
    outcome,     \* call -> what its caller knows
    faults,
    stale,       \* history: processes whose maps miss another's later write
    kept,        \* history: processes that ever wrote without a fresh read
    due,         \* history: process -> what was queued when it began to stop
    excused      \* history: the file was damaged, or replaced by a stale write

disk == <<file, health>>
callVars == <<calls, caller, outcome, queue>>
history == <<stale, kept, due, excused>>
vars == <<disk, mem, stage, draining, tail, callVars, faults, history>>

\* init: quarantine, then starting; a mutation: writing, then written.
Stages == {"down", "quarantine", "starting", "ready", "writing", "written"}

Serving == {"ready", "writing", "written"}

Init ==
    /\ file = <<>>
    /\ health \in {"good", "absent", "corrupt"}
    /\ mem = [p \in Procs |-> <<>>]
    /\ stage = [p \in Procs |-> "down"]
    /\ queue = [p \in Procs |-> <<>>]
    /\ draining = {}
    /\ tail = [p \in Procs |-> 0]
    /\ calls = 0
    /\ caller = [w \in Writes |-> None]
    /\ outcome = [w \in Writes |-> "new"]
    /\ faults = 0
    /\ stale = {}
    /\ kept = {}
    /\ due = [p \in Procs |-> {}]
    /\ excused = FALSE

Fault == faults < MaxFaults /\ faults' = faults + 1

On(content) == {content[i] : i \in 1..Len(content)}

Settled(w) == outcome[w] \in {"resolved", "rejected"}

-----------------------------------------------------------------------------
(***************************************************************************)
(* init(): a process starts on what it finds.                              *)
(***************************************************************************)

\* A good file is loaded and a missing one is an empty store.
Load(p) ==
    /\ stage[p] = "down"
    /\ health \in {"good", "absent"}
    /\ stage' = [stage EXCEPT ![p] = "starting"]
    /\ mem' = [mem EXCEPT ![p] = file]
    /\ stale' = stale \ {p}
    /\ UNCHANGED <<disk, draining, tail, callVars, faults, kept, due, excused>>

\* Content that does not parse will be moved aside.
FindCorrupt(p) ==
    /\ stage[p] = "down"
    /\ health = "corrupt"
    /\ stage' = [stage EXCEPT ![p] = "quarantine"]
    /\ mem' = [mem EXCEPT ![p] = <<>>]
    /\ stale' = stale \ {p}
    /\ UNCHANGED <<disk, draining, tail, callVars, faults, kept, due, excused>>

\* The rename to the backup takes whatever is at the path by now, or fails.
Quarantine(p) ==
    /\ stage[p] = "quarantine"
    /\ stage' = [stage EXCEPT ![p] = "starting"]
    /\ \/ /\ file' = <<>> /\ health' = "absent"
          /\ excused' = (excused \/ p \in stale)
       \/ UNCHANGED <<disk, excused>>
    /\ UNCHANGED <<mem, draining, tail, callVars, faults, stale, kept, due>>

\* Mutant: a file that cannot be read is taken for a corrupt one.
QuarantineUnreadable(p) ==
    /\ Fault
    /\ stage[p] = "down"
    /\ health # "absent"
    /\ stage' = [stage EXCEPT ![p] = "quarantine"]
    /\ mem' = [mem EXCEPT ![p] = <<>>]
    /\ UNCHANGED <<disk, draining, tail, callVars, history>>

\* A file that is there and cannot be read: the process does not start.
RefuseToStart(p) ==
    /\ Fault
    /\ stage[p] = "down"
    /\ health # "absent"
    /\ UNCHANGED <<disk, mem, stage, draining, tail, callVars, history>>

-----------------------------------------------------------------------------
(***************************************************************************)
(* mutateDurable and its queue.                                            *)
(***************************************************************************)

\* A handler of p calls mutateDurable.
Call(p) ==
    /\ stage[p] \in Serving
    /\ calls < MaxWrites
    /\ calls' = calls + 1
    /\ caller' = [caller EXCEPT ![calls'] = p]
    /\ outcome' = [outcome EXCEPT ![calls'] = "pending"]
    /\ queue' = [queue EXCEPT ![p] = Append(@, calls')]
    /\ UNCHANGED <<disk, mem, stage, draining, tail, faults, history>>

\* The running call of p is over and its caller is told.
Settle(p, result) ==
    /\ outcome' = [outcome EXCEPT ![Head(queue[p])] = result]
    /\ queue' = [queue EXCEPT ![p] = Tail(@)]
    /\ UNCHANGED <<calls, caller>>

\* Mutant: the snapshot in memory is trusted.
NoReread(p, content) ==
    /\ content = mem[p]
    /\ UNCHANGED <<stale, kept, faults>>

\* mergeFromDisk: the file is loaded, and a missing one resets the maps; one
\* that is damaged, or cannot be read this time, leaves them as they are.
MergeFromDisk(p, content) ==
    \/ /\ health \in {"good", "absent"}
       /\ content = file
       /\ stale' = stale \ {p}
       /\ UNCHANGED <<kept, faults>>
    \/ /\ health = "corrupt"
       /\ content = mem[p]
       /\ kept' = kept \cup {p}
       /\ UNCHANGED <<stale, faults>>
    \/ /\ Fault
       /\ health # "absent"
       /\ content = mem[p]
       /\ kept' = kept \cup {p}
       /\ UNCHANGED stale

\* Mutant: the mutation is applied before the file is read again.
MutateThenMerge(p) ==
    /\ stage[p] = "ready"
    /\ queue[p] # <<>>
    /\ stage' = [stage EXCEPT ![p] = "writing"]
    /\ \E content \in {file, mem[p]} :
           /\ MergeFromDisk(p, content)
           /\ mem' = [mem EXCEPT ![p] = content]
    /\ UNCHANGED <<disk, draining, tail, callVars, due, excused>>

\* The next call runs: the freshest content, then the mutation on it.
Mutate(p) ==
    /\ stage[p] = "ready"
    /\ queue[p] # <<>>
    /\ stage' = [stage EXCEPT ![p] = "writing"]
    /\ \E content \in {file, mem[p]} :
           /\ MergeFromDisk(p, content)
           /\ mem' = [mem EXCEPT ![p] = Append(content, Head(queue[p]))]
    /\ UNCHANGED <<disk, draining, tail, callVars, due, excused>>

\* The mutation throws (a new member at the cap): nothing is written.
MutateThrows(p) ==
    /\ stage[p] = "ready"
    /\ queue[p] # <<>>
    /\ \E content \in {file, mem[p]} :
           /\ MergeFromDisk(p, content)
           /\ mem' = [mem EXCEPT ![p] = content]
    /\ Settle(p, "rejected")
    /\ UNCHANGED <<disk, stage, draining, tail, due, excused>>

\* atomicWrite: the temporary file, written in full, replaces the file.
Rename(p, next) ==
    /\ file' = mem[p]
    /\ health' = "good"
    /\ stage' = [stage EXCEPT ![p] = next]
    /\ stale' = (stale \ {p}) \cup {q \in Procs \ {p} : stage[q] # "down"}
    /\ excused' = (excused \/ p \in stale)
    /\ UNCHANGED <<mem, draining, tail, callVars, faults, kept, due>>

\* The file exists and is writable: the process serves.
Start(p) == stage[p] = "starting" /\ Rename(p, "ready")

\* init() fails when the file cannot be written.
StartFails(p) ==
    /\ Fault
    /\ stage[p] = "starting"
    /\ stage' = [stage EXCEPT ![p] = "down"]
    /\ mem' = [mem EXCEPT ![p] = <<>>]
    /\ UNCHANGED <<disk, draining, tail, callVars, history>>

Write(p) == stage[p] = "writing" /\ Rename(p, "written")

\* The temporary file cannot be written or renamed: the caller is told, and
\* the maps keep the mutation.
WriteFails(p) ==
    /\ Fault
    /\ stage[p] = "writing"
    /\ stage' = [stage EXCEPT ![p] = "ready"]
    /\ Settle(p, "rejected")
    /\ UNCHANGED <<disk, mem, draining, tail, history>>

Resolve(p) ==
    /\ stage[p] = "written"
    /\ stage' = [stage EXCEPT ![p] = "ready"]
    /\ Settle(p, "resolved")
    /\ UNCHANGED <<disk, mem, draining, tail, faults, history>>

-----------------------------------------------------------------------------
(***************************************************************************)
(* Shutdown, crashes and the world outside.                                *)
(***************************************************************************)

\* Mutant: flush waits for the running call only.
RunningCall(p) == IF queue[p] = <<>> THEN 0 ELSE Head(queue[p])

LastCall(p) == IF queue[p] = <<>> THEN 0 ELSE queue[p][Len(queue[p])]

\* shutdown() awaits flush(), and flush the queue as it is now; requests
\* still in flight may call mutateDurable until the process exits.
Flush(p) ==
    /\ stage[p] \in Serving
    /\ p \notin draining
    /\ draining' = draining \cup {p}
    /\ tail' = [tail EXCEPT ![p] = LastCall(p)]
    /\ due' = [due EXCEPT ![p] = On(queue[p])]
    /\ UNCHANGED <<disk, mem, stage, callVars, faults, stale, kept, excused>>

\* Process p is gone, and its maps and queue with it.
End(p) ==
    /\ stage' = [stage EXCEPT ![p] = "down"]
    /\ mem' = [mem EXCEPT ![p] = <<>>]
    /\ queue' = [queue EXCEPT ![p] = <<>>]
    /\ outcome' = [w \in Writes |-> IF w \in On(queue[p]) THEN "lost" ELSE outcome[w]]
    /\ draining' = draining \ {p}
    /\ tail' = [tail EXCEPT ![p] = 0]
    /\ due' = [due EXCEPT ![p] = {}]
    /\ UNCHANGED <<disk, calls, caller, stale, kept, excused>>

Exit(p) ==
    /\ p \in draining
    /\ tail[p] # 0 => Settled(tail[p])
    /\ End(p)
    /\ UNCHANGED faults

Crash(p) ==
    /\ Fault
    /\ stage[p] # "down"
    /\ End(p)

\* The operator removes the file, or it is damaged on the disk.
DamageFile ==
    /\ FileDamage
    /\ Fault
    /\ health = "good"
    /\ health' \in {"absent", "corrupt"}
    /\ file' = <<>>
    /\ excused' = TRUE
    /\ UNCHANGED <<mem, stage, draining, tail, callVars, stale, kept, due>>

-----------------------------------------------------------------------------
Boot(p) == Load(p) \/ FindCorrupt(p) \/ Quarantine(p) \/ RefuseToStart(p)
           \/ Start(p) \/ StartFails(p)

\* Mutant: a queue that is shutting down starts no further call.
QueueStepUntilFlush(p) == 
    \/ p \notin draining /\ (Mutate(p) \/ MutateThrows(p))
    \/ Write(p) \/ WriteFails(p) \/ Resolve(p)

QueueStep(p) == Mutate(p) \/ MutateThrows(p) \/ Write(p) \/ WriteFails(p) \/ Resolve(p)

Next ==
    \/ \E p \in Procs :
           Boot(p) \/ Call(p) \/ QueueStep(p) \/ Flush(p) \/ Exit(p) \/ Crash(p)
    \/ DamageFile

\* The disk answers every read and write, well or badly, and the event loop
\* runs what waits for it.  Nobody has to call, to start or to stop a process.
Fairness == \A p \in Procs : WF_vars(QueueStep(p))

Spec == Init /\ [][Next]_vars /\ Fairness
-----------------------------------------------------------------------------
(***************************************************************************)
(* Properties.                                                             *)
(***************************************************************************)

\* The calls not answered yet are those in the queues, each in its caller's,
\* in the order they were made.
QueuesHoldPending ==
    /\ \A w \in Writes :
           /\ outcome[w] = "new" <=> w > calls
           /\ outcome[w] = "pending" =>
                  caller[w] \in Procs /\ w \in On(queue[caller[w]])
    /\ \A p \in Procs : \A i \in 1..Len(queue[p]) :
           /\ outcome[queue[p][i]] = "pending"
           /\ caller[queue[p][i]] = p
           /\ \A j \in 1..(i - 1) : queue[p][j] < queue[p][i]

\* Every variable keeps its type, only a good file has content, and the
\* queues hold the pending calls.
TypeOK ==
    /\ file \in Seq(Writes)
    /\ health \in {"good", "absent", "corrupt"}
    /\ health # "good" => file = <<>>
    /\ mem \in [Procs -> Seq(Writes)]
    /\ stage \in [Procs -> Stages]
    /\ queue \in [Procs -> Seq(Writes)]
    /\ draining \subseteq Procs
    /\ tail \in [Procs -> Writes \cup {0}]
    /\ calls \in Writes \cup {0}
    /\ caller \in [Writes -> Procs \cup {None}]
    /\ outcome \in [Writes -> {"new", "pending", "resolved", "rejected", "lost"}]
    /\ faults \in 0..MaxFaults
    /\ stale \subseteq Procs
    /\ kept \subseteq Procs
    /\ due \in [Procs -> SUBSET Writes]
    /\ excused \in BOOLEAN
    /\ QueuesHoldPending

\* A mutation whose caller was told it is done is on file for good, through
\* crashes, failed reads and writes, shutdowns and boots by any number of
\* processes, until the file is damaged from outside or replaced by a process
\* that missed another's write (fileStore.ts mutateDurable and init).
ResolvedIsDurable ==
    \A w \in Writes : outcome[w] = "resolved" /\ ~excused => w \in On(file)

\* A mutation whose caller was told it failed is on file only if its process
\* later wrote without having been able to read the file.
RejectedStaysOut ==
    \A w \in Writes : outcome[w] = "rejected" /\ w \in On(file) => caller[w] \in kept

\* A process that stops by itself leaves no call unanswered that was queued
\* when it began to (index.ts shutdown: "Drain queued team-store writes").
ExitAnswersTheQueue ==
    [][\A p \in Procs : Exit(p) => \A w \in due[p] : Settled(w)]_vars

\* Every call is answered as long as its process lives: neither a mutation
\* that throws, nor a failed write, nor a shutdown holds up the queue.
EveryCallSettles ==
    \A w \in Writes : outcome[w] = "pending" ~> outcome[w] # "pending"

-----------------------------------------------------------------------------
(***************************************************************************)
(* The inductive invariant behind ResolvedIsDurable.                       *)
(***************************************************************************)

\* A running process that missed no write has everything on file.
FreshMapsHoldTheFile ==
    \A p \in Procs :
        ~excused /\ stage[p] # "down" /\ p \notin stale => On(file) \subseteq On(mem[p])

\* The running call is in the maps it writes, then on file.
RunningCallIsKept ==
    \A p \in Procs :
        /\ stage[p] \in {"writing", "written"} => queue[p] # <<>>
        /\ stage[p] \in {"down", "quarantine"} => mem[p] = <<>>
        /\ stage[p] \notin Serving => queue[p] = <<>>
        /\ stage[p] = "writing" => Head(queue[p]) \in On(mem[p])
        /\ stage[p] = "written" /\ ~excused => Head(queue[p]) \in On(file)

DurableInv ==
    /\ TypeOK
    /\ ResolvedIsDurable
    /\ FreshMapsHoldTheFile
    /\ RunningCallIsKept

-----------------------------------------------------------------------------
(***************************************************************************)
(* The inductive invariants behind RejectedStaysOut and                    *)
(* ExitAnswersTheQueue.                                                    *)
(***************************************************************************)

\* The maps of p hold call w because p is running it.
Runs(p, w) == p = caller[w] /\ stage[p] = "writing" /\ w = Head(queue[p])

\* Call w is on file and not answered yet.
IsWritten(w) == stage[caller[w]] = "written" /\ w = Head(queue[caller[w]])

\* What may be on file: no call before it is written, and none that failed.
GoodOnFile(w) ==
    /\ outcome[w] # "new"
    /\ outcome[w] = "pending" => IsWritten(w)
    /\ outcome[w] = "rejected" => caller[w] \in kept

\* What may be in the maps of p: the running call as well, and until the next
\* mutation the one that failed.
GoodInMaps(p, w) ==
    /\ outcome[w] # "new"
    /\ outcome[w] = "pending" => IsWritten(w) \/ Runs(p, w)
    /\ outcome[w] = "rejected" =>
           caller[w] \in kept \/ (caller[w] = p /\ stage[p] = "ready")

FileIsGood == \A w \in On(file) : GoodOnFile(w)

MapsAreGood == \A p \in Procs : \A w \in On(mem[p]) : GoodInMaps(p, w)

RejectedInv == DurableInv /\ FileIsGood /\ MapsAreGood

\* What was queued when a process began to stop is answered or still queued,
\* up to the call its exit waits for.
DueIsQueued ==
    \A p \in Procs :
        /\ \A w \in due[p] : w <= tail[p] /\ (Settled(w) \/ w \in On(queue[p]))
        /\ \A w \in On(queue[p]) : w <= tail[p] => tail[p] \in On(queue[p])
        /\ tail[p] <= calls

DrainInv == DurableInv /\ DueIsQueued

-----------------------------------------------------------------------------
(***************************************************************************)
(* The store of one process is an atomic store: mutations are committed    *)
(* once, in one step and in call order.                                    *)
(***************************************************************************)

Abs == INSTANCE AtomicStore WITH stored <- file

\* The store of one process, whose file is left alone, implements AtomicStore.
ImplementsAtomicStore == Abs!Spec

\* The maps are the file and calls that failed, then the running one.
MapsExtendTheFile(p) ==
    LET new == (Len(file) + 1)..Len(mem[p]) IN
    /\ Len(file) <= Len(mem[p])
    /\ \A i \in 1..Len(file) : mem[p][i] = file[i]
    /\ \A i \in new :
           \/ outcome[mem[p][i]] = "rejected"
           \/ (stage[p] = "writing" /\ i = Len(mem[p]))
    /\ stage[p] = "writing" =>
           Len(mem[p]) \in new /\ mem[p][Len(mem[p])] = Head(queue[p])

\* What holds of a process alone with its file: it is never stale, and what
\* is on file and still pending is the call it has written and not answered.
Solo ==
    /\ ~excused /\ stale = {}
    /\ \A p \in Procs :
           /\ stage[p] \notin {"down", "quarantine"} => MapsExtendTheFile(p)
           /\ stage[p] = "starting" => mem[p] = file
           /\ stage[p] = "quarantine" => file = <<>>
    /\ \A w \in On(file) :
           /\ outcome[w] # "new"
           /\ outcome[w] = "pending" =>
                  \E p \in Procs : stage[p] = "written" /\ w = Head(queue[p])

SoloInv == DurableInv /\ Solo
=============================================================================

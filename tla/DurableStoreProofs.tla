------------------------- MODULE DurableStoreProofs -------------------------
(***************************************************************************)
(* Proofs about DurableStore: for any number of processes that share the   *)
(* file, calls, crashes and failures, no answered mutation is lost unless  *)
(* the file is damaged or replaced by a stale write; and the store of one  *)
(* process implements AtomicStore.                                         *)
(***************************************************************************)
EXTENDS DurableStore, SequenceTheorems, TLAPS

\* What a sequence holds once a mutation is appended.
LEMMA OnAppend ==
    ASSUME NEW S, NEW s \in Seq(S), NEW w \in S
    PROVE  /\ Append(s, w) \in Seq(S)
           /\ On(Append(s, w)) = On(s) \cup {w}
<1>1. Append(s, w) \in Seq(S) /\ Len(Append(s, w)) = Len(s) + 1
    OBVIOUS
<1>2. \A i \in 1..Len(s) : Append(s, w)[i] = s[i]
    OBVIOUS
<1>3. Append(s, w)[Len(s) + 1] = w
    OBVIOUS
<1>4. Len(s) \in Nat
    OBVIOUS
<1>5. On(s) \cup {w} \subseteq On(Append(s, w))
    BY <1>1, <1>2, <1>3, <1>4 DEF On
<1>6. On(Append(s, w)) \subseteq On(s) \cup {w}
  <2> SUFFICES ASSUME NEW i \in 1..Len(Append(s, w))
               PROVE  Append(s, w)[i] \in On(s) \cup {w}
      BY DEF On
  <2>1. CASE i \in 1..Len(s)
      BY <2>1, <1>2 DEF On
  <2>2. CASE i = Len(s) + 1
      BY <2>2, <1>3
  <2> QED
      BY <2>1, <2>2, <1>1, <1>4
<1> QED
    BY <1>1, <1>5, <1>6

\* What a queue holds once its head is answered.
LEMMA OnTail ==
    ASSUME NEW S, NEW s \in Seq(S), s # <<>>
    PROVE  /\ Head(s) \in S /\ Head(s) = s[1] /\ Len(s) \in Nat \ {0}
           /\ Tail(s) \in Seq(S) /\ Len(Tail(s)) = Len(s) - 1
           /\ \A i \in 1..(Len(s) - 1) : Tail(s)[i] = s[i + 1]
           /\ On(s) = {Head(s)} \cup On(Tail(s))
<1>1. /\ Head(s) \in S /\ Head(s) = s[1] /\ Len(s) \in Nat \ {0}
      /\ Tail(s) \in Seq(S) /\ Len(Tail(s)) = Len(s) - 1
  <2>1. Head(s) \in S /\ Tail(s) \in Seq(S) /\ Len(Tail(s)) = Len(s) - 1
      BY HeadTailProperties
  <2>2. Len(s) \in Nat \ {0}
      BY EmptySeq
  <2>3. Head(s) = s[1]
      OBVIOUS
  <2> QED
      BY <2>1, <2>2, <2>3
<1>2. \A i \in 1..(Len(s) - 1) : Tail(s)[i] = s[i + 1]
    BY <1>1, HeadTailProperties
<1>3. On(s) \subseteq {Head(s)} \cup On(Tail(s))
  <2> SUFFICES ASSUME NEW i \in 1..Len(s)
               PROVE  s[i] \in {Head(s)} \cup On(Tail(s))
      BY DEF On
  <2>1. CASE i = 1
      BY <2>1, <1>1
  <2>2. CASE i # 1
    <3>1. i - 1 \in 1..(Len(s) - 1) /\ s[i] = Tail(s)[i - 1]
        BY <2>2, <1>1, <1>2
    <3> QED
        BY <3>1, <1>1 DEF On
  <2> QED
      BY <2>1, <2>2
<1>4. {Head(s)} \cup On(Tail(s)) \subseteq On(s)
  <2>1. Head(s) \in On(s)
      BY <1>1 DEF On
  <2>2. ASSUME NEW i \in 1..Len(Tail(s)) PROVE Tail(s)[i] \in On(s)
    <3>1. i \in 1..(Len(s) - 1) /\ i + 1 \in 1..Len(s)
        BY <1>1
    <3>2. Tail(s)[i] = s[i + 1]
        BY <3>1, <1>2
    <3> QED
        BY <3>1, <3>2 DEF On
  <2> QED
      BY <2>1, <2>2 DEF On
<1> QED
    BY <1>1, <1>2, <1>3, <1>4

\* What is on a sequence is of its elements' set.
LEMMA OnElements ==
    ASSUME NEW S, NEW s \in Seq(S)
    PROVE  On(s) \subseteq S /\ (s = <<>> => On(s) = {}) /\ Len(s) \in Nat
           /\ (s # <<>> => Len(s) > 0 /\ s[Len(s)] \in S)
<1>1. \A i \in 1..Len(s) : s[i] \in S
    BY ElementOfSeq
<1>2. Len(s) \in Nat /\ (s = <<>> => Len(s) = 0) /\ (s # <<>> => Len(s) > 0)
    BY EmptySeq, LenProperties
<1> QED
    BY <1>1, <1>2 DEF On

\* Answering the running call keeps the queues and the calls in step.
LEMMA SettleType ==
    ASSUME TypeOK, NEW p \in Procs, queue[p] # <<>>,
           NEW result \in {"resolved", "rejected"}, Settle(p, result)
    PROVE  /\ queue' \in [Procs -> Seq(Writes)]
           /\ calls' \in Writes \cup {0}
           /\ caller' \in [Writes -> Procs \cup {None}]
           /\ outcome' \in [Writes -> {"new", "pending", "resolved", "rejected", "lost"}]
           /\ QueuesHoldPending'
           /\ Head(queue[p]) \in Writes /\ outcome[Head(queue[p])] = "pending"
           /\ outcome'[Head(queue[p])] = result
           /\ \A w \in Writes : w # Head(queue[p]) => outcome'[w] = outcome[w]
           /\ queue'[p] = Tail(queue[p])
           /\ \A r \in Procs : r # p => queue'[r] = queue[r]
<1> DEFINE q == queue[p]
           h == Head(q)
<1>1. q \in Seq(Writes) /\ q # <<>>
    BY DEF TypeOK
<1> HIDE DEF q
<1>2. /\ h \in Writes /\ h = q[1] /\ Len(q) \in Nat \ {0}
      /\ Tail(q) \in Seq(Writes) /\ Len(Tail(q)) = Len(q) - 1
      /\ \A i \in 1..(Len(q) - 1) : Tail(q)[i] = q[i + 1]
      /\ On(q) = {h} \cup On(Tail(q))
    BY <1>1, OnTail
<1>3. /\ queue' = [queue EXCEPT ![p] = Tail(q)]
      /\ outcome' = [outcome EXCEPT ![h] = result]
      /\ UNCHANGED <<calls, caller>>
    BY DEF Settle, q
<1> HIDE DEF h
<1>4. /\ queue' \in [Procs -> Seq(Writes)]
      /\ calls' \in Writes \cup {0}
      /\ caller' \in [Writes -> Procs \cup {None}]
      /\ outcome' \in [Writes -> {"new", "pending", "resolved", "rejected", "lost"}]
    BY <1>2, <1>3 DEF TypeOK
<1>5. queue'[p] = Tail(q) /\ \A r \in Procs : r # p => queue'[r] = queue[r]
    BY <1>3, <1>2 DEF TypeOK
<1>6. outcome'[h] = result /\ \A w \in Writes : w # h => outcome'[w] = outcome[w]
    BY <1>3, <1>2 DEF TypeOK
<1>7. /\ \A i \in 1..Len(q) :
             /\ outcome[q[i]] = "pending"
             /\ caller[q[i]] = p
             /\ \A j \in 1..(i - 1) : q[j] < q[i]
    BY DEF TypeOK, QueuesHoldPending, q
<1>8. outcome[h] = "pending" /\ caller[h] = p
    BY <1>7, <1>2
<1>9. QueuesHoldPending'
  <2>1. ASSUME NEW w \in Writes
        PROVE  /\ outcome'[w] = "new" <=> w > calls'
               /\ outcome'[w] = "pending" =>
                      caller'[w] \in Procs /\ w \in On(queue'[caller'[w]])
    <3>1. CASE w = h
        BY <3>1, <1>6, <1>8, <1>3 DEF TypeOK, QueuesHoldPending
    <3>2. CASE w # h
      <4>1. outcome'[w] = outcome[w] /\ caller'[w] = caller[w] /\ calls' = calls
          BY <3>2, <1>6, <1>3
      <4>2. /\ outcome[w] = "new" <=> w > calls
            /\ outcome[w] = "pending" =>
                   caller[w] \in Procs /\ w \in On(queue[caller[w]])
          BY DEF TypeOK, QueuesHoldPending
      <4>3. CASE caller[w] = p
          BY <4>1, <4>2, <4>3, <3>2, <1>2, <1>5 DEF q
      <4>4. CASE caller[w] # p
          BY <4>1, <4>2, <4>4, <1>5
      <4> QED
          BY <4>3, <4>4
    <3> QED
        BY <3>1, <3>2
  <2>2. ASSUME NEW r \in Procs, NEW i \in 1..Len(queue'[r])
        PROVE  /\ outcome'[queue'[r][i]] = "pending"
               /\ caller'[queue'[r][i]] = r
               /\ \A j \in 1..(i - 1) : queue'[r][j] < queue'[r][i]
    <3>1. CASE r = p
      <4>1. i \in 1..(Len(q) - 1) /\ i + 1 \in 1..Len(q) /\ queue'[p][i] = q[i + 1]
          BY <3>1, <1>5, <1>2
      <4>2. outcome[q[i + 1]] = "pending" /\ caller[q[i + 1]] = p /\ q[1] < q[i + 1]
          BY <4>1, <1>7, <1>2
      <4>3. q[i + 1] # h /\ q[i + 1] \in Writes
        <5>1. q[i + 1] \in Writes
            BY <4>1, <1>1, ElementOfSeq
        <5> QED
            BY <5>1, <4>2, <1>2, ConstantsAssumption DEF Writes
      <4>4. ASSUME NEW j \in 1..(i - 1) PROVE queue'[p][j] < queue'[p][i]
        <5>1. j \in 1..(Len(q) - 1) /\ j + 1 \in 1..i /\ queue'[p][j] = q[j + 1]
            BY <4>1, <1>5, <1>2
        <5>2. j + 1 \in 1..((i + 1) - 1)
            BY <5>1, <4>1
        <5> QED
            BY <5>1, <5>2, <4>1, <1>7
      <4> QED
          BY <3>1, <4>1, <4>2, <4>3, <4>4, <1>6, <1>3
    <3>2. CASE r # p
      <4>1. queue'[r] = queue[r]
          BY <3>2, <1>5
      <4>2. /\ outcome[queue[r][i]] = "pending"
            /\ caller[queue[r][i]] = r
            /\ \A j \in 1..(i - 1) : queue[r][j] < queue[r][i]
          BY <4>1 DEF TypeOK, QueuesHoldPending
      <4>3. queue[r] \in Seq(Writes) /\ i \in 1..Len(queue[r])
          BY <4>1 DEF TypeOK
      <4>4. queue[r][i] \in Writes
          BY <4>3, ElementOfSeq
      <4> QED
          BY <4>1, <4>2, <4>4, <3>2, <1>8, <1>6, <1>3
    <3> QED
        BY <3>1, <3>2
  <2> QED
      BY <2>1, <2>2 DEF QueuesHoldPending
<1> QED
    BY <1>2, <1>4, <1>5, <1>6, <1>8, <1>9 DEF h, q

\* A step that leaves the calls alone leaves the queues in step with them.
LEMMA SameCalls ==
    ASSUME QueuesHoldPending, UNCHANGED callVars
    PROVE  QueuesHoldPending'
BY DEF QueuesHoldPending, callVars, On

\* What a process goes on with after re-reading the file.
LEMMA MergeType ==
    ASSUME TypeOK, NEW p \in Procs, NEW content \in {file, mem[p]},
           MergeFromDisk(p, content)
    PROVE  /\ content \in Seq(Writes)
           /\ faults' \in 0..MaxFaults
           /\ stale' \subseteq Procs /\ kept' \subseteq Procs
           /\ \/ content = file /\ stale' = stale \ {p}
              \/ content = mem[p] /\ stale' = stale
<1>1. content \in Seq(Writes)
    BY DEF TypeOK
<1>2. faults' \in 0..MaxFaults
  <2>1. CASE Fault
      BY <2>1, ConstantsAssumption DEF TypeOK, Fault
  <2>2. CASE UNCHANGED faults
      BY <2>2 DEF TypeOK
  <2> QED
      BY <2>1, <2>2 DEF MergeFromDisk
<1> QED
    BY <1>1, <1>2 DEF MergeFromDisk, TypeOK

-----------------------------------------------------------------------------
(***************************************************************************)
(* Each step keeps DurableInv.                                             *)
(***************************************************************************)

\* init() up to the write: the maps are what was on file, or empty.
LEMMA BootStep ==
    ASSUME DurableInv, NEW p \in Procs,
           Load(p) \/ FindCorrupt(p) \/ Quarantine(p) \/ RefuseToStart(p) \/ StartFails(p)
    PROVE  DurableInv'
<1> USE DEF DurableInv
<1>1. UNCHANGED callVars /\ QueuesHoldPending'
    BY SameCalls DEF Load, FindCorrupt, Quarantine, RefuseToStart, StartFails, TypeOK
<1>2. faults' \in 0..MaxFaults
    BY ConstantsAssumption DEF Load, FindCorrupt, Quarantine, RefuseToStart, StartFails,
       TypeOK, Fault
<1>3. <<>> \in Seq(Writes) /\ On(<<>>) = {}
    BY OnElements, EmptySeq
<1>4. CASE Load(p)
  <2>1. TypeOK'
      BY <1>1, <1>2, <1>4 DEF Load, TypeOK, Stages, callVars, disk
  <2>2. ResolvedIsDurable'
      BY <1>4 DEF Load, ResolvedIsDurable, callVars, disk
  <2>3. mem'[p] = file /\ \A r \in Procs : r # p => mem'[r] = mem[r] /\ stage'[r] = stage[r]
      BY <1>4 DEF Load, TypeOK
  <2>4. FreshMapsHoldTheFile'
      BY <1>4, <2>3 DEF Load, FreshMapsHoldTheFile, disk
  <2>5. stage[p] = "down" /\ stage'[p] = "starting"
      BY <1>4 DEF Load, TypeOK
  <2>6. RunningCallIsKept'
      BY <1>4, <2>3, <2>5 DEF Load, RunningCallIsKept, callVars, disk, Serving
  <2> QED
      BY <2>1, <2>2, <2>4, <2>6
<1>5. CASE FindCorrupt(p)
  <2>1. TypeOK'
      BY <1>1, <1>2, <1>3, <1>5 DEF FindCorrupt, TypeOK, Stages, callVars, disk
  <2>2. ResolvedIsDurable'
      BY <1>5 DEF FindCorrupt, ResolvedIsDurable, callVars, disk
  <2>3. mem'[p] = <<>> /\ \A r \in Procs : r # p => mem'[r] = mem[r] /\ stage'[r] = stage[r]
      BY <1>5 DEF FindCorrupt, TypeOK
  <2>4. file = <<>>
      BY <1>5 DEF FindCorrupt, TypeOK
  <2>5. FreshMapsHoldTheFile'
      BY <1>5, <2>3, <2>4 DEF FindCorrupt, FreshMapsHoldTheFile, disk
  <2>6. stage[p] = "down" /\ stage'[p] = "quarantine"
      BY <1>5 DEF FindCorrupt, TypeOK
  <2>7. RunningCallIsKept'
      BY <1>5, <2>3, <2>6 DEF FindCorrupt, RunningCallIsKept, callVars, disk, Serving
  <2> QED
      BY <2>1, <2>2, <2>5, <2>7
<1>6. CASE Quarantine(p)
  <2>1. \/ file' = <<>> /\ health' = "absent" /\ excused' = (excused \/ p \in stale)
        \/ UNCHANGED <<file, health, excused>>
      BY <1>6 DEF Quarantine, disk
  <2>2. file' \in Seq(Writes) /\ excused' \in BOOLEAN
      BY <2>1, <1>3 DEF TypeOK
  <2>3. TypeOK'
      BY <1>1, <1>2, <2>1, <2>2, <1>6 DEF Quarantine, TypeOK, Stages, callVars
  <2>4. stage[p] = "quarantine" /\ stage'[p] = "starting" /\ mem' = mem /\ mem[p] = <<>>
      BY <1>6 DEF Quarantine, TypeOK, RunningCallIsKept
  <2>5. ~excused' => On(file) = On(file')
      BY <2>1, <2>4, <1>3 DEF FreshMapsHoldTheFile, TypeOK
  <2>6. ~excused' => ~excused
      BY <2>1
  <2>7. ResolvedIsDurable'
      BY <1>1, <2>5, <2>6 DEF ResolvedIsDurable, callVars
  <2>8. \A r \in Procs : r # p => stage'[r] = stage[r]
      BY <1>6 DEF Quarantine, TypeOK
  <2>9. FreshMapsHoldTheFile'
      BY <1>6, <2>4, <2>5, <2>6, <2>8 DEF Quarantine, FreshMapsHoldTheFile
  <2>10. RunningCallIsKept'
      BY <1>1, <2>4, <2>5, <2>6, <2>8 DEF RunningCallIsKept, callVars, Serving
  <2> QED
      BY <2>3, <2>7, <2>9, <2>10
<1>7. CASE RefuseToStart(p)
  <2>1. TypeOK'
      BY <1>1, <1>2, <1>7 DEF RefuseToStart, TypeOK, callVars, disk, history
  <2>2. UNCHANGED <<disk, mem, stage, queue, outcome, stale, excused>>
      BY <1>7 DEF RefuseToStart, callVars, history
  <2> QED
      BY <2>1, <2>2 DEF ResolvedIsDurable, FreshMapsHoldTheFile, RunningCallIsKept, disk
<1>8. CASE StartFails(p)
  <2>1. TypeOK'
      BY <1>1, <1>2, <1>3, <1>8 DEF StartFails, TypeOK, Stages, callVars, disk, history
  <2>2. /\ stage'[p] = "down" /\ mem'[p] = <<>> /\ stage[p] = "starting"
        /\ \A r \in Procs : r # p => mem'[r] = mem[r] /\ stage'[r] = stage[r]
      BY <1>8 DEF StartFails, TypeOK
  <2>3. UNCHANGED <<disk, queue, outcome, stale, excused>>
      BY <1>8 DEF StartFails, callVars, history
  <2> QED
      BY <2>1, <2>2, <2>3 DEF ResolvedIsDurable, FreshMapsHoldTheFile, RunningCallIsKept,
         disk, Serving
<1> QED
    BY <1>4, <1>5, <1>6, <1>7, <1>8

\* A new call goes to the end of its caller's queue.
LEMMA CallStep ==
    ASSUME DurableInv, NEW p \in Procs, Call(p)
    PROVE  DurableInv'
<1> DEFINE w == calls + 1
<1> USE DEF DurableInv
<1>1. /\ w \in Writes /\ calls' = w /\ calls < w
      /\ outcome' = [outcome EXCEPT ![w] = "pending"]
      /\ caller' = [caller EXCEPT ![w] = p]
      /\ queue' = [queue EXCEPT ![p] = Append(queue[p], w)]
      /\ UNCHANGED <<disk, mem, stage, draining, tail, faults, history>>
    BY ConstantsAssumption DEF Call, TypeOK, Writes
<1>2. outcome[w] = "new"
    BY <1>1 DEF TypeOK, QueuesHoldPending
<1> HIDE DEF w
<1>3. /\ queue[p] \in Seq(Writes)
      /\ Append(queue[p], w) \in Seq(Writes)
      /\ On(Append(queue[p], w)) = On(queue[p]) \cup {w}
      /\ Len(queue[p]) \in Nat
    BY <1>1, OnAppend, OnElements DEF TypeOK
<1>4. /\ Len(Append(queue[p], w)) = Len(queue[p]) + 1
      /\ \A i \in 1..Len(queue[p]) : Append(queue[p], w)[i] = queue[p][i]
      /\ Append(queue[p], w)[Len(queue[p]) + 1] = w
    BY <1>3
<1>5. /\ queue'[p] = Append(queue[p], w)
      /\ \A r \in Procs : r # p => queue'[r] = queue[r]
      /\ outcome'[w] = "pending" /\ caller'[w] = p
      /\ \A v \in Writes : v # w => outcome'[v] = outcome[v] /\ caller'[v] = caller[v]
    BY <1>1 DEF TypeOK
<1>6. QueuesHoldPending'
  <2>1. ASSUME NEW v \in Writes
        PROVE  /\ outcome'[v] = "new" <=> v > calls'
               /\ outcome'[v] = "pending" =>
                      caller'[v] \in Procs /\ v \in On(queue'[caller'[v]])
    <3>1. CASE v = w
        BY <3>1, <1>1, <1>3, <1>5 DEF Writes
    <3>2. CASE v # w
      <4>1. /\ outcome[v] = "new" <=> v > calls
            /\ outcome[v] = "pending" =>
                   caller[v] \in Procs /\ v \in On(queue[caller[v]])
          BY DEF TypeOK, QueuesHoldPending
      <4>2. v > calls' <=> v > calls
          BY <3>2, <1>1, ConstantsAssumption DEF w, Writes, TypeOK
      <4>3. outcome'[v] = outcome[v] /\ caller'[v] = caller[v]
          BY <3>2, <1>5
      <4>4. CASE caller[v] = p
          BY <4>1, <4>2, <4>3, <4>4, <1>3, <1>5
      <4>5. CASE caller[v] # p
          BY <4>1, <4>2, <4>3, <4>5, <1>5
      <4> QED
          BY <4>4, <4>5
    <3> QED
        BY <3>1, <3>2
  <2>2. ASSUME NEW r \in Procs, NEW i \in 1..Len(queue'[r])
        PROVE  /\ outcome'[queue'[r][i]] = "pending"
               /\ caller'[queue'[r][i]] = r
               /\ \A j \in 1..(i - 1) : queue'[r][j] < queue'[r][i]
    <3>1. ASSUME NEW k \in 1..Len(queue[r])
          PROVE  /\ queue[r][k] \in Writes /\ queue[r][k] # w /\ queue[r][k] < w
                 /\ outcome[queue[r][k]] = "pending" /\ caller[queue[r][k]] = r
                 /\ \A j \in 1..(k - 1) : queue[r][j] < queue[r][k]
      <4>1. queue[r][k] \in Writes
          BY ElementOfSeq DEF TypeOK
      <4>2. /\ outcome[queue[r][k]] = "pending" /\ caller[queue[r][k]] = r
            /\ \A j \in 1..(k - 1) : queue[r][j] < queue[r][k]
          BY DEF TypeOK, QueuesHoldPending
      <4>3. ~(queue[r][k] > calls)
          BY <4>1, <4>2 DEF TypeOK, QueuesHoldPending
      <4>4. queue[r][k] < w
          BY <4>1, <4>3, <1>1, ConstantsAssumption DEF w, Writes, TypeOK
      <4> QED
          BY <4>1, <4>2, <4>4, <1>1, ConstantsAssumption DEF Writes
    <3>2. CASE r # p
        BY <3>1, <3>2, <1>5
    <3>3. CASE r = p /\ i \in 1..Len(queue[p])
      <4>1. queue'[p][i] = queue[p][i]
          BY <3>3, <1>4, <1>5
      <4>2. \A j \in 1..(i - 1) : queue'[p][j] = queue[p][j]
          BY <3>3, <1>3, <1>4, <1>5
      <4> QED
          BY <3>1, <3>3, <4>1, <4>2, <1>5
    <3>4. CASE r = p /\ i = Len(queue[p]) + 1
      <4>1. queue'[p][i] = w
          BY <3>4, <1>4, <1>5
      <4>2. \A j \in 1..(i - 1) : queue'[p][j] = queue[p][j] /\ queue[p][j] < w
          BY <3>4, <3>1, <1>3, <1>4, <1>5
      <4> QED
          BY <3>4, <4>1, <4>2, <1>5
    <3> QED
        BY <3>2, <3>3, <3>4, <1>3, <1>4, <1>5
  <2> QED
      BY <2>1, <2>2 DEF QueuesHoldPending
<1>7. TypeOK'
    BY <1>1, <1>3, <1>6 DEF TypeOK, disk, history
<1>8. ResolvedIsDurable'
    BY <1>1, <1>2, <1>5 DEF ResolvedIsDurable, disk, history
<1>9. FreshMapsHoldTheFile'
    BY <1>1 DEF FreshMapsHoldTheFile, disk, history
<1>10. RunningCallIsKept'
  <2>1. queue[p] # <<>> => Head(queue'[p]) = Head(queue[p])
    <3>1. queue[p] # <<>> => Len(queue[p]) \in Nat \ {0} /\ Head(queue[p]) = queue[p][1]
        BY <1>3, OnTail
    <3>2. Head(queue'[p]) = queue'[p][1]
        BY <1>3, <1>4, <1>5, OnTail
    <3> QED
        BY <3>1, <3>2, <1>4, <1>5
  <2>2. queue'[p] # <<>>
      BY <1>4, <1>5, <1>3
  <2>3. stage[p] \in Serving
      BY DEF Call
  <2> QED
      BY <1>1, <1>5, <2>1, <2>2, <2>3 DEF RunningCallIsKept, disk, history
<1> QED
    BY <1>7, <1>8, <1>9, <1>10

\* The running call is in the maps that will be written.
LEMMA MutateStep ==
    ASSUME DurableInv, NEW p \in Procs, Mutate(p)
    PROVE  DurableInv'
<1> USE DEF DurableInv
<1>1. PICK content \in {file, mem[p]} :
          /\ MergeFromDisk(p, content)
          /\ mem' = [mem EXCEPT ![p] = Append(content, Head(queue[p]))]
    BY DEF Mutate
<1>2. /\ stage[p] = "ready" /\ queue[p] # <<>>
      /\ stage' = [stage EXCEPT ![p] = "writing"]
      /\ UNCHANGED <<disk, draining, tail, callVars, due, excused>>
    BY DEF Mutate
<1>3. /\ content \in Seq(Writes)
      /\ faults' \in 0..MaxFaults /\ stale' \subseteq Procs /\ kept' \subseteq Procs
      /\ \/ content = file /\ stale' = stale \ {p}
         \/ content = mem[p] /\ stale' = stale
    BY <1>1, MergeType
<1>4. Head(queue[p]) \in Writes
    BY <1>2, OnTail DEF TypeOK
<1>5. /\ Append(content, Head(queue[p])) \in Seq(Writes)
      /\ On(Append(content, Head(queue[p]))) = On(content) \cup {Head(queue[p])}
    BY <1>3, <1>4, OnAppend
<1>6. /\ mem'[p] = Append(content, Head(queue[p])) /\ stage'[p] = "writing"
      /\ \A r \in Procs : r # p => mem'[r] = mem[r] /\ stage'[r] = stage[r]
    BY <1>1, <1>2 DEF TypeOK
<1>7. QueuesHoldPending'
    BY <1>2, SameCalls DEF TypeOK
<1>8. TypeOK'
    BY <1>1, <1>2, <1>3, <1>5, <1>7 DEF TypeOK, Stages, disk, callVars
<1>9. ResolvedIsDurable'
    BY <1>2 DEF ResolvedIsDurable, disk, callVars
<1>10. FreshMapsHoldTheFile'
    BY <1>2, <1>3, <1>5, <1>6 DEF FreshMapsHoldTheFile, disk
<1>11. RunningCallIsKept'
    BY <1>2, <1>5, <1>6 DEF RunningCallIsKept, disk, callVars, Serving
<1> QED
    BY <1>8, <1>9, <1>10, <1>11

\* A mutation that throws leaves what its process re-read.
LEMMA ThrowStep ==
    ASSUME DurableInv, NEW p \in Procs, MutateThrows(p)
    PROVE  DurableInv'
<1> USE DEF DurableInv
<1>1. PICK content \in {file, mem[p]} :
          MergeFromDisk(p, content) /\ mem' = [mem EXCEPT ![p] = content]
    BY DEF MutateThrows
<1>2. /\ stage[p] = "ready" /\ queue[p] # <<>> /\ Settle(p, "rejected")
      /\ UNCHANGED <<disk, stage, draining, tail, due, excused>>
    BY DEF MutateThrows
<1>3. /\ content \in Seq(Writes)
      /\ faults' \in 0..MaxFaults /\ stale' \subseteq Procs /\ kept' \subseteq Procs
      /\ \/ content = file /\ stale' = stale \ {p}
         \/ content = mem[p] /\ stale' = stale
    BY <1>1, MergeType
<1>4. /\ queue' \in [Procs -> Seq(Writes)]
      /\ calls' \in Writes \cup {0}
      /\ caller' \in [Writes -> Procs \cup {None}]
      /\ outcome' \in [Writes -> {"new", "pending", "resolved", "rejected", "lost"}]
      /\ QueuesHoldPending'
      /\ outcome'[Head(queue[p])] = "rejected"
      /\ \A w \in Writes : w # Head(queue[p]) => outcome'[w] = outcome[w]
      /\ \A r \in Procs : r # p => queue'[r] = queue[r]
    BY <1>2, SettleType
<1>5. mem'[p] = content /\ \A r \in Procs : r # p => mem'[r] = mem[r]
    BY <1>1 DEF TypeOK
<1>6. TypeOK'
    BY <1>1, <1>2, <1>3, <1>4 DEF TypeOK, disk
<1>7. ResolvedIsDurable'
    BY <1>2, <1>4 DEF ResolvedIsDurable, disk
<1>8. FreshMapsHoldTheFile'
    BY <1>2, <1>3, <1>5 DEF FreshMapsHoldTheFile, disk
<1>9. RunningCallIsKept'
    BY <1>2, <1>4, <1>5 DEF RunningCallIsKept, disk, Serving
<1> QED
    BY <1>6, <1>7, <1>8, <1>9

\* A rename by a process that missed no write keeps what is on file.
LEMMA RenameStep ==
    ASSUME DurableInv, NEW p \in Procs, Start(p) \/ Write(p)
    PROVE  DurableInv'
<1> USE DEF DurableInv
<1>1. PICK next \in {"ready", "written"} :
          /\ Rename(p, next)
          /\ next = "written" => stage[p] = "writing"
          /\ next = "ready" => stage[p] = "starting"
    BY DEF Start, Write
<1>2. /\ file' = mem[p] /\ health' = "good"
      /\ stage' = [stage EXCEPT ![p] = next]
      /\ stale' = (stale \ {p}) \cup {q \in Procs \ {p} : stage[q] # "down"}
      /\ excused' = (excused \/ p \in stale)
      /\ UNCHANGED <<mem, draining, tail, callVars, faults, kept, due>>
    BY <1>1 DEF Rename
<1>3. stage[p] \in {"starting", "writing"}
    BY <1>1
<1>4. ~excused' => ~excused /\ On(file) \subseteq On(mem[p])
    BY <1>2, <1>3 DEF FreshMapsHoldTheFile
<1>5. stage'[p] = next /\ \A r \in Procs : r # p => stage'[r] = stage[r]
    BY <1>2 DEF TypeOK
<1>6. QueuesHoldPending'
    BY <1>2, SameCalls DEF TypeOK
<1>7. TypeOK'
  <2>1. excused' \in BOOLEAN /\ stale' \subseteq Procs
      BY <1>2 DEF TypeOK
  <2> QED
      BY <1>2, <1>6, <2>1 DEF TypeOK, Stages, callVars
<1>8. ResolvedIsDurable'
    BY <1>2, <1>4 DEF ResolvedIsDurable, callVars
<1>9. FreshMapsHoldTheFile'
    BY <1>2, <1>5 DEF FreshMapsHoldTheFile
<1>10. RunningCallIsKept'
  <2>1. ASSUME NEW r \in Procs, stage'[r] = "written", ~excused'
        PROVE  Head(queue[r]) \in On(mem[p])
    <3>1. CASE r = p
        BY <3>1, <2>1, <1>1, <1>5 DEF RunningCallIsKept
    <3>2. CASE r # p
        BY <3>2, <2>1, <1>4, <1>5 DEF RunningCallIsKept
    <3> QED
        BY <3>1, <3>2
  <2>2. queue' = queue /\ mem' = mem
      BY <1>2 DEF callVars
  <2>3. ASSUME NEW r \in Procs
        PROVE  /\ stage'[r] \in {"writing", "written"} => queue[r] # <<>>
               /\ stage'[r] \in {"down", "quarantine"} => mem[r] = <<>>
               /\ stage'[r] \notin Serving => queue[r] = <<>>
               /\ stage'[r] = "writing" => Head(queue[r]) \in On(mem[r])
      BY <1>1, <1>5 DEF RunningCallIsKept, Serving
  <2> QED
      BY <1>2, <2>1, <2>2, <2>3 DEF RunningCallIsKept
<1> QED
    BY <1>7, <1>8, <1>9, <1>10

\* A failed write and a finished one answer the running call.
LEMMA AnswerStep ==
    ASSUME DurableInv, NEW p \in Procs, WriteFails(p) \/ Resolve(p)
    PROVE  DurableInv'
<1> USE DEF DurableInv
<1>1. PICK result \in {"resolved", "rejected"} :
          /\ Settle(p, result)
          /\ result = "resolved" => stage[p] = "written"
    BY DEF WriteFails, Resolve
<1>2. /\ stage[p] \in {"writing", "written"}
      /\ stage' = [stage EXCEPT ![p] = "ready"]
      /\ UNCHANGED <<disk, mem, draining, tail, history>>
    BY DEF WriteFails, Resolve
<1>3. faults' \in 0..MaxFaults
    BY ConstantsAssumption DEF WriteFails, Resolve, Fault, TypeOK
<1>4. queue[p] # <<>>
    BY <1>2 DEF RunningCallIsKept
<1>5. /\ queue' \in [Procs -> Seq(Writes)]
      /\ calls' \in Writes \cup {0}
      /\ caller' \in [Writes -> Procs \cup {None}]
      /\ outcome' \in [Writes -> {"new", "pending", "resolved", "rejected", "lost"}]
      /\ QueuesHoldPending'
      /\ outcome'[Head(queue[p])] = result
      /\ \A w \in Writes : w # Head(queue[p]) => outcome'[w] = outcome[w]
      /\ \A r \in Procs : r # p => queue'[r] = queue[r]
    BY <1>1, <1>4, SettleType
<1>6. stage'[p] = "ready" /\ \A r \in Procs : r # p => stage'[r] = stage[r]
    BY <1>2 DEF TypeOK
<1>7. TypeOK'
    BY <1>2, <1>3, <1>5 DEF TypeOK, Stages, disk, history
<1>8. ResolvedIsDurable'
  <2> SUFFICES ASSUME NEW w \in Writes, outcome'[w] = "resolved", ~excused'
               PROVE  w \in On(file')
      BY DEF ResolvedIsDurable
  <2>1. file' = file /\ excused' = excused
      BY <1>2 DEF disk, history
  <2>2. CASE w = Head(queue[p])
      BY <2>1, <2>2, <1>1, <1>5 DEF RunningCallIsKept
  <2>3. CASE w # Head(queue[p])
      BY <2>1, <2>3, <1>5 DEF ResolvedIsDurable
  <2> QED
      BY <2>2, <2>3
<1>9. FreshMapsHoldTheFile'
    BY <1>2, <1>6 DEF FreshMapsHoldTheFile, disk, history
<1>10. RunningCallIsKept'
    BY <1>2, <1>5, <1>6 DEF RunningCallIsKept, disk, history, Serving
<1> QED
    BY <1>7, <1>8, <1>9, <1>10

\* flush() only waits.
LEMMA FlushStep ==
    ASSUME DurableInv, NEW p \in Procs, Flush(p)
    PROVE  DurableInv'
<1> USE DEF DurableInv
<1>1. QueuesHoldPending'
    BY SameCalls DEF TypeOK, Flush
<1>2. queue[p] \in Seq(Writes) /\ LastCall(p) \in Writes \cup {0} /\ On(queue[p]) \subseteq Writes
    BY OnElements DEF TypeOK, LastCall
<1>3. TypeOK'
    BY <1>1, <1>2 DEF Flush, TypeOK, disk, callVars
<1> QED
    BY <1>3 DEF Flush, ResolvedIsDurable, FreshMapsHoldTheFile, RunningCallIsKept, disk,
       callVars

\* A process that ends takes its maps and its unanswered calls with it.
LEMMA EndStep ==
    ASSUME DurableInv, NEW p \in Procs, Exit(p) \/ Crash(p)
    PROVE  DurableInv'
<1> USE DEF DurableInv
<1>1. End(p) /\ faults' \in 0..MaxFaults
    BY ConstantsAssumption DEF Exit, Crash, Fault, TypeOK
<1>2. /\ stage' = [stage EXCEPT ![p] = "down"]
      /\ mem' = [mem EXCEPT ![p] = <<>>]
      /\ queue' = [queue EXCEPT ![p] = <<>>]
      /\ outcome' = [w \in Writes |-> IF w \in On(queue[p]) THEN "lost" ELSE outcome[w]]
      /\ draining' = draining \ {p} /\ tail' = [tail EXCEPT ![p] = 0]
      /\ due' = [due EXCEPT ![p] = {}]
      /\ UNCHANGED <<disk, calls, caller, stale, kept, excused>>
    BY <1>1 DEF End
<1>3. <<>> \in Seq(Writes) /\ On(<<>>) = {} /\ Len(<<>>) = 0
    BY OnElements, EmptySeq
<1>4. /\ stage'[p] = "down" /\ mem'[p] = <<>> /\ queue'[p] = <<>>
      /\ \A r \in Procs : r # p =>
             stage'[r] = stage[r] /\ mem'[r] = mem[r] /\ queue'[r] = queue[r]
    BY <1>2 DEF TypeOK
<1>5. QueuesHoldPending'
  <2>1. ASSUME NEW w \in Writes
        PROVE  /\ outcome'[w] = "new" <=> w > calls'
               /\ outcome'[w] = "pending" =>
                      caller'[w] \in Procs /\ w \in On(queue'[caller'[w]])
    <3>1. /\ outcome[w] = "new" <=> w > calls
          /\ outcome[w] = "pending" => caller[w] \in Procs /\ w \in On(queue[caller[w]])
        BY DEF TypeOK, QueuesHoldPending
    <3>2. CASE w \in On(queue[p])
      <4>1. outcome[w] = "pending"
          BY <3>2 DEF On, TypeOK, QueuesHoldPending
      <4>2. outcome'[w] = "lost"
          BY <3>2, <1>2
      <4> QED
          BY <4>1, <4>2, <3>1, <1>2
    <3>3. CASE w \notin On(queue[p])
        BY <3>1, <3>3, <1>2, <1>4
    <3> QED
        BY <3>2, <3>3
  <2>2. ASSUME NEW r \in Procs, NEW i \in 1..Len(queue'[r])
        PROVE  /\ outcome'[queue'[r][i]] = "pending"
               /\ caller'[queue'[r][i]] = r
               /\ \A j \in 1..(i - 1) : queue'[r][j] < queue'[r][i]
    <3>1. r # p
        BY <1>3, <1>4
    <3>2. queue'[r] = queue[r] /\ i \in 1..Len(queue[r])
        BY <3>1, <1>4
    <3>3. queue[r][i] \in Writes
        BY <3>2, ElementOfSeq DEF TypeOK
    <3>4. /\ outcome[queue[r][i]] = "pending" /\ caller[queue[r][i]] = r
          /\ \A j \in 1..(i - 1) : queue[r][j] < queue[r][i]
        BY <3>2 DEF TypeOK, QueuesHoldPending
    <3>5. queue[r][i] \notin On(queue[p])
        BY <3>1, <3>4 DEF On, TypeOK, QueuesHoldPending
    <3> QED
        BY <3>2, <3>3, <3>4, <3>5, <1>2
  <2> QED
      BY <2>1, <2>2 DEF QueuesHoldPending
<1>6. TypeOK'
    BY <1>1, <1>2, <1>3, <1>5 DEF TypeOK, Stages, disk
<1>7. ResolvedIsDurable'
  <2>1. \A w \in Writes : outcome'[w] = "resolved" => outcome[w] = "resolved"
      BY <1>2
  <2> QED
      BY <2>1, <1>2 DEF ResolvedIsDurable, disk
<1>8. FreshMapsHoldTheFile'
    BY <1>2, <1>4 DEF FreshMapsHoldTheFile, disk
<1>9. RunningCallIsKept'
    BY <1>2, <1>4 DEF RunningCallIsKept, disk, Serving
<1> QED
    BY <1>6, <1>7, <1>8, <1>9

\* Damage from outside excuses the store.
LEMMA DamageStep ==
    ASSUME DurableInv, DamageFile
    PROVE  DurableInv'
<1> USE DEF DurableInv
<1>1. /\ file' = <<>> /\ health' \in {"absent", "corrupt"} /\ excused' = TRUE
      /\ UNCHANGED <<mem, stage, draining, tail, callVars, stale, kept, due>>
      /\ faults' \in 0..MaxFaults
    BY ConstantsAssumption DEF DamageFile, Fault, TypeOK
<1>2. QueuesHoldPending'
    BY <1>1, SameCalls DEF TypeOK
<1>3. <<>> \in Seq(Writes)
    BY EmptySeq
<1>4. TypeOK'
    BY <1>1, <1>2, <1>3 DEF TypeOK, callVars
<1>5. ResolvedIsDurable' /\ FreshMapsHoldTheFile'
    BY <1>1 DEF ResolvedIsDurable, FreshMapsHoldTheFile
<1>6. RunningCallIsKept'
    BY <1>1 DEF RunningCallIsKept, callVars
<1> QED
    BY <1>4, <1>5, <1>6

LEMMA DurableStep ==
    ASSUME DurableInv, [Next]_vars
    PROVE  DurableInv'
<1>1. CASE Next
  <2>1. ASSUME NEW p \in Procs,
               Boot(p) \/ Call(p) \/ QueueStep(p) \/ Flush(p) \/ Exit(p) \/ Crash(p)
        PROVE  DurableInv'
      BY <2>1, BootStep, CallStep, MutateStep, ThrowStep, RenameStep, AnswerStep, FlushStep,
         EndStep DEF Boot, QueueStep
  <2> QED
      BY <1>1, <2>1, DamageStep DEF Next
<1>2. CASE UNCHANGED vars
  <2>1. QueuesHoldPending'
      BY <1>2, SameCalls DEF vars, DurableInv, TypeOK
  <2> QED
      BY <1>2, <2>1 DEF vars, disk, callVars, history, DurableInv, TypeOK, ResolvedIsDurable,
         FreshMapsHoldTheFile, RunningCallIsKept
<1> QED
    BY <1>1, <1>2

LEMMA DurableInit ==
    ASSUME Init
    PROVE  DurableInv
<1>1. <<>> \in Seq(Writes) /\ On(<<>>) = {} /\ Len(<<>>) = 0
    BY OnElements, EmptySeq
<1>2. QueuesHoldPending
    BY <1>1, ConstantsAssumption DEF Init, QueuesHoldPending, Writes
<1>3. TypeOK
  <2>1. 0 \in 0..MaxFaults
      BY ConstantsAssumption
  <2>2. mem \in [Procs -> Seq(Writes)] /\ queue \in [Procs -> Seq(Writes)]
      BY <1>1 DEF Init
  <2>3. tail \in [Procs -> Writes \cup {0}]
      BY DEF Init
  <2> QED
      BY <1>1, <1>2, <2>1, <2>2, <2>3 DEF Init, TypeOK, Stages
<1> QED
    BY <1>1, <1>3 DEF Init, DurableInv, ResolvedIsDurable, FreshMapsHoldTheFile,
       RunningCallIsKept, Serving

\* The inductive invariant holds, however many processes share the file.
THEOREM DurableInvariance == Spec => []DurableInv
<1>1. Init => DurableInv
    BY DurableInit
<1>2. DurableInv /\ [Next]_vars => DurableInv'
    BY DurableStep
<1> QED
    BY <1>1, <1>2, PTL DEF Spec

\* TypeOK: the variables keep their types and the queues hold the pending
\* calls (fileStore.ts mutateDurable).
THEOREM TypeCorrect == Spec => []TypeOK
<1>1. DurableInv => TypeOK
    BY DEF DurableInv
<1> QED
    BY <1>1, DurableInvariance, PTL

\* ResolvedIsDurable: an answered mutation is on file for good, for any
\* number of processes, calls, failures and crashes, unless the file is
\* damaged or replaced by a stale write (fileStore.ts init, mutateDurable).
THEOREM Durability == Spec => []ResolvedIsDurable
<1>1. DurableInv => ResolvedIsDurable
    BY DEF DurableInv
<1> QED
    BY <1>1, DurableInvariance, PTL

-----------------------------------------------------------------------------
(***************************************************************************)
(* One process alone with its file implements AtomicStore: every step maps *)
(* to a step of AtomicStore or leaves what is stored and known unchanged.  *)
(***************************************************************************)

AbsStep == Abs!Next \/ UNCHANGED <<file, outcome>>

\* init() changes nothing that is stored.
LEMMA SoloBoot ==
    ASSUME SoloInv, \A p, r \in Procs : p = r, NEW p \in Procs,
           Load(p) \/ FindCorrupt(p) \/ Quarantine(p) \/ RefuseToStart(p) \/ StartFails(p)
           \/ Start(p)
    PROVE  Solo' /\ UNCHANGED <<file, outcome>>
<1> USE DEF SoloInv, Solo
<1>1. UNCHANGED <<outcome, queue>>
    BY DEF Load, FindCorrupt, Quarantine, RefuseToStart, StartFails, Start, Rename, callVars
<1>2. /\ stage[p] \in {"down", "quarantine", "starting"}
      /\ stage[p] = "starting" => mem[p] = file
      /\ file \in Seq(Writes) /\ mem[p] \in Seq(Writes) /\ Len(file) \in Nat
    BY OnElements DEF DurableInv, TypeOK, Load, FindCorrupt, Quarantine, RefuseToStart,
       StartFails, Start
<1>3. file' = file
    BY <1>2 DEF Load, FindCorrupt, Quarantine, RefuseToStart, StartFails, Start, Rename, disk
<1>4. ~excused'
    BY DEF Load, FindCorrupt, Quarantine, RefuseToStart, StartFails, Start, Rename, history
<1>5. stale' = {}
  <2>1. CASE Start(p)
      BY <2>1 DEF Start, Rename
  <2>2. CASE ~Start(p)
      BY <2>2 DEF Load, FindCorrupt, Quarantine, RefuseToStart, StartFails, history
  <2> QED
      BY <2>1, <2>2
<1>6. stage'[p] # "written" /\ stage[p] # "written" /\ stage'[p] # "writing"
    BY <1>2 DEF DurableInv, TypeOK, Load, FindCorrupt, Quarantine, RefuseToStart, StartFails,
       Start, Rename
<1>7. /\ stage'[p] \notin {"down", "quarantine"} => mem'[p] = file
      /\ stage'[p] = "quarantine" => file = <<>>
  <2>1. CASE Load(p)
      BY <2>1 DEF Load, DurableInv, TypeOK
  <2>2. CASE FindCorrupt(p)
      BY <2>2 DEF FindCorrupt, DurableInv, TypeOK
  <2>3. CASE Quarantine(p)
      BY <2>3 DEF Quarantine, DurableInv, TypeOK, RunningCallIsKept
  <2>4. CASE RefuseToStart(p)
      BY <2>4 DEF RefuseToStart
  <2>5. CASE StartFails(p)
      BY <2>5 DEF StartFails, DurableInv, TypeOK
  <2>6. CASE Start(p)
      BY <2>6, <1>2 DEF Start, Rename, DurableInv, TypeOK
  <2> QED
      BY <2>1, <2>2, <2>3, <2>4, <2>5, <2>6
<1>8. stage'[p] \notin {"down", "quarantine"} => MapsExtendTheFile(p)'
    BY <1>2, <1>3, <1>6, <1>7 DEF MapsExtendTheFile
<1>9. \A w \in On(file') : outcome'[w] \notin {"new", "pending"}
    BY <1>1, <1>2, <1>3, <1>6
<1> QED
    BY <1>1, <1>3, <1>4, <1>5, <1>7, <1>8, <1>9

\* Every pending call of the only process is in its queue, the head first.
LEMMA SoloPending ==
    ASSUME TypeOK, \A p, r \in Procs : p = r, NEW p \in Procs
    PROVE  /\ \A w \in Writes : outcome[w] = "pending" <=> w \in On(queue[p])
           /\ queue[p] # <<>> => /\ Head(queue[p]) \in Writes
                                 /\ outcome[Head(queue[p])] = "pending"
                                 /\ \A w \in Writes : outcome[w] = "pending" =>
                                        Head(queue[p]) = w \/ Head(queue[p]) < w
<1>1. queue[p] \in Seq(Writes)
    BY DEF TypeOK
<1>2. \A w \in Writes : outcome[w] = "pending" => w \in On(queue[p])
    BY DEF TypeOK, QueuesHoldPending
<1>3. \A w \in On(queue[p]) : outcome[w] = "pending"
    BY DEF TypeOK, QueuesHoldPending, On
<1>4. ASSUME queue[p] # <<>>
      PROVE  /\ Head(queue[p]) \in Writes /\ Head(queue[p]) = queue[p][1]
             /\ Len(queue[p]) \in Nat \ {0}
    BY <1>1, <1>4, OnTail
<1>5. ASSUME queue[p] # <<>>, NEW w \in Writes, outcome[w] = "pending"
      PROVE  Head(queue[p]) = w \/ Head(queue[p]) < w
  <2>1. PICK i \in 1..Len(queue[p]) : w = queue[p][i]
      BY <1>2, <1>5 DEF On
  <2>2. i # 1 => 1 \in 1..(i - 1)
      BY <1>4, <1>5
  <2> QED
      BY <1>4, <1>5, <2>1, <2>2 DEF TypeOK, QueuesHoldPending
<1>6. queue[p] # <<>> => outcome[Head(queue[p])] = "pending"
    BY <1>4 DEF TypeOK, QueuesHoldPending
<1> QED
    BY <1>2, <1>3, <1>4, <1>5, <1>6

\* A call is a call.
LEMMA SoloCall ==
    ASSUME SoloInv, \A p, r \in Procs : p = r, NEW p \in Procs, Call(p)
    PROVE  Solo' /\ AbsStep
<1> DEFINE w == calls + 1
<1> USE DEF SoloInv, Solo
<1>1. /\ w \in Writes /\ calls < w
      /\ outcome' = [outcome EXCEPT ![w] = "pending"]
      /\ queue' = [queue EXCEPT ![p] = Append(queue[p], w)]
      /\ UNCHANGED <<file, mem, stage, stale, excused>>
    BY ConstantsAssumption DEF Call, DurableInv, TypeOK, Writes, disk, history
<1>2. outcome[w] = "new"
    BY <1>1 DEF DurableInv, TypeOK, QueuesHoldPending
<1> HIDE DEF w
<1>3. /\ outcome'[w] = "pending"
      /\ \A v \in Writes : v # w => outcome'[v] = outcome[v]
    BY <1>1 DEF DurableInv, TypeOK
<1>4. Abs!Call(w)
    BY <1>1, <1>2 DEF Abs!Call
<1>5. AbsStep
    BY <1>1, <1>4 DEF AbsStep, Abs!Next
<1>6. stage[p] \in Serving
    BY DEF Call
<1>7. queue[p] # <<>> => Head(queue'[p]) = Head(queue[p])
  <2>1. queue[p] \in Seq(Writes) /\ queue'[p] = Append(queue[p], w)
      BY <1>1 DEF DurableInv, TypeOK
  <2>2. ASSUME queue[p] # <<>> PROVE Head(queue'[p]) = Head(queue[p])
    <3>1. Len(queue[p]) \in Nat \ {0} /\ Head(queue[p]) = queue[p][1]
        BY <2>1, <2>2, OnTail
    <3>2. Append(queue[p], w) \in Seq(Writes) /\ Append(queue[p], w) # <<>>
        BY <2>1, <1>1, OnAppend
    <3>3. Head(queue'[p]) = queue'[p][1]
        BY <2>1, <3>2, OnTail
    <3>4. Append(queue[p], w)[1] = queue[p][1]
        BY <3>1, <2>1
    <3> QED
        BY <2>1, <3>1, <3>3, <3>4
  <2> QED
      BY <2>2
<1>8. file \in Seq(Writes) /\ mem[p] \in Seq(Writes) /\ Len(file) \in Nat /\ Len(mem[p]) \in Nat
    BY OnElements DEF DurableInv, TypeOK
<1>9. MapsExtendTheFile(p)'
  <2>1. MapsExtendTheFile(p)
      BY <1>6 DEF Serving
  <2>2. ASSUME NEW i \in (Len(file) + 1)..Len(mem[p])
        PROVE  \/ outcome'[mem[p][i]] = "rejected"
               \/ (stage[p] = "writing" /\ i = Len(mem[p]))
    <3>1. mem[p][i] \in Writes
        BY <1>8, ElementOfSeq
    <3> QED
        BY <2>1, <3>1, <1>2, <1>3 DEF MapsExtendTheFile
  <2>3. stage[p] = "writing" => queue[p] # <<>>
      BY DEF DurableInv, RunningCallIsKept
  <2> QED
      BY <2>1, <2>2, <2>3, <1>1, <1>7 DEF MapsExtendTheFile
<1>10. ASSUME NEW v \in On(file')
       PROVE  /\ outcome'[v] # "new"
              /\ outcome'[v] = "pending" => stage'[p] = "written" /\ v = Head(queue'[p])
  <2>1. v \in On(file) /\ On(file) \subseteq Writes
      BY <1>1, <1>8, OnElements
  <2>2. v # w /\ outcome'[v] = outcome[v]
      BY <2>1, <1>2, <1>3
  <2>3. ASSUME outcome[v] = "pending"
        PROVE  stage'[p] = "written" /\ v = Head(queue'[p])
    <3>1. stage[p] = "written" /\ v = Head(queue[p])
        BY <2>1, <2>3
    <3>2. queue[p] # <<>>
        BY <3>1 DEF DurableInv, RunningCallIsKept
    <3> QED
        BY <3>1, <3>2, <1>1, <1>7
  <2> QED
      BY <2>1, <2>2, <2>3
<1> QED
    BY <1>1, <1>5, <1>6, <1>9, <1>10 DEF Serving

\* What the queues and answers are once the only process has answered.
LEMMA SoloSettle ==
    ASSUME SoloInv, \A p, r \in Procs : p = r, NEW p \in Procs,
           stage[p] \in Serving, stage'[p] = "ready", queue[p] # <<>>,
           NEW result \in {"resolved", "rejected"}, Settle(p, result),
           UNCHANGED <<file, stale, excused>>,
           result = "resolved" => stage[p] = "written",
           result = "rejected" => stage[p] # "written",
           stage[p] \in {"writing", "written"} => mem' = mem,
           stage[p] = "ready" => mem'[p] \in {file, mem[p]}
    PROVE  Solo' /\ AbsStep
<1> DEFINE h == Head(queue[p])
<1> USE DEF SoloInv, Solo
<1>1. /\ outcome[h] = "pending" /\ outcome'[h] = result /\ h \in Writes
      /\ \A w \in Writes : w # h => outcome'[w] = outcome[w]
      /\ outcome' = [outcome EXCEPT ![h] = result]
    BY SettleType DEF DurableInv, Settle
<1> HIDE DEF h
<1>2. h \in On(file) <=> stage[p] = "written"
    BY <1>1 DEF DurableInv, RunningCallIsKept, h
<1>3. AbsStep
  <2>1. CASE result = "resolved"
    <3>1. Abs!Resolve(h)
        BY <1>1, <1>2, <2>1 DEF Abs!Resolve, Abs!Committed, On
    <3> QED
        BY <3>1, <1>1 DEF AbsStep, Abs!Next
  <2>2. CASE result = "rejected"
    <3>1. Abs!Reject(h)
        BY <1>1, <1>2, <2>2 DEF Abs!Reject, Abs!Committed, On
    <3> QED
        BY <3>1, <1>1 DEF AbsStep, Abs!Next
  <2> QED
      BY <2>1, <2>2
<1>4. file \in Seq(Writes) /\ mem[p] \in Seq(Writes) /\ Len(file) \in Nat /\ Len(mem[p]) \in Nat
    BY OnElements DEF DurableInv, TypeOK
<1>5. MapsExtendTheFile(p)
    BY DEF Serving
<1>6. ASSUME NEW i \in (Len(file) + 1)..Len(mem[p])
      PROVE  outcome'[mem[p][i]] = "rejected"
  <2>1. mem[p][i] \in Writes
      BY <1>4, ElementOfSeq
  <2>2. CASE stage[p] = "writing" /\ i = Len(mem[p])
    <3>1. mem[p][i] = h
        BY <1>5, <2>2 DEF MapsExtendTheFile, h
    <3> QED
        BY <3>1, <2>2, <1>1
  <2>3. CASE outcome[mem[p][i]] = "rejected"
      BY <2>1, <2>3, <1>1
  <2> QED
      BY <2>2, <2>3, <1>5 DEF MapsExtendTheFile
<1>7. mem'[p] \in {file, mem[p]}
    BY DEF Serving
<1>8. MapsExtendTheFile(p)'
  <2>1. CASE mem'[p] = file
      BY <2>1, <1>4 DEF MapsExtendTheFile
  <2>2. CASE mem'[p] = mem[p]
      BY <2>2, <1>4, <1>5, <1>6 DEF MapsExtendTheFile
  <2> QED
      BY <1>7, <2>1, <2>2
<1>9. \A w \in On(file') : outcome'[w] \notin {"new", "pending"}
  <2> SUFFICES ASSUME NEW w \in On(file) PROVE outcome'[w] \notin {"new", "pending"}
      OBVIOUS
  <2>1. w \in Writes
      BY <1>4, OnElements
  <2>2. w # h => outcome[w] \notin {"new", "pending"}
      BY DEF h
  <2> QED
      BY <1>1, <2>1, <2>2
<1> QED
    BY <1>3, <1>8, <1>9

\* A throw, a failed write and a finished one answer the running call.
LEMMA SoloAnswer ==
    ASSUME SoloInv, \A p, r \in Procs : p = r, NEW p \in Procs,
           MutateThrows(p) \/ WriteFails(p) \/ Resolve(p)
    PROVE  Solo' /\ AbsStep
<1> USE DEF SoloInv
<1>1. CASE MutateThrows(p)
  <2>1. PICK content \in {file, mem[p]} :
            MergeFromDisk(p, content) /\ mem' = [mem EXCEPT ![p] = content]
      BY <1>1 DEF MutateThrows
  <2>2. stale' = stale
      BY <2>1 DEF MergeFromDisk, Solo
  <2>3. mem'[p] \in {file, mem[p]}
      BY <2>1 DEF DurableInv, TypeOK
  <2>4. /\ stage[p] = "ready" /\ stage'[p] = "ready" /\ queue[p] # <<>>
        /\ Settle(p, "rejected") /\ UNCHANGED <<file, excused>>
      BY <1>1 DEF MutateThrows, disk
  <2> QED
      BY <2>2, <2>3, <2>4, SoloSettle DEF Serving
<1>2. CASE WriteFails(p)
  <2>1. /\ stage[p] = "writing" /\ stage'[p] = "ready" /\ Settle(p, "rejected")
        /\ UNCHANGED <<file, stale, excused, mem>>
      BY <1>2 DEF WriteFails, disk, history, DurableInv, TypeOK
  <2>2. queue[p] # <<>>
      BY <2>1 DEF DurableInv, RunningCallIsKept
  <2> QED
      BY <2>1, <2>2, SoloSettle DEF Serving
<1>3. CASE Resolve(p)
  <2>1. /\ stage[p] = "written" /\ stage'[p] = "ready" /\ Settle(p, "resolved")
        /\ UNCHANGED <<file, stale, excused, mem>>
      BY <1>3 DEF Resolve, disk, history, DurableInv, TypeOK
  <2>2. queue[p] # <<>>
      BY <2>1 DEF DurableInv, RunningCallIsKept
  <2> QED
      BY <2>1, <2>2, SoloSettle DEF Serving
<1> QED
    BY <1>1, <1>2, <1>3

\* The maps a mutation leaves are the file, failed calls and the running one.
LEMMA SoloMutate ==
    ASSUME SoloInv, \A p, r \in Procs : p = r, NEW p \in Procs, Mutate(p)
    PROVE  Solo' /\ UNCHANGED <<file, outcome>>
<1> DEFINE h == Head(queue[p])
<1> USE DEF SoloInv, Solo
<1>1. PICK content \in {file, mem[p]} :
          MergeFromDisk(p, content) /\ mem' = [mem EXCEPT ![p] = Append(content, h)]
    BY DEF Mutate
<1>2. /\ stage[p] = "ready" /\ stage'[p] = "writing" /\ queue[p] # <<>>
      /\ UNCHANGED <<file, queue, outcome, excused>>
    BY DEF Mutate, disk, callVars, DurableInv, TypeOK
<1>3. stale' = {}
    BY <1>1 DEF MergeFromDisk
<1>4. file \in Seq(Writes) /\ mem[p] \in Seq(Writes) /\ Len(file) \in Nat /\ Len(mem[p]) \in Nat
    BY OnElements DEF DurableInv, TypeOK
<1>5. h \in Writes
    BY <1>2, OnTail DEF DurableInv, TypeOK
<1>6. mem'[p] = Append(content, h)
    BY <1>1 DEF DurableInv, TypeOK
<1> HIDE DEF h
<1>7. content \in Seq(Writes) /\ Len(content) \in Nat
    BY <1>4
<1>8. /\ Len(Append(content, h)) = Len(content) + 1
      /\ \A i \in 1..Len(content) : Append(content, h)[i] = content[i]
      /\ Append(content, h)[Len(content) + 1] = h
    BY <1>5, <1>7
<1>9. /\ Len(file) <= Len(content)
      /\ \A i \in 1..Len(file) : content[i] = file[i]
      /\ \A i \in (Len(file) + 1)..Len(content) : outcome[content[i]] = "rejected"
  <2>1. MapsExtendTheFile(p)
      BY <1>2
  <2>2. CASE content = file
      BY <2>2, <1>4
  <2>3. CASE content = mem[p]
      BY <2>1, <2>3, <1>2 DEF MapsExtendTheFile
  <2> QED
      BY <2>2, <2>3
<1>10. MapsExtendTheFile(p)'
  <2> DEFINE m == Append(content, h)
  <2>1. Len(file) <= Len(m) /\ Len(m) \in (Len(file) + 1)..Len(m) /\ m[Len(m)] = h
      BY <1>4, <1>7, <1>8, <1>9
  <2>2. \A i \in 1..Len(file) : m[i] = file[i]
      BY <1>4, <1>7, <1>8, <1>9
  <2>3. \A i \in (Len(file) + 1)..Len(m) : outcome[m[i]] = "rejected" \/ i = Len(m)
      BY <1>4, <1>7, <1>8, <1>9
  <2>4. mem'[p] = m /\ Head(queue'[p]) = h
      BY <1>2, <1>6 DEF h
  <2> HIDE DEF m
  <2> QED
      BY <1>2, <2>1, <2>2, <2>3, <2>4 DEF MapsExtendTheFile
<1>11. \A w \in On(file') : outcome'[w] \notin {"new", "pending"}
    BY <1>2
<1> QED
    BY <1>2, <1>3, <1>10, <1>11

\* The rename commits the running call.
LEMMA SoloWrite ==
    ASSUME SoloInv, \A p, r \in Procs : p = r, NEW p \in Procs, Write(p)
    PROVE  Solo' /\ AbsStep
<1> DEFINE h == Head(queue[p])
           m == mem[p]
<1> USE DEF SoloInv, Solo
<1>1. /\ stage[p] = "writing" /\ stage'[p] = "written"
      /\ file' = m /\ UNCHANGED <<mem, queue, outcome>>
      /\ ~excused' /\ stale' = {}
    BY DEF Write, Rename, callVars, DurableInv, TypeOK
<1>2. file \in Seq(Writes) /\ m \in Seq(Writes) /\ Len(file) \in Nat /\ Len(m) \in Nat
    BY OnElements DEF DurableInv, TypeOK
<1>3. queue[p] # <<>>
    BY <1>1 DEF DurableInv, RunningCallIsKept
<1>4. /\ h \in Writes /\ outcome[h] = "pending"
      /\ \A w \in Writes : outcome[w] = "pending" => h = w \/ h < w
    BY <1>3, SoloPending DEF DurableInv
<1>5. /\ Len(m) \in (Len(file) + 1)..Len(m) /\ m[Len(m)] = h
      /\ \A i \in 1..Len(file) : m[i] = file[i]
      /\ \A i \in (Len(file) + 1)..Len(m) : outcome[m[i]] = "rejected" \/ i = Len(m)
    BY <1>1 DEF MapsExtendTheFile
<1> HIDE DEF h, m
<1>6. \A w \in On(file) : outcome[w] \notin {"new", "pending"}
    BY <1>1
<1>7. Abs!Commit(h)
  <2>1. h \notin On(file)
      BY <1>4, <1>6
  <2>2. \A v \in Writes : v < h => outcome[v] # "pending"
      BY <1>4, ConstantsAssumption DEF Writes
  <2>3. \A i \in (Len(file) + 1)..(Len(m) - 1) : outcome[m[i]] = "rejected"
      BY <1>2, <1>5
  <2> QED
      BY <1>1, <1>2, <1>4, <1>5, <2>1, <2>2, <2>3 DEF Abs!Commit, Abs!Committed, On
<1>8. AbsStep
    BY <1>4, <1>7 DEF AbsStep, Abs!Next
<1>9. MapsExtendTheFile(p)'
    BY <1>1, <1>2 DEF MapsExtendTheFile, m
<1>10. ASSUME NEW w \in On(file')
       PROVE  outcome'[w] # "new" /\ (outcome'[w] = "pending" => w = h)
  <2>1. PICK i \in 1..Len(m) : w = m[i]
      BY <1>1 DEF On
  <2>2. CASE i \in 1..Len(file)
      BY <2>1, <2>2, <1>1, <1>5, <1>6 DEF On
  <2>3. CASE i \in (Len(file) + 1)..Len(m)
      BY <2>1, <2>3, <1>1, <1>4, <1>5
  <2> QED
      BY <2>2, <2>3, <1>2
<1> QED
    BY <1>1, <1>8, <1>9, <1>10 DEF h

\* The end of the process is the end of its pending calls.
LEMMA SoloEnd ==
    ASSUME SoloInv, \A p, r \in Procs : p = r, NEW p \in Procs, Exit(p) \/ Crash(p)
    PROVE  Solo' /\ AbsStep
<1> USE DEF SoloInv, Solo
<1>1. /\ stage'[p] = "down" /\ UNCHANGED <<file, stale, excused>>
      /\ outcome' = [w \in Writes |-> IF w \in On(queue[p]) THEN "lost" ELSE outcome[w]]
    BY DEF Exit, Crash, End, disk, DurableInv, TypeOK
<1>2. \A w \in Writes : outcome[w] = "pending" <=> w \in On(queue[p])
    BY SoloPending DEF DurableInv
<1>3. outcome' = [w \in Writes |-> IF outcome[w] = "pending" THEN "lost" ELSE outcome[w]]
    BY <1>1, <1>2
<1>4. Abs!Lose
    BY <1>1, <1>3 DEF Abs!Lose
<1>5. \A w \in On(file') : outcome'[w] \notin {"new", "pending"}
  <2>1. On(file) \subseteq Writes
      BY OnElements DEF DurableInv, TypeOK
  <2> QED
      BY <2>1, <1>1, <1>3
<1> QED
    BY <1>1, <1>4, <1>5 DEF AbsStep, Abs!Next

LEMMA SoloStep ==
    ASSUME SoloInv, \A p, r \in Procs : p = r, FileDamage = FALSE, [Next]_vars
    PROVE  SoloInv' /\ AbsStep
<1>1. DurableInv'
    BY DurableStep DEF SoloInv
<1>2. ASSUME NEW p \in Procs,
             Boot(p) \/ Call(p) \/ QueueStep(p) \/ Flush(p) \/ Exit(p) \/ Crash(p)
      PROVE  Solo' /\ AbsStep
  <2>1. CASE Boot(p)
      BY <2>1, SoloBoot DEF Boot, AbsStep
  <2>2. CASE Call(p)
      BY <2>2, SoloCall
  <2>3. CASE QueueStep(p)
      BY <2>3, SoloMutate, SoloAnswer, SoloWrite DEF QueueStep, AbsStep
  <2>4. CASE Flush(p)
      BY <2>4 DEF Flush, SoloInv, Solo, AbsStep, MapsExtendTheFile, disk, callVars
  <2>5. CASE Exit(p) \/ Crash(p)
      BY <2>5, SoloEnd
  <2> QED
      BY <1>2, <2>1, <2>2, <2>3, <2>4, <2>5
<1>3. CASE UNCHANGED vars
    BY <1>1, <1>3 DEF vars, SoloInv, Solo, AbsStep, MapsExtendTheFile, disk, callVars, history
<1>4. ~DamageFile
    BY DEF DamageFile
<1> QED
    BY <1>1, <1>2, <1>3, <1>4 DEF Next, SoloInv

\* ImplementsAtomicStore: the store of one process whose file is left alone
\* commits every mutation once, in one step and in the order of the calls,
\* through any failures and crashes (fileStore.ts mutateDurable, atomicWrite).
THEOREM Refinement ==
    ASSUME \A p, r \in Procs : p = r, FileDamage = FALSE
    PROVE  Spec => ImplementsAtomicStore
<1>1. Init => SoloInv /\ Abs!Init
  <2>1. ASSUME Init PROVE Solo
    <3>1. On(<<>>) = {}
        BY OnElements, EmptySeq
    <3> QED
        BY <2>1, <3>1 DEF Init, Solo
  <2> QED
      BY <2>1, DurableInit DEF SoloInv, Init, Abs!Init
<1>2. SoloInv /\ [Next]_vars => SoloInv' /\ [Abs!Next]_(Abs!vars)
    BY SoloStep DEF AbsStep, Abs!vars
<1> QED
    BY <1>1, <1>2, PTL DEF Spec, ImplementsAtomicStore, Abs!Spec

-----------------------------------------------------------------------------
(***************************************************************************)
(* What a failed write leaves behind: each step keeps FileIsGood and       *)
(* MapsAreGood.                                                            *)
(***************************************************************************)

Good == FileIsGood /\ MapsAreGood

\* What is on file or in the maps, and whom a pending call belongs to.
LEMMA Contents ==
    ASSUME RejectedInv
    PROVE  /\ TypeOK /\ FileIsGood /\ MapsAreGood
           /\ On(file) \subseteq Writes
           /\ \A r \in Procs : On(mem[r]) \subseteq Writes
           /\ \A w \in Writes : outcome[w] = "pending" =>
                  caller[w] \in Procs /\ w \in On(queue[caller[w]])
           /\ \A r \in Procs : stage[r] \in {"writing", "written"} => queue[r] # <<>>
           /\ \A r \in Procs : queue[r] # <<>> =>
                  /\ Head(queue[r]) \in Writes /\ Head(queue[r]) \in On(queue[r])
                  /\ outcome[Head(queue[r])] = "pending" /\ caller[Head(queue[r])] = r
<1>1. TypeOK /\ FileIsGood /\ MapsAreGood /\ RunningCallIsKept /\ QueuesHoldPending
    BY DEF RejectedInv, DurableInv, TypeOK
<1>2. On(file) \subseteq Writes /\ \A r \in Procs : On(mem[r]) \subseteq Writes
    BY <1>1, OnElements DEF TypeOK
<1>3. \A w \in Writes : outcome[w] = "pending" =>
          caller[w] \in Procs /\ w \in On(queue[caller[w]])
    BY <1>1 DEF QueuesHoldPending
<1>4. ASSUME NEW r \in Procs, queue[r] # <<>>
      PROVE  /\ Head(queue[r]) \in Writes /\ Head(queue[r]) \in On(queue[r])
             /\ outcome[Head(queue[r])] = "pending" /\ caller[Head(queue[r])] = r
  <2>1. queue[r] \in Seq(Writes)
      BY <1>1 DEF TypeOK
  <2>2. /\ Head(queue[r]) \in Writes /\ Head(queue[r]) = queue[r][1]
        /\ 1 \in 1..Len(queue[r]) /\ Head(queue[r]) \in On(queue[r])
      BY <2>1, <1>4, OnTail
  <2> QED BY <1>1, <2>2 DEF QueuesHoldPending
<1> QED BY <1>1, <1>2, <1>3, <1>4 DEF RunningCallIsKept

\* A step of init() answers nothing, and takes the maps from the file.
LEMMA GoodAside ==
    ASSUME RejectedInv, UNCHANGED <<callVars, kept>>,
           \A r \in Procs : \/ stage'[r] = stage[r]
                            \/ stage[r] \notin Serving /\ stage'[r] \notin Serving,
           On(file') \subseteq On(file),
           \A r \in Procs : On(mem'[r]) \subseteq On(mem[r]) \cup On(file)
    PROVE  Good'
<1>1. /\ UNCHANGED <<outcome, caller, queue, kept>>
      /\ On(file) \subseteq Writes
      /\ \A r \in Procs : On(mem[r]) \subseteq Writes
      /\ \A w \in Writes : outcome[w] = "pending" => caller[w] \in Procs
    BY Contents DEF callVars
<1>2. ASSUME NEW w \in On(file)
      PROVE  GoodOnFile(w)'
  <2>1. GoodOnFile(w)
      BY Contents DEF FileIsGood
  <2>2. outcome[w] = "pending" => IsWritten(w)'
      BY <1>1, <1>2, <2>1 DEF GoodOnFile, IsWritten, Serving
  <2> QED BY <1>1, <2>1, <2>2 DEF GoodOnFile
<1>3. ASSUME NEW r \in Procs, NEW w \in On(mem[r])
      PROVE  GoodInMaps(r, w)'
  <2>1. GoodInMaps(r, w) /\ w \in Writes
      BY <1>1, <1>3, Contents DEF MapsAreGood
  <2>2. outcome[w] = "pending" => IsWritten(w)' \/ Runs(r, w)'
      BY <1>1, <1>3, <2>1 DEF GoodInMaps, IsWritten, Runs, Serving
  <2>3. stage[r] = "ready" => stage'[r] = "ready"
      BY <1>3 DEF Serving
  <2> QED BY <1>1, <2>1, <2>2, <2>3 DEF GoodInMaps
<1>4. ASSUME NEW r \in Procs, NEW w \in On(file)
      PROVE  GoodInMaps(r, w)'
    BY <1>2, <1>4 DEF GoodOnFile, GoodInMaps
<1> QED BY <1>2, <1>3, <1>4 DEF Good, FileIsGood, MapsAreGood

\* Nor does a step that leaves every process alone.
LEMMA GoodStays ==
    ASSUME RejectedInv, UNCHANGED <<callVars, kept, stage, mem>>, On(file') \subseteq On(file)
    PROVE  Good'
<1>1. UNCHANGED <<callVars, kept>> /\ stage' = stage /\ mem' = mem
    OBVIOUS
<1>2. \A r \in Procs : On(mem'[r]) \subseteq On(mem[r]) \cup On(file)
    BY <1>1
<1>3. \A r \in Procs : stage'[r] = stage[r]
    BY <1>1
<1> QED BY <1>1, <1>2, <1>3, GoodAside

LEMMA GoodBoot ==
    ASSUME RejectedInv, NEW p \in Procs,
           Load(p) \/ FindCorrupt(p) \/ Quarantine(p) \/ RefuseToStart(p) \/ StartFails(p)
    PROVE  Good'
<1>1. TypeOK
    BY Contents
<1>2. On(<<>>) = {}
    BY OnElements, EmptySeq
<1>3. UNCHANGED <<callVars, kept>> /\ file' \in {file, <<>>}
    BY DEF Load, FindCorrupt, Quarantine, RefuseToStart, StartFails, disk, history
<1>4. stage[p] \notin Serving /\ (stage'[p] = stage[p] \/ stage'[p] \notin Serving)
    BY <1>1 DEF Load, FindCorrupt, Quarantine, RefuseToStart, StartFails, Serving, TypeOK
<1>5. \A r \in Procs : r # p => stage'[r] = stage[r]
    BY <1>1 DEF Load, FindCorrupt, Quarantine, RefuseToStart, StartFails, TypeOK
<1>6. mem' \in {mem, [mem EXCEPT ![p] = <<>>], [mem EXCEPT ![p] = file]}
    BY DEF Load, FindCorrupt, Quarantine, RefuseToStart, StartFails
<1>7. \A r \in Procs : mem'[r] \in {mem[r], <<>>, file}
    BY <1>1, <1>6 DEF TypeOK
<1>8. On(file') \subseteq On(file)
    BY <1>2, <1>3
<1>9. \A r \in Procs : On(mem'[r]) \subseteq On(mem[r]) \cup On(file)
  <2> TAKE r \in Procs
  <2> QED BY <1>2, <1>7
<1> QED BY <1>3, <1>4, <1>5, <1>8, <1>9, GoodAside

\* A rename puts the maps on file, and with them the running call.
LEMMA GoodRename ==
    ASSUME RejectedInv, NEW p \in Procs, Start(p) \/ Write(p)
    PROVE  Good'
<1>1. TypeOK
    BY Contents
<1>2. /\ UNCHANGED <<mem, outcome, caller, queue, kept>> /\ file' = mem[p]
      /\ \/ stage[p] = "starting" /\ stage'[p] = "ready"
         \/ stage[p] = "writing" /\ stage'[p] = "written"
      /\ \A r \in Procs : r # p => stage'[r] = stage[r]
    BY <1>1 DEF Start, Write, Rename, callVars, TypeOK
<1>3. ASSUME NEW w, outcome[w] = "pending", caller[w] \in Procs, IsWritten(w) \/ Runs(p, w)
      PROVE  IsWritten(w)'
  <2>1. CASE IsWritten(w)
    <3>1. caller[w] # p
        BY <1>2, <2>1 DEF IsWritten
    <3> QED BY <1>2, <1>3, <2>1, <3>1 DEF IsWritten
  <2>2. CASE Runs(p, w)
      BY <1>2, <2>2 DEF IsWritten, Runs
  <2> QED BY <1>3, <2>1, <2>2
<1>4. ASSUME NEW w \in On(mem[p])
      PROVE  GoodOnFile(w)'
  <2>1. GoodInMaps(p, w) /\ w \in Writes /\ (outcome[w] = "pending" => caller[w] \in Procs)
      BY Contents DEF MapsAreGood
  <2>2. outcome[w] = "pending" => IsWritten(w)'
      BY <1>3, <2>1 DEF GoodInMaps
  <2>3. outcome[w] = "rejected" => caller[w] \in kept
      BY <1>2, <2>1 DEF GoodInMaps
  <2> QED BY <1>2, <2>1, <2>2, <2>3 DEF GoodInMaps, GoodOnFile
<1>5. ASSUME NEW r \in Procs, NEW w \in On(mem[r])
      PROVE  GoodInMaps(r, w)'
  <2>1. GoodInMaps(r, w) /\ w \in Writes /\ (outcome[w] = "pending" => caller[w] \in Procs)
      BY Contents DEF MapsAreGood
  <2>2. outcome[w] = "pending" => IsWritten(w)' \/ Runs(r, w)'
    <3>1. CASE r # p /\ Runs(r, w)
        BY <1>2, <3>1 DEF Runs
    <3>2. CASE IsWritten(w) \/ (r = p /\ Runs(r, w))
        BY <1>3, <2>1, <3>2
    <3> QED BY <2>1, <3>1, <3>2 DEF GoodInMaps
  <2>3. stage[r] = "ready" => stage'[r] = "ready"
      BY <1>2
  <2> QED BY <1>2, <2>1, <2>2, <2>3 DEF GoodInMaps
<1> QED BY <1>2, <1>4, <1>5 DEF Good, FileIsGood, MapsAreGood

\* What a mutation starts from: what is on file, unless it cannot be read.
LEMMA GoodMerge ==
    ASSUME RejectedInv, NEW p \in Procs, stage[p] = "ready",
           NEW content \in {file, mem[p]}, MergeFromDisk(p, content)
    PROVE  /\ kept \subseteq kept'
           /\ \A w \in On(content) :
                  /\ outcome[w] # "new" /\ w \in Writes
                  /\ outcome[w] = "pending" => IsWritten(w) /\ caller[w] # p
                  /\ outcome[w] = "rejected" => caller[w] \in kept'
<1>1. kept \subseteq kept' /\ (content = file \/ kept' = kept \cup {p})
    BY DEF MergeFromDisk
<1>2. ASSUME NEW w \in On(content)
      PROVE  /\ outcome[w] # "new" /\ w \in Writes
             /\ outcome[w] = "pending" => IsWritten(w)
             /\ outcome[w] = "rejected" => caller[w] \in kept'
  <2>1. CASE content = file
      BY <1>1, <1>2, <2>1, Contents DEF FileIsGood, GoodOnFile
  <2>2. CASE content = mem[p] /\ kept' = kept \cup {p}
    <3>1. GoodInMaps(p, w) /\ w \in Writes
        BY <1>2, <2>2, Contents DEF MapsAreGood
    <3> QED BY <2>2, <3>1 DEF GoodInMaps, Runs
  <2> QED BY <1>1, <2>1, <2>2
<1>3. \A w : IsWritten(w) => caller[w] # p
    BY DEF IsWritten
<1> QED BY <1>1, <1>2, <1>3

LEMMA GoodMutate ==
    ASSUME RejectedInv, NEW p \in Procs, Mutate(p)
    PROVE  Good'
<1> DEFINE h == Head(queue[p])
<1>1. TypeOK
    BY Contents
<1>2. PICK content \in {file, mem[p]} :
          MergeFromDisk(p, content) /\ mem' = [mem EXCEPT ![p] = Append(content, h)]
    BY DEF Mutate
<1>3. /\ stage[p] = "ready" /\ stage'[p] = "writing" /\ queue[p] # <<>>
      /\ \A r \in Procs : r # p => stage'[r] = stage[r]
      /\ UNCHANGED <<file, outcome, caller, queue>>
    BY <1>1 DEF Mutate, disk, callVars, TypeOK
<1>4. h \in Writes /\ outcome[h] = "pending" /\ caller[h] = p
    BY <1>3, Contents
<1>5. /\ kept \subseteq kept'
      /\ \A w \in On(content) :
             /\ outcome[w] # "new" /\ w \in Writes
             /\ outcome[w] = "pending" => IsWritten(w) /\ caller[w] # p
             /\ outcome[w] = "rejected" => caller[w] \in kept'
    BY <1>2, <1>3, GoodMerge
<1>6. On(Append(content, h)) = On(content) \cup {h}
    BY <1>1, <1>4, OnAppend DEF TypeOK
<1>7. mem'[p] = Append(content, h) /\ \A r \in Procs : r # p => mem'[r] = mem[r]
    BY <1>1, <1>2 DEF TypeOK
<1>8. ASSUME NEW w, w = h
      PROVE  Runs(p, w)'
    BY <1>3, <1>4, <1>8 DEF Runs
<1> HIDE DEF h
<1>9. ASSUME NEW w \in Writes, outcome[w] = "pending", IsWritten(w)
      PROVE  IsWritten(w)'
  <2>1. caller[w] \in Procs /\ caller[w] # p
      BY <1>3, <1>9, Contents DEF IsWritten
  <2> QED BY <1>3, <1>9, <2>1 DEF IsWritten
<1>10. ASSUME NEW w \in On(file)
       PROVE  GoodOnFile(w)'
  <2>1. GoodOnFile(w) /\ w \in Writes
      BY Contents DEF FileIsGood
  <2> QED BY <1>3, <1>5, <1>9, <2>1 DEF GoodOnFile
<1>11. ASSUME NEW w \in On(mem'[p])
       PROVE  GoodInMaps(p, w)'
  <2>1. CASE w \in On(content)
      BY <1>3, <1>5, <1>9, <2>1 DEF GoodInMaps
  <2>2. CASE w = h
      BY <1>3, <1>4, <1>8, <2>2 DEF GoodInMaps
  <2> QED BY <1>6, <1>7, <1>11, <2>1, <2>2
<1>12. ASSUME NEW r \in Procs, r # p, NEW w \in On(mem[r])
       PROVE  GoodInMaps(r, w)'
  <2>1. GoodInMaps(r, w) /\ w \in Writes
      BY Contents DEF MapsAreGood
  <2>2. Runs(r, w) => Runs(r, w)'
      BY <1>3, <1>12 DEF Runs
  <2> QED BY <1>3, <1>5, <1>9, <1>12, <2>1, <2>2 DEF GoodInMaps
<1> QED BY <1>3, <1>7, <1>10, <1>11, <1>12 DEF Good, FileIsGood, MapsAreGood

\* The answer to the running call: only a failed write leaves it in the maps.
LEMMA GoodAnswer ==
    ASSUME RejectedInv, NEW p \in Procs, MutateThrows(p) \/ WriteFails(p) \/ Resolve(p)
    PROVE  Good'
<1> DEFINE h == Head(queue[p])
<1>1. TypeOK
    BY Contents
<1>2. /\ stage[p] \in Serving /\ stage'[p] = "ready"
      /\ \A r \in Procs : r # p => stage'[r] = stage[r]
      /\ file' = file
    BY <1>1 DEF MutateThrows, WriteFails, Resolve, Serving, disk, TypeOK
<1>3. PICK result \in {"resolved", "rejected"} : Settle(p, result)
    BY DEF MutateThrows, WriteFails, Resolve
<1>4. result = "resolved" => Resolve(p)
  <2>1. queue[p] # <<>>
      BY Contents DEF MutateThrows, WriteFails, Resolve
  <2>2. outcome'[h] = result
      BY <1>1, <1>3, <2>1, SettleType
  <2>3. Settle(p, "rejected") => outcome'[h] = "rejected"
      BY <1>1, <2>1, SettleType
  <2> QED BY <2>2, <2>3 DEF MutateThrows, WriteFails
<1>5. queue[p] # <<>>
    BY Contents DEF MutateThrows, WriteFails, Resolve
<1>6. /\ h \in Writes /\ outcome[h] = "pending" /\ caller[h] = p
      /\ outcome'[h] = result /\ caller' = caller
      /\ \A w \in Writes : w # h => outcome'[w] = outcome[w]
      /\ \A r \in Procs : r # p => queue'[r] = queue[r]
    BY <1>1, <1>3, <1>5, SettleType, Contents DEF Settle
<1> HIDE DEF h
<1>7. kept \subseteq kept'
  <2>1. CASE MutateThrows(p)
      BY <2>1, GoodMerge DEF MutateThrows
  <2>2. CASE WriteFails(p) \/ Resolve(p)
      BY <2>2 DEF WriteFails, Resolve, history
  <2> QED BY <2>1, <2>2
<1>8. ASSUME NEW w \in Writes, w # h, outcome[w] = "pending", IsWritten(w)
      PROVE  IsWritten(w)'
  <2>1. caller[w] \in Procs
      BY <1>8, Contents
  <2>2. caller[w] # p
      BY <1>8 DEF IsWritten, h
  <2> QED BY <1>2, <1>6, <1>8, <2>1, <2>2 DEF IsWritten
<1>9. ASSUME NEW w, IsWritten(w), w = h
      PROVE  Resolve(p)
    BY <1>6, <1>9 DEF IsWritten, MutateThrows, WriteFails
<1>10. ASSUME NEW w \in On(file)
       PROVE  GoodOnFile(w)'
  <2>1. GoodOnFile(w) /\ w \in Writes
      BY Contents DEF FileIsGood
  <2>2. CASE w = h
    <3>1. Resolve(p)
        BY <1>6, <1>9, <2>1, <2>2 DEF GoodOnFile
    <3>2. outcome'[h] = "resolved"
        BY <1>1, <1>5, <3>1, SettleType DEF Resolve, h
    <3> QED BY <2>2, <3>2 DEF GoodOnFile
  <2>3. CASE w # h
      BY <1>6, <1>7, <1>8, <2>1, <2>3 DEF GoodOnFile
  <2> QED BY <2>2, <2>3
<1>11. ASSUME NEW r \in Procs, NEW w \in On(mem[r]), w # h, r # p \/ ~MutateThrows(p)
       PROVE  GoodInMaps(r, w)'
  <2>1. GoodInMaps(r, w) /\ w \in Writes /\ outcome'[w] = outcome[w]
      BY <1>6, <1>11, Contents DEF MapsAreGood
  <2>2. Runs(r, w) => Runs(r, w)'
      BY <1>2, <1>6, <1>11 DEF Runs, h
  <2>3. stage[r] = "ready" => stage'[r] = "ready"
      BY <1>2
  <2> QED BY <1>6, <1>7, <1>8, <1>11, <2>1, <2>2, <2>3 DEF GoodInMaps
<1>12. ASSUME NEW r \in Procs, NEW w \in On(mem[r]), w = h
       PROVE  GoodInMaps(r, w)'
  <2>1. GoodInMaps(r, w) /\ outcome[w] = "pending"
      BY <1>6, <1>12, Contents DEF MapsAreGood
  <2>2. CASE IsWritten(w)
    <3>1. Resolve(p)
        BY <1>9, <1>12, <2>2
    <3>2. outcome'[w] = "resolved"
        BY <1>1, <1>5, <1>12, <3>1, SettleType DEF Resolve, h
    <3> QED BY <3>2 DEF GoodInMaps
  <2>3. CASE Runs(r, w)
    <3>1. r = p /\ caller'[w] = p /\ stage'[p] = "ready" /\ outcome'[w] \notin {"new", "pending"}
        BY <1>2, <1>6, <1>12, <2>3 DEF Runs
    <3> QED BY <3>1 DEF GoodInMaps
  <2> QED BY <2>1, <2>2, <2>3 DEF GoodInMaps
<1>13. CASE MutateThrows(p)
  <2>1. PICK content \in {file, mem[p]} :
            MergeFromDisk(p, content) /\ mem' = [mem EXCEPT ![p] = content]
      BY <1>13 DEF MutateThrows
  <2>2. stage[p] = "ready"
      BY <1>13 DEF MutateThrows
  <2>3. mem'[p] = content /\ \A r \in Procs : r # p => mem'[r] = mem[r]
      BY <1>1, <2>1 DEF TypeOK
  <2>4. \A w \in On(content) :
             /\ outcome[w] # "new" /\ w \in Writes
             /\ outcome[w] = "pending" => IsWritten(w) /\ caller[w] # p
             /\ outcome[w] = "rejected" => caller[w] \in kept'
      BY <2>1, <2>2, GoodMerge
  <2>5. ASSUME NEW w \in On(content)
        PROVE  GoodInMaps(p, w)'
    <3>1. w # h
        BY <1>6, <2>4, <2>5
    <3> QED BY <1>6, <1>8, <2>4, <2>5, <3>1 DEF GoodInMaps
  <2>6. ASSUME NEW r \in Procs, r # p, NEW w \in On(mem[r])
        PROVE  GoodInMaps(r, w)'
    <3>1. CASE w = h
        BY <1>12, <2>6, <3>1
    <3>2. CASE w # h
        BY <1>11, <2>6, <3>2
    <3> QED BY <3>1, <3>2
  <2>7. \A r \in Procs : \A w \in On(mem'[r]) : GoodInMaps(r, w)'
    <3> TAKE r \in Procs
    <3>1. CASE r = p
        BY <2>3, <2>5, <3>1
    <3>2. CASE r # p
        BY <2>3, <2>6, <3>2
    <3> QED BY <3>1, <3>2
  <2> QED BY <1>2, <1>10, <2>7 DEF Good, FileIsGood, MapsAreGood
<1>14. CASE ~MutateThrows(p)
  <2>1. mem' = mem
      BY <1>14 DEF WriteFails, Resolve
  <2>2. ASSUME NEW r \in Procs, NEW w \in On(mem[r])
        PROVE  GoodInMaps(r, w)'
    <3>1. CASE w = h
        BY <1>12, <2>2, <3>1
    <3>2. CASE w # h
        BY <1>11, <1>14, <2>2, <3>2
    <3> QED BY <3>1, <3>2
  <2> QED BY <1>2, <1>10, <2>1, <2>2 DEF Good, FileIsGood, MapsAreGood
<1> QED BY <1>13, <1>14

\* A new call is neither on file nor in the maps, and runs behind the others.
LEMMA GoodCall ==
    ASSUME RejectedInv, NEW p \in Procs, Call(p)
    PROVE  Good'
<1> DEFINE c == calls + 1
<1>1. /\ TypeOK /\ c \in Writes /\ c > calls
      /\ outcome' = [outcome EXCEPT ![c] = "pending"]
      /\ caller' = [caller EXCEPT ![c] = p]
      /\ queue' = [queue EXCEPT ![p] = Append(queue[p], c)]
      /\ UNCHANGED <<file, mem, stage, kept>>
    BY Contents, ConstantsAssumption DEF Call, TypeOK, Writes, disk, history
<1>2. outcome[c] = "new"
    BY <1>1 DEF TypeOK, QueuesHoldPending
<1> HIDE DEF c
<1>3. \A w \in Writes : w # c => outcome'[w] = outcome[w] /\ caller'[w] = caller[w]
    BY <1>1 DEF TypeOK
<1>4. ASSUME NEW r \in Procs, queue[r] # <<>>
      PROVE  Head(queue'[r]) = Head(queue[r])
  <2>1. CASE r = p
    <3>1. queue[p] \in Seq(Writes) /\ queue'[p] = Append(queue[p], c)
        BY <1>1 DEF TypeOK
    <3>2. Len(queue[p]) \in Nat \ {0} /\ Head(queue[p]) = queue[p][1]
        BY <1>4, <2>1, <3>1, OnTail
    <3>3. Append(queue[p], c) \in Seq(Writes) /\ Append(queue[p], c) # <<>>
        BY <1>1, <3>1, OnAppend
    <3>4. Head(Append(queue[p], c)) = Append(queue[p], c)[1]
        BY <3>3, OnTail
    <3>5. Append(queue[p], c)[1] = queue[p][1]
        BY <3>1, <3>2
    <3> QED BY <2>1, <3>1, <3>2, <3>4, <3>5
  <2>2. CASE r # p
      BY <1>1, <2>2 DEF TypeOK
  <2> QED BY <2>1, <2>2
<1>5. ASSUME NEW w \in Writes, outcome[w] = "pending", IsWritten(w)
      PROVE  IsWritten(w)'
  <2>1. caller[w] \in Procs /\ w # c /\ caller'[w] = caller[w]
      BY <1>2, <1>3, <1>5, Contents
  <2>2. queue[caller[w]] # <<>>
      BY <1>5, <2>1, Contents DEF IsWritten
  <2> QED BY <1>1, <1>4, <1>5, <2>1, <2>2 DEF IsWritten
<1>6. ASSUME NEW w \in On(file)
      PROVE  GoodOnFile(w)'
  <2>1. GoodOnFile(w) /\ w \in Writes /\ w # c
      BY <1>2, Contents DEF FileIsGood, GoodOnFile
  <2> QED BY <1>1, <1>3, <1>5, <2>1 DEF GoodOnFile
<1>7. ASSUME NEW r \in Procs, NEW w \in On(mem[r])
      PROVE  GoodInMaps(r, w)'
  <2>1. GoodInMaps(r, w) /\ w \in Writes /\ w # c
      BY <1>2, Contents DEF MapsAreGood, GoodInMaps
  <2>2. Runs(r, w) => Runs(r, w)'
    <3>1. Runs(r, w) => queue[r] # <<>>
        BY Contents DEF Runs
    <3> QED BY <1>1, <1>3, <1>4, <2>1, <3>1 DEF Runs
  <2> QED BY <1>1, <1>3, <1>5, <2>1, <2>2 DEF GoodInMaps
<1> QED BY <1>1, <1>6, <1>7 DEF Good, FileIsGood, MapsAreGood

\* What a process that ends has not answered is lost, not rejected.
LEMMA GoodEnd ==
    ASSUME RejectedInv, NEW p \in Procs, Exit(p) \/ Crash(p)
    PROVE  Good'
<1>1. /\ TypeOK /\ UNCHANGED <<file, caller, kept>>
      /\ stage' = [stage EXCEPT ![p] = "down"]
      /\ mem' = [mem EXCEPT ![p] = <<>>]
      /\ queue' = [queue EXCEPT ![p] = <<>>]
      /\ outcome' = [w \in Writes |-> IF w \in On(queue[p]) THEN "lost" ELSE outcome[w]]
    BY Contents DEF Exit, Crash, End, disk
<1>2. /\ mem'[p] = <<>> /\ On(<<>>) = {}
      /\ \A r \in Procs : r # p =>
             stage'[r] = stage[r] /\ mem'[r] = mem[r] /\ queue'[r] = queue[r]
    BY <1>1, OnElements, EmptySeq DEF TypeOK
<1>3. ASSUME NEW w \in Writes
      PROVE  /\ outcome'[w] \in {outcome[w], "lost"}
             /\ outcome'[w] = "pending" =>
                    outcome[w] = "pending" /\ caller[w] \in Procs /\ caller[w] # p
    BY <1>1, Contents
<1>4. ASSUME NEW w \in Writes, outcome'[w] = "pending", IsWritten(w)
      PROVE  IsWritten(w)'
    BY <1>1, <1>2, <1>3, <1>4 DEF IsWritten
<1>5. ASSUME NEW w \in On(file)
      PROVE  GoodOnFile(w)'
  <2>1. GoodOnFile(w) /\ w \in Writes
      BY Contents DEF FileIsGood
  <2> QED BY <1>1, <1>3, <1>4, <2>1 DEF GoodOnFile
<1>6. ASSUME NEW r \in Procs, r # p, NEW w \in On(mem[r])
      PROVE  GoodInMaps(r, w)'
  <2>1. GoodInMaps(r, w) /\ w \in Writes
      BY Contents DEF MapsAreGood
  <2>2. Runs(r, w) => Runs(r, w)'
      BY <1>1, <1>2, <1>6 DEF Runs
  <2> QED BY <1>1, <1>2, <1>3, <1>4, <1>6, <2>1, <2>2 DEF GoodInMaps
<1> QED BY <1>1, <1>2, <1>5, <1>6 DEF Good, FileIsGood, MapsAreGood

LEMMA GoodStep ==
    ASSUME RejectedInv, [Next]_vars
    PROVE  RejectedInv'
<1>1. DurableInv'
    BY DurableStep DEF RejectedInv
<1>2. ASSUME NEW p \in Procs,
             Boot(p) \/ Call(p) \/ QueueStep(p) \/ Flush(p) \/ Exit(p) \/ Crash(p)
      PROVE  Good'
  <2>1. CASE Flush(p)
      BY <2>1, GoodAside DEF Flush, disk
  <2> QED BY <1>2, <2>1, GoodBoot, GoodRename, GoodMutate, GoodAnswer, GoodCall, GoodEnd
             DEF Boot, QueueStep
<1>3. ASSUME DamageFile PROVE Good'
  <2>1. On(<<>>) = {}
      BY OnElements, EmptySeq
  <2>2. file' = <<>> /\ UNCHANGED <<callVars, kept, stage, mem>>
      BY <1>3 DEF DamageFile
  <2>3. On(file') \subseteq On(file)
      BY <2>1, <2>2
  <2> QED BY <2>2, <2>3, GoodStays
<1>4. ASSUME UNCHANGED vars PROVE Good'
  <2>1. UNCHANGED <<callVars, kept, stage, mem, file>>
      BY <1>4 DEF vars, disk, history
  <2>2. On(file') \subseteq On(file)
      BY <2>1
  <2> QED BY <2>1, <2>2, GoodStays
<1> QED BY <1>1, <1>2, <1>3, <1>4 DEF Next, Good, RejectedInv

\* RejectedStaysOut: a mutation whose caller was told it failed is never on
\* file, unless its process has gone on without being able to read the file,
\* for any number of processes, failures and crashes (fileStore.ts
\* mutateDurable and mergeFromDisk).
THEOREM RejectedAlwaysStaysOut == Spec => []RejectedStaysOut
<1>1. Init => RejectedInv
  <2>1. On(<<>>) = {}
      BY OnElements, EmptySeq
  <2>2. ASSUME Init
        PROVE  FileIsGood /\ MapsAreGood
      BY <2>1, <2>2 DEF Init, FileIsGood, MapsAreGood
  <2> QED BY <2>2, DurableInit DEF RejectedInv
<1>2. RejectedInv /\ [Next]_vars => RejectedInv'
    BY GoodStep
<1>3. RejectedInv => RejectedStaysOut
    BY DEF RejectedInv, FileIsGood, GoodOnFile, RejectedStaysOut
<1> QED BY <1>1, <1>2, <1>3, PTL DEF Spec

-----------------------------------------------------------------------------
(***************************************************************************)
(* What a shutdown waits for: each step keeps DueIsQueued.                 *)
(***************************************************************************)

\* What is due and queued, in numbers.
LEMMA DueTypes ==
    ASSUME DrainInv
    PROVE  /\ TypeOK /\ DueIsQueued /\ RunningCallIsKept
           /\ calls \in Nat /\ Writes \subseteq Nat \ {0}
           /\ \A r \in Procs :
                  /\ due[r] \subseteq Writes /\ tail[r] \in Nat /\ tail[r] <= calls
                  /\ queue[r] \in Seq(Writes) /\ On(queue[r]) \subseteq Writes
                  /\ \A w \in On(queue[r]) :
                         outcome[w] = "pending" /\ caller[w] = r /\ w <= calls
<1>1. TypeOK /\ DueIsQueued /\ RunningCallIsKept /\ QueuesHoldPending
    BY DEF DrainInv, DurableInv, TypeOK
<1>2. calls \in Nat /\ Writes \subseteq Nat \ {0}
    BY <1>1, ConstantsAssumption DEF TypeOK, Writes
<1>3. ASSUME NEW r \in Procs
      PROVE  /\ due[r] \subseteq Writes /\ tail[r] \in Nat /\ tail[r] <= calls
             /\ queue[r] \in Seq(Writes) /\ On(queue[r]) \subseteq Writes
  <2>1. due[r] \in SUBSET Writes /\ tail[r] \in Writes \cup {0} /\ queue[r] \in Seq(Writes)
      BY <1>1 DEF TypeOK
  <2>2. tail[r] <= calls
      BY <1>1 DEF DueIsQueued
  <2>3. On(queue[r]) \subseteq Writes
      BY <2>1, OnElements
  <2>4. tail[r] \in Nat
    <3>1. CASE tail[r] = 0
        BY <3>1
    <3>2. CASE tail[r] \in Writes
        BY <1>2, <3>2
    <3> QED BY <2>1, <3>1, <3>2
  <2> QED BY <2>1, <2>2, <2>3, <2>4
<1>4. ASSUME NEW r \in Procs, NEW w \in On(queue[r])
      PROVE  outcome[w] = "pending" /\ caller[w] = r /\ w <= calls
  <2>1. outcome[w] = "pending" /\ caller[w] = r /\ w \in Writes
      BY <1>1, <1>3, <1>4 DEF QueuesHoldPending, On
  <2>2. ~(w > calls)
      BY <1>1, <2>1 DEF QueuesHoldPending
  <2>3. w \in Nat
      BY <1>2, <2>1
  <2>4. w <= calls
      BY <1>2, <2>2, <2>3
  <2> QED BY <2>1, <2>4
<1> QED BY <1>1, <1>2, <1>3, <1>4

LEMMA DueCall ==
    ASSUME DrainInv, NEW p \in Procs, Call(p)
    PROVE  DueIsQueued'
<1> DEFINE c == calls + 1
<1>1. /\ c \in Writes /\ calls' = c
      /\ outcome' = [outcome EXCEPT ![c] = "pending"]
      /\ queue' = [queue EXCEPT ![p] = Append(queue[p], c)]
      /\ UNCHANGED <<tail, due>>
    BY DueTypes, ConstantsAssumption DEF Call, TypeOK, Writes, history
<1>2. c > calls /\ outcome[c] = "new"
    BY <1>1, DueTypes DEF TypeOK, QueuesHoldPending
<1> HIDE DEF c
<1>3. \A w \in Writes : w # c => outcome'[w] = outcome[w]
    BY <1>1, DueTypes DEF TypeOK
<1>4. \A r \in Procs : On(queue'[r]) \in {On(queue[r]), On(queue[r]) \cup {c}}
    BY <1>1, DueTypes, OnAppend DEF TypeOK
<1> SUFFICES ASSUME NEW r \in Procs
             PROVE  /\ \A w \in due[r] : w <= tail[r] /\ (Settled(w)' \/ w \in On(queue'[r]))
                    /\ \A w \in On(queue'[r]) : w <= tail[r] => tail[r] \in On(queue'[r])
                    /\ tail[r] <= calls'
    BY <1>1 DEF DueIsQueued
<1>5. ASSUME NEW w \in due[r]
      PROVE  w <= tail[r] /\ (Settled(w)' \/ w \in On(queue'[r]))
  <2>1. w \in Writes /\ w <= tail[r] /\ (Settled(w) \/ w \in On(queue[r]))
      BY <1>5, DueTypes DEF DueIsQueued
  <2>2. Settled(w) => w # c
      BY <1>2 DEF Settled
  <2> QED BY <1>3, <1>4, <2>1, <2>2 DEF Settled
<1>6. ~(c <= tail[r]) /\ tail[r] <= calls'
    BY <1>1, <1>2, DueTypes
<1>7. ASSUME NEW w \in On(queue'[r]), w <= tail[r]
      PROVE  tail[r] \in On(queue'[r])
  <2>1. w \in On(queue[r])
      BY <1>4, <1>6, <1>7
  <2>2. tail[r] \in On(queue[r])
      BY <1>7, <2>1, DueTypes DEF DueIsQueued
  <2> QED BY <1>4, <2>2
<1> QED BY <1>5, <1>6, <1>7

\* The answer to the running call: what stays queued is later.
LEMMA DueAnswer ==
    ASSUME DrainInv, NEW p \in Procs, MutateThrows(p) \/ WriteFails(p) \/ Resolve(p)
    PROVE  DueIsQueued'
<1> DEFINE h == Head(queue[p])
<1>1. queue[p] # <<>> /\ UNCHANGED <<calls, tail, due>>
    BY DueTypes DEF RunningCallIsKept, MutateThrows, WriteFails, Resolve, Settle, history
<1>2. PICK result \in {"resolved", "rejected"} : Settle(p, result)
    BY DEF MutateThrows, WriteFails, Resolve
<1>3. /\ h \in Writes /\ outcome[h] = "pending" /\ outcome'[h] = result
      /\ \A w \in Writes : w # h => outcome'[w] = outcome[w]
      /\ queue'[p] = Tail(queue[p])
      /\ \A r \in Procs : r # p => queue'[r] = queue[r]
    BY <1>1, <1>2, DueTypes, SettleType
<1>4. /\ h = queue[p][1] /\ Len(queue[p]) \in Nat \ {0}
      /\ Len(queue'[p]) = Len(queue[p]) - 1
      /\ \A i \in 1..(Len(queue[p]) - 1) : queue'[p][i] = queue[p][i + 1]
      /\ On(queue[p]) = {h} \cup On(queue'[p])
    BY <1>1, <1>3, DueTypes, OnTail
<1>5. \A w \in On(queue'[p]) : h < w
  <2> TAKE w \in On(queue'[p])
  <2>1. PICK i \in 1..Len(queue'[p]) : w = queue'[p][i]
      BY DEF On
  <2>2. i \in 1..(Len(queue[p]) - 1) /\ i + 1 \in 1..Len(queue[p]) /\ 1 \in 1..((i + 1) - 1)
      BY <1>4, <2>1
  <2>3. \A j \in 1..Len(queue[p]) : \A k \in 1..(j - 1) : queue[p][k] < queue[p][j]
      BY DueTypes DEF TypeOK, QueuesHoldPending
  <2> QED BY <1>4, <2>1, <2>2, <2>3
<1> HIDE DEF h
<1> SUFFICES ASSUME NEW r \in Procs
             PROVE  /\ \A w \in due[r] : w <= tail[r] /\ (Settled(w)' \/ w \in On(queue'[r]))
                    /\ \A w \in On(queue'[r]) : w <= tail[r] => tail[r] \in On(queue'[r])
                    /\ tail[r] <= calls'
    BY <1>1 DEF DueIsQueued
<1>6. ASSUME NEW w \in due[r]
      PROVE  w <= tail[r] /\ (Settled(w)' \/ w \in On(queue'[r]))
  <2>1. w \in Writes /\ w <= tail[r] /\ (Settled(w) \/ w \in On(queue[r]))
      BY <1>6, DueTypes DEF DueIsQueued
  <2>2. CASE w = h
      BY <1>3, <2>1, <2>2 DEF Settled
  <2>3. CASE w # h
      BY <1>3, <1>4, <2>1, <2>3 DEF Settled
  <2> QED BY <2>2, <2>3
<1>7. ASSUME NEW w \in On(queue'[r]), w <= tail[r]
      PROVE  tail[r] \in On(queue'[r])
  <2>1. On(queue'[r]) \subseteq On(queue[r])
      BY <1>3, <1>4
  <2>2. tail[r] \in On(queue[r])
      BY <1>7, <2>1, DueTypes DEF DueIsQueued
  <2>3. CASE r = p
    <3>1. h < w /\ w \in Nat /\ tail[p] \in Nat /\ h \in Nat
        BY <1>3, <1>5, <1>7, <2>1, <2>3, DueTypes
    <3>2. tail[p] # h
        BY <3>1, <2>3, <1>7
    <3> QED BY <1>4, <2>2, <2>3, <3>2
  <2>4. CASE r # p
      BY <1>3, <2>2, <2>4
  <2> QED BY <2>3, <2>4
<1> QED BY <1>1, <1>6, <1>7, DueTypes

\* flush() waits for the last call of the queue, which is the latest.
LEMMA DueFlush ==
    ASSUME DrainInv, NEW p \in Procs, Flush(p)
    PROVE  DueIsQueued'
<1>1. /\ UNCHANGED <<calls, outcome, queue>>
      /\ tail' = [tail EXCEPT ![p] = LastCall(p)]
      /\ due' = [due EXCEPT ![p] = On(queue[p])]
    BY DEF Flush, callVars
<1>2. /\ tail'[p] = LastCall(p) /\ due'[p] = On(queue[p])
      /\ \A r \in Procs : r # p => tail'[r] = tail[r] /\ due'[r] = due[r]
    BY <1>1, DueTypes DEF TypeOK
<1>3. /\ LastCall(p) <= calls
      /\ \A w \in On(queue[p]) : w <= LastCall(p) /\ LastCall(p) \in On(queue[p])
  <2>1. CASE queue[p] = <<>>
    <3>1. On(queue[p]) = {}
        BY <2>1, OnElements, EmptySeq
    <3> QED BY <2>1, <3>1, DueTypes DEF LastCall
  <2>2. CASE queue[p] # <<>>
    <3> DEFINE n == Len(queue[p])
    <3>1. n \in Nat \ {0} /\ LastCall(p) = queue[p][n] /\ n \in 1..n
        BY <2>2, DueTypes, OnElements DEF LastCall
    <3>2. LastCall(p) \in On(queue[p])
        BY <3>1 DEF On
    <3>3. ASSUME NEW w \in On(queue[p])
          PROVE  w <= LastCall(p)
      <4>1. PICK i \in 1..n : w = queue[p][i]
          BY <3>3 DEF On
      <4>2. \A j \in 1..(n - 1) : queue[p][j] < queue[p][n]
          BY <3>1, DueTypes DEF TypeOK, QueuesHoldPending
      <4>3. w \in Nat /\ LastCall(p) \in Nat
          BY <3>2, <3>3, DueTypes
      <4>4. i = n \/ i \in 1..(n - 1)
          BY <3>1, <4>1
      <4> QED BY <3>1, <4>1, <4>2, <4>3, <4>4
    <3> QED BY <3>2, <3>3, DueTypes
  <2> QED BY <2>1, <2>2
<1>4. ASSUME NEW r \in Procs
      PROVE  /\ \A w \in due'[r] : w <= tail'[r] /\ (Settled(w)' \/ w \in On(queue'[r]))
             /\ \A w \in On(queue'[r]) : w <= tail'[r] => tail'[r] \in On(queue'[r])
             /\ tail'[r] <= calls'
  <2>1. CASE r = p
      BY <1>1, <1>2, <1>3, <2>1
  <2>2. CASE r # p
      BY <1>1, <1>2, <2>2, DueTypes DEF DueIsQueued, Settled
  <2> QED BY <2>1, <2>2
<1> QED BY <1>4 DEF DueIsQueued

\* A process that ends has nothing due, and answers nobody else's calls.
LEMMA DueEnd ==
    ASSUME DrainInv, NEW p \in Procs, Exit(p) \/ Crash(p)
    PROVE  DueIsQueued'
<1>1. /\ UNCHANGED calls
      /\ tail' = [tail EXCEPT ![p] = 0] /\ due' = [due EXCEPT ![p] = {}]
      /\ queue' = [queue EXCEPT ![p] = <<>>]
      /\ outcome' = [w \in Writes |-> IF w \in On(queue[p]) THEN "lost" ELSE outcome[w]]
    BY DEF Exit, Crash, End
<1>2. /\ tail'[p] = 0 /\ due'[p] = {} /\ queue'[p] = <<>>
      /\ \A r \in Procs : r # p =>
             tail'[r] = tail[r] /\ due'[r] = due[r] /\ queue'[r] = queue[r]
    BY <1>1, DueTypes DEF TypeOK
<1>3. On(<<>>) = {} /\ 0 <= calls
  <2>1. calls \in Nat
      BY DueTypes
  <2>2. On(<<>>) = {}
      BY OnElements, EmptySeq
  <2> QED BY <2>1, <2>2
<1>4. \A w \in Writes : Settled(w) => Settled(w)'
  <2>1. \A w \in On(queue[p]) : ~Settled(w)
      BY DueTypes DEF Settled
  <2> QED BY <1>1, <2>1 DEF Settled
<1>5. ASSUME NEW r \in Procs
      PROVE  /\ \A w \in due'[r] : w <= tail'[r] /\ (Settled(w)' \/ w \in On(queue'[r]))
             /\ \A w \in On(queue'[r]) : w <= tail'[r] => tail'[r] \in On(queue'[r])
             /\ tail'[r] <= calls'
  <2>1. CASE r = p
      BY <1>1, <1>2, <1>3, <2>1
  <2>2. CASE r # p
      BY <1>1, <1>2, <1>4, <2>2, DueTypes DEF DueIsQueued
  <2> QED BY <2>1, <2>2
<1> QED BY <1>5 DEF DueIsQueued

LEMMA DueStep ==
    ASSUME DrainInv, [Next]_vars
    PROVE  DrainInv'
<1>1. DurableInv'
    BY DurableStep DEF DrainInv
<1>2. ASSUME UNCHANGED <<calls, outcome, queue, tail, due>>
      PROVE  DueIsQueued'
    BY <1>2, DueTypes DEF DueIsQueued, Settled
<1>3. ASSUME NEW p \in Procs,
             Boot(p) \/ Call(p) \/ QueueStep(p) \/ Flush(p) \/ Exit(p) \/ Crash(p)
      PROVE  DueIsQueued'
  <2>1. CASE Boot(p) \/ Mutate(p) \/ Write(p)
    <3>1. UNCHANGED <<calls, outcome, queue, tail, due>>
        BY <2>1 DEF Boot, Load, FindCorrupt, Quarantine, RefuseToStart, StartFails, Start,
           Mutate, Write, Rename, callVars, history
    <3> QED BY <1>2, <3>1
  <2> QED BY <1>3, <2>1, DueCall, DueAnswer, DueFlush, DueEnd DEF QueueStep
<1>4. DamageFile \/ UNCHANGED vars => DueIsQueued'
    BY <1>2 DEF DamageFile, vars, callVars, history
<1> QED BY <1>1, <1>3, <1>4 DEF Next, DrainInv

\* ExitAnswersTheQueue: a process that stops by itself leaves no call
\* unanswered that was queued when it began to, however many were queued and
\* whatever failed meanwhile (index.ts shutdown, fileStore.ts flush).
THEOREM ExitAlwaysAnswersTheQueue == Spec => ExitAnswersTheQueue
<1>1. Init => DrainInv
  <2>1. On(<<>>) = {}
      BY OnElements, EmptySeq
  <2>2. ASSUME Init
        PROVE  DueIsQueued
      BY <2>1, <2>2 DEF Init, DueIsQueued
  <2> QED BY <2>2, DurableInit DEF DrainInv
<1>2. DrainInv /\ [Next]_vars => DrainInv'
    BY DueStep
<1>3. ASSUME DrainInv, NEW p \in Procs, Exit(p), NEW w \in due[p]
      PROVE  Settled(w)
  <2>1. w \in Writes /\ w <= tail[p] /\ (Settled(w) \/ w \in On(queue[p]))
      BY <1>3, DueTypes DEF DueIsQueued
  <2>2. tail[p] # 0 /\ Settled(tail[p])
      BY <1>3, <2>1, DueTypes DEF Exit
  <2>3. tail[p] \notin On(queue[p])
      BY <1>3, <2>2, DueTypes DEF Settled
  <2> QED BY <1>3, <2>1, <2>3, DueTypes DEF DueIsQueued
<1>4. DrainInv /\ [Next]_vars => [\A p \in Procs : Exit(p) => \A w \in due[p] : Settled(w)]_vars
    BY <1>3
<1> QED BY <1>1, <1>2, <1>4, PTL DEF Spec, ExitAnswersTheQueue
=============================================================================

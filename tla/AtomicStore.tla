---------------------------- MODULE AtomicStore ----------------------------
(***************************************************************************)
(* What the durable store promises its callers: a write is committed once, *)
(* in one step, in the order of the calls, and only then reported as done; *)
(* a crash loses the report, never what is committed.                      *)
(* What it does not promise: a write that was reported as failed may still *)
(* be committed, together with a later one.  Writes are numbered in the    *)
(* order of the calls.                                                     *)
(***************************************************************************)
EXTENDS Integers, Sequences

CONSTANT Writes       \* a set of numbers

VARIABLES
    stored,      \* the writes committed, in order
    outcome      \* what the caller of each write knows

vars == <<stored, outcome>>

Init ==
    /\ stored = <<>>
    /\ outcome = [w \in Writes |-> "new"]

Committed == {stored[i] : i \in 1..Len(stored)}

Call(w) ==
    /\ outcome[w] = "new"
    /\ outcome' = [outcome EXCEPT ![w] = "pending"]
    /\ UNCHANGED stored

\* w is committed behind what is stored, with failed writes just before it,
\* and overtakes no earlier call.
Commit(w) ==
    /\ outcome[w] = "pending"
    /\ w \notin Committed
    /\ \A v \in Writes : v < w => outcome[v] # "pending" \/ v \in Committed
    /\ stored' \in Seq(Writes) /\ Len(stored') > Len(stored)
    /\ \A i \in 1..Len(stored) : stored'[i] = stored[i]
    /\ \A i \in (Len(stored) + 1)..(Len(stored') - 1) : outcome[stored'[i]] = "rejected"
    /\ stored'[Len(stored')] = w
    /\ UNCHANGED outcome

Resolve(w) ==
    /\ outcome[w] = "pending"
    /\ w \in Committed
    /\ outcome' = [outcome EXCEPT ![w] = "resolved"]
    /\ UNCHANGED stored

Reject(w) ==
    /\ outcome[w] = "pending"
    /\ w \notin Committed
    /\ outcome' = [outcome EXCEPT ![w] = "rejected"]
    /\ UNCHANGED stored

\* The process ends: the callers of the pending writes never hear.
Lose ==
    /\ outcome' = [w \in Writes |-> IF outcome[w] = "pending" THEN "lost" ELSE outcome[w]]
    /\ UNCHANGED stored

Next ==
    \/ \E w \in Writes : Call(w) \/ Commit(w) \/ Resolve(w) \/ Reject(w)
    \/ Lose

Spec == Init /\ [][Next]_vars
=============================================================================

-------------------------------- MODULE Relay --------------------------------
(***************************************************************************)
(* The relay and its bridge (src/infra/cloudflare-relay/src):              *)
(*   index.js            the Durable Object: requests of the outside that  *)
(*                       wait for an answer over a bridge's connection     *)
(*   bridge-runner.mjs   the bridge: one connection at a time, reconnected *)
(*   bridge-client.mjs   a request forwarded to the local origin           *)
(*                                                                         *)
(* A connection is numbered when the bridge dials; frames travel in order  *)
(* in `toBridge` and `toRelay` until it is cut, which loses what is on the *)
(* way and which each end notices in its own time.  A body is a number of  *)
(* chunks.  The heartbeat is how the bridge notices.                       *)
(***************************************************************************)
EXTENDS Integers, Sequences, FiniteSets

CONSTANTS
    Requests,
    None,
    MaxChunks,          \* bounds of the model: chunks of a body,
    MaxSockets,         \* connections,
    MaxFaults           \* cuts, ends of the bridge process, second bridges

Sockets == 1..MaxSockets

ASSUME ConstantsAssumption ==
    /\ {MaxChunks, MaxFaults} \subseteq Nat
    /\ MaxSockets \in Nat \ {0}               \* the bridge dials when it starts
    /\ None \notin Requests

VARIABLES
    link,        \* connection, as the relay sees it
    pending,     \* the relay's map: requests it still acts for
    entry,       \* request -> the object that map and closures share
    caller,      \* request -> where its forward() is, or how it was answered
    ws,          \* the bridge's connection, 0 if none
    wsOpen,      \* whether it has seen it open
    reconnect,   \* whether the reconnection timer is set
    alive,       \* whether the bridge process runs
    active,      \* its map of requests being forwarded
    work,        \* request -> forwardBridgeRequest
    toBridge, toRelay,   \* connection -> frames on the way
    cut,         \* connections that deliver nothing any more
    faults

relayVars == <<link, pending, entry, caller>>
bridgeVars == <<ws, wsOpen, reconnect, alive, active, work>>
wire == <<toBridge, toRelay, cut>>
vars == <<relayVars, bridgeVars, wire, faults>>

\* A frame is its type and its request: what the relay asks for, and what the
\* bridge answers.
Asks == {"request", "cancel"} \X Requests
Answers == {"start", "startEmpty", "chunk", "end", "error"} \X Requests
Close == <<"close", None>>

NewEntry == [socket |-> 0, started |-> FALSE, empty |-> FALSE, controller |-> FALSE,
             got |-> 0, ended |-> FALSE, streamError |-> FALSE]

NoWork == [step |-> "none", socket |-> 0, sent |-> 0]

Init ==
    /\ link = [s \in Sockets |-> "unused"]
    /\ pending = {}
    /\ entry = [r \in Requests |-> NewEntry]
    /\ caller = [r \in Requests |-> "new"]
    /\ ws = 1 /\ wsOpen = FALSE /\ reconnect = FALSE /\ alive = TRUE
    /\ active = {}
    /\ work = [r \in Requests |-> NoWork]
    /\ toBridge = [s \in Sockets |-> <<>>]
    /\ toRelay = [s \in Sockets |-> <<>>]
    /\ cut = {}
    /\ faults = 0

Fault == faults < MaxFaults /\ faults' = faults + 1

\* A wire with one more frame; a cut one takes it and loses it.
With(wires, s, frame) == IF s \in cut THEN wires ELSE [wires EXCEPT ![s] = Append(@, frame)]

\* How a request ends: an error status, a body that is whole or broken off, a
\* caller who left.
Ends == {"413", "502", "503", "504", "complete", "broken", "cancelled"}

-----------------------------------------------------------------------------
(***************************************************************************)
(* The relay: connections.                                                 *)
(***************************************************************************)

OpenLinks == {s \in Sockets : link[s] = "open"}

\* bridgeSocket: the newest open connection.
BridgeSocket == CHOOSE s \in OpenLinks : \A t \in OpenLinks : t <= s

\* Mutant: the old connection stays open beside the new one.
KeepOld(s) == [link EXCEPT ![s] = "open"]

\* acceptBridge closes every connection before it opens the new one.
Replaced(s) ==
    [t \in Sockets |-> IF t = s THEN "open" ELSE IF link[t] = "open" THEN "closing" ELSE link[t]]

AcceptBridge(s) ==
    /\ link[s] = "unused" /\ s \notin cut
    /\ link' = Replaced(s)
    /\ toBridge' = [t \in Sockets |->
           IF link[t] = "open" /\ t \notin cut THEN Append(toBridge[t], Close) ELSE toBridge[t]]
    /\ UNCHANGED <<pending, entry, caller, toRelay, cut>>

Accept ==
    /\ ws # 0 /\ AcceptBridge(ws)
    /\ UNCHANGED <<bridgeVars, faults>>

\* A second bridge with the same key connects.
OtherBridge(s) ==
    /\ Fault
    /\ s > ws /\ \A t \in Sockets : link[t] # "unused" => t < s
    /\ AcceptBridge(s)
    /\ UNCHANGED bridgeVars

Waits(r) == entry[r].started = FALSE

\* Mutant: an answer that has begun is left hanging.
FailsFor(s) == {r \in pending : entry[r].socket = s /\ ~entry[r].started}

PendingOn(s) == {r \in pending : entry[r].socket = s}

\* Mutant: the stream is closed as if it were whole.
ClosedOff == "complete"

BrokenOff == "broken"

\* failSocketPending: nobody will answer what waits on this connection.
FailSocketPending(s) ==
    /\ pending' = pending \ PendingOn(s)
    /\ entry' = [r \in Requests |->
           IF r \in PendingOn(s) /\ ~Waits(r) /\ ~entry[r].controller
           THEN [entry[r] EXCEPT !.streamError = TRUE] ELSE entry[r]]
    /\ caller' = [r \in Requests |->
           IF r \notin PendingOn(s) THEN caller[r]
           ELSE IF Waits(r) THEN "503" ELSE IF entry[r].controller THEN BrokenOff ELSE caller[r]]

\* webSocketClose, webSocketError: the relay learns that the connection is over.
WebSocketGone(s) ==
    /\ link[s] \in {"open", "closing"}
    /\ s \in cut
    /\ link' = [link EXCEPT ![s] = "closed"]
    /\ FailSocketPending(s)
    /\ UNCHANGED <<bridgeVars, wire, faults>>

-----------------------------------------------------------------------------
(***************************************************************************)
(* The relay: a request.                                                   *)
(***************************************************************************)

Answered(r, how) == caller' = [caller EXCEPT ![r] = how]

\* forward picks the connection, then waits for the body of the request.
Forward(r) ==
    /\ caller[r] = "new"
    /\ IF OpenLinks = {}
       THEN Answered(r, "503") /\ UNCHANGED entry
       ELSE Answered(r, "reading") /\ entry' = [entry EXCEPT ![r].socket = BridgeSocket]
    /\ UNCHANGED <<link, pending, bridgeVars, wire, faults>>

\* Mutant: the entry stays behind.
Keep(r) == pending

Forget(r) == pending \ {r}

\* The frame is sent, unless the body is too large or the connection has
\* been closed meanwhile.
Send(r) ==
    /\ caller[r] = "reading"
    /\ LET s == entry[r].socket IN
       \/ /\ Answered(r, "413")
          /\ UNCHANGED <<pending, toBridge>>
       \/ /\ link[s] = "open"
          /\ Answered(r, "waiting")
          /\ pending' = pending \cup {r}
          /\ toBridge' = With(toBridge, s, <<"request", r>>)
       \/ /\ link[s] # "open"
          /\ Answered(r, "503")
          /\ pending' = Forget(r)
          /\ UNCHANGED toBridge
    /\ UNCHANGED <<link, entry, bridgeVars, toRelay, cut, faults>>

\* Mutant: the origin is not told.
SendNothing(r) == UNCHANGED toBridge

\* Tell the bridge that nobody waits for r any more.
SendCancel(r) ==
    toBridge' = IF link[entry[r].socket] = "open"
                THEN With(toBridge, entry[r].socket, <<"cancel", r>>) ELSE toBridge

Timeout(r) ==
    /\ caller[r] = "waiting" /\ r \in pending /\ Waits(r)
    /\ pending' = Forget(r)
    /\ Answered(r, "504")
    /\ SendCancel(r)
    /\ UNCHANGED <<link, entry, bridgeVars, toRelay, cut, faults>>

\* forward goes on after the head of the answer: the stream takes over what
\* was buffered, failed or ended since.
Continue(r) ==
    /\ caller[r] = "waiting" /\ entry[r].started
    /\ entry' = [entry EXCEPT ![r].controller = ~entry[r].empty]
    /\ LET over == entry[r].empty \/ entry[r].streamError \/ entry[r].ended IN
           pending' = IF over THEN Forget(r) ELSE pending
    /\ Answered(r, CASE entry[r].empty -> "complete"
                     [] ~entry[r].empty /\ entry[r].streamError -> "broken"
                     [] ~entry[r].empty /\ ~entry[r].streamError /\ entry[r].ended -> "complete"
                     [] OTHER -> "streaming")
    /\ UNCHANGED <<link, bridgeVars, wire, faults>>

\* The caller goes away: the stream is cancelled.
Cancel(r) ==
    /\ caller[r] = "streaming"
    /\ Answered(r, "cancelled")
    /\ pending' = Forget(r)
    /\ SendCancel(r)
    /\ UNCHANGED <<link, entry, bridgeVars, toRelay, cut, faults>>

Expected(r, s) == r \in pending /\ entry[r].socket = s

\* webSocketMessage: a frame of the answer to r, on connection s.
Frame(type, r, s) ==
    CASE ~Expected(r, s) -> UNCHANGED <<pending, entry, caller>>
      [] Expected(r, s) /\ type \in {"start", "startEmpty"} ->
            /\ entry' = IF entry[r].started THEN entry
                        ELSE [entry EXCEPT ![r].started = TRUE, ![r].empty = type = "startEmpty"]
            /\ UNCHANGED <<pending, caller>>
      [] Expected(r, s) /\ type = "chunk" ->
            /\ entry' = IF entry[r].started THEN [entry EXCEPT ![r].got = @ + 1] ELSE entry
            /\ UNCHANGED <<pending, caller>>
      [] Expected(r, s) /\ type = "end" ->
            /\ entry' = [entry EXCEPT ![r].ended = entry[r].started]
            /\ pending' = IF entry[r].controller THEN Forget(r) ELSE pending
            /\ caller' = IF entry[r].controller THEN [caller EXCEPT ![r] = "complete"] ELSE caller
      [] Expected(r, s) /\ type = "error" ->
            /\ entry' = [entry EXCEPT ![r].streamError = entry[r].started]
            /\ pending' = IF Waits(r) \/ entry[r].controller THEN Forget(r) ELSE pending
            /\ caller' = IF Waits(r) THEN [caller EXCEPT ![r] = "502"]
                         ELSE IF entry[r].controller THEN [caller EXCEPT ![r] = "broken"]
                         ELSE caller

DeliverToRelay(s) ==
    /\ toRelay[s] # <<>> /\ link[s] \in {"open", "closing"}
    /\ toRelay' = [toRelay EXCEPT ![s] = Tail(@)]
    /\ LET frame == Head(toRelay[s]) IN
           IF frame = Close
           THEN link' = [link EXCEPT ![s] = "closed"] /\ FailSocketPending(s)
           ELSE Frame(frame[1], frame[2], s) /\ UNCHANGED link
    /\ UNCHANGED <<bridgeVars, toBridge, cut, faults>>

-----------------------------------------------------------------------------
(***************************************************************************)
(* The bridge: its connection.                                             *)
(***************************************************************************)

WsOpens ==
    /\ ws # 0 /\ ~wsOpen
    /\ link[ws] # "unused" /\ ws \notin cut
    /\ wsOpen' = TRUE
    /\ UNCHANGED <<relayVars, ws, reconnect, alive, active, work, wire, faults>>

\* The work under the given requests is aborted; it ends when the fetch does.
Aborted(requests) ==
    [r \in Requests |-> IF r \in requests /\ work[r].step \in {"fetch", "body"}
                        THEN [work[r] EXCEPT !.step = "aborted"] ELSE work[r]]

AbortAll == Aborted(active)

\* Mutant: a dial that failed is not repeated.
OnceOpen == wsOpen

\* scheduleReconnect sets the timer, or finds it set.
Rescheduled == TRUE

\* The close event of the connection in use: start over.
WsClose ==
    /\ ws' = 0 /\ wsOpen' = FALSE
    /\ active' = {}
    /\ work' = AbortAll
    /\ reconnect' = Rescheduled
    /\ toBridge' = [toBridge EXCEPT ![ws] = <<>>]
    /\ UNCHANGED alive

\* The dial fails, the heartbeat is not answered, or the socket reports an
\* error: the bridge ends the connection.
Terminate ==
    /\ ws \in cut
    /\ WsClose
    /\ UNCHANGED <<relayVars, toRelay, cut, faults>>

\* The reconnection timer fires: dial again.
Connect ==
    /\ alive /\ reconnect /\ ws = 0
    /\ reconnect' = FALSE
    /\ \E s \in Sockets :
         /\ link[s] = "unused" /\ s \notin cut
         /\ \A t \in 1..(s - 1) : link[t] # "unused" \/ t \in cut
         /\ ws' = s
    /\ UNCHANGED <<relayVars, wsOpen, alive, active, work, wire, faults>>

-----------------------------------------------------------------------------
(***************************************************************************)
(* The bridge: a request.                                                  *)
(***************************************************************************)

\* A frame from the relay: a request to forward, one to give up, or the end.
DeliverToBridge ==
    /\ ws # 0 /\ wsOpen /\ toBridge[ws] # <<>>
    /\ LET frame == Head(toBridge[ws])
           r == frame[2]
       IN  IF frame = Close
           THEN /\ WsClose
                /\ toRelay' = With(toRelay, ws, Close)
           ELSE /\ IF frame[1] = "request"
                   THEN /\ active' = active \cup {r}
                        /\ work' = IF r \in active THEN work
                                   ELSE [work EXCEPT ![r] = [step |-> "fetch", socket |-> ws, sent |-> 0]]
                   ELSE /\ active' = active \ {r}
                        /\ work' = Aborted({r} \cap active)
                /\ toBridge' = [toBridge EXCEPT ![ws] = Tail(@)]
                /\ UNCHANGED <<ws, wsOpen, reconnect, alive, toRelay>>
    /\ UNCHANGED <<relayVars, cut, faults>>

\* sendFrame: only on a connection that is open.
SendFrames(r, types) ==
    LET s == work[r].socket
        frames == [i \in DOMAIN types |-> <<types[i], r>>]
    IN  toRelay' = IF s = ws /\ wsOpen /\ s \notin cut
                   THEN [toRelay EXCEPT ![s] = @ \o frames] ELSE toRelay

Work(r, step) ==
    /\ work' = [work EXCEPT ![r].step = step]
    /\ active' = IF step = "done" THEN active \ {r} ELSE active
    /\ UNCHANGED <<relayVars, ws, wsOpen, reconnect, alive, toBridge, cut, faults>>

\* The origin answers with a head and a body to come, or with no body.
OriginAnswers(r) ==
    /\ work[r].step = "fetch"
    /\ \/ Work(r, "body") /\ SendFrames(r, <<"start">>)
       \/ Work(r, "done") /\ SendFrames(r, <<"startEmpty", "end">>)

OriginSends(r) ==
    /\ work[r].step = "body" /\ work[r].sent < MaxChunks
    /\ work' = [work EXCEPT ![r].sent = @ + 1]
    /\ SendFrames(r, <<"chunk">>)
    /\ UNCHANGED <<relayVars, ws, wsOpen, reconnect, alive, active, toBridge, cut, faults>>

OriginEnds(r) ==
    /\ work[r].step = "body"
    /\ Work(r, "done") /\ SendFrames(r, <<"end">>)

\* The origin fails, or the fetch was aborted.
OriginFails(r) ==
    /\ work[r].step \in {"fetch", "body"}
    /\ Work(r, "done") /\ SendFrames(r, <<"error">>)

AbortedFetch(r) ==
    /\ work[r].step = "aborted"
    /\ Work(r, "done") /\ SendFrames(r, <<"error">>)

-----------------------------------------------------------------------------
(***************************************************************************)
(* What can go wrong outside.                                              *)
(***************************************************************************)

\* The connection breaks, before or after it was accepted.
CutSocket(s) ==
    /\ Fault
    /\ s \notin cut
    /\ link[s] \in {"open", "closing"} \/ s = ws
    /\ cut' = cut \cup {s}
    /\ toBridge' = [toBridge EXCEPT ![s] = <<>>]
    /\ toRelay' = [toRelay EXCEPT ![s] = <<>>]
    /\ UNCHANGED <<relayVars, bridgeVars>>

\* The bridge process is stopped or dies, and its connection with it.
Exit ==
    /\ Fault
    /\ alive
    /\ alive' = FALSE /\ ws' = 0 /\ wsOpen' = FALSE /\ reconnect' = FALSE
    /\ active' = {}
    /\ work' = [r \in Requests |-> [work[r] EXCEPT !.step = IF @ = "none" THEN @ ELSE "done"]]
    /\ cut' = IF ws = 0 THEN cut ELSE cut \cup {ws}
    /\ toBridge' = IF ws = 0 THEN toBridge ELSE [toBridge EXCEPT ![ws] = <<>>]
    /\ toRelay' = IF ws = 0 THEN toRelay ELSE [toRelay EXCEPT ![ws] = <<>>]
    /\ UNCHANGED relayVars

\* It is started again, and dials.
Start ==
    /\ ~alive
    /\ alive' = TRUE /\ reconnect' = TRUE    \* it dials at once
    /\ UNCHANGED <<relayVars, ws, wsOpen, active, work, wire, faults>>

-----------------------------------------------------------------------------
RelaySteps(r) == Send(r) \/ Continue(r) \/ Timeout(r)

Connecting == Accept \/ WsOpens \/ Terminate \/ Connect

Next ==
    \/ Connecting \/ DeliverToBridge \/ Exit \/ Start
    \/ \E s \in Sockets : OtherBridge(s) \/ WebSocketGone(s) \/ DeliverToRelay(s) \/ CutSocket(s)
    \/ \E r \in Requests :
         \/ Forward(r) \/ RelaySteps(r) \/ Cancel(r)
         \/ OriginAnswers(r) \/ OriginSends(r) \/ OriginEnds(r) \/ OriginFails(r) \/ AbortedFetch(r)

\* Timers fire, what is sent on a connection that holds arrives, a dial ends,
\* both ends notice a broken connection, an aborted fetch rejects.  The origin
\* may take for ever.
Fairness ==
    /\ WF_vars(Connecting) /\ WF_vars(DeliverToBridge)
    /\ \A s \in Sockets : WF_vars(WebSocketGone(s)) /\ WF_vars(DeliverToRelay(s))
    /\ \A r \in Requests : WF_vars(RelaySteps(r)) /\ WF_vars(AbortedFetch(r))

Spec == Init /\ [][Next]_vars /\ Fairness

-----------------------------------------------------------------------------
TypeOK ==
    /\ link \in [Sockets -> {"unused", "open", "closing", "closed"}]
    /\ {pending, active} \subseteq SUBSET Requests
    /\ entry \in [Requests -> [socket : Sockets \cup {0}, started : BOOLEAN, empty : BOOLEAN,
                               controller : BOOLEAN, got : 0..MaxChunks, ended : BOOLEAN,
                               streamError : BOOLEAN]]
    /\ caller \in [Requests -> {"new", "reading", "waiting", "streaming"} \cup Ends]
    /\ ws \in Sockets \cup {0}
    /\ {wsOpen, reconnect, alive} \subseteq BOOLEAN
    /\ work \in [Requests -> [step : {"none", "fetch", "body", "aborted", "done"},
                              socket : Sockets \cup {0}, sent : 0..MaxChunks]]
    /\ toBridge \in [Sockets -> Seq(Asks \cup {Close})]
    /\ toRelay \in [Sockets -> Seq(Answers \cup {Close})]
    /\ cut \subseteq Sockets
    /\ faults \in 0..MaxFaults

\* Whoever waits for an answer or reads one can still be reached by the next
\* frame, the timeout or the end of the connection, and nobody else is held at
\* the relay; the bridge holds exactly the fetches that run, which it can
\* abort, and they belong to the connection in use.
HeldAtBothEnds ==
    \A r \in Requests :
        /\ caller[r] = "streaming" => r \in pending
        /\ caller[r] = "waiting" => r \in pending \/ entry[r].started
        /\ r \in pending => caller[r] \in {"waiting", "streaming"}
        /\ r \in active <=> work[r].step \in {"fetch", "body"}
        /\ r \in active => work[r].socket = ws

\* A caller who sees the body end has all of it, from one answer of the origin.
CompleteIsWhole ==
    \A r \in Requests : caller[r] = "complete" => work[r].step = "done" /\ entry[r].got = work[r].sent

-----------------------------------------------------------------------------
(***************************************************************************)
(* Why both hold: what is on the wires about a request is a part of one    *)
(* conversation, in its order.                                             *)
(***************************************************************************)

Times(frame, frames) == Cardinality({i \in DOMAIN frames : frames[i] = frame})

On(frame, frames) == \E i \in DOMAIN frames : frames[i] = frame

OnceOn(frame, frames) ==
    \A i, j \in DOMAIN frames : frames[i] = frame /\ frames[j] = frame => i = j

About(r, frames) == \E i \in DOMAIN frames : frames[i][2] = r

\* No chunk before the head.
HeadFirst(r, frames) ==
    \A i \in DOMAIN frames : frames[i] = <<"chunk", r>> => \E j \in 1..(i - 1) : frames[j] = <<"start", r>>

\* Nothing after the end.
EndLast(r, frames) ==
    \A i, j \in DOMAIN frames : frames[i] \in {<<"end", r>>, <<"error", r>>} /\ frames[j][2] = r => j <= i

\* One connection is open at the relay, the bridge sees its own open only when
\* the relay accepted it, and a broken one carries nothing.
OneConnection ==
    /\ \A s, t \in Sockets : link[s] = "open" /\ link[t] = "open" => s = t
    /\ wsOpen => ws # 0 /\ link[ws] # "unused"
    /\ \A s \in cut : toBridge[s] = <<>> /\ toRelay[s] = <<>>

\* A request is sent to the bridge once, and worked at on the connection it
\* was sent on.
SentOnce(r) ==
    /\ caller[r] \in {"new", "reading"} => work[r].step = "none"
    /\ caller[r] = "reading" => entry[r].socket # 0
    /\ work[r].step \in {"none", "fetch"} => work[r].sent = 0
    /\ work[r].step = "none" => ~entry[r].started
    /\ work[r].step # "none" => work[r].socket = entry[r].socket
    /\ \A s \in Sockets :
         /\ OnceOn(<<"request", r>>, toBridge[s])
         /\ On(<<"request", r>>, toBridge[s]) =>
              s = entry[r].socket /\ caller[r] \notin {"new", "reading"} /\ work[r].step = "none"

\* HeldAtBothEnds, and how the two ends know.
Held(r) ==
    /\ caller[r] = "streaming" => r \in pending /\ entry[r].controller /\ entry[r].started
    /\ caller[r] = "waiting" => r \in pending \/ (entry[r].started /\ entry[r].streamError)
    /\ r \in pending => caller[r] \in {"waiting", "streaming"} /\ entry[r].socket # 0
    /\ entry[r].controller => caller[r] \notin {"new", "reading", "waiting"}
    /\ r \in active <=> work[r].step \in {"fetch", "body"}
    /\ r \in active => work[r].socket = ws /\ wsOpen

\* The frames of an answer are on the connection of its work, in order.
Ordered(r, s) ==
    /\ About(r, toRelay[s]) => s = work[r].socket /\ work[r].step # "none"
    /\ \A type \in {"startEmpty", "end", "error"} : On(<<type, r>>, toRelay[s]) => work[r].step = "done"
    /\ On(<<"startEmpty", r>>, toRelay[s]) => work[r].sent = 0
    /\ EndLast(r, toRelay[s])

\* While the relay has not seen the head of an answer it acts for, the head is
\* on its way, before the body.
Begun(r, s) ==
    r \in pending /\ ~entry[r].started =>
        /\ HeadFirst(r, toRelay[s])
        /\ work[r].step = "body" /\ work[r].socket = s /\ s \notin cut => On(<<"start", r>>, toRelay[s])

\* No chunk is read twice, and none is missing while the connection holds and
\* the relay still acts for the request.
Counted(r, s) ==
    /\ entry[r].got + Times(<<"chunk", r>>, toRelay[s]) <= work[r].sent
    /\ r \in pending /\ entry[r].socket = s /\ s \notin cut =>
         entry[r].got + Times(<<"chunk", r>>, toRelay[s]) = work[r].sent

\* An answer that has ended for the relay has ended at the bridge.
Over(r) ==
    /\ entry[r].empty => work[r].step = "done" /\ work[r].sent = 0
    /\ entry[r].ended =>
         /\ work[r].step = "done" /\ entry[r].got = work[r].sent
         /\ \A s \in Sockets : ~About(r, toRelay[s])
    /\ caller[r] = "complete" => work[r].step = "done" /\ entry[r].got = work[r].sent

Conversation(r) ==
    /\ SentOnce(r) /\ Held(r) /\ Over(r)
    /\ \A s \in Sockets : Ordered(r, s) /\ Begun(r, s) /\ Counted(r, s)

IInv == TypeOK /\ OneConnection /\ \A r \in Requests : Conversation(r)

-----------------------------------------------------------------------------
\* Every request gets a status, and a stream whose connection is lost breaks.
EveryRequestAnswered ==
    \A r \in Requests :
        /\ caller[r] \in {"reading", "waiting"} ~> caller[r] \notin {"reading", "waiting"}
        /\ (caller[r] = "streaming" /\ entry[r].socket \in cut) ~> caller[r] # "streaming"

\* What nobody waits for any more does not go on at the origin.
GivenUpIsAborted ==
    \A r \in Requests : caller[r] \in Ends ~> work[r].step \notin {"fetch", "body", "aborted"}

\* A bridge that keeps running is connected again and again, whatever breaks.
BridgeReturns == <>[]alive => []<>(ws # 0 /\ wsOpen /\ link[ws] = "open")
=============================================================================

---------------------------- MODULE HttpSessions ----------------------------
(***************************************************************************)
(* MCP over streamable HTTP: the sessions of src/src/index.ts, their idle  *)
(* timers, and the way of a tool call from the route to the account it     *)
(* runs as.  One server, in team mode or for the local user's accounts.    *)
(*                                                                         *)
(* The code between two awaits is one action.  A session is named after    *)
(* the request that initialized it; time passes in ticks, IdleTime of      *)
(* which are SESSION_IDLE_TIMEOUT_MS.  The clients, the MCP SDK's          *)
(* transport and the accounts on file are external.                        *)
(***************************************************************************)
EXTENDS AccountResolver, Integers

CONSTANTS
    Users,              \* members of the team
    Calls,              \* mode -> the calls a client may make
    OnFile,             \* mode -> what may be on file: [granted, def]
    IdleTime,
    MaxRequests,        \* bounds of the model: requests in all and changes of
    MaxChanges          \* the accounts on file

Sids == 1..MaxRequests

Modes == {"team", "local"}

ConstantsAreSound ==
    /\ Absent \notin Users
    /\ \A m \in Modes : \A t \in OnFile[m] : Absent \notin DOMAIN t.granted
    /\ IdleTime \in Nat \ {0}
    /\ {MaxRequests, MaxChanges} \subseteq Nat

ASSUME SessionsAssumption == ConstantsAreSound

VARIABLES
    mode,        \* "team" or "local"
    count,       \* requests so far
    request,     \* request -> where it is
    sessions,    \* the keys of the session map
    sub,         \* session -> the member it belongs to, Absent on a local server
    left,        \* session -> ticks left on each pending idle timer
    booked,      \* the keys of sessionTimers
    selections,  \* the keys of authSystem.sessions
    closing,     \* closers that await server.close: <<"timer" or "shutdown", session>>
    auth,        \* authSystem: "none", "building" or "ready"
    table,       \* the accounts on file
    down,        \* "up", "closing", "draining" or "exited"
    changes,
    quiet        \* history: session -> ticks since a request reached it

timers == <<left, booked, quiet>>
held == <<sessions, sub, selections>>
server == <<auth, down, closing>>
accounts == <<table, changes>>
sessionVars == <<mode, count, request, held, timers, server, accounts>>

\* A message that is no call, such as the notification that follows the
\* handshake, is treated as a second "initialize" of a session is.
RequestKinds == {"initialize", "call", "listen", "delete"}

NoRequest == [kind |-> "none", by |-> Absent, sid |-> 0, call |-> Absent,
              step |-> "none", as |-> Absent]

Callers == IF mode = "team" THEN Users ELSE {Absent}

SessionsInit ==
    /\ mode \in Modes
    /\ count = 0
    /\ request = [r \in Sids |-> NoRequest]
    /\ sessions = {} /\ selections = {} /\ booked = {} /\ closing = {}
    /\ sub = [s \in Sids |-> Absent]
    /\ left = [s \in Sids |-> {}]
    /\ quiet = [s \in Sids |-> 0]
    /\ auth = "none"
    /\ table \in OnFile[mode]
    /\ down = "up"
    /\ changes = 0

----------------------------------------------------------------------------
(* Clients *)

\* A client knows the ids of its sessions and may know one of another member.
\* An unknown id is met when the session is closed under way.
Known == sessions \cup {r \in Sids : request[r].step = "answering"}

Send ==
    /\ count < MaxRequests
    /\ down \in {"up", "closing"}
    /\ count' = count + 1
    /\ \E kind \in RequestKinds, u \in Callers :
       \E s \in Known \cup (IF kind = "initialize" THEN {0} ELSE {}),
          c \in IF kind = "call" THEN Calls[mode] ELSE {Absent} :
          request' = [request EXCEPT ![count + 1] =
             [kind |-> kind, by |-> u, sid |-> s, call |-> c, step |-> "sent", as |-> Absent]]
    /\ UNCHANGED <<mode, held, timers, server, accounts>>

----------------------------------------------------------------------------
(* Sessions and their timers *)

Goto(r, step) == [request EXCEPT ![r].step = step]

Finished(r) == [request EXCEPT ![r] = NoRequest]

\* Mutant: whoever knows the id may use the session.
BelongsToAnyone(s, u) == TRUE

\* sessionBelongsToCaller
Belongs(s, u) == mode = "local" \/ (sub[s] # Absent /\ sub[s] = u)

Reaches(r) == request[r].sid \in sessions /\ Belongs(request[r].sid, request[r].by)

\* clearTimeout of the timer sessionTimers holds, which is the latest.
Cleared(s) == {t \in left[s] : \E other \in left[s] : t < other}

\* Mutant: the timer of the last request goes on.
AnotherTimer(s) ==
    /\ left' = [left EXCEPT ![s] = @ \cup {IdleTime}]
    /\ booked' = booked \cup {s}
    /\ quiet' = [quiet EXCEPT ![s] = 0]

ResetTimer(s) ==
    /\ left' = [left EXCEPT ![s] = (IF s \in booked THEN Cleared(s) ELSE left[s]) \cup {IdleTime}]
    /\ booked' = booked \cup {s}
    /\ quiet' = [quiet EXCEPT ![s] = 0]

\* Mutant: only the handle is deleted.
DropHandle(s, fired) ==
    /\ left' = [left EXCEPT ![s] = @ \ fired]
    /\ booked' = booked \ {s}
    /\ quiet' = [quiet EXCEPT ![s] = 0]

\* clearSessionTimer; fired is the timer whose callback runs, if one does.
ClearTimer(s, fired) ==
    /\ left' = [left EXCEPT ![s] = (IF s \in booked THEN Cleared(s) ELSE left[s]) \ fired]
    /\ booked' = booked \ {s}
    /\ quiet' = [quiet EXCEPT ![s] = 0]

\* The three deletes that onclose and each closer make.
Forget(s) ==
    /\ sessions' = sessions \ {s}
    /\ sub' = [sub EXCEPT ![s] = Absent]
    /\ selections' = IF auth = "ready" THEN selections \ {s} ELSE selections

\* transport.close: the streams end and onclose runs, before the first await.
OnClose(s, fired) ==
    /\ ClearTimer(s, fired)
    /\ Forget(s)

StreamsEnd(s) ==
    [q \in Sids |-> IF request[q].step = "listening" /\ request[q].sid = s
                    THEN NoRequest ELSE request[q]]

----------------------------------------------------------------------------
(* Routes *)

\* POST to a session of the caller: a call goes on, anything else is answered
\* by the transport.
PostToSession(r) ==
    /\ request[r].step = "sent" /\ request[r].kind \in {"initialize", "call"}
    /\ Reaches(r)
    /\ ResetTimer(request[r].sid)
    /\ request' = IF request[r].kind = "call"
                  THEN Goto(r, IF mode = "team" THEN "dispatch" ELSE "auth")
                  ELSE Finished(r)
    /\ UNCHANGED <<mode, count, held, server, accounts>>

\* 400, for an unknown session and for that of another member alike.
Refuse(r) ==
    /\ request[r].step = "sent" /\ request[r].kind # "initialize"
    /\ ~ Reaches(r)
    /\ request' = Finished(r)
    /\ UNCHANGED <<mode, count, held, timers, server, accounts>>

\* A new transport takes the request; it may not accept it.
Initialize(r) ==
    /\ request[r].step = "sent" /\ request[r].kind = "initialize"
    /\ ~ Reaches(r)
    /\ request' \in {Goto(r, "answering"), Finished(r)}
    /\ UNCHANGED <<mode, count, held, timers, server, accounts>>

\* The session enters the map after its first request was answered.
Registered(r) ==
    /\ request[r].step = "answering"
    /\ sessions' = sessions \cup {r}
    /\ sub' = [sub EXCEPT ![r] = request[r].by]
    /\ ResetTimer(r)
    /\ selections' = IF auth = "ready" THEN selections \cup {r} ELSE selections
    /\ request' = Finished(r)
    /\ UNCHANGED <<mode, count, server, accounts>>

\* One stream a session; the transport answers a second one with a conflict.
Listen(r) ==
    /\ request[r].step = "sent" /\ request[r].kind = "listen"
    /\ Reaches(r)
    /\ ResetTimer(request[r].sid)
    /\ request' = IF \E q \in Sids : request[q].step = "listening" /\ request[q].sid = request[r].sid
                  THEN Finished(r) ELSE Goto(r, "listening")
    /\ UNCHANGED <<mode, count, held, server, accounts>>

StopListening(r) ==
    /\ request[r].step = "listening"
    /\ request' = Finished(r)
    /\ UNCHANGED <<mode, count, held, timers, server, accounts>>

Delete(r) ==
    /\ request[r].step = "sent" /\ request[r].kind = "delete"
    /\ Reaches(r)
    /\ OnClose(request[r].sid, {})
    /\ request' = [StreamsEnd(request[r].sid) EXCEPT ![r].step = "closing"]
    /\ UNCHANGED <<mode, count, server, accounts>>

\* server.close closes the transport again.
Deleted(r) ==
    /\ request[r].step = "closing"
    /\ OnClose(request[r].sid, {})
    /\ request' = Finished(r)
    /\ UNCHANGED <<mode, count, server, accounts>>

----------------------------------------------------------------------------
(* Idle timers *)

Tick ==
    /\ \E s \in Sids : left[s] # {}
    /\ \A s \in Sids : 0 \notin left[s]
    /\ left' = [s \in Sids |-> {t - 1 : t \in left[s]}]
    /\ quiet' = [s \in Sids |-> IF s \in sessions /\ quiet[s] < IdleTime
                                THEN quiet[s] + 1 ELSE quiet[s]]
    /\ UNCHANGED <<mode, count, request, held, booked, server, accounts>>

\* The callback of resetSessionTimer.
TimerFires(s) ==
    /\ 0 \in left[s]
    /\ IF s \in sessions
       THEN /\ OnClose(s, {0})
            /\ request' = StreamsEnd(s)
            /\ closing' = closing \cup {<<"timer", s>>}
       ELSE /\ left' = [left EXCEPT ![s] = @ \ {0}]
            /\ booked' = booked \ {s}
            /\ UNCHANGED <<held, quiet, request, closing>>
    /\ UNCHANGED <<mode, count, auth, down, accounts>>

\* The callback after its awaits.
TimerEnds(s) ==
    /\ <<"timer", s>> \in closing
    /\ OnClose(s, {})
    /\ closing' = closing \ {<<"timer", s>>}
    /\ UNCHANGED <<mode, count, request, auth, down, accounts>>

----------------------------------------------------------------------------
(* Shutdown *)

Signal ==
    /\ down = "up"
    /\ down' = "closing"
    /\ UNCHANGED <<mode, count, request, held, timers, auth, closing, accounts>>

Awaited == \E s \in Sids : <<"shutdown", s>> \in closing

\* The loop walks the live map: a session that registers meanwhile is closed too.
ShutdownCloses(s) ==
    /\ down = "closing" /\ ~ Awaited
    /\ s \in sessions
    /\ OnClose(s, {})
    /\ request' = StreamsEnd(s)
    /\ closing' = closing \cup {<<"shutdown", s>>}
    /\ UNCHANGED <<mode, count, auth, down, accounts>>

ShutdownGoesOn(s) ==
    /\ <<"shutdown", s>> \in closing
    /\ OnClose(s, {})
    /\ closing' = closing \ {<<"shutdown", s>>}
    /\ UNCHANGED <<mode, count, request, auth, down, accounts>>

\* httpServer.close, then the flush of the team store.
Drain ==
    /\ down = "closing" /\ ~ Awaited
    /\ sessions = {}
    /\ down' = "draining"
    /\ UNCHANGED <<mode, count, request, held, timers, auth, closing, accounts>>

\* process.exit does not wait for calls in flight.
Exit ==
    /\ down = "draining"
    /\ down' = "exited"
    /\ request' = [r \in Sids |-> NoRequest]
    /\ sessions' = {} /\ selections' = {} /\ booked' = {} /\ closing' = {}
    /\ sub' = [s \in Sids |-> Absent]
    /\ left' = [s \in Sids |-> {}]
    /\ quiet' = [s \in Sids |-> 0]
    /\ auth' = "none"
    /\ UNCHANGED <<mode, count, accounts>>

----------------------------------------------------------------------------
(* Tool calls and resources *)

\* ensureAuthSystem: one build at a time, shared by all who come meanwhile.
EnsureAuth(r) ==
    /\ request[r].step = "auth"
    /\ request' = Goto(r, IF auth = "ready" THEN "dispatch" ELSE "waiting")
    /\ auth' = IF auth = "none" THEN "building" ELSE auth
    /\ UNCHANGED <<mode, count, held, timers, down, closing, accounts>>

\* Mutant: only the call that came first hears of the end of the build.
WokenFirst ==
    {r \in Sids : request[r].step = "waiting" /\ \A q \in 1..(r - 1) : request[q].step # "waiting"}

\* The calls that hold the promise.
Woken == {r \in Sids : request[r].step = "waiting"}

\* buildAuthSystem returns, with an account on file, or throws; then the next
\* call builds again.
BuildEnds(ok) ==
    /\ auth = "building"
    /\ ok => DOMAIN table.granted # {}
    /\ auth' = IF ok THEN "ready" ELSE "none"
    /\ request' = [r \in Sids |->
          IF r \notin Woken THEN request[r]
          ELSE IF ok THEN [request[r] EXCEPT !.step = "dispatch"] ELSE NoRequest]
    /\ UNCHANGED <<mode, count, held, timers, down, closing, accounts>>

Targets(r) ==
    IF mode = "team" THEN TeamTargets(request[r].call, request[r].by, table.granted)
    ELSE LocalTargets(request[r].call, table.granted, table.def)

Dispatch(r) ==
    /\ request[r].step = "dispatch"
    /\ IF Targets(r) = {} THEN request' = Finished(r)
       ELSE \E a \in Targets(r) :
               request' = [request EXCEPT ![r].step = "running", ![r].as = a]
    /\ UNCHANGED <<mode, count, held, timers, server, accounts>>

\* The tool returns or throws.  The answer goes to the transport, where it is
\* lost when the session has been closed.
Answer(r) ==
    /\ request[r].step = "running"
    /\ request' = Finished(r)
    /\ UNCHANGED <<mode, count, held, timers, server, accounts>>

\* Sign-ins, removals and new defaults: see Accounts and TeamTokens.
AccountsChange ==
    /\ changes < MaxChanges /\ down # "exited"
    /\ changes' = changes + 1
    /\ table' \in OnFile[mode]
    /\ UNCHANGED <<mode, count, request, held, timers, server>>

----------------------------------------------------------------------------

Handle(r) ==
    \/ PostToSession(r) \/ Refuse(r) \/ Initialize(r) \/ Registered(r)
    \/ Listen(r) \/ Delete(r) \/ Deleted(r)
    \/ EnsureAuth(r) \/ Dispatch(r) \/ Answer(r)

Timer(s) == TimerFires(s) \/ TimerEnds(s)

Shutdown == (\E s \in Sids : ShutdownCloses(s) \/ ShutdownGoesOn(s)) \/ Drain \/ Exit

SessionsNext ==
    \/ Send \/ Tick \/ Signal \/ Shutdown \/ AccountsChange
    \/ \E r \in Sids : Handle(r) \/ StopListening(r) \/ Timer(r)
    \/ \E ok \in BOOLEAN : BuildEnds(ok)

\* Handlers and callbacks run to their end, time passes, and a build succeeds
\* in the end once there is an account.
SessionsFairness ==
    /\ WF_sessionVars(Tick)
    /\ WF_sessionVars(\E r \in Sids : Handle(r) \/ Timer(r))
    /\ WF_sessionVars(Shutdown)
    /\ WF_sessionVars(BuildEnds(TRUE))

SessionsSpec == SessionsInit /\ [][SessionsNext]_sessionVars

FairSpec == SessionsSpec /\ SessionsFairness

----------------------------------------------------------------------------
(* Properties *)

Steps == {"none", "sent", "answering", "listening", "closing", "auth", "waiting",
          "dispatch", "running"}

AllCalls == UNION {Calls[m] : m \in Modes}

Names == Users \cup {Absent} \cup UNION {DOMAIN t.granted : t \in UNION {OnFile[m] : m \in Modes}}

SessionRequests == [kind : RequestKinds \cup {"none"}, by : Users \cup {Absent}, sid : Sids \cup {0},
             call : AllCalls \cup {Absent}, step : Steps, as : Names]

SessionTypes ==
    /\ mode \in Modes
    /\ count \in 0..MaxRequests
    /\ request \in [Sids -> SessionRequests]
    /\ sessions \subseteq Sids /\ booked \subseteq Sids /\ selections \subseteq Sids
    /\ sub \in [Sids -> Users \cup {Absent}]
    /\ left \in [Sids -> SUBSET (0..IdleTime)]
    /\ quiet \in [Sids -> 0..IdleTime]
    /\ closing \subseteq {"timer", "shutdown"} \X Sids
    /\ auth \in {"none", "building", "ready"}
    /\ table \in OnFile[mode]
    /\ down \in {"up", "closing", "draining", "exited"}
    /\ changes \in 0..MaxChanges

\* A session that is in the map has exactly one idle timer, and a session that
\* left it, whichever of a DELETE, the timer and the shutdown closed it and
\* whatever they still do afterwards, leaves no timer, no timer handle and no
\* account selection behind.
NothingOutlivesItsSession ==
    /\ booked = sessions
    /\ selections \subseteq sessions
    /\ \A s \in Sids : \A t \in left[s] : s \in sessions /\ left[s] = {t}

\* A session is closed because its own user deletes it, because the server
\* shuts down, or because no request reached it for the whole idle time.  A
\* timer that an earlier request started closes nothing.
ClosedForCause ==
    [][\A s \in sessions \ sessions' :
          \/ down # "up"
          \/ quiet[s] = IdleTime
          \/ \E r \in Sids :
                /\ request[r].kind = "delete" /\ request[r].sid = s
                /\ request[r].step = "sent" /\ request'[r].step = "closing"
                /\ mode = "team" => request[r].by = sub[s]]_sessionVars

\* Team mode: a request that carries the id of another member's session starts
\* no call in it, opens and ends no stream of it, does not close it and does
\* not keep it alive.
OnlyTheOpenerReaches ==
    [][mode = "team" => \A r \in Sids :
          LET s == request[r].sid
          IN  request[r].step = "sent" /\ request'[r] # request[r] /\ down' # "exited"
              /\ s \in sessions /\ request[r].by # sub[s]
              => /\ s \in sessions' /\ left'[s] = left[s] /\ quiet'[s] = quiet[s]
                 /\ request'[r].step \in {"none", "answering"}
                 /\ \A q \in Sids \ {r} : request'[q] = request[q]]_sessionVars

\* A call runs as the account it is meant for, whatever was on file while it
\* waited: on a local server the account it names, the default, or the only
\* eligible one, and never another account in place of a default that lacks the
\* scope; in team mode its caller, within the scopes of the member's consent
\* and of the token.
CallsHitTheirAccount ==
    [][\A r \in Sids :
          request[r].step # "running" /\ request'[r].step = "running"
          => IF mode = "team"
             THEN RightForMember(request'[r].as, request[r].call, request[r].by, table.granted)
             ELSE RightLocally(request'[r].as, request[r].call, table.granted, table.def)]_sessionVars

\* Sessions whose transport is closed and whose closer still runs.
Gone == {s \in Sids : \/ <<"timer", s>> \in closing
                      \/ <<"shutdown", s>> \in closing
                      \/ \E r \in Sids : request[r].step = "closing" /\ request[r].sid = s}

\* An id names one session only: what a closer still does to it meets no other.
IdsAreUsedOnce ==
    /\ \A r \in Sids : r > count => request[r].step = "none"
    /\ \A r \in Sids : request[r].step = "closing" => request[r].sid \in Sids
    /\ \A s \in sessions \cup Gone : s <= count /\ request[s].step = "none"
    /\ Gone \cap sessions = {}

\* A timer runs since the last request that reached its session.
TimersCountQuiet == \A s \in Sids : \A t \in left[s] : quiet[s] + t = IdleTime

SessionParts ==
    /\ SessionTypes
    /\ NothingOutlivesItsSession
    /\ IdsAreUsedOnce
    /\ TimersCountQuiet
    /\ auth # "ready" => selections = {}

\* A call that waits for the user's first consent.
NeedsConsent(r) == request[r].step = "waiting" /\ DOMAIN table.granted = {}

AtRest ==
    /\ sessions = {}
    /\ \A r \in Sids : request[r].step = "none" \/ NeedsConsent(r)

\* When the clients stay away (the requests of the model are bounded), every
\* session is closed in the end and every request is answered or cut off with
\* its session, except one that waits for a consent: a build that fails leaves
\* nobody waiting, and no session is without a timer.
ComesToRest == []<>AtRest
=============================================================================

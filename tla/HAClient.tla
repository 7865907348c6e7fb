------------------------------ MODULE HAClient ------------------------------
(***************************************************************************)
(* ha_client.HAClient: one websocket to Home Assistant, kept alive by      *)
(* run_forever, with the setup that main._on_connected performs on it.     *)
(*                                                                         *)
(* Four kinds of tasks share the client: run_forever itself (which awaits  *)
(* on_connected and then the receive task), the receive loop, the ping     *)
(* loop, and the callers.  A request registers a future in _pending and    *)
(* awaits it; the receive loop resolves it, or _teardown fails it.         *)
(*                                                                         *)
(* Message ids are never reused, so a request is named by its owner.       *)
(* Delays (backoff, ping interval, timeouts) are abstracted to "some time  *)
(* later"; which answers were on the wire when the link broke is open.     *)
(***************************************************************************)
EXTENDS FiniteSets

CONSTANTS
    Callers,     \* tasks that use the client: control cycle, setback, web history
    Fetches      \* the requests _on_connected gathers

Own == {"subscribe", "forecast", "prefs", "ping"}
Owners == Callers \cup Fetches \cup Own

ASSUME OwnersAssumption ==
    /\ Callers \cap Fetches = {} /\ Callers \cap Own = {} /\ Fetches \cap Own = {}
    /\ Fetches # {}

VARIABLES
    phase,       \* where run_forever is
    link,        \* _ws: "none", or an "open" or "closed" websocket
    connected,   \* the _connected event
    recv,        \* the receive task
    ping,        \* the ping task
    pending,     \* owners of the entries of _pending
    waiting,     \* owners that await their future
    inflight,    \* requests on the wire, and answers on the way back
    subscribed   \* HA confirmed the state_changed subscription of this session

vars == <<phase, link, connected, recv, ping, pending, waiting, inflight, subscribed>>

Phases == {"sleep", "dial", "auth", "setup", "fetch", "subscribe", "forecast",
           "prefs", "session", "closing"}

Init ==
    /\ phase = "dial"
    /\ link = "none"
    /\ connected = FALSE
    /\ recv = "none"
    /\ ping = "none"
    /\ pending = {} /\ waiting = {} /\ inflight = {}
    /\ subscribed = FALSE

-----------------------------------------------------------------------------
\* _command: the future is registered first; send raises on a closed socket,
\* and then the entry stays in _pending with nobody waiting for it
Send(owners) ==
    /\ pending' = pending \cup owners
    /\ IF link = "open"
       THEN waiting' = waiting \cup owners /\ inflight' = inflight \cup owners
       ELSE UNCHANGED <<waiting, inflight>>

\* faulty: the entries are forgotten, their futures stay unresolved
ForgetPending == pending' = {} /\ UNCHANGED waiting

\* _teardown fails every registered future, then forgets them
FailPending ==
    /\ waiting' = waiting \ pending
    /\ pending' = {}

\* _teardown up to "await self._ws.close()"
Teardown ==
    /\ phase' = "closing"
    /\ connected' = FALSE
    /\ recv' = "none" /\ ping' = "none"
    /\ FailPending
    /\ subscribed' = FALSE
    /\ link' = IF link = "none" THEN "none" ELSE "closed"
    /\ inflight' = {}

\* the rest of _teardown; run_forever sleeps for the backoff
Closed ==
    /\ phase = "closing"
    /\ phase' = "sleep"
    /\ link' = "none"
    /\ UNCHANGED <<connected, recv, ping, pending, waiting, inflight, subscribed>>

Wake ==
    /\ phase = "sleep"
    /\ phase' = "dial"
    /\ UNCHANGED <<link, connected, recv, ping, pending, waiting, inflight, subscribed>>

\* websockets.connect
Dial ==
    /\ phase = "dial"
    /\ phase' = "auth"
    /\ link' = "open"
    /\ UNCHANGED <<connected, recv, ping, pending, waiting, inflight, subscribed>>

DialFails == phase = "dial" /\ Teardown

\* greeting, token, auth_ok; then the session is announced and its tasks start
AuthOk ==
    /\ phase = "auth" /\ link = "open"
    /\ phase' = "setup"
    /\ connected' = TRUE
    /\ recv' = "running" /\ ping' = "sleep"
    /\ UNCHANGED <<link, pending, waiting, inflight, subscribed>>

\* wrong greeting, refused token, or the socket closed under recv()
AuthFails == phase = "auth" /\ Teardown

-----------------------------------------------------------------------------
\* main._on_connected: gather of the initial requests.  A send that raises
\* ends on_connected ("Initial fetch failed"), and the session goes on.
StartFetch ==
    /\ phase = "setup"
    /\ Send(Fetches)
    /\ phase' = IF link = "open" THEN "fetch" ELSE "session"
    /\ UNCHANGED <<link, connected, recv, ping, subscribed>>

FetchOver ==
    /\ phase = "fetch" /\ Fetches \cap waiting = {}
    /\ Send({"subscribe"})
    /\ phase' = "subscribe"
    /\ UNCHANGED <<link, connected, recv, ping, subscribed>>

SubscribeOver ==
    /\ phase = "subscribe" /\ "subscribe" \notin waiting /\ subscribed
    /\ Send({"forecast"})
    /\ phase' = "forecast"
    /\ UNCHANGED <<link, connected, recv, ping, subscribed>>

\* send or the answer raised: the exception leaves on_connected and _connect_once
SubscribeFails ==
    /\ phase = "subscribe" /\ "subscribe" \notin waiting /\ ~subscribed
    /\ Teardown

\* the next two tolerate every exception
ForecastOver ==
    /\ phase = "forecast" /\ "forecast" \notin waiting
    /\ Send({"prefs"})
    /\ phase' = "prefs"
    /\ UNCHANGED <<link, connected, recv, ping, subscribed>>

PrefsOver ==
    /\ phase = "prefs" /\ "prefs" \notin waiting
    /\ phase' = "session"
    /\ UNCHANGED <<link, connected, recv, ping, pending, waiting, inflight, subscribed>>

\* "await self._recv_task" returns
SessionOver == phase = "session" /\ recv = "done" /\ Teardown

-----------------------------------------------------------------------------
\* _dispatch of a result: the entry leaves _pending, its future is resolved
Resolve(o) ==
    /\ recv = "running"
    /\ o \in inflight \ {"ping"}
    /\ inflight' = inflight \ {o}
    /\ pending' = pending \ {o}
    /\ waiting' = waiting \ (pending \cap {o})

Answer(o) ==
    /\ Resolve(o)
    /\ subscribed' = (subscribed \/ o = "subscribe")
    /\ UNCHANGED <<phase, link, connected, recv, ping>>

\* success = false: gather raises at once and on_connected returns without
\* having subscribed; the other fetches stay outstanding
Reject(o) ==
    /\ Resolve(o)
    /\ phase' = IF phase = "fetch" /\ o \in Fetches THEN "session" ELSE phase
    /\ UNCHANGED <<link, connected, recv, ping, subscribed>>

\* HA answers a ping with a pong, not with a result: _dispatch ignores it
Pong ==
    /\ recv = "running" /\ "ping" \in inflight
    /\ inflight' = inflight \ {"ping"}
    /\ UNCHANGED <<phase, link, connected, recv, ping, pending, waiting, subscribed>>

\* faulty: the loop swallows ConnectionClosed and goes on
RecvGoesOn == recv = "running" /\ link = "closed" /\ UNCHANGED vars

RecvEnds ==
    /\ recv = "running" /\ link = "closed"
    /\ recv' = "done"
    /\ UNCHANGED <<phase, link, connected, ping, pending, waiting, inflight, subscribed>>

-----------------------------------------------------------------------------
\* _ping_loop, after WS_PING_INTERVAL; a send that raises ends the loop
SendPing ==
    /\ ping = "sleep"
    /\ Send({"ping"})
    /\ ping' = IF link = "open" THEN "waiting" ELSE "done"
   
    /\ UNCHANGED <<phase, link, connected, recv, subscribed>>

\* faulty: the socket is marked, nothing closes it
PingTimeoutMarks ==
    /\ ping = "waiting"
    /\ ping' = "done"
    /\ waiting' = waiting \ {"ping"}
    /\ link' = "stale"
    /\ UNCHANGED <<phase, connected, recv, pending, inflight, subscribed>>

\* the 10 s of wait_for are over: the future is cancelled (its entry stays),
\* the socket is closed, the loop ends
PingTimeout ==
    /\ ping = "waiting"
    /\ ping' = "done"
    /\ waiting' = waiting \ {"ping"}
    /\ link' = "closed"
    /\ UNCHANGED <<phase, connected, recv, pending, inflight, subscribed>>

\* a caller that found the client connected, perhaps some time ago
Ask(c) ==
    /\ link # "none"
    /\ c \notin waiting
    /\ Send({c})
    /\ UNCHANGED <<phase, link, connected, recv, ping, subscribed>>

\* the connection breaks, Home Assistant restarts
Drop ==
    /\ link = "open"
    /\ link' = "closed"
    /\ UNCHANGED <<phase, connected, recv, ping, pending, waiting, inflight, subscribed>>

RunForever ==
    \/ Closed \/ Wake \/ Dial \/ DialFails \/ AuthOk \/ AuthFails
    \/ StartFetch \/ FetchOver \/ SubscribeOver \/ SubscribeFails
    \/ ForecastOver \/ PrefsOver \/ SessionOver

ReceiveLoop == Pong \/ RecvEnds \/ \E o \in Owners : Answer(o) \/ Reject(o)

Next ==
    \/ RunForever
    \/ ReceiveLoop
    \/ SendPing \/ PingTimeout
    \/ \E c \in Callers : Ask(c)
    \/ Drop

Spec == Init /\ [][Next]_vars

\* The event loop runs every task that is ready; timers fire.  Home Assistant
\* accepts a connection again and again, and answers the requests of the setup:
\* it may refuse the fetches, but not every subscription.  It owes the callers
\* nothing.
Fairness ==
    /\ WF_vars(Closed) /\ WF_vars(Wake) /\ SF_vars(Dial) /\ SF_vars(AuthOk)
    /\ WF_vars(AuthFails /\ link = "closed")
    /\ WF_vars(StartFetch) /\ WF_vars(FetchOver)
    /\ WF_vars(SubscribeOver) /\ WF_vars(SubscribeFails)
    /\ WF_vars(ForecastOver) /\ WF_vars(PrefsOver) /\ WF_vars(SessionOver)
    /\ WF_vars(RecvEnds) /\ WF_vars(SendPing) /\ WF_vars(PingTimeout)
    /\ \A o \in Fetches \cup {"subscribe", "forecast", "prefs"} :
          WF_vars(Answer(o) \/ Reject(o))
    /\ SF_vars(Answer("subscribe"))

FairSpec == Spec /\ Fairness

-----------------------------------------------------------------------------
\* Types of the client's fields and tasks.
TypeOK ==
    /\ phase \in Phases
    /\ link \in {"none", "open", "closed"}
    /\ connected \in BOOLEAN
    /\ recv \in {"none", "running", "done"}
    /\ ping \in {"none", "sleep", "waiting", "done"}
    /\ pending \subseteq Owners
    /\ waiting \subseteq Owners
    /\ inflight \subseteq Owners
    /\ subscribed \in BOOLEAN

\* A task that awaits an answer is in _pending: whatever happens to the link,
\* the answer or the teardown can still find it.
WaitersRegistered == waiting \subseteq pending

\* No request outlives its socket: while there is none, nobody waits.
NoWaiterWithoutSocket == link = "none" => waiting = {}

\* The sockets and requests of the client implement ConnectionPromise.
Promise == INSTANCE ConnectionPromise WITH
    up <- link # "none", waiting <- waiting \cap Callers

\* Callers use an existing socket only and never outlive it.
KeepsPromise == Promise!Spec

\* The link holds from the authentication until on_connected is over.
Setup == {"setup", "fetch", "subscribe", "forecast", "prefs"}
LinkHoldsInSetup == [](phase \in Setup => link = "open")

\* _teardown: "Fail any pending requests so callers don't hang forever".
CallersReleased == \A c \in Callers : c \in waiting ~> c \notin waiting

\* What the code achieves of it: with links that break at any time but during
\* on_connected, every caller is released, answered or not.
CallersReleasedAfterSetup == LinkHoldsInSetup => CallersReleased

\* run_forever: "Connect and keep the connection alive with backoff reconnects".
\* With the same links there is a session on an open socket again and again.
SessionsReturn == LinkHoldsInSetup => []<>(phase = "session" /\ link = "open")
=============================================================================

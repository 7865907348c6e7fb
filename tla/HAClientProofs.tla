--------------------------- MODULE HAClientProofs ---------------------------
(***************************************************************************)
(* HAClient never leaves a caller waiting for an answer nobody can give    *)
(* any more, as far as run_forever reaches its teardown: for every set of  *)
(* callers and of gathered requests, and with or without losses during the *)
(* setup.                                                                  *)
(***************************************************************************)
EXTENDS HAClient, TLAPS

\* Between teardown and the next handshake there is no session: no task, no
\* open socket and nobody waiting.
Quiet ==
    /\ phase \in {"closing", "sleep", "dial"} =>
          waiting = {} /\ recv = "none" /\ ping = "none" /\ link # "open"
    /\ phase = "auth" => recv = "none" /\ ping = "none"
    /\ link = "none" => phase \in {"closing", "sleep", "dial"}
    /\ phase \in {"sleep", "dial"} => link = "none"

IInv == TypeOK /\ WaitersRegistered /\ Quiet

\* The callers are none of the client's own tasks.
LEMMA CallersApart == \A c \in Callers : c \notin Fetches /\ c \notin Own
BY OwnersAssumption

\* A teardown from any phase leaves the client quiet.
LEMMA TeardownQuiet ==
    ASSUME TypeOK, WaitersRegistered, Teardown
    PROVE  TypeOK' /\ WaitersRegistered' /\ Quiet'
BY DEF TypeOK, WaitersRegistered, Quiet, Teardown, FailPending, Phases

\* Registering requests keeps every waiter registered.
LEMMA SendRegisters ==
    ASSUME NEW S, S \subseteq Owners, TypeOK, WaitersRegistered, Send(S)
    PROVE  /\ pending' \subseteq Owners /\ waiting' \subseteq Owners
           /\ inflight' \subseteq Owners
           /\ waiting' \subseteq pending'
           /\ link # "open" => waiting' = waiting
BY DEF TypeOK, WaitersRegistered, Send

\* A result takes its entry and its waiter away together.
LEMMA ResolveReleases ==
    ASSUME NEW o \in Owners, IInv, Resolve(o)
    PROVE  /\ pending' \subseteq Owners /\ waiting' \subseteq Owners
           /\ inflight' \subseteq Owners
           /\ waiting' \subseteq pending'
           /\ waiting' \subseteq waiting
           /\ phase \notin {"closing", "sleep", "dial", "auth"}
BY DEF IInv, TypeOK, WaitersRegistered, Quiet, Resolve, Phases

LEMMA InitInv == Init => IInv
BY DEF Init, IInv, TypeOK, WaitersRegistered, Quiet, Phases

\* IInv is inductive: one step per action.
LEMMA NextInv == IInv /\ [Next]_vars => IInv'
<1> SUFFICES ASSUME IInv, [Next]_vars PROVE IInv'
  OBVIOUS
<1> USE DEF IInv
<1>1. CASE Closed
  BY <1>1 DEF Closed, TypeOK, WaitersRegistered, Quiet, Phases
<1>2. CASE Wake
  BY <1>2 DEF Wake, TypeOK, WaitersRegistered, Quiet, Phases
<1>3. CASE Dial
  BY <1>3 DEF Dial, TypeOK, WaitersRegistered, Quiet, Phases
<1>4. CASE DialFails \/ AuthFails \/ SubscribeFails \/ SessionOver
  BY <1>4, TeardownQuiet DEF DialFails, AuthFails, SubscribeFails, SessionOver
<1>5. CASE AuthOk
  BY <1>5 DEF AuthOk, TypeOK, WaitersRegistered, Quiet, Phases
<1>6. CASE StartFetch
  <2>1. Fetches \subseteq Owners
    BY DEF Owners
  <2> QED
    BY <1>6, <2>1, SendRegisters DEF StartFetch, TypeOK, WaitersRegistered, Quiet, Phases
<1>7. CASE FetchOver
  <2>1. {"subscribe"} \subseteq Owners
    BY DEF Owners, Own
  <2> QED
    BY <1>7, <2>1, SendRegisters DEF FetchOver, TypeOK, WaitersRegistered, Quiet, Phases
<1>8. CASE SubscribeOver
  <2>1. {"forecast"} \subseteq Owners
    BY DEF Owners, Own
  <2> QED
    BY <1>8, <2>1, SendRegisters DEF SubscribeOver, TypeOK, WaitersRegistered, Quiet, Phases
<1>9. CASE ForecastOver
  <2>1. {"prefs"} \subseteq Owners
    BY DEF Owners, Own
  <2> QED
    BY <1>9, <2>1, SendRegisters DEF ForecastOver, TypeOK, WaitersRegistered, Quiet, Phases
<1>10. CASE PrefsOver
  BY <1>10 DEF PrefsOver, TypeOK, WaitersRegistered, Quiet, Phases
<1>11. CASE Pong
  BY <1>11 DEF Pong, TypeOK, WaitersRegistered, Quiet, Phases
<1>12. CASE RecvEnds
  BY <1>12 DEF RecvEnds, TypeOK, WaitersRegistered, Quiet, Phases
<1>13. ASSUME NEW o \in Owners, Answer(o)
       PROVE  IInv'
  BY <1>13, ResolveReleases DEF Answer, TypeOK, WaitersRegistered, Quiet, Phases
<1>14. ASSUME NEW o \in Owners, Reject(o)
       PROVE  IInv'
  BY <1>14, ResolveReleases DEF Reject, TypeOK, WaitersRegistered, Quiet, Phases
<1>15. CASE SendPing
  <2>1. {"ping"} \subseteq Owners
    BY DEF Owners, Own
  <2> QED
    BY <1>15, <2>1, SendRegisters DEF SendPing, TypeOK, WaitersRegistered, Quiet, Phases
<1>16. CASE PingTimeout
  BY <1>16 DEF PingTimeout, TypeOK, WaitersRegistered, Quiet, Phases
<1>17. ASSUME NEW c \in Callers, Ask(c)
       PROVE  IInv'
  <2>1. {c} \subseteq Owners
    BY DEF Owners
  <2> QED
    BY <1>17, <2>1, SendRegisters DEF Ask, TypeOK, WaitersRegistered, Quiet, Phases
<1>18. CASE Drop
  BY <1>18 DEF Drop, TypeOK, WaitersRegistered, Quiet, Phases
<1>19. CASE UNCHANGED vars
  BY <1>19 DEF vars, TypeOK, WaitersRegistered, Quiet, Phases
<1> QED
  BY <1>1, <1>2, <1>3, <1>4, <1>5, <1>6, <1>7, <1>8, <1>9, <1>10, <1>11, <1>12,
     <1>13, <1>14, <1>15, <1>16, <1>17, <1>18, <1>19 DEF Next, RunForever, ReceiveLoop

LEMMA Invariance == Spec => []IInv
<1> QED
  BY InitInv, NextInv, PTL DEF Spec

\* The client's fields and tasks keep their types.
THEOREM TypeCorrect == Spec => []TypeOK
<1>1. IInv => TypeOK
  BY DEF IInv
<1> QED
  BY Invariance, <1>1, PTL

\* Every task that awaits an answer is found by the answer or by the teardown.
THEOREM WaitersFound == Spec => []WaitersRegistered
<1>1. IInv => WaitersRegistered
  BY DEF IInv
<1> QED
  BY Invariance, <1>1, PTL

\* No request outlives its socket.
THEOREM NobodyOutlivesSocket == Spec => []NoWaiterWithoutSocket
<1>1. IInv => NoWaiterWithoutSocket
  BY DEF IInv, Quiet, NoWaiterWithoutSocket
<1> QED
  BY Invariance, <1>1, PTL

-----------------------------------------------------------------------------
\* The view of the abstract specification.
Served == waiting \cap Callers
PromiseStep == [Promise!Next]_<<link # "none", Served>>

\* A step that touches neither a caller nor the existence of the socket.
LEMMA Stutter ==
    ASSUME (link' = "none") <=> (link = "none"), Served' = Served
    PROVE  PromiseStep
BY DEF PromiseStep

\* Everybody is released, as a teardown does.
LEMMA TeardownReleases ==
    ASSUME IInv, Teardown
    PROVE  PromiseStep
<1>1. waiting' = {}
  BY DEF IInv, WaitersRegistered, Teardown, FailPending
<1>2. (link' = "none") <=> (link = "none")
  BY DEF Teardown
<1>3. Promise!ReleaseAll
  BY <1>1, <1>2 DEF Promise!ReleaseAll
<1> QED
  BY <1>3 DEF PromiseStep, Promise!Next, Served

\* The setup's own requests are invisible to the callers.
LEMMA OwnSend ==
    ASSUME NEW S, S \cap Callers = {}, Send(S), link' = link
    PROVE  PromiseStep
<1>1. Served' = Served
  BY DEF Send, Served
<1> QED
  BY <1>1, Stutter

\* A caller registers on an open socket, and fails at once on a closed one.
LEMMA AskStep ==
    ASSUME NEW c \in Callers, Ask(c)
    PROVE  PromiseStep
<1>1. CASE link = "open"
  <2>1. Promise!Ask(c)
    BY <1>1 DEF Ask, Send, Promise!Ask
  <2> QED
    BY <2>1 DEF PromiseStep, Promise!Next
<1>2. CASE link # "open"
  BY <1>2, Stutter DEF Ask, Send, Served
<1> QED
  BY <1>1, <1>2

\* A result releases the caller it is for, if that caller still waits.
LEMMA ResolveStep ==
    ASSUME NEW o \in Owners, IInv, Resolve(o), link' = link
    PROVE  PromiseStep
<1>1. waiting' = waiting \ {o}
  BY DEF IInv, WaitersRegistered, Resolve
<1>2. CASE o \in Callers /\ o \in waiting
  <2>1. Promise!Release(o)
    BY <1>1, <1>2 DEF Promise!Release
  <2> QED
    BY <2>1, <1>2 DEF PromiseStep, Promise!Next
<1>3. CASE ~(o \in Callers /\ o \in waiting)
  <2>1. Served' = Served
    BY <1>1, <1>3 DEF Served
  <2> QED
    BY <2>1, Stutter
<1> QED
  BY <1>2, <1>3

\* Every step of the client is a step of the promise or invisible to it.
LEMMA StepRefines == IInv /\ [Next]_vars => PromiseStep
<1> SUFFICES ASSUME IInv, [Next]_vars PROVE PromiseStep
  OBVIOUS
<1>1. CASE Closed
  <2>1. waiting = {} /\ link' = "none" /\ waiting' = waiting
    BY <1>1 DEF IInv, Quiet, Closed
  <2>2. CASE link = "none"
    BY <2>1, <2>2, Stutter DEF Served
  <2>3. CASE link # "none"
    <3>1. Promise!Close
      BY <2>1, <2>3 DEF Promise!Close
    <3> QED
      BY <3>1 DEF PromiseStep, Promise!Next
  <2> QED
    BY <2>2, <2>3
<1>2. CASE Wake \/ AuthOk \/ PrefsOver \/ Pong \/ RecvEnds
  BY <1>2, Stutter DEF Wake, AuthOk, PrefsOver, Pong, RecvEnds, Served
<1>3. CASE Dial
  <2>1. link = "none" /\ link' = "open" /\ waiting' = waiting
    BY <1>3 DEF IInv, Quiet, Dial
  <2>2. Promise!Open
    BY <2>1 DEF Promise!Open
  <2> QED
    BY <2>2 DEF PromiseStep, Promise!Next
<1>4. CASE DialFails \/ AuthFails \/ SubscribeFails \/ SessionOver
  BY <1>4, TeardownReleases DEF DialFails, AuthFails, SubscribeFails, SessionOver
<1>5. CASE StartFetch
  BY <1>5, OwnSend, CallersApart DEF StartFetch
<1>6. CASE FetchOver
  <2>1. {"subscribe"} \cap Callers = {}
    BY CallersApart DEF Own
  <2> QED
    BY <1>6, <2>1, OwnSend DEF FetchOver
<1>7. CASE SubscribeOver
  <2>1. {"forecast"} \cap Callers = {}
    BY CallersApart DEF Own
  <2> QED
    BY <1>7, <2>1, OwnSend DEF SubscribeOver
<1>8. CASE ForecastOver
  <2>1. {"prefs"} \cap Callers = {}
    BY CallersApart DEF Own
  <2> QED
    BY <1>8, <2>1, OwnSend DEF ForecastOver
<1>9. ASSUME NEW o \in Owners, Answer(o) \/ Reject(o)
      PROVE  PromiseStep
  BY <1>9, ResolveStep DEF Answer, Reject
<1>10. CASE SendPing
  <2>1. {"ping"} \cap Callers = {}
    BY CallersApart DEF Own
  <2> QED
    BY <1>10, <2>1, OwnSend DEF SendPing
<1>11. CASE PingTimeout
  <2>1. "ping" \notin Callers
    BY CallersApart DEF Own
  <2>2. Served' = Served
    BY <1>11, <2>1 DEF PingTimeout, Served
  <2>3. link # "none" /\ link' = "closed"
    BY <1>11 DEF IInv, Quiet, PingTimeout
  <2> QED
    BY <2>2, <2>3, Stutter
<1>12. ASSUME NEW c \in Callers, Ask(c)
       PROVE  PromiseStep
  BY <1>12, AskStep
<1>13. CASE Drop
  BY <1>13, Stutter DEF Drop, Served
<1>14. CASE UNCHANGED vars
  BY <1>14, Stutter DEF vars, Served
<1> QED
  BY <1>1, <1>2, <1>3, <1>4, <1>5, <1>6, <1>7, <1>8, <1>9, <1>10, <1>11, <1>12,
     <1>13, <1>14 DEF Next, RunForever, ReceiveLoop

\* HAClient implements ConnectionPromise: a caller asks on an existing socket
\* only, and is released before that socket is given up.
THEOREM PromiseKept == Spec => KeepsPromise
<1>1. Init => Promise!Init
  BY DEF Init, Promise!Init
<1>2. IInv /\ [Next]_vars => [Promise!Next]_<<link # "none", waiting \cap Callers>>
  BY StepRefines DEF PromiseStep, Served
<1> QED
  BY Invariance, <1>1, <1>2, PTL DEF Spec, KeepsPromise, Promise!Spec
=============================================================================

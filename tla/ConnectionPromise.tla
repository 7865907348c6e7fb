-------------------------- MODULE ConnectionPromise --------------------------
(***************************************************************************)
(* What HAClient promises the tasks that use it: a request is made only    *)
(* on an existing socket, and no request survives the socket it was made   *)
(* on.  Whoever waits is released by an answer, or by the teardown that    *)
(* precedes the end of the socket.                                         *)
(***************************************************************************)
CONSTANT Callers    \* tasks that call Home Assistant: control cycle, setback, ...

VARIABLES
    up,       \* there is a socket
    waiting   \* callers that await an answer

Init == up = FALSE /\ waiting = {}

Open == ~up /\ up' = TRUE /\ UNCHANGED waiting

Ask(c) == up /\ c \notin waiting /\ waiting' = waiting \cup {c} /\ UNCHANGED up

Release(c) == c \in waiting /\ waiting' = waiting \ {c} /\ UNCHANGED up

ReleaseAll == waiting' = {} /\ UNCHANGED up

Close == up /\ waiting = {} /\ up' = FALSE /\ UNCHANGED waiting

Next ==
    \/ Open \/ ReleaseAll \/ Close
    \/ \E c \in Callers : Ask(c) \/ Release(c)

Spec == Init /\ [][Next]_<<up, waiting>>
=============================================================================

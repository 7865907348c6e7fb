--------------------------- MODULE MCSwitchControl ---------------------------
\* Small instances of SwitchControl.
EXTENDS SwitchControl, TLC

CONSTANTS heater, washer

Load(priority, nominal, minRuntime, minOff, maxStarts, interruptible, latestStart) ==
    [priority |-> priority, nominal |-> nominal, threshold |-> 0,
     minRuntime |-> minRuntime, minOff |-> minOff, maxStarts |-> maxStarts,
     interruptible |-> interruptible, latestStart |-> latestStart]

\* a heater with every guard set, and a latest start
Guarded == heater :> Load(1, 500, 2, 1, 1, TRUE, 1)
\* a washing machine above a heater, no guards
Pair == heater :> Load(1, 500, 0, 0, 0, TRUE, NoDeadline)
        @@ washer :> Load(2, 300, 0, 1, 0, FALSE, NoDeadline)

Never == -1
SurplusLevels == {-200, 0, 600}
TwoLevels == {-200, 600}
=============================================================================

---------------------------- MODULE MCCommandSet ----------------------------
\* A small instance of CommandSet: the setpoint of a battery and the relay of a
\* load, built-in controllers and the rules last.
EXTENDS CommandSet

CONSTANTS setpoint, relay

MCDevice == [e \in Entities |-> [lo |-> 0, hi |-> 7]]

Band(lo, hi, target) == [lo |-> lo, hi |-> hi, target |-> target]

\* EssReserveController's hi = 0, and what a rule may ask for: a lower bound with
\* a target below it, a lower bound beyond the device.  With a grain of 2 the
\* value 3 and the device limit 7 round either way.
MCBands == {Band(-Inf, 0, {}), Band(3, Inf, {0}), Band(9, Inf, {})}
=============================================================================

------------------------------ MODULE MCSignals -----------------------------
\* Small instances of Signals.
EXTENDS Signals, TLC

GridBattery == [grid |-> "grid", battery |-> "battery"]

Flow(house, pv, battery) == [house |-> house, pv |-> pv, battery |-> battery]
\* a sun nobody measures counts as negative house load; at night the battery charges
BatteryFlows == {Flow(-6, 0, 0), Flow(6, 0, 6)}
=============================================================================

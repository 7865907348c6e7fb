----------------------------- MODULE MCDayLoads -----------------------------
\* Small instances of DayLoads: shifted appliances, wallboxes, supported wallboxes.
EXTENDS DayLoads

None == -1
Appliance == [kind |-> "tariff", mode |-> "dynamic", ntStart |-> 0, ntEnd |-> 0,
              deadline |-> None, minRun |-> 1, minOff |-> 1, interruptible |-> TRUE,
              fromGrid |-> FALSE, linked |-> FALSE, hyst |-> 1, support |-> 0,
              modulated |-> FALSE]
Wallbox == [Appliance EXCEPT !.kind = "wallbox", !.mode = "static", !.linked = TRUE]
Supported == [Wallbox EXCEPT !.kind = "supported", !.support = 1, !.modulated = TRUE]

AllSettings ==
    { Appliance,
      [Appliance EXCEPT !.deadline = 2, !.interruptible = FALSE, !.minRun = 2, !.minOff = 2],
      [Appliance EXCEPT !.mode = "ht_nt", !.ntStart = 5, !.ntEnd = 1, !.deadline = 3,
                         !.minOff = 0],
      Wallbox,
      [Wallbox EXCEPT !.deadline = 3, !.minRun = 2],
      [Wallbox EXCEPT !.linked = FALSE, !.deadline = 4, !.minOff = 2, !.interruptible = FALSE],
      [Wallbox EXCEPT !.fromGrid = TRUE],
      Supported,
      [Supported EXCEPT !.linked = FALSE, !.minRun = 2, !.modulated = FALSE],
      [Supported EXCEPT !.deadline = 3],
      [Supported EXCEPT !.fromGrid = TRUE, !.deadline = 3] }

Prices == { <<2, 2, 2>>, <<3, 1, 2>>, <<3, 2, 1>>, <<1, 3, 3>> }
Levels == {-1, 1, 2}
=============================================================================

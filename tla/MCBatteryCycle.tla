--------------------------- MODULE MCBatteryCycle ---------------------------
\* Small instances of BatteryCycle: a battery of three units and five levels.
EXTENDS BatteryCycle

Swing == {-5, -2, 0, 2, 5}

Guards == {"care", "reserve", "peak", "modulation"}
\* PV surplus alone; the guards with the tariff, with the optimizer, with all
Combined == {{"modulation"},
             Guards \cup {"tariff"},
             Guards \cup {"optimizer", "loads_first"},
             Guards \cup {"tariff", "feed_in"},
             Guards \cup {"tariff", "optimizer", "feed_in"}}
=============================================================================

------------------------------ MODULE MCHistory ------------------------------
\* Small instances of History.
EXTENDS History

Flow(pv, house, grid, price) == [pv |-> pv, house |-> house, grid |-> grid, price |-> price]
\* sunshine with a battery charging, a dark hour without a price, a dear evening
ThreeReadings == {Flow(16, 4, -8, 3), Flow(0, 4, 4, NoPrice), Flow(4, 12, 8, 6)}
\* below and above the range shown
ShortAndLong == {2, 6}
==============================================================================

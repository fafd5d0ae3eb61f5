---------------------------- MODULE MCEquipment ----------------------------
\* The instance of Equipment that TLC checks: two rows at different prices.
EXTENDS Equipment

MCPrice == [k \in 1 .. 2 |-> 3 - k]
=============================================================================

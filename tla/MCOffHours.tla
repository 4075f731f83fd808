------------------------------ MODULE MCOffHours ------------------------------
EXTENDS OffHours

CONSTANTS m1, m2, s1, s2

TwoMessages == {m1, m2}
TwoSweeps == {s1, s2}
AllFaults == {"send", "death"}
NoFaults == {}

=============================================================================

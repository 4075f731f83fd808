------------------------------ MODULE MCDebounce ------------------------------
(* Debounce on small instances. *)
EXTENDS Debounce, TLC

CONSTANTS m1, m2, m3

ThreeMessages == {m1, m2, m3}
TwoMessages == {m1, m2}
Symmetric == Permutations(ThreeMessages)
NoFaults == {}
AllFaults == {"inbound", "flush"}
FlushFault == {"flush"}
=============================================================================

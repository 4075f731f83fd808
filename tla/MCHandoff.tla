------------------------------ MODULE MCHandoff ------------------------------
(* Handoff on small instances. *)
EXTENDS Handoff, TLC

CONSTANTS t1, t2

TwoTurns == {t1, t2}
Symmetric == Permutations(TwoTurns)
OneTurn == {t1}
NoFaults == {}
AllFaults == PossibleFaults
SendFault == {"send"}
Pitching == {"PITCHING"}
Closing == {"CLOSING"}
=============================================================================

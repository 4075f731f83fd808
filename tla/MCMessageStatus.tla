---------------------------- MODULE MCMessageStatus ----------------------------
(* MessageStatus on small instances. *)
EXTENDS MessageStatus

NoFaults == {}
AllFaults == PossibleFaults
WireFaults == {"precheck", "refused", "timeout"}
RefusedFault == {"refused"}
=============================================================================

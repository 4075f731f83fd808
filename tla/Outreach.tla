------------------------------- MODULE Outreach -------------------------------
(***************************************************************************)
(* Who writes to a customer unasked: the automations that a run walks      *)
(* (engine.py), and the sweeps over silent threads whose events start some *)
(* of them (no_answer.py, close_conversations.py, reactivation.py).  Each  *)
(* part has the thread's row in variables of its own and takes whatever    *)
(* others write to it as a choice of its environment, so their steps may   *)
(* interleave in any order.                                                *)
(***************************************************************************)
EXTENDS GraphWalk, IdleSweeps

outreachVars == <<walkVars, idleVars>>

OutreachInit == WalkInit /\ IdleInit

WalkStep == WalkNext /\ UNCHANGED idleVars
SweepStep == IdleNext /\ UNCHANGED walkVars

OutreachNext == WalkStep \/ SweepStep

OutreachSpec == OutreachInit /\ [][OutreachNext]_outreachVars

\* Nobody is written to who should be left alone: a run is silent when an operator has
\* the thread (GraphWalk), a cadence when the customer has answered, and no thread is
\* closed under a cadence (IdleSweeps).
LeftAlone == NoMessageOverHuman /\ NudgedInSilence /\ ClosedAfterFollowUps

===============================================================================

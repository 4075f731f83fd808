----------------------------- MODULE MCAutomation -----------------------------
(***************************************************************************)
(* One run for two parts of the automation engine.  They share no variable *)
(* (what one hands over to the other is an input of the other), so a       *)
(* behaviour is one of the part in focus, and the others stand still.      *)
(***************************************************************************)
EXTENDS AutomationRun, HoursQueue

VARIABLE focus

vars == <<focus, runVars, hoursVars>>

Init ==
  /\ focus \in {"run", "hours"}
  /\ RunInit /\ HoursInit

InRun(A) == focus = "run" /\ A /\ UNCHANGED <<focus, hoursVars>>
InHours(A) == focus = "hours" /\ A /\ UNCHANGED <<focus, runVars>>

Next == InRun(RunNext) \/ InHours(HoursNext)

\* RunFairness and HoursFairness.  Only the part in focus has an enabled
\* step, so the steps of one process in any part are taken together.
Fairness ==
  /\ \A p \in Runners \union Sweeps :
       WF_vars(\/ InRun(p \in Runners /\ RunStep(p))
               \/ InHours(p \in Sweeps /\ SweepStep(p)))
  /\ WF_vars(InRun(Pass) \/ InHours(ResumeStep))
  /\ SF_vars(InHours(ScanStep) \/ InRun(DueStep))
  /\ \A k \in Keys : SF_vars(InRun(TakeStep(k)))

FairSpec == Init /\ [][Next]_vars /\ Fairness

=============================================================================

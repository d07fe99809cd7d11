------------------------------ MODULE MCAgents ------------------------------
(***************************************************************************)
(* The parts of the agent runtime for TLC.  They share no state, so a      *)
(* behaviour runs one of them, chosen at the start, and leaves the others  *)
(* in their first state.                                                   *)
(***************************************************************************)
EXTENDS AgentDriver, AgentBudget, SeatWorkspace, Redaction, AgentRuns, AgentMatch

CONSTANT Parts   \* the parts a run checks

VARIABLE part

mcVars == <<part, driverVars, budgetVars, wsVars, redactionVars, runVars, matchVars>>

MCLimits ==
    [d \in CountedDims |-> CASE d \in {"attempts", "tools"} -> 2
                             [] d = "output" -> 3
                             [] d = "cost" -> Saturation
                             [] OTHER -> 1]
MCRetention ==
    [q \in Requests |-> IF q = "q1" THEN "retain_on_failure" ELSE "delete_on_finish"]
MCSecrets == << <<"a", "b">>, <<"b", "b", "a">> >>
MCGameSeats == {<<"g", 1>>, <<"g", 2>>}
MCHumanSeat == <<"h", 1>>

MCInit ==
    /\ part \in Parts
    /\ DriverInit /\ BudgetInit /\ WorkspaceInit /\ RedactionInit /\ MatchInit
    /\ RunsInit /\ (part /= "sanitizer" => toolJson = <<"text">>)
    /\ part /= "driver" => kind = "generic"

MCNext ==
    /\ UNCHANGED part
    /\ \/ /\ part = "driver" /\ DriverNext
          /\ UNCHANGED <<budgetVars, wsVars, redactionVars, runVars, matchVars>>
       \/ /\ part = "budget" /\ BudgetNext
          /\ UNCHANGED <<driverVars, wsVars, redactionVars, runVars, matchVars>>
       \/ /\ part = "workspace" /\ WorkspaceNext
          /\ UNCHANGED <<driverVars, budgetVars, redactionVars, runVars, matchVars>>
       \/ /\ part = "redaction" /\ RedactionNext
          /\ UNCHANGED <<driverVars, budgetVars, wsVars, runVars, matchVars>>
       \/ /\ part = "runs" /\ RunsNext
          /\ UNCHANGED <<driverVars, budgetVars, wsVars, redactionVars, matchVars>>
       \/ /\ part = "match" /\ MatchNext
          /\ UNCHANGED <<driverVars, budgetVars, wsVars, redactionVars, runVars>>

\* The tasks of a part are scheduled as long as they can take a step.
MCFairness ==
    /\ WF_mcVars(part = "driver" /\ DriverStep
                 /\ UNCHANGED <<part, budgetVars, wsVars, redactionVars, runVars, matchVars>>)
    /\ WF_mcVars(part = "budget" /\ BudgetProgress
                 /\ UNCHANGED <<part, driverVars, wsVars, redactionVars, runVars, matchVars>>)
    /\ \A r \in Runners :
        WF_mcVars(part = "match" /\ RunnerStep(r)
                  /\ UNCHANGED <<part, driverVars, budgetVars, wsVars, redactionVars, runVars>>)

MCSpec == MCInit /\ [][MCNext]_mcVars /\ MCFairness

\* Whatever was begun ends: a cancelled call of a driver, a turn under a
\* budget, the turn of an agent that failed, and the report of a finished match.
AgentsProgress == CancelledCallEnds /\ EveryTurnEnds /\ FailedTurnIsResolved /\ FinishedIsReported
=============================================================================

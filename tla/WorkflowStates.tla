--------------------------- MODULE WorkflowStates ---------------------------
(***************************************************************************)
(* The statuses of workflow runs and step runs, and the tables of the      *)
(* moves between them (domain/workflow/state.py).                          *)
(***************************************************************************)

WorkflowStatus == {"pending", "queued", "running", "paused", "succeeded",
                   "failed", "cancelled", "retrying", "skipped"}

\* The moves runs and steps share; a table adds what is its own.
CommonMoves(s) ==
  CASE s = "queued"   -> {"running", "cancelled"}
    [] s = "running"  -> {"succeeded", "failed", "paused", "cancelled",
                          "retrying"}
    [] s = "paused"   -> {"running", "cancelled"}
    [] s = "failed"   -> {"retrying", "cancelled"}
    [] s = "retrying" -> {"running", "failed", "cancelled"}
    [] s = "pending"  -> {"queued", "cancelled"}
    [] OTHER          -> {}

WorkflowTransitions == [s \in WorkflowStatus |-> CommonMoves(s)]

StepTransitions ==
  [s \in WorkflowStatus |->
     CommonMoves(s) \cup (IF s = "pending" THEN {"running", "skipped"} ELSE {})
                    \cup (IF s = "failed" THEN {"skipped"} ELSE {})]

\* Mutant: skipped steps are waited for.
SettledWithoutSkipped == {"succeeded", "cancelled"}
\* The steps _complete_run does not wait for.
SettledStatuses == {"succeeded", "skipped", "cancelled"}
\* The steps the loop of execute_run picks from.
ExecutableStatuses == {"pending", "queued", "retrying"}
\* The steps cancel_run cancels.
OpenStatuses == ExecutableStatuses \cup {"running", "paused"}

=============================================================================

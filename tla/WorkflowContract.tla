-------------------------- MODULE WorkflowContract --------------------------
(***************************************************************************)
(* What the workflow engine promises of one run: the run moves along its   *)
(* transition table, its steps are executed one at a time in sequence, and *)
(* the run succeeds only when no step is left.                             *)
(***************************************************************************)
EXTENDS Naturals, WorkflowStates

CONSTANT Steps  \* a finite interval of step sequence numbers

VARIABLES
  run,   \* the status of the run
  step   \* step -> its status

\* The run waits for its steps: only then may it finish.
MoveRun(to) ==
  /\ to \in WorkflowTransitions[run]
  /\ to = "succeeded" => \A s \in Steps : step[s] \in SettledStatuses
  /\ run' = to
  /\ UNCHANGED step

\* Steps run one at a time, each after all those before it.
StartStep(s) ==
  /\ run = "running"
  /\ "running" \in StepTransitions[step[s]]
  /\ \A t \in Steps : t < s => step[t] \in {"succeeded", "skipped"}
  /\ step' = [step EXCEPT ![s] = "running"]
  /\ UNCHANGED run

MoveStep(s, to) ==
  /\ to \in StepTransitions[step[s]] \ {"running"}
  /\ step' = [step EXCEPT ![s] = to]
  /\ UNCHANGED run

\* A retry of the whole run gives its failed steps another chance.
ResetStep(s) ==
  /\ run = "retrying"
  /\ step[s] = "failed"
  /\ step' = [step EXCEPT ![s] = "pending"]
  /\ UNCHANGED run

\* Cancelling a run cancels every step that is not finished.
CancelSteps ==
  /\ run = "cancelled"
  /\ step' = [s \in Steps |-> IF step[s] \in OpenStatuses
                              THEN "cancelled" ELSE step[s]]
  /\ UNCHANGED run

ContractInit ==
  /\ run = "pending"
  /\ step = [s \in Steps |-> "pending"]

ContractNext ==
  \/ \E to \in WorkflowStatus : MoveRun(to)
  \/ \E s \in Steps : StartStep(s) \/ ResetStep(s)
  \/ \E s \in Steps, to \in WorkflowStatus : MoveStep(s, to)
  \/ CancelSteps

ContractSpec == ContractInit /\ [][ContractNext]_<<run, step>>

=============================================================================

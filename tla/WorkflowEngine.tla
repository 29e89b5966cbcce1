--------------------------- MODULE WorkflowEngine ---------------------------
(***************************************************************************)
(* WorkflowEngineService and WorkflowStepExecutor: one workflow run, its   *)
(* step runs, the episode it produces, and the engine calls that work on   *)
(* them.                                                                   *)
(*                                                                         *)
(* An engine call loads the run once, decides on that Python object, and   *)
(* saves selected columns of it; execute_run re-reads the steps on every   *)
(* turn of its loop but never the run.  There is no lock, so calls from    *)
(* other processes (the only ones that can pause or cancel a run while     *)
(* execute_run, which is synchronous, works on it) meet each other only    *)
(* through the rows.  One action is one round trip to the database.        *)
(***************************************************************************)
EXTENDS Naturals, FiniteSets, FiniteSetsExt, WorkflowStates

CONSTANTS
  NumSteps,    \* steps of the run, enabled when it was created  (bound)
  RetryLimit,  \* WorkflowStep.retry_limit of every step
  Optional,    \* steps with config["optional"]
  StepType,    \* step -> WorkflowStep.step_type
  Callers,     \* processes that call the engine
  Controllers, \* the callers that only pause, cancel and skip
  Faults       \* the faults that may occur, a subset of FaultKinds

\* "crash": a process dies.  "preflight": a step has no adapter, or its
\* adapter rejects the input.  "disable": an administrator switches a step
\* of the definition off, or on again.
FaultKinds == {"crash", "preflight", "disable"}

Steps == 1..NumSteps

\* The types of steps whose start, or whose service, writes the episode's
\* status, and all the others.
StepTypes == {"PLAN_EPISODE", "GENERATE_SCRIPT", "GENERATE_AUDIO",
              "PROCESS_AUDIO", "PUBLISH_EPISODE", "other"}

ASSUME WorkflowAssumption ==
  /\ NumSteps \in Nat \ {0}
  /\ RetryLimit \in Nat
  /\ Optional \subseteq Steps
  /\ StepType \in [Steps -> StepTypes]
  /\ Controllers \subseteq Callers
  /\ Faults \subseteq FaultKinds

VARIABLES
  run,      \* the row of table workflow_workflowrun
  step,     \* step -> its row in workflow_workflowsteprun
  enabled,  \* step -> config["enabled"] of its definition
  episode,  \* the status of the episode
  call      \* caller -> the engine call it has under way

vars == <<run, step, enabled, episode, call>>

-----------------------------------------------------------------------------
(* The data.                                                               *)

\* "generating" stands for GENERATING_SCRIPT and GENERATING_AUDIO.
EpisodeStatus == {"draft", "generating", "publishing", "completed", "failed"}

Run == [status : WorkflowStatus, progress : 0..100,
        error : BOOLEAN, attached : BOOLEAN]
Step == [status : WorkflowStatus, retries : Nat]

\* Where an engine call is: before the save, or the read, of that name.
SteppingPc == {"picked", "disabled", "started", "adapter", "error", "output",
               "retryStep", "skip"}
CallPc == SteppingPc \cup
  {"idle", "queue", "run", "loop", "complete", "succeeded", "failed",
   "pause", "cancel", "cancelSteps", "retry", "reset", "retryRun"}

\* run, attached, episode: the run object and the episode it caches.  step,
\* copy: the step run object.  executed: the caller's last call was an
\* execute_run that returned the run object, whose status is in run.
Call == [pc : CallPc, run : WorkflowStatus, attached : BOOLEAN,
         episode : EpisodeStatus \cup {"unread"}, step : Steps \cup {0},
         copy : Step, todo : SUBSET Steps,
         executed : BOOLEAN]

NewStep == [status |-> "pending", retries |-> 0]
NoCall == [pc |-> "idle", run |-> "pending", attached |-> FALSE,
           episode |-> "unread", step |-> 0, copy |-> NewStep, todo |-> {},
           executed |-> FALSE]

\* Mutant: an episode that is being published counts as completed.
PublishedAtOnce ==
  [PLAN_EPISODE |-> "draft", GENERATE_SCRIPT |-> "generating",
   GENERATE_AUDIO |-> "generating", PROCESS_AUDIO |-> "completed",
   PUBLISH_EPISODE |-> "completed"]

\* What the start of a step makes of the episode.
STEP_EPISODE_STATUS ==
  [PLAN_EPISODE |-> "draft", GENERATE_SCRIPT |-> "generating",
   GENERATE_AUDIO |-> "generating", PROCESS_AUDIO |-> "completed",
   PUBLISH_EPISODE |-> "publishing"]

StageOf(s) == IF StepType[s] = "other" THEN "none"
              ELSE STEP_EPISODE_STATUS[StepType[s]]

Planning == {s \in Steps : StepType[s] = "PLAN_EPISODE"}

\* The type invariant: a call that is about a step has one.
TypeOK ==
  /\ run \in Run
  /\ step \in [Steps -> Step]
  /\ enabled \in [Steps -> BOOLEAN]
  /\ episode \in EpisodeStatus
  /\ call \in [Callers -> Call]
  /\ \A c \in Callers : call[c].pc \in SteppingPc => call[c].step \in Steps

\* create_run: with or without an episode, one pending step run per enabled
\* step of the definition.
Init ==
  /\ run \in [status : {"pending"}, progress : {0}, error : {FALSE},
              attached : BOOLEAN]
  /\ step = [s \in Steps |-> NewStep]
  /\ enabled = [s \in Steps |-> TRUE]
  /\ episode = "draft"
  /\ call = [c \in Callers |-> NoCall]

-----------------------------------------------------------------------------
(* What the calls read and how they end.                                   *)

In(status) == {s \in Steps : step[s].status \in status}
Executable == In(ExecutableStatuses)
Pct == (100 * Cardinality(In({"succeeded"}))) \div NumSteps

May(from, to) == to \in WorkflowTransitions[from]
MayStep(from, to) == to \in StepTransitions[from]

\* execute_run returns: its caller has the run object, whose status is kept.
Return(c) == call' = [call EXCEPT ![c] =
  [NoCall EXCEPT !.run = call[c].run, !.executed = TRUE]]
\* Any other end of a call: a controlling call returns, or an exception
\* leaves the engine.
Leave(c) == call' = [call EXCEPT ![c] = NoCall]

Enter(c, pc) ==
  /\ call[c].pc = "idle"
  /\ call' = [call EXCEPT ![c] =
       [NoCall EXCEPT !.pc = pc, !.run = run.status, !.attached = run.attached]]
  /\ UNCHANGED <<run, step, enabled, episode>>

\* A call that first loads a step run.
EnterStep(c, pc, s) ==
  /\ call[c].pc = "idle"
  /\ call' = [call EXCEPT ![c] =
       [NoCall EXCEPT !.pc = pc, !.step = s, !.copy = step[s]]]
  /\ UNCHANGED <<run, step, enabled, episode>>

Goto(c, pc) == call' = [call EXCEPT ![c].pc = pc]

\* Save the status of the step run object, and go on at pc.
SaveStatus(c, status, pc) ==
  /\ step' = [step EXCEPT ![call[c].step].status = status]
  /\ call' = [call EXCEPT ![c].copy.status = status, ![c].pc = pc]

\* Save the step run object RETRYING, with its count.
SaveRetry(c, retries) ==
  /\ step' = [step EXCEPT ![call[c].step] =
                [status |-> "retrying", retries |-> retries]]
  /\ Goto(c, "loop")

-----------------------------------------------------------------------------
(* Entering the engine: the run is loaded and the guards are evaluated.    *)

StartRun(c) == May(run.status, "queued") /\ Enter(c, "queue")

\* execute_run itself is public; it saves RUNNING unless the run is at work.
ExecuteRun(c) ==
  \/ run.status \in {"running", "queued", "retrying"} /\ Enter(c, "loop")
  \/ run.status \notin {"running", "queued", "retrying"}
       /\ May(run.status, "running") /\ Enter(c, "run")

PauseRun(c) == run.status = "running" /\ Enter(c, "pause")
ResumeRun(c) == run.status = "paused" /\ Enter(c, "run")
CancelRun(c) ==
  run.status \notin {"succeeded", "cancelled"} /\ Enter(c, "cancel")

RetryWorkflow(c) ==
  /\ In({"failed"}) # {}
  /\ May(run.status, "retrying")
  /\ Enter(c, "retry")

\* Mutant: the limit is compared with <=.
RetryStepAtLimit(c, s) ==
  /\ step[s].status = "failed"
  /\ step[s].retries <= RetryLimit
  /\ EnterStep(c, "retryStep", s)

RetryStep(c, s) ==
  /\ step[s].status = "failed"
  /\ step[s].retries < RetryLimit
  /\ EnterStep(c, "retryStep", s)

\* Mutant: required steps can be skipped too.
SkipAnyStep(c, s) ==
  /\ step[s].status \in {"pending", "failed"}
  /\ EnterStep(c, "skip", s)

SkipStep(c, s) ==
  /\ s \in Optional
  /\ step[s].status \in {"pending", "failed"}
  /\ EnterStep(c, "skip", s)

-----------------------------------------------------------------------------
(* The saves around the loop.                                              *)

\* start_run saves QUEUED and then RUNNING.
Queue(c) ==
  /\ call[c].pc = "queue"
  /\ run' = [run EXCEPT !.status = "queued"]
  /\ call' = [call EXCEPT ![c].run = "queued", ![c].pc = "run"]
  /\ UNCHANGED <<step, enabled, episode>>

SetRunning(c) ==
  /\ call[c].pc = "run"
  /\ run' = [run EXCEPT !.status = "running"]
  /\ call' = [call EXCEPT ![c].run = "running", ![c].pc = "loop"]
  /\ UNCHANGED <<step, enabled, episode>>

SavePaused(c) ==
  /\ call[c].pc = "pause"
  /\ run' = [run EXCEPT !.status = "paused"]
  /\ Leave(c)
  /\ UNCHANGED <<step, enabled, episode>>

SaveCancelled(c) ==
  /\ call[c].pc = "cancel"
  /\ run' = [run EXCEPT !.status = "cancelled"]
  /\ call' = [call EXCEPT ![c].run = "cancelled", ![c].pc = "cancelSteps"]
  /\ UNCHANGED <<step, enabled, episode>>

CancelSteps(c) ==
  /\ call[c].pc = "cancelSteps"
  /\ step' = [s \in Steps |->
       IF step[s].status \in OpenStatuses
       THEN [step[s] EXCEPT !.status = "cancelled"] ELSE step[s]]
  /\ Leave(c)
  /\ UNCHANGED <<run, enabled, episode>>

SaveSkipped(c) ==
  /\ call[c].pc = "skip"
  /\ step' = [step EXCEPT ![call[c].step].status = "skipped"]
  /\ Leave(c)
  /\ UNCHANGED <<run, enabled, episode>>

\* retry_workflow: the run becomes RETRYING, its failed steps PENDING again,
\* one save each (their retry counts stay), and the run RUNNING.
SaveRetrying(c) ==
  /\ call[c].pc = "retry"
  /\ run' = [run EXCEPT !.status = "retrying", !.error = FALSE]
  /\ call' = [call EXCEPT ![c].run = "retrying", ![c].pc = "reset",
                          ![c].todo = In({"failed"})]
  /\ UNCHANGED <<step, enabled, episode>>

ResetStep(c) ==
  /\ call[c].pc = "reset"
  /\ IF call[c].todo = {} THEN Goto(c, "run") /\ UNCHANGED step
     ELSE LET s == Min(call[c].todo)
          IN  /\ step' = [step EXCEPT ![s].status = "pending"]
              /\ call' = [call EXCEPT ![c].todo = @ \ {s}]
  /\ UNCHANGED <<run, enabled, episode>>

\* retry_step saves the step first and looks at its run (loaded only now)
\* afterwards: a run that cannot be retried is noticed too late.
SaveStepRetrying(c) ==
  /\ call[c].pc = "retryStep"
  /\ step' = [step EXCEPT ![call[c].step] =
       [status |-> "retrying", retries |-> call[c].copy.retries + 1]]
  /\ call' = [call EXCEPT ![c] = [NoCall EXCEPT !.pc = "retryRun",
                     !.run = run.status, !.attached = run.attached]]
  /\ UNCHANGED <<run, enabled, episode>>

SaveRunRetrying(c) ==
  /\ call[c].pc = "retryRun"
  /\ \/ /\ May(call[c].run, "retrying")
        /\ run' = [run EXCEPT !.status = "retrying", !.error = FALSE]
        /\ call' = [call EXCEPT ![c].run = "retrying", ![c].pc = "run"]
     \/ /\ ~May(call[c].run, "retrying")
        /\ Leave(c)
        /\ UNCHANGED run
  /\ UNCHANGED <<step, enabled, episode>>

-----------------------------------------------------------------------------
(* The loop of execute_run.                                                *)

\* Mutant: the loop goes on with the step run object of the last turn.
PickWithoutStep(c) ==
  /\ call[c].pc = "loop"
  /\ call[c].run \notin {"paused", "cancelled"}
  /\ Executable # {}
  /\ Goto(c, IF enabled[Min(Executable)] THEN "picked" ELSE "disabled")
  /\ UNCHANGED <<run, step, enabled, episode>>

\* Mutant: the steps are ordered by descending sequence.
PickLast(c) ==
  /\ call[c].pc = "loop"
  /\ call[c].run \notin {"paused", "cancelled"}
  /\ Executable # {}
  /\ LET s == Max(Executable)
     IN  call' = [call EXCEPT
           ![c].step = s, ![c].copy = step[s],
           ![c].pc = IF enabled[s] THEN "picked" ELSE "disabled"]
  /\ UNCHANGED <<run, step, enabled, episode>>

Pick(c) ==
  /\ call[c].pc = "loop"
  /\ call[c].run \notin {"paused", "cancelled"}
  /\ Executable # {}
  /\ LET s == Min(Executable)
     IN  call' = [call EXCEPT
           ![c].step = s, ![c].copy = step[s],
           ![c].pc = IF enabled[s] THEN "picked" ELSE "disabled"]
  /\ UNCHANGED <<run, step, enabled, episode>>

\* Nothing to pick: complete the run if the run object says RUNNING.
LeaveLoop(c) ==
  /\ call[c].pc = "loop"
  /\ call[c].run \in {"paused", "cancelled"} \/ Executable = {}
  /\ IF call[c].run = "running" THEN Goto(c, "complete")
                                ELSE Return(c)
  /\ UNCHANGED <<run, step, enabled, episode>>

SkipDisabled(c) ==
  /\ call[c].pc = "disabled"
  /\ IF MayStep(call[c].copy.status, "skipped")
     THEN /\ step' = [step EXCEPT ![call[c].step].status = "skipped"]
          /\ Goto(c, "loop")
     ELSE Leave(c) /\ UNCHANGED step
  /\ UNCHANGED <<run, enabled, episode>>

\* No adapter, or validate_input raises: the step is left as it was.
RefuseStep(c) ==
  /\ call[c].pc = "picked"
  /\ "preflight" \in Faults
  /\ Goto(c, "error")
  /\ UNCHANGED <<run, step, enabled, episode>>

StartStep(c) ==
  /\ call[c].pc = "picked"
  /\ call[c].copy.status \in {"pending", "retrying"}
  /\ SaveStatus(c, "running", "started")
  /\ UNCHANGED <<run, enabled, episode>>

\* on_step_started.
SyncStarted(c) ==
  LET stage == StageOf(call[c].step) IN
  /\ call[c].pc = "started"
  /\ IF call[c].attached /\ stage # "none"
     THEN /\ episode' = stage
          /\ call' = [call EXCEPT ![c].episode = stage, ![c].pc = "adapter"]
     ELSE Goto(c, "adapter") /\ UNCHANGED episode
  /\ UNCHANGED <<run, step, enabled>>

\* What the service behind an adapter saves of the episode, through an object
\* of its own, by the end of a step that succeeds: generations end in DRAFT,
\* and a publication that some platform refused stays PUBLISHING.
Leaves == [PLAN_EPISODE |-> {}, GENERATE_SCRIPT |-> {"draft"},
           GENERATE_AUDIO |-> {"draft"}, PROCESS_AUDIO |-> {"completed"},
           PUBLISH_EPISODE |-> {"publishing", "completed"}, other |-> {}]

\* The same of a step that fails: a script whose failure is noted is reset to
\* DRAFT unless its commit failed, a line that fails leaves GENERATING_AUDIO, a
\* platform that is unavailable PUBLISHING.
LeavesFailing == [PLAN_EPISODE |-> {}, GENERATE_SCRIPT |-> {"generating", "draft"},
                  GENERATE_AUDIO |-> {"generating"}, PROCESS_AUDIO |-> {"failed"},
                  PUBLISH_EPISODE |-> {"publishing", "failed"}, other |-> {}]

\* The status after step s, which may have failed before any save.
EpisodeAfter(s, saved) == {episode} \cup saved[StepType[s]]

AdapterSucceeds(c) ==
  /\ call[c].pc = "adapter"
  /\ SaveStatus(c, "succeeded", "output")
  /\ episode' \in EpisodeAfter(call[c].step, Leaves)
  /\ UNCHANGED <<run, enabled>>

AdapterFails(c) ==
  /\ call[c].pc = "adapter"
  /\ SaveStatus(c, "failed", "error")
  /\ episode' \in EpisodeAfter(call[c].step, LeavesFailing)
  /\ UNCHANGED <<run, enabled>>

\* _maybe_attach_episode looks at the context, which has the output of every
\* planning step that succeeded; a plan may also name no episode.
RecordOutput(c) ==
  /\ call[c].pc = "output"
  /\ \E attached \in {call[c].attached,
                      In({"succeeded"}) \cap Planning # {}} :
       /\ call[c].attached => attached
       /\ run' = [run EXCEPT !.attached = attached, !.progress = Pct]
       /\ call' = [call EXCEPT ![c].attached = attached, ![c].pc = "loop"]
  /\ UNCHANGED <<step, enabled, episode>>

\* Mutant: the retry is not counted.
RetryInLoopUncounted(c) ==
  /\ call[c].pc = "error"
  /\ call[c].copy.retries < RetryLimit
  /\ IF MayStep(call[c].copy.status, "retrying")
     THEN SaveRetry(c, call[c].copy.retries)
     ELSE Leave(c) /\ UNCHANGED step
  /\ run' = [run EXCEPT !.error = TRUE]
  /\ UNCHANGED <<enabled, episode>>

\* A step that failed before it was RUNNING cannot become RETRYING: the
\* WorkflowStateError leaves the engine.
RetryInLoop(c) ==
  /\ call[c].pc = "error"
  /\ call[c].copy.retries < RetryLimit
  /\ IF MayStep(call[c].copy.status, "retrying")
     THEN SaveRetry(c, call[c].copy.retries + 1)
     ELSE Leave(c) /\ UNCHANGED step
  /\ run' = [run EXCEPT !.error = TRUE]
  /\ UNCHANGED <<enabled, episode>>

FailRun(c) ==
  /\ call[c].pc = "error"
  /\ call[c].copy.retries >= RetryLimit
  /\ IF May(call[c].run, "failed")
     THEN /\ run' = [run EXCEPT !.status = "failed", !.error = TRUE]
          /\ call' = [call EXCEPT ![c].run = "failed", ![c].pc = "failed"]
     ELSE /\ run' = [run EXCEPT !.error = TRUE]
          /\ Leave(c)
  /\ UNCHANGED <<step, enabled, episode>>

\* Mutant: only an episode that this call has moved is failed.
SyncFailedIfMoved(c) ==
  /\ call[c].pc = "failed"
  /\ episode' = IF call[c].episode = "unread" THEN episode ELSE "failed"
  /\ Return(c)
  /\ UNCHANGED <<run, step, enabled>>

\* on_workflow_failed.
SyncFailed(c) ==
  /\ call[c].pc = "failed"
  /\ episode' = IF call[c].attached THEN "failed" ELSE episode
  /\ Return(c)
  /\ UNCHANGED <<run, step, enabled>>

\* Mutant: the error message of an earlier attempt is kept.
CompleteRunKeepingError(c) ==
  /\ call[c].pc = "complete"
  /\ IF In(SettledStatuses) = Steps
     THEN /\ run' = [run EXCEPT !.status = "succeeded", !.progress = 100]
          /\ call' = [call EXCEPT ![c].run = "succeeded", ![c].pc = "succeeded"]
     ELSE Return(c) /\ UNCHANGED run
  /\ UNCHANGED <<step, enabled, episode>>

\* Mutant: an empty loop is taken for a complete run.
CompleteRunAtOnce(c) ==
  /\ call[c].pc = "complete"
  /\ run' = [run EXCEPT !.status = "succeeded", !.progress = 100,
                        !.error = FALSE]
  /\ call' = [call EXCEPT ![c].run = "succeeded", ![c].pc = "succeeded"]
  /\ UNCHANGED <<step, enabled, episode>>

\* _complete_run gives up silently when a step is not settled.
CompleteRun(c) ==
  /\ call[c].pc = "complete"
  /\ IF In(SettledStatuses) = Steps
     THEN /\ run' = [run EXCEPT !.status = "succeeded", !.progress = 100,
                                !.error = FALSE]
          /\ call' = [call EXCEPT ![c].run = "succeeded", ![c].pc = "succeeded"]
     ELSE Return(c) /\ UNCHANGED run
  /\ UNCHANGED <<step, enabled, episode>>

\* on_workflow_succeeded saves nothing when its object already says COMPLETED.
SyncSucceeded(c) ==
  /\ call[c].pc = "succeeded"
  /\ episode' = IF call[c].attached /\ call[c].episode # "completed"
                THEN "completed" ELSE episode
  /\ Return(c)
  /\ UNCHANGED <<run, step, enabled>>

-----------------------------------------------------------------------------
(* The environment.                                                        *)

Crash(c) ==
  /\ "crash" \in Faults
  /\ call[c].pc # "idle"
  /\ Leave(c)
  /\ UNCHANGED <<run, step, enabled, episode>>

Toggle(s) ==
  /\ "disable" \in Faults
  /\ enabled' = [enabled EXCEPT ![s] = ~@]
  /\ UNCHANGED <<run, step, episode, call>>

\* What a call does once it is under way.
Advance(c) ==
  \/ Queue(c) \/ SetRunning(c)
  \/ SavePaused(c) \/ SaveCancelled(c) \/ CancelSteps(c) \/ SaveSkipped(c)
  \/ SaveRetrying(c) \/ ResetStep(c)
  \/ SaveStepRetrying(c) \/ SaveRunRetrying(c)
  \/ Pick(c) \/ LeaveLoop(c) \/ SkipDisabled(c)
  \/ RefuseStep(c) \/ StartStep(c) \/ SyncStarted(c)
  \/ AdapterSucceeds(c) \/ AdapterFails(c) \/ RecordOutput(c)
  \/ RetryInLoop(c) \/ FailRun(c) \/ SyncFailed(c)
  \/ CompleteRun(c) \/ SyncSucceeded(c)

Control(c) ==
  \/ PauseRun(c) \/ CancelRun(c)
  \/ \E s \in Steps : SkipStep(c, s)

Execute(c) ==
  \/ StartRun(c) \/ ExecuteRun(c) \/ ResumeRun(c) \/ RetryWorkflow(c)
  \/ \E s \in Steps : RetryStep(c, s)

Next ==
  \/ \E c \in Callers : Advance(c) \/ Control(c) \/ Crash(c)
  \/ \E c \in Callers \ Controllers : Execute(c)
  \/ \E s \in Steps : Toggle(s)

Spec == Init /\ [][Next]_vars

\* A call is straight-line Python: it goes on until it ends.  Nobody has to
\* make a call.
FairSpec == Spec /\ \A c \in Callers : WF_vars(Advance(c))

-----------------------------------------------------------------------------
(* Properties.                                                             *)

Quiet == \A c \in Callers : call[c].pc = "idle"

\* execute_run works "until completion or failure": the run it returns has
\* succeeded or failed (engine.py:110).
ExecutionEnds ==
  \A c \in Callers : call[c].pc = "idle" /\ call[c].executed
                       => call[c].run \in {"succeeded", "failed"}

\* A step's failure that the run reports has failed the run: when no call is
\* at work, an error message belongs to a failed (or cancelled) run.
FailureIsRecorded ==
  Quiet /\ run.error => run.status \in {"failed", "cancelled"}

\* A failed run has a failed step, which retry_step and retry_workflow need,
\* unless that step was optional and has been skipped afterwards: skip_step
\* does not look at the run, which is then beyond any retry.
FailedRunsCanBeRetried ==
  Quiet /\ run.status = "failed" =>
    In({"failed"}) # {} \/ Optional \cap In({"skipped"}) # {}

\* The episode of a run that has ended agrees with it: COMPLETED for a success,
\* FAILED for a failure, although the services behind the adapters leave it
\* DRAFT, GENERATING or PUBLISHING and on_workflow_succeeded looks at its own
\* object only, which still says what the last step made of it at its start.
EpisodeAgrees ==
  Quiet /\ run.attached =>
    /\ run.status = "succeeded" => episode = "completed"
    /\ run.status = "failed" => episode = "failed"

\* When a call has returned, the run has come to an end, says so in its row,
\* the episode agrees, and a failure can be retried.
RunsEndAsTheySay ==
  TypeOK /\ ExecutionEnds /\ FailureIsRecorded /\ FailedRunsCanBeRetried /\ EpisodeAgrees

\* No interleaving of calls, nor a crash between them, takes a step beyond
\* its retry limit, although each call counts on a copy of its own.
RetriesWithinLimit == \A s \in Steps : step[s].retries <= RetryLimit

\* A run that succeeded has no step left to execute, to fail or to finish,
\* also when a cancellation arrives while it is being completed.
SucceededMeansSettled ==
  run.status = "succeeded" => In(SettledStatuses) = Steps

\* Whatever the controllers do meanwhile, and wherever the executor crashed
\* before, it starts no step while an earlier one is still to be executed.
StepsInSequence ==
  \A c \in Callers : call[c].pc \in {"started", "adapter"} =>
    \A s \in Executable : s > call[c].step

\* Two callers, controllers and crashes never break what one caller keeps: the
\* budget of retries, the meaning of a success, the order of the steps.
StepsStayLegal == RetriesWithinLimit /\ SucceededMeansSettled /\ StepsInSequence

\* Every engine call ends: the retries of a failing step run out.
CallsEnd == \A c \in Callers : call[c].pc # "idle" ~> call[c].pc = "idle"

Contract == INSTANCE WorkflowContract
  WITH run <- run.status,
       step <- [s \in Steps |-> step[s].status]

\* The rows of the run and its steps, written by one process at a time, do
\* what WorkflowContract says: legal moves, steps in sequence and one at a
\* time, success only when every step is settled.
ImplementsContract == Contract!ContractSpec

=============================================================================

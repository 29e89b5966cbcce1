------------------------ MODULE WorkflowEngineProofs ------------------------
(***************************************************************************)
(* Theorems about WorkflowEngine, for every number of steps, every retry   *)
(* limit and every choice of optional, planning, working and finishing     *)
(* steps.                                                                  *)
(***************************************************************************)
EXTENDS WorkflowEngine, FiniteSetTheorems, WellFoundedInduction, TLAPS

-----------------------------------------------------------------------------
(* Steps.                                                                  *)

\* What a step may make of the episode.
LEMMA StagesAre ==
  ASSUME NEW s \in Steps
  PROVE  /\ StageOf(s) \in EpisodeStatus \cup {"none"}
         /\ Leaves[StepType[s]] \subseteq EpisodeStatus
         /\ LeavesFailing[StepType[s]] \subseteq EpisodeStatus
         /\ StageOf(s) = "none" =>
              Leaves[StepType[s]] = {} /\ LeavesFailing[StepType[s]] = {}
         /\ StageOf(s) = "completed" => Leaves[StepType[s]] = {"completed"}
<1>1. StepType[s] \in StepTypes BY WorkflowAssumption
<1>2. QED BY <1>1 DEF StepTypes, StageOf, STEP_EPISODE_STATUS, Leaves, LeavesFailing, EpisodeStatus

\* The least of some steps is one of them.
LEMMA MinStep ==
  ASSUME NEW S \in SUBSET Steps, S # {}
  PROVE  Min(S) \in S /\ \A s \in S : Min(S) <= s
<1>1. S \subseteq Nat BY WorkflowAssumption DEF Steps
<1> DEFINE R == {p \in Nat \X Nat : p[1] < p[2]}
<1>2. IsWellFoundedOn(R, Nat) BY NatLessThanWellFounded DEF OpToRel
<1>3. \E x \in S : \A y \in S : x =< y
  <2>1. PICK x \in S : \A y \in S : ~ (<<y, x>> \in R)
    <3> HIDE DEF R
    <3>1. QED BY <1>1, <1>2, WFMin, Zenon
  <2>2. ASSUME NEW y \in S PROVE x =< y
    <3>1. x \in Nat /\ y \in Nat /\ <<y, x>> \notin R BY <1>1, <2>1
    <3>2. ~ (y < x) BY <3>1
    <3>3. QED BY <3>1, <3>2
  <2>3. QED BY <2>2
<1>4. QED BY <1>3 DEF Min

\* The progress written after a step is a percentage.
LEMMA PctType == step \in [Steps -> Step] => Pct \in 0..100
<1> SUFFICES ASSUME step \in [Steps -> Step] PROVE Pct \in 0..100
  OBVIOUS
<1> DEFINE k == Cardinality(In({"succeeded"}))
<1>1. In({"succeeded"}) \in SUBSET Steps BY DEF In
<1>2. IsFiniteSet(Steps) /\ Cardinality(Steps) = NumSteps
  BY WorkflowAssumption, FS_Interval DEF Steps
<1>3. k \in Nat /\ k <= NumSteps BY <1>1, <1>2, FS_Subset, FS_CardinalityType
<1>4. NumSteps \in Nat /\ NumSteps > 0 BY WorkflowAssumption
<1> HIDE DEF k
<1>5. (100 * k) \div NumSteps \in 0..100 BY <1>3, <1>4, SMT
<1>6. QED BY <1>5 DEF Pct, k

-----------------------------------------------------------------------------
(* Types.                                                                  *)

\* The two halves of TypeOK.
CallsTyped ==
  /\ call \in [Callers -> Call]
  /\ \A c \in Callers : call[c].pc \in SteppingPc => call[c].step \in Steps

RowsTyped ==
  /\ run \in Run
  /\ step \in [Steps -> Step]
  /\ enabled \in [Steps -> BOOLEAN]
  /\ episode \in EpisodeStatus

\* The record of a caller without a call has the type of a call.
LEMMA NoCallType == NoCall \in Call /\ NoCall.pc \notin SteppingPc /\ NewStep \in Step
  BY DEF NoCall, Call, CallPc, SteppingPc, WorkflowStatus, NewStep, Step

\* A call replaced by a call.
LEMMA CallSet ==
  ASSUME CallsTyped, NEW c \in Callers, NEW k \in Call,
         k.pc \in SteppingPc => k.step \in Steps,
         call' = [call EXCEPT ![c] = k]
  PROVE  CallsTyped'
  BY DEF CallsTyped

\* The ways a call goes on or ends keep the calls typed.
LEMMA GotoType ==
  ASSUME CallsTyped, NEW c \in Callers, NEW pc \in CallPc, Goto(c, pc),
         pc \in SteppingPc => call[c].step \in Steps
  PROVE  CallsTyped'
<1>1. [call[c] EXCEPT !.pc = pc] \in Call BY DEF CallsTyped, Call
<1>2. [call[c] EXCEPT !.pc = pc].pc = pc /\ [call[c] EXCEPT !.pc = pc].step = call[c].step
  BY DEF CallsTyped, Call
<1>3. QED BY <1>1, <1>2, CallSet DEF Goto, CallsTyped

\* An exception leaves the engine.
LEMMA LeaveType ==
  ASSUME CallsTyped, NEW c \in Callers, Leave(c)
  PROVE  CallsTyped'
  BY NoCallType, CallSet DEF Leave

\* execute_run returns the run object.
LEMMA ReturnType ==
  ASSUME CallsTyped, NEW c \in Callers, Return(c)
  PROVE  CallsTyped'
<1> DEFINE k == [NoCall EXCEPT !.run = call[c].run, !.executed = TRUE]
<1>1. k \in Call /\ k.pc \notin SteppingPc BY NoCallType DEF CallsTyped, Call, NoCall
<1>2. QED BY <1>1, CallSet DEF Return

\* A call enters the engine with a run, or with a step run.
LEMMA EnterType ==
  ASSUME CallsTyped, RowsTyped, NEW c \in Callers, NEW pc \in CallPc \ SteppingPc,
         Enter(c, pc)
  PROVE  CallsTyped' /\ RowsTyped'
<1> DEFINE k == [NoCall EXCEPT !.pc = pc, !.run = run.status, !.attached = run.attached]
<1>1. k \in Call /\ k.pc \notin SteppingPc BY NoCallType DEF RowsTyped, Run, Call, NoCall
<1>2. QED BY <1>1, CallSet DEF Enter, RowsTyped

\* The step run a call enters with is its row.
LEMMA EnterStepType ==
  ASSUME CallsTyped, RowsTyped, NEW c \in Callers, NEW pc \in SteppingPc,
         NEW s \in Steps, EnterStep(c, pc, s)
  PROVE  CallsTyped' /\ RowsTyped'
<1> DEFINE k == [NoCall EXCEPT !.pc = pc, !.step = s, !.copy = step[s]]
<1>1. k \in Call /\ k.step = s BY NoCallType DEF RowsTyped, Call, NoCall, CallPc
<1>2. QED BY <1>1, CallSet DEF EnterStep, RowsTyped

\* The saves of a step run object.
LEMMA SaveStatusType ==
  ASSUME CallsTyped, NEW c \in Callers, NEW status \in WorkflowStatus,
         NEW pc \in CallPc, SaveStatus(c, status, pc), step \in [Steps -> Step],
         call[c].pc \in SteppingPc
  PROVE  CallsTyped' /\ step' \in [Steps -> Step]
<1> DEFINE cp == [call[c].copy EXCEPT !.status = status]
           k == [call[c] EXCEPT !.copy = cp, !.pc = pc]
<1>1. call[c] \in Call /\ call[c].copy \in Step /\ call[c].step \in Steps BY DEF CallsTyped, Call
<1>2. cp \in Step BY <1>1 DEF Step
<1>3. k \in Call /\ k.step \in Steps BY <1>1, <1>2 DEF Call
<1>4. call' = [call EXCEPT ![c] = k] BY <1>1 DEF SaveStatus, CallsTyped, Call
<1>5. [step[call[c].step] EXCEPT !.status = status] \in Step BY <1>1 DEF Step
<1> HIDE DEF k
<1>6. CallsTyped' BY <1>3, <1>4, CallSet
<1>7. step' \in [Steps -> Step] BY <1>5 DEF SaveStatus
<1>8. QED BY <1>6, <1>7

\* A step run object saved RETRYING.
LEMMA SaveRetryType ==
  ASSUME CallsTyped, NEW c \in Callers, NEW n \in Nat,
         SaveRetry(c, n), step \in [Steps -> Step]
  PROVE  CallsTyped' /\ step' \in [Steps -> Step]
<1>1. CallsTyped' BY GotoType DEF SaveRetry, CallPc, SteppingPc
<1>2. [status |-> "retrying", retries |-> n] \in Step BY DEF Step, WorkflowStatus
<1>3. QED BY <1>1, <1>2 DEF SaveRetry

\* The run row and the run object written together.
LEMMA RunSet ==
  ASSUME run \in Run, NEW status \in WorkflowStatus
  PROVE  /\ [run EXCEPT !.status = status] \in Run
         /\ [run EXCEPT !.status = status, !.error = FALSE] \in Run
         /\ [run EXCEPT !.status = status, !.error = TRUE] \in Run
         /\ [run EXCEPT !.error = TRUE] \in Run
         /\ [run EXCEPT !.status = status, !.progress = 100, !.error = FALSE] \in Run
<1>1. 100 \in 0..100
  OBVIOUS
<1>2. QED BY <1>1, Zenon DEF Run

\* The run object is given its new status.
LEMMA CallRunSet ==
  ASSUME CallsTyped, NEW c \in Callers, NEW status \in WorkflowStatus,
         NEW pc \in CallPc \ SteppingPc,
         call' = [call EXCEPT ![c].run = status, ![c].pc = pc]
  PROVE  CallsTyped'
<1> DEFINE k == [call[c] EXCEPT !.run = status, !.pc = pc]
<1>1. k \in Call /\ k.pc \notin SteppingPc BY DEF CallsTyped, Call
<1>2. call' = [call EXCEPT ![c] = k] BY DEF CallsTyped, Call
<1> HIDE DEF k
<1>3. QED BY <1>1, <1>2, CallSet

\* Entering the engine writes no row.
LEMMA ControlType ==
  ASSUME CallsTyped, RowsTyped, NEW c \in Callers, Control(c) \/ Execute(c)
  PROVE  CallsTyped' /\ RowsTyped'
<1>1. {"queue", "run", "loop", "pause", "cancel", "retry"} \subseteq CallPc \ SteppingPc
  BY DEF CallPc, SteppingPc
<1>2. "skip" \in SteppingPc /\ "retryStep" \in SteppingPc BY DEF SteppingPc
<1>3. CASE Control(c)
  BY <1>1, <1>2, <1>3, EnterType, EnterStepType DEF Control, PauseRun, CancelRun, SkipStep
<1>4. CASE Execute(c)
  BY <1>1, <1>2, <1>4, EnterType, EnterStepType DEF Execute, StartRun, ExecuteRun, ResumeRun,
     RetryWorkflow, RetryStep
<1>5. QED BY <1>3, <1>4

\* Every round trip of a call keeps rows and calls typed.
LEMMA AdvanceType ==
  ASSUME CallsTyped, RowsTyped, NEW c \in Callers, Advance(c)
  PROVE  CallsTyped' /\ RowsTyped'
<1>1. /\ call[c] \in Call /\ call[c].copy \in Step /\ call[c].todo \subseteq Steps
      /\ run \in Run /\ step \in [Steps -> Step]
      /\ enabled \in [Steps -> BOOLEAN] /\ episode \in EpisodeStatus
      /\ call[c].pc \in SteppingPc => call[c].step \in Steps
  BY DEF CallsTyped, RowsTyped, Call
<1>2. {"idle", "queue", "run", "loop", "complete", "succeeded", "failed", "pause",
       "cancel", "cancelSteps", "retry", "reset", "retryRun"} \subseteq CallPc \ SteppingPc
  BY DEF CallPc, SteppingPc
<1>3. {"picked", "disabled", "started", "adapter", "error", "output", "retryStep", "skip"}
        \subseteq SteppingPc
      /\ SteppingPc \subseteq CallPc
  BY DEF CallPc, SteppingPc
<1>4. WorkflowStatus = {"pending", "queued", "running", "paused", "succeeded",
                   "failed", "cancelled", "retrying", "skipped"}
  BY DEF WorkflowStatus
<1>5. \A s \in Steps : \A x \in WorkflowStatus :
        /\ [step EXCEPT ![s].status = x] \in [Steps -> Step]
        /\ [step[s] EXCEPT !.status = x] \in Step
  BY <1>1 DEF Step
<1>6. CASE Queue(c) BY <1>1, <1>2, <1>4, <1>6, RunSet, CallRunSet DEF Queue, RowsTyped
<1>7. CASE SetRunning(c) BY <1>1, <1>2, <1>4, <1>7, RunSet, CallRunSet DEF SetRunning, RowsTyped
<1>8. CASE SavePaused(c) BY <1>1, <1>4, <1>8, RunSet, LeaveType DEF SavePaused, RowsTyped
<1>9. CASE SaveCancelled(c)
  BY <1>1, <1>2, <1>4, <1>9, RunSet, CallRunSet DEF SaveCancelled, RowsTyped
<1>10. CASE CancelSteps(c) BY <1>1, <1>4, <1>5, <1>10, LeaveType DEF CancelSteps, RowsTyped
<1>11. CASE SaveSkipped(c) BY <1>1, <1>3, <1>4, <1>5, <1>11, LeaveType DEF SaveSkipped, RowsTyped
<1>12. CASE SaveRetrying(c)
  <2> DEFINE k == [call[c] EXCEPT !.run = "retrying", !.pc = "reset", !.todo = In({"failed"})]
  <2>1. k \in Call /\ k.pc \notin SteppingPc BY <1>1, <1>2, <1>4 DEF Call, In
  <2>2. call' = [call EXCEPT ![c] = k] BY <1>1, <1>12 DEF SaveRetrying, CallsTyped, Call
  <2> HIDE DEF k
  <2>3. QED BY <1>1, <1>4, <1>12, <2>1, <2>2, RunSet, CallSet DEF SaveRetrying, RowsTyped
<1>13. CASE ResetStep(c)
  <2>1. CASE call[c].todo = {} BY <1>1, <1>2, <1>13, <2>1, GotoType DEF ResetStep, RowsTyped
  <2>2. CASE call[c].todo # {}
    <3>1. PICK s \in call[c].todo : s = Min(call[c].todo) BY <1>1, <2>2, MinStep
    <3> DEFINE k == [call[c] EXCEPT !.todo = call[c].todo \ {s}]
    <3>2. k \in Call /\ k.pc \notin SteppingPc BY <1>1, <1>2, <1>13 DEF ResetStep, Call
    <3>3. call' = [call EXCEPT ![c] = k] /\ step' = [step EXCEPT ![s].status = "pending"]
      BY <1>1, <1>13, <2>2, <3>1 DEF ResetStep, CallsTyped, Call
    <3> HIDE DEF k
    <3>4. QED BY <1>1, <1>4, <1>5, <1>13, <3>2, <3>3, CallSet DEF ResetStep, RowsTyped
  <2>3. QED BY <2>1, <2>2
<1>14. CASE SaveStepRetrying(c)
  <2> DEFINE k == [NoCall EXCEPT !.pc = "retryRun",
                     !.run = run.status, !.attached = run.attached]
  <2>1. k \in Call /\ k.pc \notin SteppingPc BY <1>1, <1>2, NoCallType DEF Run, Call, NoCall
  <2>2. [status |-> "retrying", retries |-> call[c].copy.retries + 1] \in Step
    BY <1>1, <1>4 DEF Step
  <2>3. QED BY <1>1, <1>14, <2>1, <2>2, CallSet DEF SaveStepRetrying, RowsTyped
<1>15. CASE SaveRunRetrying(c)
  BY <1>1, <1>2, <1>4, <1>15, RunSet, CallRunSet, LeaveType DEF SaveRunRetrying, RowsTyped
<1>16. CASE Pick(c)
  <2>1. PICK s \in Executable : s = Min(Executable) BY <1>16, MinStep DEF Pick, Executable, In
  <2> DEFINE pc == IF enabled[s] THEN "picked" ELSE "disabled"
             k == [call[c] EXCEPT !.step = s, !.copy = step[s], !.pc = pc]
  <2>2. s \in Steps /\ step[s] \in Step /\ pc \in SteppingPc BY <1>1, <1>3, <2>1 DEF Executable, In
  <2>3. k \in Call /\ k.step \in Steps BY <1>1, <1>3, <2>2 DEF Call
  <2>4. call' = [call EXCEPT ![c] = k] BY <1>1, <1>16, <2>1 DEF Pick, CallsTyped, Call
  <2> HIDE DEF k
  <2>5. QED BY <1>1, <1>16, <2>3, <2>4, CallSet DEF Pick, RowsTyped
<1>17. CASE LeaveLoop(c) BY <1>1, <1>2, <1>17, GotoType, ReturnType DEF LeaveLoop, RowsTyped
<1>18. CASE SkipDisabled(c)
  <2>1. CallsTyped' BY <1>2, <1>18, GotoType, LeaveType DEF SkipDisabled
  <2>2. step' \in [Steps -> Step]
    <3>1. [step EXCEPT ![call[c].step].status = "skipped"] \in [Steps -> Step]
      BY <1>1, <1>3, <1>4, <1>5, <1>18 DEF SkipDisabled
    <3>2. QED BY <1>1, <1>18, <3>1 DEF SkipDisabled
  <2>3. QED BY <1>1, <1>18, <2>1, <2>2 DEF SkipDisabled, RowsTyped
<1>19. CASE RefuseStep(c) BY <1>1, <1>3, <1>19, GotoType DEF RefuseStep, RowsTyped
<1>20. CASE StartStep(c) BY <1>1, <1>3, <1>4, <1>20, SaveStatusType DEF StartStep, RowsTyped
<1>21. CASE SyncStarted(c)
  <2> DEFINE stage == StageOf(call[c].step)
  <2>1. stage \in EpisodeStatus \cup {"none"} BY <1>1, <1>21, StagesAre DEF SyncStarted, SteppingPc
  <2>2. CASE call[c].attached /\ stage # "none"
    <3> DEFINE k == [call[c] EXCEPT !.episode = stage, !.pc = "adapter"]
    <3>1. stage \in EpisodeStatus BY <2>1, <2>2
    <3>2. k \in Call /\ k.step \in Steps BY <1>1, <1>3, <1>21, <3>1 DEF SyncStarted, Call
    <3>3. call' = [call EXCEPT ![c] = k] BY <1>1, <1>21, <2>2 DEF SyncStarted, CallsTyped, Call
    <3> HIDE DEF k
    <3>4. QED BY <1>1, <1>21, <2>2, <3>1, <3>2, <3>3, CallSet DEF SyncStarted, RowsTyped
  <2>3. CASE ~ (call[c].attached /\ stage # "none")
    BY <1>1, <1>3, <1>21, <2>3, GotoType DEF SyncStarted, RowsTyped
  <2>4. QED BY <2>2, <2>3
<1>22. CASE AdapterSucceeds(c)
  <2>1. episode' \in EpisodeStatus
    BY <1>1, <1>22, StagesAre DEF AdapterSucceeds, EpisodeAfter, SteppingPc
  <2>2. QED BY <1>1, <1>3, <1>4, <1>22, <2>1, SaveStatusType DEF AdapterSucceeds, RowsTyped
<1>23. CASE AdapterFails(c)
  <2>1. episode' \in EpisodeStatus
    BY <1>1, <1>23, StagesAre DEF AdapterFails, EpisodeAfter, SteppingPc
  <2>2. QED BY <1>1, <1>3, <1>4, <1>23, <2>1, SaveStatusType DEF AdapterFails, RowsTyped
<1>24. CASE RecordOutput(c)
  <2>1. PICK attached \in BOOLEAN :
          /\ run' = [run EXCEPT !.attached = attached, !.progress = Pct]
          /\ call' = [call EXCEPT ![c].attached = attached, ![c].pc = "loop"]
    BY <1>1, <1>24 DEF RecordOutput, Call
  <2> DEFINE k == [call[c] EXCEPT !.attached = attached, !.pc = "loop"]
  <2>2. k \in Call /\ k.pc \notin SteppingPc BY <1>1, <1>2 DEF Call
  <2>3. call' = [call EXCEPT ![c] = k] BY <1>1, <2>1 DEF CallsTyped, Call
  <2>4. run' \in Run BY <1>1, <2>1, PctType DEF Run
  <2> HIDE DEF k
  <2>5. QED BY <1>1, <1>24, <2>2, <2>3, <2>4, CallSet DEF RecordOutput, RowsTyped
<1>25. CASE RetryInLoop(c)
  <2>1. call[c].copy.retries + 1 \in Nat BY <1>1 DEF Step
  <2>2. QED BY <1>1, <1>4, <1>25, <2>1, RunSet, SaveRetryType, LeaveType DEF RetryInLoop, RowsTyped
<1>26. CASE FailRun(c)
  BY <1>1, <1>2, <1>4, <1>26, RunSet, CallRunSet, LeaveType DEF FailRun, RowsTyped
<1>27. CASE SyncFailed(c) BY <1>1, <1>27, ReturnType DEF SyncFailed, RowsTyped, EpisodeStatus
<1>28. CASE CompleteRun(c)
  BY <1>1, <1>2, <1>4, <1>28, RunSet, CallRunSet, ReturnType DEF CompleteRun, RowsTyped
<1>29. CASE SyncSucceeded(c) BY <1>1, <1>29, ReturnType DEF SyncSucceeded, RowsTyped, EpisodeStatus
<1>30. QED BY <1>6, <1>7, <1>8, <1>9, <1>10, <1>11, <1>12, <1>13, <1>14, <1>15, <1>16,
     <1>17, <1>18, <1>19, <1>20, <1>21, <1>22, <1>23, <1>24, <1>25, <1>26, <1>27,
     <1>28, <1>29 DEF Advance

\* Every step of the system keeps the types.
LEMMA TypeStep == TypeOK /\ [Next]_vars => TypeOK'
<1>1. TypeOK <=> CallsTyped /\ RowsTyped BY DEF TypeOK, CallsTyped, RowsTyped
<1>2. TypeOK' <=> CallsTyped' /\ RowsTyped' BY DEF TypeOK, CallsTyped, RowsTyped
<1> SUFFICES ASSUME CallsTyped, RowsTyped, [Next]_vars PROVE CallsTyped' /\ RowsTyped' BY <1>1, <1>2
<1>3. CASE UNCHANGED vars BY <1>3 DEF vars, CallsTyped, RowsTyped
<1>4. ASSUME NEW c \in Callers, Advance(c) PROVE CallsTyped' /\ RowsTyped' BY <1>4, AdvanceType
<1>5. ASSUME NEW c \in Callers, Control(c) \/ Execute(c) PROVE CallsTyped' /\ RowsTyped'
  BY <1>5, ControlType
<1>6. ASSUME NEW c \in Callers, Crash(c) PROVE CallsTyped' /\ RowsTyped'
  BY <1>6, LeaveType DEF Crash, RowsTyped
<1>7. ASSUME NEW s \in Steps, Toggle(s) PROVE CallsTyped' /\ RowsTyped'
  BY <1>7 DEF Toggle, CallsTyped, RowsTyped
<1>8. QED BY <1>3, <1>4, <1>5, <1>6, <1>7 DEF Next

\* The rows and the calls have their types, whoever calls and whatever fails.
THEOREM WorkflowTypes == Spec => []TypeOK
<1>1. Init => TypeOK
  <2> SUFFICES ASSUME Init PROVE TypeOK
    OBVIOUS
  <2>1. 0 \in 0..100 /\ "pending" \in WorkflowStatus BY DEF WorkflowStatus
  <2>2. run \in Run BY <2>1 DEF Init, Run
  <2>3. \A c \in Callers : call[c] = NoCall BY DEF Init
  <2>4. QED BY <2>2, <2>3, NoCallType DEF Init, TypeOK, EpisodeStatus
<1>2. QED BY <1>1, TypeStep, PTL DEF Spec

-----------------------------------------------------------------------------
(* The budget of retries, the meaning of success, the order of the steps:  *)
(* one process executes, any number of controllers, any faults.            *)

\* Where a controller's call can be.
ControlPc == {"idle", "pause", "cancel", "cancelSteps", "skip"}

\* The counts: rows and copies within the limit, a copy about to be counted
\* up below it.
Budget ==
  /\ RetriesWithinLimit
  /\ \A c \in Callers : /\ call[c].copy.retries <= RetryLimit
                        /\ call[c].pc = "retryStep" => call[c].copy.retries < RetryLimit

\* Controllers only control.
Roles == \A c \in Controllers : call[c].pc \in ControlPc

\* A run that succeeded is over for the executor.
Meaning == run.status = "succeeded" =>
  /\ In(SettledStatuses) = Steps
  /\ \A c \in Callers \ Controllers : call[c].pc \in {"idle", "succeeded"}

\* No step before the one in hand is executable, nor that one once started.
Order == \A c \in Callers :
  /\ call[c].pc \in {"picked", "disabled"} => \A s \in Executable : call[c].step <= s
  /\ call[c].pc \in {"started", "adapter"} => \A s \in Executable : call[c].step < s

\* The inductive invariant behind StepsStayLegal.
Legal == Budget /\ Roles /\ Meaning /\ Order

\* What a step of a call may make of the step rows.
StepRows(c) ==
  \/ step' = step
  \/ /\ call[c].pc \in {"cancelSteps", "skip", "disabled"}
     /\ \A s \in Steps : /\ step'[s].retries = step[s].retries
                         /\ \/ step'[s].status = step[s].status
                            \/ step'[s].status \in {"skipped", "cancelled"}
  \/ /\ call[c].pc = "reset"
     /\ \A s \in Steps : step'[s].retries = step[s].retries
  \/ /\ call[c].pc \in {"picked", "adapter"}
     /\ step'[call[c].step].status \in {"running", "succeeded", "failed"}
     /\ step'[call[c].step].retries = step[call[c].step].retries
     /\ \A s \in Steps : s # call[c].step => step'[s] = step[s]
  \/ /\ \/ call[c].pc = "retryStep"
        \/ call[c].pc = "error" /\ call[c].copy.retries < RetryLimit
     /\ step'[call[c].step].retries = call[c].copy.retries + 1
     /\ \A s \in Steps : s # call[c].step => step'[s] = step[s]

\* Where it may lead the call.
NextCall(c) ==
  /\ \A b \in Callers \ {c} : call'[b] = call[b]
  /\ call[c].pc # "idle" /\ call'[c].pc # "retryStep"
  /\ \/ call'[c].copy.retries \in {0, call[c].copy.retries}
     \/ \E s \in Steps : call'[c].copy.retries = step[s].retries
  /\ call'[c].pc \in {"picked", "disabled"} =>
       call[c].pc = "loop" /\ step' = step /\ \A s \in Executable : call'[c].step <= s
  /\ call'[c].pc = "started" =>
       /\ call[c].pc = "picked" /\ call'[c].step = call[c].step
       /\ step'[call[c].step].status = "running"
  /\ call'[c].pc = "adapter" =>
       call[c].pc = "started" /\ call'[c].step = call[c].step /\ step' = step
  /\ call[c].pc \in ControlPc => call'[c].pc \in ControlPc
  /\ call[c].pc = "succeeded" => call'[c].pc = "idle" /\ step' = step

\* How it may end the run with success.
RunRow(c) ==
  run'.status = "succeeded" =>
    \/ run.status = "succeeded"
    \/ /\ call[c].pc = "complete" /\ call'[c].pc = "succeeded" /\ step' = step
       /\ In(SettledStatuses) = Steps

\* What a round trip may do.
AdvanceGoal(c) == StepRows(c) /\ NextCall(c) /\ RunRow(c)

\* A caller without a call holds a fresh copy.
LEMMA NoCallFacts == NoCall.pc = "idle" /\ NoCall.copy.retries = 0
  BY DEF NoCall, NewStep

\* What Goto, Leave and Return make of the calls.
LEMMA GotoFacts ==
  ASSUME CallsTyped, NEW c \in Callers, NEW pc, Goto(c, pc)
  PROVE  /\ \A b \in Callers \ {c} : call'[b] = call[b]
         /\ call'[c].pc = pc /\ call'[c].step = call[c].step
         /\ call'[c].copy = call[c].copy
  BY DEF Goto, CallsTyped, Call

\* A call that ends holds nothing.
LEMMA LeaveFacts ==
  ASSUME CallsTyped, NEW c \in Callers, Leave(c) \/ Return(c)
  PROVE  /\ \A b \in Callers \ {c} : call'[b] = call[b]
         /\ call'[c].pc = "idle" /\ call'[c].copy.retries = 0
<1>1. CASE Leave(c) BY <1>1, NoCallFacts DEF Leave, CallsTyped
<1>2. CASE Return(c)
  <2> DEFINE k == [NoCall EXCEPT !.run = call[c].run, !.executed = TRUE]
  <2>1. k.pc = "idle" /\ k.copy.retries = 0 BY DEF NoCall, NewStep
  <2>2. QED BY <1>2, <2>1 DEF Return, CallsTyped
<1>3. QED BY <1>1, <1>2

\* Every round trip does what AdvanceGoal allows.
LEMMA AdvanceEffect ==
  ASSUME CallsTyped, RowsTyped, NEW c \in Callers, Advance(c)
  PROVE  AdvanceGoal(c)
<1>1. /\ call[c] \in Call /\ call[c].copy \in Step /\ call[c].todo \subseteq Steps
      /\ run \in Run /\ step \in [Steps -> Step] /\ call \in [Callers -> Call]
      /\ call[c].pc \in SteppingPc => call[c].step \in Steps
  BY DEF CallsTyped, RowsTyped, Call
<1> USE DEF AdvanceGoal, ControlPc
<1>6. CASE Queue(c) \/ SetRunning(c) \/ SaveCancelled(c) \/ SaveRetrying(c)
  BY <1>1, <1>6 DEF Queue, SetRunning, SaveCancelled, SaveRetrying, StepRows, NextCall, RunRow,
     Call, Run
<1>8. CASE SavePaused(c) BY <1>1, <1>8, LeaveFacts DEF SavePaused, StepRows, NextCall, RunRow, Run
<1>10. CASE CancelSteps(c)
  BY <1>1, <1>10, LeaveFacts DEF CancelSteps, StepRows, NextCall, RunRow, Step
<1>11. CASE SaveSkipped(c)
  BY <1>1, <1>11, LeaveFacts DEF SaveSkipped, StepRows, NextCall, RunRow, Step
<1>13. CASE ResetStep(c)
  <2>1. CASE call[c].todo = {} BY <1>13, <2>1, GotoFacts DEF ResetStep, StepRows, NextCall, RunRow
  <2>2. CASE call[c].todo # {}
    <3>1. PICK s \in call[c].todo : s = Min(call[c].todo) BY <1>1, <2>2, MinStep
    <3>2. /\ call' = [call EXCEPT ![c].todo = @ \ {s}] /\ run' = run
          /\ step' = [step EXCEPT ![s].status = "pending"] /\ call[c].pc = "reset"
      BY <1>13, <2>2, <3>1 DEF ResetStep
    <3>3. \A t \in Steps : step'[t].retries = step[t].retries BY <1>1, <3>1, <3>2 DEF Step
    <3>4. /\ \A b \in Callers \ {c} : call'[b] = call[b]
          /\ call'[c].pc = "reset" /\ call'[c].copy = call[c].copy
      BY <1>1, <3>2 DEF Call
    <3>5. QED BY <3>2, <3>3, <3>4 DEF StepRows, NextCall, RunRow
  <2>3. QED BY <2>1, <2>2
<1>14. CASE SaveStepRetrying(c)
  <2>1. call[c].step \in Steps BY <1>1, <1>14 DEF SaveStepRetrying, SteppingPc
  <2>2. call'[c].pc = "retryRun" /\ call'[c].copy.retries = 0
        /\ \A b \in Callers \ {c} : call'[b] = call[b]
    BY <1>1, <1>14 DEF SaveStepRetrying, NoCall, NewStep
  <2>3. StepRows(c) BY <1>1, <1>14, <2>1 DEF SaveStepRetrying, StepRows
  <2>4. QED BY <1>14, <2>2, <2>3 DEF SaveStepRetrying, NextCall, RunRow
<1>15. CASE SaveRunRetrying(c)
  BY <1>1, <1>15, LeaveFacts DEF SaveRunRetrying, StepRows, NextCall, RunRow, Run, Call
<1>16. CASE Pick(c)
  <2>1. PICK s \in Executable : s = Min(Executable) /\ \A t \in Executable : s <= t
    BY <1>16, MinStep DEF Pick, Executable, In
  <2>2. s \in Steps BY <2>1 DEF Executable, In
  <2>3. /\ call'[c].step = s /\ call'[c].copy = step[s]
        /\ call'[c].pc \in {"picked", "disabled"}
        /\ \A b \in Callers \ {c} : call'[b] = call[b]
    BY <1>1, <1>16, <2>1 DEF Pick, Call
  <2>4. QED BY <1>16, <2>1, <2>2, <2>3 DEF Pick, StepRows, NextCall, RunRow
<1>17. CASE LeaveLoop(c) BY <1>17, GotoFacts, LeaveFacts DEF LeaveLoop, StepRows, NextCall, RunRow
<1>18. CASE SkipDisabled(c)
  BY <1>1, <1>18, GotoFacts, LeaveFacts DEF SkipDisabled, StepRows, NextCall, RunRow, Step
<1>19. CASE RefuseStep(c) BY <1>19, GotoFacts DEF RefuseStep, StepRows, NextCall, RunRow
<1>20. ASSUME NEW status \in {"running", "succeeded", "failed"}, NEW pc,
              SaveStatus(c, status, pc), call[c].pc \in {"picked", "adapter"}
       PROVE  /\ StepRows(c)
              /\ \A b \in Callers \ {c} : call'[b] = call[b]
              /\ call'[c].pc = pc /\ call'[c].step = call[c].step
              /\ call'[c].copy.retries = call[c].copy.retries
              /\ step'[call[c].step].status = status
  <2>1. call[c].step \in Steps BY <1>1, <1>20 DEF SteppingPc
  <2>2. QED BY <1>1, <1>20, <2>1 DEF SaveStatus, StepRows, Step, Call
<1>21. CASE StartStep(c) BY <1>20, <1>21 DEF StartStep, NextCall, RunRow
<1>22. CASE SyncStarted(c)
  <2>1. CASE Goto(c, "adapter")
    BY <1>22, <2>1, GotoFacts DEF SyncStarted, StepRows, NextCall, RunRow
  <2>2. CASE ~ Goto(c, "adapter")
    BY <1>1, <1>22, <2>2 DEF SyncStarted, StepRows, NextCall, RunRow, Call
  <2>3. QED BY <2>1, <2>2
<1>23. CASE AdapterSucceeds(c) \/ AdapterFails(c)
  BY <1>20, <1>23 DEF AdapterSucceeds, AdapterFails, NextCall, RunRow
<1>24. CASE RecordOutput(c) BY <1>1, <1>24 DEF RecordOutput, StepRows, NextCall, RunRow, Call, Run
<1>25. CASE RetryInLoop(c)
  <2>1. call[c].step \in Steps /\ run'.status = run.status
    BY <1>1, <1>25 DEF RetryInLoop, SteppingPc, Run
  <2>2. StepRows(c) BY <1>1, <1>25, <2>1 DEF RetryInLoop, SaveRetry, StepRows
  <2>3. QED BY <1>25, <2>1, <2>2, GotoFacts, LeaveFacts DEF RetryInLoop, SaveRetry, NextCall, RunRow
<1>26. CASE FailRun(c) BY <1>1, <1>26, LeaveFacts DEF FailRun, StepRows, NextCall, RunRow, Run, Call
<1>27. CASE SyncFailed(c) \/ SyncSucceeded(c)
  BY <1>27, LeaveFacts DEF SyncFailed, SyncSucceeded, StepRows, NextCall, RunRow
<1>28. CASE CompleteRun(c)
  <2>1. CASE Return(c) /\ run' = run
    BY <1>28, <2>1, LeaveFacts DEF CompleteRun, StepRows, NextCall, RunRow
  <2>2. CASE ~ (Return(c) /\ run' = run)
    BY <1>1, <1>28, <2>2 DEF CompleteRun, StepRows, NextCall, RunRow, Run, Call
  <2>3. QED BY <2>1, <2>2
<1>30. QED BY <1>6, <1>8, <1>10, <1>11, <1>13, <1>14, <1>15, <1>16,
     <1>17, <1>18, <1>19, <1>21, <1>22, <1>23, <1>24, <1>25, <1>26, <1>27,
     <1>28 DEF Advance

\* Entering the engine changes no row, and a run that succeeded is entered by nobody.
LEMMA EntryEffect ==
  ASSUME CallsTyped, RowsTyped, Budget, NEW c \in Callers, Control(c) \/ Execute(c)
  PROVE  /\ run' = run /\ step' = step
         /\ \A b \in Callers \ {c} : call'[b] = call[b]
         /\ call'[c].pc \notin {"picked", "disabled", "started", "adapter"}
         /\ call'[c].copy.retries <= RetryLimit
         /\ call'[c].pc = "retryStep" => call'[c].copy.retries < RetryLimit
         /\ Control(c) => call'[c].pc \in ControlPc
         /\ ~ (run.status = "succeeded" /\ In(SettledStatuses) = Steps)
<1>1. /\ call \in [Callers -> Call] /\ run \in Run /\ step \in [Steps -> Step]
      /\ RetryLimit \in Nat
  BY WorkflowAssumption DEF CallsTyped, RowsTyped
<1>2. ASSUME NEW pc, Enter(c, pc)
      PROVE  /\ run' = run /\ step' = step
             /\ \A b \in Callers \ {c} : call'[b] = call[b]
             /\ call'[c].pc = pc /\ call'[c].copy.retries = 0
  BY <1>1, <1>2 DEF Enter, NoCall, NewStep
<1>3. ASSUME NEW pc, NEW s \in Steps, EnterStep(c, pc, s)
      PROVE  /\ run' = run /\ step' = step
             /\ \A b \in Callers \ {c} : call'[b] = call[b]
             /\ call'[c].pc = pc /\ call'[c].copy = step[s]
  BY <1>1, <1>3 DEF EnterStep, NoCall
<1>4. run.status = "succeeded" => \A to : ~ May(run.status, to)
  BY <1>1 DEF May, WorkflowTransitions, CommonMoves, WorkflowStatus
<1>5. In(SettledStatuses) = Steps =>
        /\ In({"failed"}) = {}
        /\ \A s \in Steps : step[s].status \notin {"failed", "pending"}
  BY DEF In, SettledStatuses
<1>6. CASE PauseRun(c) \/ CancelRun(c) BY <1>1, <1>2, <1>6 DEF PauseRun, CancelRun, ControlPc
<1>7. CASE \E s \in Steps : SkipStep(c, s)
  BY <1>1, <1>3, <1>5, <1>7 DEF SkipStep, ControlPc, Budget, RetriesWithinLimit
<1>8. CASE \E s \in Steps : RetryStep(c, s)
  <2>1. PICK s \in Steps : RetryStep(c, s) BY <1>8
  <2>2. /\ run' = run /\ step' = step
        /\ \A b \in Callers \ {c} : call'[b] = call[b]
        /\ call'[c].pc = "retryStep" /\ call'[c].copy = step[s]
        /\ step[s].retries < RetryLimit /\ step[s].status = "failed"
        /\ step[s].retries \in Nat
    BY <1>1, <1>3, <2>1 DEF RetryStep, Step
  <2>3. ~ Control(c) BY <1>2, <1>3, <2>2 DEF Control, PauseRun, CancelRun, SkipStep
  <2>4. QED BY <1>1, <1>5, <2>2, <2>3
<1>9. ASSUME StartRun(c) \/ ExecuteRun(c) \/ ResumeRun(c) \/ RetryWorkflow(c)
      PROVE  /\ run' = run /\ step' = step
             /\ \A b \in Callers \ {c} : call'[b] = call[b]
             /\ call'[c].pc \in {"queue", "run", "loop", "retry"}
             /\ call'[c].copy.retries = 0
             /\ ~ (run.status = "succeeded" /\ In(SettledStatuses) = Steps)
  BY <1>2, <1>4, <1>5, <1>9 DEF StartRun, ExecuteRun, ResumeRun, RetryWorkflow
<1>10. CASE StartRun(c) \/ ExecuteRun(c) \/ ResumeRun(c) \/ RetryWorkflow(c)
  <2>1. ~ Control(c) BY <1>2, <1>3, <1>9, <1>10 DEF Control, PauseRun, CancelRun, SkipStep
  <2>2. QED BY <1>1, <1>9, <1>10, <2>1
<1>11. QED BY <1>6, <1>7, <1>8, <1>10 DEF Control, Execute

\* With one process that executes, every step keeps Legal.
LEMMA LegalStep ==
  ASSUME TypeOK, Legal, [Next]_vars, \A a, b \in Callers \ Controllers : a = b
  PROVE  Legal'
<1>1. CallsTyped /\ RowsTyped BY DEF TypeOK, CallsTyped, RowsTyped
<1>2. /\ call \in [Callers -> Call] /\ step \in [Steps -> Step]
      /\ RetryLimit \in Nat /\ Controllers \subseteq Callers
      /\ Steps \subseteq Nat
  BY <1>1, WorkflowAssumption DEF CallsTyped, RowsTyped, Steps
<1>3. ASSUME NEW c \in Callers, Advance(c) PROVE Legal'
  <2>1. StepRows(c) /\ NextCall(c) /\ RunRow(c) BY <1>1, <1>3, AdvanceEffect DEF AdvanceGoal
  <2>2. /\ call[c].copy.retries \in Nat
        /\ call[c].pc \in SteppingPc => call[c].step \in Steps
        /\ \A s \in Steps : step[s].retries \in Nat
    BY <1>1, <1>2 DEF CallsTyped, Call, Step
  <2>3. Budget'
    <3>1. \A s \in Steps : step'[s].retries <= RetryLimit
      BY <1>2, <2>1, <2>2 DEF StepRows, Legal, Budget, RetriesWithinLimit
    <3>2. call'[c].copy.retries <= RetryLimit /\ call'[c].pc # "retryStep"
      <4>1. /\ 0 <= RetryLimit /\ call[c].copy.retries <= RetryLimit
            /\ \A s \in Steps : step[s].retries <= RetryLimit
        BY <1>2 DEF Legal, Budget, RetriesWithinLimit
      <4>2. \/ call'[c].copy.retries \in {0, call[c].copy.retries}
            \/ \E s \in Steps : call'[c].copy.retries = step[s].retries
        BY <2>1 DEF NextCall
      <4>3. QED BY <2>1, <4>1, <4>2 DEF NextCall
    <3>3. QED BY <2>1, <3>1, <3>2 DEF NextCall, Legal, Budget, RetriesWithinLimit
  <2>4. Roles' BY <1>2, <2>1 DEF NextCall, Legal, Roles
  <2>5. c \in Controllers =>
          /\ \A s \in Steps : \/ step'[s].status = step[s].status
                              \/ step'[s].status \in {"skipped", "cancelled"}
          /\ Executable' \subseteq Executable
    <3> SUFFICES ASSUME c \in Controllers
                 PROVE \A s \in Steps : \/ step'[s].status = step[s].status
                                        \/ step'[s].status \in {"skipped", "cancelled"}
      BY DEF Executable, In, ExecutableStatuses
    <3>1. QED BY <2>1 DEF StepRows, Legal, Roles, ControlPc
  <2>6. Meaning'
    <3> SUFFICES ASSUME run'.status = "succeeded"
                 PROVE  /\ In(SettledStatuses)' = Steps
                        /\ \A b \in Callers \ Controllers : call'[b].pc \in {"idle", "succeeded"}
      BY DEF Meaning
    <3>1. CASE run.status = "succeeded"
      <4>1. /\ In(SettledStatuses) = Steps
            /\ \A b \in Callers \ Controllers : call[b].pc \in {"idle", "succeeded"}
        BY <3>1 DEF Legal, Meaning
      <4>2. CASE c \in Controllers BY <2>1, <2>5, <4>1, <4>2 DEF NextCall, In, SettledStatuses
      <4>3. CASE c \notin Controllers BY <2>1, <4>1, <4>3 DEF NextCall, In
      <4>4. QED BY <4>2, <4>3
    <3>2. CASE run.status # "succeeded"
      <4>1. /\ call[c].pc = "complete" /\ call'[c].pc = "succeeded"
            /\ step' = step
            /\ In(SettledStatuses) = Steps
        BY <2>1, <3>2 DEF RunRow
      <4>2. c \notin Controllers BY <4>1 DEF Legal, Roles, ControlPc
      <4>3. QED BY <4>1, <4>2 DEF In
    <3>3. QED BY <3>1, <3>2
  <2>7. Order'
    <3> SUFFICES ASSUME NEW b \in Callers
                 PROVE  /\ call'[b].pc \in {"picked", "disabled"} =>
                             \A s \in Executable' : call'[b].step <= s
                        /\ call'[b].pc \in {"started", "adapter"} =>
                             \A s \in Executable' : call'[b].step < s
      BY DEF Order
    <3>1. CASE b # c
      <4>1. call'[b] = call[b] BY <2>1, <3>1 DEF NextCall
      <4>2. CASE call[b].pc \in {"picked", "disabled", "started", "adapter"}
        <5>1. b \notin Controllers BY <4>2 DEF Legal, Roles, ControlPc
        <5>2. c \in Controllers BY <3>1, <5>1
        <5>3. QED BY <2>5, <4>1, <5>2 DEF Legal, Order
      <4>3. QED BY <4>1, <4>2
    <3>2. CASE b = c
      <4>1. CASE call'[c].pc \in {"picked", "disabled"}
        BY <2>1, <3>2, <4>1 DEF NextCall, Executable, In
      <4>2. CASE call'[c].pc = "started"
        <5>1. /\ call[c].pc = "picked" /\ call'[c].step = call[c].step
              /\ step'[call[c].step].status = "running"
          BY <2>1, <4>2 DEF NextCall
        <5>2. call[c].step \in Steps /\ \A s \in Executable : call[c].step <= s
          BY <2>2, <5>1 DEF SteppingPc, Legal, Order
        <5>3. \A s \in Executable' : s \in Executable /\ s # call[c].step
          BY <2>1, <5>1 DEF StepRows, Executable, In, ExecutableStatuses
        <5>4. Executable \subseteq Nat BY <1>2 DEF Executable, In
        <5>5. ASSUME NEW s \in Executable' PROVE call[c].step < s
          <6>1. s \in Nat /\ call[c].step \in Nat BY <1>2, <5>2, <5>3, <5>4
          <6>2. call[c].step <= s /\ s # call[c].step BY <5>2, <5>3
          <6>3. QED BY <6>1, <6>2
        <5>6. QED BY <3>2, <4>2, <5>1, <5>5
      <4>3. CASE call'[c].pc = "adapter"
        BY <2>1, <3>2, <4>3 DEF NextCall, Legal, Order, Executable, In
      <4>4. QED BY <3>2, <4>1, <4>2, <4>3
    <3>3. QED BY <3>1, <3>2
  <2>8. QED BY <2>3, <2>4, <2>6, <2>7 DEF Legal
<1>4. ASSUME NEW c \in Callers, Control(c) \/ Execute(c),
             c \in Controllers => Control(c)
      PROVE  Legal'
  <2>1. /\ run' = run /\ step' = step
        /\ \A b \in Callers \ {c} : call'[b] = call[b]
        /\ call'[c].pc \notin {"picked", "disabled", "started", "adapter"}
        /\ call'[c].copy.retries <= RetryLimit
        /\ call'[c].pc = "retryStep" => call'[c].copy.retries < RetryLimit
        /\ Control(c) => call'[c].pc \in ControlPc
        /\ ~ (run.status = "succeeded" /\ In(SettledStatuses) = Steps)
    BY <1>1, <1>4, EntryEffect DEF Legal
  <2>2. Budget' /\ Roles' BY <1>2, <1>4, <2>1 DEF Legal, Budget, Roles, RetriesWithinLimit
  <2>3. Meaning' BY <2>1 DEF Legal, Meaning
  <2>4. Order' BY <2>1 DEF Legal, Order, Executable, In
  <2>5. QED BY <2>2, <2>3, <2>4 DEF Legal
<1>5. ASSUME NEW c \in Callers, Crash(c) PROVE Legal'
  <2>1. /\ run' = run /\ step' = step
        /\ \A b \in Callers \ {c} : call'[b] = call[b]
        /\ call'[c].pc = "idle" /\ call'[c].copy.retries = 0
    BY <1>1, <1>5, LeaveFacts DEF Crash
  <2>2. QED BY <1>2, <2>1 DEF Legal, Budget, Roles, Meaning, Order, RetriesWithinLimit, ControlPc,
      Executable, In
<1>6. CASE UNCHANGED <<run, step, call>>
  BY <1>6 DEF Legal, Budget, Roles, Meaning, Order, RetriesWithinLimit, Executable, In
<1>7. QED BY <1>3, <1>4, <1>5, <1>6 DEF Next, Toggle, vars

\* A new run is legal.
LEMMA LegalInit == Init => Legal
  BY WorkflowAssumption DEF Init, Legal, Budget, Roles, Meaning, Order, RetriesWithinLimit,
     ControlPc, NoCall, NewStep

\* Whatever any number of controllers, crashes, refused and disabled steps do to
\* the one process that executes: no step is retried beyond its limit, success
\* means that nothing is left, no step overtakes an earlier one.
THEOREM StepsLegal ==
  ASSUME \A a, b \in Callers \ Controllers : a = b
  PROVE  Spec => []StepsStayLegal
<1>1. Init => Legal BY LegalInit
<1>2. TypeOK /\ Legal /\ [Next]_vars => Legal' BY LegalStep
<1>3. TypeOK /\ Legal => StepsStayLegal
  <2> SUFFICES ASSUME TypeOK, Legal PROVE StepsInSequence
    BY DEF Legal, Budget, Meaning, StepsStayLegal, SucceededMeansSettled
  <2>1. Executable \subseteq Nat BY WorkflowAssumption DEF Executable, In, Steps
  <2>2. \A c \in Callers : call[c].pc \in {"started", "adapter"} => call[c].step \in Nat
    BY WorkflowAssumption DEF TypeOK, SteppingPc, Steps
  <2>3. QED BY <2>1, <2>2 DEF Legal, Order, StepsInSequence
<1>4. QED BY <1>1, <1>2, <1>3, WorkflowTypes, PTL DEF Spec

-----------------------------------------------------------------------------
(* One process and no faults: run, steps, error message and episode agree. *)

\* Where a call can be inside the loop of execute_run.
Looping == {"loop", "picked", "started", "adapter", "output", "error", "complete"}

\* The run row while the call is where it is.
PcRun(c) ==
  LET pc == call[c].pc  st == run.status IN
  /\ pc \notin {"pause", "disabled"}
  /\ pc \in {"idle", "skip"} => st \in {"pending", "succeeded", "failed", "cancelled"}
  /\ pc = "queue" => st = "pending"
  /\ pc = "run" => st \in {"queued", "retrying"}
  /\ pc \in Looping => st = "running"
  /\ pc = "succeeded" => st = "succeeded"
  /\ pc \in {"failed", "retry"} => st = "failed"
  /\ pc = "cancel" => st \in {"pending", "failed"}
  /\ pc = "cancelSteps" => st = "cancelled"
  /\ pc = "reset" => st = "retrying"
  /\ pc \in {"retryStep", "retryRun"} => st \in {"failed", "cancelled"}
  /\ pc \notin {"idle", "skip", "retryStep"} =>
       call[c].run = st /\ call[c].attached = run.attached

\* The row of the step in hand.
PcStep(c) ==
  LET k == call[c]  st == step[k.step].status IN
  /\ k.pc = "picked" => st \in {"pending", "retrying"} /\ k.copy.status = st
  /\ k.pc \in {"started", "adapter"} => st = "running"
  /\ k.pc = "output" => st = "succeeded"
  /\ k.pc = "error" => st = "failed" /\ k.copy.status = "failed"
  /\ k.pc = "retryStep" => st = "failed"
  /\ k.pc = "skip" => k.step \in Optional /\ st \in {"pending", "failed"}
  /\ k.pc = "reset" => k.todo = In({"failed"})
  /\ k.pc = "complete" => Executable = {}

\* Which rows there are with that call and that run.
Rows(c) == \A s \in Steps :
  LET st == step[s].status  k == call[c] IN
  /\ st \notin {"queued", "paused"}
  /\ st = "cancelled" => run.status = "cancelled"
  /\ st = "running" => k.pc \in {"started", "adapter"} /\ s = k.step
  /\ st = "failed" =>
       \/ k.pc = "error" /\ s = k.step
       \/ k.pc = "reset"
       \/ run.status = "failed" /\ k.pc # "retryRun"
       \/ run.status = "cancelled"
  /\ run.status # "cancelled" /\ st \in {"running", "succeeded", "failed", "retrying"} =>
       \A t \in Steps : t < s => step[t].status \in {"succeeded", "skipped"}
  /\ run.status = "succeeded" => st \in {"succeeded", "skipped"}

\* The error message and the way back from a failure.
Marks(c) ==
  /\ run.status \in {"pending", "queued", "succeeded"} => ~ run.error
  /\ call[c].pc = "idle" /\ call[c].executed => call[c].run \in {"succeeded", "failed"}
  /\ run.status = "failed" => \/ In({"failed"}) # {}
                              \/ Optional \cap In({"skipped"}) # {}
                              \/ call[c].pc = "retryRun"

\* The episode.
Shown(c) ==
  LET k == call[c] IN
  /\ run.attached /\ run.status = "failed" /\ k.pc # "failed" => episode = "failed"
  /\ run.attached /\ run.status = "succeeded" /\ k.pc # "succeeded" => episode = "completed"
  /\ k.pc \in {"queue", "run", "retry", "reset", "retryRun"} => k.episode = "unread"
  /\ k.episode # "unread" => k.attached
  /\ k.pc = "adapter" /\ k.attached /\ StageOf(k.step) # "none" =>
       k.episode = StageOf(k.step)
  /\ k.pc \in Looping \cup {"succeeded"} /\ k.episode = "completed" /\ episode # "completed" =>
       \E s \in Steps : /\ StageOf(s) = "completed"
                        /\ \/ step[s].status = "retrying"
                           \/ s = k.step /\ k.pc \in {"started", "error"}

\* The inductive invariant of one process.
Keeping(c) == PcRun(c) /\ PcStep(c) /\ Rows(c) /\ Marks(c) /\ Shown(c)
                /\ \A s \in Steps : enabled[s]

\* Entering the engine keeps Keeping.
LEMMA KeepingEntry ==
  ASSUME NEW c, Callers = {c}, CallsTyped, RowsTyped, Keeping(c), Control(c) \/ Execute(c)
  PROVE  Keeping(c)'
<1>0. /\ call \in [Callers -> Call] /\ call[c] \in Call /\ run \in Run
      /\ step \in [Steps -> Step] /\ Steps \subseteq Nat /\ c \in Callers
      /\ run.status \in WorkflowStatus
  BY WorkflowAssumption DEF CallsTyped, RowsTyped, Steps, Run
<1>1. ASSUME NEW pc, Enter(c, pc), call[c].pc = "idle",
             \/ pc = "queue" /\ run.status = "pending"
             \/ pc = "retry" /\ run.status = "failed"
             \/ pc = "cancel" /\ run.status \in {"pending", "failed"}
      PROVE  Keeping(c)'
  <2>1. /\ call'[c] = [NoCall EXCEPT !.pc = pc, !.run = run.status, !.attached = run.attached]
        /\ run' = run /\ step' = step /\ enabled' = enabled /\ episode' = episode
    BY <1>0, <1>1 DEF Enter
  <2>2. /\ call'[c].pc = pc /\ call'[c].run = run.status
        /\ call'[c].attached = run.attached
        /\ call'[c].episode = "unread" /\ call'[c].step = 0
    BY <2>1 DEF NoCall
  <2>3. PcRun(c)' BY <1>1, <2>1, <2>2 DEF PcRun, Looping
  <2>4. PcStep(c)' BY <1>1, <2>1, <2>2 DEF PcStep
  <2>5. Rows(c)' BY <1>1, <2>1, <2>2 DEF Rows, Keeping, PcRun
  <2>6. Marks(c)' BY <1>1, <2>1, <2>2 DEF Marks, Keeping, In
  <2>7. Shown(c)' BY <1>1, <2>1, <2>2 DEF Shown, Keeping, Looping
  <2>8. QED BY <2>1, <2>3, <2>4, <2>5, <2>6, <2>7 DEF Keeping
<1>2. ASSUME NEW pc, NEW s \in Steps, EnterStep(c, pc, s),
             \/ pc = "retryStep" /\ step[s].status = "failed"
             \/ pc = "skip" /\ s \in Optional /\ step[s].status \in {"pending", "failed"}
      PROVE  Keeping(c)'
  <2>1. /\ call'[c] = [NoCall EXCEPT !.pc = pc, !.step = s, !.copy = step[s]]
        /\ run' = run /\ step' = step /\ enabled' = enabled /\ episode' = episode
        /\ call[c].pc = "idle"
    BY <1>0, <1>2 DEF EnterStep
  <2>2. /\ call'[c].pc = pc /\ call'[c].step = s /\ call'[c].attached = FALSE
        /\ call'[c].episode = "unread"
    BY <2>1 DEF NoCall
  <2>3. PcRun(c)' BY <1>0, <1>2, <2>1, <2>2 DEF Keeping, PcRun, Looping, Rows
  <2>4. PcStep(c)' BY <1>2, <2>1, <2>2 DEF PcStep
  <2>5. Rows(c)' BY <1>2, <2>1, <2>2 DEF Rows, Keeping, PcRun
  <2>6. Marks(c)' BY <1>2, <2>1, <2>2 DEF Marks, Keeping, In
  <2>7. Shown(c)' BY <1>2, <2>1, <2>2 DEF Shown, Keeping, Looping
  <2>8. QED BY <2>1, <2>3, <2>4, <2>5, <2>6, <2>7 DEF Keeping
<1>3. call[c].pc = "idle" => run.status \in {"pending", "succeeded", "failed", "cancelled"}
  BY DEF Keeping, PcRun
<1>4. /\ call[c].pc = "idle" /\ May(run.status, "queued") => run.status = "pending"
      /\ call[c].pc = "idle" /\ May(run.status, "retrying") => run.status = "failed"
      /\ call[c].pc = "idle" => ~ May(run.status, "running")
  BY <1>0, <1>3 DEF May, WorkflowTransitions, CommonMoves
<1>5. CASE StartRun(c) BY <1>1, <1>4, <1>5 DEF StartRun, Enter
<1>6. CASE ExecuteRun(c) BY <1>3, <1>4, <1>6 DEF ExecuteRun, Enter
<1>7. CASE ResumeRun(c) \/ PauseRun(c) BY <1>3, <1>7 DEF ResumeRun, PauseRun, Enter
<1>8. CASE RetryWorkflow(c) BY <1>1, <1>4, <1>8 DEF RetryWorkflow, Enter
<1>9. CASE CancelRun(c) BY <1>1, <1>3, <1>9 DEF CancelRun, Enter
<1>10. CASE \E s \in Steps : SkipStep(c, s) BY <1>2, <1>10 DEF SkipStep
<1>11. CASE \E s \in Steps : RetryStep(c, s) BY <1>2, <1>11 DEF RetryStep
<1>12. QED BY <1>5, <1>6, <1>7, <1>8, <1>9, <1>10, <1>11 DEF Control, Execute

\* The saves that lead a run to the loop, or cancel it, keep Keeping.
LEMMA KeepingSaves ==
  ASSUME NEW c, Callers = {c}, CallsTyped, RowsTyped, Keeping(c),
         \/ Queue(c) \/ SetRunning(c) \/ SaveCancelled(c) \/ SaveRetrying(c)
  PROVE  Keeping(c)'
<1>0. /\ call \in [Callers -> Call] /\ call[c] \in Call /\ run \in Run
      /\ step \in [Steps -> Step] /\ Steps \subseteq Nat /\ c \in Callers
      /\ run.status \in WorkflowStatus /\ call[c].todo \subseteq Steps
      /\ call[c].copy \in Step
      /\ call[c].pc \in SteppingPc => call[c].step \in Steps
      /\ \A s \in Steps : enabled[s]
  BY WorkflowAssumption DEF CallsTyped, RowsTyped, Steps, Run, Call, Keeping
<1>1. ASSUME Queue(c) PROVE Keeping(c)'
  <2>1. /\ call[c].pc \in {"queue"} /\ call'[c].pc = "run"
        /\ call'[c].run = "queued" /\ run'.status = "queued"
        /\ run'.error = run.error
        /\ call'[c].attached = call[c].attached /\ run'.attached = run.attached
        /\ call'[c].episode = call[c].episode /\ call'[c].step = call[c].step
        /\ call'[c].copy = call[c].copy /\ call'[c].todo = call[c].todo
        /\ call'[c].executed = call[c].executed
        /\ step' = step /\ enabled' = enabled /\ episode' = episode
    BY <1>0, <1>1 DEF Queue, Run, Call
  <2>2. PcRun(c)' BY <1>0, <1>1, <2>1 DEF Keeping, PcRun, Looping
  <2>3. PcStep(c)' BY <1>0, <1>1, <2>1 DEF Keeping, PcStep
  <2>4. Rows(c)' BY <1>0, <1>1, <2>1 DEF Keeping, Rows, PcRun, Looping
  <2>5. Marks(c)' BY <1>0, <1>1, <2>1 DEF Keeping, Marks, In, PcRun, Looping
  <2>6. Shown(c)' BY <1>0, <1>1, <2>1 DEF Keeping, Shown, PcRun, Looping
  <2>7. QED BY <1>0, <1>1, <2>1, <2>2, <2>3, <2>4, <2>5, <2>6 DEF Keeping
<1>2. ASSUME SetRunning(c) PROVE Keeping(c)'
  <2>1. /\ call[c].pc \in {"run"} /\ call'[c].pc = "loop"
        /\ call'[c].run = "running" /\ run'.status = "running"
        /\ run'.error = run.error
        /\ call'[c].attached = call[c].attached /\ run'.attached = run.attached
        /\ call'[c].episode = call[c].episode /\ call'[c].step = call[c].step
        /\ call'[c].copy = call[c].copy /\ call'[c].todo = call[c].todo
        /\ call'[c].executed = call[c].executed
        /\ step' = step /\ enabled' = enabled /\ episode' = episode
    BY <1>0, <1>2 DEF SetRunning, Run, Call
  <2>2. PcRun(c)' BY <1>0, <1>2, <2>1 DEF Keeping, PcRun, Looping
  <2>3. PcStep(c)' BY <1>0, <1>2, <2>1 DEF Keeping, PcStep
  <2>4. Rows(c)' BY <1>0, <1>2, <2>1 DEF Keeping, Rows, PcRun, Looping
  <2>5. Marks(c)' BY <1>0, <1>2, <2>1 DEF Keeping, Marks, In, PcRun, Looping
  <2>6. Shown(c)' BY <1>0, <1>2, <2>1 DEF Keeping, Shown, PcRun, Looping
  <2>7. QED BY <1>0, <1>2, <2>1, <2>2, <2>3, <2>4, <2>5, <2>6 DEF Keeping
<1>3. ASSUME SaveCancelled(c) PROVE Keeping(c)'
  <2>1. /\ call[c].pc \in {"cancel"} /\ call'[c].pc = "cancelSteps"
        /\ call'[c].run = "cancelled" /\ run'.status = "cancelled"
        /\ run'.error = run.error
        /\ call'[c].attached = call[c].attached /\ run'.attached = run.attached
        /\ call'[c].episode = call[c].episode /\ call'[c].step = call[c].step
        /\ call'[c].copy = call[c].copy /\ call'[c].todo = call[c].todo
        /\ call'[c].executed = call[c].executed
        /\ step' = step /\ enabled' = enabled /\ episode' = episode
    BY <1>0, <1>3 DEF SaveCancelled, Run, Call
  <2>2. PcRun(c)' BY <1>0, <1>3, <2>1 DEF Keeping, PcRun, Looping
  <2>3. PcStep(c)' BY <1>0, <1>3, <2>1 DEF Keeping, PcStep
  <2>4. Rows(c)' BY <1>0, <1>3, <2>1 DEF Keeping, Rows, PcRun, Looping
  <2>5. Marks(c)' BY <1>0, <1>3, <2>1 DEF Keeping, Marks, In, PcRun, Looping
  <2>6. Shown(c)' BY <1>0, <1>3, <2>1 DEF Keeping, Shown, PcRun, Looping
  <2>7. QED BY <1>0, <1>3, <2>1, <2>2, <2>3, <2>4, <2>5, <2>6 DEF Keeping
<1>4. ASSUME SaveRetrying(c) PROVE Keeping(c)'
  <2>1. /\ call[c].pc \in {"retry"} /\ call'[c].pc = "reset"
        /\ call'[c].run = "retrying" /\ run'.status = "retrying"
        /\ run'.error = FALSE
        /\ call'[c].attached = call[c].attached /\ run'.attached = run.attached
        /\ call'[c].episode = call[c].episode /\ call'[c].step = call[c].step
        /\ call'[c].copy = call[c].copy /\ call'[c].todo = In({"failed"})
        /\ call'[c].executed = call[c].executed
        /\ step' = step /\ enabled' = enabled /\ episode' = episode
    BY <1>0, <1>4 DEF SaveRetrying, Run, Call
  <2>2. PcRun(c)' BY <1>0, <1>4, <2>1 DEF Keeping, PcRun, Looping
  <2>3. PcStep(c)' BY <1>0, <1>4, <2>1 DEF Keeping, PcStep, In
  <2>4. Rows(c)' BY <1>0, <1>4, <2>1 DEF Keeping, Rows, PcRun, Looping
  <2>5. Marks(c)' BY <1>0, <1>4, <2>1 DEF Keeping, Marks, In, PcRun, Looping
  <2>6. Shown(c)' BY <1>0, <1>4, <2>1 DEF Keeping, Shown, PcRun, Looping
  <2>7. QED BY <1>0, <1>4, <2>1, <2>2, <2>3, <2>4, <2>5, <2>6 DEF Keeping
<1>5. QED BY <1>1, <1>2, <1>3, <1>4

\* The saves that end a call keep Keeping.
LEMMA KeepingEnds ==
  ASSUME NEW c, Callers = {c}, CallsTyped, RowsTyped, Keeping(c),
         \/ CancelSteps(c) \/ SaveSkipped(c) \/ SyncFailed(c) \/ SyncSucceeded(c)
  PROVE  Keeping(c)'
<1>0. /\ call \in [Callers -> Call] /\ call[c] \in Call /\ run \in Run
      /\ step \in [Steps -> Step] /\ Steps \subseteq Nat /\ c \in Callers
      /\ run.status \in WorkflowStatus /\ call[c].todo \subseteq Steps
      /\ call[c].copy \in Step
      /\ call[c].pc \in SteppingPc => call[c].step \in Steps
      /\ \A s \in Steps : enabled[s]
      /\ PcRun(c) /\ PcStep(c)
  BY WorkflowAssumption DEF CallsTyped, RowsTyped, Steps, Run, Call, Keeping
<1>1. ASSUME CancelSteps(c) PROVE Keeping(c)'
  <2>1. /\ call[c].pc = "cancelSteps"
        /\ call'[c].pc = "idle" /\ call'[c].episode = "unread"
        /\ call'[c].attached = FALSE
        /\ call'[c].executed = FALSE /\ call'[c].step = 0
        /\ run' = run /\ enabled' = enabled /\ episode' = episode
        /\ \A s \in Steps : step'[s].status =
             IF step[s].status \in OpenStatuses THEN "cancelled" ELSE step[s].status
    BY <1>0, <1>1 DEF CancelSteps, Leave, NoCall, Step
  <2>2. PcRun(c)' BY <1>0, <1>1, <2>1 DEF Keeping, PcRun, Looping
  <2>3. PcStep(c)' BY <1>0, <1>1, <2>1 DEF Keeping, PcStep
  <2>4. Rows(c)'
    BY <1>0, <1>1, <2>1 DEF Keeping, Rows, PcRun, Looping, OpenStatuses, ExecutableStatuses
  <2>5. Marks(c)' BY <1>0, <1>1, <2>1 DEF Keeping, Marks, In, PcRun, Looping
  <2>6. Shown(c)' BY <1>0, <1>1, <2>1 DEF Keeping, Shown, PcRun, Looping
  <2>7. QED BY <1>0, <1>1, <2>1, <2>2, <2>3, <2>4, <2>5, <2>6 DEF Keeping
<1>2. ASSUME SaveSkipped(c) PROVE Keeping(c)'
  <2>0. call[c].pc \in SteppingPc /\ call[c].step \in Steps
    BY <1>0, <1>2 DEF SaveSkipped, SteppingPc
  <2>1. /\ call[c].pc = "skip"
        /\ call'[c].pc = "idle" /\ call'[c].episode = "unread"
        /\ call'[c].attached = FALSE
        /\ call'[c].executed = FALSE /\ call'[c].step = 0
        /\ run' = run /\ enabled' = enabled /\ episode' = episode
        /\ call[c].step \in Steps
        /\ \A s \in Steps : step'[s].status =
             IF s = call[c].step THEN "skipped" ELSE step[s].status
    BY <1>0, <1>2, <2>0 DEF SaveSkipped, Leave, NoCall, Step
  <2>2. PcRun(c)' BY <1>0, <1>2, <2>1 DEF Keeping, PcRun, Looping
  <2>3. PcStep(c)' BY <1>0, <1>2, <2>1 DEF Keeping, PcStep
  <2>4. Rows(c)' BY <1>0, <1>2, <2>1 DEF Keeping, Rows, PcRun, Looping
  <2>5. Marks(c)' BY <1>0, <1>2, <2>1 DEF Keeping, Marks, In, PcRun, Looping, PcStep
  <2>6. Shown(c)' BY <1>0, <1>2, <2>1 DEF Keeping, Shown, PcRun, Looping
  <2>7. QED BY <1>0, <1>2, <2>1, <2>2, <2>3, <2>4, <2>5, <2>6 DEF Keeping
<1>3. ASSUME SyncFailed(c) PROVE Keeping(c)'
  <2>1. /\ call[c].pc = "failed"
        /\ call'[c].pc = "idle" /\ call'[c].episode = "unread"
        /\ call'[c].attached = FALSE
        /\ call'[c].run = call[c].run /\ call'[c].step = 0
        /\ run' = run
        /\ step' = step
        /\ enabled' = enabled /\ episode' = IF run.attached THEN "failed" ELSE episode
    BY <1>0, <1>3 DEF SyncFailed, Return, NoCall, PcRun
  <2>2. PcRun(c)' BY <1>0, <1>3, <2>1 DEF Keeping, PcRun, Looping
  <2>3. PcStep(c)' BY <1>0, <1>3, <2>1 DEF Keeping, PcStep
  <2>4. Rows(c)' BY <1>0, <1>3, <2>1 DEF Keeping, Rows, PcRun, Looping
  <2>5. Marks(c)' BY <1>0, <1>3, <2>1 DEF Keeping, Marks, In, PcRun, Looping
  <2>6. Shown(c)' BY <1>0, <1>3, <2>1 DEF Keeping, Shown, PcRun, Looping
  <2>7. QED BY <1>0, <1>3, <2>1, <2>2, <2>3, <2>4, <2>5, <2>6 DEF Keeping
<1>4. ASSUME SyncSucceeded(c) PROVE Keeping(c)'
  <2>1. /\ call[c].pc = "succeeded"
        /\ call'[c].pc = "idle" /\ call'[c].episode = "unread"
        /\ call'[c].attached = FALSE
        /\ call'[c].run = call[c].run /\ call'[c].step = 0
        /\ run' = run
        /\ step' = step
        /\ enabled' = enabled /\ episode' = IF run.attached /\ call[c].episode # "completed"
                        THEN "completed" ELSE episode
    BY <1>0, <1>4 DEF SyncSucceeded, Return, NoCall, PcRun
  <2>2. PcRun(c)' BY <1>0, <1>4, <2>1 DEF Keeping, PcRun, Looping
  <2>3. PcStep(c)' BY <1>0, <1>4, <2>1 DEF Keeping, PcStep
  <2>4. Rows(c)' BY <1>0, <1>4, <2>1 DEF Keeping, Rows, PcRun, Looping
  <2>5. Marks(c)' BY <1>0, <1>4, <2>1 DEF Keeping, Marks, In, PcRun, Looping
  <2>6. Shown(c)' BY <1>0, <1>4, <2>1 DEF Keeping, Shown, PcRun, Looping, Rows
  <2>7. QED BY <1>0, <1>4, <2>1, <2>2, <2>3, <2>4, <2>5, <2>6 DEF Keeping
<1>5. QED BY <1>1, <1>2, <1>3, <1>4

\* The decisions about the run keep Keeping.
LEMMA KeepingBranches ==
  ASSUME NEW c, Callers = {c}, CallsTyped, RowsTyped, Keeping(c),
         \/ FailRun(c) \/ CompleteRun(c) \/ SaveRunRetrying(c) \/ LeaveLoop(c)
  PROVE  Keeping(c)'
<1>0. /\ call \in [Callers -> Call] /\ call[c] \in Call /\ run \in Run
      /\ step \in [Steps -> Step] /\ Steps \subseteq Nat /\ c \in Callers
      /\ run.status \in WorkflowStatus /\ call[c].todo \subseteq Steps
      /\ call[c].copy \in Step
      /\ call[c].pc \in SteppingPc => call[c].step \in Steps
      /\ \A s \in Steps : enabled[s]
      /\ PcRun(c) /\ PcStep(c)
  BY WorkflowAssumption DEF CallsTyped, RowsTyped, Steps, Run, Call, Keeping
<1> USE DEF Looping
<1>1. ASSUME FailRun(c) PROVE Keeping(c)'
  <2>1. /\ call[c].pc = "error"
        /\ call'[c].pc = "failed" /\ call'[c].run = "failed"
        /\ call'[c].attached = call[c].attached
        /\ call'[c].episode = call[c].episode
        /\ call'[c].step = call[c].step /\ call[c].step \in Steps
        /\ run'.status = "failed" /\ run'.error = TRUE
        /\ run'.attached = run.attached
        /\ step' = step
        /\ enabled' = enabled /\ episode' = episode
    BY <1>0, <1>1 DEF FailRun, May, WorkflowTransitions, CommonMoves, WorkflowStatus, Run, Call,
       PcRun, SteppingPc, Looping
  <2>2. PcRun(c)' BY <1>0, <1>1, <2>1 DEF Keeping, PcRun, Looping
  <2>3. PcStep(c)' BY <1>0, <1>1, <2>1 DEF Keeping, PcStep
  <2>4. Rows(c)' BY <1>0, <1>1, <2>1 DEF Keeping, Rows, PcRun, Looping
  <2>5. Marks(c)' BY <1>0, <1>1, <2>1 DEF Keeping, Marks, In, PcRun, Looping, PcStep
  <2>6. Shown(c)' BY <1>0, <1>1, <2>1 DEF Keeping, Shown, PcRun, Looping
  <2>7. QED BY <1>0, <1>1, <2>1, <2>2, <2>3, <2>4, <2>5, <2>6 DEF Keeping
<1>9. call[c].pc = "complete" => In(SettledStatuses) = Steps
  <2> SUFFICES ASSUME call[c].pc = "complete", NEW s \in Steps
               PROVE  step[s].status \in SettledStatuses
    BY DEF In
  <2>1. step[s].status \in WorkflowStatus \ ExecutableStatuses
    BY <1>0 DEF Keeping, PcStep, Executable, In, Step
  <2>2. QED BY <2>1 DEF Keeping, PcRun, Rows, WorkflowStatus, ExecutableStatuses, SettledStatuses
<1>2. ASSUME CompleteRun(c) PROVE Keeping(c)'
  <2>1. /\ call[c].pc = "complete"
        /\ run.status = "running" /\ run.status = call[c].run
        /\ In(SettledStatuses) = Steps
        /\ call'[c].pc = "succeeded" /\ call'[c].run = "succeeded"
        /\ call'[c].attached = call[c].attached
        /\ call'[c].episode = call[c].episode
        /\ call'[c].step = call[c].step
        /\ run'.status = "succeeded" /\ run'.error = FALSE
        /\ run'.attached = run.attached
        /\ step' = step
        /\ enabled' = enabled /\ episode' = episode
    BY <1>0, <1>2, <1>9 DEF CompleteRun, Run, Call, PcRun
  <2>2. PcRun(c)' BY <1>0, <1>2, <2>1 DEF Keeping, PcRun, Looping
  <2>3. PcStep(c)' BY <1>0, <1>2, <2>1 DEF Keeping, PcStep
  <2>4. Rows(c)' BY <1>0, <1>2, <2>1 DEF Keeping, Rows, PcRun, Looping, SettledStatuses, In
  <2>5. Marks(c)' BY <1>0, <1>2, <2>1 DEF Keeping, Marks, In, PcRun, Looping
  <2>6. Shown(c)' BY <1>0, <1>2, <2>1 DEF Keeping, Shown, PcRun, Looping
  <2>7. QED BY <1>0, <1>2, <2>1, <2>2, <2>3, <2>4, <2>5, <2>6 DEF Keeping
<1>3. ASSUME SaveRunRetrying(c), run.status = "failed" PROVE Keeping(c)'
  <2>1. /\ call[c].pc = "retryRun"
        /\ call'[c].pc = "run" /\ call'[c].run = "retrying"
        /\ call'[c].attached = call[c].attached
        /\ call'[c].episode = call[c].episode
        /\ call'[c].step = call[c].step
        /\ run'.status = "retrying" /\ run'.error = FALSE
        /\ run'.attached = run.attached
        /\ step' = step
        /\ enabled' = enabled /\ episode' = episode
    BY <1>0, <1>3 DEF SaveRunRetrying, Run, Call, PcRun, May, WorkflowTransitions, CommonMoves,
       WorkflowStatus
  <2>2. PcRun(c)' BY <1>0, <1>3, <2>1 DEF Keeping, PcRun, Looping
  <2>3. PcStep(c)' BY <1>0, <1>3, <2>1 DEF Keeping, PcStep
  <2>4. Rows(c)' BY <1>0, <1>3, <2>1 DEF Keeping, Rows, PcRun, Looping
  <2>5. Marks(c)' BY <1>0, <1>3, <2>1 DEF Keeping, Marks, In, PcRun, Looping
  <2>6. Shown(c)' BY <1>0, <1>3, <2>1 DEF Keeping, Shown, PcRun, Looping
  <2>7. QED BY <1>0, <1>3, <2>1, <2>2, <2>3, <2>4, <2>5, <2>6 DEF Keeping
<1>4. ASSUME SaveRunRetrying(c), run.status # "failed" PROVE Keeping(c)'
  <2>1. /\ call[c].pc = "retryRun"
        /\ call'[c].pc = "idle" /\ call'[c].episode = "unread"
        /\ call'[c].attached = FALSE
        /\ call'[c].executed = FALSE /\ call'[c].step = 0
        /\ run.status = "cancelled"
        /\ run' = run
        /\ step' = step
        /\ enabled' = enabled /\ episode' = episode
    BY <1>0, <1>4 DEF SaveRunRetrying, Leave, NoCall, PcRun, May, WorkflowTransitions, CommonMoves,
       WorkflowStatus
  <2>2. PcRun(c)' BY <1>0, <1>4, <2>1 DEF Keeping, PcRun, Looping
  <2>3. PcStep(c)' BY <1>0, <1>4, <2>1 DEF Keeping, PcStep
  <2>4. Rows(c)' BY <1>0, <1>4, <2>1 DEF Keeping, Rows, PcRun, Looping
  <2>5. Marks(c)' BY <1>0, <1>4, <2>1 DEF Keeping, Marks, In, PcRun, Looping
  <2>6. Shown(c)' BY <1>0, <1>4, <2>1 DEF Keeping, Shown, PcRun, Looping
  <2>7. QED BY <1>0, <1>4, <2>1, <2>2, <2>3, <2>4, <2>5, <2>6 DEF Keeping
<1>5. ASSUME LeaveLoop(c) PROVE Keeping(c)'
  <2>1. /\ call[c].pc = "loop"
        /\ call'[c].pc = "complete" /\ call'[c].run = call[c].run
        /\ call'[c].attached = call[c].attached
        /\ call'[c].episode = call[c].episode
        /\ call'[c].step = call[c].step /\ Executable = {}
        /\ run' = run
        /\ step' = step
        /\ enabled' = enabled /\ episode' = episode
    BY <1>0, <1>5 DEF LeaveLoop, Goto, Call, PcRun, Looping
  <2>2. PcRun(c)' BY <1>0, <1>5, <2>1 DEF Keeping, PcRun, Looping
  <2>3. PcStep(c)' BY <1>0, <1>5, <2>1 DEF Keeping, PcStep, Executable, In
  <2>4. Rows(c)' BY <1>0, <1>5, <2>1 DEF Keeping, Rows, PcRun, Looping
  <2>5. Marks(c)' BY <1>0, <1>5, <2>1 DEF Keeping, Marks, In, PcRun, Looping
  <2>6. Shown(c)' BY <1>0, <1>5, <2>1 DEF Keeping, Shown, PcRun, Looping
  <2>7. QED BY <1>0, <1>5, <2>1, <2>2, <2>3, <2>4, <2>5, <2>6 DEF Keeping
<1>6. QED BY <1>1, <1>2, <1>3, <1>4, <1>5

\* A step is picked when all before it are done.
LEMMA PriorDone ==
  ASSUME NEW c, Callers = {c}, CallsTyped, RowsTyped, Keeping(c), Order,
         call[c].pc = "picked", NEW t \in Steps, t < call[c].step
  PROVE  step[t].status \in {"succeeded", "skipped"}
<1>0. /\ call \in [Callers -> Call] /\ call[c] \in Call /\ run \in Run
      /\ step \in [Steps -> Step] /\ Steps \subseteq Nat /\ c \in Callers
      /\ run.status \in WorkflowStatus /\ call[c].todo \subseteq Steps
      /\ call[c].copy \in Step
      /\ call[c].pc \in SteppingPc => call[c].step \in Steps
      /\ \A s \in Steps : enabled[s]
      /\ PcRun(c) /\ PcStep(c)
  BY WorkflowAssumption DEF CallsTyped, RowsTyped, Steps, Run, Call, Keeping
<1>1. t \notin Executable
  <2>1. \A s \in Executable : call[c].step <= s BY <1>0 DEF Order
  <2>2. t \in Nat /\ call[c].step \in Nat BY <1>0 DEF SteppingPc
  <2>3. QED BY <2>1, <2>2
<1>2. step[t].status \in WorkflowStatus \ ExecutableStatuses BY <1>0, <1>1 DEF Executable, In, Step
<1>3. QED BY <1>2 DEF Keeping, Rows, PcRun, Looping, WorkflowStatus, ExecutableStatuses

\* The saves of steps and the turns of the loop keep Keeping.
LEMMA KeepingLoop ==
  ASSUME NEW c, Callers = {c}, CallsTyped, RowsTyped, Keeping(c), Order,
         \/ ResetStep(c) \/ SaveStepRetrying(c) \/ Pick(c) \/ StartStep(c)
         \/ SyncStarted(c) \/ RetryInLoop(c)

  PROVE  Keeping(c)'
<1>0. /\ call \in [Callers -> Call] /\ call[c] \in Call /\ run \in Run
      /\ step \in [Steps -> Step] /\ Steps \subseteq Nat /\ c \in Callers
      /\ run.status \in WorkflowStatus /\ call[c].todo \subseteq Steps
      /\ call[c].copy \in Step
      /\ call[c].pc \in SteppingPc => call[c].step \in Steps
      /\ \A s \in Steps : enabled[s]
      /\ PcRun(c) /\ PcStep(c)
  BY WorkflowAssumption DEF CallsTyped, RowsTyped, Steps, Run, Call, Keeping
<1>1. ASSUME ResetStep(c), call[c].todo = {} PROVE Keeping(c)'
  <2>1. /\ call[c].pc = "reset"
        /\ call'[c].pc = "run" /\ call'[c].run = call[c].run
        /\ call'[c].attached = call[c].attached
        /\ call'[c].episode = call[c].episode
        /\ In({"failed"}) = {}
        /\ run' = run
        /\ step' = step
        /\ enabled' = enabled /\ episode' = episode
    BY <1>0, <1>1 DEF ResetStep, Goto, Call, PcStep
  <2>2. PcRun(c)' BY <1>0, <1>1, <2>1 DEF Keeping, PcRun, Looping
  <2>3. PcStep(c)' BY <1>0, <1>1, <2>1 DEF Keeping, PcStep
  <2>4. Rows(c)' BY <1>0, <1>1, <2>1 DEF Keeping, Rows, PcRun, Looping, PcStep, In
  <2>5. Marks(c)' BY <1>0, <1>1, <2>1 DEF Keeping, Marks, In, PcRun, Looping
  <2>6. Shown(c)' BY <1>0, <1>1, <2>1 DEF Keeping, Shown, PcRun, Looping
  <2>7. QED BY <1>0, <1>1, <2>1, <2>2, <2>3, <2>4, <2>5, <2>6 DEF Keeping
<1>2. ASSUME ResetStep(c), call[c].todo # {} PROVE Keeping(c)'
  <2>0. PICK s \in call[c].todo : s = Min(call[c].todo) BY <1>0, <1>2, MinStep
  <2>1. /\ call[c].pc = "reset" /\ s \in Steps
        /\ call'[c].pc = "reset" /\ call'[c].run = call[c].run
        /\ call'[c].attached = call[c].attached
        /\ call'[c].episode = call[c].episode
        /\ call'[c].todo = call[c].todo \ {s}
        /\ run' = run
        /\ \A t \in Steps : step'[t].status =
             IF t = s THEN "pending" ELSE step[t].status
        /\ enabled' = enabled /\ episode' = episode
    BY <1>0, <1>2, <2>0 DEF ResetStep, Call, Step
  <2>2. PcRun(c)' BY <1>0, <1>2, <2>1 DEF Keeping, PcRun, Looping
  <2>3. PcStep(c)' BY <1>0, <1>2, <2>1 DEF Keeping, PcStep, In
  <2>4. Rows(c)' BY <1>0, <1>2, <2>1 DEF Keeping, Rows, PcRun, Looping, PcStep, In
  <2>5. Marks(c)' BY <1>0, <1>2, <2>1 DEF Keeping, Marks, In, PcRun, Looping
  <2>6. Shown(c)' BY <1>0, <1>2, <2>1 DEF Keeping, Shown, PcRun, Looping
  <2>7. QED BY <1>0, <1>2, <2>1, <2>2, <2>3, <2>4, <2>5, <2>6 DEF Keeping
<1>3. ASSUME SaveStepRetrying(c) PROVE Keeping(c)'
  <2>0. call[c].pc \in SteppingPc /\ call[c].step \in Steps
    BY <1>0, <1>3 DEF SaveStepRetrying, SteppingPc
  <2>1. /\ call[c].pc = "retryStep"
        /\ call'[c].pc = "retryRun" /\ call'[c].run = run.status
        /\ call'[c].attached = run.attached /\ call'[c].episode = "unread"
        /\ call[c].step \in Steps
        /\ run' = run
        /\ \A s \in Steps : step'[s].status =
             IF s = call[c].step THEN "retrying" ELSE step[s].status
        /\ enabled' = enabled /\ episode' = episode
    BY <1>0, <1>3, <2>0 DEF SaveStepRetrying, NoCall
  <2>2. PcRun(c)' BY <1>0, <1>3, <2>1 DEF Keeping, PcRun, Looping
  <2>3. PcStep(c)' BY <1>0, <1>3, <2>1 DEF Keeping, PcStep
  <2>4. Rows(c)'
    <3>1. step[call[c].step].status = "failed" BY <1>0, <2>1 DEF PcStep
    <3>2. run.status \in {"failed", "cancelled"} BY <1>0, <2>1 DEF PcRun
    <3>3. ASSUME NEW s \in Steps, step[s].status = "failed", run.status = "failed"
          PROVE  s = call[c].step
      <4>1. ~ (s < call[c].step) /\ ~ (call[c].step < s) BY <1>0, <2>1, <3>1, <3>3 DEF Keeping, Rows
      <4>2. s \in Nat /\ call[c].step \in Nat BY <1>0, <2>1
      <4>3. QED BY <4>1, <4>2
    <3>4. QED BY <1>0, <2>1, <3>1, <3>2, <3>3 DEF Keeping, Rows
  <2>5. Marks(c)' BY <1>0, <1>3, <2>1 DEF Keeping, Marks, In, PcRun, Looping
  <2>6. Shown(c)' BY <1>0, <1>3, <2>1 DEF Keeping, Shown, PcRun, Looping
  <2>7. QED BY <1>0, <1>3, <2>1, <2>2, <2>3, <2>4, <2>5, <2>6 DEF Keeping
<1>4. ASSUME Pick(c) PROVE Keeping(c)'
  <2>0. PICK s \in Executable : s = Min(Executable) /\ \A t \in Executable : s <= t
    BY <1>4, MinStep DEF Pick, Executable, In
  <2>1. /\ call[c].pc = "loop" /\ s \in Steps
        /\ step[s].status \in {"pending", "queued", "retrying"}
        /\ call'[c].pc = "picked" /\ call'[c].run = call[c].run
        /\ call'[c].attached = call[c].attached
        /\ call'[c].episode = call[c].episode
        /\ call'[c].step = s /\ call'[c].copy = step[s]
        /\ run' = run
        /\ step' = step
        /\ enabled' = enabled /\ episode' = episode
    BY <1>0, <1>4, <2>0 DEF Pick, Call, Executable, In, ExecutableStatuses
  <2>2. PcRun(c)' BY <1>0, <1>4, <2>1 DEF Keeping, PcRun, Looping
  <2>3. PcStep(c)' BY <1>0, <1>4, <2>1 DEF Keeping, PcStep, Rows
  <2>4. Rows(c)' BY <1>0, <1>4, <2>1 DEF Keeping, Rows, PcRun, Looping
  <2>5. Marks(c)' BY <1>0, <1>4, <2>1 DEF Keeping, Marks, In, PcRun, Looping
  <2>6. Shown(c)' BY <1>0, <1>4, <2>1 DEF Keeping, Shown, PcRun, Looping
  <2>7. QED BY <1>0, <1>4, <2>1, <2>2, <2>3, <2>4, <2>5, <2>6 DEF Keeping
<1>5. ASSUME StartStep(c) PROVE Keeping(c)'
  <2>1. /\ call[c].pc = "picked" /\ call[c].step \in Steps
        /\ call'[c].pc = "started" /\ call'[c].run = call[c].run
        /\ call'[c].attached = call[c].attached
        /\ call'[c].episode = call[c].episode
        /\ call'[c].step = call[c].step
        /\ run' = run
        /\ \A s \in Steps : step'[s].status =
             IF s = call[c].step THEN "running" ELSE step[s].status
        /\ enabled' = enabled /\ episode' = episode
    BY <1>0, <1>5 DEF StartStep, SaveStatus, Call, Step, SteppingPc
  <2>0. \A t \in Steps : t < call[c].step => step[t].status \in {"succeeded", "skipped"}
    BY <2>1, PriorDone
  <2>2. PcRun(c)' BY <1>0, <1>5, <2>0, <2>1 DEF Keeping, PcRun, Looping
  <2>3. PcStep(c)' BY <1>0, <1>5, <2>0, <2>1 DEF Keeping, PcStep
  <2>4. Rows(c)' BY <1>0, <1>5, <2>0, <2>1 DEF Keeping, Rows, PcRun, Looping, PcStep
  <2>5. Marks(c)' BY <1>0, <1>5, <2>0, <2>1 DEF Keeping, Marks, In, PcRun, Looping
  <2>6. Shown(c)' BY <1>0, <1>5, <2>0, <2>1 DEF Keeping, Shown, PcRun, Looping, PcStep
  <2>7. QED BY <1>0, <1>5, <2>0, <2>1, <2>2, <2>3, <2>4, <2>5, <2>6 DEF Keeping
<1>6. ASSUME SyncStarted(c) PROVE Keeping(c)'
  <2> DEFINE stage == StageOf(call[c].step)
             moved == call[c].attached /\ stage # "none"
  <2>1. /\ call[c].pc = "started" /\ call[c].step \in Steps
        /\ call'[c].pc = "adapter" /\ call'[c].run = call[c].run
        /\ call'[c].attached = call[c].attached
        /\ call'[c].episode = IF moved THEN stage ELSE call[c].episode
        /\ call'[c].step = call[c].step
        /\ run' = run
        /\ step' = step
        /\ enabled' = enabled /\ episode' = IF moved THEN stage ELSE episode
    BY <1>0, <1>6 DEF SyncStarted, Goto, Call, SteppingPc
  <2>2. PcRun(c)' BY <1>0, <1>6, <2>1 DEF Keeping, PcRun, Looping
  <2>3. PcStep(c)' BY <1>0, <1>6, <2>1 DEF Keeping, PcStep
  <2>4. Rows(c)' BY <1>0, <1>6, <2>1 DEF Keeping, Rows, PcRun, Looping
  <2>5. Marks(c)' BY <1>0, <1>6, <2>1 DEF Keeping, Marks, In, PcRun, Looping
  <2>6. Shown(c)' BY <1>0, <1>6, <2>1 DEF Keeping, Shown, PcRun, Looping, PcStep
  <2>7. QED BY <1>0, <1>6, <2>1, <2>2, <2>3, <2>4, <2>5, <2>6 DEF Keeping
<1>7. ASSUME RetryInLoop(c) PROVE Keeping(c)'
  <2>1. /\ call[c].pc = "error" /\ call[c].step \in Steps
        /\ call'[c].pc = "loop" /\ call'[c].run = call[c].run
        /\ call'[c].attached = call[c].attached
        /\ call'[c].episode = call[c].episode
        /\ call'[c].step = call[c].step
        /\ run'.status = run.status /\ run'.error = TRUE
        /\ run'.attached = run.attached
        /\ \A s \in Steps : step'[s].status =
             IF s = call[c].step THEN "retrying" ELSE step[s].status
        /\ enabled' = enabled /\ episode' = episode
    BY <1>0, <1>7 DEF RetryInLoop, SaveRetry, MayStep, StepTransitions, CommonMoves, WorkflowStatus,
       Goto, Run, Call, Step, SteppingPc, Keeping, PcStep
  <2>2. PcRun(c)' BY <1>0, <1>7, <2>1 DEF Keeping, PcRun, Looping
  <2>3. PcStep(c)' BY <1>0, <1>7, <2>1 DEF Keeping, PcStep
  <2>4. Rows(c)' BY <1>0, <1>7, <2>1 DEF Keeping, Rows, PcRun, Looping, PcStep
  <2>5. Marks(c)' BY <1>0, <1>7, <2>1 DEF Keeping, Marks, In, PcRun, Looping
  <2>6. Shown(c)' BY <1>0, <1>7, <2>1 DEF Keeping, Shown, PcRun, Looping, PcStep
  <2>7. QED BY <1>0, <1>7, <2>1, <2>2, <2>3, <2>4, <2>5, <2>6 DEF Keeping
<1>8. QED BY <1>1, <1>2, <1>3, <1>4, <1>5, <1>6, <1>7

\* An adapter that returns, and what is recorded of it, keep Keeping.
LEMMA KeepingAdapter ==
  ASSUME NEW c, Callers = {c}, CallsTyped, RowsTyped, Keeping(c),
         \/ AdapterSucceeds(c) \/ AdapterFails(c) \/ RecordOutput(c)
  PROVE  Keeping(c)'
<1>0. /\ call \in [Callers -> Call] /\ call[c] \in Call /\ run \in Run
      /\ step \in [Steps -> Step] /\ Steps \subseteq Nat /\ c \in Callers
      /\ run.status \in WorkflowStatus /\ call[c].todo \subseteq Steps
      /\ call[c].copy \in Step
      /\ call[c].pc \in SteppingPc => call[c].step \in Steps
      /\ \A s \in Steps : enabled[s]
      /\ PcRun(c) /\ PcStep(c)
  BY WorkflowAssumption DEF CallsTyped, RowsTyped, Steps, Run, Call, Keeping
<1>1. ASSUME AdapterSucceeds(c) PROVE Keeping(c)'
  <2>1. /\ call[c].pc = "adapter"
        /\ call[c].step \in Steps
        /\ call'[c].pc = "output" /\ call'[c].run = call[c].run
        /\ call'[c].attached = call[c].attached
        /\ call'[c].episode = call[c].episode
        /\ call'[c].step = call[c].step /\ call'[c].copy.status = "succeeded"
        /\ run' = run
        /\ \A s \in Steps : step'[s].status =
             IF s = call[c].step THEN "succeeded" ELSE step[s].status
        /\ enabled' = enabled
        /\ \/ episode' = episode
           \/ /\ StageOf(call[c].step) # "none"
              /\ StageOf(call[c].step) = "completed" => episode' = "completed"
    BY <1>0, <1>1, StagesAre DEF AdapterSucceeds, EpisodeAfter, SaveStatus, Call, Step, SteppingPc
  <2>2. PcRun(c)' BY <1>0, <1>1, <2>1 DEF Keeping, PcRun, Looping
  <2>3. PcStep(c)' BY <1>0, <1>1, <2>1 DEF Keeping, PcStep
  <2>4. Rows(c)' BY <1>0, <1>1, <2>1 DEF Keeping, Rows, PcRun, Looping, PcStep
  <2>5. Marks(c)' BY <1>0, <1>1, <2>1 DEF Keeping, Marks, In, PcRun, Looping
  <2>6. Shown(c)' BY <1>0, <1>1, <2>1 DEF Keeping, Shown, PcRun, Looping, PcStep
  <2>7. QED BY <1>0, <1>1, <2>1, <2>2, <2>3, <2>4, <2>5, <2>6 DEF Keeping
<1>2. ASSUME AdapterFails(c) PROVE Keeping(c)'
  <2>1. /\ call[c].pc = "adapter"
        /\ call[c].step \in Steps
        /\ call'[c].pc = "error" /\ call'[c].run = call[c].run
        /\ call'[c].attached = call[c].attached
        /\ call'[c].episode = call[c].episode
        /\ call'[c].step = call[c].step /\ call'[c].copy.status = "failed"
        /\ run' = run
        /\ \A s \in Steps : step'[s].status =
             IF s = call[c].step THEN "failed" ELSE step[s].status
        /\ enabled' = enabled
        /\ \/ episode' = episode
           \/ StageOf(call[c].step) # "none"
    BY <1>0, <1>2, StagesAre DEF AdapterFails, EpisodeAfter, SaveStatus, Call, Step, SteppingPc
  <2>2. PcRun(c)' BY <1>0, <1>2, <2>1 DEF Keeping, PcRun, Looping
  <2>3. PcStep(c)' BY <1>0, <1>2, <2>1 DEF Keeping, PcStep
  <2>4. Rows(c)' BY <1>0, <1>2, <2>1 DEF Keeping, Rows, PcRun, Looping, PcStep
  <2>5. Marks(c)' BY <1>0, <1>2, <2>1 DEF Keeping, Marks, In, PcRun, Looping
  <2>6. Shown(c)' BY <1>0, <1>2, <2>1 DEF Keeping, Shown, PcRun, Looping, PcStep
  <2>7. QED BY <1>0, <1>2, <2>1, <2>2, <2>3, <2>4, <2>5, <2>6 DEF Keeping
<1>3. ASSUME RecordOutput(c) PROVE Keeping(c)'
  <2>1. /\ call[c].pc = "output"
        /\ call'[c].pc = "loop" /\ call'[c].run = call[c].run
        /\ call'[c].attached = run'.attached /\ call'[c].episode = call[c].episode
        /\ (call[c].attached => call'[c].attached)
        /\ call'[c].step = call[c].step
        /\ run'.status = run.status /\ run'.error = run.error
        /\ step' = step
        /\ enabled' = enabled /\ episode' = episode
    BY <1>0, <1>3 DEF RecordOutput, Run, Call
  <2>2. PcRun(c)' BY <1>0, <1>3, <2>1 DEF Keeping, PcRun, Looping
  <2>3. PcStep(c)' BY <1>0, <1>3, <2>1 DEF Keeping, PcStep
  <2>4. Rows(c)' BY <1>0, <1>3, <2>1 DEF Keeping, Rows, PcRun, Looping
  <2>5. Marks(c)' BY <1>0, <1>3, <2>1 DEF Keeping, Marks, In, PcRun, Looping
  <2>6. Shown(c)' BY <1>0, <1>3, <2>1 DEF Keeping, Shown, PcRun, Looping
  <2>7. QED BY <1>0, <1>3, <2>1, <2>2, <2>3, <2>4, <2>5, <2>6 DEF Keeping
<1>4. QED BY <1>1, <1>2, <1>3

\* One process without faults never pauses a run, never meets a disabled or a
\* refused step, and does not crash.
LEMMA OnlyOrdinary ==
  ASSUME NEW c, Callers = {c}, Faults = {}, Keeping(c), Next
  PROVE  \/ Control(c) \/ (Execute(c) /\ c \notin Controllers)
         \/ Queue(c) \/ SetRunning(c) \/ SaveCancelled(c) \/ SaveRetrying(c)
         \/ CancelSteps(c) \/ SaveSkipped(c) \/ SyncFailed(c) \/ SyncSucceeded(c)
         \/ FailRun(c) \/ CompleteRun(c) \/ SaveRunRetrying(c) \/ LeaveLoop(c)
         \/ ResetStep(c) \/ SaveStepRetrying(c) \/ Pick(c) \/ StartStep(c)
         \/ SyncStarted(c) \/ RetryInLoop(c)
         \/ AdapterSucceeds(c) \/ AdapterFails(c) \/ RecordOutput(c)
<1>1. ~ SavePaused(c) /\ ~ SkipDisabled(c) BY DEF SavePaused, SkipDisabled, Keeping, PcRun
<1>2. ~ RefuseStep(c) /\ ~ Crash(c) /\ \A s \in Steps : ~ Toggle(s) BY DEF RefuseStep, Crash, Toggle
<1>3. QED BY <1>1, <1>2 DEF Next, Advance

\* Every step of one process without faults keeps Keeping.
LEMMA KeepingStep ==
  ASSUME NEW c, Callers = {c}, Faults = {}, TypeOK, Order, Keeping(c), [Next]_vars
  PROVE  Keeping(c)'
<1>1. CallsTyped /\ RowsTyped BY DEF TypeOK, CallsTyped, RowsTyped
<1>2. CASE Next
  BY <1>1, <1>2, OnlyOrdinary, KeepingEntry, KeepingSaves, KeepingEnds, KeepingBranches,
     KeepingLoop, KeepingAdapter
<1>3. CASE UNCHANGED vars
  BY <1>3 DEF vars, Keeping, PcRun, PcStep, Rows, Marks, Shown, In, Executable, Looping
<1>4. QED BY <1>2, <1>3

\* A new run has it.
LEMMA KeepingInit ==
  ASSUME NEW c, Callers = {c}, Init
  PROVE  Keeping(c)
<1>1. /\ call[c] = NoCall /\ run.status = "pending" /\ run.error = FALSE
      /\ \A s \in Steps : step[s].status = "pending" /\ enabled[s]
  BY DEF Init, NewStep
<1>2. NoCall.pc = "idle" /\ NoCall.episode = "unread" /\ NoCall.executed = FALSE BY DEF NoCall
<1>3. QED BY <1>1, <1>2 DEF Keeping, PcRun, PcStep, Rows, Marks, Shown, Looping

\* So it always holds.
LEMMA KeepingAlways ==
  ASSUME NEW CONSTANT c, Callers = {c}, Faults = {}
  PROVE  Spec => [](TypeOK /\ Legal /\ Keeping(c))
<1>1. Init => Legal /\ Keeping(c) BY KeepingInit, LegalInit
<1>2. TypeOK /\ Legal /\ [Next]_vars => Legal' BY LegalStep
<1>3. TypeOK /\ Legal /\ Keeping(c) /\ [Next]_vars => Keeping(c)' BY KeepingStep DEF Legal
<1>4. QED BY <1>1, <1>2, <1>3, WorkflowTypes, PTL DEF Spec

\* One process, no faults, any number of steps, any retry limit, any kinds of
\* steps: when no call is at work the run has come to the end it states, its error
\* message and its episode agree with it, and a failure can be retried.
THEOREM RunsEndTruly ==
  ASSUME NEW CONSTANT c, Callers = {c}, Faults = {}
  PROVE  Spec => []RunsEndAsTheySay
<1>1. TypeOK /\ Keeping(c) => RunsEndAsTheySay
  <2> SUFFICES ASSUME TypeOK, Keeping(c) PROVE RunsEndAsTheySay
    OBVIOUS
  <2>1. ExecutionEnds BY DEF Keeping, Marks, ExecutionEnds
  <2>2. Quiet => call[c].pc = "idle" BY DEF Quiet
  <2>3. FailureIsRecorded BY <2>2 DEF FailureIsRecorded, Keeping, PcRun, Marks
  <2>4. FailedRunsCanBeRetried BY <2>2 DEF FailedRunsCanBeRetried, Keeping, Marks
  <2>5. EpisodeAgrees BY <2>2 DEF EpisodeAgrees, Keeping, Shown
  <2>6. QED BY <2>1, <2>3, <2>4, <2>5 DEF RunsEndAsTheySay
<1>2. QED BY <1>1, KeepingAlways, PTL

-----------------------------------------------------------------------------
(* The refinement: the statuses of run and steps do what WorkflowContract  *)
(* says.                                                                   *)

\* What the contract sees of the steps.
Statuses == [s \in Steps |-> step[s].status]

\* A save of the run along its transition table is a step of the contract.
LEMMA RunMoves ==
  ASSUME NEW to, to \in WorkflowTransitions[run.status], to \in WorkflowStatus,
         run'.status = to, step' = step,
         to = "succeeded" => In(SettledStatuses) = Steps
  PROVE  Contract!ContractNext
<1>1. to = "succeeded" => \A s \in Steps : Statuses[s] \in Contract!SettledStatuses
  BY DEF Statuses, In, Contract!SettledStatuses, SettledStatuses
<1>2. Contract!MoveRun(to)
  BY <1>1 DEF Contract!MoveRun, Statuses, Contract!WorkflowTransitions, WorkflowTransitions,
     Contract!CommonMoves, CommonMoves, Contract!WorkflowStatus, WorkflowStatus
<1>3. QED BY <1>2 DEF Contract!ContractNext, Contract!WorkflowStatus, WorkflowStatus

\* So is a save of one step along its own table.
LEMMA StepMoves ==
  ASSUME NEW s \in Steps, NEW to \in WorkflowStatus \ {"running"},
         to \in StepTransitions[step[s].status],
         run'.status = run.status,
         \A t \in Steps : step'[t].status = IF t = s THEN to ELSE step[t].status
  PROVE  Contract!ContractNext
<1>1. Contract!MoveStep(s, to)
  BY DEF Contract!MoveStep, Contract!StepTransitions, StepTransitions, Contract!CommonMoves,
     CommonMoves, Contract!WorkflowStatus, WorkflowStatus
<1>2. QED BY <1>1 DEF Contract!ContractNext, Contract!WorkflowStatus, WorkflowStatus

\* Every step of one process without faults is a step of the contract or writes
\* no status.
LEMMA ContractStep ==
  ASSUME NEW c, Callers = {c}, Faults = {}, CallsTyped, RowsTyped, Order, Keeping(c), Next
  PROVE  Contract!ContractNext \/ (run'.status = run.status /\ Statuses' = Statuses)
<1>0. /\ call \in [Callers -> Call] /\ call[c] \in Call /\ run \in Run
      /\ step \in [Steps -> Step] /\ Steps \subseteq Nat /\ c \in Callers
      /\ call[c].todo \subseteq Steps
      /\ call[c].pc \in SteppingPc => call[c].step \in Steps
      /\ PcRun(c) /\ PcStep(c) /\ Rows(c)
  BY WorkflowAssumption DEF CallsTyped, RowsTyped, Steps, Run, Call, Keeping
<1> DEFINE Goal == Contract!ContractNext \/ (run'.status = run.status /\ Statuses' = Statuses)
<1> USE DEF Looping
<1>1. ASSUME run' = run, step' = step PROVE Goal BY <1>1 DEF Statuses
<1>2. CASE Control(c) \/ Execute(c)
  <2>1. run' = run /\ step' = step
    BY <1>2 DEF Control, Execute, PauseRun, CancelRun, SkipStep, StartRun, ExecuteRun, ResumeRun,
       RetryWorkflow, RetryStep, Enter, EnterStep
  <2>2. QED BY <1>1, <2>1
<1>3. CASE SyncFailed(c) \/ SyncSucceeded(c) \/ LeaveLoop(c) \/ Pick(c) \/ SyncStarted(c)
  <2>1. run' = run /\ step' = step
    BY <1>3 DEF SyncFailed, SyncSucceeded, LeaveLoop, Pick, SyncStarted
  <2>2. QED BY <1>1, <2>1
<1>4. CASE RecordOutput(c)
  <2>1. run'.status = run.status /\ step' = step BY <1>0, <1>4 DEF RecordOutput, Run
  <2>2. QED BY <2>1 DEF Statuses
\* The moves of the run.
<1>5. ASSUME NEW to \in {"queued", "running", "cancelled", "retrying", "failed"},
             run'.status = to, step' = step,
             \/ run.status = "pending" /\ to \in {"queued", "cancelled"}
             \/ run.status \in {"queued", "retrying"} /\ to = "running"
             \/ run.status = "failed" /\ to \in {"retrying", "cancelled"}
             \/ run.status = "running" /\ to = "failed"
      PROVE  Goal
  <2>1. to \in WorkflowTransitions[run.status] /\ to \in WorkflowStatus /\ to # "succeeded"
    BY <1>5 DEF WorkflowTransitions, CommonMoves, WorkflowStatus
  <2>2. QED BY <1>5, <2>1, RunMoves
<1>6. CASE Queue(c) \/ SetRunning(c) \/ SaveCancelled(c) \/ SaveRetrying(c)
  <2>1. /\ step' = step
        /\ \/ run.status = "pending" /\ run'.status \in {"queued", "cancelled"}
           \/ run.status \in {"queued", "retrying"} /\ run'.status = "running"
           \/ run.status = "failed" /\ run'.status \in {"retrying", "cancelled"}
    BY <1>0, <1>6 DEF Queue, SetRunning, SaveCancelled, SaveRetrying, PcRun, Run
  <2>2. QED BY <1>5, <2>1
<1>7. CASE SaveRunRetrying(c)
  <2>1. /\ step' = step
        /\ run' = run \/ (run.status = "failed" /\ run'.status = "retrying")
    BY <1>0, <1>7 DEF SaveRunRetrying, PcRun, Run, May, WorkflowTransitions, CommonMoves,
       WorkflowStatus
  <2>2. QED BY <1>1, <1>5, <2>1
<1>8. CASE FailRun(c)
  <2>1. /\ step' = step
        /\ run'.status = run.status \/ (run.status = "running" /\ run'.status = "failed")
    BY <1>0, <1>8 DEF FailRun, PcRun, Run
  <2>2. QED BY <1>5, <2>1 DEF Statuses
<1>9. CASE CompleteRun(c)
  <2>1. step' = step /\ run.status = "running" BY <1>0, <1>9 DEF CompleteRun, PcRun
  <2>2. run' = run \/ (run'.status = "succeeded" /\ In(SettledStatuses) = Steps)
    BY <1>0, <1>9 DEF CompleteRun, Run
  <2>3. "succeeded" \in WorkflowTransitions["running"] /\ "succeeded" \in WorkflowStatus
    BY DEF WorkflowTransitions, CommonMoves, WorkflowStatus
  <2>4. QED BY <1>1, <2>1, <2>2, <2>3, RunMoves
\* The moves of the steps.
<1>10. ASSUME NEW s \in Steps, NEW to \in {"succeeded", "failed", "retrying", "skipped"},
              run'.status = run.status,
              \A t \in Steps : step'[t].status = IF t = s THEN to ELSE step[t].status,
              \/ step[s].status = "running" /\ to \in {"succeeded", "failed"}
              \/ step[s].status = "failed" /\ to \in {"retrying", "skipped"}
              \/ step[s].status = "pending" /\ to = "skipped"
       PROVE  Goal
  <2>1. to \in StepTransitions[step[s].status] /\ to \in WorkflowStatus \ {"running"}
    BY <1>10 DEF StepTransitions, CommonMoves, WorkflowStatus
  <2>2. QED BY <1>10, <2>1, StepMoves
<1>11. CASE AdapterSucceeds(c) \/ AdapterFails(c)
  <2>1. PICK to \in {"succeeded", "failed"} :
          /\ step' = [step EXCEPT ![call[c].step].status = to]
          /\ run' = run /\ call[c].pc = "adapter"
    BY <1>11 DEF AdapterSucceeds, AdapterFails, SaveStatus
  <2>2. call[c].step \in Steps /\ step[call[c].step].status = "running"
    BY <1>0, <2>1 DEF PcStep, SteppingPc
  <2>3. \A t \in Steps : step'[t].status = IF t = call[c].step THEN to ELSE step[t].status
    BY <1>0, <2>1 DEF Step
  <2>4. QED BY <1>10, <2>1, <2>2, <2>3
<1>12. CASE RetryInLoop(c)
  <2>1. call[c].pc = "error" /\ run'.status = run.status BY <1>0, <1>12 DEF RetryInLoop, Run
  <2>2. /\ call[c].step \in Steps /\ step[call[c].step].status = "failed"
        /\ call[c].copy.status = "failed"
    BY <1>0, <2>1 DEF PcStep, SteppingPc
  <2>3. \A t \in Steps : step'[t].status =
          IF t = call[c].step THEN "retrying" ELSE step[t].status
    BY <1>0, <1>12, <2>2 DEF RetryInLoop, SaveRetry, MayStep, StepTransitions, CommonMoves,
       WorkflowStatus, Step
  <2>4. QED BY <1>10, <2>1, <2>2, <2>3
<1>13. CASE SaveStepRetrying(c)
  <2>1. call[c].pc = "retryStep" /\ run' = run BY <1>13 DEF SaveStepRetrying
  <2>2. call[c].step \in Steps /\ step[call[c].step].status = "failed"
    BY <1>0, <2>1 DEF PcStep, SteppingPc
  <2>3. \A t \in Steps : step'[t].status =
          IF t = call[c].step THEN "retrying" ELSE step[t].status
    BY <1>0, <1>13, <2>2 DEF SaveStepRetrying
  <2>4. QED BY <1>10, <2>1, <2>2, <2>3
<1>14. CASE SaveSkipped(c)
  <2>1. call[c].pc = "skip" /\ run' = run BY <1>14 DEF SaveSkipped
  <2>2. call[c].step \in Steps /\ step[call[c].step].status \in {"pending", "failed"}
    BY <1>0, <2>1 DEF PcStep, SteppingPc
  <2>3. \A t \in Steps : step'[t].status =
          IF t = call[c].step THEN "skipped" ELSE step[t].status
    BY <1>0, <1>14, <2>2 DEF SaveSkipped, Step
  <2>4. QED BY <1>10, <2>1, <2>2, <2>3
<1>15. CASE ResetStep(c)
  <2>1. call[c].pc = "reset" /\ run' = run /\ run.status = "retrying"
    BY <1>0, <1>15 DEF ResetStep, PcRun
  <2>2. CASE call[c].todo = {} BY <1>1, <1>15, <2>2, <2>1 DEF ResetStep
  <2>3. CASE call[c].todo # {}
    <3>1. PICK s \in call[c].todo : s = Min(call[c].todo) BY <1>0, <2>3, MinStep
    <3>2. s \in Steps /\ step[s].status = "failed" BY <1>0, <2>1, <3>1 DEF PcStep, In
    <3>3. \A t \in Steps : step'[t].status = IF t = s THEN "pending" ELSE step[t].status
      BY <1>0, <1>15, <2>3, <3>1, <3>2 DEF ResetStep, Step
    <3>4. Contract!ResetStep(s) BY <2>1, <3>2, <3>3 DEF Contract!ResetStep
    <3>5. QED BY <3>2, <3>4 DEF Contract!ContractNext
  <2>4. QED BY <2>2, <2>3
<1>16. CASE CancelSteps(c)
  <2>1. call[c].pc = "cancelSteps" /\ run' = run /\ run.status = "cancelled"
    BY <1>0, <1>16 DEF CancelSteps, PcRun
  <2>2. \A s \in Steps : step'[s].status =
          IF step[s].status \in OpenStatuses THEN "cancelled" ELSE step[s].status
    BY <1>0, <1>16 DEF CancelSteps, Step
  <2>3. Contract!CancelSteps
    BY <2>1, <2>2 DEF Contract!CancelSteps, Contract!OpenStatuses, OpenStatuses,
       Contract!ExecutableStatuses, ExecutableStatuses
  <2>4. QED BY <2>3 DEF Contract!ContractNext
<1>17. CASE StartStep(c)
  <2>1. call[c].pc = "picked" /\ run' = run BY <1>17 DEF StartStep
  <2>2. /\ call[c].step \in Steps
        /\ step[call[c].step].status \in {"pending", "retrying"}
        /\ run.status = "running"
    BY <1>0, <2>1 DEF PcStep, SteppingPc, PcRun
  <2>3. \A t \in Steps : step'[t].status =
          IF t = call[c].step THEN "running" ELSE step[t].status
    BY <1>0, <1>17, <2>2 DEF StartStep, SaveStatus, Step
  <2>4. ASSUME NEW t \in Steps, t < call[c].step
        PROVE  step[t].status \in {"succeeded", "skipped"}
    BY <1>0, <2>1, <2>4, PriorDone DEF Keeping
  <2>5. PICK s \in Steps : s = call[c].step BY <2>2
  <2>6. Contract!StartStep(s)
    BY <1>0, <2>1, <2>2, <2>3, <2>4, <2>5 DEF Contract!StartStep, Contract!StepTransitions,
       Contract!CommonMoves, Contract!WorkflowStatus
  <2>7. QED BY <2>6 DEF Contract!ContractNext
<1>18. QED BY <1>2, <1>3, <1>4, <1>6, <1>7, <1>8, <1>9, <1>11, <1>12, <1>13, <1>14,
     <1>15,
     <1>16, <1>17, OnlyOrdinary

\* One process, no faults: the engine implements WorkflowContract.
THEOREM ContractImplemented ==
  ASSUME NEW CONSTANT c, Callers = {c}, Faults = {}
  PROVE  Spec => ImplementsContract
<1>1. Init => Contract!ContractInit BY DEF Init, Contract!ContractInit, NewStep
<1>2. TypeOK /\ Legal /\ Keeping(c) /\ [Next]_vars
        => [Contract!ContractNext]_<<run.status, Statuses>>
  <2> SUFFICES ASSUME TypeOK, Legal, Keeping(c), [Next]_vars
               PROVE  \/ Contract!ContractNext
                      \/ run'.status = run.status /\ Statuses' = Statuses
    OBVIOUS
  <2>1. CASE Next BY <2>1, ContractStep DEF TypeOK, CallsTyped, RowsTyped, Legal
  <2>2. CASE UNCHANGED vars BY <2>2 DEF vars, Statuses
  <2>3. QED BY <2>1, <2>2
<1>3. QED BY <1>1, <1>2, KeepingAlways, PTL DEF Spec, ImplementsContract, Contract!ContractSpec,
    Statuses

=============================================================================

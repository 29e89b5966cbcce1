---------------------------- MODULE JobExecution ----------------------------
(***************************************************************************)
(* What the job machinery promises about executions, with no rows, copies, *)
(* requests or task ids: a job that has been sent waits, runs in one place *)
(* at a time, and each sending gives it at most MaxRetries + 1 attempts.   *)
(***************************************************************************)
EXTENDS Naturals

CONSTANTS Jobs, MaxRetries

VARIABLES phase, attempt

execVars == <<phase, attempt>>

Phase == {"idle", "waiting", "running"}

ExecTypeOK ==
  /\ phase \in [Jobs -> Phase]
  /\ attempt \in [Jobs -> 0..MaxRetries]

ExecInit ==
  /\ phase = [j \in Jobs |-> "idle"]
  /\ attempt = [j \in Jobs |-> 0]

\* A request sends the job.
Accept(j) ==
  /\ phase[j] = "idle"
  /\ phase' = [phase EXCEPT ![j] = "waiting"]
  /\ UNCHANGED attempt

\* A worker takes it.
Start(j) ==
  /\ phase[j] = "waiting"
  /\ phase' = [phase EXCEPT ![j] = "running"]
  /\ UNCHANGED attempt

\* It is over: finished, given up, skipped because cancelled, or lost.
Leave(j) ==
  /\ phase[j] \in {"waiting", "running"}
  /\ phase' = [phase EXCEPT ![j] = "idle"]
  /\ attempt' = [attempt EXCEPT ![j] = 0]

\* A transient failure: the same task waits for its next attempt.
Reattempt(j) ==
  /\ phase[j] = "running"
  /\ attempt[j] < MaxRetries
  /\ phase' = [phase EXCEPT ![j] = "waiting"]
  /\ attempt' = [attempt EXCEPT ![j] = @ + 1]

ExecNext ==
  \E j \in Jobs : Accept(j) \/ Start(j) \/ Leave(j) \/ Reattempt(j)

ExecSpec == ExecInit /\ [][ExecNext]_execVars

=============================================================================

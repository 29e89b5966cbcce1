---------------------------- MODULE JobLifecycle ----------------------------
(***************************************************************************)
(* The life of background jobs: the Job rows in the database, the requests *)
(* that create, retry, sweep and cancel them, and the Celery deliveries    *)
(* that execute them.                                                      *)
(*                                                                         *)
(* The database row is shared; nobody locks it.  Every request and every   *)
(* execution reads the row once into a Python object and later saves       *)
(* selected columns of that object (save(update_fields=...)).  The model   *)
(* therefore has one action per database or broker round trip and gives    *)
(* each process its own, possibly stale, copy of the row.                  *)
(***************************************************************************)
EXTENDS Naturals, FiniteSets, FiniteSetsExt

CONSTANTS
  NumJobs,        \* jobs are created in the order 1..NumJobs   (bound)
  NumDeliveries,  \* Celery tasks that may ever be sent         (bound)
  Clients,        \* processes that serve API / admin requests
  Sweepers,       \* the clients that also run the retry sweep
  MaxRetries,     \* CELERY_TASK_MAX_RETRIES
  SweepLimit,     \* list_failed_jobs(limit=...)
  Milestones,     \* progress percentages a handler reports
  Faults          \* the faults that may occur, a subset of FaultKinds

FaultKinds == {"worker", "client", "broker"}

ASSUME JobAssumption ==
  /\ NumJobs \in Nat \ {0}
  /\ NumDeliveries \in Nat \ {0}
  /\ Sweepers \subseteq Clients
  /\ MaxRetries \in Nat
  /\ SweepLimit \in Nat
  /\ Milestones \subseteq 0..100
  /\ Faults \subseteq FaultKinds

Jobs == 1..NumJobs
Deliveries == 1..NumDeliveries
NoTask == 0

VARIABLES
  row,     \* job -> the row of table scheduler_job
  task,    \* delivery -> the Celery task with that id
  client   \* client -> the request it is serving

vars == <<row, task, client>>

-----------------------------------------------------------------------------
(* The data.                                                               *)

JobStatus == {"pending", "queued", "running", "succeeded",
              "failed", "retrying", "cancelled"}
CancellableStatuses == {"pending", "queued", "retrying"}
\* Mutant: jobs that Celery is about to retry may be retried by hand too.
RetryableOrRetrying == {"failed", "retrying"}
RetryableStatuses == {"failed"}
TerminalStatuses == {"succeeded", "failed", "cancelled"}

\* "none": the row does not exist yet.
Row == [status : JobStatus \cup {"none"}, progress : 0..100,
        retries : Nat, taskId : {NoTask} \cup Deliveries,
        completed : BOOLEAN]

\* What a process keeps of a row it has read: the columns that some later
\* guard or save of the same object looks at.
Copy == [status : JobStatus \cup {"none"}, progress : 0..100, retries : Nat]

View(r) == [status |-> r.status, progress |-> r.progress,
            retries |-> r.retries]

NoJob == 0
NoRow == [status |-> "none", progress |-> 0, retries |-> 0,
          taskId |-> NoTask, completed |-> FALSE]

\* A Celery task: "unused" ids, "waiting" messages, "loaded" (the runner has
\* read the row), "executing" (inside the handler), "raised" (a transient
\* error is on its way to Celery's autoretry), "gone".
TaskState == {"unused", "waiting", "loaded", "executing", "raised", "gone"}
\* The outcome of the task's latest attempt.
TaskResult == {"none", "ok", "skipped", "permanent", "transient", "lost"}
Task == [job : Jobs \cup {NoJob}, state : TaskState, attempt : Nat,
         copy : Copy, result : TaskResult]

UnusedTask == [job |-> NoJob, state |-> "unused", attempt |-> 0,
               copy |-> View(NoRow), result |-> "none"]

\* A request: creating or retrying a job and sending it ("dispatch", then
\* "sent"), working through the failed jobs it has loaded ("retry"), or
\* cancelling ("cancel").
ClientPc == {"idle", "dispatch", "sent", "retry", "cancel"}
Item == [job : Jobs, copy : Copy]
Client == [pc : ClientPc, job : Jobs \cup {NoJob}, copy : Copy,
           sent : {NoTask} \cup Deliveries, todo : SUBSET Item]

\* A task that has left the worker for good keeps nothing but its outcome.
Gone(t, result) ==
  [t EXCEPT !.state = "gone", !.copy = View(NoRow), !.result = result]

IdleClient == [pc |-> "idle", job |-> NoJob, copy |-> View(NoRow),
               sent |-> NoTask, todo |-> {}]

Types ==
  /\ row \in [Jobs -> Row]
  /\ task \in [Deliveries -> Task]
  /\ client \in [Clients -> Client]

\* A task that was sent, and a request that acts on one job, has a job.
Assigned ==
  /\ \A d \in Deliveries : task[d].state # "unused" => task[d].job \in Jobs
  /\ \A c \in Clients : client[c].pc \in {"dispatch", "sent", "cancel"}
                           => client[c].job \in Jobs

\* The type invariant.
TypeOK == Types /\ Assigned

Live(d) == task[d].state \in {"waiting", "loaded", "executing", "raised"}
LiveFor(j) == {d \in Deliveries : task[d].job = j /\ Live(d)}
Larger(a, b) == IF a > b THEN a ELSE b

Init ==
  /\ row = [j \in Jobs |-> NoRow]
  /\ task = [d \in Deliveries |-> UnusedTask]
  /\ client = [c \in Clients |-> IdleClient]

-----------------------------------------------------------------------------
(* The bound on deliveries: a request starts only while there are ids left *)
(* for everything the requests under way may still send, so that no        *)
(* request is ever stopped half way by the bound.                          *)

Unused == {d \in Deliveries : task[d].state = "unused"}
Owed(c) == Cardinality(client[c].todo)
             + IF client[c].pc = "dispatch" THEN 1 ELSE 0
Room(n) ==
  Cardinality(Unused) >= n + MapThenSumSet(Owed, Clients)

-----------------------------------------------------------------------------
(* Requests: the API, the admin and the beat entrypoints.                  *)

\* JobDispatchService.create_and_dispatch: create_job inserts the row.
CreateJob(c, j) ==
  /\ client[c].pc = "idle"
  /\ row[j].status = "none"
  /\ \A i \in Jobs : i < j => row[i].status # "none"
  /\ Room(1)
  /\ row' = [row EXCEPT ![j] = [NoRow EXCEPT !.status = "pending"]]
  /\ client' = [client EXCEPT ![c] =
       [IdleClient EXCEPT !.pc = "dispatch", !.job = j,
                          !.copy = View(row'[j])]]
  /\ UNCHANGED task

\* Mutant: the message is sent without the job id.
SendTaskWithoutJob(c, d) ==
  /\ client[c].pc = "dispatch"
  /\ d \in Unused
  /\ \A e \in Unused : d <= e
  /\ task' = [task EXCEPT ![d] = [UnusedTask EXCEPT !.state = "waiting"]]
  /\ client' = [client EXCEPT ![c].pc = "sent", ![c].sent = d]
  /\ UNCHANGED row

\* task.delay(job_id): the broker accepts the message under a fresh id.
SendTask(c, d) ==
  /\ client[c].pc = "dispatch"
  /\ d \in Unused
  /\ \A e \in Unused : d <= e
  /\ task' = [task EXCEPT ![d] =
       [UnusedTask EXCEPT !.job = client[c].job, !.state = "waiting"]]
  /\ client' = [client EXCEPT ![c].pc = "sent", ![c].sent = d]
  /\ UNCHANGED row

\* The request goes on with the next loaded job, or returns.
Continue(todo) ==
  IF todo = {}
    THEN IdleClient
    ELSE [IdleClient EXCEPT !.pc = "retry", !.todo = todo]

\* JobService.mark_queued, called after delay() on the object in memory.
MarkQueued(c) ==
  /\ client[c].pc = "sent"
  /\ row' = [row EXCEPT ![client[c].job] =
       [@ EXCEPT !.status = "queued", !.taskId = client[c].sent,
                 !.progress = Larger(client[c].copy.progress, 2)]]
  /\ client' = [client EXCEPT ![c] = Continue(client[c].todo)]
  /\ UNCHANGED task

\* JobViewSet.retry and AdminJobDispatchService.retry_job: get_object.
LoadForRetry(c, j) ==
  /\ client[c].pc = "idle"
  /\ row[j].status # "none"
  /\ Room(1)
  /\ client' = [client EXCEPT ![c] = [IdleClient EXCEPT !.pc = "retry",
       !.todo = {[job |-> j, copy |-> View(row[j])]}]]
  /\ UNCHANGED <<row, task>>

\* JobService.list_failed_jobs: the newest SweepLimit failed rows.
Failed == {j \in Jobs : row[j].status = "failed"}
Listed ==
  {j \in Failed : Cardinality({i \in Failed : i > j}) < SweepLimit}

ListFailed(c) ==
  /\ c \in Sweepers
  /\ client[c].pc = "idle"
  /\ Listed # {}
  /\ Room(Cardinality(Listed))
  /\ client' = [client EXCEPT ![c] = [IdleClient EXCEPT !.pc = "retry",
       !.todo = {[job |-> j, copy |-> View(row[j])] : j \in Listed}]]
  /\ UNCHANGED <<row, task>>

\* The next item: the sweep walks the newest job first, a request of the
\* API has loaded one.
NextItem(c) ==
  {i \in client[c].todo : \A k \in client[c].todo : k.job <= i.job}

\* JobService.retry_job decides on the object in memory.
MayRetry(copy) ==
  /\ copy.status \in RetryableStatuses
  /\ copy.retries < MaxRetries

\* retry_job resets the row; retry_count and progress stay as they are.
ResetForRetry(c) ==
  /\ client[c].pc = "retry"
  /\ \E i \in NextItem(c) :
       /\ MayRetry(i.copy)
       /\ row' = [row EXCEPT ![i.job] =
            [@ EXCEPT !.status = "pending", !.completed = FALSE,
                      !.taskId = NoTask]]
       /\ client' = [client EXCEPT ![c] =
            [pc |-> "dispatch", job |-> i.job,
             copy |-> [i.copy EXCEPT !.status = "pending"],
             sent |-> NoTask, todo |-> client[c].todo \ {i}]]
  /\ UNCHANGED task

\* JobRetryError -> 409 for a request; the sweep skips the job.
RefuseRetry(c) ==
  /\ client[c].pc = "retry"
  /\ \E i \in NextItem(c) :
       /\ ~ MayRetry(i.copy)
       /\ client' = [client EXCEPT ![c] = Continue(client[c].todo \ {i})]
  /\ UNCHANGED <<row, task>>

\* JobViewSet.cancel: get_object.
LoadForCancel(c, j) ==
  /\ client[c].pc = "idle"
  /\ row[j].status # "none"
  /\ client' = [client EXCEPT ![c] =
       [IdleClient EXCEPT !.pc = "cancel", !.job = j,
                          !.copy = View(row[j])]]
  /\ UNCHANGED <<row, task>>

\* JobService.mark_cancelled checks the object in memory.
MarkCancelled(c) ==
  /\ client[c].pc = "cancel"
  /\ row' = IF client[c].copy.status \in CancellableStatuses
              THEN [row EXCEPT ![client[c].job] =
                     [@ EXCEPT !.status = "cancelled", !.completed = TRUE]]
              ELSE row
  /\ client' = [client EXCEPT ![c] = IdleClient]
  /\ UNCHANGED task

-----------------------------------------------------------------------------
(* Executions: a worker runs JobTaskRunner.run under job_task's autoretry. *)

\* Mutant: the runner executes a cancelled job.
ReceiveCancelled(d) ==
  /\ task[d].state = "waiting"
  /\ task' = [task EXCEPT ![d].state = "loaded",
                          ![d].copy = View(row[task[d].job])]
  /\ UNCHANGED <<row, client>>

\* get_job; a cancelled job is skipped.
Receive(d) ==
  LET r == row[task[d].job] IN
  /\ task[d].state = "waiting"
  /\ task' = [task EXCEPT ![d] =
       IF r.status = "cancelled"
         THEN Gone(@, "skipped")
         ELSE [@ EXCEPT !.state = "loaded", !.copy = View(r)]]
  /\ UNCHANGED <<row, client>>

\* mark_running, on the object read by Receive.
MarkRunning(d) ==
  LET p == Larger(task[d].copy.progress, 5) IN
  /\ task[d].state = "loaded"
  /\ row' = [row EXCEPT ![task[d].job] =
       [@ EXCEPT !.status = "running", !.progress = p]]
  /\ task' = [task EXCEPT ![d].state = "executing",
                          ![d].copy.status = "running",
                          ![d].copy.progress = p]
  /\ UNCHANGED client

\* update_progress, from inside a handler.
ReportProgress(d, p) ==
  /\ task[d].state = "executing"
  /\ row' = [row EXCEPT ![task[d].job].progress = p]
  /\ task' = [task EXCEPT ![d].copy.progress = p]
  /\ UNCHANGED client

\* Mutant: mark_succeeded leaves the progress where the handler left it.
SucceedKeepingProgress(d) ==
  /\ task[d].state = "executing"
  /\ row' = [row EXCEPT ![task[d].job] =
       [@ EXCEPT !.status = "succeeded", !.completed = TRUE]]
  /\ task' = [task EXCEPT ![d] = Gone(@, "ok")]
  /\ UNCHANGED client

\* The handler returns: mark_succeeded.
Succeed(d) ==
  /\ task[d].state = "executing"
  /\ row' = [row EXCEPT ![task[d].job] =
       [@ EXCEPT !.status = "succeeded", !.progress = 100,
                 !.completed = TRUE]]
  /\ task' = [task EXCEPT ![d] = Gone(@, "ok")]
  /\ UNCHANGED client

\* JobPermanentError or any other exception (the soft time limit is one):
\* mark_failed, and Celery does not retry.
FailPermanently(d) ==
  /\ task[d].state = "executing"
  /\ row' = [row EXCEPT ![task[d].job] =
       [@ EXCEPT !.status = "failed", !.completed = TRUE]]
  /\ task' = [task EXCEPT ![d] = Gone(@, "permanent")]
  /\ UNCHANGED client

\* Mutant: retry_count <= task_max_retries.
FailTransientlyOnceMore(d) ==
  LET tries == task[d].copy.retries IN
  /\ task[d].state = "executing"
  /\ row' = [row EXCEPT ![task[d].job] =
       IF tries <= MaxRetries
         THEN [@ EXCEPT !.status = "retrying", !.retries = tries + 1]
         ELSE [@ EXCEPT !.status = "failed", !.completed = TRUE]]
  /\ task' = [task EXCEPT ![d] =
       [Gone(@, "transient") EXCEPT !.state = "raised"]]
  /\ UNCHANGED client

\* JobTransientError: mark_retrying, or mark_failed when the copy's
\* retry_count is used up; the exception goes on to Celery either way.
FailTransiently(d) ==
  LET tries == task[d].copy.retries IN
  /\ task[d].state = "executing"
  /\ row' = [row EXCEPT ![task[d].job] =
       IF tries < MaxRetries
         THEN [@ EXCEPT !.status = "retrying", !.retries = tries + 1]
         ELSE [@ EXCEPT !.status = "failed", !.completed = TRUE]]
  /\ task' = [task EXCEPT ![d] =
       [Gone(@, "transient") EXCEPT !.state = "raised"]]
  /\ UNCHANGED client

\* Mutant: max_retries is one less than the runner's limit.
CeleryRetryOnceLess(d) ==
  /\ task[d].state = "raised"
  /\ task' = [task EXCEPT ![d] =
       IF task[d].attempt + 1 < MaxRetries
         THEN [@ EXCEPT !.state = "waiting", !.attempt = task[d].attempt + 1]
         ELSE [@ EXCEPT !.state = "gone"]]
  /\ UNCHANGED <<row, client>>

\* Mutant: max_retries=None, Celery retries without a limit.
CeleryRetryForever(d) ==
  /\ task[d].state = "raised"
  /\ task' = [task EXCEPT ![d].state = "waiting"]
  /\ UNCHANGED <<row, client>>

\* autoretry_for=(JobTransientError,), max_retries=MaxRetries: Celery counts
\* the attempts of the task, not of the job.
CeleryRetry(d) ==
  /\ task[d].state = "raised"
  /\ task' = [task EXCEPT ![d] =
       IF task[d].attempt < MaxRetries
         THEN [@ EXCEPT !.state = "waiting", !.attempt = task[d].attempt + 1]
         ELSE [@ EXCEPT !.state = "gone"]]
  /\ UNCHANGED <<row, client>>

-----------------------------------------------------------------------------
(* Faults.                                                                 *)

\* The worker process dies or the hard time limit kills it.  The message
\* was acknowledged on receipt (acks_late is off), so the task is lost.
WorkerLost(d) ==
  /\ "worker" \in Faults
  /\ task[d].state \in {"loaded", "executing", "raised"}
  /\ task' = [task EXCEPT ![d] = Gone(@, "lost")]
  /\ UNCHANGED <<row, client>>

\* The process serving a request dies between two round trips.
ClientLost(c) ==
  /\ "client" \in Faults
  /\ client[c].pc # "idle"
  /\ client' = [client EXCEPT ![c] = IdleClient]
  /\ UNCHANGED <<row, task>>

\* delay() raises (the broker is down): the request fails with the row
\* already saved, and a sweep stops there.
SendFails(c) ==
  /\ "broker" \in Faults
  /\ client[c].pc = "dispatch"
  /\ client' = [client EXCEPT ![c] = IdleClient]
  /\ UNCHANGED <<row, task>>

-----------------------------------------------------------------------------
Finish(d) == Succeed(d) \/ FailPermanently(d) \/ FailTransiently(d)

Execution(d) ==
  \/ Receive(d)
  \/ MarkRunning(d)
  \/ \E p \in Milestones : ReportProgress(d, p)
  \/ Finish(d)
  \/ CeleryRetry(d)
  \/ WorkerLost(d)

Request(c) ==
  \/ \E j \in Jobs : CreateJob(c, j) \/ LoadForRetry(c, j)
                                     \/ LoadForCancel(c, j)
  \/ \E d \in Deliveries : SendTask(c, d)
  \/ MarkQueued(c)
  \/ ListFailed(c)
  \/ ResetForRetry(c)
  \/ RefuseRetry(c)
  \/ MarkCancelled(c)
  \/ ClientLost(c)
  \/ SendFails(c)

Next ==
  \/ \E c \in Clients : Request(c)
  \/ \E d \in Deliveries : Execution(d)

Spec == Init /\ [][Next]_vars

\* Workers that are up take the messages and handlers return or raise (the
\* time limits see to it); a request that has begun runs to its end.  No
\* user is obliged to start a request.
Fairness ==
  /\ \A d \in Deliveries :
       WF_vars(Receive(d) \/ MarkRunning(d) \/ Finish(d) \/ CeleryRetry(d))
  /\ \A c \in Clients :
       /\ WF_vars(\E d \in Deliveries : SendTask(c, d))
       /\ WF_vars(MarkQueued(c) \/ ResetForRetry(c) \/ RefuseRetry(c)
                                \/ MarkCancelled(c))

FairSpec == Spec /\ Fairness

-----------------------------------------------------------------------------
(* Properties that hold whatever the interleaving and the faults.          *)

\* retry_count never exceeds the configured maximum, although mark_retrying
\* writes copy + 1 from a copy that may be stale, and although Celery counts
\* its own attempts separately.
RetryBudget ==
  /\ \A j \in Jobs : row[j].retries <= MaxRetries
  /\ \A d \in Deliveries : /\ task[d].attempt <= MaxRetries
                           /\ task[d].copy.retries <= MaxRetries

\* The tasks that were ever sent for job j.
SentFor(j) == {d \in Deliveries : task[d].job = j}

\* d will be executed (again) if nothing happens to its worker.
ComesBack(d) == task[d].state \in {"waiting", "loaded", "raised"}

\* Celery has used up its attempts at d.
GivenUp(d) == task[d].state = "gone" /\ task[d].result = "transient"

\* Work that a row promises is not forgotten, however many requests work on
\* stale objects.  A RUNNING row has a task inside the handler, or one whose
\* worker was lost; a RETRYING row has a task that comes back, or one whose
\* worker was lost.  Only where two tasks of the job were sent (two requests
\* retried it) can the two counters disagree: the job's retry_count, written
\* from a stale copy, then leaves RETRYING what Celery has given up.
WorkIsNotForgotten == \A j \in Jobs :
  /\ row[j].status = "running" => \E d \in SentFor(j) :
       task[d].state = "executing" \/ task[d].result = "lost"
  /\ row[j].status = "retrying" =>
       \/ \E d \in SentFor(j) : ComesBack(d) \/ task[d].result = "lost"
       \/ \E d, e \in SentFor(j) : d # e /\ GivenUp(d)

\* c still holds an object of job j that it may save, or send a task for.
StaleWriter(c, j) ==
  \/ client[c].pc \in {"dispatch", "sent"} /\ client[c].job = j
  \/ \E i \in client[c].todo : i.job = j /\ MayRetry(i.copy)
  \/ /\ client[c].pc = "cancel" /\ client[c].job = j
     /\ client[c].copy.status \in CancellableStatuses

Settled(j) ==
  /\ \A c \in Clients : ~ StaleWriter(c, j)
  /\ \/ /\ row[j].status = "cancelled"
        /\ \A d \in LiveFor(j) : task[d].state \in {"waiting", "raised"}
     \/ row[j].status = "succeeded" /\ LiveFor(j) = {}

KeepsSettled == \A j \in Jobs :
  Settled(j) => row'[j] = row[j] /\ Settled(j)'

\* A cancelled or succeeded job stays so, and no worker ever executes it
\* again, once the processes that had read its row earlier are done with
\* their copies: the only way out of these states is a stale copy.
SettledIsFinal == [][KeepsSettled]_vars

\* Every Celery task ends: neither the retries of the broker nor those of
\* the job keep a message in circulation for ever.
BrokerDrains ==
  \A d \in Deliveries : Live(d) ~> task[d].state = "gone"

-----------------------------------------------------------------------------
(* Properties of a deployment in which at most one request is served at a  *)
(* time (Clients a singleton); the workers still race with that request.   *)

\* At most one Celery task is in circulation for a job.
SingleFlight == \A j \in Jobs : Cardinality(LiveFor(j)) <= 1

\* While no worker dies, a job that says RETRYING or RUNNING has the task
\* that will finish the work: the job's retry_count and Celery's own count
\* of attempts, though kept apart, never disagree about who gives up first.
WorkIsScheduled == \A j \in Jobs :
  row[j].status \in {"retrying", "running"} => LiveFor(j) # {}

\* A SUCCEEDED row is complete: 100 percent and a completion time.
SuccessIsComplete == \A j \in Jobs :
  row[j].status = "succeeded" => row[j].progress = 100 /\ row[j].completed

\* With one request at a time rows and tasks agree: one task in circulation for
\* a job, a task for every job that says it is being worked on, and complete
\* rows for the jobs whose tasks have succeeded.
RowsAndTasksAgree == SingleFlight /\ WorkIsScheduled /\ SuccessIsComplete

\* mark_queued came after the task had already run to its end.
LateMark(j) ==
  /\ row[j].status = "queued"
  /\ task[row[j].taskId].state = "gone"

\* A task in circulation brings its job to a terminal status, unless the
\* request that sent it marks it QUEUED after its execution has ended.
OnlyLateMarksStrand ==
  \A j \in Jobs : LiveFor(j) # {} ~>
                  (row[j].status \in TerminalStatuses \/ LateMark(j))

-----------------------------------------------------------------------------
(* With one request at a time the lifecycle implements JobExecution: a job *)
(* is where its task in circulation is.                                    *)

TaskOf(j) == CHOOSE d \in LiveFor(j) : TRUE

PhaseOf(j) ==
  IF LiveFor(j) = {} THEN "idle"
  ELSE IF task[TaskOf(j)].state = "waiting" THEN "waiting" ELSE "running"

AttemptOf(j) == IF LiveFor(j) = {} THEN 0 ELSE task[TaskOf(j)].attempt

Exec == INSTANCE JobExecution
  WITH phase <- [j \in Jobs |-> PhaseOf(j)],
       attempt <- [j \in Jobs |-> AttemptOf(j)]

\* One sending of a job is never executed in two places at once, and has at
\* most MaxRetries + 1 attempts: the tasks, runner and requests together
\* implement the abstract execution of JobExecution.
ImplementsExecution == Exec!ExecSpec

=============================================================================

------------------------ MODULE JobsAndWritingProofs ------------------------
(***************************************************************************)
(* Theorems about JobLifecycle, for every number of jobs, deliveries and   *)
(* clients, every retry limit and every set of faults; and about           *)
(* ScriptWriting, which is what a script job executes, for every set of    *)
(* articles, whatever they say and whatever the model answers.             *)
(***************************************************************************)
EXTENDS JobLifecycle, ScriptWriting, FiniteSetTheorems, SequenceTheorems,
        WellFoundedInduction, TLAPS

-----------------------------------------------------------------------------
(* The records the actions build.                                          *)

\* What a process keeps of a row it reads has the type of a copy.
LEMMA ViewType == ASSUME NEW r \in Row PROVE View(r) \in Copy
  BY DEF View, Row, Copy

\* The constant records have the types of their tables.
LEMMA EmptyTypes ==
  /\ NoRow \in Row
  /\ View(NoRow) \in Copy
  /\ UnusedTask \in Task
  /\ IdleClient \in Client
<1>1. NoRow \in Row BY JobAssumption DEF NoRow, Row, NoTask
<1>2. View(NoRow) \in Copy BY <1>1, ViewType
<1>3. UnusedTask \in Task BY <1>2 DEF UnusedTask, Task, NoJob, TaskState, TaskResult
<1>4. IdleClient \in Client BY <1>2 DEF IdleClient, Client, ClientPc, NoJob, NoTask
<1>5. QED BY <1>1, <1>2, <1>3, <1>4

\* Leaving the worker keeps the type of a task.
LEMMA GoneType ==
  ASSUME NEW t \in Task, NEW r \in TaskResult
  PROVE  Gone(t, r) \in Task
  BY EmptyTypes DEF Gone, Task, TaskState

\* Maxima of percentages are percentages.
LEMMA LargerType ==
  ASSUME NEW a \in 0..100, NEW b \in 0..100
  PROVE  Larger(a, b) \in 0..100
  BY DEF Larger

\* A request that goes on has the type of a client.
LEMMA ContinueType ==
  ASSUME NEW todo \in SUBSET Item
  PROVE  Continue(todo) \in Client
  BY EmptyTypes DEF Continue, IdleClient, Client, ClientPc

-----------------------------------------------------------------------------
(* Type correctness.                                                       *)

\* A request's step keeps the tables typed.
LEMMA RequestType ==
  ASSUME TypeOK, NEW c \in Clients, Request(c)
  PROVE  Types'
<1>1. /\ row \in [Jobs -> Row]
      /\ task \in [Deliveries -> Task]
      /\ client \in [Clients -> Client]
      /\ client[c] \in Client
  BY DEF TypeOK, Types
<1>2. ASSUME NEW j \in Jobs, CreateJob(c, j) PROVE Types'
  <2>1. [NoRow EXCEPT !.status = "pending"] \in Row BY EmptyTypes DEF NoRow, Row, JobStatus
  <2>2. row' \in [Jobs -> Row] BY <1>1, <1>2, <2>1 DEF CreateJob
  <2>3. View(row'[j]) \in Copy BY <2>2, ViewType
  <2>4. [IdleClient EXCEPT !.pc = "dispatch", !.job = j,
                           !.copy = View(row'[j])] \in Client
    BY <2>3, EmptyTypes DEF IdleClient, Client, ClientPc
  <2>5. QED BY <1>1, <1>2, <2>2, <2>4 DEF CreateJob, Types
<1>3. ASSUME NEW j \in Jobs, LoadForRetry(c, j) PROVE Types'
  <2>1. [job |-> j, copy |-> View(row[j])] \in Item BY <1>1, ViewType DEF Item
  <2>2. [IdleClient EXCEPT !.pc = "retry",
           !.todo = {[job |-> j, copy |-> View(row[j])]}] \in Client
    BY <2>1, EmptyTypes DEF IdleClient, Client, ClientPc
  <2>3. QED BY <1>1, <1>3, <2>2 DEF LoadForRetry, Types
<1>4. ASSUME NEW j \in Jobs, LoadForCancel(c, j) PROVE Types'
  <2>1. [IdleClient EXCEPT !.pc = "cancel", !.job = j,
                           !.copy = View(row[j])] \in Client
    BY <1>1, ViewType, EmptyTypes DEF IdleClient, Client, ClientPc
  <2>2. QED BY <1>1, <1>4, <2>1 DEF LoadForCancel, Types
<1>5. ASSUME NEW d \in Deliveries, SendTask(c, d) PROVE Types'
  <2>1. [UnusedTask EXCEPT !.job = client[c].job, !.state = "waiting"]
          \in Task
    BY <1>1, EmptyTypes DEF UnusedTask, Task, TaskState, Client
  <2>2. [client[c] EXCEPT !.pc = "sent", !.sent = d] \in Client BY <1>1 DEF Client, ClientPc
  <2>3. client' = [client EXCEPT ![c] =
                     [client[c] EXCEPT !.pc = "sent", !.sent = d]]
    BY <1>1, <1>5 DEF SendTask
  <2>4. QED BY <1>1, <1>5, <2>1, <2>2, <2>3 DEF SendTask, Types
<1>6. CASE MarkQueued(c)
  <2> DEFINE j == client[c].job
             r == [row[j] EXCEPT !.status = "queued",
                     !.taskId = client[c].sent,
                     !.progress = Larger(client[c].copy.progress, 2)]
  <2>1. row' = [row EXCEPT ![j] = r] BY <1>6 DEF MarkQueued
  <2>2. Larger(client[c].copy.progress, 2) \in 0..100
    <3>1. client[c].copy.progress \in 0..100 BY <1>1 DEF Client, Copy
    <3>2. 2 \in 0..100
      OBVIOUS
    <3>3. QED BY <3>1, <3>2, LargerType
  <2>3. ASSUME j \in Jobs PROVE r \in Row
    <3>1. row[j] \in Row BY <1>1, <2>3
    <3>2. client[c].sent \in {NoTask} \cup Deliveries BY <1>1 DEF Client
    <3>3. QED BY <3>1, <3>2, <2>2 DEF Row, JobStatus
  <2>4. row' \in [Jobs -> Row] BY <1>1, <2>1, <2>3
  <2>5. QED BY <1>1, <1>6, <2>4, ContinueType DEF MarkQueued, Types, Client
<1>7. CASE ListFailed(c)
  <2> DEFINE todo == {[job |-> j, copy |-> View(row[j])] : j \in Listed}
  <2>1. Listed \subseteq Jobs BY DEF Listed, Failed
  <2>2. todo \subseteq Item BY <1>1, <2>1, ViewType DEF Item
  <2>3. [IdleClient EXCEPT !.pc = "retry", !.todo = todo] \in Client
    BY <2>2, EmptyTypes DEF IdleClient, Client, ClientPc
  <2>4. QED BY <1>1, <1>7, <2>3 DEF ListFailed, Types
<1>8. CASE ResetForRetry(c)
  <2>1. PICK i \in NextItem(c) :
          /\ row' = [row EXCEPT ![i.job] =
               [@ EXCEPT !.status = "pending", !.completed = FALSE,
                         !.taskId = NoTask]]
          /\ client' = [client EXCEPT ![c] =
               [pc |-> "dispatch", job |-> i.job,
                copy |-> [i.copy EXCEPT !.status = "pending"],
                sent |-> NoTask, todo |-> client[c].todo \ {i}]]
    BY <1>8 DEF ResetForRetry
  <2>2. i \in Item BY <1>1 DEF NextItem, Client
  <2>3. [row[i.job] EXCEPT !.status = "pending", !.completed = FALSE,
                           !.taskId = NoTask] \in Row
    <3>1. row[i.job] \in Row BY <1>1, <2>2 DEF Item
    <3>2. QED BY <3>1 DEF Row, JobStatus
  <2>4. [i.copy EXCEPT !.status = "pending"] \in Copy BY <2>2 DEF Item, Copy, JobStatus
  <2>5. [pc |-> "dispatch", job |-> i.job,
         copy |-> [i.copy EXCEPT !.status = "pending"],
         sent |-> NoTask, todo |-> client[c].todo \ {i}] \in Client
    BY <1>1, <2>2, <2>4 DEF Item, Client, ClientPc
  <2>6. QED BY <1>1, <1>8, <2>1, <2>3, <2>5 DEF ResetForRetry, Types
<1>9. CASE RefuseRetry(c)
  <2>1. PICK i \in NextItem(c) :
          client' = [client EXCEPT ![c] = Continue(client[c].todo \ {i})]
    BY <1>9 DEF RefuseRetry
  <2>2. Continue(client[c].todo \ {i}) \in Client BY <1>1, ContinueType DEF Client
  <2>3. QED BY <1>1, <1>9, <2>1, <2>2 DEF RefuseRetry, Types
<1>10. CASE MarkCancelled(c)
  <2>1. ASSUME client[c].job \in Jobs
        PROVE  [row[client[c].job] EXCEPT !.status = "cancelled",
                                          !.completed = TRUE] \in Row
    BY <1>1, <2>1 DEF Row, JobStatus
  <2>2. row' \in [Jobs -> Row] BY <1>1, <1>10, <2>1 DEF MarkCancelled
  <2>3. QED BY <1>1, <1>10, <2>2, EmptyTypes DEF MarkCancelled, Types
<1>11. CASE ClientLost(c) BY <1>1, <1>11, EmptyTypes DEF ClientLost, Types
<1>12. CASE SendFails(c) BY <1>1, <1>12, EmptyTypes DEF SendFails, Types
<1>13. QED BY <1>2, <1>3, <1>4, <1>5, <1>6, <1>7, <1>8, <1>9, <1>10, <1>11, <1>12 DEF Request

\* A worker's step on one task keeps the tables typed.
LEMMA ExecutionType ==
  ASSUME TypeOK, NEW d \in Deliveries, Execution(d)
  PROVE  Types'
<1> DEFINE j == task[d].job
<1>1. /\ row \in [Jobs -> Row]
      /\ task \in [Deliveries -> Task]
      /\ client \in [Clients -> Client]
      /\ task[d] \in Task
      /\ task[d].copy \in Copy
  BY DEF TypeOK, Types, Task
<1>2. task[d].state # "unused" => j \in Jobs /\ row[j] \in Row BY <1>1 DEF TypeOK, Assigned
<1> HIDE DEF j
<1>3. \A t \in Task : [task EXCEPT ![d] = t] \in [Deliveries -> Task] BY <1>1
<1>4. \A r \in Row : [row EXCEPT ![j] = r] \in [Jobs -> Row] BY <1>1
<1>5. CASE Receive(d)
  <2>1. [task[d] EXCEPT !.state = "loaded", !.copy = View(row[j])] \in Task
    BY <1>1, <1>2, <1>5, ViewType DEF Receive, Task, TaskState
  <2>2. Gone(task[d], "skipped") \in Task BY <1>1, GoneType DEF TaskResult
  <2>3. QED BY <1>1, <1>3, <1>5, <2>1, <2>2 DEF Receive, Types, j
<1>6. CASE MarkRunning(d)
  <2> DEFINE p == Larger(task[d].copy.progress, 5)
  <2>1. p \in 0..100
    <3>1. task[d].copy.progress \in 0..100 /\ 5 \in 0..100 BY <1>1 DEF Copy
    <3>2. QED BY <3>1, LargerType
  <2> HIDE DEF p
  <2>2. [row[j] EXCEPT !.status = "running", !.progress = p] \in Row
    BY <1>2, <1>6, <2>1 DEF MarkRunning, Row, JobStatus
  <2> DEFINE cp == [task[d].copy EXCEPT !.status = "running",
                                        !.progress = p]
             t == [task[d] EXCEPT !.state = "executing", !.copy = cp]
  <2>3. cp \in Copy BY <1>1, <2>1 DEF Copy, JobStatus
  <2>4. t \in Task BY <1>1, <2>3 DEF Task, TaskState
  <2>5. task' = [task EXCEPT ![d] = t] BY <1>1, <1>6 DEF MarkRunning, p, Task, Copy
  <2>6. row' = [row EXCEPT ![j] =
                 [row[j] EXCEPT !.status = "running", !.progress = p]]
    BY <1>6 DEF MarkRunning, p, j
  <2> HIDE DEF t
  <2>7. row' \in [Jobs -> Row] BY <1>4, <2>2, <2>6
  <2>8. task' \in [Deliveries -> Task] BY <1>3, <2>4, <2>5
  <2>9. QED BY <1>1, <1>6, <2>7, <2>8 DEF MarkRunning, Types
<1>7. ASSUME NEW p \in Milestones, ReportProgress(d, p) PROVE Types'
  <2>1. p \in 0..100 BY JobAssumption
  <2>2. [row[j] EXCEPT !.progress = p] \in Row BY <1>2, <1>7, <2>1 DEF ReportProgress, Row
  <2> DEFINE t == [task[d] EXCEPT !.copy =
                     [task[d].copy EXCEPT !.progress = p]]
  <2>3. t \in Task BY <1>1, <2>1 DEF Task, Copy
  <2>4. task' = [task EXCEPT ![d] = t] BY <1>1, <1>7 DEF ReportProgress, Task, Copy
  <2>5. row' = [row EXCEPT ![j] = [row[j] EXCEPT !.progress = p]] BY <1>7 DEF ReportProgress, j
  <2> HIDE DEF t
  <2>6. row' \in [Jobs -> Row] BY <1>4, <2>2, <2>5
  <2>7. task' \in [Deliveries -> Task] BY <1>3, <2>3, <2>4
  <2>8. QED BY <1>1, <1>7, <2>6, <2>7 DEF ReportProgress, Types
<1>8. CASE Succeed(d)
  <2>1. [row[j] EXCEPT !.status = "succeeded", !.progress = 100,
                       !.completed = TRUE] \in Row
    <3>1. row[j] \in Row BY <1>2, <1>8 DEF Succeed
    <3>2. 100 \in 0..100
      OBVIOUS
    <3>3. QED BY <3>1, <3>2 DEF Row, JobStatus
  <2>2. Gone(task[d], "ok") \in Task BY <1>1, GoneType DEF TaskResult
  <2>3. QED BY <1>1, <1>3, <1>4, <1>8, <2>1, <2>2 DEF Succeed, Types, j
<1>9. CASE FailPermanently(d)
  <2>1. [row[j] EXCEPT !.status = "failed", !.completed = TRUE] \in Row
    BY <1>2, <1>9 DEF FailPermanently, Row, JobStatus
  <2>2. Gone(task[d], "permanent") \in Task BY <1>1, GoneType DEF TaskResult
  <2>3. QED BY <1>1, <1>3, <1>4, <1>9, <2>1, <2>2 DEF FailPermanently, Types, j
<1>10. CASE FailTransiently(d)
  <2> DEFINE tries == task[d].copy.retries
  <2>1. tries \in Nat BY <1>1 DEF Copy
  <2>2. [row[j] EXCEPT !.status = "failed", !.completed = TRUE] \in Row
    BY <1>2, <1>10 DEF FailTransiently, Row, JobStatus
  <2>3. [row[j] EXCEPT !.status = "retrying", !.retries = tries + 1]
          \in Row
    <3>1. row[j] \in Row BY <1>2, <1>10 DEF FailTransiently
    <3>2. tries + 1 \in Nat BY <2>1
    <3> HIDE DEF tries
    <3>3. QED BY <3>1, <3>2 DEF Row, JobStatus
  <2>4. [Gone(task[d], "transient") EXCEPT !.state = "raised"] \in Task
    BY <1>1, GoneType DEF TaskResult, Task, TaskState
  <2>5. QED BY <1>1, <1>3, <1>4, <1>10, <2>2, <2>3, <2>4 DEF FailTransiently, Types, j
<1>11. CASE CeleryRetry(d)
  <2>1. /\ [task[d] EXCEPT !.state = "waiting",
                           !.attempt = task[d].attempt + 1] \in Task
        /\ [task[d] EXCEPT !.state = "gone"] \in Task
    <3>1. task[d].attempt + 1 \in Nat BY <1>1 DEF Task
    <3>2. QED BY <1>1, <3>1 DEF Task, TaskState
  <2> DEFINE t == IF task[d].attempt < MaxRetries
                     THEN [task[d] EXCEPT !.state = "waiting",
                                          !.attempt = task[d].attempt + 1]
                     ELSE [task[d] EXCEPT !.state = "gone"]
  <2>2. t \in Task BY <2>1
  <2>3. task' = [task EXCEPT ![d] = t] BY <1>1, <1>11 DEF CeleryRetry
  <2> HIDE DEF t
  <2>4. QED BY <1>1, <1>3, <1>11, <2>2, <2>3 DEF CeleryRetry, Types
<1>12. CASE WorkerLost(d)
  <2>1. Gone(task[d], "lost") \in Task BY <1>1, GoneType DEF TaskResult
  <2>2. QED BY <1>1, <1>3, <1>12, <2>1 DEF WorkerLost, Types
<1>13. QED BY <1>5, <1>6, <1>7, <1>8, <1>9, <1>10, <1>11, <1>12 DEF Execution, Finish

\* A request's step leaves every task and request with its job.
LEMMA RequestAssigned ==
  ASSUME TypeOK, NEW c \in Clients, Request(c)
  PROVE  Assigned'
<1>1. /\ task \in [Deliveries -> Task]
      /\ client \in [Clients -> Client]
      /\ client[c] \in Client
      /\ Assigned
  BY DEF TypeOK, Types
<1>2. \A todo : Continue(todo).pc \notin {"dispatch", "sent", "cancel"} BY DEF Continue, IdleClient
<1>3. IdleClient.pc \notin {"dispatch", "sent", "cancel"} BY DEF IdleClient
<1>4. ASSUME NEW j \in Jobs, CreateJob(c, j) PROVE Assigned'
  BY <1>1, <1>4 DEF CreateJob, Assigned, IdleClient
<1>5. ASSUME NEW j \in Jobs, LoadForRetry(c, j) PROVE Assigned'
  BY <1>1, <1>5 DEF LoadForRetry, Assigned, IdleClient
<1>6. ASSUME NEW j \in Jobs, LoadForCancel(c, j) PROVE Assigned'
  BY <1>1, <1>6 DEF LoadForCancel, Assigned, IdleClient
<1>7. ASSUME NEW d \in Deliveries, SendTask(c, d) PROVE Assigned'
  <2>1. client[c].job \in Jobs BY <1>1, <1>7 DEF SendTask, Assigned
  <2>2. \A e \in Deliveries :
          task'[e].state # "unused" => task'[e].job \in Jobs
    BY <1>1, <1>7, <2>1 DEF SendTask, Assigned, UnusedTask
  <2>3. \A b \in Clients : client'[b].job = client[b].job BY <1>1, <1>7 DEF SendTask, Types, Client
  <2>4. \A b \in Clients \ {c} : client'[b] = client[b] BY <1>1, <1>7 DEF SendTask
  <2>5. QED BY <1>1, <2>1, <2>2, <2>3, <2>4 DEF Assigned
<1>8. CASE MarkQueued(c) BY <1>1, <1>2, <1>8 DEF MarkQueued, Assigned
<1>9. CASE ListFailed(c) BY <1>1, <1>9 DEF ListFailed, Assigned, IdleClient
<1>10. CASE ResetForRetry(c)
  <2>1. PICK i \in NextItem(c) :
          client' = [client EXCEPT ![c] =
               [pc |-> "dispatch", job |-> i.job,
                copy |-> [i.copy EXCEPT !.status = "pending"],
                sent |-> NoTask, todo |-> client[c].todo \ {i}]]
    BY <1>10 DEF ResetForRetry
  <2>2. i.job \in Jobs BY <1>1 DEF NextItem, Client, Item
  <2>3. QED BY <1>1, <1>10, <2>1, <2>2 DEF ResetForRetry, Assigned
<1>11. CASE RefuseRetry(c) BY <1>1, <1>2, <1>11 DEF RefuseRetry, Assigned
<1>12. CASE MarkCancelled(c) BY <1>1, <1>3, <1>12 DEF MarkCancelled, Assigned
<1>13. CASE ClientLost(c) BY <1>1, <1>3, <1>13 DEF ClientLost, Assigned
<1>14. CASE SendFails(c) BY <1>1, <1>3, <1>14 DEF SendFails, Assigned
<1>15. QED BY <1>4, <1>5, <1>6, <1>7, <1>8, <1>9, <1>10, <1>11, <1>12, <1>13, <1>14 DEF Request

\* A step of a worker never changes the job of a task, nor any other task,
\* and takes only tasks in circulation.
LEMMA ExecutionFrame ==
  ASSUME TypeOK, NEW d \in Deliveries, Execution(d)
  PROVE  /\ client' = client
         /\ task[d].state # "unused"
         /\ task'[d].job = task[d].job
         /\ task' = [task EXCEPT ![d] = task'[d]]
<1>1. task \in [Deliveries -> Task] /\ task[d] \in Task BY DEF TypeOK, Types
<1>2. \A r : Gone(task[d], r).job = task[d].job BY <1>1 DEF Gone, Task
<1>3. CASE Receive(d) BY <1>1, <1>2, <1>3 DEF Receive, Task
<1>4. CASE MarkRunning(d) BY <1>1, <1>4 DEF MarkRunning, Task
<1>5. ASSUME NEW p \in Milestones, ReportProgress(d, p)
      PROVE  /\ client' = client
             /\ task[d].state # "unused"
             /\ task'[d].job = task[d].job
             /\ task' = [task EXCEPT ![d] = task'[d]]
  BY <1>1, <1>5 DEF ReportProgress, Task
<1>6. CASE Succeed(d) BY <1>1, <1>2, <1>6 DEF Succeed, Task
<1>7. CASE FailPermanently(d) BY <1>1, <1>2, <1>7 DEF FailPermanently, Task
<1>8. CASE FailTransiently(d) BY <1>1, <1>2, <1>8 DEF FailTransiently, Task, Gone
<1>9. CASE CeleryRetry(d) BY <1>1, <1>9 DEF CeleryRetry, Task
<1>10. CASE WorkerLost(d) BY <1>1, <1>2, <1>10 DEF WorkerLost, Task
<1>11. QED BY <1>3, <1>4, <1>5, <1>6, <1>7, <1>8, <1>9, <1>10 DEF Execution, Finish

\* The inductive step of the type invariant.
LEMMA TypeStep == TypeOK /\ [Next]_vars => TypeOK'
<1> SUFFICES ASSUME TypeOK, [Next]_vars PROVE TypeOK'
  OBVIOUS
<1>1. ASSUME NEW c \in Clients, Request(c) PROVE TypeOK'
  BY <1>1, RequestType, RequestAssigned DEF TypeOK
<1>2. ASSUME NEW d \in Deliveries, Execution(d) PROVE TypeOK'
  <2>1. Assigned' BY <1>2, ExecutionFrame DEF TypeOK, Types, Assigned
  <2>2. QED BY <1>2, <2>1, ExecutionType DEF TypeOK
<1>3. CASE UNCHANGED vars BY <1>3 DEF vars, TypeOK, Types, Assigned
<1>4. QED BY <1>1, <1>2, <1>3 DEF Next

\* Rows, tasks and requests keep their types in every behaviour.
THEOREM TypeCorrect == Spec => []TypeOK
<1>1. Init => TypeOK BY EmptyTypes DEF Init, TypeOK, Types, Assigned, UnusedTask, IdleClient
<1>2. QED BY <1>1, TypeStep, PTL DEF Spec

-----------------------------------------------------------------------------
(* The retry budget.                                                       *)

\* Requests never write retry_count.
LEMMA RequestKeepsRetries ==
  ASSUME TypeOK, NEW c \in Clients, Request(c), NEW j \in Jobs
  PROVE  row'[j].retries \in {0, row[j].retries}
<1>1. row \in [Jobs -> Row] BY DEF TypeOK, Types
<1>2. ASSUME NEW k \in Jobs, CreateJob(c, k)
      PROVE  row'[j].retries \in {0, row[j].retries}
  BY <1>1, <1>2 DEF CreateJob, NoRow
<1>3. CASE MarkQueued(c) BY <1>1, <1>3 DEF MarkQueued, Row
<1>4. CASE ResetForRetry(c) BY <1>1, <1>4 DEF ResetForRetry, Row
<1>5. CASE MarkCancelled(c) BY <1>1, <1>5 DEF MarkCancelled, Row
<1>6. QED BY <1>2, <1>3, <1>4, <1>5 DEF Request, LoadForRetry, LoadForCancel, SendTask, ListFailed,
    RefuseRetry, ClientLost, SendFails

\* A sent task starts with an untouched copy and no attempts behind it.
LEMMA RequestKeepsAttempts ==
  ASSUME TypeOK, NEW c \in Clients, Request(c), NEW d \in Deliveries
  PROVE  \/ task'[d] = task[d]
         \/ task'[d].attempt = 0 /\ task'[d].copy.retries = 0
<1>1. ASSUME NEW e \in Deliveries, SendTask(c, e)
      PROVE  \/ task'[d] = task[d]
             \/ task'[d].attempt = 0 /\ task'[d].copy.retries = 0
  BY <1>1 DEF TypeOK, Types, SendTask, UnusedTask, View, NoRow
<1>2. QED BY <1>1 DEF Request, CreateJob, LoadForRetry, LoadForCancel, MarkQueued, ListFailed,
    ResetForRetry, RefuseRetry, MarkCancelled, ClientLost, SendFails

\* The inductive step, action by action for the workers.
LEMMA BudgetStep ==
  ASSUME TypeOK, RetryBudget, NEW d \in Deliveries, Execution(d)
  PROVE  RetryBudget'
<1>1. /\ row \in [Jobs -> Row]
      /\ task \in [Deliveries -> Task]
      /\ task[d] \in Task
      /\ MaxRetries \in Nat
  BY JobAssumption DEF TypeOK, Types
<1>2. task[d].state # "unused" => task[d].job \in Jobs BY DEF TypeOK, Assigned
<1>3. \A r : Gone(task[d], r).attempt = task[d].attempt
             /\ Gone(task[d], r).copy.retries = 0
  BY <1>1 DEF Gone, Task, View, NoRow
<1>4. SUFFICES /\ \A j \in Jobs : row'[j].retries <= MaxRetries
               /\ task'[d].attempt <= MaxRetries
               /\ task'[d].copy.retries <= MaxRetries
  BY ExecutionFrame, <1>1 DEF RetryBudget
<1>5. CASE Receive(d) BY <1>1, <1>2, <1>3, <1>5 DEF Receive, RetryBudget, View, Task
<1>6. CASE MarkRunning(d) BY <1>1, <1>6 DEF MarkRunning, RetryBudget, Task, Copy, Row
<1>7. ASSUME NEW p \in Milestones, ReportProgress(d, p)
      PROVE  /\ \A j \in Jobs : row'[j].retries <= MaxRetries
             /\ task'[d].attempt <= MaxRetries
             /\ task'[d].copy.retries <= MaxRetries
  BY <1>1, <1>7 DEF ReportProgress, RetryBudget, Task, Copy, Row
<1>8. CASE Succeed(d) BY <1>1, <1>3, <1>8 DEF Succeed, RetryBudget, Row
<1>9. CASE FailPermanently(d) BY <1>1, <1>3, <1>9 DEF FailPermanently, RetryBudget, Row
<1>10. CASE FailTransiently(d)
  <2>1. task[d].copy.retries \in Nat BY <1>1 DEF Task, Copy
  <2>2. \A j \in Jobs : row'[j].retries <= MaxRetries
    BY <1>1, <1>10, <2>1 DEF FailTransiently, RetryBudget, Row
  <2>3. /\ task'[d].attempt = task[d].attempt
        /\ task'[d].copy.retries = 0
    BY <1>1, <1>3, <1>10 DEF FailTransiently, Gone, Task
  <2>4. QED BY <1>1, <2>2, <2>3 DEF RetryBudget
<1>11. CASE CeleryRetry(d) BY <1>1, <1>11 DEF CeleryRetry, RetryBudget, Task
<1>12. CASE WorkerLost(d) BY <1>1, <1>3, <1>12 DEF WorkerLost, RetryBudget
<1>13. QED BY <1>5, <1>6, <1>7, <1>8, <1>9, <1>10, <1>11, <1>12 DEF Execution, Finish

\* No interleaving of stale copies and no fault drives retry_count, or the
\* attempts of a Celery task, beyond the configured maximum.
THEOREM RetriesBounded == Spec => []RetryBudget
<1>1. Init => RetryBudget BY JobAssumption DEF Init, RetryBudget, NoRow, UnusedTask, View
<1>2. TypeOK /\ RetryBudget /\ [Next]_vars => RetryBudget'
  <2> SUFFICES ASSUME TypeOK, RetryBudget, [Next]_vars
               PROVE  RetryBudget'
    OBVIOUS
  <2>1. ASSUME NEW c \in Clients, Request(c) PROVE RetryBudget'
    <3>1. MaxRetries \in Nat BY JobAssumption
    <3>2. \A j \in Jobs : row'[j].retries <= MaxRetries
      BY <2>1, <3>1, RequestKeepsRetries DEF RetryBudget
    <3>3. \A d \in Deliveries : /\ task'[d].attempt <= MaxRetries
                                /\ task'[d].copy.retries <= MaxRetries
      BY <2>1, <3>1, RequestKeepsAttempts DEF RetryBudget
    <3>4. QED BY <3>2, <3>3 DEF RetryBudget
  <2>2. ASSUME NEW d \in Deliveries, Execution(d) PROVE RetryBudget' BY <2>2, BudgetStep
  <2>3. CASE UNCHANGED vars BY <2>3 DEF vars, RetryBudget
  <2>4. QED BY <2>1, <2>2, <2>3 DEF Next
<1>3. QED BY <1>1, <1>2, TypeCorrect, PTL DEF Spec

-----------------------------------------------------------------------------
(* Cancelled and succeeded jobs.                                           *)

\* A request of a client that holds no stale copy of a settled job neither
\* writes its row nor sends a task for it, and obtains no copy it may save.
LEMMA RequestKeepsSettled ==
  ASSUME TypeOK, NEW c \in Clients, Request(c),
         NEW j \in Jobs, Settled(j)
  PROVE  /\ row'[j] = row[j]
         /\ ~ StaleWriter(c, j)'
         /\ \A d \in Deliveries : task'[d].job = j => task'[d] = task[d]
         /\ \A b \in Clients \ {c} : client'[b] = client[b]
<1> DEFINE Kept == /\ row'[j] = row[j]
                   /\ ~ StaleWriter(c, j)'
                   /\ \A d \in Deliveries :
                        task'[d].job = j => task'[d] = task[d]
                   /\ \A b \in Clients \ {c} : client'[b] = client[b]
<1>1. /\ row \in [Jobs -> Row]
      /\ task \in [Deliveries -> Task]
      /\ client \in [Clients -> Client]
      /\ client[c] \in Client
  BY DEF TypeOK, Types
<1>2. ~ StaleWriter(c, j) BY DEF Settled
<1>3. row[j].status \in {"cancelled", "succeeded"} BY DEF Settled
<1>4. /\ ~ MayRetry(View(row[j]))
      /\ View(row[j]).status \notin CancellableStatuses
  BY <1>3 DEF MayRetry, View, RetryableStatuses, CancellableStatuses
<1>5. IdleClient.pc = "idle" /\ IdleClient.todo = {} BY DEF IdleClient
<1>6. \A todo : /\ Continue(todo).pc \notin {"dispatch", "sent", "cancel"}
                /\ Continue(todo).todo = todo
  BY <1>5 DEF Continue, IdleClient
<1>7. ASSUME NEW k \in Jobs, CreateJob(c, k) PROVE Kept
  BY <1>1, <1>3, <1>7 DEF CreateJob, StaleWriter, IdleClient
<1>8. ASSUME NEW k \in Jobs, LoadForRetry(c, k) PROVE Kept
  BY <1>1, <1>4, <1>8 DEF LoadForRetry, StaleWriter, IdleClient
<1>9. ASSUME NEW k \in Jobs, LoadForCancel(c, k) PROVE Kept
  BY <1>1, <1>4, <1>9 DEF LoadForCancel, StaleWriter, IdleClient
<1>10. ASSUME NEW d \in Deliveries, SendTask(c, d) PROVE Kept
  <2>1. client[c].job # j BY <1>2, <1>10 DEF SendTask, StaleWriter
  <2>2. /\ client'[c].pc = "sent"
        /\ client'[c].job = client[c].job
        /\ client'[c].todo = client[c].todo
    BY <1>1, <1>10 DEF SendTask, Client
  <2>3. ~ StaleWriter(c, j)' BY <1>2, <2>1, <2>2 DEF StaleWriter
  <2>4. QED BY <1>1, <1>10, <2>1, <2>3 DEF SendTask, UnusedTask
<1>11. CASE MarkQueued(c)
  <2>1. client[c].job # j BY <1>2, <1>11 DEF MarkQueued, StaleWriter
  <2>2. client'[c] = Continue(client[c].todo) BY <1>1, <1>11 DEF MarkQueued
  <2>3. ~ StaleWriter(c, j)' BY <1>2, <1>6, <2>2 DEF StaleWriter
  <2>4. QED BY <1>1, <1>11, <2>1, <2>3 DEF MarkQueued
<1>12. CASE ListFailed(c)
  <2>1. j \notin Listed BY <1>3 DEF Listed, Failed
  <2>2. QED BY <1>1, <1>12, <2>1 DEF ListFailed, StaleWriter, IdleClient
<1>13. CASE ResetForRetry(c)
  <2>1. PICK i \in NextItem(c) :
          /\ MayRetry(i.copy)
          /\ row' = [row EXCEPT ![i.job] =
               [@ EXCEPT !.status = "pending", !.completed = FALSE,
                         !.taskId = NoTask]]
          /\ client' = [client EXCEPT ![c] =
               [pc |-> "dispatch", job |-> i.job,
                copy |-> [i.copy EXCEPT !.status = "pending"],
                sent |-> NoTask, todo |-> client[c].todo \ {i}]]
    BY <1>13 DEF ResetForRetry
  <2>2. i \in client[c].todo /\ i.job # j BY <1>2, <2>1 DEF NextItem, StaleWriter
  <2>3. /\ client'[c].pc = "dispatch"
        /\ client'[c].job = i.job
        /\ client'[c].todo = client[c].todo \ {i}
    BY <1>1, <2>1
  <2>4. ~ StaleWriter(c, j)' BY <1>2, <2>2, <2>3 DEF StaleWriter
  <2>5. QED BY <1>1, <1>13, <2>1, <2>2, <2>4 DEF ResetForRetry
<1>14. CASE RefuseRetry(c)
  <2>1. PICK i \in NextItem(c) :
          client' = [client EXCEPT ![c] = Continue(client[c].todo \ {i})]
    BY <1>14 DEF RefuseRetry
  <2>2. client'[c] = Continue(client[c].todo \ {i}) BY <1>1, <2>1
  <2>3. ~ StaleWriter(c, j)' BY <1>2, <1>6, <2>2 DEF StaleWriter
  <2>4. QED BY <1>1, <1>14, <2>1, <2>3 DEF RefuseRetry
<1>15. CASE MarkCancelled(c)
  <2>1. row'[j] = row[j] BY <1>1, <1>2, <1>15 DEF MarkCancelled, StaleWriter
  <2>2. QED BY <1>1, <1>5, <1>15, <2>1 DEF MarkCancelled, StaleWriter
<1>16. CASE ClientLost(c) BY <1>1, <1>5, <1>16 DEF ClientLost, StaleWriter
<1>17. CASE SendFails(c) BY <1>1, <1>5, <1>17 DEF SendFails, StaleWriter
<1>18. QED BY <1>7, <1>8, <1>9, <1>10, <1>11, <1>12, <1>13, <1>14, <1>15, <1>16,
     <1>17 DEF Request

\* No task in circulation for a settled job is past its receipt, so a
\* worker's step on it leaves the row alone and does not execute the job.
LEMMA ExecutionKeepsSettled ==
  ASSUME TypeOK, NEW d \in Deliveries, Execution(d),
         NEW j \in Jobs, Settled(j)
  PROVE  /\ row'[j] = row[j]
         /\ task[d].job = j =>
              /\ row[j].status = "cancelled"
              /\ task'[d].state \in {"waiting", "raised", "gone"}
<1> DEFINE k == task[d].job
           Kept == /\ row'[j] = row[j]
                   /\ k = j =>
                        /\ row[j].status = "cancelled"
                        /\ task'[d].state \in {"waiting", "raised", "gone"}
<1>1. /\ row \in [Jobs -> Row]
      /\ task \in [Deliveries -> Task]
      /\ task[d] \in Task
  BY DEF TypeOK, Types
<1>2. k = j /\ Live(d) => /\ row[j].status = "cancelled"
                          /\ task[d].state \in {"waiting", "raised"}
  BY DEF Settled, LiveFor
<1>3. \A r : Gone(task[d], r).state = "gone" BY <1>1 DEF Gone, Task
<1>4. CASE Receive(d) BY <1>1, <1>2, <1>3, <1>4 DEF Receive, Live
<1>5. CASE CeleryRetry(d) BY <1>1, <1>2, <1>5 DEF CeleryRetry, Live, Task
<1>6. CASE WorkerLost(d) BY <1>1, <1>2, <1>3, <1>6 DEF WorkerLost, Live
<1>7. ASSUME task[d].state \in {"loaded", "executing"} PROVE k # j BY <1>2, <1>7 DEF Live
<1>8. CASE MarkRunning(d) BY <1>1, <1>7, <1>8 DEF MarkRunning
<1>9. ASSUME NEW p \in Milestones, ReportProgress(d, p) PROVE Kept
  BY <1>1, <1>7, <1>9 DEF ReportProgress
<1>10. CASE Finish(d) BY <1>1, <1>7, <1>10 DEF Finish, Succeed, FailPermanently, FailTransiently
<1>11. QED BY <1>4, <1>5, <1>6, <1>8, <1>9, <1>10 DEF Execution

\* A cancelled or succeeded job is never executed again and its row never
\* changes, once no request and no worker holds an object read earlier.
THEOREM SettledForGood == Spec => SettledIsFinal
<1>1. TypeOK /\ [Next]_vars => [KeepsSettled]_vars
  <2> SUFFICES ASSUME TypeOK, Next, NEW j \in Jobs, Settled(j)
               PROVE  row'[j] = row[j] /\ Settled(j)'
    BY DEF KeepsSettled
  <2>1. ASSUME NEW c \in Clients, Request(c)
        PROVE  row'[j] = row[j] /\ Settled(j)'
    <3>1. /\ row'[j] = row[j]
          /\ ~ StaleWriter(c, j)'
          /\ \A d \in Deliveries : task'[d].job = j => task'[d] = task[d]
          /\ \A b \in Clients \ {c} : client'[b] = client[b]
      BY <2>1, RequestKeepsSettled
    <3>2. \A b \in Clients : ~ StaleWriter(b, j)' BY <3>1 DEF Settled, StaleWriter
    <3>3. LiveFor(j)' \subseteq LiveFor(j) BY <3>1 DEF LiveFor, Live
    <3>4. \A d \in LiveFor(j)' : task'[d] = task[d] BY <3>1 DEF LiveFor
    <3>5. QED BY <3>1, <3>2, <3>3, <3>4 DEF Settled
  <2>2. ASSUME NEW d \in Deliveries, Execution(d)
        PROVE  row'[j] = row[j] /\ Settled(j)'
    <3>1. row'[j] = row[j] BY <2>2, ExecutionKeepsSettled
    <3>2. /\ client' = client
          /\ task[d].state # "unused"
          /\ task'[d].job = task[d].job
          /\ \A e \in Deliveries \ {d} : task'[e] = task[e]
      BY <2>2, ExecutionFrame DEF TypeOK, Types
    <3>3. \A b \in Clients : ~ StaleWriter(b, j)' BY <3>2 DEF Settled, StaleWriter
    <3>4. CASE task[d].job = j
      <4>1. /\ row[j].status = "cancelled"
            /\ task'[d].state \in {"waiting", "raised", "gone"}
        BY <2>2, <3>4, ExecutionKeepsSettled
      <4>2. \A e \in LiveFor(j)' : task'[e].state \in {"waiting", "raised"}
        BY <3>2, <4>1 DEF Settled, LiveFor, Live
      <4>3. QED BY <3>1, <3>3, <4>1, <4>2 DEF Settled
    <3>5. CASE task[d].job # j
      <4>1. LiveFor(j)' = LiveFor(j) BY <3>2, <3>5 DEF LiveFor, Live
      <4>2. \A e \in LiveFor(j) : task'[e] = task[e] BY <3>2, <3>5 DEF LiveFor
      <4>3. QED BY <3>1, <3>3, <4>1, <4>2 DEF Settled
    <3>6. QED BY <3>4, <3>5
  <2>3. QED BY <2>1, <2>2 DEF Next
<1>2. QED BY <1>1, TypeCorrect, PTL DEF Spec, SettledIsFinal

-----------------------------------------------------------------------------
(* What the rows promise.                                                  *)

\* Celery's attempts never run ahead of the job's retry_count, and Celery
\* does not give up on a job that says RETRYING.
Counted(t, r) ==
  /\ t.attempt <= r.retries
  /\ t.state \in {"loaded", "executing"} => t.copy.retries = r.retries
  /\ t.state = "raised" =>
       /\ r.status # "running"
       /\ r.status = "retrying" => t.attempt < r.retries
       /\ t.attempt < r.retries \/ r.retries >= MaxRetries

\* The only task that was ever sent for its job.
Alone(d) == /\ task[d].job \in Jobs
            /\ \A e \in Deliveries : task[e].job = task[d].job => e = d

\* WorkIsNotForgotten is not inductive: that Celery does not give up before the
\* job does rests on the two counters of a job with one task.
Remembered ==
  /\ WorkIsNotForgotten
  /\ \A d \in Deliveries :
       /\ task[d].job \in Jobs =>
            task[d].state # "unused" /\ row[task[d].job].status # "none"
       /\ task[d].state = "raised" => task[d].result = "transient"
       /\ Alone(d) =>
            /\ Live(d) => Counted(task[d], row[task[d].job])
            /\ GivenUp(d) => row[task[d].job].status # "retrying"
  /\ \A c \in Clients :
       client[c].pc = "dispatch" => row[client[c].job].status # "none"

\* What a request may do to the tasks: send one under an unused id.
LEMMA RequestTasks ==
  ASSUME TypeOK, NEW c \in Clients, Request(c)
  PROVE  \/ task' = task
         \/ \E d \in Deliveries :
              /\ SendTask(c, d)
              /\ task[d].state = "unused" /\ client[c].pc = "dispatch"
              /\ client[c].job \in Jobs
              /\ task'[d].job = client[c].job /\ task'[d].state = "waiting"
              /\ task'[d].result = "none" /\ task'[d].attempt = 0
              /\ \A e \in Deliveries \ {d} : task'[e] = task[e]
<1>1. ASSUME NEW d \in Deliveries, SendTask(c, d)
      PROVE  /\ task[d].state = "unused" /\ client[c].pc = "dispatch"
             /\ client[c].job \in Jobs
             /\ task'[d].job = client[c].job /\ task'[d].state = "waiting"
             /\ task'[d].result = "none" /\ task'[d].attempt = 0
             /\ \A e \in Deliveries \ {d} : task'[e] = task[e]
  BY <1>1 DEF TypeOK, Types, Assigned, SendTask, Unused, UnusedTask
<1>2. QED BY <1>1 DEF Request, CreateJob, LoadForRetry, LoadForCancel, MarkQueued, ListFailed,
    ResetForRetry, RefuseRetry, MarkCancelled, ClientLost, SendFails

\* What a request may make of a row: nothing, or one of the saves.
LEMMA RequestRows ==
  ASSUME TypeOK, NEW c \in Clients, Request(c), NEW j \in Jobs
  PROVE  \/ row'[j] = row[j]
         \/ /\ row[j].status = "none" /\ row'[j].status = "pending"
            /\ client[c].pc = "idle" /\ row'[j].retries = 0
            /\ client'[c].pc = "dispatch" /\ client'[c].job = j
         \/ /\ client[c].pc = "sent" /\ client[c].job = j
            /\ row'[j].status = "queued" /\ row'[j].taskId = client[c].sent
            /\ row'[j].retries = row[j].retries
         \/ /\ client[c].pc = "retry" /\ row'[j].status = "pending"
            /\ row'[j].retries = row[j].retries
            /\ client'[c].pc = "dispatch" /\ client'[c].job = j
         \/ /\ client[c].pc = "cancel" /\ client[c].job = j
            /\ row'[j].status = "cancelled"
            /\ row'[j].retries = row[j].retries
<1>1. /\ row \in [Jobs -> Row] /\ client \in [Clients -> Client]
      /\ row[j] \in Row
  BY DEF TypeOK, Types
<1>2. ASSUME NEW k \in Jobs, CreateJob(c, k)
      PROVE  \/ row'[j] = row[j]
             \/ /\ row[j].status = "none" /\ row'[j].status = "pending"
                /\ client[c].pc = "idle" /\ row'[j].retries = 0
                /\ client'[c].pc = "dispatch" /\ client'[c].job = j
  BY <1>1, <1>2 DEF CreateJob, NoRow, IdleClient
<1>3. CASE MarkQueued(c) BY <1>1, <1>3 DEF MarkQueued, Row
<1>4. CASE ResetForRetry(c) BY <1>1, <1>4 DEF ResetForRetry, Row
<1>5. CASE MarkCancelled(c) BY <1>1, <1>5 DEF MarkCancelled, Row
<1>6. QED BY <1>2, <1>3, <1>4, <1>5 DEF Request, LoadForRetry, LoadForCancel, SendTask, ListFailed,
    RefuseRetry, ClientLost, SendFails

\* A request that is about to send a task has saved the row.
LEMMA RequestDispatches ==
  ASSUME TypeOK, NEW c \in Clients, Request(c), NEW b \in Clients,
         client'[b].pc = "dispatch"
  PROVE  \/ client'[b] = client[b]
         \/ row'[client'[b].job].status = "pending"
<1>1. client \in [Clients -> Client] /\ row \in [Jobs -> Row] BY DEF TypeOK, Types
<1>2. \A t : Continue(t).pc # "dispatch" BY DEF Continue, IdleClient
<1>3. IdleClient.pc # "dispatch" BY DEF IdleClient
<1>4. CASE \E k \in Jobs : CreateJob(c, k) BY <1>1, <1>4 DEF CreateJob, NoRow, IdleClient
<1>5. CASE ResetForRetry(c)
  <2>1. \A i \in client[c].todo : i.job \in Jobs /\ row[i.job] \in Row
    BY <1>1 DEF Client, Item
  <2>2. PICK i \in NextItem(c) :
          /\ row' = [row EXCEPT ![i.job] =
               [@ EXCEPT !.status = "pending", !.completed = FALSE, !.taskId = NoTask]]
          /\ client' = [client EXCEPT ![c] =
               [pc |-> "dispatch", job |-> i.job,
                copy |-> [i.copy EXCEPT !.status = "pending"],
                sent |-> NoTask, todo |-> client[c].todo \ {i}]]
    BY <1>5 DEF ResetForRetry
  <2>3. row'[i.job].status = "pending" BY <1>1, <2>1, <2>2 DEF NextItem, Row
  <2>4. client'[c].job = i.job /\ \A a \in Clients \ {c} : client'[a] = client[a]
    BY <1>1, <2>2
  <2>5. QED BY <2>3, <2>4
<1>6. CASE \E k \in Jobs : LoadForRetry(c, k) \/ LoadForCancel(c, k)
  BY <1>1, <1>6 DEF LoadForRetry, LoadForCancel, IdleClient
<1>7. CASE \E d \in Deliveries : SendTask(c, d) BY <1>1, <1>7 DEF SendTask
<1>8. CASE MarkQueued(c) \/ RefuseRetry(c)
  <2>1. client'[c].pc # "dispatch" BY <1>1, <1>2, <1>8 DEF MarkQueued, RefuseRetry
  <2>2. \A a \in Clients \ {c} : client'[a] = client[a] BY <1>1, <1>8 DEF MarkQueued, RefuseRetry
  <2>3. QED BY <2>1, <2>2
<1>9. CASE ListFailed(c) BY <1>1, <1>9 DEF ListFailed, IdleClient
<1>10. CASE MarkCancelled(c) \/ ClientLost(c) \/ SendFails(c)
  BY <1>1, <1>3, <1>10 DEF MarkCancelled, ClientLost, SendFails
<1>11. QED BY <1>4, <1>5, <1>6, <1>7, <1>8, <1>9, <1>10 DEF Request

\* What a step of a worker may do to its task and to the row of its job.
Effect(t, u, r, s) ==
  \/ /\ t.state = "waiting" /\ r.status = "cancelled" /\ s = r
     /\ u.state = "gone" /\ u.result = "skipped" /\ u.attempt = t.attempt
  \/ /\ t.state = "waiting" /\ r.status # "cancelled" /\ s = r
     /\ u.state = "loaded" /\ u.result = t.result /\ u.attempt = t.attempt
     /\ u.copy.retries = r.retries
  \/ /\ t.state = "loaded" /\ s.status = "running" /\ s.retries = r.retries
     /\ u.state = "executing" /\ u.result = t.result
     /\ u.attempt = t.attempt /\ u.copy.retries = t.copy.retries
  \/ /\ t.state = "executing" /\ s.status = r.status /\ s.retries = r.retries
     /\ s.completed = r.completed
     /\ u.state = "executing" /\ u.result = t.result
     /\ u.attempt = t.attempt /\ u.copy.retries = t.copy.retries
  \/ /\ t.state = "executing" /\ s.status = "succeeded"
     /\ s.retries = r.retries /\ s.progress = 100 /\ s.completed
     /\ u.state = "gone" /\ u.result = "ok"
  \/ /\ t.state = "executing" /\ s.status = "failed" /\ s.retries = r.retries
     /\ u.state = "gone" /\ u.result = "permanent"
  \/ /\ t.state = "executing" /\ t.copy.retries < MaxRetries
     /\ s.status = "retrying" /\ s.retries = t.copy.retries + 1
     /\ u.state = "raised" /\ u.result = "transient" /\ u.attempt = t.attempt
  \/ /\ t.state = "executing" /\ t.copy.retries >= MaxRetries
     /\ s.status = "failed" /\ s.retries = r.retries
     /\ u.state = "raised" /\ u.result = "transient" /\ u.attempt = t.attempt
  \/ /\ t.state = "raised" /\ t.attempt < MaxRetries /\ s = r
     /\ u.state = "waiting" /\ u.result = t.result
     /\ u.attempt = t.attempt + 1
  \/ /\ t.state = "raised" /\ t.attempt >= MaxRetries /\ s = r
     /\ u.state = "gone" /\ u.result = t.result
  \/ /\ "worker" \in Faults /\ t.state \in {"loaded", "executing", "raised"}
     /\ s = r /\ u.state = "gone" /\ u.result = "lost"

\* A worker's step does just that, and leaves all other rows and the
\* celery_task_id alone.
LEMMA ExecutionEffect ==
  ASSUME TypeOK, NEW d \in Deliveries, Execution(d)
  PROVE  /\ task[d].job \in Jobs
         /\ Effect(task[d], task'[d], row[task[d].job], row'[task[d].job])
         /\ row'[task[d].job].taskId = row[task[d].job].taskId
         /\ \A j \in Jobs \ {task[d].job} : row'[j] = row[j]
<1> DEFINE j == task[d].job
           t == task[d]
           r == row[j]
           Goal == /\ Effect(t, task'[d], r, row'[j])
                   /\ row'[j].taskId = r.taskId
                   /\ \A k \in Jobs \ {j} : row'[k] = row[k]
<1>1. /\ row \in [Jobs -> Row] /\ task \in [Deliveries -> Task]
      /\ t \in Task /\ t.copy \in Copy /\ MaxRetries \in Nat
  BY JobAssumption DEF TypeOK, Types, Task
<1>2. j \in Jobs /\ r \in Row BY <1>1, ExecutionFrame DEF TypeOK, Assigned
<1>3. \A x : /\ Gone(t, x).state = "gone" /\ Gone(t, x).result = x
             /\ Gone(t, x).attempt = t.attempt
             /\ Gone(t, x) \in [job : Jobs, state : {"gone"}, attempt : Nat,
                                copy : Copy, result : {x}]
  BY <1>1, <1>2, EmptyTypes DEF Gone, Task
<1>4. CASE Receive(d) BY <1>1, <1>2, <1>3, <1>4 DEF Receive, Effect, View, Task
<1>5. CASE MarkRunning(d) BY <1>1, <1>2, <1>5 DEF MarkRunning, Effect, Row, Task, Copy
<1>6. ASSUME NEW p \in Milestones, ReportProgress(d, p) PROVE Goal
  BY <1>1, <1>2, <1>6 DEF ReportProgress, Effect, Row, Task, Copy
<1>7. CASE Succeed(d) BY <1>1, <1>2, <1>3, <1>7 DEF Succeed, Effect, Row
<1>8. CASE FailPermanently(d) BY <1>1, <1>2, <1>3, <1>8 DEF FailPermanently, Effect, Row
<1>9. CASE FailTransiently(d) BY <1>1, <1>2, <1>3, <1>9 DEF FailTransiently, Effect, Row, Copy
<1>10. CASE CeleryRetry(d) BY <1>1, <1>2, <1>10 DEF CeleryRetry, Effect, Task
<1>11. CASE WorkerLost(d) BY <1>1, <1>2, <1>3, <1>11 DEF WorkerLost, Effect
<1>12. QED BY <1>2, <1>4, <1>5, <1>6, <1>7, <1>8, <1>9, <1>10, <1>11 DEF Execution, Finish

\* A request keeps it: a task it sends starts at attempt 0, and what it saves
\* promises nothing.
LEMMA RememberedRequest ==
  ASSUME TypeOK, Remembered, NEW c \in Clients, Request(c)
  PROVE  Remembered'
<1>1. \A d \in Deliveries : \/ task'[d] = task[d]
                            \/ /\ task[d].state = "unused" /\ task[d].job \notin Jobs
                               /\ client[c].pc = "dispatch" /\ task'[d].job = client[c].job
                               /\ client[c].job \in Jobs /\ row' = row
                               /\ task'[d].state = "waiting" /\ task'[d].attempt = 0
  BY RequestTasks DEF Remembered, SendTask
<1>2. ASSUME NEW j \in Jobs
      PROVE  /\ row[j] \in Row /\ row'[j] \in Row
             /\ row'[j] = row[j] \/ row'[j].status \in {"pending", "queued", "cancelled"}
             /\ row[j].status # "none" =>
                  row'[j].status # "none" /\ row'[j].retries = row[j].retries
  <2>1. TypeOK' BY TypeStep DEF Next
  <2>2. QED BY <2>1, RequestRows DEF TypeOK, Types
<1>3. \A d \in Deliveries : task[d].job \in Jobs => task'[d] = task[d] BY <1>1
<1>4. WorkIsNotForgotten'
  BY <1>2, <1>3 DEF Remembered, WorkIsNotForgotten, SentFor, ComesBack, GivenUp
<1>5. ASSUME NEW d \in Deliveries, task'[d].job \in Jobs
      PROVE  task'[d].state # "unused" /\ row'[task'[d].job].status # "none"
  BY <1>1, <1>2, <1>5 DEF Remembered
<1>6. ASSUME NEW d \in Deliveries, Alone(d)'
      PROVE  /\ Live(d)' => Counted(task'[d], row'[task'[d].job])
             /\ GivenUp(d)' => row'[task'[d].job].status # "retrying"
  <2>1. CASE task'[d] = task[d]
    <3>1. task[d].job \in Jobs /\ Alone(d) BY <1>3, <1>6, <2>1 DEF Alone
    <3>2. QED BY <1>2, <2>1, <3>1 DEF Remembered, Live, GivenUp, Counted
  <2>2. CASE task'[d] # task[d]
    <3>1. /\ task'[d].state = "waiting" /\ task'[d].attempt = 0 /\ row' = row
          /\ task'[d].job \in Jobs
      BY <1>1, <2>2
    <3>2. row'[task'[d].job] \in Row BY <1>2, <3>1
    <3>3. QED BY <3>1, <3>2 DEF Counted, GivenUp, Row
  <2>3. QED BY <2>1, <2>2
<1>7. \A d \in Deliveries : task'[d].state = "raised" => task'[d].result = "transient"
  BY <1>1 DEF Remembered
<1>8. ASSUME NEW b \in Clients, client'[b].pc = "dispatch"
      PROVE  row'[client'[b].job].status # "none"
  <2>1. CASE client'[b] = client[b] BY <1>2, <1>8, <2>1 DEF Remembered, TypeOK, Assigned
  <2>2. QED BY <1>8, <2>1, RequestDispatches
<1>9. QED BY <1>4, <1>5, <1>6, <1>7, <1>8 DEF Remembered

\* A worker keeps it.
LEMMA RememberedExecution ==
  ASSUME TypeOK, RetryBudget, Remembered, NEW d \in Deliveries, Execution(d)
  PROVE  Remembered'
<1> DEFINE j == task[d].job
<1>1. /\ client' = client /\ task[d].state # "unused" /\ task'[d].job = j
      /\ \A e \in Deliveries \ {d} : task'[e] = task[e]
  BY ExecutionFrame DEF TypeOK, Types
<1>2. /\ j \in Jobs /\ Effect(task[d], task'[d], row[j], row'[j])
      /\ \A k \in Jobs \ {j} : row'[k] = row[k]
  BY ExecutionEffect
<1>3. /\ task[d] \in Task /\ task'[d] \in Task /\ row[j] \in Row /\ row'[j] \in Row
      /\ MaxRetries \in Nat /\ row[j].retries <= MaxRetries
  <2>1. TypeOK' BY TypeStep DEF Next
  <2>2. QED BY <1>2, <2>1, JobAssumption DEF TypeOK, Types, RetryBudget
<1>4. /\ task[d].attempt \in Nat /\ row[j].retries \in Nat /\ task[d].copy.retries \in Nat
  BY <1>3 DEF Task, Row, Copy
<1>5. SentFor(j)' = SentFor(j) /\ d \in SentFor(j) /\ Alone(d)' = Alone(d)
  BY <1>1, <1>2 DEF SentFor, Alone
<1>6. row'[j].status # "none" BY <1>2 DEF Effect, Remembered
<1>7. task'[d].state = "raised" => task'[d].result = "transient" BY <1>2 DEF Effect
<1>8. ASSUME Alone(d)
      PROVE  /\ Live(d)' => Counted(task'[d], row'[j])
             /\ GivenUp(d)' => row'[j].status # "retrying"
  <2>1. CASE ~Live(d) BY <1>2, <2>1 DEF Live, Effect
  <2>2. CASE Live(d)
    <3>1. Counted(task[d], row[j]) BY <1>8, <2>2 DEF Remembered
    <3>2. QED BY <1>2, <1>3, <1>4, <3>1 DEF Counted, Effect, GivenUp, Live
  <2>3. QED BY <2>1, <2>2
<1>9. ASSUME row'[j].status = "running"
      PROVE  \E e \in SentFor(j) : (task[e].state = "executing" \/ task[e].result = "lost")'
  <2>1. CASE row'[j].status # row[j].status BY <1>2, <1>5, <1>9, <2>1 DEF Effect
  <2>2. CASE row'[j].status = row[j].status
    <3>1. PICK e \in SentFor(j) : task[e].state = "executing" \/ task[e].result = "lost"
      BY <1>2, <1>9, <2>2 DEF Remembered, WorkIsNotForgotten
    <3>2. CASE e = d BY <1>2, <1>9, <3>1, <3>2 DEF Effect
    <3>3. CASE e # d BY <1>1, <3>1, <3>3 DEF SentFor
    <3>4. QED BY <3>2, <3>3
  <2>3. QED BY <2>1, <2>2
<1>10. ASSUME row'[j].status = "retrying"
       PROVE  \/ \E e \in SentFor(j) : (ComesBack(e) \/ task[e].result = "lost")'
              \/ \E e, f \in SentFor(j) : e # f /\ GivenUp(e)'
  <2>1. CASE ComesBack(d)' \/ task'[d].result = "lost" BY <1>5, <2>1
  <2>2. CASE ~ (ComesBack(d)' \/ task'[d].result = "lost")
    <3>1. row[j].status = "retrying" BY <1>2, <1>10, <2>2 DEF Effect, ComesBack
    <3>2. CASE ComesBack(d) \/ task[d].result = "lost"
      <4>1. GivenUp(d)' BY <1>2, <1>10, <2>2, <3>2 DEF Effect, ComesBack, GivenUp, Remembered
      <4>2. ~ Alone(d) BY <1>8, <1>10, <4>1
      <4>3. QED BY <1>2, <1>5, <4>1, <4>2 DEF Alone, SentFor
    <3>3. CASE ~ (ComesBack(d) \/ task[d].result = "lost")
      <4>1. \A e \in SentFor(j) : e # d => task'[e] = task[e] BY <1>1 DEF SentFor
      <4>2. GivenUp(d) => GivenUp(d)' BY <1>2 DEF Effect, GivenUp
      <4>3. QED BY <1>2, <3>1, <3>3, <4>1, <4>2
         DEF Remembered, WorkIsNotForgotten, ComesBack, GivenUp
    <3>4. QED BY <3>2, <3>3
  <2>3. QED BY <2>1, <2>2
<1>11. ASSUME NEW k \in Jobs, k # j
       PROVE  /\ row'[k] = row[k] /\ SentFor(k)' = SentFor(k)
              /\ \A e \in SentFor(k) : task'[e] = task[e]
  BY <1>1, <1>2, <1>11 DEF SentFor
<1>12. WorkIsNotForgotten'
  <2>1. ASSUME NEW k \in Jobs, k # j
        PROVE  (/\ row[k].status = "running" => \E e \in SentFor(k) :
                     task[e].state = "executing" \/ task[e].result = "lost"
                /\ row[k].status = "retrying" =>
                     \/ \E e \in SentFor(k) : ComesBack(e) \/ task[e].result = "lost"
                     \/ \E e, f \in SentFor(k) : e # f /\ GivenUp(e))'
    BY <1>11, <2>1 DEF Remembered, WorkIsNotForgotten, ComesBack, GivenUp
  <2>2. (/\ row[j].status = "running" => \E e \in SentFor(j) :
              task[e].state = "executing" \/ task[e].result = "lost"
         /\ row[j].status = "retrying" =>
              \/ \E e \in SentFor(j) : ComesBack(e) \/ task[e].result = "lost"
              \/ \E e, f \in SentFor(j) : e # f /\ GivenUp(e))'
    BY <1>1, <1>2, <1>5, <1>9, <1>10 DEF SentFor, ComesBack, GivenUp
  <2>3. QED BY <1>1, <2>1, <2>2 DEF WorkIsNotForgotten
<1>13. ASSUME NEW e \in Deliveries, e # d
       PROVE  /\ task'[e] = task[e] /\ Alone(e)' = Alone(e)
              /\ Alone(e) => row'[task[e].job] = row[task[e].job]
              /\ task[e].job \in Jobs =>
                   row'[task[e].job].status # "none" \/ row[task[e].job].status = "none"
  <2>1. Alone(e) => task[e].job # j BY <1>13 DEF Alone
  <2>2. QED BY <1>1, <1>2, <1>6, <1>13, <2>1 DEF Alone
<1>14. ASSUME NEW c \in Clients, client[c].pc = "dispatch"
       PROVE  row'[client[c].job].status # "none"
  BY <1>2, <1>6, <1>14 DEF Remembered, TypeOK, Assigned
<1>15. ASSUME NEW e \in Deliveries
       PROVE  (/\ task[e].job \in Jobs =>
                    task[e].state # "unused" /\ row[task[e].job].status # "none"
               /\ task[e].state = "raised" => task[e].result = "transient"
               /\ Alone(e) => /\ Live(e) => Counted(task[e], row[task[e].job])
                              /\ GivenUp(e) => row[task[e].job].status # "retrying")'
  <2>1. CASE e = d BY <1>1, <1>2, <1>5, <1>6, <1>7, <1>8, <2>1 DEF Effect
  <2>2. CASE e # d BY <1>13, <2>2 DEF Remembered, Live, GivenUp
  <2>3. QED BY <2>1, <2>2
<1>16. QED BY <1>1, <1>12, <1>14, <1>15 DEF Remembered

\* Whatever requests race with each other on stale objects and whoever is
\* lost, a row that says RUNNING or RETRYING has the task that will go on with
\* it, except for lost workers and for jobs that were sent twice.
THEOREM NothingIsForgotten == Spec => []WorkIsNotForgotten
<1>1. Init => Remembered
  BY DEF Init, Remembered, WorkIsNotForgotten, Alone, NoRow, UnusedTask, IdleClient, NoJob, Jobs
<1>2. TypeOK /\ RetryBudget /\ Remembered /\ [Next]_vars => Remembered'
  <2>1. SUFFICES ASSUME TypeOK, RetryBudget, Remembered, UNCHANGED vars PROVE Remembered'
    BY RememberedRequest, RememberedExecution DEF Next
  <2>2. QED BY <2>1 DEF vars, Remembered, WorkIsNotForgotten, SentFor, ComesBack, GivenUp, Alone,
      Live
<1>3. Remembered => WorkIsNotForgotten BY DEF Remembered
<1>4. QED BY <1>1, <1>2, <1>3, TypeCorrect, RetriesBounded, PTL DEF Spec

-----------------------------------------------------------------------------
(* One request at a time: rows and tasks agree.                            *)


\* No task in circulation for job j.
Quiet(j) == \A d \in Deliveries : task[d].job = j => ~ Live(d)

\* Two tasks in circulation are for different jobs.
OneTask ==
  \A d, e \in Deliveries :
    Live(d) /\ Live(e) /\ task[d].job = task[e].job => d = e

\* A job that was never sent, is done, or may be retried has none.
QuietRows == \A j \in Jobs :
  (\/ row[j].status \in {"none", "succeeded"}
   \/ row[j].status = "failed" /\ row[j].retries < MaxRetries) => Quiet(j)

\* The jobs the request may still send have none either, and it has loaded
\* each of them once.
QuietRequests == \A c \in Clients :
  /\ client[c].pc = "dispatch" =>
       row[client[c].job].status = "pending" /\ Quiet(client[c].job)
  /\ \A i \in client[c].todo :
       /\ client[c].pc \in {"dispatch", "sent"} => i.job # client[c].job
       /\ MayRetry(i.copy) => Quiet(i.job)
       /\ \A k \in client[c].todo : k.job = i.job => k = i

CountsAgree == \A d \in Deliveries :
  Live(d) => Counted(task[d], row[task[d].job])

\* The inductive invariant of a deployment with one request at a time.
Agreeing ==
  OneTask /\ QuietRows /\ QuietRequests /\ CountsAgree /\ SuccessIsComplete

\* What a step of request c may make of its own list of jobs.
Drops(c) == /\ client'[c].pc \in {"idle", "cancel"} /\ client'[c].todo = {}
GoesOn(c) == /\ client'[c].pc = "retry"
             /\ client'[c].todo \subseteq client[c].todo
Loads(c) == /\ row' = row /\ client'[c].pc = "retry"
            /\ \A i \in client'[c].todo :
                 i.job \in Jobs /\ i.copy = View(row[i.job])
            /\ \A i, k \in client'[c].todo : i.job = k.job => i = k
Creates(c) == \E j \in Jobs :
  /\ row[j].status = "none" /\ row'[j].status = "pending"
  /\ client'[c].pc = "dispatch" /\ client'[c].job = j
  /\ client'[c].todo = {}
Resets(c) == \E i \in client[c].todo :
  /\ i.job \in Jobs /\ MayRetry(i.copy) /\ row'[i.job].status = "pending"
  /\ client'[c].pc = "dispatch" /\ client'[c].job = i.job
  /\ client'[c].todo = client[c].todo \ {i}

\* Apart from sending its task, a request's step does one of these.
LEMMA RequestTodo ==
  ASSUME TypeOK, NEW c \in Clients, Request(c)
  PROVE  /\ \A b \in Clients \ {c} : client'[b] = client[b]
         /\ \/ \E d \in Deliveries : SendTask(c, d)
            \/ /\ task' = task
               /\ Drops(c) \/ GoesOn(c) \/ Loads(c) \/ Creates(c) \/ Resets(c)
<1> DEFINE Goal ==
         /\ \A b \in Clients \ {c} : client'[b] = client[b]
         /\ \/ \E d \in Deliveries : SendTask(c, d)
            \/ /\ task' = task
               /\ Drops(c) \/ GoesOn(c) \/ Loads(c) \/ Creates(c) \/ Resets(c)
<1>1. /\ row \in [Jobs -> Row] /\ client \in [Clients -> Client]
      /\ client[c] \in Client
  BY DEF TypeOK, Types
<1>2. IdleClient.pc = "idle" /\ IdleClient.todo = {} BY DEF IdleClient
<1>3. \A t : \/ Continue(t).pc = "idle" /\ Continue(t).todo = {}
             \/ Continue(t).pc = "retry" /\ Continue(t).todo = t
  BY DEF Continue, IdleClient
<1>4. ASSUME NEW k \in Jobs, CreateJob(c, k) PROVE Goal
  BY <1>1, <1>4 DEF CreateJob, NoRow, IdleClient, Creates
<1>5. ASSUME NEW k \in Jobs, LoadForRetry(c, k) PROVE Goal
  BY <1>1, <1>5 DEF LoadForRetry, IdleClient, Loads
<1>6. ASSUME NEW k \in Jobs, LoadForCancel(c, k) PROVE Goal
  BY <1>1, <1>6 DEF LoadForCancel, IdleClient, Drops
<1>7. ASSUME NEW d \in Deliveries, SendTask(c, d) PROVE Goal BY <1>1, <1>7 DEF SendTask
<1>8. ASSUME MarkQueued(c) PROVE Goal BY <1>1, <1>3, <1>8 DEF MarkQueued, Drops, GoesOn
<1>9. ASSUME ListFailed(c) PROVE Goal
  <2>1. Listed \subseteq Jobs BY DEF Listed, Failed
  <2>2. /\ task' = task /\ row' = row /\ client'[c].pc = "retry"
        /\ client'[c].todo = {[job |-> j, copy |-> View(row[j])] : j \in Listed}
        /\ \A b \in Clients \ {c} : client'[b] = client[b]
    BY <1>1, <1>9 DEF ListFailed, IdleClient
  <2>3. \A i \in client'[c].todo : i.job \in Jobs /\ i.copy = View(row[i.job])
                                  /\ i = [job |-> i.job, copy |-> View(row[i.job])]
    BY <2>1, <2>2
  <2>4. \A i, k \in client'[c].todo : i.job = k.job => i = k BY <2>3
  <2>5. QED BY <1>9, <2>2, <2>3, <2>4 DEF ListFailed, Loads
<1>10. ASSUME ResetForRetry(c) PROVE Goal
  <2>1. PICK i \in NextItem(c) :
          /\ MayRetry(i.copy)
          /\ row' = [row EXCEPT ![i.job] =
               [@ EXCEPT !.status = "pending", !.completed = FALSE,
                         !.taskId = NoTask]]
          /\ client' = [client EXCEPT ![c] =
               [pc |-> "dispatch", job |-> i.job,
                copy |-> [i.copy EXCEPT !.status = "pending"],
                sent |-> NoTask, todo |-> client[c].todo \ {i}]]
    BY <1>10 DEF ResetForRetry
  <2>2. i \in client[c].todo /\ i.job \in Jobs BY <1>1, <2>1 DEF NextItem, Client, Item
  <2>3. row'[i.job].status = "pending" BY <1>1, <2>1, <2>2 DEF Row
  <2>4. QED BY <1>1, <1>10, <2>1, <2>2, <2>3 DEF ResetForRetry, Resets
<1>11. ASSUME RefuseRetry(c) PROVE Goal
  <2>1. PICK i \in NextItem(c) :
          client' = [client EXCEPT ![c] = Continue(client[c].todo \ {i})]
    BY <1>11 DEF RefuseRetry
  <2>2. QED BY <1>1, <1>3, <1>11, <2>1 DEF RefuseRetry, Drops, GoesOn
<1>12. ASSUME MarkCancelled(c) \/ ClientLost(c) \/ SendFails(c) PROVE Goal
  BY <1>1, <1>2, <1>12 DEF MarkCancelled, ClientLost, SendFails, Drops
<1>13. QED
  <2> HIDE DEF Goal
  <2>1. Goal BY <1>4, <1>5, <1>6, <1>7, <1>8, <1>9, <1>10, <1>11, <1>12 DEF Request
  <2>2. QED BY <2>1 DEF Goal

\* The only request keeps rows and tasks in agreement.
LEMMA AgreeingRequest ==
  ASSUME TypeOK, Agreeing, NEW c \in Clients, Request(c),
         \A a, b \in Clients : a = b
  PROVE  Agreeing'
<1>1. /\ row \in [Jobs -> Row] /\ task \in [Deliveries -> Task]
      /\ client \in [Clients -> Client] /\ MaxRetries \in Nat
      /\ \A d \in Deliveries : Live(d) => task[d].job \in Jobs
  BY JobAssumption DEF TypeOK, Types, Assigned, Live
<1>2. \/ task' = task
      \/ \E d \in Deliveries :
              /\ SendTask(c, d)
              /\ task[d].state = "unused" /\ client[c].pc = "dispatch"
              /\ client[c].job \in Jobs
              /\ task'[d].job = client[c].job /\ task'[d].state = "waiting"
              /\ task'[d].result = "none" /\ task'[d].attempt = 0
              /\ \A e \in Deliveries \ {d} : task'[e] = task[e]
  BY RequestTasks
<1>3. CASE task' = task
  <2>1. /\ \A d \in Deliveries : Live(d)' = Live(d)
        /\ \A j : Quiet(j)' = Quiet(j)
    BY <1>3 DEF Live, Quiet
  <2>2. OneTask' BY <1>3, <2>1 DEF Agreeing, OneTask
  <2>3. \A j \in Jobs :
          \/ row'[j] = row[j]
          \/ /\ row'[j].status \in {"pending", "queued", "cancelled"}
             /\ row'[j].retries = row[j].retries \/ Quiet(j)
    BY RequestRows DEF Agreeing, QuietRows
  <2>4. QuietRows' BY <2>1, <2>3 DEF Agreeing, QuietRows
  <2>5. SuccessIsComplete' BY <2>3 DEF Agreeing, SuccessIsComplete
  <2>6. CountsAgree'
    <3> SUFFICES ASSUME NEW d \in Deliveries, Live(d)
                 PROVE  Counted(task[d], row'[task[d].job])
      BY <1>3, <2>1 DEF CountsAgree
    <3>1. ~ Quiet(task[d].job) BY DEF Quiet
    <3>2. QED BY <1>1, <2>3, <3>1 DEF Agreeing, CountsAgree, Counted
  <2>7. QuietRequests'
    <3> SUFFICES ASSUME NEW b \in Clients PROVE 
          /\ client'[b].pc = "dispatch" =>
               row'[client'[b].job].status = "pending" /\ Quiet(client'[b].job)
          /\ \A i \in client'[b].todo :
               /\ client'[b].pc \in {"dispatch", "sent"} => i.job # client'[b].job
               /\ MayRetry(i.copy) => Quiet(i.job)
               /\ \A k \in client'[b].todo : k.job = i.job => k = i
      BY <2>1 DEF QuietRequests
    <3>1. b = c
      OBVIOUS
    <3>2. \A j \in Jobs : MayRetry(View(row[j])) => Quiet(j)
      BY DEF MayRetry, View, RetryableStatuses, Agreeing, QuietRows
    <3>3. \A j \in Jobs : row[j].status = "none" => Quiet(j) BY DEF Agreeing, QuietRows
    <3>4. ~ \E d \in Deliveries : SendTask(c, d)
      <4>1. ASSUME NEW d \in Deliveries, SendTask(c, d) PROVE FALSE
        BY <1>1, <1>3, <4>1 DEF SendTask, Unused, UnusedTask
      <4>2. QED BY <4>1
    <3>5. Drops(c) \/ GoesOn(c) \/ Loads(c) \/ Creates(c) \/ Resets(c) BY <3>4, RequestTodo
    <3>6. CASE Drops(c) \/ GoesOn(c) \/ Creates(c)
      BY <3>1, <3>3, <3>6 DEF Drops, GoesOn, Creates, Agreeing, QuietRequests
    <3>7. CASE Loads(c) BY <3>1, <3>2, <3>7 DEF Loads
    <3>8. CASE Resets(c) BY <3>1, <3>8 DEF Resets, Agreeing, QuietRequests
    <3>9. QED BY <3>5, <3>6, <3>7, <3>8
  <2>8. QED BY <2>2, <2>4, <2>5, <2>6, <2>7 DEF Agreeing
<1>4. ASSUME NEW d \in Deliveries, SendTask(c, d),
              task[d].state = "unused", client[c].pc = "dispatch",
              client[c].job \in Jobs,
              task'[d].job = client[c].job, task'[d].state = "waiting",
              task'[d].result = "none", task'[d].attempt = 0,
              \A e \in Deliveries \ {d} : task'[e] = task[e]
      PROVE  Agreeing'
  <2> DEFINE j == client[c].job
  <2>1. /\ row' = row /\ client'[c].pc = "sent" /\ client'[c].job = j
        /\ client'[c].todo = client[c].todo
    BY <1>1, <1>4 DEF SendTask, Client
  <2>2. row[j].status = "pending" /\ Quiet(j) BY <1>4 DEF Agreeing, QuietRequests
  <2>3. /\ \A e \in Deliveries \ {d} : Live(e)' = Live(e)
        /\ \A k : k # j /\ Quiet(k) => Quiet(k)'
    BY <1>4 DEF Live, Quiet
  <2>4. OneTask' BY <1>4, <2>2, <2>3 DEF Agreeing, OneTask, Quiet
  <2>5. QuietRows' /\ SuccessIsComplete'
    BY <2>1, <2>2, <2>3 DEF Agreeing, QuietRows, SuccessIsComplete
  <2>6. row[j].retries \in Nat BY <1>1, <1>4 DEF Row
  <2>7. CountsAgree' BY <1>1, <1>4, <2>1, <2>3, <2>6 DEF Agreeing, CountsAgree, Counted
  <2>8. QuietRequests' BY <1>4, <2>1, <2>3 DEF Agreeing, QuietRequests
  <2>9. QED BY <2>4, <2>5, <2>7, <2>8 DEF Agreeing
<1>5. QED BY <1>2, <1>3, <1>4

\* So does a worker, on whatever the request has saved meanwhile.
LEMMA AgreeingExecution ==
  ASSUME TypeOK, RetryBudget, Agreeing, NEW d \in Deliveries, Execution(d)
  PROVE  Agreeing'
<1>1. /\ row \in [Jobs -> Row] /\ task \in [Deliveries -> Task]
      /\ client \in [Clients -> Client] /\ MaxRetries \in Nat
      /\ \A e \in Deliveries : Live(e) => task[e].job \in Jobs
  BY JobAssumption DEF TypeOK, Types, Assigned, Live
<1>0. PICK j \in Jobs : j = task[d].job BY ExecutionEffect
<1>2. /\ client' = client
      /\ task'[d].job = task[d].job
      /\ \A e \in Deliveries \ {d} : task'[e] = task[e]
  BY <1>1, ExecutionFrame
<1>3. /\ j \in Jobs
      /\ Effect(task[d], task'[d], row[j], row'[j])
      /\ \A k \in Jobs \ {j} : row'[k] = row[k]
  BY <1>0, ExecutionEffect
<1>4. Live(d) BY <1>3 DEF Effect, Live
<1>5. ~ Quiet(j) BY <1>0, <1>4 DEF Quiet
<1>6. /\ \A e \in Deliveries : Live(e)' => Live(e)
      /\ \A e \in Deliveries : task'[e].job = task[e].job
      /\ \A k : Quiet(k) => Quiet(k)'
  BY <1>2, <1>4 DEF Live, Quiet
<1>7. OneTask' BY <1>6 DEF Agreeing, OneTask
<1>8. task'[d].state = "gone" => Quiet(j)' BY <1>0, <1>2, <1>4 DEF Quiet, Live, Agreeing, OneTask
<1>9. row[j] \in Row /\ task[d] \in Task /\ task[d].copy \in Copy BY <1>1, <1>3 DEF Task
<1>10. /\ row[j].status \notin {"none", "succeeded"}
       /\ row[j].status = "failed" => row[j].retries >= MaxRetries
  BY <1>1, <1>3, <1>5, <1>9 DEF Agreeing, QuietRows, Row
<1>11. Counted(task[d], row[j]) BY <1>0, <1>4 DEF Agreeing, CountsAgree
<1>12. \/ task'[d].state = "gone"
       \/ /\ row'[j].status \notin {"none", "succeeded"}
          /\ row'[j].status = "failed" => row'[j].retries >= MaxRetries
  BY <1>1, <1>3, <1>9, <1>10, <1>11 DEF Effect, Counted, Row, Copy
<1>13. QuietRows'
  <2> SUFFICES ASSUME NEW k \in Jobs,
                \/ row'[k].status \in {"none", "succeeded"}
                \/ row'[k].status = "failed" /\ row'[k].retries < MaxRetries
               PROVE  Quiet(k)'
    BY DEF QuietRows
  <2>1. CASE k = j
    <3>1. \/ task'[d].state = "gone"
          \/ row'[j].retries >= MaxRetries /\ row'[j].retries < MaxRetries
      BY <1>12, <2>1
    <3>2. row'[j].retries \in Nat BY <1>3, ExecutionType DEF Types, Row
    <3>3. QED BY <1>1, <1>8, <2>1, <3>1, <3>2
  <2>2. CASE k # j BY <1>3, <1>6, <2>2 DEF Agreeing, QuietRows
  <2>3. QED BY <2>1, <2>2
<1>14. SuccessIsComplete' BY <1>3, <1>10 DEF Effect, Agreeing, SuccessIsComplete
<1>15. QuietRequests'
  <2>1. \A c \in Clients : client[c].pc = "dispatch" => client[c].job # j
    BY <1>5 DEF Agreeing, QuietRequests
  <2>2. \A c \in Clients : client[c].pc = "dispatch" => client[c].job \in Jobs
    BY DEF TypeOK, Assigned
  <2>3. QED BY <1>2, <1>3, <1>6, <2>1, <2>2 DEF Agreeing, QuietRequests
<1>16. CountsAgree'
  <2> SUFFICES ASSUME NEW e \in Deliveries, Live(e)'
               PROVE  Counted(task'[e], row'[task'[e].job])
    BY DEF CountsAgree
  <2>1. CASE e = d
    <3>1. /\ row[j].retries \in Nat /\ task[d].attempt \in Nat
          /\ row[j].retries <= MaxRetries
      BY <1>3, <1>9 DEF Row, Task, RetryBudget
    <3>2. task'[d].state # "gone" BY <2>1 DEF Live
    <3>3. Counted(task'[d], row'[j]) BY <1>1, <1>3, <1>11, <3>1, <3>2 DEF Effect, Counted
    <3>4. QED BY <1>0, <1>2, <2>1, <3>3
  <2>2. CASE e # d
    <3>1. task[e].job # j /\ task[e].job \in Jobs
      BY <1>0, <1>1, <1>4, <1>6, <2>2 DEF Agreeing, OneTask
    <3>2. row'[task[e].job] = row[task[e].job] BY <1>3, <3>1
    <3>3. QED BY <1>2, <1>6, <2>2, <3>2 DEF Agreeing, CountsAgree
  <2>3. QED BY <2>1, <2>2
<1>17. QED BY <1>7, <1>13, <1>14, <1>15, <1>16 DEF Agreeing

\* No step strands a job that says RETRYING or RUNNING while no worker dies.
LEMMA ScheduledStep ==
  ASSUME TypeOK, RetryBudget, Agreeing, WorkIsScheduled, [Next]_vars,
         "worker" \notin Faults
  PROVE  WorkIsScheduled'
<1>1. /\ row \in [Jobs -> Row] /\ task \in [Deliveries -> Task]
      /\ MaxRetries \in Nat
  BY JobAssumption DEF TypeOK, Types
<1>2. ASSUME NEW c \in Clients, Request(c) PROVE WorkIsScheduled'
  <2>1. \A j \in Jobs :
          row'[j].status \in {"retrying", "running"} => row'[j] = row[j]
    BY <1>2, RequestRows
  <2>2. \A j \in Jobs, d \in Deliveries : d \in LiveFor(j) => d \in LiveFor(j)'
    BY <1>2, RequestTasks DEF LiveFor, Live
  <2>3. QED BY <2>1, <2>2 DEF WorkIsScheduled, LiveFor
<1>3. ASSUME NEW d \in Deliveries, Execution(d) PROVE WorkIsScheduled'
  <2>0. PICK j \in Jobs : j = task[d].job BY <1>3, ExecutionEffect
  <2>1. /\ task'[d].job = task[d].job
        /\ \A e \in Deliveries \ {d} : task'[e] = task[e]
    BY <1>1, <1>3, ExecutionFrame
  <2>2. /\ j \in Jobs
        /\ Effect(task[d], task'[d], row[j], row'[j])
        /\ \A k \in Jobs \ {j} : row'[k] = row[k]
    BY <1>3, <2>0, ExecutionEffect
  <2>3. Live(d) BY <2>2 DEF Effect, Live
  <2>4. /\ task[d].attempt \in Nat /\ row[j].retries \in Nat
        /\ row[j].retries <= MaxRetries
    BY <1>1, <2>2 DEF Task, Row, RetryBudget
  <2>5. Counted(task[d], row[j]) BY <2>0, <2>3 DEF Agreeing, CountsAgree
  <2>6. Live(d)' \/ row'[j].status \notin {"retrying", "running"}
    BY <1>1, <2>2, <2>4, <2>5 DEF Effect, Counted, Live
  <2>7. \A k \in Jobs : k # j => LiveFor(k)' = LiveFor(k) BY <2>0, <2>1 DEF LiveFor, Live
  <2>8. Live(d)' => d \in LiveFor(j)' BY <2>0, <2>1 DEF LiveFor
  <2>9. QED BY <2>2, <2>6, <2>7, <2>8 DEF WorkIsScheduled
<1>4. CASE UNCHANGED vars BY <1>4 DEF vars, WorkIsScheduled, LiveFor, Live
<1>5. QED BY <1>2, <1>3, <1>4 DEF Next

\* The inductive step.
LEMMA AgreeingStep ==
  ASSUME TypeOK, RetryBudget, Agreeing, [Next]_vars, \A a, b \in Clients : a = b
  PROVE  Agreeing'
<1>1. CASE UNCHANGED vars
  BY <1>1 DEF vars, Agreeing, OneTask, QuietRows, QuietRequests, CountsAgree, SuccessIsComplete,
     Quiet, Live
<1>2. QED BY <1>1, AgreeingRequest, AgreeingExecution DEF Next

\* At the start there are no rows and no tasks.
LEMMA AgreeingInit == Init => Agreeing
  BY DEF Init, Agreeing, OneTask, QuietRows, QuietRequests, CountsAgree, SuccessIsComplete, Quiet,
     Live, NoRow, UnusedTask, IdleClient

\* No two tasks in circulation for a job: a set of at most one.
LEMMA AgreeingSingle == Agreeing => SingleFlight
<1> SUFFICES ASSUME Agreeing, NEW j \in Jobs PROVE Cardinality(LiveFor(j)) <= 1 BY DEF SingleFlight
<1>1. CASE LiveFor(j) = {} BY <1>1, FS_EmptySet
<1>2. CASE LiveFor(j) # {}
  <2>1. PICK d \in LiveFor(j) : TRUE BY <1>2
  <2>2. LiveFor(j) = {d} BY <2>1 DEF LiveFor, Agreeing, OneTask
  <2>3. QED BY <2>2, FS_Singleton
<1>3. QED BY <1>1, <1>2

\* With one request at a time, and while no worker dies, a job has at most one
\* task in circulation, one if it says RETRYING or RUNNING, and a SUCCEEDED
\* row is complete.
THEOREM RowsAgreeWithTasks ==
  ASSUME \A a, b \in Clients : a = b, "worker" \notin Faults
  PROVE  Spec => []RowsAndTasksAgree
<1>1. Init => Agreeing /\ WorkIsScheduled BY AgreeingInit DEF Init, WorkIsScheduled, NoRow
<1>2. TypeOK /\ RetryBudget /\ Agreeing /\ WorkIsScheduled /\ [Next]_vars
        => (Agreeing /\ WorkIsScheduled)'
  BY AgreeingStep, ScheduledStep
<1>3. Agreeing /\ WorkIsScheduled => RowsAndTasksAgree
  BY AgreeingSingle DEF Agreeing, RowsAndTasksAgree
<1>4. QED BY <1>1, <1>2, <1>3, TypeCorrect, RetriesBounded, PTL DEF Spec

-----------------------------------------------------------------------------
(* One request at a time: every step is a step of JobExecution or none.    *)

PhaseIn(state) == IF state = "waiting" THEN "waiting" ELSE "running"

\* Where a job is in the abstract execution: idle without a task in
\* circulation, else where that one task is.
Mapped == \A j \in Jobs :
  /\ Quiet(j) => PhaseOf(j) = "idle" /\ AttemptOf(j) = 0
  /\ \A d \in Deliveries : Live(d) /\ task[d].job = j =>
       /\ PhaseOf(j) = PhaseIn(task[d].state)
       /\ AttemptOf(j) = task[d].attempt

\* The mapping's CHOOSE picks the one task there is.
LEMMA MappedPhases == OneTask => Mapped
<1> SUFFICES ASSUME OneTask, NEW j \in Jobs
    PROVE  /\ Quiet(j) => PhaseOf(j) = "idle" /\ AttemptOf(j) = 0
           /\ \A d \in Deliveries : Live(d) /\ task[d].job = j =>
                /\ PhaseOf(j) = PhaseIn(task[d].state)
                /\ AttemptOf(j) = task[d].attempt
  BY DEF Mapped
<1>1. Quiet(j) => LiveFor(j) = {} BY DEF Quiet, LiveFor
<1>2. ASSUME NEW d \in Deliveries, Live(d), task[d].job = j
      PROVE  LiveFor(j) = {d} /\ TaskOf(j) = d
  <2>1. LiveFor(j) = {d} BY <1>2 DEF LiveFor, OneTask
  <2>2. QED BY <2>1 DEF TaskOf
<1>3. QED BY <1>1, <1>2 DEF PhaseOf, AttemptOf, PhaseIn

\* The same in the next state.
LEMMA MappedNext == OneTask' => Mapped'
  BY MappedPhases, PTL

\* A job whose tasks in circulation are untouched stays where it is.
LEMMA PhaseStays ==
  ASSUME NEW j \in Jobs,
         \A d \in Deliveries : task'[d] = task[d]
           \/ (d \notin LiveFor(j) /\ d \notin LiveFor(j)')
  PROVE  PhaseOf(j)' = PhaseOf(j) /\ AttemptOf(j)' = AttemptOf(j)
<1>1. LiveFor(j)' = LiveFor(j) /\ \A d \in LiveFor(j) : task'[d] = task[d] BY DEF LiveFor, Live
<1>2. TaskOf(j)' = TaskOf(j) BY <1>1 DEF TaskOf
<1>3. LiveFor(j) # {} => TaskOf(j) \in LiveFor(j) BY DEF TaskOf
<1>4. QED BY <1>1, <1>2, <1>3 DEF PhaseOf, AttemptOf

\* A step of the lifecycle is a step of the abstract execution of one job, or
\* changes nothing there.
LEMMA ExecStep ==
  ASSUME TypeOK, RetryBudget, Agreeing, OneTask', [Next]_vars
  PROVE  [Exec!ExecNext]_Exec!execVars
<1> DEFINE phase == [j \in Jobs |-> PhaseOf(j)]
           attempt == [j \in Jobs |-> AttemptOf(j)]
<1>1. Mapped /\ Mapped' BY MappedPhases, MappedNext DEF Agreeing
<1>2. CASE task' = task
  <2>1. ASSUME NEW j \in Jobs
        PROVE  PhaseOf(j)' = PhaseOf(j) /\ AttemptOf(j)' = AttemptOf(j)
    BY <1>2, PhaseStays
  <2>2. phase' = phase /\ attempt' = attempt BY <2>1
  <2>3. QED BY <2>2 DEF Exec!execVars
<1>3. ASSUME NEW c \in Clients, Request(c), task' # task
      PROVE  Exec!ExecNext
  <2>1. PICK d \in Deliveries :
              /\ task[d].state = "unused" /\ client[c].pc = "dispatch"
              /\ client[c].job \in Jobs
              /\ task'[d].job = client[c].job /\ task'[d].state = "waiting"
              /\ task'[d].result = "none" /\ task'[d].attempt = 0
              /\ \A e \in Deliveries \ {d} : task'[e] = task[e]
    BY <1>3, RequestTasks
  <2>2. PICK j \in Jobs : j = client[c].job BY <2>1
  <2>3. Quiet(j) BY <2>1, <2>2 DEF Agreeing, QuietRequests
  <2>4. /\ PhaseOf(j) = "idle" /\ AttemptOf(j) = 0
        /\ PhaseOf(j)' = "waiting" /\ AttemptOf(j)' = 0
    BY <1>1, <2>1, <2>2, <2>3 DEF Mapped, Live, PhaseIn
  <2>5. ASSUME NEW k \in Jobs \ {j}
        PROVE  PhaseOf(k)' = PhaseOf(k) /\ AttemptOf(k)' = AttemptOf(k)
    <3>1. \A e \in Deliveries : task'[e] = task[e]
            \/ (e \notin LiveFor(k) /\ e \notin LiveFor(k)')
      BY <2>1, <2>2 DEF LiveFor, Live
    <3>2. QED BY <3>1, PhaseStays
  <2>6. phase' = [phase EXCEPT ![j] = "waiting"] /\ attempt' = attempt
        /\ phase[j] = "idle"
    BY <2>4, <2>5
  <2>7. Exec!Accept(j) BY <2>6 DEF Exec!Accept
  <2>8. QED BY <2>7 DEF Exec!ExecNext
<1>4. ASSUME NEW d \in Deliveries, Execution(d), task' # task
      PROVE  [Exec!ExecNext]_Exec!execVars
  <2>1. PICK j \in Jobs : j = task[d].job BY <1>4, ExecutionEffect
  <2>2. /\ Effect(task[d], task'[d], row[j], row'[j])
        /\ task'[d].job = j
        /\ \A e \in Deliveries \ {d} : task'[e] = task[e]
    BY <1>4, <2>1, ExecutionEffect, ExecutionFrame DEF TypeOK, Types
  <2>3. Live(d) BY <2>2 DEF Effect, Live
  <2>4. /\ PhaseOf(j) = PhaseIn(task[d].state)
        /\ AttemptOf(j) = task[d].attempt
    BY <1>1, <2>1, <2>3 DEF Mapped
  <2>5. ASSUME NEW k \in Jobs \ {j}
        PROVE  PhaseOf(k)' = PhaseOf(k) /\ AttemptOf(k)' = AttemptOf(k)
    <3>1. \A e \in Deliveries : task'[e] = task[e]
            \/ (e \notin LiveFor(k) /\ e \notin LiveFor(k)')
      BY <2>1, <2>2 DEF LiveFor, Live
    <3>2. QED BY <3>1, PhaseStays
  <2>6. CASE task'[d].state = "gone"
    <3>1. Quiet(j)' BY <2>1, <2>2, <2>3, <2>6 DEF Quiet, Live, Agreeing, OneTask
    <3>2. PhaseOf(j)' = "idle" /\ AttemptOf(j)' = 0 BY <1>1, <3>1 DEF Mapped
    <3>3. /\ phase' = [phase EXCEPT ![j] = "idle"]
          /\ attempt' = [attempt EXCEPT ![j] = 0]
          /\ phase[j] \in {"waiting", "running"}
      BY <2>4, <2>5, <3>2 DEF PhaseIn
    <3>4. Exec!Leave(j) BY <3>3 DEF Exec!Leave
    <3>5. QED BY <3>4 DEF Exec!ExecNext
  <2>7. CASE task'[d].state # "gone"
    <3>1. Live(d)' BY <2>2, <2>7 DEF Effect, Live
    <3>2. /\ PhaseOf(j)' = PhaseIn(task'[d].state)
          /\ AttemptOf(j)' = task'[d].attempt
      BY <1>1, <2>2, <3>1 DEF Mapped
    <3>3. CASE task[d].state = "waiting"
      <4>1. /\ PhaseOf(j) = "waiting" /\ PhaseOf(j)' = "running"
            /\ AttemptOf(j)' = AttemptOf(j)
        BY <2>2, <2>4, <2>7, <3>2, <3>3 DEF Effect, PhaseIn
      <4>2. phase' = [phase EXCEPT ![j] = "running"] /\ attempt' = attempt
            /\ phase[j] = "waiting"
        BY <2>5, <4>1
      <4>3. Exec!Start(j) BY <4>2 DEF Exec!Start
      <4>4. QED BY <4>3 DEF Exec!ExecNext
    <3>4. CASE task[d].state = "raised"
      <4>1. /\ PhaseOf(j) = "running" /\ PhaseOf(j)' = "waiting"
            /\ AttemptOf(j)' = AttemptOf(j) + 1 /\ AttemptOf(j) < MaxRetries
        BY <2>2, <2>4, <2>7, <3>2, <3>4 DEF Effect, PhaseIn
      <4>2. phase' = [phase EXCEPT ![j] = "waiting"]
            /\ attempt' = [attempt EXCEPT ![j] = attempt[j] + 1]
            /\ phase[j] = "running" /\ attempt[j] < MaxRetries
        BY <2>5, <4>1
      <4>3. Exec!Reattempt(j) BY <4>2 DEF Exec!Reattempt
      <4>4. QED BY <4>3 DEF Exec!ExecNext
    <3>5. CASE task[d].state \in {"loaded", "executing"}
      <4>1. PhaseOf(j)' = PhaseOf(j) /\ AttemptOf(j)' = AttemptOf(j)
        BY <2>2, <2>4, <2>7, <3>2, <3>5 DEF Effect, PhaseIn
      <4>2. phase' = phase /\ attempt' = attempt BY <2>5, <4>1
      <4>3. QED BY <4>2 DEF Exec!execVars
    <3>6. QED BY <2>3, <3>3, <3>4, <3>5 DEF Live
  <2>8. QED BY <2>6, <2>7
<1>5. QED BY <1>2, <1>3, <1>4 DEF Next, vars

\* With one request at a time, under every fault, the tasks, the runner and the
\* requests implement JobExecution: one sending of a job runs in one place at a
\* time and has at most MaxRetries + 1 attempts.
THEOREM ExecutionImplemented ==
  ASSUME \A a, b \in Clients : a = b
  PROVE  Spec => ImplementsExecution
<1>1. Init => Exec!ExecInit
  <2>1. Init => OneTask /\ \A j \in Jobs : Quiet(j) BY DEF Init, OneTask, Quiet, Live, UnusedTask
  <2>2. QED BY <2>1, MappedPhases DEF Mapped, Exec!ExecInit
<1>2. TypeOK /\ RetryBudget /\ Agreeing /\ [Next]_vars => Agreeing' BY AgreeingStep
<1>3. TypeOK /\ RetryBudget /\ Agreeing /\ Agreeing' /\ [Next]_vars
        => [Exec!ExecNext]_Exec!execVars
  BY ExecStep DEF Agreeing
<1>4. QED BY <1>1, <1>2, <1>3, AgreeingInit, TypeCorrect, RetriesBounded, PTL DEF Spec,
    ImplementsExecution, Exec!ExecSpec

-----------------------------------------------------------------------------
(*                        What a generation writes                         *)

(* Recursion up to a number.                                               *)

\* What holds of 0 and of every number after one it holds of, it holds of all.
LEMMA UpTo ==
  ASSUME NEW N \in Nat, NEW T, 0 \in T, \A n \in 1..N : n - 1 \in T => n \in T
  PROVE  0..N \subseteq T
<1> DEFINE R == {p \in Nat \X Nat : p[1] < p[2]}
           U == {n \in 0..N : n \notin T}
<1>1. IsWellFoundedOn(R, Nat) BY NatLessThanWellFounded DEF OpToRel
<1>2. U = {}
  <2>1. SUFFICES ASSUME U # {} PROVE FALSE
    OBVIOUS
  <2>2. U \subseteq Nat
    OBVIOUS
  <2>3. PICK x \in U : \A y \in U : ~ (<<y, x>> \in R)
    <3> HIDE DEF R, U
    <3>1. QED BY <1>1, <2>1, <2>2, WFMin, Zenon
  <2>4. x \in 1..N /\ x \notin T BY <2>3
  <2>5. x - 1 \notin U
    <3>1. x - 1 \in Nat /\ x \in Nat /\ x - 1 < x BY <2>4
    <3>2. <<x - 1, x>> \in R BY <3>1
    <3>3. QED BY <2>3, <3>2
  <2>6. QED BY <2>3, <2>4, <2>5
<1>3. QED BY <1>2

\* A function can be defined from each value to the next.
Course(g, N, a, F) == g[0] = a /\ \A n \in 1..N : g[n] = F[<<n, g[n - 1]>>]
HasCourse(N, S, a, F) == \E g \in [0..N -> S] : Course(g, N, a, F)
LEMMA StepByStep ==
  ASSUME NEW N \in Nat, NEW S, NEW a \in S, NEW F \in [(1..N) \X S -> S]
  PROVE  HasCourse(N, S, a, F)
<1> USE DEF HasCourse, Course
<1> DEFINE Good(m, g) == g[0] = a /\ \A n \in 1..m : g[n] = F[<<n, g[n - 1]>>]
           T == {m \in 0..N : \E g \in [0..m -> S] : Good(m, g)}
<1>1. 0 \in T
  <2> DEFINE g == [n \in 0..0 |-> a]
  <2>1. g \in [0..0 -> S] /\ g[0] = a /\ 1..0 = {}
    OBVIOUS
  <2> HIDE DEF g
  <2>2. Good(0, g) BY <2>1
  <2> HIDE DEF Good
  <2>3. QED BY <2>1, <2>2
<1>2. ASSUME NEW m \in 1..N, m - 1 \in T PROVE m \in T
  <2>1. PICK g \in [0..(m - 1) -> S] : Good(m - 1, g) BY <1>2
  <2> DEFINE h == [n \in 0..m |-> IF n = m THEN F[<<m, g[m - 1]>>] ELSE g[n]]
  <2>2. h \in [0..m -> S] BY <2>1
  <2>3. Good(m, h)
    <3>1. h[0] = a BY <2>1
    <3>2. ASSUME NEW n \in 1..m PROVE h[n] = F[<<n, h[n - 1]>>]
      <4>1. CASE n = m
        <5>1. n \in 0..m /\ n - 1 \in 0..m /\ n - 1 # m BY <4>1
        <5>2. QED BY <4>1, <5>1
      <4>2. CASE n # m
        <5>1. n \in 1..(m - 1) /\ n - 1 \in 0..m /\ n - 1 # m BY <4>2
        <5>2. QED BY <2>1, <5>1, <4>2
      <4>3. QED BY <4>1, <4>2
    <3>3. QED BY <3>1, <3>2
  <2>4. m \in 0..N
    OBVIOUS
  <2> HIDE DEF Good, h
  <2>5. QED BY <2>2, <2>3, <2>4
<1>3. 0..N \subseteq T
  <2> HIDE DEF T
  <2>1. QED BY <1>1, <1>2, UpTo
<1>4. QED
  <2> HIDE DEF Good
  <2>1. N \in T BY <1>3
  <2>2. \E g \in [0..N -> S] : Good(N, g) BY <2>1
  <2>3. QED BY <2>2 DEF Good

LEMMA LeastNumber ==
  ASSUME NEW S \in SUBSET Nat, S # {}
  PROVE  \E x \in S : \A y \in S : x <= y
<1> DEFINE R == {p \in Nat \X Nat : p[1] < p[2]}
<1>1. IsWellFoundedOn(R, Nat) BY NatLessThanWellFounded DEF OpToRel
<1>2. PICK x \in S : \A y \in S : ~ (<<y, x>> \in R)
  <2> HIDE DEF R
  <2>1. QED BY <1>1, WFMin, Zenon
<1>3. ASSUME NEW y \in S PROVE x <= y
  <2>1. x \in Nat /\ y \in Nat /\ <<y, x>> \notin R BY <1>2
  <2>2. ~ (y < x) BY <2>1
  <2>3. QED BY <2>1, <2>2
<1>4. QED BY <1>3

LEMMA Ends ==
  ASSUME NEW n \in Nat, NEW S \in SUBSET (1..n), S # {}
  PROVE  /\ Min(S) \in S /\ \A y \in S : Min(S) <= y
         /\ Max(S) \in S /\ \A y \in S : y <= Max(S)
<1>1. \E x \in S : \A y \in S : x <= y BY LeastNumber
<1>2. \E x \in S : \A y \in S : x >= y
  <2> DEFINE U == {n - y : y \in S}
  <2>1. U \in SUBSET Nat /\ U # {}
    <3>1. PICK y \in S : TRUE
      OBVIOUS
    <3>2. n - y \in U
      OBVIOUS
    <3>3. \A z \in S : n - z \in Nat
      OBVIOUS
    <3>4. QED BY <3>2, <3>3
  <2>2. PICK u \in U : \A v \in U : u <= v
    <3> HIDE DEF U
    <3>1. QED BY <2>1, LeastNumber
  <2>3. PICK x \in S : u = n - x
    OBVIOUS
  <2>4. ASSUME NEW y \in S PROVE x >= y
    <3>1. n - y \in U
      OBVIOUS
    <3>2. n - x <= n - y BY <2>2, <2>3, <3>1
    <3>3. QED BY <3>2
  <2>5. QED BY <2>4
<1>3. Min(S) \in S /\ \A y \in S : Min(S) =< y BY <1>1 DEF Min
<1>4. Max(S) \in S /\ \A y \in S : Max(S) >= y BY <1>2 DEF Max
<1>5. QED BY <1>3, <1>4

LEMMA Starts ==
  ASSUME NEW A, NEW seq \in Seq(A), NEW q \in Nat, q <= Len(seq)
  PROVE  /\ SubSeq(seq, 1, q) = [k \in 1..q |-> seq[k]] /\ SubSeq(seq, 1, q) \in Seq(A)
         /\ Len(SubSeq(seq, 1, q)) = q /\ DOMAIN SubSeq(seq, 1, q) = 1..q
         /\ \A k \in 1..q : SubSeq(seq, 1, q)[k] = seq[k]
<1> DEFINE s == [k \in 1..q |-> seq[k]]
<1>1. Len(seq) \in Nat /\ DOMAIN seq = 1..Len(seq) /\ \A k \in 1..Len(seq) : seq[k] \in A
  OBVIOUS
<1>2. \A k \in 1..q : k \in 1..Len(seq) BY <1>1
<1>3. s \in [1..q -> A] /\ DOMAIN s = 1..q BY <1>1, <1>2
<1>4. s \in Seq(A) /\ Len(s) = q BY <1>3, SeqDef
<1>5. /\ SubSeq(seq, 1, q) \in Seq(A) /\ Len(SubSeq(seq, 1, q)) = q
      /\ DOMAIN SubSeq(seq, 1, q) = 1..q
      /\ \A k \in 1..q : SubSeq(seq, 1, q)[k] = seq[k]
  BY <1>1
<1>6. SubSeq(seq, 1, q) = s
  <2>1. \A k \in 1..q : s[k] = SubSeq(seq, 1, q)[k] BY <1>5
  <2> HIDE DEF s
  <2>2. QED BY <1>3, <1>4, <1>5, <2>1, SeqEqual
<1>7. QED BY <1>5, <1>6

LEMMA OfTwo ==
  ASSUME NEW x \in Int, NEW y \in Int
  PROVE  /\ Max({x, y}) = IF x >= y THEN x ELSE y
         /\ Min({x, y}) = IF x <= y THEN x ELSE y
<1>1. \E z \in {x, y} : \A w \in {x, y} : z >= w
  OBVIOUS
<1>2. \E z \in {x, y} : \A w \in {x, y} : z =< w
  OBVIOUS
<1>3. Max({x, y}) \in {x, y} /\ \A w \in {x, y} : Max({x, y}) >= w BY <1>1 DEF Max
<1>4. Min({x, y}) \in {x, y} /\ \A w \in {x, y} : Min({x, y}) =< w BY <1>2 DEF Min
<1>5. QED BY <1>3, <1>4

-----------------------------------------------------------------------------
(* Texts and their tokens.                                                 *)

Chars == {"cjk", "latin"}

\* Counting the characters of a text.
LEMMA CountType ==
  ASSUME NEW t \in Seq(Chars), NEW c
  PROVE  IsFiniteSet({i \in DOMAIN t : t[i] = c}) /\ Count(t, c) \in Nat
<1>1. DOMAIN t = 1..Len(t) /\ Len(t) \in Nat
  OBVIOUS
<1>2. IsFiniteSet(1..Len(t)) BY <1>1, FS_Interval
<1>3. {i \in DOMAIN t : t[i] = c} \in SUBSET (1..Len(t)) BY <1>1
<1>4. IsFiniteSet({i \in DOMAIN t : t[i] = c}) BY <1>2, <1>3, FS_Subset
<1>5. QED BY <1>4, FS_CardinalityType DEF Count

LEMMA CountJoined ==
  ASSUME NEW t \in Seq(Chars), NEW u \in Seq(Chars), NEW c
  PROVE  t \o u \in Seq(Chars) /\ Count(t \o u, c) = Count(t, c) + Count(u, c)
<1> DEFINE n == Len(t)
           m == Len(u)
           A == {i \in DOMAIN t : t[i] = c}
           B == {i \in DOMAIN u : u[i] = c}
           C == {i \in DOMAIN (t \o u) : (t \o u)[i] = c}
           D == {i + n : i \in B}
<1>1. n \in Nat /\ m \in Nat /\ DOMAIN t = 1..n /\ DOMAIN u = 1..m
  OBVIOUS
<1>2. /\ t \o u \in Seq(Chars) /\ Len(t \o u) = n + m
      /\ \A i \in 1..(n + m) : (t \o u)[i] = IF i <= n THEN t[i] ELSE u[i - n]
  BY ConcatProperties, Zenon
<1>3. DOMAIN (t \o u) = 1..(n + m) BY <1>2
<1> DEFINE v == t \o u
<1> HIDE DEF n, m, v
<1>4. C = A \cup D
  <2>1. ASSUME NEW i \in C PROVE i \in A \cup D
    <3>1. i \in 1..(n + m) /\ v[i] = c BY <1>3 DEF v
    <3>2. CASE i <= n BY <1>1, <1>2, <3>1, <3>2 DEF v
    <3>3. CASE ~ (i <= n)
      <4>1. i - n \in 1..m /\ u[i - n] = c /\ (i - n) + n = i BY <1>1, <1>2, <3>1, <3>3 DEF v
      <4>2. i - n \in B BY <1>1, <4>1
      <4>3. QED BY <4>1, <4>2
    <3>4. QED BY <3>2, <3>3
  <2>2. ASSUME NEW i \in A PROVE i \in C BY <1>1, <1>2, <1>3 DEF v
  <2>3. ASSUME NEW i \in D PROVE i \in C
    <3>1. PICK j \in B : i = j + n
      OBVIOUS
    <3>2. j \in 1..m /\ u[j] = c BY <1>1
    <3>3. i \in 1..(n + m) /\ ~ (i <= n) /\ i - n = j BY <1>1, <3>1, <3>2
    <3>4. QED BY <1>2, <1>3, <3>2, <3>3 DEF v
  <2>4. QED BY <2>1, <2>2, <2>3
<1>5. IsFiniteSet(A) /\ IsFiniteSet(B) BY CountType
<1>6. IsFiniteSet(D) /\ Cardinality(D) = Cardinality(B)
  <2> DEFINE f == [i \in B |-> i + n]
  <2>1. \A i \in B : i \in Int BY <1>1
  <2>2. f \in Bijection(B, D)
    <3>1. f \in [B -> D] /\ \A d \in D : \E i \in B : f[i] = d
      OBVIOUS
    <3>2. \A i, j \in B : f[i] = f[j] => i = j BY <1>1, <2>1
    <3> HIDE DEF f, D, B
    <3>3. QED BY <3>1, <3>2 DEF Bijection, Injection, Surjection, IsInjective
  <2>3. ExistsBijection(B, D) BY <2>2 DEF ExistsBijection
  <2> HIDE DEF B, D
  <2>4. QED BY <1>5, <2>3, FS_Bijection
<1>7. A \cap D = {}
  <2>1. \A i \in A : i \in Int /\ i <= n BY <1>1
  <2>2. \A i \in B : i \in Int /\ i >= 1 BY <1>1
  <2>3. \A i \in D : i > n BY <1>1, <2>2
  <2> HIDE DEF A, D
  <2>4. QED BY <1>1, <2>1, <2>3
<1>8. Cardinality(C) = Cardinality(A) + Cardinality(B)
  <2>1. Cardinality(A \cap D) = 0 BY <1>7, FS_EmptySet
  <2>2. Cardinality(A) \in Nat /\ Cardinality(B) \in Nat BY <1>5, FS_CardinalityType
  <2> HIDE DEF A, B, C, D
  <2>3. Cardinality(A \cup D) = Cardinality(A) + Cardinality(D) - Cardinality(A \cap D)
    BY <1>5, <1>6, FS_Union
  <2>4. QED BY <1>4, <1>6, <2>1, <2>2, <2>3
<1>9. QED BY <1>2, <1>8 DEF Count, v

LEMMA CountOne ==
  ASSUME NEW d \in Chars, NEW c
  PROVE  <<d>> \in Seq(Chars) /\ Count(<<d>>, c) = IF d = c THEN 1 ELSE 0
<1>1. DOMAIN <<d>> = {1} /\ <<d>>[1] = d /\ <<d>> \in Seq(Chars)
  OBVIOUS
<1>2. {i \in DOMAIN <<d>> : <<d>>[i] = c} = IF d = c THEN {1} ELSE {} BY <1>1
<1>3. Cardinality({1}) = 1 BY FS_Singleton
<1>4. Cardinality({}) = 0 BY FS_EmptySet
<1>5. QED BY <1>1, <1>2, <1>3, <1>4 DEF Count

\* A quarter, rounded up.
LEMMA Quarters ==
  ASSUME NEW x \in Nat, NEW y \in Nat, x <= y
  PROVE  /\ (x + 3) \div 4 \in Nat /\ (x + 3) \div 4 <= (y + 3) \div 4
         /\ (x + 1 + 3) \div 4 <= (x + 3) \div 4 + 1
         /\ x <= 4 * ((x + 3) \div 4) /\ (4 * x + y + 3) \div 4 = x + (y + 3) \div 4
  OBVIOUS

LEMMA TokensAre ==
  ASSUME NEW t \in Seq(Chars)
  PROVE  /\ EstimateTokens(t) \in Nat
         /\ Count(t, "cjk") \in Nat /\ Count(t, "latin") \in Nat
         /\ EstimateTokens(t) = Count(t, "cjk") + (Count(t, "latin") + 3) \div 4
<1>1. Count(t, "cjk") \in Nat /\ Count(t, "latin") \in Nat BY CountType
<1>2. (Count(t, "latin") + 3) \div 4 \in Nat BY <1>1, Quarters
<1>3. QED BY <1>1, <1>2 DEF EstimateTokens

\* More text has no fewer tokens, one character more at most one more, and a
\* Chinese one exactly one more.
LEMMA TokensGrow ==
  ASSUME NEW t \in Seq(Chars), NEW u \in Seq(Chars)
  PROVE  t \o u \in Seq(Chars) /\ EstimateTokens(t) <= EstimateTokens(t \o u)
<1>1. /\ t \o u \in Seq(Chars) /\ Count(t \o u, "cjk") = Count(t, "cjk") + Count(u, "cjk")
      /\ Count(t \o u, "latin") = Count(t, "latin") + Count(u, "latin")
  BY CountJoined
<1>2. /\ Count(t, "cjk") \in Nat /\ Count(t, "latin") \in Nat
      /\ Count(u, "cjk") \in Nat /\ Count(u, "latin") \in Nat
      /\ EstimateTokens(t) = Count(t, "cjk") + (Count(t, "latin") + 3) \div 4
  BY TokensAre
<1>3. EstimateTokens(t \o u) = Count(t \o u, "cjk") + (Count(t \o u, "latin") + 3) \div 4
  BY <1>1, TokensAre
<1>4. (Count(t, "latin") + 3) \div 4 <= (Count(t, "latin") + Count(u, "latin") + 3) \div 4
  BY <1>2, Quarters
<1>5. QED BY <1>1, <1>2, <1>3, <1>4

LEMMA TokenMore ==
  ASSUME NEW t \in Seq(Chars), NEW d \in Chars
  PROVE  /\ t \o <<d>> \in Seq(Chars)
         /\ EstimateTokens(t \o <<d>>) <= EstimateTokens(t) + 1
         /\ EstimateTokens(t \o <<"cjk">>) = EstimateTokens(t) + 1
<1>1. /\ Count(t, "cjk") \in Nat /\ Count(t, "latin") \in Nat
      /\ EstimateTokens(t) = Count(t, "cjk") + (Count(t, "latin") + 3) \div 4
  BY TokensAre
<1>2. ASSUME NEW e \in Chars
      PROVE  /\ t \o <<e>> \in Seq(Chars)
             /\ EstimateTokens(t \o <<e>>) =
                  IF e = "cjk" THEN EstimateTokens(t) + 1
                  ELSE Count(t, "cjk") + (Count(t, "latin") + 1 + 3) \div 4
  <2>1. /\ <<e>> \in Seq(Chars) /\ Count(<<e>>, "cjk") = (IF e = "cjk" THEN 1 ELSE 0)
        /\ Count(<<e>>, "latin") = IF e = "latin" THEN 1 ELSE 0
    BY CountOne
  <2>2. /\ t \o <<e>> \in Seq(Chars)
        /\ Count(t \o <<e>>, "cjk") = Count(t, "cjk") + Count(<<e>>, "cjk")
        /\ Count(t \o <<e>>, "latin") = Count(t, "latin") + Count(<<e>>, "latin")
    BY <2>1, CountJoined
  <2>3. EstimateTokens(t \o <<e>>) =
          Count(t \o <<e>>, "cjk") + (Count(t \o <<e>>, "latin") + 3) \div 4
    BY <2>2, TokensAre
  <2>4. e = "cjk" \/ e = "latin" BY DEF Chars
  <2>5. QED BY <1>1, <2>1, <2>2, <2>3, <2>4
<1>3. (Count(t, "latin") + 1 + 3) \div 4 <= (Count(t, "latin") + 3) \div 4 + 1 BY <1>1, Quarters
<1>4. "cjk" \in Chars BY DEF Chars
<1>5. EstimateTokens(t \o <<"cjk">>) = EstimateTokens(t) + 1 BY <1>2, <1>4
<1>6. EstimateTokens(t \o <<d>>) <= EstimateTokens(t) + 1
  <2>1. EstimateTokens(t) \in Nat BY TokensAre
  <2>2. CASE d = "cjk" BY <1>5, <2>1, <2>2
  <2>3. CASE d # "cjk"
    <3>1. EstimateTokens(t \o <<d>>) = Count(t, "cjk") + (Count(t, "latin") + 1 + 3) \div 4
      BY <1>2, <2>3
    <3>2. (Count(t, "latin") + 3) \div 4 \in Nat /\ (Count(t, "latin") + 1 + 3) \div 4 \in Int
      BY <1>1, Quarters
    <3>3. QED BY <1>1, <1>3, <3>1, <3>2
  <2>4. QED BY <2>2, <2>3
<1>7. t \o <<d>> \in Seq(Chars) BY <1>2
<1>8. QED BY <1>5, <1>6, <1>7

-----------------------------------------------------------------------------
(* What fits into a budget.                                                *)

Sentences == Seq(Chars) \ {<<>>}

\* The texts of the first sentences, one after the other.
Joins(j, units) ==
  /\ j \in [0..Len(units) -> Seq(Chars)] /\ j[0] = <<>>
  /\ \A n \in 1..Len(units) :
       j[n] = IF n = 1 THEN units[1] ELSE (j[n - 1] \o <<"latin">>) \o units[n]

LEMMA JoinedIs ==
  ASSUME NEW units \in Seq(Sentences)
  PROVE  \E j : Joins(j, units) /\ Joined(units) = j[Len(units)]
<1> DEFINE N == Len(units)
           A == Seq(Chars)
           Glued(t, n) == IF n = 1 THEN units[1] ELSE (t \o <<"latin">>) \o units[n]
           IsJoin(g) ==
             g = [n \in 0..N |-> IF n = 0 THEN <<>>
                                 ELSE IF n = 1 THEN units[1] ELSE g[n - 1] \o <<"latin">> \o units[n]]
           joined == CHOOSE g : IsJoin(g)
<1>1. N \in Nat /\ <<>> \in A /\ \A n \in 1..N : units[n] \in A BY EmptySeq DEF Sentences
<1>2. \A n \in 1..N, t \in A : Glued(t, n) \in A
  <2>1. <<"latin">> \in A BY CountOne DEF Chars
  <2>2. \A t \in A : (t \o <<"latin">>) \in A BY <2>1, CountJoined
  <2>3. \A t \in A, n \in 1..N : (t \o <<"latin">>) \o units[n] \in A BY <1>1, <2>2, CountJoined
  <2>4. N # 0 => 1 \in 1..N BY <1>1
  <2>5. \A n \in 1..N : N # 0 BY <1>1
  <2>6. QED BY <1>1, <2>3, <2>4, <2>5
<1>3. Joined(units) = joined[N] BY DEF Joined
<1> HIDE DEF N, A, Glued
<1>4. PICK g \in [0..N -> A] : g[0] = <<>> /\ \A n \in 1..N : g[n] = Glued(g[n - 1], n)
  <2> DEFINE F == [x \in (1..N) \X A |-> Glued(x[2], x[1])]
  <2>1. F \in [(1..N) \X A -> A] /\ \A n \in 1..N, s \in A : F[<<n, s>>] = Glued(s, n) BY <1>2
  <2> HIDE DEF F
  <2>2. HasCourse(N, A, <<>>, F) BY <1>1, <2>1, StepByStep
  <2>3. PICK g \in [0..N -> A] : g[0] = <<>> /\ \A n \in 1..N : g[n] = F[<<n, g[n - 1]>>]
    BY <2>2 DEF HasCourse, Course
  <2>4. \A n \in 1..N : n - 1 \in 0..N BY <1>1
  <2>5. \A n \in 1..N : g[n] = Glued(g[n - 1], n) BY <2>1, <2>3, <2>4
  <2>6. QED BY <2>3, <2>5
<1>5. IsJoin(g)
  <2>1. ASSUME NEW n \in 0..N
        PROVE  g[n] = IF n = 0 THEN <<>>
                      ELSE IF n = 1 THEN units[1] ELSE g[n - 1] \o <<"latin">> \o units[n]
    <3>1. CASE n = 0 BY <1>4, <3>1
    <3>2. CASE n # 0
      <4>1. n \in 1..N BY <1>1, <3>2
      <4>2. g[n] = Glued(g[n - 1], n) BY <1>4, <4>1
      <4>3. QED BY <3>2, <4>2 DEF Glued
    <3>3. QED BY <3>1, <3>2
  <2>2. QED BY <1>4, <2>1
<1> HIDE DEF IsJoin
<1>6. IsJoin(joined) BY <1>5
<1> HIDE DEF joined
<1>7. /\ DOMAIN joined = 0..N /\ joined = [n \in 0..N |-> joined[n]]
      /\ \A n \in 0..N :
           joined[n] = IF n = 0 THEN <<>>
                       ELSE IF n = 1 THEN units[1] ELSE joined[n - 1] \o <<"latin">> \o units[n]
  BY <1>6 DEF IsJoin
<1>8. joined[0] = <<>> /\ \A n \in 1..N : joined[n] = Glued(joined[n - 1], n)
  <2>1. 0 \in 0..N /\ \A n \in 1..N : n \in 0..N /\ n # 0 BY <1>1
  <2>2. QED BY <1>7, <2>1 DEF Glued
<1>9. \A n \in 0..N : joined[n] \in A
  <2> DEFINE T == {n \in 0..N : joined[n] \in A}
  <2>1. 0 \in T BY <1>1, <1>8
  <2>2. ASSUME NEW n \in 1..N, n - 1 \in T PROVE n \in T
    <3>1. joined[n - 1] \in A /\ n \in 0..N BY <1>1, <2>2
    <3>2. joined[n] \in A BY <1>2, <1>8, <3>1
    <3>3. QED BY <3>1, <3>2
  <2>3. 0..N \subseteq T
    <3> HIDE DEF T
    <3>1. QED BY <1>1, <2>1, <2>2, UpTo
  <2>4. QED BY <2>3
<1>10. joined \in [0..N -> A] BY <1>7, <1>9
<1>11. Joins(joined, units) BY <1>8, <1>10 DEF Joins, N, A, Glued
<1>12. QED BY <1>3, <1>11 DEF N

\* The first n of the sentences joined are the n-th of these texts.
LEMMA JoinedFirst ==
  ASSUME NEW units \in Seq(Sentences), NEW j, Joins(j, units), NEW n \in 0..Len(units)
  PROVE  SubSeq(units, 1, n) \in Seq(Sentences) /\ Joined(SubSeq(units, 1, n)) = j[n]
<1> DEFINE first == SubSeq(units, 1, n)
           S == Sentences
<1>1. Len(units) \in Nat /\ n \in Nat /\ n <= Len(units)
  OBVIOUS
<1>2. first \in Seq(S) /\ Len(first) = n /\ \A k \in 1..n : first[k] = units[k]
  <2> HIDE DEF S
  <2>1. units \in Seq(S) BY DEF S
  <2>2. QED BY <1>1, <2>1, Starts
<1> HIDE DEF first, S
<1>3. PICK i : Joins(i, first) /\ Joined(first) = i[n] BY <1>2, JoinedIs DEF S
<1>4. i[0] = <<>> /\ \A k \in 1..n :
        i[k] = IF k = 1 THEN first[1] ELSE (i[k - 1] \o <<"latin">>) \o first[k]
  BY <1>2, <1>3 DEF Joins
<1>5. j[0] = <<>> /\ \A k \in 1..Len(units) :
        j[k] = IF k = 1 THEN units[1] ELSE (j[k - 1] \o <<"latin">>) \o units[k]
  BY DEF Joins
<1> DEFINE T == {k \in 0..n : i[k] = j[k]}
<1>6. 0 \in T BY <1>1, <1>4, <1>5
<1>7. ASSUME NEW k \in 1..n, k - 1 \in T PROVE k \in T
  <2>1. k \in 1..Len(units) /\ k \in 0..n /\ 1 \in 1..n BY <1>1
  <2>2. first[k] = units[k] /\ first[1] = units[1] /\ i[k - 1] = j[k - 1] BY <1>2, <1>7, <2>1
  <2>3. i[k] = IF k = 1 THEN first[1] ELSE (i[k - 1] \o <<"latin">>) \o first[k] BY <1>4
  <2>4. j[k] = IF k = 1 THEN units[1] ELSE (j[k - 1] \o <<"latin">>) \o units[k] BY <1>5, <2>1
  <2>5. i[k] = j[k] BY <2>2, <2>3, <2>4
  <2>6. QED BY <2>1, <2>5
<1>8. 0..n \subseteq T
  <2> HIDE DEF T
  <2>1. QED BY <1>1, <1>6, <1>7, UpTo
<1>9. n \in T BY <1>1, <1>8
<1>10. QED BY <1>2, <1>3, <1>9 DEF first, S

LEMMA Associates == \A s, t, u \in Seq(Chars) : (s \o t) \o u = s \o (t \o u)
<1> DEFINE C == Chars
<1> HIDE DEF C
<1>1. SUFFICES ASSUME NEW s \in Seq(C), NEW t \in Seq(C), NEW u \in Seq(C)
               PROVE  (s \o t) \o u = s \o (t \o u)
  BY DEF C
<1>2. QED
  <2>1. (s \o t) \o u = s \o (t \o u) BY ConcatAssociative
  <2>2. QED BY <2>1

\* Every one of these texts begins with the first sentence.
LEMMA JoinsBegin ==
  ASSUME NEW units \in Seq(Sentences), NEW j, Joins(j, units), NEW n \in 1..Len(units)
  PROVE  /\ units[1] \in Sentences
         /\ j[n] = units[1] \/ \E rest \in Seq(Chars) : j[n] = units[1] \o rest
<1> DEFINE N == Len(units)
           A == Seq(Chars)
           Begins(t) == t = units[1] \/ \E rest \in A : t = units[1] \o rest
           T == {k \in 0..N : k = 0 \/ Begins(j[k])}
<1>1. N \in Nat /\ n \in 1..N /\ \A k \in 1..N : units[k] \in Sentences /\ units[k] \in A
  BY DEF Sentences
<1>2. units[1] \in A /\ units[1] \in Sentences BY <1>1
<1>3. \A k \in 1..N : j[k] = IF k = 1 THEN units[1] ELSE (j[k - 1] \o <<"latin">>) \o units[k]
  BY DEF Joins
<1>4. <<"latin">> \in A BY CountOne DEF Chars
<1>5. \A s, t \in A : s \o t \in A BY CountJoined
<1> HIDE DEF N
<1>6. 0 \in T BY <1>1
<1>7. ASSUME NEW k \in 1..N, k - 1 \in T PROVE k \in T
  <2>1. k \in 0..N BY <1>1
  <2>2. CASE k = 1 BY <1>3, <2>1, <2>2
  <2>3. CASE k # 1
    <3>1. k - 1 # 0 /\ Begins(j[k - 1]) BY <1>7, <2>3
    <3>2. j[k] = (j[k - 1] \o <<"latin">>) \o units[k] BY <1>3, <2>3
    <3>3. <<"latin">> \o units[k] \in A BY <1>1, <1>4, <1>5
    <3>4. CASE j[k - 1] = units[1]
      <4>1. (units[1] \o <<"latin">>) \o units[k] = units[1] \o (<<"latin">> \o units[k])
        BY <1>1, <1>2, <1>4, Associates
      <4>3. j[k] = units[1] \o (<<"latin">> \o units[k]) BY <3>2, <3>4, <4>1
      <4>2. QED BY <2>1, <3>3, <4>3
    <3>5. CASE \E rest \in A : j[k - 1] = units[1] \o rest
      <4>1. PICK rest \in A : j[k - 1] = units[1] \o rest BY <3>5
      <4>2. rest \o <<"latin">> \in A BY <1>4, <1>5
      <4>3. (units[1] \o rest) \o <<"latin">> = units[1] \o (rest \o <<"latin">>)
        BY <1>2, <1>4, Associates
      <4>4. (units[1] \o (rest \o <<"latin">>)) \o units[k] = units[1] \o ((rest \o <<"latin">>) \o units[k])
        BY <1>1, <1>2, <4>2, Associates
      <4>5. (rest \o <<"latin">>) \o units[k] \in A BY <1>1, <1>5, <4>2
      <4>6. j[k] = units[1] \o ((rest \o <<"latin">>) \o units[k]) BY <3>2, <4>1, <4>3, <4>4
      <4>7. QED BY <2>1, <4>5, <4>6
    <3>6. QED BY <3>1, <3>4, <3>5
  <2>4. QED BY <2>2, <2>3
<1>8. 0..N \subseteq T
  <2> HIDE DEF T
  <2>1. QED BY <1>1, <1>6, <1>7, UpTo
<1>9. n \in T /\ n # 0
  <2>1. n \in 0..N /\ n # 0 BY <1>1
  <2> HIDE DEF T
  <2>2. QED BY <1>8, <2>1
<1>10. QED BY <1>2, <1>9

\* What the first sentences cost, one by one.
Spends(u, units) ==
  /\ u \in [0..Len(units) -> Nat] /\ u[0] = 0
  /\ \A n \in 1..Len(units) : u[n] = u[n - 1] + EstimateTokens(units[n])

LEMMA FittingIs ==
  ASSUME NEW units \in Seq(Sentences), NEW budget \in Nat
  PROVE  /\ Spends(Used(units), units)
         /\ Fitting(units, budget) \in 0..Len(units) /\ Used(units)[Fitting(units, budget)] <= budget
         /\ \A n \in 0..Len(units) : Used(units)[n] <= budget => n <= Fitting(units, budget)
<1> DEFINE N == Len(units)
           IsSum(g) == g = [n \in 0..N |-> IF n = 0 THEN 0 ELSE g[n - 1] + EstimateTokens(units[n])]
           used == CHOOSE g : IsSum(g)
           cost == [n \in 1..N |-> EstimateTokens(units[n])]
<1>1. N \in Nat /\ \A n \in 1..N : units[n] \in Seq(Chars) BY DEF Sentences
<1>2. cost \in [1..N -> Nat] /\ \A n \in 1..N : cost[n] = EstimateTokens(units[n])
  BY <1>1, TokensAre
<1>0. Used(units) = used BY DEF Used
<1>3. Fitting(units, budget) = Max({n \in 0..N : used[n] <= budget}) BY <1>0 DEF Fitting
<1> HIDE DEF N, cost
<1>4. PICK g \in [0..N -> Nat] : g[0] = 0 /\ \A n \in 1..N : g[n] = g[n - 1] + cost[n]
  <2> DEFINE F == [x \in (1..N) \X Nat |-> x[2] + cost[x[1]]]
  <2>1. F \in [(1..N) \X Nat -> Nat] /\ \A n \in 1..N, s \in Nat : F[<<n, s>>] = s + cost[n] BY <1>2
  <2> HIDE DEF F
  <2>2. HasCourse(N, Nat, 0, F) BY <1>1, <2>1, StepByStep
  <2>3. PICK g \in [0..N -> Nat] : g[0] = 0 /\ \A n \in 1..N : g[n] = F[<<n, g[n - 1]>>]
    BY <2>2 DEF HasCourse, Course
  <2>4. \A n \in 1..N : n - 1 \in 0..N BY <1>1
  <2>5. \A n \in 1..N : g[n] = g[n - 1] + cost[n] BY <2>1, <2>3, <2>4
  <2>6. QED BY <2>3, <2>5
<1>5. IsSum(g)
  <2>1. ASSUME NEW n \in 0..N PROVE g[n] = IF n = 0 THEN 0 ELSE g[n - 1] + EstimateTokens(units[n])
    <3>1. CASE n = 0 BY <1>4, <3>1
    <3>2. CASE n # 0
      <4>1. n \in 1..N BY <1>1, <3>2
      <4>2. QED BY <1>2, <1>4, <3>2, <4>1
    <3>3. QED BY <3>1, <3>2
  <2>2. QED BY <1>4, <2>1
<1> HIDE DEF IsSum
<1>6. IsSum(used) BY <1>5
<1> HIDE DEF used
<1>7. /\ DOMAIN used = 0..N /\ used = [n \in 0..N |-> used[n]]
      /\ \A n \in 0..N : used[n] = IF n = 0 THEN 0 ELSE used[n - 1] + EstimateTokens(units[n])
  BY <1>6 DEF IsSum
<1>8. used[0] = 0 /\ \A n \in 1..N : used[n] = used[n - 1] + cost[n]
  <2>1. 0 \in 0..N /\ \A n \in 1..N : n \in 0..N /\ n # 0 BY <1>1
  <2>2. QED BY <1>2, <1>7, <2>1
<1>9. \A n \in 0..N : used[n] \in Nat
  <2> DEFINE T == {n \in 0..N : used[n] \in Nat}
  <2>1. 0 \in T BY <1>1, <1>8
  <2>2. ASSUME NEW n \in 1..N, n - 1 \in T PROVE n \in T
    <3>1. used[n - 1] \in Nat /\ cost[n] \in Nat /\ n \in 0..N BY <1>1, <1>2, <2>2
    <3>2. used[n] = used[n - 1] + cost[n] BY <1>8
    <3>3. used[n] \in Nat BY <3>1, <3>2
    <3>4. QED BY <3>1, <3>3
  <2>3. 0..N \subseteq T
    <3> HIDE DEF T
    <3>1. QED BY <1>1, <2>1, <2>2, UpTo
  <2>4. QED BY <2>3
<1>10. Spends(used, units) BY <1>2, <1>7, <1>8, <1>9 DEF Spends, N
<1> DEFINE S == {n \in 0..N : used[n] <= budget}
<1>11. Max(S) \in S /\ \A n \in S : n <= Max(S)
  <2>1. 0 \in S BY <1>1, <1>8
  <2>2. \E x \in S : \A y \in S : x >= y
    <3> DEFINE U == {N - y : y \in S}
    <3>1. U \in SUBSET Nat /\ U # {}
      <4>1. N - 0 \in U BY <2>1
      <4>2. \A z \in S : N - z \in Nat BY <1>1
      <4>3. QED BY <4>1, <4>2
    <3>2. PICK v \in U : \A z \in U : v <= z
      <4> HIDE DEF U
      <4>1. QED BY <3>1, LeastNumber
    <3>3. PICK x \in S : v = N - x
      OBVIOUS
    <3>4. ASSUME NEW y \in S PROVE x >= y
      <4>1. N - y \in U
        OBVIOUS
      <4>2. N - x <= N - y BY <3>2, <3>3, <4>1
      <4>3. x \in Int /\ y \in Int BY <1>1
      <4> HIDE DEF S
      <4>4. QED BY <1>1, <4>2, <4>3
    <3>5. QED BY <3>4
  <2> HIDE DEF S
  <2>3. Max(S) \in S /\ \A y \in S : Max(S) >= y BY <2>2 DEF Max
  <2>4. S \subseteq Int BY <1>1 DEF S
  <2>5. QED BY <2>3, <2>4
<1>12. Fitting(units, budget) = Max(S) BY <1>3
<1>13. QED BY <1>0, <1>10, <1>11, <1>12 DEF N

LEMMA BlanksAdd ==
  ASSUME NEW c \in Nat, NEW l \in Nat, NEW d \in Nat, NEW e \in Nat, NEW q \in Nat,
         NEW w \in Nat, NEW m \in Nat, c <= w, l <= 4 * (w - c) + (m - 1), e <= 4 * q
  PROVE  c + d <= w + d + q /\ l + 1 + e <= 4 * ((w + d + q) - (c + d)) + ((m + 1) - 1)
  OBVIOUS

\* The blanks between sentences are all that may come on top.
LEMMA JoinedCosts ==
  ASSUME NEW units \in Seq(Sentences), NEW j, Joins(j, units), NEW u, Spends(u, units),
         NEW n \in 1..Len(units)
  PROVE  /\ j[n] \in Seq(Chars) /\ u[n] \in Nat /\ u[1] = EstimateTokens(units[1]) /\ u[1] <= u[n]
         /\ EstimateTokens(j[n]) <= u[n] + Len(units) \div 4 + 1
<1> DEFINE N == Len(units)
           A == Seq(Chars)
           Within(c, l, m, w) == c <= w /\ l <= 4 * (w - c) + (m - 1)
           Good(m) == /\ Within(Count(j[m], "cjk"), Count(j[m], "latin"), m, u[m])
                      /\ u[1] <= u[m]
           T == {m \in 0..N : m = 0 \/ Good(m)}
<1>1. N \in Nat /\ n \in 1..N /\ 1 \in 1..N /\ \A k \in 1..N : units[k] \in A BY DEF Sentences
<1>2. j \in [0..N -> A] /\ \A k \in 1..N : j[k] = IF k = 1 THEN units[1] ELSE (j[k - 1] \o <<"latin">>) \o units[k]
  BY DEF Joins
<1>3. /\ u \in [0..N -> Nat] /\ u[0] = 0
      /\ \A k \in 1..N : u[k] = u[k - 1] + EstimateTokens(units[k])
  BY DEF Spends
<1> HIDE DEF N, A
<1>4. \A k \in 1..N : k \in 0..N /\ k - 1 \in 0..N BY <1>1
<1>5. \A k \in 0..N : u[k] \in Nat /\ j[k] \in A BY <1>2, <1>3
<1>6. ASSUME NEW k \in 1..N
      PROVE  /\ Count(units[k], "cjk") \in Nat /\ Count(units[k], "latin") \in Nat
             /\ EstimateTokens(units[k]) \in Nat
             /\ \E q \in Nat : /\ EstimateTokens(units[k]) = Count(units[k], "cjk") + q
                               /\ Count(units[k], "latin") <= 4 * q
  <2>1. units[k] \in Seq(Chars) BY <1>1 DEF A
  <2>2. /\ Count(units[k], "cjk") \in Nat /\ Count(units[k], "latin") \in Nat
        /\ EstimateTokens(units[k]) \in Nat
        /\ EstimateTokens(units[k]) = Count(units[k], "cjk") + (Count(units[k], "latin") + 3) \div 4
    BY <2>1, TokensAre
  <2>3. /\ (Count(units[k], "latin") + 3) \div 4 \in Nat
        /\ Count(units[k], "latin") <= 4 * ((Count(units[k], "latin") + 3) \div 4)
    BY <2>2, Quarters
  <2>4. QED BY <2>2, <2>3
<1>7. u[1] = EstimateTokens(units[1])
  <2>1. u[1] = u[1 - 1] + EstimateTokens(units[1]) /\ 1 - 1 = 0 BY <1>1, <1>3
  <2>2. QED BY <1>1, <1>3, <1>6, <2>1
<1>8. Good(1)
  <2>1. j[1] = units[1] BY <1>1, <1>2
  <2>2. PICK q \in Nat : /\ EstimateTokens(units[1]) = Count(units[1], "cjk") + q
                         /\ Count(units[1], "latin") <= 4 * q
    BY <1>1, <1>6
  <2>3. Count(units[1], "cjk") \in Nat /\ Count(units[1], "latin") \in Nat BY <1>1, <1>6
  <2>4. u[1] = Count(units[1], "cjk") + q /\ u[1] \in Nat BY <1>1, <1>4, <1>5, <1>7, <2>2
  <2>5. QED BY <2>1, <2>2, <2>3, <2>4
<1>9. 0 \in T BY <1>1
<1>10. ASSUME NEW k \in 1..N, k - 1 \in T PROVE k \in T
  <2>1. CASE k = 1 BY <1>4, <1>8, <2>1
  <2>2. CASE k # 1
    <3> DEFINE m == k - 1
    <3>1. m \in 0..N /\ m # 0 /\ k \in 0..N /\ m \in Int /\ k = m + 1 BY <1>1, <2>2
    <3>2. Good(m) BY <1>10, <3>1
    <3>3. j[k] = (j[m] \o <<"latin">>) \o units[k] BY <1>2, <2>2
    <3>4. u[k] = u[m] + EstimateTokens(units[k]) BY <1>3
    <3> HIDE DEF m
    <3>5. /\ <<"latin">> \in Seq(Chars) /\ Count(<<"latin">>, "cjk") = 0
          /\ Count(<<"latin">>, "latin") = 1
      BY CountOne DEF Chars
    <3>6. j[m] \in Seq(Chars) /\ units[k] \in Seq(Chars) /\ u[m] \in Nat BY <1>1, <1>5, <3>1 DEF A
    <3>7. ASSUME NEW c \in {"cjk", "latin"}
          PROVE  Count(j[k], c) = Count(j[m], c) + Count(<<"latin">>, c) + Count(units[k], c)
      <4>1. /\ j[m] \o <<"latin">> \in Seq(Chars)
            /\ Count(j[m] \o <<"latin">>, c) = Count(j[m], c) + Count(<<"latin">>, c)
        BY <3>5, <3>6, CountJoined
      <4>2. Count((j[m] \o <<"latin">>) \o units[k], c)
              = Count(j[m] \o <<"latin">>, c) + Count(units[k], c)
        BY <3>6, <4>1, CountJoined
      <4>3. QED BY <3>3, <4>1, <4>2
    <3>8. PICK q \in Nat : /\ EstimateTokens(units[k]) = Count(units[k], "cjk") + q
                           /\ Count(units[k], "latin") <= 4 * q
      BY <1>6
    <3>9. /\ Count(units[k], "cjk") \in Nat /\ Count(units[k], "latin") \in Nat
          /\ Count(j[m], "cjk") \in Nat /\ Count(j[m], "latin") \in Nat
      BY <1>6, <3>6, TokensAre
    <3>10. /\ Count(j[k], "cjk") = Count(j[m], "cjk") + Count(units[k], "cjk")
           /\ Count(j[k], "latin") = Count(j[m], "latin") + 1 + Count(units[k], "latin")
      BY <3>5, <3>7, <3>9
    <3>11. u[k] = u[m] + Count(units[k], "cjk") + q BY <3>4, <3>6, <3>8, <3>9
    <3>12. Within(Count(j[m], "cjk"), Count(j[m], "latin"), m, u[m]) /\ u[1] <= u[m] BY <3>2
    <3>13. u[1] \in Nat BY <1>1, <1>4, <1>5
    <3>14. Good(k)
      <4> DEFINE c == Count(j[m], "cjk")
                 l == Count(j[m], "latin")
                 d == Count(units[k], "cjk")
                 e == Count(units[k], "latin")
      <4>1. /\ c \in Nat /\ l \in Nat /\ d \in Nat /\ e \in Nat /\ c <= u[m]
            /\ l <= 4 * (u[m] - c) + (m - 1) /\ e <= 4 * q
        BY <3>8, <3>9, <3>12
      <4>2. Count(j[k], "cjk") = c + d /\ Count(j[k], "latin") = l + 1 + e /\ u[k] = u[m] + d + q
        BY <3>10, <3>11
      <4> HIDE DEF c, l, d, e
      <4>3. c + d <= u[m] + d + q /\ l + 1 + e <= 4 * ((u[m] + d + q) - (c + d)) + (k - 1)
        <5>1. m \in Nat BY <1>1, <3>1
        <5>2. c + d <= u[m] + d + q /\ l + 1 + e <= 4 * ((u[m] + d + q) - (c + d)) + ((m + 1) - 1)
          BY <3>6, <4>1, <5>1, BlanksAdd
        <5>3. QED BY <3>1, <5>2
      <4>4. Within(Count(j[k], "cjk"), Count(j[k], "latin"), k, u[k]) BY <4>2, <4>3
      <4>5. u[1] <= u[k] BY <3>6, <3>12, <3>13, <4>1, <4>2
      <4>6. QED BY <4>4, <4>5
    <3> HIDE DEF Good
    <3>15. QED BY <3>1, <3>14
  <2>3. QED BY <2>1, <2>2
<1>11. Good(n)
  <2>1. 0..N \subseteq T
    <3> HIDE DEF T
    <3>1. QED BY <1>1, <1>9, <1>10, UpTo
  <2>2. n \in 0..N /\ n # 0 BY <1>1
  <2> HIDE DEF Good
  <2>3. QED BY <2>1, <2>2
<1>12. EstimateTokens(j[n]) <= u[n] + N \div 4 + 1
  <2> DEFINE c == Count(j[n], "cjk")
             l == Count(j[n], "latin")
             x == u[n] - c
  <2>1. j[n] \in Seq(Chars) /\ u[n] \in Nat BY <1>1, <1>4, <1>5 DEF A
  <2>2. c \in Nat /\ l \in Nat /\ EstimateTokens(j[n]) = c + (l + 3) \div 4 BY <2>1, TokensAre
  <2>3. c <= u[n] /\ l <= 4 * (u[n] - c) + (n - 1) BY <1>11
  <2> HIDE DEF c, l
  <2>4. x \in Nat /\ n - 1 \in Nat /\ 4 * x + (n - 1) \in Nat /\ l <= 4 * x + (n - 1) /\ u[n] = c + x
    BY <1>1, <2>1, <2>2, <2>3
  <2> HIDE DEF x
  <2>5. (l + 3) \div 4 <= (4 * x + (n - 1) + 3) \div 4 BY <2>2, <2>4, Quarters
  <2>6. (4 * x + (n - 1) + 3) \div 4 = x + ((n - 1) + 3) \div 4 BY <2>4, Quarters
  <2>7. ((n - 1) + 3) \div 4 <= N \div 4 + 1 BY <1>1
  <2>8. (l + 3) \div 4 \in Int /\ ((n - 1) + 3) \div 4 \in Int /\ N \div 4 \in Int BY <1>1, <2>2
  <2>9. QED BY <2>1, <2>2, <2>4, <2>5, <2>6, <2>7, <2>8
<1>13. j[n] \in Seq(Chars) /\ u[n] \in Nat BY <1>1, <1>4, <1>5 DEF A
<1>14. QED BY <1>7, <1>11, <1>12, <1>13 DEF N

\* The first p of a text are the beginning of its first q.
LEMMA FirstOfMore ==
  ASSUME NEW t \in Seq(Chars), NEW p \in Nat, NEW q \in Nat, p <= q, q <= Len(t)
  PROVE  /\ SubSeq(t, 1, p) \in Seq(Chars) /\ Len(SubSeq(t, 1, p)) = p
         /\ SubSeq(t, 1, q) \in Seq(Chars)
         /\ EstimateTokens(SubSeq(t, 1, p)) <= EstimateTokens(SubSeq(t, 1, q))
         /\ q = p + 1 => /\ t[q] \in Chars
                         /\ SubSeq(t, 1, q) = SubSeq(t, 1, p) \o <<t[q]>>
<1> DEFINE C == Chars
           a == SubSeq(t, 1, p)
           b == SubSeq(t, 1, q)
           r == SubSeq(t, p + 1, q)
<1> HIDE DEF C
<1>1. t \in Seq(C) /\ Len(t) \in Nat /\ p <= Len(t) BY DEF C
<1>2. a \in Seq(C) /\ Len(a) = p /\ \A k \in 1..p : a[k] = t[k] BY <1>1, Starts
<1>3. b \in Seq(C) /\ Len(b) = q /\ \A k \in 1..q : b[k] = t[k] BY <1>1, Starts
<1>4. \A k \in (p + 1)..q : t[k] \in C BY <1>1
<1>5. r \in Seq(C) /\ Len(r) = q - p /\ \A k \in 1..(q - p) : r[k] = t[p + k]
  <2>1. p + 1 \in Int /\ q \in Int
    OBVIOUS
  <2>2. /\ r \in Seq(C) /\ Len(r) = (IF p + 1 <= q THEN q - (p + 1) + 1 ELSE 0)
        /\ \A k \in 1..(q - (p + 1) + 1) : r[k] = t[(p + 1) + k - 1]
    BY <1>4, <2>1, SubSeqProperties
  <2>3. q - (p + 1) + 1 = q - p /\ \A k \in 1..(q - p) : (p + 1) + k - 1 = p + k
    OBVIOUS
  <2> HIDE DEF r
  <2>4. QED BY <2>2, <2>3
<1> HIDE DEF a, b, r
<1>6. b = a \o r
  <2>1. /\ a \o r \in Seq(C) /\ Len(a \o r) = q
        /\ \A k \in 1..q : (a \o r)[k] = IF k <= p THEN a[k] ELSE r[k - p]
    <3>1. /\ a \o r \in Seq(C) /\ Len(a \o r) = Len(a) + Len(r)
          /\ \A k \in 1..(Len(a) + Len(r)) : (a \o r)[k] = IF k <= Len(a) THEN a[k] ELSE r[k - Len(a)]
      BY <1>2, <1>5, ConcatProperties, Zenon
    <3>2. Len(a) + Len(r) = q BY <1>2, <1>5
    <3>3. QED BY <1>2, <3>1, <3>2
  <2>2. ASSUME NEW k \in 1..q PROVE b[k] = (a \o r)[k]
    <3>1. CASE k <= p BY <1>2, <1>3, <2>1, <3>1
    <3>2. CASE ~ (k <= p)
      <4>1. k - p \in 1..(q - p) /\ p + (k - p) = k BY <3>2
      <4>2. QED BY <1>3, <1>5, <2>1, <3>2, <4>1
    <3>3. QED BY <3>1, <3>2
  <2>3. QED BY <1>3, <2>1, <2>2, SeqEqual
<1>7. EstimateTokens(a) <= EstimateTokens(b) BY <1>2, <1>5, <1>6, TokensGrow DEF C
<1>8. ASSUME q = p + 1 PROVE t[q] \in C /\ r = <<t[q]>>
  <2>1. q \in 1..Len(t) BY <1>1, <1>8
  <2>2. t[q] \in C BY <1>1, <2>1
  <2>3. Len(r) = 1 /\ r[1] = t[q] BY <1>5, <1>8
  <2>4. r = <<t[q]>> BY <1>5, <2>2, <2>3
  <2>5. QED BY <2>2, <2>4
<1>9. QED BY <1>2, <1>3, <1>6, <1>7, <1>8 DEF C, a, b

LEMMA Between ==
  ASSUME NEW x \in Nat, NEW y \in Nat, x < y
  PROVE  LET m == (x + y + 1) \div 2
         IN /\ m \in Nat /\ x < m /\ m <= y /\ m - 1 \in Nat /\ x <= m - 1
            /\ y - m <= (y - x) - 1 /\ (m - 1) - x <= (y - x) - 1
  OBVIOUS

\* The bisection finds the longest beginning that fits.
LEMMA BisectIs ==
  ASSUME NEW t \in Seq(Chars), NEW budget \in Nat, EstimateTokens(t) > budget
  PROVE  /\ Bisect(t, budget) \in Nat /\ Bisect(t, budget) < Len(t)
         /\ EstimateTokens(SubSeq(t, 1, Bisect(t, budget))) <= budget
         /\ EstimateTokens(SubSeq(t, 1, Bisect(t, budget) + 1)) > budget
<1> DEFINE N == Len(t)
           R == Ranges(t)
           H == Halved(t, budget)
           start == [low |-> 0, high |-> N]
           IsSearch(g) == g = [n \in 0..N |-> IF n = 0 THEN [low |-> 0, high |-> Len(t)]
                                              ELSE Halved(t, budget)[g[n - 1]]]
           range == CHOOSE g : IsSearch(g)
           Fits(k) == EstimateTokens(SubSeq(t, 1, k)) <= budget
           Good(r, n) == /\ r \in R /\ r.low <= r.high /\ Fits(r.low)
                         /\ r.high = N \/ ~Fits(r.high + 1)
                         /\ r.high - r.low <= N - n
<1>1. N \in Nat /\ R = [low : 0..N, high : 0..N] /\ start \in R BY DEF Ranges
<1>2. Bisect(t, budget) = range[N].low BY DEF Bisect
<1>3. ASSUME NEW r \in R
      PROVE  H[r] = LET middle == (r.low + r.high + 1) \div 2
                    IN IF r.low >= r.high THEN r
                       ELSE IF Fits(middle) THEN [r EXCEPT !.low = middle]
                       ELSE [r EXCEPT !.high = middle - 1]
  BY DEF Halved
<1> HIDE DEF N, H, Fits
<1>4. ASSUME NEW r \in R, NEW n \in 1..N, Good(r, n - 1)
      PROVE  H[r] \in R /\ Good(H[r], n)
  <2> DEFINE middle == (r.low + r.high + 1) \div 2
  <2>1. r.low \in Nat /\ r.high \in Nat /\ r.low <= r.high /\ r.low <= N /\ r.high <= N
    BY <1>1, <1>4
  <2>2. CASE r.low >= r.high
    <3>1. H[r] = r BY <1>3, <2>2
    <3>2. r.high - r.low <= N - n BY <1>1, <2>1, <2>2
    <3>3. QED BY <1>4, <3>1, <3>2
  <2>3. CASE ~ (r.low >= r.high)
    <3>1. /\ middle \in Nat /\ r.low < middle /\ middle <= r.high /\ middle - 1 \in Nat
          /\ r.low <= middle - 1
          /\ r.high - middle <= (r.high - r.low) - 1 /\ (middle - 1) - r.low <= (r.high - r.low) - 1
      <4>1. r.low < r.high BY <2>1, <2>3
      <4>2. QED BY <2>1, <4>1, Between
    <3>2. H[r] = IF Fits(middle) THEN [r EXCEPT !.low = middle] ELSE [r EXCEPT !.high = middle - 1]
      BY <1>3, <2>3
    <3> HIDE DEF middle
    <3>3. r.high - r.low <= N - (n - 1) BY <1>4
    <3>4. CASE Fits(middle)
      <4> DEFINE x == [r EXCEPT !.low = middle]
      <4>1. x \in R /\ x.low = middle /\ x.high = r.high BY <1>1, <2>1, <3>1
      <4>2. x.high - x.low <= N - n BY <1>1, <2>1, <3>1, <3>3, <4>1
      <4>3. r.high = N \/ ~Fits(r.high + 1) BY <1>4
      <4>4. H[r] = x BY <3>2, <3>4
      <4> HIDE DEF x
      <4>5. Good(x, n) BY <2>1, <3>1, <3>4, <4>1, <4>2, <4>3
      <4>6. QED BY <4>1, <4>4, <4>5
    <3>5. CASE ~Fits(middle)
      <4> DEFINE x == [r EXCEPT !.high = middle - 1]
      <4>1. x \in R /\ x.low = r.low /\ x.high = middle - 1 BY <1>1, <2>1, <3>1
      <4>2. x.high - x.low <= N - n BY <1>1, <2>1, <3>1, <3>3, <4>1
      <4>3. Fits(r.low) /\ ~Fits(x.high + 1)
        <5>1. (middle - 1) + 1 = middle BY <3>1
        <5>2. QED BY <1>4, <3>5, <4>1, <5>1
      <4>4. H[r] = x BY <3>2, <3>5
      <4> HIDE DEF x
      <4>5. Good(x, n) BY <2>1, <3>1, <4>1, <4>2, <4>3
      <4>6. QED BY <4>1, <4>4, <4>5
    <3>6. QED BY <3>4, <3>5
  <2>4. QED BY <2>2, <2>3
<1>5. Good(start, 0)
  <2>1. SubSeq(t, 1, 0) = <<>> /\ Count(<<>>, "cjk") = 0 /\ Count(<<>>, "latin") = 0
    <3>1. \A c : {i \in DOMAIN <<>> : <<>>[i] = c} = {}
      OBVIOUS
    <3>2. QED BY <3>1, FS_EmptySet DEF Count
  <2>2. EstimateTokens(SubSeq(t, 1, 0)) = 0
    <3>1. EstimateTokens(<<>>) = Count(<<>>, "cjk") + (Count(<<>>, "latin") + 3) \div 4
      BY DEF EstimateTokens
    <3>2. (0 + 3) \div 4 = 0
      OBVIOUS
    <3>3. EstimateTokens(<<>>) = 0 + (0 + 3) \div 4 BY <2>1, <3>1, Zenon
    <3>4. EstimateTokens(<<>>) = 0 BY <3>2, <3>3
    <3>5. QED BY <2>1, <3>4, Zenon
  <2>3. Fits(0) BY <2>2 DEF Fits
  <2>4. start.low = 0 /\ start.high = N
    OBVIOUS
  <2> HIDE DEF start
  <2>5. QED BY <1>1, <2>3, <2>4
<1>6. \A r \in R : H[r] \in R
  <2>1. ASSUME NEW r \in R PROVE H[r] \in R
    <3>1. r.low \in Nat /\ r.high \in Nat /\ r.low <= N /\ r.high <= N BY <1>1
    <3>2. CASE r.low >= r.high BY <1>3, <3>2
    <3>3. CASE ~ (r.low >= r.high)
      <4> DEFINE middle == (r.low + r.high + 1) \div 2
      <4>1. r.low < r.high BY <3>1, <3>3
      <4>2. middle \in Nat /\ middle <= r.high /\ middle - 1 \in Nat BY <3>1, <4>1, Between
      <4>3. H[r] = IF Fits(middle) THEN [r EXCEPT !.low = middle] ELSE [r EXCEPT !.high = middle - 1]
        BY <1>3, <3>3
      <4> HIDE DEF middle
      <4>4. middle \in 0..N /\ middle - 1 \in 0..N BY <1>1, <3>1, <4>2
      <4>5. [r EXCEPT !.low = middle] \in R /\ [r EXCEPT !.high = middle - 1] \in R BY <1>1, <4>4
      <4>6. QED BY <4>3, <4>5
    <3>4. QED BY <3>2, <3>3
  <2>2. QED BY <2>1
<1> HIDE DEF R, Good, start
<1>7. PICK g \in [0..N -> R] : g[0] = start /\ \A n \in 1..N : g[n] = H[g[n - 1]]
  <2> DEFINE F == [x \in (1..N) \X R |-> H[x[2]]]
  <2>1. F \in [(1..N) \X R -> R] /\ \A n \in 1..N, s \in R : F[<<n, s>>] = H[s] BY <1>6
  <2> HIDE DEF F
  <2>2. HasCourse(N, R, start, F) BY <1>1, <2>1, StepByStep
  <2>3. PICK g \in [0..N -> R] : g[0] = start /\ \A n \in 1..N : g[n] = F[<<n, g[n - 1]>>]
    BY <2>2 DEF HasCourse, Course
  <2>4. \A n \in 1..N : n - 1 \in 0..N BY <1>1
  <2>5. \A n \in 1..N : g[n] = H[g[n - 1]] BY <2>1, <2>3, <2>4
  <2>6. QED BY <2>3, <2>5
<1>8. IsSearch(g)
  <2>1. ASSUME NEW n \in 0..N
        PROVE  g[n] = IF n = 0 THEN [low |-> 0, high |-> Len(t)] ELSE Halved(t, budget)[g[n - 1]]
    <3>1. CASE n = 0 BY <1>7, <3>1 DEF start, N
    <3>2. CASE n # 0
      <4>1. n \in 1..N BY <1>1, <3>2
      <4>2. QED BY <1>7, <3>2, <4>1 DEF H
    <3>3. QED BY <3>1, <3>2
  <2>2. QED BY <1>7, <2>1
<1> HIDE DEF IsSearch
<1>9. IsSearch(range) BY <1>8
<1> HIDE DEF range
<1>10. range[0] = start /\ \A n \in 1..N : range[n] = H[range[n - 1]]
  <2>1. \A n \in 0..N :
          range[n] = IF n = 0 THEN [low |-> 0, high |-> Len(t)] ELSE Halved(t, budget)[range[n - 1]]
    BY <1>9 DEF IsSearch
  <2>2. 0 \in 0..N /\ \A n \in 1..N : n \in 0..N /\ n # 0 BY <1>1
  <2>3. QED BY <2>1, <2>2 DEF start, N, H
<1> DEFINE T == {n \in 0..N : range[n] \in R /\ Good(range[n], n)}
<1>11. 0 \in T
  <2>1. range[0] = start /\ 0 \in 0..N BY <1>1, <1>10
  <2>2. range[0] \in R BY <1>1, <2>1
  <2>3. Good(range[0], 0) BY <1>5, <2>1
  <2>4. QED BY <2>1, <2>2, <2>3
<1>12. ASSUME NEW n \in 1..N, n - 1 \in T PROVE n \in T
  <2>1. range[n - 1] \in R /\ Good(range[n - 1], n - 1) /\ n \in 0..N BY <1>1, <1>12
  <2>2. H[range[n - 1]] \in R /\ Good(H[range[n - 1]], n) BY <1>4, <2>1
  <2>3. QED BY <1>10, <2>1, <2>2
<1>13. Good(range[N], N)
  <2>1. 0..N \subseteq T
    <3> HIDE DEF T
    <3>1. QED BY <1>1, <1>11, <1>12, UpTo
  <2>2. N \in 0..N BY <1>1
  <2>3. QED BY <2>1, <2>2
<1> DEFINE b == range[N].low
           h == range[N].high
<1>14. b \in 0..N /\ h \in 0..N /\ b <= h /\ Fits(b) /\ (h = N \/ ~Fits(h + 1)) /\ h - b <= N - N
  BY <1>1, <1>13 DEF Good
<1> HIDE DEF b, h
<1>15. b = h BY <1>1, <1>14
<1>16. ~Fits(N)
  <2>1. SubSeq(t, 1, Len(t)) = t BY SubSeqFull
  <2>2. EstimateTokens(t) \in Nat BY TokensAre
  <2>3. QED BY <2>1, <2>2 DEF Fits, N
<1>17. b \in Nat /\ b < N /\ ~Fits(b + 1)
  <2>1. b # N BY <1>14, <1>16
  <2>2. ~Fits(b + 1) BY <1>14, <1>15, <2>1
  <2>3. QED BY <1>1, <1>14, <2>1, <2>2
<1>18. EstimateTokens(SubSeq(t, 1, b + 1)) \in Nat
  <2>1. SubSeq(t, 1, b + 1) \in Seq(Chars)
    <3>1. b + 1 \in Nat /\ b + 1 <= Len(t) BY <1>1, <1>17 DEF N
    <3>2. QED BY <3>1, FirstOfMore
  <2>2. QED BY <2>1, TokensAre
<1>19. QED BY <1>2, <1>14, <1>17, <1>18 DEF b, Fits, N

\* A text that is not empty has a token at least.
LEMMA TokensOfSome ==
  /\ <<>> \in Seq(Chars) /\ EstimateTokens(<<>>) = 0
  /\ \A t \in Seq(Chars) : t # <<>> => EstimateTokens(t) >= 1
<1>1. EstimateTokens(<<>>) = 0
  <2>1. Count(<<>>, "cjk") = 0 /\ Count(<<>>, "latin") = 0
    <3>1. \A c : {i \in DOMAIN <<>> : <<>>[i] = c} = {}
      OBVIOUS
    <3>2. QED BY <3>1, FS_EmptySet DEF Count
  <2>2. EstimateTokens(<<>>) = Count(<<>>, "cjk") + (Count(<<>>, "latin") + 3) \div 4
    BY DEF EstimateTokens
  <2>3. EstimateTokens(<<>>) = 0 + (0 + 3) \div 4 BY <2>1, <2>2, Zenon
  <2>4. QED BY <2>3
<1>2. ASSUME NEW t \in Seq(Chars), t # <<>> PROVE EstimateTokens(t) >= 1
  <2>1. Len(t) \in Nat /\ 1 <= Len(t) /\ t[1] \in Chars BY <1>2
  <2>2. /\ SubSeq(t, 1, 1) \in Seq(Chars) /\ Len(SubSeq(t, 1, 1)) = 1
        /\ EstimateTokens(SubSeq(t, 1, 1)) <= EstimateTokens(SubSeq(t, 1, Len(t)))
    <3>1. 1 \in Nat /\ Len(t) <= Len(t) BY <2>1
    <3>2. QED BY <2>1, <3>1, FirstOfMore
  <2>3. SubSeq(t, 1, 1) = <<t[1]>>
    <3>1. SubSeq(t, 1, 1)[1] = t[1]
      <4> DEFINE C == Chars
      <4> HIDE DEF C
      <4>1. t \in Seq(C) /\ 1 \in Nat /\ 1 \in 1..1 BY <1>2 DEF C
      <4>2. \A k \in 1..1 : SubSeq(t, 1, 1)[k] = t[k] BY <2>1, <4>1, Starts
      <4>3. QED BY <4>1, <4>2
    <3>2. <<t[1]>> \in Seq(Chars) /\ Len(<<t[1]>>) = 1 /\ <<t[1]>>[1] = t[1] BY <2>1
    <3> DEFINE left == SubSeq(t, 1, 1)
               right == <<t[1]>>
    <3>3. /\ left \in Seq(Chars) /\ right \in Seq(Chars) /\ Len(left) = 1 /\ Len(right) = 1
          /\ left[1] = right[1]
      BY <2>2, <3>1, <3>2
    <3> HIDE DEF left, right
    <3>4. \A k \in 1..Len(left) : left[k] = right[k] BY <3>3
    <3>5. left = right BY <3>3, <3>4, SeqEqual
    <3>6. QED BY <3>5 DEF left, right
  <2>4. EstimateTokens(<<t[1]>>) = 1
    <3>1. /\ <<t[1]>> \in Seq(Chars) /\ Count(<<t[1]>>, "cjk") = (IF t[1] = "cjk" THEN 1 ELSE 0)
          /\ Count(<<t[1]>>, "latin") = IF t[1] = "latin" THEN 1 ELSE 0
      BY <2>1, CountOne
    <3>2. t[1] = "cjk" \/ t[1] = "latin" BY <2>1 DEF Chars
    <3>3. EstimateTokens(<<t[1]>>) = Count(<<t[1]>>, "cjk") + (Count(<<t[1]>>, "latin") + 3) \div 4
      BY DEF EstimateTokens
    <3>4. (0 + 3) \div 4 = 0 /\ (1 + 3) \div 4 = 1
      OBVIOUS
    <3>5. CASE t[1] = "cjk"
      <4>1. EstimateTokens(<<t[1]>>) = 1 + (0 + 3) \div 4 BY <3>1, <3>3, <3>5
      <4>2. QED BY <3>4, <4>1
    <3>6. CASE t[1] = "latin"
      <4>1. EstimateTokens(<<t[1]>>) = 0 + (1 + 3) \div 4 BY <3>1, <3>3, <3>6
      <4>2. QED BY <3>4, <4>1
    <3>7. QED BY <3>2, <3>5, <3>6
  <2>5. SubSeq(t, 1, Len(t)) = t BY SubSeqFull
  <2>6. EstimateTokens(t) \in Nat BY TokensAre
  <2>7. 1 <= EstimateTokens(t) BY <2>2, <2>3, <2>4, <2>5, Zenon
  <2>8. QED BY <2>6, <2>7
<1>3. QED BY <1>1, <1>2, EmptySeq

\* FitToTokenBudget keeps as much as it says.
LEMMA SourceFits ==
  ASSUME NEW content \in Seq(Sentences), NEW budget \in Nat
  PROVE  AsMuchAsFits(FitToTokenBudget(content, budget), content, budget)
<1> DEFINE N == Len(content)
           whole == Joined(content)
           kept == Fitting(content, budget)
           source == FitToTokenBudget(content, budget)
           b == Bisect(whole, budget)
           u == Used(content)
<1>1. PICK j : Joins(j, content) /\ whole = j[N] BY JoinedIs
<1>2. /\ Spends(u, content) /\ kept \in 0..N /\ u[kept] <= budget
      /\ \A n \in 0..N : u[n] <= budget => n <= kept
  BY FittingIs
<1> HIDE DEF u
<1>3. /\ N \in Nat /\ \A n \in 0..N : j[n] \in Seq(Chars)
      /\ \A n \in 0..N : Joined(SubSeq(content, 1, n)) = j[n]
  <2>1. j \in [0..N -> Seq(Chars)] BY <1>1 DEF Joins
  <2>2. QED BY <1>1, <2>1, JoinedFirst
<1>4. whole \in Seq(Chars) /\ EstimateTokens(whole) \in Nat /\ N \in 0..N BY <1>1, <1>3, TokensAre
<1>5. ASSUME NEW n \in 1..N
      PROVE  /\ EstimateTokens(j[n]) <= u[n] + N \div 4 + 1
             /\ u[n] \in Nat /\ u[1] = EstimateTokens(content[1]) /\ u[1] <= u[n]
  BY <1>1, <1>2, <1>5, JoinedCosts
<1>6. source = IF budget <= 0 THEN <<>>
               ELSE IF EstimateTokens(whole) <= budget THEN whole
               ELSE IF kept > 0 THEN Joined(SubSeq(content, 1, kept))
               ELSE SubSeq(whole, 1, b)
  BY DEF FitToTokenBudget
<1>7. j[0] = <<>> /\ (N # 0 => j[1] = content[1] /\ content[1] \in Seq(Chars) /\ content[1] # <<>>)
  <2>1. N # 0 => 1 \in 1..N BY <1>3
  <2>2. N # 0 => content[1] \in Sentences BY <2>1
  <2>3. QED BY <1>1, <2>1, <2>2 DEF Joins, Sentences
<1>8. AsMuchAsFits(source, content, budget) <=>
        IF EstimateTokens(whole) <= budget THEN source = whole
        ELSE IF EstimateTokens(Joined(SubSeq(content, 1, 1))) <= budget
        THEN /\ \E n \in DOMAIN content :
                  source = Joined(SubSeq(content, 1, n)) /\ u[n] <= budget /\ (n < N => u[n + 1] > budget)
             /\ EstimateTokens(source) <= budget + N \div 4 + 1
        ELSE /\ IsPrefix(source, content[1])
             /\ EstimateTokens(source) <= budget
             /\ EstimateTokens(Append(source, "cjk")) > budget
  <2>1. Joined(SubSeq(content, 1, N)) = whole BY <1>1, <1>3, <1>4
  <2>2. QED BY <2>1 DEF AsMuchAsFits, u
<1> HIDE DEF N, whole, kept, source, b
<1>9. ASSUME EstimateTokens(whole) <= budget PROVE AsMuchAsFits(source, content, budget)
  <2>1. CASE budget <= 0
    <3>1. EstimateTokens(whole) = 0 BY <1>4, <1>9, <2>1
    <3>2. whole = <<>> BY <1>4, <3>1, TokensOfSome
    <3>3. QED BY <1>6, <1>8, <1>9, <2>1, <3>2
  <2>2. CASE ~ (budget <= 0) BY <1>6, <1>8, <1>9, <2>2
  <2>3. QED BY <2>1, <2>2
<1>10. ASSUME ~ (EstimateTokens(whole) <= budget) PROVE AsMuchAsFits(source, content, budget)
  <2>1. N # 0
    <3>1. N = 0 => whole = <<>> BY <1>1, <1>7
    <3>2. EstimateTokens(<<>>) = 0 BY TokensOfSome
    <3>3. N = 0 => EstimateTokens(whole) = 0 BY <3>1, <3>2
    <3>4. QED BY <1>10, <3>3
  <2> DEFINE one == content[1]
  <2>2. 1 \in 1..N /\ 1 \in 0..N /\ 1 \in DOMAIN content /\ DOMAIN content = 1..N
    BY <1>3, <2>1 DEF N
  <2>3. /\ one \in Seq(Chars) /\ one # <<>> /\ j[1] = one /\ Joined(SubSeq(content, 1, 1)) = one
        /\ u[1] = EstimateTokens(one) /\ EstimateTokens(one) \in Nat /\ EstimateTokens(one) >= 1
    <3>1. one \in Seq(Chars) /\ one # <<>> /\ j[1] = one BY <1>7, <2>1
    <3>2. Joined(SubSeq(content, 1, 1)) = one BY <1>3, <2>2, <3>1
    <3>3. u[1] = EstimateTokens(one) BY <1>5, <2>2
    <3>4. QED BY <3>1, <3>2, <3>3, TokensAre, TokensOfSome
  <2> HIDE DEF one
  <2>4. CASE EstimateTokens(one) <= budget
    <3>1. ~ (budget <= 0) BY <2>3, <2>4
    <3>2. 1 <= kept /\ kept \in 1..N BY <1>2, <1>3, <2>2, <2>3, <2>4
    <3>3. source = Joined(SubSeq(content, 1, kept)) BY <1>6, <1>10, <3>1, <3>2
    <3>4. source = j[kept] BY <1>2, <1>3, <3>3
    <3>5. EstimateTokens(source) <= budget + N \div 4 + 1
      <4>1. EstimateTokens(j[kept]) <= u[kept] + N \div 4 + 1 /\ u[kept] \in Nat BY <1>5, <3>2
      <4>2. EstimateTokens(source) \in Nat BY <1>2, <1>3, <3>4, TokensAre
      <4>3. N \div 4 \in Nat BY <1>3
      <4>4. QED BY <1>2, <3>4, <4>1, <4>2, <4>3
    <3>6. kept \in DOMAIN content BY <2>2, <3>2
    <3>7. kept < N => u[kept + 1] > budget
      <4>1. SUFFICES ASSUME kept < N PROVE u[kept + 1] > budget
        OBVIOUS
      <4>2. kept + 1 \in 0..N /\ kept + 1 \in 1..N /\ ~ (kept + 1 <= kept) BY <1>3, <3>2, <4>1
      <4>3. ~ (u[kept + 1] <= budget) /\ u[kept + 1] \in Nat BY <1>2, <1>5, <4>2
      <4>4. QED BY <4>3
    <3>8. QED BY <1>2, <1>8, <1>10, <2>3, <2>4, <3>3, <3>5, <3>6, <3>7
  <2>5. CASE ~ (EstimateTokens(one) <= budget)
    <3>1. SUFFICES /\ IsPrefix(source, one) /\ EstimateTokens(source) <= budget
                   /\ EstimateTokens(Append(source, "cjk")) > budget
      BY <1>8, <1>10, <2>3, <2>5 DEF one
    <3>2. ASSUME NEW p \in Nat, p <= Len(one)
          PROVE  /\ SubSeq(one, 1, p) \in Seq(Chars) /\ Len(SubSeq(one, 1, p)) = p
                 /\ SubSeq(one, 1, p) = SubSeq(whole, 1, p) /\ p <= Len(whole)
      <4> DEFINE C == Chars
      <4> HIDE DEF C
      <4>1. one \in Seq(C) /\ whole \in Seq(C) BY <1>4, <2>3 DEF C
      <4>2. Len(one) <= Len(whole) /\ \A k \in 1..Len(one) : whole[k] = one[k]
        <5>1. whole = one \/ \E rest \in Seq(C) : whole = one \o rest
          <6>1. N \in 1..N /\ whole = j[N] BY <1>1, <1>3, <2>1 DEF N
          <6>2. j[N] = content[1] \/ \E rest \in Seq(Chars) : j[N] = content[1] \o rest
            BY <1>1, <6>1, JoinsBegin DEF N
          <6>3. QED BY <6>1, <6>2 DEF one, C
        <5>2. CASE whole = one BY <4>1, <5>2
        <5>3. CASE \E rest \in Seq(C) : whole = one \o rest
          <6>1. PICK rest \in Seq(C) : whole = one \o rest BY <5>3
          <6>2. QED BY <4>1, <6>1
        <5>4. QED BY <5>1, <5>2, <5>3
      <4>3. p <= Len(whole) BY <3>2, <4>1, <4>2
      <4>4. /\ SubSeq(one, 1, p) \in Seq(C) /\ Len(SubSeq(one, 1, p)) = p
            /\ \A k \in 1..p : SubSeq(one, 1, p)[k] = one[k]
        BY <3>2, <4>1, Starts
      <4>5. /\ SubSeq(whole, 1, p) \in Seq(C) /\ Len(SubSeq(whole, 1, p)) = p
            /\ \A k \in 1..p : SubSeq(whole, 1, p)[k] = whole[k]
        BY <4>1, <4>3, Starts
      <4>6. \A k \in 1..p : k \in 1..Len(one) BY <3>2, <4>1
      <4>7. \A k \in 1..p : SubSeq(one, 1, p)[k] = SubSeq(whole, 1, p)[k] BY <4>2, <4>4, <4>5, <4>6
      <4>8. SubSeq(one, 1, p) = SubSeq(whole, 1, p) BY <4>4, <4>5, <4>7, SeqEqual
      <4>9. QED BY <4>3, <4>4, <4>8 DEF C
    <3>3. Len(one) \in Nat BY <2>3
    <3>4. CASE budget <= 0
      <4>1. source = <<>> /\ EstimateTokens(source) = 0 /\ source \in Seq(Chars)
        BY <1>6, <3>4, TokensOfSome
      <4>2. IsPrefix(source, one)
        <5>1. Len(<<>>) = 0 /\ SubSeq(one, 1, 0) = <<>> /\ SubSeq(<<>>, 1, 0) = <<>>
          <6>1. 0 < 1
            OBVIOUS
          <6>2. QED BY <6>1, SubSeqEmpty
        <5>2. IsPrefix(<<>>, one) BY <3>3, <5>1 DEF IsPrefix
        <5>3. QED BY <4>1, <5>2
      <4>3. EstimateTokens(source \o <<"cjk">>) = EstimateTokens(source) + 1
        <5>1. "cjk" \in Chars BY DEF Chars
        <5>2. QED BY <4>1, <5>1, TokenMore
      <4>4. Append(source, "cjk") = source \o <<"cjk">> BY <4>1
      <4>5. QED BY <3>4, <4>1, <4>2, <4>3, <4>4
    <3>5. CASE ~ (budget <= 0)
      <4>1. kept = 0
        <5>1. ASSUME kept # 0 PROVE FALSE
          <6>1. kept \in 1..N BY <1>2, <1>3, <5>1
          <6>2. u[1] <= u[kept] /\ u[kept] \in Nat BY <1>5, <6>1
          <6>3. QED BY <1>2, <2>3, <2>5, <6>2
        <5>2. QED BY <5>1
      <4>2. source = SubSeq(whole, 1, b)
        <5>1. ~ (kept > 0) BY <4>1
        <5>2. QED BY <1>6, <1>10, <3>5, <5>1
      <4>3. /\ b \in Nat /\ b < Len(whole) /\ EstimateTokens(SubSeq(whole, 1, b)) <= budget
            /\ EstimateTokens(SubSeq(whole, 1, b + 1)) > budget
        <5>1. EstimateTokens(whole) > budget BY <1>4, <1>10
        <5>2. QED BY <1>4, <5>1, BisectIs DEF b
      <4>4. Len(whole) \in Nat /\ b + 1 \in Nat /\ b + 1 <= Len(whole) /\ b <= b + 1 /\ b <= Len(whole)
        BY <1>4, <4>3
      <4>5. b < Len(one)
        <5>1. ASSUME Len(one) <= b PROVE FALSE
          <6>1. SubSeq(one, 1, Len(one)) = SubSeq(whole, 1, Len(one)) BY <3>2, <3>3
          <6>2. SubSeq(one, 1, Len(one)) = one BY <2>3, SubSeqFull
          <6>3. EstimateTokens(SubSeq(whole, 1, Len(one))) <= EstimateTokens(SubSeq(whole, 1, b))
            BY <1>4, <3>3, <4>3, <4>4, <5>1, FirstOfMore
          <6>4. SubSeq(whole, 1, b) \in Seq(Chars) BY <1>4, <4>3, <4>4, FirstOfMore
          <6>5. EstimateTokens(SubSeq(whole, 1, b)) \in Nat BY <6>4, TokensAre
          <6>6. EstimateTokens(one) <= EstimateTokens(SubSeq(whole, 1, b)) BY <6>1, <6>2, <6>3
          <6>7. QED BY <2>3, <2>5, <4>3, <6>5, <6>6
        <5>2. QED BY <3>3, <4>3, <5>1
      <4>6. source = SubSeq(one, 1, b) /\ source \in Seq(Chars) /\ Len(source) = b
        BY <3>2, <3>3, <4>2, <4>3, <4>5
      <4>7. IsPrefix(source, one)
        <5>1. SubSeq(source, 1, Len(source)) = source BY <4>6, SubSeqFull
        <5>2. QED BY <3>3, <4>5, <4>6, <5>1 DEF IsPrefix
      <4>8. /\ whole[b + 1] \in Chars
            /\ SubSeq(whole, 1, b + 1) = SubSeq(whole, 1, b) \o <<whole[b + 1]>>
        BY <1>4, <4>3, <4>4, FirstOfMore
      <4>9. /\ EstimateTokens(source \o <<whole[b + 1]>>) <= EstimateTokens(source) + 1
            /\ EstimateTokens(source \o <<"cjk">>) = EstimateTokens(source) + 1
            /\ source \o <<whole[b + 1]>> \in Seq(Chars)
        BY <4>6, <4>8, TokenMore
      <4>10. EstimateTokens(source) \in Nat /\ EstimateTokens(source \o <<whole[b + 1]>>) \in Nat
        BY <4>6, <4>9, TokensAre
      <4>11. EstimateTokens(source \o <<whole[b + 1]>>) > budget BY <4>2, <4>3, <4>8
      <4>12. Append(source, "cjk") = source \o <<"cjk">> BY <4>6
      <4>13. EstimateTokens(Append(source, "cjk")) > budget
        <5> DEFINE e == EstimateTokens(source)
                   f == EstimateTokens(source \o <<whole[b + 1]>>)
                   g == EstimateTokens(source \o <<"cjk">>)
        <5>1. e \in Nat /\ f \in Nat /\ f > budget /\ f <= e + 1 /\ g = e + 1 BY <4>9, <4>10, <4>11
        <5> HIDE DEF e, f, g
        <5>2. g > budget BY <5>1
        <5>3. QED BY <4>12, <5>2 DEF g
      <4>14. QED BY <4>2, <4>3, <4>7, <4>13
    <3>6. QED BY <3>4, <3>5
  <2>6. QED BY <2>4, <2>5
<1>11. AsMuchAsFits(source, content, budget) BY <1>9, <1>10
<1>12. QED BY <1>11 DEF source

-----------------------------------------------------------------------------
(* The inductive invariant.                                                *)

\* What is said, and what says it.
SaidTexts == [of : Articles, place : Nat, take : Nat, polished : BOOLEAN]
SaidSegments ==
  [speaker : Speakers, text : SaidTexts, words : Nat, article : Articles \cup {"none"}]

\* An outline of all the articles, each of them once.
PlanIsFull(plan) ==
  /\ plan.order \in Seq(Articles) /\ IsInjective(plan.order) /\ ToSet(plan.order) = Articles
  /\ DOMAIN plan.chapters = DOMAIN plan.order
  /\ \A k \in DOMAIN plan.chapters : Itemised(plan.chapters[k].facts)

\* The script consists of m chapters in the order of the outline: the j-th one
\* begins after place s[j], and all of it is of the j-th article.
Laid(script, order, m, s) ==
  /\ s \in [1..(m + 1) -> Nat] /\ s[1] = 0 /\ s[m + 1] = Len(script)
  /\ \A i, j \in 1..(m + 1) : i < j => s[i] < s[j]
  /\ \A i \in 1..Len(script) :
       \E j \in 1..m : /\ s[j] < i /\ i <= s[j + 1]
                       /\ script[i].article = order[j] /\ script[i].text.of = order[j]

ChapterPart(script, s, j) == SubSeq(script, s[j] + 1, s[j + 1])

\* The lengths of these chapters.
Measures(lengths, m, s) ==
  /\ lengths \in Seq(Nat) /\ Len(lengths) = m
  /\ \A j \in 1..m : s[j + 1] = s[j] + lengths[j]

\* What a critic has found to be grounded; of a chapter in the first round, up to
\* the polish.
FoundGrounded(spoken, seen) ==
  \E review \in seen : review[1] = spoken /\ ~review[2].unsupported /\ review[2].language
Heard(spoken, pass) == IF pass = 2 THEN spoken ELSE Unpolished(spoken)
GroundedParts(script, m, s, pass, seen) ==
  \A j \in 1..m : FoundGrounded(Heard(Spoken(ChapterPart(script, s, j)), pass), seen)

\* What the chapters before the k-th one cover.
CoveredBefore(plan, k) ==
  UNION {{Claim(plan.order[j])} \cup ToSet(plan.chapters[j].facts) : j \in 1..(k - 1)}

Chaptering == {"chapter", "critic", "rewrite"}
Planned == Chaptering \cup {"coherence", "validate", "ready"}
WritingStages == {"brief", "outline", "failed"} \cup Planned

\* The chapters accepted in this round.
Chapters(w, seen) ==
  /\ w.merged \in Seq(SaidSegments)
  /\ \E s :
       /\ Laid(w.merged, w.plan.order, w.k - 1, s)
       /\ GroundedParts(w.merged, w.k - 1, s, w.pass, seen)
       /\ w.pass = 1 => Measures(w.lengths, w.k - 1, s)
       /\ w.pc \in Chaptering =>
            w.lines = IF w.k = 1 THEN <<>> ELSE LastLines(ChapterPart(w.merged, s, w.k - 1))

\* The polished script, of which the second round takes its chapters.
PolishedWhole(w) ==
  /\ w.coherent \in Seq(SaidSegments)
  /\ \E s : /\ Laid(w.coherent, w.plan.order, Len(w.plan.order), s)
            /\ Measures(w.lengths, Len(w.plan.order), s)

\* The chapter at hand.
AtHand(w) ==
  /\ w.chapter \in Seq(SaidSegments) \ {<<>>}
  /\ \A i \in DOMAIN w.chapter :
       w.chapter[i].text.of = Subject(w) /\ (w.pass = 1 => ~w.chapter[i].text.polished)

\* Where the generation stands.
Stands(w, seen) ==
  /\ DOMAIN w = DOMAIN Work
  /\ w.pc \in WritingStages /\ w.k \in Nat \ {0} /\ w.takes \in Nat /\ w.pass \in {1, 2}
  /\ w.rag \subseteq {a \in Articles : TooLong(a)}
  /\ w.pass = 2 => site.postCritic
  /\ w.pc = "brief" => w.k <= Len(InOrder)
  /\ w.pc \in {"brief", "outline"} =>
       /\ w.pass = 1 /\ w.merged = <<>> /\ w.lengths = <<>> /\ w.covered = <<>> /\ w.lines = <<>>
  /\ w.pc = "outline" => w.k = 1
  /\ w.pc \in {"chapter", "coherence"} => w.pass = 1
  /\ w.pc \in {"validate", "ready"} /\ site.postCritic => w.pass = 2
  /\ w.pc \in Planned =>
       /\ PlanIsFull(w.plan)
       /\ IF w.pc \in Chaptering THEN w.k <= Len(w.plan.order) ELSE w.k = Len(w.plan.order) + 1
       /\ Chapters(w, seen)
       /\ w.pass = 2 => PolishedWhole(w)
  /\ w.pc \in Chaptering =>
       Itemised(w.covered) /\ ToSet(w.covered) = CoveredBefore(w.plan, w.k)
  /\ w.pc \in {"critic", "rewrite"} => AtHand(w)

WritingIInv ==
  /\ site \in Sites
  /\ prompt = Prompt(work)
  /\ Stands(work, judged)

-----------------------------------------------------------------------------
(* The chapters of a script.                                               *)

LEMMA Part ==
  ASSUME NEW A, NEW seq \in Seq(A), NEW p \in Nat, NEW q \in Nat, p <= q, q <= Len(seq)
  PROVE  /\ SubSeq(seq, p + 1, q) \in Seq(A) /\ Len(SubSeq(seq, p + 1, q)) = q - p
         /\ DOMAIN SubSeq(seq, p + 1, q) = 1..(q - p)
         /\ \A i \in 1..(q - p) : SubSeq(seq, p + 1, q)[i] = seq[p + i]
<1> DEFINE r == SubSeq(seq, p + 1, q)
<1>1. /\ r \in Seq(A)
      /\ Len(r) = IF p + 1 <= q THEN q - (p + 1) + 1 ELSE 0
      /\ \A i \in 1..(q - (p + 1) + 1) : r[i] = seq[p + 1 + i - 1]
  <2>1. seq \in Seq(A) /\ p + 1 \in 1..(Len(seq) + 1) /\ q \in (p + 1 - 1)..Len(seq)
    OBVIOUS
  <2>2. QED BY <2>1, SubSeqProperties
<1>2. /\ q - (p + 1) + 1 = q - p /\ \A i \in 1..(q - p) : p + 1 + i - 1 = p + i
      /\ (IF p + 1 <= q THEN q - (p + 1) + 1 ELSE 0) = q - p
  OBVIOUS
<1>3. Len(r) = q - p /\ DOMAIN r = 1..(q - p) /\ \A i \in 1..(q - p) : r[i] = seq[p + i]
  <2>1. DOMAIN r = 1..Len(r) BY <1>1
  <2> HIDE DEF r
  <2>2. QED BY <1>1, <1>2, <2>1
<1>4. QED BY <1>1, <1>3

\* What is after place p of a script, up to place q.
IsPart(part, script, p, q) ==
  /\ Len(part) = q - p /\ DOMAIN part = 1..(q - p)
  /\ \A i \in 1..(q - p) : part[i] = script[p + i]

\* A chapter lies where Laid says, and is not empty.
LEMMA PartIs ==
  ASSUME NEW script \in Seq(SaidSegments), NEW order, NEW m \in Nat, NEW s,
         Laid(script, order, m, s), NEW j \in 1..m
  PROVE  /\ s[j] \in Nat /\ s[j + 1] \in Nat /\ s[j] < s[j + 1] /\ s[j + 1] <= Len(script)
         /\ ChapterPart(script, s, j) \in Seq(SaidSegments)
         /\ IsPart(ChapterPart(script, s, j), script, s[j], s[j + 1])
<1>1. j \in 1..(m + 1) /\ j + 1 \in 1..(m + 1) /\ j < j + 1 /\ m + 1 \in 1..(m + 1)
  OBVIOUS
<1>2. s[j] \in Nat /\ s[j + 1] \in Nat /\ s[j] < s[j + 1] /\ s[m + 1] = Len(script) BY <1>1 DEF Laid
<1>3. s[j + 1] <= Len(script)
  <2>1. CASE j + 1 = m + 1 BY <1>2, <2>1
  <2>2. CASE j + 1 # m + 1
    <3>1. j + 1 < m + 1 BY <2>2
    <3>2. s[j + 1] < s[m + 1] /\ s[m + 1] \in Nat BY <1>1, <3>1 DEF Laid
    <3>3. QED BY <1>2, <3>2
  <2>3. QED BY <2>1, <2>2
<1>4. s[j] <= s[j + 1] BY <1>2
<1>5. /\ SubSeq(script, s[j] + 1, s[j + 1]) \in Seq(SaidSegments)
      /\ Len(SubSeq(script, s[j] + 1, s[j + 1])) = s[j + 1] - s[j]
      /\ DOMAIN SubSeq(script, s[j] + 1, s[j + 1]) = 1..(s[j + 1] - s[j])
      /\ \A i \in 1..(s[j + 1] - s[j]) : SubSeq(script, s[j] + 1, s[j + 1])[i] = script[s[j] + i]
  <2> DEFINE A == SaidSegments
             x == s[j]
             y == s[j + 1]
  <2>1. script \in Seq(A) /\ x \in Nat /\ y \in Nat /\ x <= y /\ y <= Len(script)
    BY <1>2, <1>3, <1>4
  <2> HIDE DEF A, x, y
  <2>2. /\ SubSeq(script, x + 1, y) \in Seq(A) /\ Len(SubSeq(script, x + 1, y)) = y - x
        /\ DOMAIN SubSeq(script, x + 1, y) = 1..(y - x)
        /\ \A i \in 1..(y - x) : SubSeq(script, x + 1, y)[i] = script[x + i]
    BY <2>1, Part
  <2>3. QED BY <2>2 DEF A, x, y
<1>6. QED BY <1>2, <1>3, <1>5 DEF ChapterPart, IsPart

\* Where the j-th chapter lies the segments are of the j-th article, and nowhere
\* else.
LEMMA Lies ==
  ASSUME NEW script \in Seq(SaidSegments), NEW order, NEW m \in Nat, NEW s,
         Laid(script, order, m, s), NEW j \in 1..m, NEW i \in 1..Len(script)
  PROVE  (s[j] < i /\ i <= s[j + 1]) => script[i].article = order[j] /\ script[i].text.of = order[j]
<1>1. PICK h \in 1..m : /\ s[h] < i /\ i <= s[h + 1]
                        /\ script[i].article = order[h] /\ script[i].text.of = order[h]
  BY DEF Laid
<1>2. /\ s[j] \in Nat /\ s[j + 1] \in Nat /\ s[h] \in Nat /\ s[h + 1] \in Nat BY PartIs
<1>3. \A x, y \in 1..(m + 1) : x < y => s[x] < s[y] BY DEF Laid
<1>4. ASSUME s[j] < i, i <= s[j + 1] PROVE h = j
  <2>1. CASE h < j
    <3>1. s[h + 1] <= s[j]
      <4>1. CASE h + 1 = j BY <1>2, <4>1
      <4>2. CASE h + 1 # j
        <5>1. h + 1 < j /\ h + 1 \in 1..(m + 1) /\ j \in 1..(m + 1) BY <2>1, <4>2
        <5>2. s[h + 1] < s[j] BY <1>3, <5>1
        <5>3. QED BY <1>2, <5>2
      <4>3. QED BY <4>1, <4>2
    <3>2. QED BY <1>1, <1>2, <1>4, <3>1
  <2>2. CASE j < h
    <3>1. s[j + 1] <= s[h]
      <4>1. CASE j + 1 = h BY <1>2, <4>1
      <4>2. CASE j + 1 # h
        <5>1. j + 1 < h /\ j + 1 \in 1..(m + 1) /\ h \in 1..(m + 1) BY <2>2, <4>2
        <5>2. s[j + 1] < s[h] BY <1>3, <5>1
        <5>3. QED BY <1>2, <5>2
      <4>3. QED BY <4>1, <4>2
    <3>2. QED BY <1>1, <1>2, <1>4, <3>1
  <2>3. QED BY <2>1, <2>2
<1>5. QED BY <1>1, <1>4

LEMMA PlacesAre ==
  ASSUME NEW script \in Seq(SaidSegments), NEW order \in Seq(Articles), IsInjective(order),
         NEW m \in Nat, m <= Len(order), NEW s, Laid(script, order, m, s), NEW j \in 1..m
  PROVE  {i \in DOMAIN script : script[i].article = order[j]} = (s[j] + 1)..s[j + 1]
<1>1. /\ s[j] \in Nat /\ s[j + 1] \in Nat /\ s[j] < s[j + 1] /\ s[j + 1] <= Len(script) BY PartIs
<1>2. ASSUME NEW i \in 1..Len(script), script[i].article = order[j]
      PROVE  s[j] < i /\ i <= s[j + 1]
  <2>1. PICK h \in 1..m : s[h] < i /\ i <= s[h + 1] /\ script[i].article = order[h] BY DEF Laid
  <2>2. h \in DOMAIN order /\ j \in DOMAIN order
    OBVIOUS
  <2>3. h = j BY <1>2, <2>1, <2>2 DEF IsInjective
  <2>4. QED BY <2>1, <2>3
<1>3. ASSUME NEW i \in (s[j] + 1)..s[j + 1]
      PROVE  i \in 1..Len(script) /\ script[i].article = order[j]
  <2>1. i \in 1..Len(script) /\ s[j] < i /\ i <= s[j + 1] BY <1>1
  <2>2. QED BY <2>1, Lies
<1>4. DOMAIN script = 1..Len(script)
  OBVIOUS
<1>5. ASSUME NEW i \in DOMAIN script, script[i].article = order[j]
      PROVE  i \in (s[j] + 1)..s[j + 1]
  <2>1. i \in 1..Len(script) BY <1>4
  <2>2. s[j] < i /\ i <= s[j + 1] BY <1>2, <1>5, <2>1
  <2>3. QED BY <1>1, <2>1, <2>2
<1>6. QED BY <1>3, <1>4, <1>5

\* So a chapter is what is between the first and the last segment of its article.
LEMMA ChapterIs ==
  ASSUME work.merged \in Seq(SaidSegments), NEW order \in Seq(Articles), IsInjective(order),
         NEW m \in Nat, m <= Len(order), NEW s, Laid(work.merged, order, m, s), NEW j \in 1..m
  PROVE  ChapterOf(order[j]) = ChapterPart(work.merged, s, j)
<1> DEFINE places == {i \in DOMAIN work.merged : work.merged[i].article = order[j]}
<1>1. places = (s[j] + 1)..s[j + 1] BY PlacesAre
<1>2. /\ s[j] \in Nat /\ s[j + 1] \in Nat /\ s[j] < s[j + 1] /\ s[j + 1] <= Len(work.merged)
  BY PartIs
<1>3. ChapterOf(order[j]) = IF places = {} THEN <<>> ELSE SubSeq(work.merged, Min(places), Max(places))
  BY DEF ChapterOf
<1> HIDE DEF places
<1>4. places \in SUBSET (1..s[j + 1]) /\ s[j] + 1 \in places /\ s[j + 1] \in places BY <1>1, <1>2
<1>5. /\ Min(places) \in places /\ \A y \in places : Min(places) <= y
      /\ Max(places) \in places /\ \A y \in places : y <= Max(places)
  BY <1>2, <1>4, Ends
<1>6. Min(places) = s[j] + 1 /\ Max(places) = s[j + 1]
  <2>1. /\ Min(places) \in Int /\ Max(places) \in Int /\ s[j] + 1 <= Min(places) /\ Max(places) <= s[j + 1]
        /\ Min(places) <= s[j] + 1 /\ s[j + 1] <= Max(places)
    BY <1>1, <1>2, <1>4, <1>5
  <2>2. QED BY <1>2, <2>1
<1>7. QED BY <1>3, <1>4, <1>6 DEF ChapterPart

\* The beginning of a sequence and what follows it.
LEMMA Meet ==
  ASSUME NEW A, NEW seq \in Seq(A), NEW p \in Nat, NEW q \in Nat, p <= q, q <= Len(seq)
  PROVE  SubSeq(seq, 1, p) \o SubSeq(seq, p + 1, q) = SubSeq(seq, 1, q)
<1> DEFINE a == SubSeq(seq, 1, p)
           r == SubSeq(seq, p + 1, q)
           b == SubSeq(seq, 1, q)
<1>1. Len(seq) \in Nat /\ p <= Len(seq)
  OBVIOUS
<1>2. a \in Seq(A) /\ Len(a) = p /\ \A k \in 1..p : a[k] = seq[k] BY <1>1, Starts
<1>3. b \in Seq(A) /\ Len(b) = q /\ \A k \in 1..q : b[k] = seq[k] BY <1>1, Starts
<1>4. r \in Seq(A) /\ Len(r) = q - p /\ \A k \in 1..(q - p) : r[k] = seq[p + k] BY Part
<1> HIDE DEF a, r, b
<1>5. /\ a \o r \in Seq(A) /\ Len(a \o r) = Len(a) + Len(r)
      /\ \A k \in 1..(Len(a) + Len(r)) : (a \o r)[k] = IF k <= Len(a) THEN a[k] ELSE r[k - Len(a)]
  BY <1>2, <1>4, ConcatProperties, Zenon
<1>6. Len(a) + Len(r) = q BY <1>2, <1>4
<1>7. ASSUME NEW k \in 1..q PROVE (a \o r)[k] = b[k]
  <2>1. (a \o r)[k] = IF k <= p THEN a[k] ELSE r[k - p] BY <1>2, <1>5, <1>6
  <2>2. CASE k <= p
    <3>1. k \in 1..p BY <2>2
    <3>2. QED BY <1>2, <1>3, <2>1, <2>2, <3>1
  <2>3. CASE ~ (k <= p)
    <3>1. k - p \in 1..(q - p) /\ p + (k - p) = k BY <2>3
    <3>2. r[k - p] = seq[p + (k - p)] BY <1>4, <3>1
    <3>3. QED BY <1>3, <2>1, <2>3, <3>1, <3>2
  <2>4. QED BY <2>2, <2>3
<1>8. a \o r = b BY <1>3, <1>5, <1>6, <1>7, SeqEqual
<1>9. QED BY <1>8 DEF a, r, b

\* The chapters one after the other are the script.
LEMMA Flattened ==
  ASSUME NEW script \in Seq(SaidSegments), NEW order, NEW N \in Nat \ {0}, NEW s,
         Laid(script, order, N, s)
  PROVE  FlattenSeq([k \in 1..N |-> ChapterPart(script, s, k)]) = script
<1> DEFINE parts == [k \in 1..N |-> ChapterPart(script, s, k)]
           IsFlat(g) == g = [i \in 1..N |-> IF i = 1 THEN parts[i] ELSE g[i - 1] \o parts[i]]
           flat == CHOOSE g : IsFlat(g)
           h == [i \in 1..N |-> SubSeq(script, 1, s[i + 1])]
<1>1. \A k \in 1..N : parts[k] = ChapterPart(script, s, k) /\ parts[k] \in Seq(SaidSegments)
  BY PartIs
<1>2. parts \in Seq(Seq(SaidSegments)) /\ Len(parts) = N
  <2>1. parts \in [1..N -> Seq(SaidSegments)] BY <1>1
  <2>2. DOMAIN parts = 1..N
    OBVIOUS
  <2> HIDE DEF parts
  <2>3. QED BY <2>1, <2>2, SeqDef
<1>3. FlattenSeq(parts) = flat[N]
  <2> HIDE DEF parts
  <2>1. FlattenSeq(parts) = IF N = 0 THEN parts ELSE flat[N] BY <1>2 DEF FlattenSeq
  <2>2. QED BY <2>1
<1>4. s[1] = 0 /\ s[N + 1] = Len(script) BY DEF Laid
<1>5. ASSUME NEW i \in 1..N
      PROVE  SubSeq(script, 1, s[i]) \o parts[i] = SubSeq(script, 1, s[i + 1])
  <2>1. s[i] \in Nat /\ s[i + 1] \in Nat /\ s[i] < s[i + 1] /\ s[i + 1] <= Len(script) BY PartIs
  <2>2. s[i] <= s[i + 1] BY <2>1
  <2>3. SubSeq(script, 1, s[i]) \o SubSeq(script, s[i] + 1, s[i + 1]) = SubSeq(script, 1, s[i + 1])
    BY <2>1, <2>2, Meet
  <2>4. QED BY <1>1, <2>3 DEF ChapterPart
<1>6. parts[1] = SubSeq(script, 1, s[2])
  <2>1. 1 \in 1..N /\ 1 + 1 = 2
    OBVIOUS
  <2>2. parts[1] = SubSeq(script, s[1] + 1, s[1 + 1]) BY <1>1, <2>1 DEF ChapterPart
  <2>3. s[1] + 1 = 1 BY <1>4
  <2>4. QED BY <2>1, <2>2, <2>3
<1> HIDE DEF parts
<1>7. IsFlat(h)
  <2>1. ASSUME NEW i \in 1..N PROVE h[i] = IF i = 1 THEN parts[i] ELSE h[i - 1] \o parts[i]
    <3>1. CASE i = 1 BY <1>6, <3>1
    <3>2. CASE i # 1
      <4>1. i - 1 \in 1..N /\ (i - 1) + 1 = i BY <3>2
      <4>2. h[i - 1] = SubSeq(script, 1, s[i]) BY <4>1
      <4>3. h[i] = SubSeq(script, 1, s[i + 1])
        OBVIOUS
      <4> HIDE DEF h
      <4>4. QED BY <1>5, <3>2, <4>2, <4>3
    <3>3. QED BY <3>1, <3>2
  <2>2. QED BY <2>1
<1>8. IsFlat(flat)
  <2> HIDE DEF IsFlat, h
  <2>1. QED BY <1>7
<1>9. \A i \in 1..N : h[i] = IF i = 1 THEN parts[i] ELSE h[i - 1] \o parts[i]
  <2> HIDE DEF h
  <2>1. QED BY <1>7
<1> HIDE DEF flat
<1>10. \A i \in 1..N : flat[i] = IF i = 1 THEN parts[i] ELSE flat[i - 1] \o parts[i] BY <1>8
<1> HIDE DEF h
<1> DEFINE T == {i \in 0..N : i = 0 \/ flat[i] = h[i]}
<1>11. 0 \in T
  OBVIOUS
<1>12. ASSUME NEW i \in 1..N, i - 1 \in T PROVE i \in T
  <2>1. CASE i = 1
    <3>1. flat[i] = h[i] BY <1>9, <1>10, <2>1
    <3>2. QED BY <3>1
  <2>2. CASE i # 1
    <3>1. flat[i - 1] = h[i - 1] BY <1>12, <2>2
    <3>2. flat[i] = h[i] BY <1>9, <1>10, <2>2, <3>1
    <3>3. QED BY <3>2
  <2>3. QED BY <2>1, <2>2
<1>13. 0..N \subseteq T
  <2> HIDE DEF T
  <2>1. N \in Nat
    OBVIOUS
  <2>2. QED BY <1>11, <1>12, <2>1, UpTo
<1>14. flat[N] = h[N] BY <1>13
<1>15. h[N] = SubSeq(script, 1, Len(script)) BY <1>4 DEF h
<1>16. SubSeq(script, 1, Len(script)) = script BY SubSeqFull
<1>17. FlattenSeq(parts) = script BY <1>3, <1>14, <1>15, <1>16
<1>18. QED BY <1>17 DEF parts

\* The slices of the polished script are its chapters.
LEMMA SliceIs ==
  ASSUME NEW w, NEW n \in Nat, NEW s, Measures(w.lengths, n, s), w.k \in 1..n,
         s \in [1..(n + 1) -> Nat], s[1] = 0
  PROVE  Slice(w) = ChapterPart(w.coherent, s, w.k)
<1> DEFINE K == w.k
           L == w.lengths
           IsOffset(g) == g = [k \in 1..K |-> IF k = 1 THEN 0 ELSE g[k - 1] + L[k - 1]]
           offset == CHOOSE g : IsOffset(g)
           h == [k \in 1..K |-> s[k]]
<1>1. Slice(w) = SubSeq(w.coherent, offset[K] + 1, offset[K] + L[K]) BY DEF Slice
<1>2. \A j \in 1..n : s[j + 1] = s[j] + L[j] BY DEF Measures
<1>3. K \in 1..n
  OBVIOUS
<1> HIDE DEF K, L
<1>4. IsOffset(h)
  <2>1. ASSUME NEW k \in 1..K PROVE h[k] = IF k = 1 THEN 0 ELSE h[k - 1] + L[k - 1]
    <3>1. CASE k = 1 BY <3>1
    <3>2. CASE k # 1
      <4>1. k - 1 \in 1..K /\ k - 1 \in 1..n /\ (k - 1) + 1 = k BY <1>3, <3>2
      <4>2. s[k] = s[k - 1] + L[k - 1] BY <1>2, <4>1
      <4>3. QED BY <3>2, <4>1, <4>2
    <3>3. QED BY <3>1, <3>2
  <2>2. QED BY <2>1
<1>5. IsOffset(offset)
  <2> HIDE DEF IsOffset, h
  <2>1. QED BY <1>4
<1>6. \A k \in 1..K : h[k] = IF k = 1 THEN 0 ELSE h[k - 1] + L[k - 1]
  <2> HIDE DEF h
  <2>1. QED BY <1>4
<1> HIDE DEF offset, h
<1>7. \A k \in 1..K : offset[k] = IF k = 1 THEN 0 ELSE offset[k - 1] + L[k - 1] BY <1>5
<1> DEFINE T == {k \in 0..K : k = 0 \/ offset[k] = h[k]}
<1>8. 0 \in T BY <1>3
<1>9. ASSUME NEW k \in 1..K, k - 1 \in T PROVE k \in T
  <2>1. CASE k = 1
    <3>1. offset[k] = h[k] BY <1>6, <1>7, <2>1
    <3>2. QED BY <3>1
  <2>2. CASE k # 1
    <3>1. offset[k - 1] = h[k - 1] BY <1>9, <2>2
    <3>2. offset[k] = h[k] BY <1>6, <1>7, <2>2, <3>1
    <3>3. QED BY <3>2
  <2>3. QED BY <2>1, <2>2
<1>10. 0..K \subseteq T
  <2> HIDE DEF T
  <2>1. K \in Nat BY <1>3
  <2>2. QED BY <1>8, <1>9, <2>1, UpTo
<1>11. offset[K] = h[K] /\ K \in 1..K BY <1>3, <1>10
<1>12. offset[K] = s[K] BY <1>11 DEF h
<1>13. s[K] + L[K] = s[K + 1] BY <1>2, <1>3
<1>14. Slice(w) = SubSeq(w.coherent, s[K] + 1, s[K + 1]) BY <1>1, <1>12, <1>13
<1>15. QED BY <1>14 DEF ChapterPart, K

\* A chapter that is accepted is marked, and otherwise as it was.
LEMMA OwnedIs ==
  ASSUME NEW chapter \in Seq(SaidSegments), NEW a \in Articles
  PROVE  /\ Owned(chapter, a) \in Seq(SaidSegments) /\ Len(Owned(chapter, a)) = Len(chapter)
         /\ DOMAIN Owned(chapter, a) = 1..Len(chapter)
         /\ \A i \in 1..Len(chapter) :
              /\ Owned(chapter, a)[i].article = a /\ Owned(chapter, a)[i].text = chapter[i].text
              /\ Owned(chapter, a)[i].speaker = chapter[i].speaker
         /\ Spoken(Owned(chapter, a)) = Spoken(chapter)
<1> DEFINE c == Owned(chapter, a)
           n == Len(chapter)
<1>1. n \in Nat /\ DOMAIN chapter = 1..n /\ \A i \in 1..n : chapter[i] \in SaidSegments
  OBVIOUS
<1>2. c = [i \in 1..n |-> [chapter[i] EXCEPT !.article = a]] BY <1>1 DEF Owned
<1>3. ASSUME NEW x \in SaidSegments
      PROVE  /\ [x EXCEPT !.article = a] \in SaidSegments
             /\ [x EXCEPT !.article = a].article = a /\ [x EXCEPT !.article = a].text = x.text
             /\ [x EXCEPT !.article = a].speaker = x.speaker
  BY DEF SaidSegments
<1> HIDE DEF c, n
<1>4. DOMAIN c = 1..n /\ \A i \in 1..n : c[i] = [chapter[i] EXCEPT !.article = a] BY <1>2
<1>5. \A i \in 1..n : /\ c[i] \in SaidSegments /\ c[i].article = a /\ c[i].text = chapter[i].text
                      /\ c[i].speaker = chapter[i].speaker
  <2>1. ASSUME NEW i \in 1..n
        PROVE  /\ c[i] \in SaidSegments /\ c[i].article = a /\ c[i].text = chapter[i].text
               /\ c[i].speaker = chapter[i].speaker
    <3> DEFINE x == chapter[i]
    <3>1. x \in SaidSegments /\ c[i] = [x EXCEPT !.article = a] BY <1>1, <1>4
    <3> HIDE DEF x
    <3>2. c[i] \in SaidSegments /\ c[i].article = a /\ c[i].text = x.text /\ c[i].speaker = x.speaker
      BY <1>3, <3>1
    <3>3. QED BY <3>2 DEF x
  <2>2. QED BY <2>1
<1>6. c \in [1..n -> SaidSegments] BY <1>2, <1>4, <1>5
<1>7. c \in Seq(SaidSegments) /\ Len(c) = n BY <1>1, <1>6, SeqDef
<1>8. Spoken(c) = Spoken(chapter) BY <1>1, <1>4, <1>5 DEF Spoken
<1>9. QED BY <1>4, <1>5, <1>7, <1>8 DEF c, n

\* The places of one chapter more, that ends after place n.
Longer(s, m, n) == [x \in 1..(m + 2) |-> IF x = m + 2 THEN n ELSE s[x]]

\* All of a chapter is marked as the article it is of.
AllMarked(c, a) == \A i \in 1..Len(c) : c[i].article = a /\ c[i].text.of = a

\* The chapters before the new one stay where they are.
Grown(script, both, m, s, t) ==
  \A j \in 1..m : /\ t[j + 1] = s[j + 1] /\ t[j] = s[j]
                  /\ ChapterPart(both, t, j) = ChapterPart(script, s, j)

LEMMA Grow ==
  ASSUME NEW script \in Seq(SaidSegments), NEW order, NEW m \in Nat, NEW s,
         Laid(script, order, m, s), NEW c \in Seq(SaidSegments), c # <<>>,
         NEW a, a = order[m + 1], AllMarked(c, a),
         NEW t, t = Longer(s, m, Len(script) + Len(c))
  PROVE  /\ script \o c \in Seq(SaidSegments) /\ Laid(script \o c, order, m + 1, t)
         /\ Grown(script, script \o c, m, s, t)
         /\ ChapterPart(script \o c, t, m + 1) = c
         /\ t[m + 2] = t[m + 1] + Len(c)
<1> DEFINE n == Len(script)
           k == Len(c)
           A == SaidSegments
           both == script \o c
<1>1. n \in Nat /\ k \in Nat /\ k # 0 /\ script \in Seq(A) /\ c \in Seq(A)
  <2>1. k # 0 BY EmptySeq
  <2>2. QED BY <2>1
<1>2. /\ s \in [1..(m + 1) -> Nat] /\ s[1] = 0 /\ s[m + 1] = n
      /\ \A i, j \in 1..(m + 1) : i < j => s[i] < s[j]
  BY DEF Laid
<1>3. /\ t \in [1..(m + 2) -> Nat] /\ t[m + 2] = n + k
      /\ \A x \in 1..(m + 1) : t[x] = s[x]
  <2>1. \A x \in 1..(m + 1) : x \in 1..(m + 2) /\ x # m + 2
    OBVIOUS
  <2>2. \A x \in 1..(m + 2) : x # m + 2 => x \in 1..(m + 1)
    OBVIOUS
  <2>3. n + k \in Nat /\ m + 2 \in 1..(m + 2) BY <1>1
  <2>4. t = [x \in 1..(m + 2) |-> IF x = m + 2 THEN n + k ELSE s[x]] BY DEF Longer
  <2> HIDE DEF n, k
  <2>5. QED BY <1>2, <2>1, <2>2, <2>3, <2>4
<1> HIDE DEF A
<1>4. /\ both \in Seq(A) /\ Len(both) = Len(script) + Len(c)
      /\ \A i \in 1..(Len(script) + Len(c)) :
           both[i] = IF i <= Len(script) THEN script[i] ELSE c[i - Len(script)]
  BY <1>1, ConcatProperties, Zenon
<1>5. /\ Len(both) = n + k /\ \A i \in 1..n : both[i] = script[i]
      /\ \A i \in 1..k : both[n + i] = c[i]
  <2>1. Len(both) = n + k BY <1>4
  <2>2. ASSUME NEW i \in 1..n PROVE both[i] = script[i] BY <1>1, <1>4
  <2>3. ASSUME NEW i \in 1..k PROVE both[n + i] = c[i]
    <3>1. n + i \in 1..(n + k) /\ ~ (n + i <= n) /\ (n + i) - n = i BY <1>1
    <3>2. QED BY <1>4, <3>1
  <2>4. QED BY <2>1, <2>2, <2>3
<1> HIDE DEF both
<1>6. ASSUME NEW i \in 1..(m + 2), NEW j \in 1..(m + 2), i < j PROVE t[i] < t[j]
  <2>1. i \in 1..(m + 1) BY <1>6
  <2>2. CASE j = m + 2
    <3>1. s[i] <= n
      <4>1. CASE i = m + 1 BY <1>1, <1>2, <4>1
      <4>2. CASE i # m + 1
        <5>1. i < m + 1 /\ m + 1 \in 1..(m + 1) BY <2>1, <4>2
        <5>2. s[i] < s[m + 1] BY <1>2, <2>1, <5>1
        <5>3. QED BY <1>1, <1>2, <2>1, <5>2
      <4>3. QED BY <4>1, <4>2
    <3>2. s[i] \in Nat /\ t[i] = s[i] /\ t[j] = n + k BY <1>2, <1>3, <2>1, <2>2
    <3> HIDE DEF n, k
    <3>3. QED BY <1>1, <3>1, <3>2
  <2>3. CASE j # m + 2
    <3>1. j \in 1..(m + 1) BY <2>3
    <3>2. QED BY <1>2, <1>3, <1>6, <2>1, <3>1
  <2>4. QED BY <2>2, <2>3
<1>7. ASSUME NEW i \in 1..(n + k)
      PROVE  \E j \in 1..(m + 1) : /\ t[j] < i /\ i <= t[j + 1]
                                   /\ both[i].article = order[j] /\ both[i].text.of = order[j]
  <2>1. CASE i <= n
    <3>1. i \in 1..n BY <1>1, <2>1
    <3>2. PICK j \in 1..m : /\ s[j] < i /\ i <= s[j + 1]
                            /\ script[i].article = order[j] /\ script[i].text.of = order[j]
      BY <3>1 DEF Laid
    <3>3. j \in 1..(m + 1) /\ j + 1 \in 1..(m + 1)
      OBVIOUS
    <3>4. t[j] = s[j] /\ t[j + 1] = s[j + 1] /\ both[i] = script[i] BY <1>3, <1>5, <3>1, <3>3
    <3>5. QED BY <3>2, <3>3, <3>4
  <2>2. CASE ~ (i <= n)
    <3>1. m + 1 \in 1..(m + 1) /\ (m + 1) + 1 = m + 2
      OBVIOUS
    <3>2. i - n \in 1..k /\ n + (i - n) = i BY <1>1, <2>2
    <3>3. both[i] = c[i - n] BY <1>5, <3>2
    <3>4. t[m + 1] = n /\ t[m + 2] = n + k BY <1>2, <1>3, <3>1
    <3>5. c[i - n].article = order[m + 1] /\ c[i - n].text.of = order[m + 1] BY <3>2 DEF AllMarked
    <3>6. t[m + 1] < i /\ i <= t[(m + 1) + 1] BY <1>1, <2>2, <3>1, <3>4
    <3>7. QED BY <3>1, <3>3, <3>5, <3>6
  <2>3. QED BY <2>1, <2>2
<1>8. both \in Seq(SaidSegments) /\ Laid(both, order, m + 1, t)
  <2>1. (m + 1) + 1 = m + 2 /\ 1 \in 1..(m + 1)
    OBVIOUS
  <2>2. t[1] = 0 BY <1>2, <1>3, <2>1
  <2> HIDE DEF n, k
  <2>3. QED BY <1>3, <1>4, <1>5, <1>6, <1>7, <2>1, <2>2 DEF Laid, A
<1>9. ASSUME NEW j \in 1..m
      PROVE  /\ t[j + 1] = s[j + 1] /\ t[j] = s[j]
             /\ ChapterPart(both, t, j) = ChapterPart(script, s, j)
  <2>1. t[j + 1] = s[j + 1] /\ t[j] = s[j] BY <1>3
  <2>2. /\ s[j] \in Nat /\ s[j + 1] \in Nat /\ s[j] < s[j + 1] /\ s[j + 1] <= n BY PartIs
  <2> DEFINE x == s[j]
             y == s[j + 1]
  <2>3. x \in Nat /\ y \in Nat /\ x <= y /\ y <= n /\ y <= n + k BY <1>1, <2>2
  <2>4. /\ SubSeq(script, x + 1, y) \in Seq(A) /\ Len(SubSeq(script, x + 1, y)) = y - x
        /\ \A i \in 1..(y - x) : SubSeq(script, x + 1, y)[i] = script[x + i]
    <3> HIDE DEF x, y
    <3>1. QED BY <1>1, <2>3, Part
  <2>5. /\ SubSeq(both, x + 1, y) \in Seq(A) /\ Len(SubSeq(both, x + 1, y)) = y - x
        /\ \A i \in 1..(y - x) : SubSeq(both, x + 1, y)[i] = both[x + i]
    <3>1. y <= Len(both) BY <1>5, <2>3
    <3> HIDE DEF x, y
    <3>2. QED BY <1>4, <2>3, <3>1, Part
  <2> HIDE DEF x, y
  <2>6. \A i \in 1..(y - x) : x + i \in 1..n BY <1>1, <2>3
  <2>7. \A i \in 1..(y - x) : SubSeq(both, x + 1, y)[i] = SubSeq(script, x + 1, y)[i]
    BY <1>5, <2>4, <2>5, <2>6
  <2>8. SubSeq(both, x + 1, y) = SubSeq(script, x + 1, y) BY <2>4, <2>5, <2>7, SeqEqual
  <2>9. QED BY <2>1, <2>8 DEF ChapterPart, x, y
<1>10. ChapterPart(both, t, m + 1) = c
  <2>1. (m + 1) + 1 = m + 2 /\ t[m + 1] = n /\ t[m + 2] = n + k BY <1>2, <1>3
  <2>2. ChapterPart(both, t, m + 1) = SubSeq(both, n + 1, n + k) BY <2>1 DEF ChapterPart
  <2>3. n <= n + k /\ n + k \in Nat /\ n + k <= Len(both) /\ (n + k) - n = k BY <1>1, <1>5
  <2>4. /\ SubSeq(both, n + 1, n + k) \in Seq(A) /\ Len(SubSeq(both, n + 1, n + k)) = k
        /\ \A i \in 1..k : SubSeq(both, n + 1, n + k)[i] = both[n + i]
    <3> DEFINE q == n + k
    <3>1. n \in Nat /\ q \in Nat /\ n <= q /\ q <= Len(both) /\ q - n = k BY <1>1, <2>3
    <3> HIDE DEF q, n, k
    <3>2. /\ SubSeq(both, n + 1, q) \in Seq(A) /\ Len(SubSeq(both, n + 1, q)) = q - n
          /\ \A i \in 1..(q - n) : SubSeq(both, n + 1, q)[i] = both[n + i]
      BY <1>4, <3>1, Part
    <3>3. QED BY <3>1, <3>2 DEF q
  <2>5. \A i \in 1..k : SubSeq(both, n + 1, n + k)[i] = c[i] BY <1>5, <2>4
  <2>6. Len(c) = k
    OBVIOUS
  <2>7. SubSeq(both, n + 1, n + k) = c
    <3> DEFINE r == SubSeq(both, n + 1, n + k)
    <3>1. r \in Seq(A) /\ c \in Seq(A) /\ Len(r) = Len(c) /\ \A i \in 1..Len(r) : r[i] = c[i]
      BY <1>1, <2>4, <2>5, <2>6
    <3> HIDE DEF r
    <3>2. r = c BY <3>1, SeqEqual
    <3>3. QED BY <3>2 DEF r
  <2>8. QED BY <2>2, <2>7
<1>11. t[m + 2] = t[m + 1] + Len(c)
  <2>1. m + 1 \in 1..(m + 1)
    OBVIOUS
  <2>2. QED BY <1>2, <1>3, <2>1
<1>12. Grown(script, both, m, s, t) BY <1>9 DEF Grown
<1>13. QED BY <1>8, <1>10, <1>11, <1>12 DEF both

\* The last lines of a chapter.
LEMMA LinesAre ==
  ASSUME NEW chapter \in Seq(SaidSegments), chapter # <<>>
  PROVE  \E p \in Nat :
           /\ p < Len(chapter)
           /\ p = (IF Len(chapter) >= 2 THEN Len(chapter) - 2 ELSE 0)
           /\ LastLines(chapter) = [i \in 1..(Len(chapter) - p) |-> chapter[p + i].text]
<1> DEFINE n == Len(chapter)
           p == IF n >= 2 THEN n - 2 ELSE 0
           A == SaidSegments
<1>1. n \in Nat /\ n # 0 BY EmptySeq
<1>2. p \in Nat /\ p < n /\ p <= n BY <1>1
<1>3. Max({1, n - 1}) = p + 1
  <2> DEFINE y == n - 1
  <2>1. y \in Int /\ 1 \in Int BY <1>1
  <2> HIDE DEF y
  <2>2. Max({1, y}) = IF 1 >= y THEN 1 ELSE y BY <2>1, OfTwo
  <2>3. (IF 1 >= y THEN 1 ELSE y) = p + 1 BY <1>1 DEF y
  <2>4. QED BY <2>2, <2>3 DEF y
<1>4. LastLines(chapter) = Texts(SubSeq(chapter, p + 1, n)) BY <1>3 DEF LastLines
<1>5. /\ DOMAIN SubSeq(chapter, p + 1, n) = 1..(n - p)
      /\ \A i \in 1..(n - p) : SubSeq(chapter, p + 1, n)[i] = chapter[p + i]
  <2>1. chapter \in Seq(A) /\ n <= Len(chapter) BY <1>1
  <2> HIDE DEF p, n, A
  <2>2. QED BY <1>1, <1>2, <2>1, Part
<1>6. Texts(SubSeq(chapter, p + 1, n)) = [i \in 1..(n - p) |-> chapter[p + i].text]
  BY <1>5 DEF Texts
<1>7. QED BY <1>2, <1>4, <1>6

LEMMA LinesOwned ==
  ASSUME NEW chapter \in Seq(SaidSegments), chapter # <<>>, NEW a \in Articles
  PROVE  Owned(chapter, a) # <<>> /\ LastLines(Owned(chapter, a)) = LastLines(chapter)
<1> DEFINE c == Owned(chapter, a)
<1>1. /\ c \in Seq(SaidSegments) /\ Len(c) = Len(chapter)
      /\ \A i \in 1..Len(chapter) : c[i].text = chapter[i].text
  BY OwnedIs
<1> HIDE DEF c
<1>2. Len(chapter) \in Nat /\ Len(chapter) # 0 BY EmptySeq
<1>3. c # <<>> BY <1>1, <1>2
<1>4. PICK p \in Nat :
        /\ p < Len(chapter) /\ p = (IF Len(chapter) >= 2 THEN Len(chapter) - 2 ELSE 0)
        /\ LastLines(chapter) = [i \in 1..(Len(chapter) - p) |-> chapter[p + i].text]
  BY LinesAre
<1>5. PICK q \in Nat :
        /\ q < Len(c) /\ q = (IF Len(c) >= 2 THEN Len(c) - 2 ELSE 0)
        /\ LastLines(c) = [i \in 1..(Len(c) - q) |-> c[q + i].text]
  BY <1>1, <1>3, LinesAre
<1>6. q = p BY <1>1, <1>4, <1>5
<1>7. \A i \in 1..(Len(chapter) - p) : c[p + i].text = chapter[p + i].text
  <2>1. \A i \in 1..(Len(chapter) - p) : p + i \in 1..Len(chapter) BY <1>2, <1>4
  <2>2. QED BY <1>1, <2>1
<1>8. LastLines(c) = [i \in 1..(Len(chapter) - p) |-> c[p + i].text] BY <1>1, <1>5, <1>6
<1>9. LastLines(c) = LastLines(chapter) BY <1>4, <1>7, <1>8
<1>10. QED BY <1>3, <1>9 DEF c

LEMMA SuffixIs ==
  ASSUME NEW A, NEW s \in Seq(A), NEW t \in Seq(A), Len(s) <= Len(t),
         \A i \in 1..Len(s) : s[i] = t[Len(t) - Len(s) + i]
  PROVE  IsSuffix(s, t)
<1> DEFINE n == Len(t)
           k == Len(s)
           a == Reverse(s)
           b == Reverse(t)
<1>1. n \in Nat /\ k \in Nat /\ k <= n
  OBVIOUS
<1>2. a = [i \in 1..k |-> s[(k - i) + 1]] /\ b = [i \in 1..n |-> t[(n - i) + 1]] BY DEF Reverse
<1>3. /\ \A i \in 1..k : s[i] \in A
      /\ \A i \in 1..n : t[i] \in A
  OBVIOUS
<1>4. a \in Seq(A) /\ Len(a) = k /\ \A i \in 1..k : a[i] = s[(k - i) + 1]
  <2>1. \A i \in 1..k : (k - i) + 1 \in 1..k BY <1>1
  <2> HIDE DEF a, k
  <2>2. a \in [1..k -> A] /\ DOMAIN a = 1..k BY <1>2, <1>3, <2>1
  <2>3. QED BY <1>1, <1>2, <2>2, SeqDef
<1>5. b \in Seq(A) /\ Len(b) = n /\ \A i \in 1..n : b[i] = t[(n - i) + 1]
  <2>1. \A i \in 1..n : (n - i) + 1 \in 1..n BY <1>1
  <2> HIDE DEF b, n
  <2>2. b \in [1..n -> A] /\ DOMAIN b = 1..n BY <1>2, <1>3, <2>1
  <2>3. QED BY <1>1, <1>2, <2>2, SeqDef
<1>6. \A i \in 1..k : s[i] = t[n - k + i]
  OBVIOUS
<1> HIDE DEF a, b, n, k
<1>7. \A i \in 1..k : a[i] = b[i]
  <2>1. ASSUME NEW i \in 1..k PROVE a[i] = b[i]
    <3>1. (k - i) + 1 \in 1..k /\ i \in 1..n /\ n - k + ((k - i) + 1) = (n - i) + 1 BY <1>1
    <3> DEFINE h == (k - i) + 1
    <3>2. h \in 1..k /\ n - k + h = (n - i) + 1 /\ a[i] = s[h] /\ b[i] = t[(n - i) + 1]
      BY <1>4, <1>5, <3>1
    <3> HIDE DEF h
    <3>3. s[h] = t[n - k + h] BY <1>6, <3>2
    <3>4. QED BY <3>2, <3>3, Zenon
  <2>2. QED BY <2>1
<1>8. SubSeq(a, 1, k) = [i \in 1..k |-> a[i]]
  <2>1. k <= Len(a) BY <1>1, <1>4
  <2>2. QED BY <1>1, <1>4, <2>1, Starts
<1>9. SubSeq(b, 1, k) = [i \in 1..k |-> b[i]]
  <2>1. k <= Len(b) BY <1>1, <1>5
  <2>2. QED BY <1>1, <1>5, <2>1, Starts
<1>10. SubSeq(a, 1, k) = SubSeq(b, 1, k) BY <1>7, <1>8, <1>9
<1>11. IsPrefix(a, b) BY <1>1, <1>4, <1>5, <1>10 DEF IsPrefix
<1>12. QED BY <1>11 DEF IsSuffix, a, b

LEMMA LinesEnd ==
  ASSUME NEW chapter \in Seq(SaidSegments), chapter # <<>>
  PROVE  /\ IsSuffix(LastLines(chapter), Texts(chapter))
         /\ Len(LastLines(chapter)) = Min({2, Len(Texts(chapter))})
<1> DEFINE n == Len(chapter)
           s == LastLines(chapter)
           t == Texts(chapter)
<1>1. n \in Nat /\ DOMAIN chapter = 1..n /\ \A i \in 1..n : chapter[i].text \in SaidTexts
  <2>1. \A i \in 1..n : chapter[i] \in SaidSegments
    OBVIOUS
  <2>2. \A x \in SaidSegments : x.text \in SaidTexts BY DEF SaidSegments
  <2>3. n \in Nat /\ DOMAIN chapter = 1..n
    OBVIOUS
  <2> HIDE DEF n
  <2>4. QED BY <2>1, <2>2, <2>3
<1>2. PICK p \in Nat : /\ p < n /\ s = [i \in 1..(n - p) |-> chapter[p + i].text]
                       /\ p = IF n >= 2 THEN n - 2 ELSE 0
  BY LinesAre
<1>3. t = [i \in 1..n |-> chapter[i].text] BY <1>1 DEF Texts
<1> HIDE DEF n, s, t
<1>4. \A i \in 1..(n - p) : p + i \in 1..n BY <1>1
<1>5. s \in [1..(n - p) -> SaidTexts] /\ t \in [1..n -> SaidTexts] /\ n - p \in Nat
  BY <1>1, <1>2, <1>3, <1>4
<1>6. s \in Seq(SaidTexts) /\ Len(s) = n - p /\ t \in Seq(SaidTexts) /\ Len(t) = n
  <2> DEFINE q == n - p
  <2>1. s \in [1..q -> SaidTexts] /\ DOMAIN s = 1..q /\ q \in Nat BY <1>5
  <2> HIDE DEF q
  <2>2. s \in Seq(SaidTexts) /\ Len(s) = q BY <2>1, SeqDef
  <2>3. DOMAIN t = 1..n BY <1>5
  <2>4. t \in Seq(SaidTexts) /\ Len(t) = n BY <1>1, <1>5, <2>3, SeqDef
  <2>5. QED BY <2>2, <2>4 DEF q
<1>7. \A i \in 1..Len(s) : s[i] = t[Len(t) - Len(s) + i]
  <2>1. ASSUME NEW i \in 1..(n - p) PROVE s[i] = t[Len(t) - Len(s) + i]
    <3>1. Len(t) - Len(s) + i = p + i BY <1>1, <1>6
    <3>2. s[i] = chapter[p + i].text /\ t[p + i] = chapter[p + i].text BY <1>2, <1>3, <1>4
    <3>3. QED BY <3>1, <3>2
  <2>2. QED BY <1>6, <2>1
<1>8. Len(s) <= Len(t) BY <1>1, <1>6
<1>9. IsSuffix(s, t) BY <1>6, <1>7, <1>8, SuffixIs
<1>10. Len(s) = Min({2, Len(t)})
  <2>1. 2 \in Int /\ n \in Int /\ n # 0 BY <1>1, <1>2
  <2>2. Min({2, n}) = IF 2 <= n THEN 2 ELSE n BY <2>1, OfTwo
  <2>3. (IF 2 <= n THEN 2 ELSE n) = n - p BY <1>1, <1>2
  <2>4. QED BY <1>6, <2>2, <2>3
<1>11. QED BY <1>9, <1>10 DEF s, t

-----------------------------------------------------------------------------
(* The polish.                                                             *)

\* A text as if it were not polished.
Unmarked(text) == [text EXCEPT !.polished = FALSE]

\* Of the same articles, said by the same speakers, and the same up to the polish.
Retells(polished, script) ==
  /\ Len(polished) = Len(script)
  /\ \A i \in 1..Len(script) :
       /\ polished[i].article = script[i].article /\ polished[i].text.of = script[i].text.of
       /\ polished[i].speaker = script[i].speaker
       /\ Unmarked(polished[i].text) = Unmarked(script[i].text)

\* Such a script has the same chapters.
LEMMA LaidAlike ==
  ASSUME NEW script \in Seq(SaidSegments), NEW polished \in Seq(SaidSegments),
         Retells(polished, script), NEW order, NEW m \in Nat, NEW s, Laid(script, order, m, s)
  PROVE  Laid(polished, order, m, s)
<1>3. Len(polished) = Len(script) BY DEF Retells
<1>1. ASSUME NEW i \in 1..Len(polished)
      PROVE  \E j \in 1..m : /\ s[j] < i /\ i <= s[j + 1]
                             /\ polished[i].article = order[j] /\ polished[i].text.of = order[j]
  <2>1. i \in 1..Len(script) /\ polished[i].article = script[i].article
        /\ polished[i].text.of = script[i].text.of
    BY <1>3 DEF Retells
  <2>2. PICK j \in 1..m : /\ s[j] < i /\ i <= s[j + 1]
                          /\ script[i].article = order[j] /\ script[i].text.of = order[j]
    BY <2>1 DEF Laid
  <2>3. QED BY <2>1, <2>2
<1>2. QED BY <1>1, <1>3 DEF Laid

\* And these are heard alike.
LEMMA HeardAlike ==
  ASSUME NEW script \in Seq(SaidSegments), NEW polished \in Seq(SaidSegments),
         Retells(polished, script), NEW order, NEW m \in Nat, NEW s, Laid(script, order, m, s), Laid(polished, order, m, s),
         NEW j \in 1..m
  PROVE  Unpolished(Spoken(ChapterPart(polished, s, j))) = Unpolished(Spoken(ChapterPart(script, s, j)))
<1> DEFINE a == ChapterPart(script, s, j)
           b == ChapterPart(polished, s, j)
           n == s[j + 1] - s[j]
<1>1. /\ s[j] \in Nat /\ s[j + 1] \in Nat /\ s[j] < s[j + 1] /\ s[j + 1] <= Len(script)
      /\ DOMAIN a = 1..n /\ \A i \in 1..n : a[i] = script[s[j] + i]
  <2>1. /\ s[j] \in Nat /\ s[j + 1] \in Nat /\ s[j] < s[j + 1] /\ s[j + 1] <= Len(script)
        /\ IsPart(a, script, s[j], s[j + 1])
    BY PartIs
  <2> HIDE DEF a
  <2>2. QED BY <2>1 DEF IsPart
<1>2. DOMAIN b = 1..n /\ \A i \in 1..n : b[i] = polished[s[j] + i]
  <2>1. IsPart(b, polished, s[j], s[j + 1]) BY PartIs
  <2> HIDE DEF b
  <2>2. QED BY <1>1, <2>1 DEF IsPart
<1>3. \A i \in 1..n : s[j] + i \in 1..Len(script) BY <1>1
<1> HIDE DEF a, b, n
<1>4. /\ Spoken(a) = [i \in 1..n |-> <<a[i].speaker, a[i].text>>]
      /\ Spoken(b) = [i \in 1..n |-> <<b[i].speaker, b[i].text>>]
  BY <1>1, <1>2 DEF Spoken
<1>5. /\ Unpolished(Spoken(a)) = [i \in 1..n |-> <<a[i].speaker, Unmarked(a[i].text)>>]
      /\ Unpolished(Spoken(b)) = [i \in 1..n |-> <<b[i].speaker, Unmarked(b[i].text)>>]
  BY <1>4 DEF Unpolished, Unmarked
<1>6. \A i \in 1..n : <<a[i].speaker, Unmarked(a[i].text)>> =
                      <<b[i].speaker, Unmarked(b[i].text)>>
  <2>1. ASSUME NEW i \in 1..n
        PROVE  <<a[i].speaker, Unmarked(a[i].text)>> =
               <<b[i].speaker, Unmarked(b[i].text)>>
    <3> DEFINE h == s[j] + i
    <3>1. h \in 1..Len(script) /\ a[i] = script[h] /\ b[i] = polished[h] BY <1>1, <1>2, <1>3
    <3> HIDE DEF h
    <3>2. /\ polished[h].speaker = script[h].speaker
          /\ Unmarked(polished[h].text) = Unmarked(script[h].text)
      BY <3>1 DEF Retells
    <3>3. QED BY <3>1, <3>2 DEF Unmarked
  <2>2. QED BY <2>1
<1>7. Unpolished(Spoken(a)) = Unpolished(Spoken(b)) BY <1>5, <1>6
<1>8. QED BY <1>7 DEF a, b

\* What becomes of a segment of which one thing is changed.
LEMMA Changes ==
  ASSUME NEW x \in SaidSegments
  PROVE  /\ \A v \in SaidTexts : [x EXCEPT !.text = v] \in SaidSegments /\ [x EXCEPT !.text = v].text = v
         /\ \A v \in Nat : /\ [x EXCEPT !.words = v] \in SaidSegments
                           /\ [x EXCEPT !.words = v].text = x.text
         /\ \A v \in Speakers : /\ [x EXCEPT !.speaker = v] \in SaidSegments
                                /\ [x EXCEPT !.speaker = v].text = x.text
                                /\ [x EXCEPT !.speaker = v].speaker = v
         /\ \A v \in Articles \cup {"none"} :
              /\ [x EXCEPT !.article = v] \in SaidSegments /\ [x EXCEPT !.article = v].text = x.text
              /\ [x EXCEPT !.article = v].speaker = x.speaker
              /\ [x EXCEPT !.article = v].article = v
<1>1. ASSUME NEW v \in SaidTexts
      PROVE  [x EXCEPT !.text = v] \in SaidSegments /\ [x EXCEPT !.text = v].text = v
  BY DEF SaidSegments
<1>2. ASSUME NEW v \in Nat
      PROVE  [x EXCEPT !.words = v] \in SaidSegments /\ [x EXCEPT !.words = v].text = x.text
  BY DEF SaidSegments
<1>3. ASSUME NEW v \in Speakers
      PROVE  /\ [x EXCEPT !.speaker = v] \in SaidSegments /\ [x EXCEPT !.speaker = v].text = x.text
             /\ [x EXCEPT !.speaker = v].speaker = v
  BY DEF SaidSegments
<1>4. ASSUME NEW v \in Articles \cup {"none"}
      PROVE  /\ [x EXCEPT !.article = v] \in SaidSegments /\ [x EXCEPT !.article = v].text = x.text
             /\ [x EXCEPT !.article = v].speaker = x.speaker
             /\ [x EXCEPT !.article = v].article = v
  BY DEF SaidSegments
<1>5. QED BY <1>1, <1>2, <1>3, <1>4

\* What is accepted of a polish differs from the original in nothing else.
LEMMA PolishKeeps ==
  ASSUME site \in Sites, work.merged \in Seq(SaidSegments), NEW answer \in Answers,
         SameIdentity(answer, work.merged)
  PROVE  LET coherent == AcceptCoherenceResult(answer, work.merged)
         IN coherent \in Seq(SaidSegments) /\ Retells(coherent, work.merged)
<1> DEFINE original == work.merged
           n == Len(original)
           coherent == AcceptCoherenceResult(answer, original)
<1>1. n \in Nat /\ DOMAIN original = 1..n /\ \A i \in 1..n : original[i] \in SaidSegments
  OBVIOUS
<1>2. PICK order \in {[i \in 1..n |-> i], Reverse([i \in 1..n |-> i]), [i \in 1..(n - 1) |-> i]},
           drifts \in BOOLEAN : answer = Answered(order, drifts)
  <2> DEFINE orders == {[i \in 1..n |-> i], Reverse([i \in 1..n |-> i]), [i \in 1..(n - 1) |-> i]}
  <2>1. Answers = {Answered(order, drifts) : order \in orders \ {<<>>}, drifts \in BOOLEAN}
    BY <1>1 DEF Answers
  <2> HIDE DEF orders
  <2>2. \E order \in orders \ {<<>>}, drifts \in BOOLEAN : answer = Answered(order, drifts) BY <2>1
  <2>3. \E order \in orders, drifts \in BOOLEAN : answer = Answered(order, drifts) BY <2>2, Zenon
  <2>4. QED BY <2>3 DEF orders
<1>3. Len(answer) = n /\ \A i \in DOMAIN answer : answer[i].index = i - 1 BY DEF SameIdentity
<1> HIDE DEF n
<1>4. /\ DOMAIN order \in {1..n, 1..(n - 1)} /\ \A i \in DOMAIN order : order[i] \in Int
      /\ Len(order) \in Nat /\ DOMAIN order = 1..Len(order)
  <2>1. CASE order = [i \in 1..n |-> i] BY <1>1, <2>1
  <2>2. CASE order = Reverse([i \in 1..n |-> i])
    <3> DEFINE up == [i \in 1..n |-> i]
    <3>1. Len(up) = n /\ \A i \in 1..n : up[i] = i BY <1>1
    <3>2. \A i \in 1..n : (n - i) + 1 \in 1..n BY <1>1
    <3> HIDE DEF up
    <3>7. order = Reverse(up) BY <2>2 DEF up
    <3>3. order = [i \in 1..n |-> up[(n - i) + 1]] BY <3>1, <3>7 DEF Reverse
    <3>4. DOMAIN order = 1..n /\ \A i \in 1..n : order[i] = (n - i) + 1 BY <3>1, <3>2, <3>3
    <3>5. order \in Seq(Int) /\ Len(order) = n
      <4>1. order \in [1..n -> Int] BY <1>1, <3>1, <3>2, <3>3
      <4>2. QED BY <1>1, <3>4, <4>1, SeqDef
    <3>6. QED BY <1>1, <3>4, <3>5
  <2>3. CASE order = [i \in 1..(n - 1) |-> i]
    <3>1. CASE n = 0
      <4>1. 1..(n - 1) = {} /\ 1..0 = {} BY <3>1
      <4>2. order = [i \in 1..0 |-> i] BY <2>3, <4>1
      <4>3. order \in [1..0 -> Nat] /\ DOMAIN order = 1..0 /\ 0 \in Nat BY <4>2
      <4>4. order \in Seq(Nat) /\ Len(order) = 0 BY <4>3, SeqDef
      <4>5. QED BY <2>3, <4>1, <4>3, <4>4
    <3>2. CASE n # 0
      <4>1. n - 1 \in Nat BY <1>1, <3>2
      <4> DEFINE q == n - 1
      <4>2. q \in Nat /\ order = [i \in 1..q |-> i] BY <2>3, <4>1
      <4> HIDE DEF q
      <4>3. DOMAIN order = 1..q /\ Len(order) = q BY <4>2
      <4>4. QED BY <4>2, <4>3 DEF q
    <3>3. QED BY <3>1, <3>2
  <2>4. QED BY <1>2, <2>1, <2>2, <2>3
<1>5. /\ DOMAIN answer = DOMAIN order
      /\ \A i \in DOMAIN order :
           /\ answer[i].index = order[i] - 1
           /\ answer[i].segment = [Polished(original[order[i]])
                                     EXCEPT !.speaker = IF drifts THEN "narration" ELSE @]
  BY <1>2 DEF Answered
<1>6. DOMAIN answer = 1..n /\ \A i \in 1..n : order[i] = i
  <2>1. Len(answer) = Len(order)
    <3>1. answer \in [1..Len(order) -> {answer[i] : i \in DOMAIN answer}]
      <4>1. answer = [i \in DOMAIN order |->
                        [index |-> order[i] - 1,
                         segment |-> [Polished(original[order[i]])
                                        EXCEPT !.speaker = IF drifts THEN "narration" ELSE @]]]
        BY <1>2 DEF Answered
      <4>2. answer = [i \in 1..Len(order) |-> answer[i]] /\ DOMAIN answer = 1..Len(order)
        BY <1>4, <4>1
      <4>3. QED BY <4>2
    <3> DEFINE B == {answer[i] : i \in DOMAIN answer}
    <3>2. answer \in [1..Len(order) -> B] /\ DOMAIN answer = 1..Len(order) BY <1>4, <1>5, <3>1
    <3> HIDE DEF B
    <3>3. QED BY <1>4, <3>2, SeqDef
  <2>2. DOMAIN answer = 1..n BY <1>3, <1>4, <1>5, <2>1
  <2>3. ASSUME NEW i \in 1..n PROVE order[i] = i
    <3>1. answer[i].index = i - 1 /\ answer[i].index = order[i] - 1 /\ order[i] \in Int
      BY <1>3, <1>4, <1>5, <2>2
    <3>2. QED BY <3>1
  <2>4. QED BY <2>2, <2>3
<1>7. site.added \in Nat BY WritingAssumption
<1>8. ASSUME NEW x \in SaidSegments, NEW y \in SaidSegments, x = y
      PROVE  LET z == [[Polished(x) EXCEPT !.speaker = IF drifts THEN "narration" ELSE @]
                         EXCEPT !.speaker = y.speaker, !.article = y.article]
             IN /\ z \in SaidSegments /\ z.article = y.article /\ z.text.of = y.text.of
                /\ z.speaker = y.speaker
                /\ Unmarked(z.text) = Unmarked(y.text)
  <2> DEFINE told == [x.text EXCEPT !.polished = TRUE]
             p1 == [x EXCEPT !.text = told]
             p2 == [p1 EXCEPT !.words = x.words + site.added]
             p3 == [p2 EXCEPT !.article = "none"]
             e == IF drifts THEN "narration" ELSE p3.speaker
             p4 == [p3 EXCEPT !.speaker = e]
             p5 == [p4 EXCEPT !.speaker = y.speaker]
             z == [p5 EXCEPT !.article = y.article]
  <2>1. x.text \in SaidTexts /\ x.words \in Nat /\ y.speaker \in Speakers /\ y.article \in Articles \cup {"none"}
    BY DEF SaidSegments
  <2>2. told \in SaidTexts /\ told.of = x.text.of /\ Unmarked(told) = Unmarked(x.text)
    BY <2>1 DEF SaidTexts, Unmarked
  <2>3. x.words + site.added \in Nat BY <1>7, <2>1
  <2>4. Polished(x) = p3 BY DEF Polished
  <2> HIDE DEF told
  <2>5. p1 \in SaidSegments /\ p1.text = told BY <2>2, Changes
  <2> HIDE DEF p1
  <2>6. p2 \in SaidSegments /\ p2.text = told BY <2>3, <2>5, Changes
  <2> HIDE DEF p2
  <2>7. p3 \in SaidSegments /\ p3.text = told BY <2>6, Changes
  <2> HIDE DEF p3
  <2>8. e \in Speakers
    <3>1. p3.speaker \in Speakers BY <2>7 DEF SaidSegments
    <3>2. "narration" \in Speakers BY DEF Speakers
    <3>3. QED BY <3>1, <3>2
  <2>9. [[Polished(x) EXCEPT !.speaker = IF drifts THEN "narration" ELSE @]
           EXCEPT !.speaker = y.speaker, !.article = y.article] = z
    BY <2>4
  <2> HIDE DEF e
  <2>10. p4 \in SaidSegments /\ p4.text = told BY <2>7, <2>8, Changes
  <2> HIDE DEF p4
  <2>11. p5 \in SaidSegments /\ p5.text = told /\ p5.speaker = y.speaker BY <2>1, <2>10, Changes
  <2> HIDE DEF p5
  <2>12. z \in SaidSegments /\ z.text = told /\ z.speaker = y.speaker /\ z.article = y.article
    BY <2>1, <2>11, Changes
  <2> HIDE DEF z
  <2>13. /\ z \in SaidSegments /\ z.article = y.article /\ z.text.of = y.text.of
         /\ z.speaker = y.speaker /\ Unmarked(z.text) = Unmarked(y.text)
    BY <1>8, <2>2, <2>12
  <2>14. QED BY <2>9, <2>13
<1>9. ASSUME NEW i \in 1..n
      PROVE  /\ coherent[i] \in SaidSegments /\ coherent[i].article = original[i].article
             /\ coherent[i].text.of = original[i].text.of
             /\ coherent[i].speaker = original[i].speaker
             /\ Unmarked(coherent[i].text) =
                  Unmarked(original[i].text)
  <2> DEFINE x == original[order[i]]
             y == original[i]
  <2>1. x \in SaidSegments /\ y \in SaidSegments /\ x = y BY <1>1, <1>6
  <2>2. coherent[i] = [answer[i].segment EXCEPT !.speaker = y.speaker, !.article = y.article]
    BY <1>1 DEF AcceptCoherenceResult
  <2>3. answer[i].segment = [Polished(x) EXCEPT !.speaker = IF drifts THEN "narration" ELSE @]
    BY <1>5, <1>6
  <2> HIDE DEF x, y, coherent
  <2> DEFINE z == [[Polished(x) EXCEPT !.speaker = IF drifts THEN "narration" ELSE @]
                     EXCEPT !.speaker = y.speaker, !.article = y.article]
  <2>4. coherent[i] = z BY <2>2, <2>3
  <2>5. /\ z \in SaidSegments /\ z.article = y.article /\ z.text.of = y.text.of
        /\ z.speaker = y.speaker
        /\ Unmarked(z.text) = Unmarked(y.text)
    BY <1>8, <2>1, Zenon
  <2> HIDE DEF z
  <2>6. /\ coherent[i] \in SaidSegments /\ coherent[i].article = y.article
        /\ coherent[i].text.of = y.text.of /\ coherent[i].speaker = y.speaker
        /\ Unmarked(coherent[i].text) = Unmarked(y.text)
    BY <2>4, <2>5
  <2>7. QED BY <2>6 DEF y
<1>10. coherent \in Seq(SaidSegments) /\ Len(coherent) = n
  <2>1. coherent = [i \in 1..n |-> coherent[i]] /\ DOMAIN coherent = 1..n
    BY <1>1 DEF AcceptCoherenceResult
  <2> HIDE DEF coherent
  <2>2. coherent \in [1..n -> SaidSegments] BY <1>9, <2>1
  <2>3. QED BY <1>1, <2>1, <2>2, SeqDef
<1>11. QED BY <1>9, <1>10 DEF n, Retells

-----------------------------------------------------------------------------
(* What the invariant says of a script that is kept, and of a prompt.      *)

\* A chapter is of an article, and marked so.
AllOf(c, a) == \A i \in DOMAIN c : c[i].article = a /\ c[i].text.of = a

LEMMA PartOf ==
  ASSUME NEW script \in Seq(SaidSegments), NEW order, NEW m \in Nat, NEW s,
         Laid(script, order, m, s), NEW j \in 1..m
  PROVE  /\ ChapterPart(script, s, j) \in Seq(SaidSegments) /\ ChapterPart(script, s, j) # <<>>
         /\ AllOf(ChapterPart(script, s, j), order[j])
<1> DEFINE c == ChapterPart(script, s, j)
<1>1. /\ s[j] \in Nat /\ s[j + 1] \in Nat /\ s[j] < s[j + 1] /\ s[j + 1] <= Len(script)
      /\ c \in Seq(SaidSegments) /\ IsPart(c, script, s[j], s[j + 1])
  BY PartIs
<1> HIDE DEF c
<1>2. DOMAIN c = 1..(s[j + 1] - s[j]) /\ \A i \in DOMAIN c : c[i] = script[s[j] + i]
  BY <1>1 DEF IsPart
<1>3. 1 \in DOMAIN c BY <1>1, <1>2
<1>4. c # <<>> BY <1>3
<1>5. ASSUME NEW i \in DOMAIN c PROVE c[i].article = order[j] /\ c[i].text.of = order[j]
  <2> DEFINE h == s[j] + i
  <2>1. h \in 1..Len(script) /\ s[j] < h /\ h <= s[j + 1] /\ c[i] = script[h] BY <1>1, <1>2
  <2> HIDE DEF h
  <2>2. script[h].article = order[j] /\ script[h].text.of = order[j] BY <2>1, Lies
  <2>3. QED BY <2>1, <2>2
<1>6. QED BY <1>1, <1>4, <1>5 DEF c, AllOf

LEMMA ArticlesInOrder ==
  /\ InOrder \in Seq(Articles) /\ Len(InOrder) \in Nat /\ 1 <= Len(InOrder)
  /\ \A k \in 1..Len(InOrder) : InOrder[k] \in Articles
<1> DEFINE n == Cardinality(Articles)
<1>1. IsFiniteSet(Articles) /\ n \in Nat BY WritingAssumption, FS_CardinalityType
<1>2. n # 0 BY <1>1, WritingAssumption, FS_EmptySet
<1>3. PICK f : f \in Bijection(1..n, Articles)
  BY <1>1, FS_NatBijection, FS_CountingElements DEF ExistsBijection
<1>4. f \in [1..n -> Articles] /\ IsInjective(f) BY <1>3 DEF Bijection, Injection, IsInjective
<1>5. InOrder \in [1..n -> Articles] BY <1>4 DEF InOrder, SetToSeq
<1> HIDE DEF n
<1>6. InOrder \in Seq(Articles) /\ Len(InOrder) = n BY <1>1, <1>5
<1>7. QED BY <1>1, <1>2, <1>6

\* The outline of a script names an article at least.
LEMMA PlanIs ==
  ASSUME NEW plan, PlanIsFull(plan)
  PROVE  /\ plan.order \in Seq(Articles) /\ Len(plan.order) \in Nat \ {0}
         /\ IsInjective(plan.order) /\ ToSet(plan.order) = Articles
         /\ DOMAIN plan.order = 1..Len(plan.order)
         /\ \A k \in 1..Len(plan.order) : plan.order[k] \in Articles
<1> DEFINE order == plan.order
           n == Len(order)
<1>1. order \in Seq(Articles) /\ IsInjective(order) /\ ToSet(order) = Articles BY DEF PlanIsFull
<1>2. n \in Nat /\ DOMAIN order = 1..n /\ \A k \in 1..n : order[k] \in Articles BY <1>1
<1>3. n # 0
  <2>1. Articles # {} BY WritingAssumption
  <2>2. PICK a \in Articles : TRUE BY <2>1
  <2>3. a \in ToSet(order) BY <1>1
  <2>4. \E k \in DOMAIN order : a = order[k] BY <2>3 DEF ToSet
  <2>5. QED BY <1>2, <2>4
<1>4. QED BY <1>1, <1>2, <1>3

\* What is kept is as KeptIsReviewed has it.
LEMMA KeptFollows ==
  ASSUME WritingIInv
  PROVE  KeptIsReviewed
<1>1. SUFFICES ASSUME work.pc = "ready"
               PROVE  /\ FlattenSeq([k \in DOMAIN work.plan.order |-> ChapterOf(work.plan.order[k])]) =
                           work.merged
                      /\ IsInjective(work.plan.order) /\ ToSet(work.plan.order) = Articles
                      /\ \A a \in Articles :
                           /\ ChapterOf(a) # <<>>
                           /\ \A i \in DOMAIN ChapterOf(a) :
                                ChapterOf(a)[i].article = a /\ ChapterOf(a)[i].text.of = a
                           /\ GroundedAs(IF site.postCritic THEN Spoken(ChapterOf(a))
                                         ELSE Unpolished(Spoken(ChapterOf(a))))
  BY DEF KeptIsReviewed
<1> DEFINE order == work.plan.order
           n == Len(order)
<1>2. /\ PlanIsFull(work.plan) /\ work.k = n + 1 /\ Chapters(work, judged)
      /\ work.pass \in {1, 2} /\ (work.pass = 2 <=> site.postCritic)
  <2>1. Stands(work, judged) BY DEF WritingIInv
  <2>2. "ready" \in Planned /\ "ready" \notin Chaptering BY DEF Planned, Chaptering
  <2>3. QED BY <1>1, <2>1, <2>2 DEF Stands
<1>3. /\ order \in Seq(Articles) /\ n \in Nat \ {0} /\ IsInjective(order) /\ ToSet(order) = Articles
      /\ DOMAIN order = 1..n
  BY <1>2, PlanIs
<1>4. work.k - 1 = n BY <1>2, <1>3
<1>5. work.merged \in Seq(SaidSegments) BY <1>2 DEF Chapters
<1>6. PICK s : Laid(work.merged, order, n, s) /\ GroundedParts(work.merged, n, s, work.pass, judged)
  BY <1>2, <1>4 DEF Chapters
<1>7. ASSUME NEW j \in 1..n PROVE ChapterOf(order[j]) = ChapterPart(work.merged, s, j)
  <2>1. n <= Len(order) BY <1>3
  <2>2. QED BY <1>3, <1>5, <1>6, <2>1, ChapterIs
<1>8. FlattenSeq([k \in DOMAIN order |-> ChapterOf(order[k])]) = work.merged
  <2>1. [k \in DOMAIN order |-> ChapterOf(order[k])] = [k \in 1..n |-> ChapterPart(work.merged, s, k)]
    BY <1>3, <1>7
  <2>2. FlattenSeq([k \in 1..n |-> ChapterPart(work.merged, s, k)]) = work.merged
    BY <1>3, <1>5, <1>6, Flattened
  <2>3. QED BY <2>1, <2>2
<1>9. ASSUME NEW a \in Articles
      PROVE  /\ ChapterOf(a) # <<>>
             /\ \A i \in DOMAIN ChapterOf(a) : ChapterOf(a)[i].article = a /\ ChapterOf(a)[i].text.of = a
             /\ GroundedAs(IF site.postCritic THEN Spoken(ChapterOf(a))
                           ELSE Unpolished(Spoken(ChapterOf(a))))
  <2>1. PICK j \in 1..n : a = order[j] BY <1>3 DEF ToSet
  <2> DEFINE c == ChapterPart(work.merged, s, j)
  <2>2. ChapterOf(a) = c BY <1>7, <2>1
  <2>3. c # <<>> /\ \A i \in DOMAIN c : c[i].article = order[j] /\ c[i].text.of = order[j]
    <3>1. c # <<>> /\ AllOf(c, order[j]) BY <1>3, <1>5, <1>6, PartOf
    <3>2. QED BY <3>1 DEF AllOf
  <2>4. FoundGrounded(Heard(Spoken(c), work.pass), judged) BY <1>6 DEF GroundedParts
  <2> HIDE DEF c
  <2>5. Heard(Spoken(c), work.pass) = IF site.postCritic THEN Spoken(c) ELSE Unpolished(Spoken(c))
    BY <1>2 DEF Heard
  <2>6. GroundedAs(IF site.postCritic THEN Spoken(c) ELSE Unpolished(Spoken(c)))
    BY <2>4, <2>5 DEF FoundGrounded, GroundedAs
  <2>7. c # <<>> /\ \A i \in DOMAIN c : c[i].article = a /\ c[i].text.of = a BY <2>1, <2>3
  <2>8. QED BY <2>2, <2>6, <2>7, Zenon
<1>10. QED BY <1>3, <1>8, <1>9

LEMMA SourceIs ==
  ASSUME site \in Sites, NEW a \in Articles
  PROVE  AsMuchAsFits(Source(a), site.content[a], site.sourceMax)
<1> DEFINE content == site.content[a]
           budget == site.sourceMax
<1>1. content \in Seq(Sentences) /\ budget \in Nat BY WritingAssumption DEF Sentences, Chars
<1>2. Source(a) = FitToTokenBudget(content, budget) BY DEF Source
<1> HIDE DEF content, budget
<1>3. AsMuchAsFits(FitToTokenBudget(content, budget), content, budget) BY <1>1, SourceFits
<1>4. QED BY <1>2, <1>3 DEF content, budget

\* A prompt says what its stage says, and there is none when nothing is asked.
LEMMA PromptIs ==
  ASSUME NEW w
  PROVE  /\ w.pc = "brief" =>
              /\ Prompt(w).stage = "brief" /\ Prompt(w).article = InOrder[w.k]
              /\ Prompt(w).source = Source(InOrder[w.k])
         /\ w.pc \in Chaptering =>
              /\ Prompt(w).stage = w.pc /\ Prompt(w).article = Subject(w)
              /\ Prompt(w).covered = w.covered
         /\ w.pc \in {"chapter", "rewrite"} =>
              /\ Prompt(w).lines = w.lines /\ Prompt(w).rag = w.rag \cap {Subject(w)}
              /\ Prompt(w).source = Source(Subject(w))
         /\ w.pc \in {"critic", "rewrite"} => Prompt(w).chapter = w.chapter
         /\ w.pc \notin Chaptering \cup {"brief"} =>
              Prompt(w).stage \notin {"brief", "chapter", "critic", "rewrite"}
<1>1. CASE w.pc = "brief"
  <2>1. Prompt(w) = StoryBriefPrompt(InOrder[w.k]) BY <1>1 DEF Prompt
  <2>2. QED BY <1>1, <2>1 DEF StoryBriefPrompt, Chaptering
<1>2. CASE w.pc = "chapter"
  <2>1. Prompt(w) = ChapterPrompt(w) BY <1>2 DEF Prompt
  <2>2. QED BY <1>2, <2>1 DEF ChapterPrompt, Chaptering
<1>3. CASE w.pc = "critic"
  <2>1. Prompt(w) = CriticPrompt(w) BY <1>3 DEF Prompt
  <2>2. QED BY <1>3, <2>1 DEF CriticPrompt, Chaptering
<1>4. CASE w.pc = "rewrite"
  <2>1. Prompt(w) = RewritePrompt(w) BY <1>4 DEF Prompt
  <2>2. QED BY <1>4, <2>1 DEF RewritePrompt, Chaptering
<1>5. CASE w.pc \notin Chaptering \cup {"brief"}
  <2>1. CASE w.pc = "outline"
    <3>1. Prompt(w) = OutlinePrompt(w) BY <2>1 DEF Prompt
    <3>2. QED BY <2>1, <3>1 DEF OutlinePrompt, Chaptering
  <2>2. CASE w.pc = "coherence"
    <3>1. Prompt(w) = CoherencePrompt(w) BY <2>2 DEF Prompt
    <3>2. Prompt(w).stage = "coherence" BY <3>1 DEF CoherencePrompt
    <3>3. QED BY <2>2, <3>2 DEF Chaptering
  <2>3. CASE w.pc \notin {"outline", "coherence"}
    <3>1. Prompt(w) = NoPrompt BY <1>5, <2>3 DEF Prompt, Chaptering
    <3>2. Prompt(w).stage = "none" BY <3>1 DEF NoPrompt
    <3>3. QED BY <1>5, <2>3, <3>2 DEF Chaptering
  <2>4. QED BY <2>1, <2>2, <2>3
<1>6. QED BY <1>1, <1>2, <1>3, <1>4, <1>5 DEF Chaptering

\* What is told is as PromptsAreCurrent has it.
LEMMA PromptsFollow ==
  ASSUME WritingIInv
  PROVE  PromptsAreCurrent
<1>1. site \in Sites /\ prompt = Prompt(work) /\ Stands(work, judged) BY DEF WritingIInv
<1> DEFINE a == Subject(work)
           k == work.k
           order == work.plan.order
<1>2. CASE work.pc \in Chaptering
  <2>1. /\ PlanIsFull(work.plan) /\ k \in 1..Len(order) /\ Chapters(work, judged)
        /\ ToSet(work.covered) = CoveredBefore(work.plan, k)
    <3>1. work.pc \in Planned BY <1>2 DEF Planned
    <3>2. PlanIsFull(work.plan) /\ k <= Len(order) /\ Chapters(work, judged) /\ k \in Nat \ {0}
      BY <1>1, <1>2, <3>1 DEF Stands
    <3>3. Len(order) \in Nat BY <3>2, PlanIs
    <3>4. ToSet(work.covered) = CoveredBefore(work.plan, k) BY <1>1, <1>2 DEF Stands
    <3>5. QED BY <3>2, <3>3, <3>4
  <2>2. /\ order \in Seq(Articles) /\ Len(order) \in Nat /\ IsInjective(order)
        /\ a = order[k] /\ a \in Articles
    BY <2>1, PlanIs DEF Subject
  <2>3. prompt.stage = work.pc /\ prompt.article = a /\ prompt.covered = work.covered
    BY <1>1, <1>2, PromptIs
  <2>4. ToSet(prompt.covered) =
          UNION {{Claim(work.plan.order[j])} \cup ToSet(work.plan.chapters[j].facts) : j \in 1..(work.k - 1)}
    BY <2>1, <2>3 DEF CoveredBefore
  <2>5. ASSUME work.pc \in {"chapter", "rewrite"}
        PROVE  /\ IF work.k = 1 THEN prompt.lines = <<>>
                  ELSE LET said == Texts(ChapterOf(work.plan.order[work.k - 1]))
                       IN IsSuffix(prompt.lines, said) /\ Len(prompt.lines) = Min({2, Len(said)})
               /\ prompt.rag \subseteq {x \in {prompt.article} : TooLong(x)}
               /\ AsMuchAsFits(prompt.source, site.content[prompt.article], site.sourceMax)
    <3>1. prompt.lines = work.lines /\ prompt.rag = work.rag \cap {a} /\ prompt.source = Source(a)
      BY <1>1, <2>5, PromptIs
    <3>2. work.rag \subseteq {x \in Articles : TooLong(x)} BY <1>1 DEF Stands
    <3>3. AsMuchAsFits(prompt.source, site.content[prompt.article], site.sourceMax)
      BY <1>1, <2>2, <2>3, <3>1, SourceIs
    <3>4. prompt.rag \subseteq {x \in {prompt.article} : TooLong(x)} BY <2>3, <3>1, <3>2
    <3>5. PICK s : /\ Laid(work.merged, order, k - 1, s)
                   /\ work.lines = IF k = 1 THEN <<>> ELSE LastLines(ChapterPart(work.merged, s, k - 1))
      BY <1>2, <2>1 DEF Chapters
    <3>6. CASE k = 1 BY <3>1, <3>3, <3>4, <3>5, <3>6
    <3>7. CASE k # 1
      <4> DEFINE c == ChapterPart(work.merged, s, k - 1)
      <4>1. k - 1 \in 1..(k - 1) /\ k - 1 \in Nat /\ k - 1 <= Len(order) BY <2>1, <3>7
      <4>2. work.merged \in Seq(SaidSegments) BY <2>1 DEF Chapters
      <4>3. ChapterOf(order[k - 1]) = c BY <2>2, <3>5, <4>1, <4>2, ChapterIs
      <4>4. c \in Seq(SaidSegments) /\ c # <<>> BY <3>5, <4>1, <4>2, PartOf
      <4>5. prompt.lines = LastLines(c) BY <3>1, <3>5, <3>7
      <4> HIDE DEF c
      <4>6. /\ IsSuffix(prompt.lines, Texts(ChapterOf(order[k - 1])))
            /\ Len(prompt.lines) = Min({2, Len(Texts(ChapterOf(order[k - 1])))})
        BY <4>3, <4>4, <4>5, LinesEnd
      <4>7. QED BY <3>3, <3>4, <3>7, <4>6
    <3>8. QED BY <3>6, <3>7
  <2>6. work.pc \in {"critic", "rewrite"} => prompt.chapter = work.chapter BY <1>1, PromptIs
  <2>7. work.pc # "brief" BY <1>2 DEF Chaptering
  <2>8. QED BY <2>2, <2>3, <2>4, <2>5, <2>6, <2>7 DEF PromptsAreCurrent
<1>3. CASE work.pc = "brief"
  <2>1. /\ prompt.stage = "brief" /\ prompt.article = InOrder[k] /\ prompt.source = Source(InOrder[k])
    BY <1>1, <1>3, PromptIs
  <2>2. InOrder[k] \in Articles
    <3>1. k \in 1..Len(InOrder) BY <1>1, <1>3, ArticlesInOrder DEF Stands
    <3>2. QED BY <3>1, ArticlesInOrder
  <2>3. AsMuchAsFits(prompt.source, site.content[prompt.article], site.sourceMax)
    BY <1>1, <2>1, <2>2, SourceIs
  <2>4. QED BY <2>1, <2>3 DEF PromptsAreCurrent
<1>4. CASE work.pc \notin Chaptering \cup {"brief"}
  <2>1. prompt.stage \notin {"brief", "chapter", "critic", "rewrite"} BY <1>1, <1>4, PromptIs
  <2>2. QED BY <2>1 DEF PromptsAreCurrent
<1>5. QED BY <1>2, <1>3, <1>4

-----------------------------------------------------------------------------
(* A step: where the generation goes on, the prompt is that of what is     *)
(* next.                                                                   *)

LEMMA SameSource ==
  ASSUME site' = site
  PROVE  \A a : Source(a)' = Source(a)
BY DEF Source

LEMMA SamePrompt ==
  ASSUME NEW w, work' = w, site' = site
  PROVE  Prompt(work)' = Prompt(w)
<1>1. \A n : ChapterLimits(n)' = ChapterLimits(n) BY DEF ChapterLimits
<1>2. \A a : Source(a)' = Source(a) BY SameSource
<1>3. StoryBriefPrompt(InOrder[work.k])' = StoryBriefPrompt(InOrder[w.k])
  BY <1>2 DEF StoryBriefPrompt
<1>4. OutlinePrompt(work)' = OutlinePrompt(w) BY DEF OutlinePrompt
<1>5. ChapterPrompt(work)' = ChapterPrompt(w) BY <1>1, <1>2 DEF ChapterPrompt
<1>6. CriticPrompt(work)' = CriticPrompt(w) BY DEF CriticPrompt
<1>7. RewritePrompt(work)' = RewritePrompt(w) BY <1>2 DEF RewritePrompt
<1>8. CoherencePrompt(work)' = CoherencePrompt(w) BY DEF CoherencePrompt
<1>9. QED BY <1>3, <1>4, <1>5, <1>6, <1>7, <1>8 DEF Prompt

LEMMA SameStands ==
  ASSUME NEW w, NEW seen, work' = w, site' = site, judged' = seen, Stands(w, seen)
  PROVE  Stands(work, judged)'
<1>1. \A a : TooLong(a)' = TooLong(a) BY DEF TooLong
<1>2. QED BY <1>1 DEF Stands

LEMMA GotoKeeps ==
  ASSUME site \in Sites, NEW w, NEW seen, Goto(w), judged' = seen, Stands(w, seen)
  PROVE  WritingIInv'
<1>1. work' = w /\ site' = site /\ prompt' = Prompt(w) BY DEF Goto
<1>2. Prompt(work)' = Prompt(w) BY <1>1, SamePrompt
<1>3. Stands(work, judged)' BY <1>1, SameStands
<1>4. QED BY <1>1, <1>2, <1>3 DEF WritingIInv

LEMMA FailStands ==
  ASSUME NEW w, NEW seen, Stands(w, seen)
  PROVE  Stands([w EXCEPT !.pc = "failed"], seen)
<1> DEFINE v == [w EXCEPT !.pc = "failed"]
<1>1. DOMAIN w = DOMAIN Work BY DEF Stands
<1>2. /\ DOMAIN v = DOMAIN Work /\ v.pc = "failed" /\ v.k = w.k /\ v.takes = w.takes
      /\ v.pass = w.pass /\ v.rag = w.rag
  BY <1>1 DEF Work
<1> HIDE DEF v
<1>3. Stands(v, seen) BY <1>2 DEF Stands, WritingStages, Planned, Chaptering
<1>4. QED BY <1>3 DEF v

\* What was found before is found still.
LEMMA SeenMore ==
  ASSUME NEW w, NEW seen, NEW more, seen \subseteq more, Stands(w, seen)
  PROVE  Stands(w, more)
<1>1. \A spoken : FoundGrounded(spoken, seen) => FoundGrounded(spoken, more) BY DEF FoundGrounded
<1>2. \A script, m, s, pass : GroundedParts(script, m, s, pass, seen) => GroundedParts(script, m, s, pass, more)
  BY <1>1 DEF GroundedParts
<1>3. Chapters(w, seen) => Chapters(w, more) BY <1>2 DEF Chapters
<1>4. QED BY <1>3 DEF Stands

LEMMA FailGoes ==
  ASSUME WritingIInv, Fail, judged \subseteq judged'
  PROVE  WritingIInv'
<1> DEFINE seen == judged'
           w == [work EXCEPT !.pc = "failed"]
<1>1. site \in Sites /\ Stands(work, judged) BY DEF WritingIInv
<1>2. Stands(work, seen)
  <2> HIDE DEF seen
  <2>1. judged \subseteq seen BY DEF seen
  <2>2. QED BY <1>1, <2>1, SeenMore
<1>3. Stands(w, seen)
  <2> HIDE DEF seen
  <2>1. QED BY <1>2, FailStands
<1>4. Goto(w) BY DEF Fail
<1> HIDE DEF seen, w
<1>5. judged' = seen BY DEF seen
<1>6. QED BY <1>1, <1>3, <1>4, <1>5, GotoKeeps

\* A brief of the article that is next.
LEMMA StoryBriefKeeps ==
  ASSUME WritingIInv, StoryBrief
  PROVE  WritingIInv'
<1>1. site \in Sites /\ Stands(work, judged) BY DEF WritingIInv
<1> DEFINE a == InOrder[work.k]
<1>2. PICK found \in BOOLEAN, named \in site.briefed :
        LET next == [work EXCEPT !.k = @ + 1, !.briefs = Append(@, a),
                                 !.rag = IF TooLong(a) /\ found THEN @ \cup {a} ELSE @]
        IN /\ At("brief")
           /\ TooLong(a) \/ ~found
           /\ IF named # "its own" /\ named # a THEN Fail
              ELSE Goto(IF next.k <= Len(InOrder) THEN next
                        ELSE [next EXCEPT !.pc = "outline", !.k = 1])
           /\ UNCHANGED judged
  BY DEF StoryBrief
<1> DEFINE rag == IF TooLong(a) /\ found THEN work.rag \cup {a} ELSE work.rag
           next == [work EXCEPT !.k = @ + 1, !.briefs = Append(@, a), !.rag = rag]
           last == [next EXCEPT !.pc = "outline", !.k = 1]
<1>3. /\ work.pc = "brief" /\ judged' = judged
      /\ Fail \/ Goto(IF next.k <= Len(InOrder) THEN next ELSE last)
  BY <1>2 DEF At
<1>4. /\ DOMAIN work = DOMAIN Work /\ work.k \in Nat \ {0} /\ work.takes \in Nat /\ work.pass = 1
      /\ work.merged = <<>> /\ work.lengths = <<>> /\ work.covered = <<>> /\ work.lines = <<>>
      /\ work.rag \subseteq {x \in Articles : TooLong(x)} /\ work.k <= Len(InOrder)
  BY <1>1, <1>3 DEF Stands
<1>5. a \in Articles
  <2>1. work.k \in 1..Len(InOrder) BY <1>4, ArticlesInOrder
  <2>2. QED BY <2>1, ArticlesInOrder
<1>6. rag \subseteq {x \in Articles : TooLong(x)} BY <1>4, <1>5
<1> HIDE DEF rag, a
<1>7. /\ DOMAIN next = DOMAIN Work /\ next.pc = "brief" /\ next.k = work.k + 1 /\ next.takes = work.takes
      /\ next.pass = 1 /\ next.merged = <<>> /\ next.lengths = <<>> /\ next.covered = <<>>
      /\ next.lines = <<>> /\ next.rag = rag
  BY <1>3, <1>4 DEF Work
<1> HIDE DEF next
<1>8. /\ DOMAIN last = DOMAIN Work /\ last.pc = "outline" /\ last.k = 1 /\ last.takes = work.takes
      /\ last.pass = 1 /\ last.merged = <<>> /\ last.lengths = <<>> /\ last.covered = <<>>
      /\ last.lines = <<>> /\ last.rag = rag
  BY <1>7 DEF Work
<1> HIDE DEF last
<1>9. CASE Fail BY <1>3, <1>9, FailGoes
<1>10. CASE Goto(IF next.k <= Len(InOrder) THEN next ELSE last)
  <2>1. CASE next.k <= Len(InOrder)
    <3>1. next.k \in Nat \ {0} BY <1>4, <1>7
    <3>2. Stands(next, judged)
      BY <1>4, <1>6, <1>7, <2>1, <3>1 DEF Stands, WritingStages, Planned, Chaptering
    <3>3. Goto(next) BY <1>10, <2>1
    <3>4. QED BY <1>1, <1>3, <3>2, <3>3, GotoKeeps
  <2>2. CASE ~ (next.k <= Len(InOrder))
    <3>1. Stands(last, judged) BY <1>4, <1>6, <1>8 DEF Stands, WritingStages, Planned, Chaptering
    <3>2. Goto(last) BY <1>10, <2>2
    <3>3. QED BY <1>1, <1>3, <3>1, <3>2, GotoKeeps
  <2>3. QED BY <2>1, <2>2
<1>11. QED BY <1>3, <1>9, <1>10

\* No chapters yet.
NoPlaces == [x \in 1..1 |-> 0]

LEMMA NothingLaid ==
  ASSUME NEW order
  PROVE  Laid(<<>>, order, 0, NoPlaces) /\ <<>> \in Seq(SaidSegments) /\ Measures(<<>>, 0, NoPlaces)
<1>1. /\ NoPlaces \in [1..(0 + 1) -> Nat] /\ NoPlaces[1] = 0 /\ NoPlaces[0 + 1] = 0
      /\ \A i, j \in 1..(0 + 1) : ~ (i < j)
  BY DEF NoPlaces
<1>2. Len(<<>>) = 0 /\ 1..0 = {} /\ <<>> \in Seq(SaidSegments) /\ <<>> \in Seq(Nat)
  OBVIOUS
<1>3. Laid(<<>>, order, 0, NoPlaces) BY <1>1, <1>2 DEF Laid
<1>4. Measures(<<>>, 0, NoPlaces) BY <1>1, <1>2 DEF Measures
<1>5. QED BY <1>2, <1>3, <1>4

LEMMA NothingCovered ==
  ASSUME NEW plan
  PROVE  Itemised(<<>>) /\ ToSet(<<>>) = CoveredBefore(plan, 1)
<1>1. ToSet(<<>>) = {} BY DEF ToSet
<1>2. <<>> \in Seq(ToSet(<<>>))
  OBVIOUS
<1>3. 1..(1 - 1) = {}
  OBVIOUS
<1>4. CoveredBefore(plan, 1) = {} BY <1>3 DEF CoveredBefore
<1>5. QED BY <1>1, <1>2, <1>4 DEF Itemised

\* The first chapter of a round.
LEMMA RoundBegins ==
  ASSUME NEW w, NEW seen, w.merged = <<>>, w.k = 1, w.lines = <<>>, w.pass = 1 => w.lengths = <<>>
  PROVE  Chapters(w, seen)
<1>1. w.k - 1 = 0 /\ 1..0 = {}
  OBVIOUS
<1>2. /\ Laid(w.merged, w.plan.order, w.k - 1, NoPlaces) /\ w.merged \in Seq(SaidSegments)
      /\ w.pass = 1 => Measures(w.lengths, w.k - 1, NoPlaces)
  BY <1>1, NothingLaid
<1>3. GroundedParts(w.merged, w.k - 1, NoPlaces, w.pass, seen) BY <1>1 DEF GroundedParts
<1>4. QED BY <1>2, <1>3 DEF Chapters

\* An outline is accepted.
LEMMA OutlineKeeps ==
  ASSUME WritingIInv, EpisodeOutline
  PROVE  WritingIInv'
<1>1. site \in Sites /\ Stands(work, judged) BY DEF WritingIInv
<1>2. PICK outline \in site.outlines :
        /\ At("outline")
        /\ IF ~OrderMatchesChapters(outline) \/ ToSet(outline.order) # Articles THEN Fail
           ELSE Goto([work EXCEPT !.pc = "chapter", !.plan = outline])
        /\ UNCHANGED judged
  BY DEF EpisodeOutline
<1> DEFINE v == [work EXCEPT !.pc = "chapter", !.plan = outline]
<1>3. work.pc = "outline" /\ judged' = judged BY <1>2 DEF At
<1>4. CASE ~OrderMatchesChapters(outline) \/ ToSet(outline.order) # Articles
  BY <1>2, <1>3, <1>4, FailGoes
<1>5. CASE OrderMatchesChapters(outline) /\ ToSet(outline.order) = Articles
  <2>1. Goto(v) BY <1>2, <1>5
  <2>2. /\ DOMAIN work = DOMAIN Work /\ work.k = 1 /\ work.takes \in Nat /\ work.pass = 1
        /\ work.merged = <<>> /\ work.lengths = <<>> /\ work.covered = <<>> /\ work.lines = <<>>
        /\ work.rag \subseteq {x \in Articles : TooLong(x)}
    BY <1>1, <1>3 DEF Stands
  <2>3. /\ DOMAIN v = DOMAIN Work /\ v.pc = "chapter" /\ v.plan = outline /\ v.k = 1
        /\ v.takes = work.takes /\ v.pass = 1 /\ v.merged = <<>> /\ v.lengths = <<>>
        /\ v.covered = <<>> /\ v.lines = <<>> /\ v.rag = work.rag
    BY <2>2 DEF Work
  <2> HIDE DEF v
  <2>4. PlanIsFull(outline)
    <3>1. /\ Itemised(outline.order)
          /\ \A k \in DOMAIN outline.chapters : Itemised(outline.chapters[k].facts)
      BY <1>1, WritingAssumption
    <3>2. outline.order \in Seq(Articles) BY <1>5, <3>1 DEF Itemised
    <3>3. IsInjective(outline.order) /\ DOMAIN outline.chapters = DOMAIN outline.order
      <4>1. [k \in DOMAIN outline.chapters |-> outline.chapters[k].article] = outline.order
        BY <1>5 DEF OrderMatchesChapters
      <4>2. DOMAIN [k \in DOMAIN outline.chapters |-> outline.chapters[k].article] = DOMAIN outline.chapters
        OBVIOUS
      <4>3. QED BY <1>5, <4>1, <4>2 DEF OrderMatchesChapters
    <3>4. QED BY <1>5, <3>1, <3>2, <3>3 DEF PlanIsFull
  <2>5. Len(outline.order) \in Nat /\ 1 <= Len(outline.order) BY <2>4, PlanIs
  <2>6. Chapters(v, judged) BY <2>3, RoundBegins
  <2>7. Itemised(v.covered) /\ ToSet(v.covered) = CoveredBefore(v.plan, v.k) BY <2>3, NothingCovered
  <2>8. Stands(v, judged)
    BY <2>2, <2>3, <2>4, <2>5, <2>6, <2>7 DEF Stands, WritingStages, Planned, Chaptering
  <2>9. QED BY <1>1, <1>3, <2>1, <2>8, GotoKeeps
<1>6. QED BY <1>4, <1>5

-----------------------------------------------------------------------------
(* A chapter at hand.                                                      *)

LEMMA WrittenIs ==
  ASSUME site \in Sites, NEW draft \in site.drafts, NEW a \in Articles, NEW take \in Nat
  PROVE  /\ Written(draft, a, take) \in Seq(SaidSegments) \ {<<>>}
         /\ \A i \in DOMAIN Written(draft, a, take) :
              /\ Written(draft, a, take)[i].text.of = a
              /\ ~Written(draft, a, take)[i].text.polished
<1> DEFINE Lines == [speaker : Speakers, says : Nat, words : Nat]
           n == Len(draft)
           c == Written(draft, a, take)
<1>1. draft \in Seq(Lines) /\ draft # <<>> BY WritingAssumption
<1>2. n \in Nat /\ n # 0 /\ DOMAIN draft = 1..n /\ \A i \in 1..n : draft[i] \in Lines
  <2> HIDE DEF Lines
  <2>1. QED BY <1>1, EmptySeq
<1>3. c = [i \in 1..n |-> Segment(draft[i].speaker, Text(a, draft[i].says, take), draft[i].words, "none")]
  BY <1>2 DEF Written
<1> HIDE DEF n, c
<1>4. ASSUME NEW x \in Lines
      PROVE  LET y == Segment(x.speaker, Text(a, x.says, take), x.words, "none")
             IN y \in SaidSegments /\ y.text.of = a /\ ~y.text.polished
  <2>1. x.speaker \in Speakers /\ x.says \in Nat /\ x.words \in Nat
    OBVIOUS
  <2>2. /\ Text(a, x.says, take) \in SaidTexts /\ Text(a, x.says, take).of = a
        /\ ~Text(a, x.says, take).polished
    BY <2>1 DEF Text, SaidTexts
  <2>3. QED BY <2>1, <2>2 DEF Segment, SaidSegments
<1> HIDE DEF Lines
<1>5. ASSUME NEW i \in 1..n
      PROVE  c[i] \in SaidSegments /\ c[i].text.of = a /\ ~c[i].text.polished
  <2> DEFINE x == draft[i]
             y == Segment(x.speaker, Text(a, x.says, take), x.words, "none")
  <2>1. x \in Lines BY <1>2
  <2>2. c[i] = y BY <1>3
  <2> HIDE DEF x
  <2>3. y \in SaidSegments /\ y.text.of = a /\ ~y.text.polished BY <1>4, <2>1
  <2> HIDE DEF y
  <2>4. QED BY <2>2, <2>3
<1>6. DOMAIN c = 1..n BY <1>3
<1>7. c \in [1..n -> SaidSegments] BY <1>3, <1>5, <1>6
<1>8. c \in Seq(SaidSegments) /\ Len(c) = n BY <1>2, <1>6, <1>7, SeqDef
<1>9. c # <<>> BY <1>2, <1>8
<1>10. QED BY <1>5, <1>6, <1>8, <1>9 DEF c

\* While a chapter is at hand nothing of what was collected changes.
LEMMA StaysChaptering ==
  ASSUME NEW w, NEW seen, Stands(w, seen), w.pc \in Chaptering, NEW v,
         DOMAIN v = DOMAIN Work, v.pc \in {"critic", "rewrite"}, v.k = w.k, v.takes \in Nat,
         v.pass = w.pass, v.rag = w.rag, v.plan = w.plan, v.merged = w.merged,
         v.lengths = w.lengths, v.lines = w.lines, v.coherent = w.coherent,
         v.covered = w.covered, AtHand(v)
  PROVE  Stands(v, seen)
<1>1. w.pc \in Planned /\ v.pc \in Planned /\ v.pc \in Chaptering BY DEF Planned, Chaptering
<1>2. Chapters(w, seen) /\ (w.pass = 2 => PolishedWhole(w)) BY <1>1 DEF Stands
<1>3. Chapters(v, seen) BY <1>1, <1>2 DEF Chapters
<1>4. v.pass = 2 => PolishedWhole(v) BY <1>2 DEF PolishedWhole
<1>5. Itemised(v.covered) /\ ToSet(v.covered) = CoveredBefore(v.plan, v.k) BY DEF Stands
<1>6. PlanIsFull(v.plan) /\ v.k <= Len(v.plan.order) BY <1>1 DEF Stands
<1>7. /\ v.k \in Nat \ {0} /\ v.pass \in {1, 2} /\ v.rag \subseteq {a \in Articles : TooLong(a)}
      /\ (v.pass = 2 => site.postCritic)
  BY DEF Stands
<1>8. v.pc \in WritingStages /\ v.pc \notin {"brief", "outline", "chapter", "coherence", "validate", "ready"}
  BY DEF WritingStages, Planned, Chaptering
<1>9. QED BY <1>1, <1>3, <1>4, <1>5, <1>6, <1>7, <1>8 DEF Stands

LEMMA SubjectIs ==
  ASSUME NEW w, NEW seen, Stands(w, seen), w.pc \in Chaptering
  PROVE  /\ Subject(w) \in Articles /\ w.k \in 1..Len(w.plan.order) /\ Len(w.plan.order) \in Nat \ {0}
         /\ Subject(w) = w.plan.order[w.k] /\ w.takes \in Nat
<1>1. w.pc \in Planned BY DEF Planned
<1>2. PlanIsFull(w.plan) /\ w.k <= Len(w.plan.order) /\ w.k \in Nat \ {0} /\ w.takes \in Nat
  BY <1>1 DEF Stands
<1>3. Len(w.plan.order) \in Nat \ {0} /\ \A k \in 1..Len(w.plan.order) : w.plan.order[k] \in Articles
  BY <1>2, PlanIs
<1>4. QED BY <1>2, <1>3 DEF Subject

LEMMA DraftKeeps ==
  ASSUME WritingIInv, Draft
  PROVE  WritingIInv'
<1>1. site \in Sites /\ Stands(work, judged) BY DEF WritingIInv
<1>2. PICK draft \in site.drafts :
        /\ At("chapter")
        /\ Goto([work EXCEPT !.pc = "critic", !.takes = @ + 1, !.retries = 0,
                             !.chapter = Written(draft, Subject(work), work.takes + 1)])
        /\ UNCHANGED judged
  BY DEF Draft
<1> DEFINE c == Written(draft, Subject(work), work.takes + 1)
           v == [work EXCEPT !.pc = "critic", !.takes = @ + 1, !.retries = 0, !.chapter = c]
<1>3. work.pc = "chapter" /\ work.pc \in Chaptering /\ judged' = judged /\ Goto(v)
  BY <1>2 DEF At, Chaptering
<1>4. Subject(work) \in Articles /\ work.takes + 1 \in Nat /\ DOMAIN work = DOMAIN Work
  <2>1. Subject(work) \in Articles /\ work.takes \in Nat BY <1>1, <1>3, SubjectIs
  <2>2. DOMAIN work = DOMAIN Work BY <1>1 DEF Stands
  <2>3. QED BY <2>1, <2>2
<1>5. c \in Seq(SaidSegments) \ {<<>>} /\ \A i \in DOMAIN c : c[i].text.of = Subject(work) /\ ~c[i].text.polished
  BY <1>1, <1>4, WrittenIs
<1> HIDE DEF c
<1>6. /\ DOMAIN v = DOMAIN Work /\ v.pc = "critic" /\ v.k = work.k /\ v.takes = work.takes + 1
      /\ v.pass = work.pass /\ v.rag = work.rag /\ v.plan = work.plan /\ v.merged = work.merged
      /\ v.lengths = work.lengths /\ v.lines = work.lines /\ v.coherent = work.coherent
      /\ v.covered = work.covered /\ v.chapter = c
  BY <1>4 DEF Work
<1> HIDE DEF v
<1>7. Subject(v) = Subject(work) BY <1>6 DEF Subject
<1>8. AtHand(v) BY <1>5, <1>6, <1>7 DEF AtHand
<1>9. v.takes \in Nat /\ v.pc \in {"critic", "rewrite"} BY <1>4, <1>6
<1>10. Stands(v, judged) BY <1>1, <1>3, <1>6, <1>8, <1>9, StaysChaptering
<1>11. QED BY <1>1, <1>3, <1>10, GotoKeeps

LEMMA RewriteKeeps ==
  ASSUME WritingIInv, Rewrite
  PROVE  WritingIInv'
<1>1. site \in Sites /\ Stands(work, judged) BY DEF WritingIInv
<1>2. PICK draft \in site.drafts : At("rewrite") /\ Goto(Rewritten(work, draft)) /\ UNCHANGED judged
  BY DEF Rewrite
<1> DEFINE c == Written(draft, Subject(work), work.takes + 1)
           u == [work EXCEPT !.pc = "critic", !.takes = @ + 1, !.chapter = c]
           v == [u EXCEPT !.retries = @ + 1]
<1>3. work.pc = "rewrite" /\ work.pc \in Chaptering /\ judged' = judged /\ Goto(v)
  BY <1>2 DEF At, Chaptering, Rewritten, RewrittenUncounted
<1>4. Subject(work) \in Articles /\ work.takes + 1 \in Nat /\ DOMAIN work = DOMAIN Work
  <2>1. Subject(work) \in Articles /\ work.takes \in Nat BY <1>1, <1>3, SubjectIs
  <2>2. DOMAIN work = DOMAIN Work BY <1>1 DEF Stands
  <2>3. QED BY <2>1, <2>2
<1>5. c \in Seq(SaidSegments) \ {<<>>} /\ \A i \in DOMAIN c : c[i].text.of = Subject(work) /\ ~c[i].text.polished
  BY <1>1, <1>4, WrittenIs
<1> HIDE DEF c
<1>6. /\ DOMAIN u = DOMAIN Work /\ u.pc = "critic" /\ u.k = work.k /\ u.takes = work.takes + 1
      /\ u.pass = work.pass /\ u.rag = work.rag /\ u.plan = work.plan /\ u.merged = work.merged
      /\ u.lengths = work.lengths /\ u.lines = work.lines /\ u.coherent = work.coherent
      /\ u.covered = work.covered /\ u.chapter = c
  BY <1>4 DEF Work
<1> HIDE DEF u
<1>7. /\ DOMAIN v = DOMAIN Work /\ v.pc = "critic" /\ v.k = work.k /\ v.takes = work.takes + 1
      /\ v.pass = work.pass /\ v.rag = work.rag /\ v.plan = work.plan /\ v.merged = work.merged
      /\ v.lengths = work.lengths /\ v.lines = work.lines /\ v.coherent = work.coherent
      /\ v.covered = work.covered /\ v.chapter = c
  BY <1>6 DEF Work
<1> HIDE DEF v
<1>8. Subject(v) = Subject(work) BY <1>7 DEF Subject
<1>9. AtHand(v) BY <1>5, <1>7, <1>8 DEF AtHand
<1>10. v.takes \in Nat /\ v.pc \in {"critic", "rewrite"} BY <1>4, <1>7
<1>11. Stands(v, judged) BY <1>1, <1>3, <1>7, <1>9, <1>10, StaysChaptering
<1>12. QED BY <1>1, <1>3, <1>11, GotoKeeps

-----------------------------------------------------------------------------
(* A request that fails, and the last word.                                *)

LEMMA FaultKeeps ==
  ASSUME WritingIInv, NEW fault \in WritingFaults, RequestFails(fault)
  PROVE  WritingIInv'
<1>1. site \in Sites /\ Stands(work, judged) /\ prompt = Prompt(work) BY DEF WritingIInv
<1>2. CASE Again(fault)
  <2>1. site' = site /\ work' = work /\ prompt' = prompt /\ judged' = judged
    BY <1>2 DEF RequestFails
  <2>2. Prompt(work)' = Prompt(work) BY <2>1, SamePrompt
  <2>3. Stands(work, judged)' BY <1>1, <2>1, SameStands
  <2>4. QED BY <1>1, <2>1, <2>2, <2>3 DEF WritingIInv
<1>3. CASE ~Again(fault)
  <2> DEFINE w == [work EXCEPT !.pc = "failed"]
  <2>1. site' = site /\ work' = w /\ prompt' = NoPrompt /\ judged' = judged BY <1>3 DEF RequestFails
  <2>2. Stands(w, judged) BY <1>1, FailStands
  <2>3. w.pc = "failed" BY <1>1 DEF Stands, Work
  <2> HIDE DEF w
  <2>4. Prompt(work)' = Prompt(w) BY <2>1, SamePrompt
  <2>5. Prompt(w) = NoPrompt BY <2>3 DEF Prompt
  <2>6. Stands(work, judged)' BY <2>1, <2>2, SameStands
  <2>7. QED BY <1>1, <2>1, <2>4, <2>5, <2>6 DEF WritingIInv
<1>4. QED BY <1>2, <1>3

LEMMA NonsenseKeeps ==
  ASSUME WritingIInv, SchemaInvalid
  PROVE  WritingIInv'
<1>1. Fail /\ judged \subseteq judged' BY DEF SchemaInvalid
<1>2. QED BY <1>1, FailGoes

LEMMA ValidateKeeps ==
  ASSUME WritingIInv, Validate
  PROVE  WritingIInv'
<1>1. site \in Sites /\ Stands(work, judged) BY DEF WritingIInv
<1> DEFINE good == [work EXCEPT !.pc = "ready"]
           bad == [work EXCEPT !.pc = "failed"]
<1>2. work.pc = "validate" /\ judged' = judged /\ (Goto(good) \/ Goto(bad))
  <2>1. Goto([work EXCEPT !.pc = IF Valid(work.merged) THEN "ready" ELSE "failed"]) BY DEF Validate
  <2>2. CASE Valid(work.merged) BY <2>1, <2>2 DEF Validate, At
  <2>3. CASE ~Valid(work.merged) BY <2>1, <2>3 DEF Validate, At
  <2>4. QED BY <2>2, <2>3
<1>3. CASE Goto(bad)
  <2>1. Stands(bad, judged) BY <1>1, FailStands
  <2> HIDE DEF bad
  <2>2. QED BY <1>1, <1>2, <1>3, <2>1, GotoKeeps
<1>4. CASE Goto(good)
  <2>1. DOMAIN work = DOMAIN Work BY <1>1 DEF Stands
  <2>2. /\ DOMAIN good = DOMAIN Work /\ good.pc = "ready" /\ good.k = work.k /\ good.takes = work.takes
        /\ good.pass = work.pass /\ good.rag = work.rag /\ good.plan = work.plan
        /\ good.merged = work.merged /\ good.lengths = work.lengths /\ good.lines = work.lines
        /\ good.coherent = work.coherent
    BY <2>1 DEF Work
  <2> HIDE DEF good
  <2>3. /\ "validate" \in Planned /\ "ready" \in Planned /\ "validate" \notin Chaptering
        /\ "ready" \notin Chaptering /\ "ready" \in WritingStages
    BY DEF Planned, Chaptering, WritingStages
  <2>4. /\ PlanIsFull(work.plan) /\ work.k = Len(work.plan.order) + 1 /\ Chapters(work, judged)
        /\ work.pass = 2 => PolishedWhole(work)
    BY <1>1, <1>2, <2>3 DEF Stands
  <2>5. Chapters(good, judged) BY <1>2, <2>2, <2>3, <2>4 DEF Chapters
  <2>6. good.pass = 2 => PolishedWhole(good) BY <2>2, <2>4 DEF PolishedWhole
  <2>7. /\ good.k \in Nat \ {0} /\ good.takes \in Nat /\ good.pass \in {1, 2}
        /\ good.rag \subseteq {a \in Articles : TooLong(a)}
        /\ (good.pass = 2 => site.postCritic) /\ (site.postCritic => good.pass = 2)
    BY <1>1, <1>2, <2>2 DEF Stands
  <2>8. Stands(good, judged) BY <2>2, <2>3, <2>4, <2>5, <2>6, <2>7 DEF Stands
  <2>9. QED BY <1>1, <1>2, <1>4, <2>8, GotoKeeps
<1>5. QED BY <1>2, <1>3, <1>4

-----------------------------------------------------------------------------
(* A chapter is accepted.                                                  *)

\* In the first round the segments of a chapter are not polished.
LEMMA HeardFirst ==
  ASSUME NEW c \in Seq(SaidSegments), \A i \in DOMAIN c : ~c[i].text.polished
  PROVE  Unpolished(Spoken(c)) = Spoken(c)
<1>1. Spoken(c) = [i \in DOMAIN c |-> <<c[i].speaker, c[i].text>>] BY DEF Spoken
<1>2. Unpolished(Spoken(c)) = [i \in DOMAIN c |-> <<c[i].speaker, [c[i].text EXCEPT !.polished = FALSE]>>]
  BY <1>1 DEF Unpolished
<1>3. ASSUME NEW i \in DOMAIN c PROVE [c[i].text EXCEPT !.polished = FALSE] = c[i].text
  <2> DEFINE x == c[i].text
  <2>1. c[i] \in SaidSegments
    OBVIOUS
  <2>2. x \in SaidTexts /\ x.polished = FALSE BY <2>1 DEF SaidSegments, SaidTexts
  <2> HIDE DEF x
  <2>3. [x EXCEPT !.polished = FALSE] = x BY <2>2 DEF SaidTexts
  <2>4. QED BY <2>3 DEF x
<1>4. QED BY <1>1, <1>2, <1>3

LEMMA CoveredMore ==
  ASSUME NEW plan, NEW k \in Nat \ {0}, NEW covered, Itemised(covered),
         ToSet(covered) = CoveredBefore(plan, k), Itemised(plan.chapters[k].facts),
         NEW more, more = covered \o Append(plan.chapters[k].facts, Claim(plan.order[k]))
  PROVE  Itemised(more) /\ ToSet(more) = CoveredBefore(plan, k + 1)
<1> DEFINE facts == plan.chapters[k].facts
           claim == Claim(plan.order[k])
           F == ToSet(facts)
           D == ToSet(covered)
           A == D \cup F \cup {claim}
           new == Append(facts, claim)
<1>1. facts \in Seq(F) /\ covered \in Seq(D) BY DEF Itemised
<1> HIDE DEF facts, claim, D
<1>2. F = {facts[i] : i \in DOMAIN facts} /\ D = {covered[i] : i \in DOMAIN covered} BY DEF ToSet, D
<1> HIDE DEF F
<1>3. facts \in Seq(A) /\ covered \in Seq(A) /\ claim \in A
  <2>1. F \subseteq A /\ D \subseteq A /\ claim \in A
    OBVIOUS
  <2> HIDE DEF A
  <2>2. QED BY <1>1, <2>1
<1> HIDE DEF A
<1>4. /\ new \in Seq(A) /\ Len(new) = Len(facts) + 1 /\ Len(facts) \in Nat
      /\ \A i \in 1..Len(facts) : new[i] = facts[i]
      /\ new[Len(facts) + 1] = claim
  BY <1>3
<1>5. ToSet(new) = F \cup {claim}
  <2>1. DOMAIN new = 1..(Len(facts) + 1) /\ DOMAIN facts = 1..Len(facts) BY <1>3, <1>4
  <2> HIDE DEF new
  <2>2. \A i \in 1..(Len(facts) + 1) : i \in 1..Len(facts) \/ i = Len(facts) + 1 BY <1>4
  <2>3. \A i \in 1..Len(facts) : i \in 1..(Len(facts) + 1) BY <1>4
  <2>4. Len(facts) + 1 \in 1..(Len(facts) + 1) BY <1>4
  <2> DEFINE n == Len(facts)
             l == n + 1
  <2> HIDE DEF n, l
  <2>5. /\ DOMAIN new = 1..l /\ DOMAIN facts = 1..n
        /\ \A i \in 1..l : i \in 1..n \/ i = l
        /\ \A i \in 1..n : i \in 1..l /\ new[i] = facts[i]
        /\ l \in 1..l /\ new[l] = claim
    BY <1>4, <2>1, <2>2, <2>3, <2>4 DEF n, l
  <2>6. ToSet(new) = {new[i] : i \in 1..l} BY <2>5 DEF ToSet
  <2>7. F = {facts[i] : i \in 1..n} BY <1>2, <2>5
  <2>8. QED BY <2>5, <2>6, <2>7
<1>6. ToSet(covered \o new) = D \cup ToSet(new) /\ covered \o new \in Seq(A)
  <2> HIDE DEF new
  <2> DEFINE n == Len(covered)
             m == Len(new)
             both == covered \o new
  <2>1. /\ both \in Seq(A) /\ Len(both) = Len(covered) + Len(new)
        /\ \A i \in 1..(Len(covered) + Len(new)) :
             both[i] = IF i <= Len(covered) THEN covered[i] ELSE new[i - Len(covered)]
    BY <1>3, <1>4, ConcatProperties, Zenon
  <2>2. n \in Nat /\ m \in Nat /\ DOMAIN covered = 1..n /\ DOMAIN new = 1..m BY <1>3, <1>4
  <2>3. DOMAIN both = 1..(n + m) BY <2>1
  <2> HIDE DEF n, m, both
  <2>4. \A i \in 1..n : i \in 1..(n + m) /\ both[i] = covered[i] BY <2>1, <2>2 DEF n, m
  <2>5. \A i \in 1..m : n + i \in 1..(n + m) /\ both[n + i] = new[i]
    <3>1. ASSUME NEW i \in 1..m PROVE n + i \in 1..(n + m) /\ both[n + i] = new[i]
      <4>1. n + i \in 1..(n + m) /\ ~ (n + i <= n) /\ (n + i) - n = i BY <2>2
      <4>2. both[n + i] = IF n + i <= n THEN covered[n + i] ELSE new[(n + i) - n]
        BY <2>1, <4>1 DEF n, m
      <4>3. QED BY <4>1, <4>2
    <3>2. QED BY <3>1
  <2>6. \A i \in 1..(n + m) : i \in 1..n \/ \E j \in 1..m : i = n + j
    <3>1. ASSUME NEW i \in 1..(n + m), i \notin 1..n PROVE \E j \in 1..m : i = n + j
      <4>1. i - n \in 1..m /\ i = n + (i - n) BY <2>2, <3>1
      <4>2. QED BY <4>1
    <3>2. QED BY <3>1
  <2>7. ToSet(both) = {both[i] : i \in 1..(n + m)} /\ ToSet(new) = {new[i] : i \in 1..m}
    BY <2>2, <2>3 DEF ToSet
  <2>8. D = {covered[i] : i \in 1..n} BY <1>2, <2>2
  <2>9. ToSet(both) = D \cup ToSet(new)
    <3>1. ASSUME NEW x \in ToSet(both) PROVE x \in D \cup ToSet(new)
      <4>1. PICK i \in 1..(n + m) : x = both[i] BY <2>7
      <4>2. QED BY <2>4, <2>5, <2>6, <2>7, <2>8, <4>1
    <3>2. ASSUME NEW x \in D PROVE x \in ToSet(both) BY <2>4, <2>7, <2>8
    <3>3. ASSUME NEW x \in ToSet(new) PROVE x \in ToSet(both)
      <4>1. PICK i \in 1..m : x = new[i] BY <2>7
      <4>2. n + i \in 1..(n + m) /\ x = both[n + i] BY <2>5, <4>1
      <4>3. QED BY <2>7, <4>2
    <3>4. QED BY <3>1, <3>2, <3>3
  <2>10. QED BY <2>1, <2>9 DEF both
<1>7. more = covered \o new BY DEF facts, claim
<1>8. ToSet(more) = A BY <1>5, <1>6, <1>7 DEF A
<1>9. Itemised(more) BY <1>6, <1>7, <1>8 DEF Itemised
<1>10. CoveredBefore(plan, k + 1) = D \cup ({claim} \cup F)
  <2> DEFINE G(j) == {Claim(plan.order[j])} \cup ToSet(plan.chapters[j].facts)
  <2>1. CoveredBefore(plan, k + 1) = UNION {G(j) : j \in 1..((k + 1) - 1)} BY DEF CoveredBefore
  <2>2. CoveredBefore(plan, k) = UNION {G(j) : j \in 1..(k - 1)} BY DEF CoveredBefore
  <2>3. G(k) = {claim} \cup F BY DEF claim, F, facts
  <2>4. 1..((k + 1) - 1) = 1..(k - 1) \cup {k}
    OBVIOUS
  <2> HIDE DEF G
  <2>5. D = CoveredBefore(plan, k) BY DEF D
  <2>6. CoveredBefore(plan, k + 1) = (UNION {G(j) : j \in 1..(k - 1)}) \cup G(k) BY <2>1, <2>4
  <2>7. QED BY <2>2, <2>3, <2>5, <2>6
<1>11. QED BY <1>8, <1>9, <1>10 DEF A

\* The chapter at hand joins those accepted.
LEMMA AcceptedIs ==
  ASSUME NEW w, NEW seen, Stands(w, seen), w.pc = "critic",
         NEW verdict, ~verdict.unsupported, verdict.language, <<Spoken(w.chapter), verdict>> \in seen,
         NEW u, u = Accepted(w, verdict)
  PROVE  /\ DOMAIN u = DOMAIN Work /\ u.pc = "critic" /\ u.k = w.k + 1 /\ u.takes = w.takes
         /\ u.pass = w.pass /\ u.rag = w.rag /\ u.plan = w.plan /\ u.coherent = w.coherent
         /\ u.pass = 2 => u.lengths = w.lengths
         /\ Chapters(u, seen) /\ Itemised(u.covered) /\ ToSet(u.covered) = CoveredBefore(u.plan, u.k)
<1> DEFINE order == w.plan.order
           k == w.k
           m == k - 1
           chapter == w.chapter
           a == Subject(w)
           c == Owned(chapter, a)
           facts == Chapter(w).facts
           lengths == IF w.pass = 1 THEN Append(w.lengths, Len(w.chapter)) ELSE w.lengths
           more == w.covered \o Append(facts, Claim(a))
<1>1. w.pc \in Chaptering /\ w.pc \in Planned BY DEF Chaptering, Planned
<1>2. /\ DOMAIN w = DOMAIN Work /\ PlanIsFull(w.plan) /\ Chapters(w, seen) /\ w.pass \in {1, 2}
      /\ Itemised(w.covered) /\ ToSet(w.covered) = CoveredBefore(w.plan, k) /\ AtHand(w)
  BY <1>1 DEF Stands
<1>3. /\ a \in Articles /\ k \in 1..Len(order) /\ Len(order) \in Nat \ {0} /\ a = order[k]
  BY <1>1, SubjectIs
<1>4. /\ chapter \in Seq(SaidSegments) /\ chapter # <<>>
      /\ \A i \in DOMAIN chapter : chapter[i].text.of = a /\ (w.pass = 1 => ~chapter[i].text.polished)
  BY <1>2 DEF AtHand
<1>5. /\ c \in Seq(SaidSegments) /\ Len(c) = Len(chapter) /\ DOMAIN c = 1..Len(chapter)
      /\ \A i \in 1..Len(chapter) : c[i].article = a /\ c[i].text = chapter[i].text
      /\ Spoken(c) = Spoken(chapter) /\ c # <<>> /\ LastLines(c) = LastLines(chapter)
  BY <1>3, <1>4, OwnedIs, LinesOwned
<1>6. /\ DOMAIN u = DOMAIN Work /\ u.pc = "critic" /\ u.k = k + 1 /\ u.takes = w.takes
      /\ u.pass = w.pass /\ u.rag = w.rag /\ u.plan = w.plan /\ u.coherent = w.coherent
      /\ u.merged = w.merged \o c /\ u.lengths = lengths /\ u.lines = LastLines(chapter)
      /\ u.covered = more
  <2> HIDE DEF c, lengths, more
  <2>1. u = [w EXCEPT !.merged = @ \o c, !.lengths = lengths, !.critics = Append(@, verdict),
                      !.previous = w.chapter[1].text.take, !.lines = LastLines(w.chapter),
                      !.covered = more, !.k = @ + 1, !.chapter = <<>>, !.critic = NoVerdict]
    BY DEF Accepted, c, lengths, more
  <2>2. QED BY <1>2, <2>1 DEF Work
<1>7. PICK s : /\ Laid(w.merged, order, m, s) /\ GroundedParts(w.merged, m, s, w.pass, seen)
               /\ w.pass = 1 => Measures(w.lengths, m, s)
  BY <1>2 DEF Chapters
<1>8. w.merged \in Seq(SaidSegments) BY <1>2 DEF Chapters
<1>9. m \in Nat /\ m + 1 = k /\ m + 2 = k + 1 /\ (k + 1) - 1 = k BY <1>3
<1> DEFINE t == Longer(s, m, Len(w.merged) + Len(c))
           both == w.merged \o c
<1> HIDE DEF c, a, k, order, m, lengths, more, facts
<1>10. AllMarked(c, a) /\ a = order[m + 1]
  <2>1. a = order[m + 1] BY <1>3, <1>9
  <2>2. Len(c) = Len(chapter) /\ \A i \in 1..Len(chapter) : c[i].article = a /\ c[i].text = chapter[i].text
    BY <1>5
  <2>3. \A i \in 1..Len(chapter) : chapter[i].text.of = a BY <1>4
  <2>4. QED BY <2>1, <2>2, <2>3 DEF AllMarked
<1>11. /\ both \in Seq(SaidSegments) /\ Laid(both, order, m + 1, t)
       /\ \A j \in 1..m : /\ t[j + 1] = s[j + 1] /\ t[j] = s[j]
                          /\ ChapterPart(both, t, j) = ChapterPart(w.merged, s, j)
       /\ ChapterPart(both, t, m + 1) = c
       /\ t[m + 2] = t[m + 1] + Len(c)
  <2> DEFINE z == t
  <2>1. z = Longer(s, m, Len(w.merged) + Len(c))
    OBVIOUS
  <2> HIDE DEF z
  <2> DEFINE script == w.merged
  <2>2. script \in Seq(SaidSegments) /\ Laid(script, order, m, s) BY <1>7, <1>8
  <2>3. z = Longer(s, m, Len(script) + Len(c)) BY <2>1
  <2> HIDE DEF script
  <2>4. /\ script \o c \in Seq(SaidSegments) /\ Laid(script \o c, order, m + 1, z)
        /\ Grown(script, script \o c, m, s, z)
        /\ ChapterPart(script \o c, z, m + 1) = c
        /\ z[m + 2] = z[m + 1] + Len(c)
    <3>1. m \in Nat /\ c \in Seq(SaidSegments) /\ c # <<>> /\ a = order[m + 1] /\ AllMarked(c, a)
      BY <1>3, <1>5, <1>9, <1>10
    <3>2. QED BY ONLY <3>1, <2>2, <2>3, Grow
  <2>5. QED BY <2>4 DEF z, script, Grown
<1> HIDE DEF both, t
<1>12. GroundedParts(both, k, t, w.pass, seen)
  <2>1. FoundGrounded(Heard(Spoken(c), w.pass), seen)
    <3>1. Heard(Spoken(c), w.pass) = Spoken(chapter)
      <4>1. CASE w.pass = 2 BY <1>5, <4>1 DEF Heard
      <4>2. CASE w.pass = 1
        <5>1. \A i \in DOMAIN chapter : ~chapter[i].text.polished BY <1>4, <4>2
        <5>2. Unpolished(Spoken(chapter)) = Spoken(chapter) BY <1>4, <5>1, HeardFirst
        <5>3. QED BY <1>5, <4>2, <5>2 DEF Heard
      <4>3. QED BY <1>2, <4>1, <4>2
    <3>2. FoundGrounded(Spoken(chapter), seen) BY DEF FoundGrounded
    <3>3. QED BY <3>1, <3>2
  <2>2. ASSUME NEW j \in 1..k PROVE FoundGrounded(Heard(Spoken(ChapterPart(both, t, j)), w.pass), seen)
    <3>1. CASE j = k BY <1>9, <1>11, <2>1, <3>1
    <3>2. CASE j # k
      <4>1. j \in 1..m BY <1>3, <1>9, <3>2
      <4>2. QED BY <1>7, <1>11, <4>1 DEF GroundedParts
    <3>3. QED BY <3>1, <3>2
  <2>3. QED BY <2>2 DEF GroundedParts
<1>13. w.pass = 1 => Measures(u.lengths, k, t)
  <2>1. SUFFICES ASSUME w.pass = 1 PROVE Measures(u.lengths, k, t)
    OBVIOUS
  <2> DEFINE l == Append(w.lengths, Len(c))
  <2>2. u.lengths = l BY <1>5, <1>6, <2>1 DEF lengths
  <2>3. w.lengths \in Seq(Nat) /\ Len(w.lengths) = m /\ \A j \in 1..m : s[j + 1] = s[j] + w.lengths[j]
    BY <1>7, <2>1 DEF Measures
  <2>4. Len(c) \in Nat BY <1>5
  <2>5. /\ l \in Seq(Nat) /\ Len(l) = m + 1 /\ \A j \in 1..m : l[j] = w.lengths[j]
        /\ l[m + 1] = Len(c)
    BY <1>9, <2>3, <2>4
  <2> HIDE DEF l
  <2>6. ASSUME NEW j \in 1..k PROVE t[j + 1] = t[j] + l[j]
    <3>1. CASE j = k BY <1>9, <1>11, <2>5, <3>1
    <3>2. CASE j # k
      <4>1. j \in 1..m BY <1>3, <1>9, <3>2
      <4>2. t[j + 1] = s[j + 1] /\ t[j] = s[j] /\ l[j] = w.lengths[j] /\ s[j + 1] = s[j] + w.lengths[j]
        BY <1>11, <2>3, <2>5, <4>1
      <4>3. QED BY <4>2
    <3>3. QED BY <3>1, <3>2
  <2>7. QED BY <1>9, <2>2, <2>5, <2>6 DEF Measures
<1>14. Chapters(u, seen)
  <2>1. u.merged = both /\ u.k - 1 = k /\ u.plan.order = order BY <1>6, <1>9 DEF both, order
  <2>2. u.k # 1 BY <1>3, <1>6
  <2>3. u.lines = IF u.k = 1 THEN <<>> ELSE LastLines(ChapterPart(u.merged, t, u.k - 1))
    BY <1>5, <1>6, <1>9, <1>11, <2>1, <2>2
  <2>4. Laid(u.merged, u.plan.order, u.k - 1, t) /\ u.merged \in Seq(SaidSegments)
    BY <1>9, <1>11, <2>1
  <2>5. GroundedParts(u.merged, u.k - 1, t, u.pass, seen) BY <1>6, <1>12, <2>1
  <2>6. u.pass = 1 => Measures(u.lengths, u.k - 1, t) BY <1>6, <1>13, <2>1
  <2>7. QED BY <2>3, <2>4, <2>5, <2>6 DEF Chapters
<1>15. Itemised(u.covered) /\ ToSet(u.covered) = CoveredBefore(u.plan, u.k)
  <2> DEFINE plan == w.plan
             covered == w.covered
  <2>1. Itemised(plan.chapters[k].facts)
    <3>1. k \in DOMAIN plan.chapters
      <4>1. DOMAIN plan.chapters = DOMAIN plan.order /\ DOMAIN plan.order = 1..Len(plan.order)
        BY <1>2, PlanIs DEF PlanIsFull
      <4>2. QED BY <1>3, <4>1 DEF order
    <3>2. QED BY <1>2, <3>1 DEF PlanIsFull
  <2>2. more = covered \o Append(plan.chapters[k].facts, Claim(plan.order[k]))
    BY <1>3 DEF more, facts, Chapter, k, order
  <2>3. k \in Nat \ {0} /\ Itemised(covered) /\ ToSet(covered) = CoveredBefore(plan, k)
    BY <1>2, <1>3
  <2> HIDE DEF plan, covered
  <2>4. Itemised(more) /\ ToSet(more) = CoveredBefore(plan, k + 1) BY <2>1, <2>2, <2>3, CoveredMore
  <2>5. QED BY <1>6, <2>4 DEF plan
<1>16. u.pass = 2 => u.lengths = w.lengths BY <1>6 DEF lengths
<1>17. QED BY <1>6, <1>14, <1>15, <1>16 DEF k

\* From there the generation goes on.
LEMMA OnwardStands ==
  ASSUME NEW u, NEW seen, DOMAIN u = DOMAIN Work, u.k \in Nat \ {0}, u.takes \in Nat, u.pass \in {1, 2},
         u.rag \subseteq {a \in Articles : TooLong(a)}, u.pass = 2 => site.postCritic,
         PlanIsFull(u.plan), u.k <= Len(u.plan.order) + 1,
         u.pass = 2 => PolishedWhole(u),
         Itemised(u.covered), ToSet(u.covered) = CoveredBefore(u.plan, u.k),
         \A v : /\ v.k = u.k /\ v.pass = u.pass /\ v.merged = u.merged /\ v.lengths = u.lengths
                /\ v.lines = u.lines /\ v.plan = u.plan
                => Chapters(v, seen)
  PROVE  Stands(Onward(u), seen)
<1> DEFINE n == Len(u.plan.order)
<1>1. n \in Nat \ {0} BY PlanIs
<1>2. /\ "chapter" \in Chaptering /\ "critic" \in Chaptering /\ "coherence" \notin Chaptering
      /\ "validate" \notin Chaptering
      /\ \A pc \in {"chapter", "critic", "coherence", "validate"} : pc \in Planned /\ pc \in WritingStages
  BY DEF Chaptering, Planned, WritingStages
<1>3. HasChapters(u) <=> u.k <= n BY DEF HasChapters
<1>4. CASE u.k <= n /\ u.pass = 1
  <2> DEFINE v == [u EXCEPT !.pc = "chapter"]
  <2>1. Onward(u) = v BY <1>3, <1>4 DEF Onward
  <2>2. /\ DOMAIN v = DOMAIN Work /\ v.pc = "chapter" /\ v.k = u.k /\ v.takes = u.takes
        /\ v.pass = 1 /\ v.rag = u.rag /\ v.plan = u.plan /\ v.merged = u.merged
        /\ v.lengths = u.lengths /\ v.lines = u.lines /\ v.covered = u.covered
    BY <1>4 DEF Work
  <2> HIDE DEF v
  <2>3. Chapters(v, seen) BY <1>4, <2>2
  <2>4. Stands(v, seen) BY <1>2, <1>4, <2>2, <2>3 DEF Stands
  <2>5. QED BY <2>1, <2>4
<1>5. CASE u.k <= n /\ u.pass = 2
  <2> DEFINE c == Slice(u)
             v == [u EXCEPT !.pc = "critic", !.chapter = c, !.retries = 0]
  <2>1. Onward(u) = v BY <1>3, <1>5 DEF Onward
  <2>2. /\ PolishedWhole(u) /\ u.k \in 1..n /\ n \in Nat BY <1>1, <1>5
  <2>3. PICK s : Laid(u.coherent, u.plan.order, n, s) /\ Measures(u.lengths, n, s)
    BY <2>2 DEF PolishedWhole
  <2>4. s \in [1..(n + 1) -> Nat] /\ s[1] = 0 BY <2>3 DEF Laid
  <2>5. c = ChapterPart(u.coherent, s, u.k)
    <3> HIDE DEF n
    <3>1. QED BY <2>2, <2>3, <2>4, SliceIs
  <2>6. u.coherent \in Seq(SaidSegments) BY <2>2 DEF PolishedWhole
  <2> DEFINE part == ChapterPart(u.coherent, s, u.k)
  <2>7. /\ part \in Seq(SaidSegments) /\ part # <<>>
        /\ \A i \in DOMAIN part : part[i].text.of = u.plan.order[u.k]
    <3> DEFINE script == u.coherent
               order == u.plan.order
               k == u.k
    <3>1. script \in Seq(SaidSegments) /\ Laid(script, order, n, s) /\ k \in 1..n /\ n \in Nat
      BY <2>2, <2>3, <2>6
    <3> HIDE DEF script, order, k, n
    <3>2. /\ ChapterPart(script, s, k) \in Seq(SaidSegments) /\ ChapterPart(script, s, k) # <<>>
          /\ AllOf(ChapterPart(script, s, k), order[k])
      BY <3>1, PartOf
    <3>3. QED BY <3>2 DEF script, order, k, AllOf
  <2> HIDE DEF c, part
  <2>8. c = part BY <2>5 DEF part
  <2>9. /\ DOMAIN v = DOMAIN Work /\ v.pc = "critic" /\ v.k = u.k /\ v.takes = u.takes
        /\ v.pass = 2 /\ v.rag = u.rag /\ v.plan = u.plan /\ v.merged = u.merged
        /\ v.lengths = u.lengths /\ v.lines = u.lines /\ v.covered = u.covered
        /\ v.coherent = u.coherent /\ v.chapter = c
    BY <1>5 DEF Work
  <2> HIDE DEF v
  <2>10. Chapters(v, seen) BY <1>5, <2>9
  <2>11. PolishedWhole(v) BY <2>2, <2>9 DEF PolishedWhole
  <2>12. AtHand(v) BY <2>7, <2>8, <2>9 DEF AtHand, Subject
  <2>13. Stands(v, seen) BY <1>2, <1>5, <2>9, <2>10, <2>11, <2>12 DEF Stands
  <2>14. QED BY <2>1, <2>13
<1>6. CASE ~ (u.k <= n)
  <2>1. u.k = n + 1 BY <1>1, <1>6
  <2> DEFINE next == IF u.pass = 1 THEN "coherence" ELSE "validate"
             v == [u EXCEPT !.pc = next]
  <2>2. Onward(u) = v
    <3>1. CASE u.pass = 1 BY <1>3, <1>6, <3>1 DEF Onward
    <3>2. CASE u.pass = 2 BY <1>3, <1>6, <3>2 DEF Onward
    <3>3. QED BY <3>1, <3>2
  <2> HIDE DEF next
  <2>3. /\ DOMAIN v = DOMAIN Work /\ v.pc = next /\ v.k = u.k /\ v.takes = u.takes
        /\ v.pass = u.pass /\ v.rag = u.rag /\ v.plan = u.plan /\ v.merged = u.merged
        /\ v.lengths = u.lengths /\ v.lines = u.lines /\ v.covered = u.covered
        /\ v.coherent = u.coherent
    BY DEF Work
  <2> HIDE DEF v
  <2>4. /\ next \in {"coherence", "validate"} /\ (next = "coherence" => u.pass = 1)
        /\ (next = "validate" => u.pass = 2)
    BY DEF next
  <2>5. next \notin Chaptering /\ next \in Planned /\ next \in WritingStages BY <1>2, <2>4
  <2>6. Chapters(v, seen) BY <2>3
  <2>7. v.pass = 2 => PolishedWhole(v) BY <2>3 DEF PolishedWhole
  <2>8. Stands(v, seen) BY <2>1, <2>3, <2>4, <2>5, <2>6, <2>7 DEF Stands
  <2>9. QED BY <2>2, <2>8
<1>7. QED BY <1>4, <1>5, <1>6

\* After a chapter that is accepted.
LEMMA AcceptedStands ==
  ASSUME NEW w, NEW seen, Stands(w, seen), w.pc = "critic",
         NEW verdict, ~verdict.unsupported, verdict.language, <<Spoken(w.chapter), verdict>> \in seen
  PROVE  Stands(Onward(Accepted(w, verdict)), seen)
<1> DEFINE u == Accepted(w, verdict)
<1>1. w.pc \in Chaptering /\ w.pc \in Planned /\ "critic" \in Chaptering BY DEF Chaptering, Planned
<1>2. /\ PlanIsFull(w.plan) /\ w.pass \in {1, 2} /\ (w.pass = 2 => site.postCritic)
      /\ w.rag \subseteq {a \in Articles : TooLong(a)} /\ (w.pass = 2 => PolishedWhole(w))
  BY <1>1 DEF Stands
<1>3. /\ w.k \in 1..Len(w.plan.order) /\ Len(w.plan.order) \in Nat \ {0} /\ w.takes \in Nat
  BY <1>1, SubjectIs
<1>4. /\ DOMAIN u = DOMAIN Work /\ u.pc = "critic" /\ u.k = w.k + 1 /\ u.takes = w.takes
      /\ u.pass = w.pass /\ u.rag = w.rag /\ u.plan = w.plan /\ u.coherent = w.coherent
      /\ (u.pass = 2 => u.lengths = w.lengths)
      /\ Chapters(u, seen) /\ Itemised(u.covered) /\ ToSet(u.covered) = CoveredBefore(u.plan, u.k)
  BY AcceptedIs
<1> HIDE DEF u
<1>5. u.k \in Nat \ {0} /\ u.k <= Len(u.plan.order) + 1 BY <1>3, <1>4
<1>6. u.pass = 2 => PolishedWhole(u)
  <2>1. ASSUME u.pass = 2 PROVE PolishedWhole(u)
    <3>1. PolishedWhole(w) /\ u.lengths = w.lengths /\ u.coherent = w.coherent /\ u.plan = w.plan
      BY <1>2, <1>4, <2>1
    <3>2. QED BY <3>1 DEF PolishedWhole
  <2>2. QED BY <2>1
<1>7. ASSUME NEW v, v.k = u.k, v.pass = u.pass, v.merged = u.merged, v.lengths = u.lengths,
             v.lines = u.lines, v.plan = u.plan
      PROVE  Chapters(v, seen)
  <2>1. u.pc \in Chaptering BY <1>1, <1>4
  <2>2. QED BY <1>4, <1>7, <2>1 DEF Chapters
<1>8. /\ u.takes \in Nat /\ u.pass \in {1, 2} /\ u.rag \subseteq {a \in Articles : TooLong(a)}
      /\ (u.pass = 2 => site.postCritic) /\ PlanIsFull(u.plan)
  BY <1>2, <1>3, <1>4
<1>9. Stands(Onward(u), seen) BY <1>4, <1>5, <1>6, <1>7, <1>8, OnwardStands
<1>10. QED BY <1>9 DEF u

LEMMA CritiqueKeeps ==
  ASSUME WritingIInv, Critique
  PROVE  WritingIInv'
<1>1. site \in Sites /\ Stands(work, judged) BY DEF WritingIInv
<1>2. PICK verdict \in site.verdicts :
        LET exhausted == work.retries >= site.retries
        IN /\ At("critic")
           /\ judged' = judged \cup {<<Spoken(work.chapter), verdict>>}
           /\ IF CriticPasses(verdict) \/ (exhausted /\ CriticIsGrounded(verdict))
              THEN Goto(Onward(Accepted(work, verdict)))
              ELSE IF exhausted THEN Fail
              ELSE Goto([work EXCEPT !.pc = "rewrite", !.critic = verdict])
  BY DEF Critique
<1> DEFINE seen == judged \cup {<<Spoken(work.chapter), verdict>>}
           v == [work EXCEPT !.pc = "rewrite", !.critic = verdict]
<1>3. work.pc = "critic" /\ judged' = seen /\ work.pc \in Chaptering BY <1>2 DEF At, Chaptering
<1>4. judged \subseteq seen /\ <<Spoken(work.chapter), verdict>> \in seen
  OBVIOUS
<1>5. \/ CriticIsGrounded(verdict) /\ Goto(Onward(Accepted(work, verdict)))
      \/ Fail
      \/ Goto(v)
  BY <1>2 DEF CriticPasses, CriticIsGrounded
<1> HIDE DEF seen
<1>6. Stands(work, seen) BY <1>1, <1>4, SeenMore
<1>7. CASE CriticIsGrounded(verdict) /\ Goto(Onward(Accepted(work, verdict)))
  <2>1. ~verdict.unsupported /\ verdict.language BY <1>7 DEF CriticIsGrounded
  <2>2. Stands(Onward(Accepted(work, verdict)), seen) BY <1>3, <1>4, <1>6, <2>1, AcceptedStands
  <2>3. QED BY <1>1, <1>3, <1>7, <2>2, GotoKeeps
<1>8. CASE Fail BY <1>3, <1>4, <1>8, FailGoes
<1>9. CASE Goto(v)
  <2>1. DOMAIN work = DOMAIN Work /\ AtHand(work) /\ work.takes \in Nat BY <1>1, <1>3 DEF Stands
  <2>2. /\ DOMAIN v = DOMAIN Work /\ v.pc = "rewrite" /\ v.k = work.k /\ v.takes = work.takes
        /\ v.pass = work.pass /\ v.rag = work.rag /\ v.plan = work.plan /\ v.merged = work.merged
        /\ v.lengths = work.lengths /\ v.lines = work.lines /\ v.coherent = work.coherent
        /\ v.covered = work.covered /\ v.chapter = work.chapter
    BY <2>1 DEF Work
  <2> HIDE DEF v
  <2>3. Subject(v) = Subject(work) BY <2>2 DEF Subject
  <2>4. AtHand(v) BY <2>1, <2>2, <2>3 DEF AtHand
  <2>5. v.takes \in Nat /\ v.pc \in {"critic", "rewrite"} BY <2>1, <2>2
  <2>6. Stands(v, seen) BY <1>3, <1>6, <2>2, <2>4, <2>5, StaysChaptering
  <2>7. QED BY <1>1, <1>3, <1>9, <2>6, GotoKeeps
<1>10. QED BY <1>5, <1>7, <1>8, <1>9

-----------------------------------------------------------------------------
(* The polish of the whole.                                                *)

\* What the polish leaves of the first round.
LEMMA PolishLeaves ==
  ASSUME site \in Sites, NEW seen, Stands(work, seen), work.pc = "coherence",
         NEW answer \in Answers, SameIdentity(answer, work.merged),
         NEW coherent, coherent = AcceptCoherenceResult(answer, work.merged)
  PROVE  /\ coherent \in Seq(SaidSegments)
         /\ \E s : /\ Laid(coherent, work.plan.order, Len(work.plan.order), s)
                   /\ Measures(work.lengths, Len(work.plan.order), s)
                   /\ GroundedParts(coherent, Len(work.plan.order), s, 1, seen)
<1> DEFINE order == work.plan.order
           n == Len(order)
<1>1. work.pc \in Planned /\ work.pc \notin Chaptering BY DEF Planned, Chaptering
<1>2. PlanIsFull(work.plan) /\ work.k = n + 1 /\ Chapters(work, seen) /\ work.pass = 1
  BY <1>1 DEF Stands
<1>3. n \in Nat \ {0} BY <1>2, PlanIs
<1>4. work.k - 1 = n
  <2> HIDE DEF n
  <2>1. QED BY <1>2, <1>3
<1>5. work.merged \in Seq(SaidSegments) BY <1>2 DEF Chapters
<1>6. coherent \in Seq(SaidSegments) /\ Retells(coherent, work.merged) BY <1>5, PolishKeeps
<1> HIDE DEF n
<1>7. PICK s : /\ Laid(work.merged, order, n, s) /\ Measures(work.lengths, n, s)
               /\ GroundedParts(work.merged, n, s, 1, seen)
  BY <1>2, <1>4 DEF Chapters
<1> HIDE DEF order
<1>8. Laid(coherent, order, n, s) BY <1>3, <1>5, <1>6, <1>7, LaidAlike
<1>9. GroundedParts(coherent, n, s, 1, seen)
  <2>1. ASSUME NEW j \in 1..n
        PROVE  FoundGrounded(Heard(Spoken(ChapterPart(coherent, s, j)), 1), seen)
    <3>1. Unpolished(Spoken(ChapterPart(coherent, s, j))) = Unpolished(Spoken(ChapterPart(work.merged, s, j)))
      BY <1>3, <1>5, <1>6, <1>7, <1>8, HeardAlike
    <3>2. FoundGrounded(Heard(Spoken(ChapterPart(work.merged, s, j)), 1), seen)
      BY <1>7 DEF GroundedParts
    <3>3. QED BY <3>1, <3>2 DEF Heard
  <2>2. QED BY <2>1 DEF GroundedParts
<1>10. QED BY <1>6, <1>7, <1>8, <1>9 DEF order, n

LEMMA CoherenceKeeps ==
  ASSUME WritingIInv, Coherence
  PROVE  WritingIInv'
<1>1. site \in Sites /\ Stands(work, judged) BY DEF WritingIInv
<1>2. PICK answer \in Answers :
        LET coherent == AcceptCoherenceResult(answer, work.merged)
        IN /\ At("coherence")
           /\ IF ~SameIdentity(answer, work.merged) THEN Fail
              ELSE IF ~site.postCritic
              THEN Goto([work EXCEPT !.pc = "validate", !.coherent = coherent, !.merged = coherent])
              ELSE Goto(Onward(Fresh([work EXCEPT !.coherent = coherent])))
           /\ UNCHANGED judged
  BY DEF Coherence
<1> DEFINE coherent == AcceptCoherenceResult(answer, work.merged)
           n == Len(work.plan.order)
           v == [work EXCEPT !.pc = "validate", !.coherent = coherent, !.merged = coherent]
           x == [work EXCEPT !.coherent = coherent]
<1>3. work.pc = "coherence" /\ judged' = judged BY <1>2 DEF At
<1>4. CASE ~SameIdentity(answer, work.merged) BY <1>2, <1>3, <1>4, FailGoes
<1>5. CASE SameIdentity(answer, work.merged)
  <2>1. /\ ~site.postCritic => Goto(v)
        /\ site.postCritic => Goto(Onward(Fresh(x)))
    BY <1>2, <1>5
  <2>2. /\ coherent \in Seq(SaidSegments)
        /\ \E s : /\ Laid(coherent, work.plan.order, n, s) /\ Measures(work.lengths, n, s)
                  /\ GroundedParts(coherent, n, s, 1, judged)
    BY <1>1, <1>3, <1>5, PolishLeaves
  <2> HIDE DEF coherent
  <2>3. /\ "coherence" \in Planned /\ "validate" \in Planned /\ "coherence" \notin Chaptering
        /\ "validate" \notin Chaptering /\ "validate" \in WritingStages
    BY DEF Planned, Chaptering, WritingStages
  <2>4. /\ DOMAIN work = DOMAIN Work /\ PlanIsFull(work.plan) /\ work.k = n + 1 /\ work.pass = 1
        /\ work.takes \in Nat /\ work.k \in Nat \ {0} /\ work.rag \subseteq {a \in Articles : TooLong(a)}
    BY <1>1, <1>3, <2>3 DEF Stands
  <2>5. n \in Nat \ {0} BY <2>4, PlanIs
  <2>6. CASE ~site.postCritic
    <3>1. /\ DOMAIN v = DOMAIN Work /\ v.pc = "validate" /\ v.k = work.k /\ v.takes = work.takes
          /\ v.pass = 1 /\ v.rag = work.rag /\ v.plan = work.plan /\ v.merged = coherent
          /\ v.lengths = work.lengths
      BY <2>4 DEF Work
    <3> HIDE DEF v
    <3>2. v.plan.order = work.plan.order /\ v.k - 1 = n
      <4> HIDE DEF n
      <4>1. QED BY <2>4, <2>5, <3>1
    <3>3. Chapters(v, judged)
      <4> HIDE DEF n
      <4>1. QED BY <2>2, <2>3, <3>1, <3>2 DEF Chapters
    <3>4. Stands(v, judged) BY <2>3, <2>4, <2>6, <3>1, <3>3 DEF Stands
    <3>5. QED BY <1>1, <1>3, <2>1, <2>6, <3>4, GotoKeeps
  <2>7. CASE site.postCritic
    <3> DEFINE y == Stale(x)
               u == Fresh(x)
    <3>1. /\ DOMAIN x = DOMAIN Work /\ x.takes = work.takes /\ x.rag = work.rag /\ x.plan = work.plan
          /\ x.coherent = coherent /\ x.lengths = work.lengths
      BY <2>4 DEF Work
    <3> HIDE DEF x
    <3>2. /\ DOMAIN y = DOMAIN Work /\ y.takes = work.takes /\ y.rag = work.rag /\ y.plan = work.plan
          /\ y.coherent = coherent /\ y.lengths = work.lengths /\ y.pass = 2 /\ y.k = 1
          /\ y.merged = <<>> /\ y.lines = <<>>
      BY <3>1 DEF Work, Stale
    <3>3. u = [y EXCEPT !.covered = <<>>] BY DEF Fresh
    <3> HIDE DEF y
    <3>4. /\ DOMAIN u = DOMAIN Work /\ u.takes = work.takes /\ u.rag = work.rag /\ u.plan = work.plan
          /\ u.coherent = coherent /\ u.lengths = work.lengths /\ u.pass = 2 /\ u.k = 1
          /\ u.merged = <<>> /\ u.lines = <<>> /\ u.covered = <<>>
      BY <3>2, <3>3 DEF Work
    <3> HIDE DEF u
    <3>5. PolishedWhole(u)
      <4> HIDE DEF n
      <4>1. u.coherent \in Seq(SaidSegments) BY <2>2, <3>4
      <4>2. \E s : Laid(u.coherent, u.plan.order, n, s) /\ Measures(u.lengths, n, s) BY <2>2, <3>4
      <4>3. Len(u.plan.order) = n BY <3>4 DEF n
      <4>4. QED BY <4>1, <4>2, <4>3 DEF PolishedWhole
    <3>6. Itemised(u.covered) /\ ToSet(u.covered) = CoveredBefore(u.plan, u.k)
      BY <3>4, NothingCovered
    <3>7. ASSUME NEW w, w.k = u.k, w.pass = u.pass, w.merged = u.merged, w.lengths = u.lengths,
                 w.lines = u.lines, w.plan = u.plan
          PROVE  Chapters(w, judged)
      <4>1. w.merged = <<>> /\ w.k = 1 /\ w.lines = <<>> /\ w.pass # 1 BY <3>4, <3>7
      <4>2. QED BY <4>1, RoundBegins
    <3>8. /\ u.k \in Nat \ {0} /\ u.takes \in Nat /\ u.pass \in {1, 2}
          /\ u.rag \subseteq {a \in Articles : TooLong(a)} /\ (u.pass = 2 => site.postCritic)
          /\ PlanIsFull(u.plan)
      BY <2>4, <2>7, <3>4
    <3>9. u.k <= Len(u.plan.order) + 1
      <4>1. Len(u.plan.order) = n BY <3>4
      <4> HIDE DEF n
      <4>2. QED BY <2>5, <3>4, <4>1
    <3>10. Stands(Onward(u), judged) BY <3>4, <3>5, <3>6, <3>7, <3>8, <3>9, OnwardStands
    <3>11. Goto(Onward(u)) BY <2>1, <2>7 DEF u
    <3>12. QED BY <1>1, <1>3, <3>10, <3>11, GotoKeeps
  <2>8. QED BY <2>6, <2>7
<1>6. QED BY <1>4, <1>5

-----------------------------------------------------------------------------
(* The theorems.                                                           *)

LEMMA WritingBegins ==
  ASSUME WritingInit
  PROVE  WritingIInv
<1>1. site \in Sites /\ work = Work /\ prompt = StoryBriefPrompt(InOrder[1]) /\ judged = {}
  BY DEF WritingInit
<1>2. /\ Work.pc = "brief" /\ Work.k = 1 /\ Work.takes = 0 /\ Work.pass = 1 /\ Work.rag = {}
      /\ Work.merged = <<>> /\ Work.lengths = <<>> /\ Work.covered = <<>> /\ Work.lines = <<>>
  BY DEF Work
<1>3. prompt = Prompt(work) BY <1>1, <1>2 DEF Prompt
<1>4. 1 <= Len(InOrder) BY ArticlesInOrder
<1>5. work = Work BY <1>1
<1>6. Stands(work, judged) BY <1>2, <1>4, <1>5 DEF Stands, WritingStages, Planned, Chaptering
<1>7. QED BY <1>1, <1>3, <1>6 DEF WritingIInv

LEMMA WritingStays ==
  ASSUME WritingIInv, UNCHANGED writingVars
  PROVE  WritingIInv'
<1>1. site' = site /\ work' = work /\ prompt' = prompt /\ judged' = judged BY DEF writingVars
<1>2. site \in Sites /\ Stands(work, judged) /\ prompt = Prompt(work) BY DEF WritingIInv
<1>3. Prompt(work)' = Prompt(work) BY <1>1, SamePrompt
<1>4. Stands(work, judged)' BY <1>1, <1>2, SameStands
<1>5. QED BY <1>1, <1>2, <1>3, <1>4 DEF WritingIInv

LEMMA WritingStep ==
  ASSUME WritingIInv, [WritingNext]_writingVars
  PROVE  WritingIInv'
<1>1. CASE StoryBrief BY <1>1, StoryBriefKeeps
<1>2. CASE EpisodeOutline BY <1>2, OutlineKeeps
<1>3. CASE Draft BY <1>3, DraftKeeps
<1>4. CASE Critique BY <1>4, CritiqueKeeps
<1>5. CASE Rewrite BY <1>5, RewriteKeeps
<1>6. CASE Coherence BY <1>6, CoherenceKeeps
<1>7. CASE Validate BY <1>7, ValidateKeeps
<1>8. CASE SchemaInvalid BY <1>8, NonsenseKeeps
<1>9. CASE \E fault \in WritingFaults : RequestFails(fault) BY <1>9, FaultKeeps
<1>10. CASE Over BY <1>10, WritingStays DEF Over
<1>11. CASE UNCHANGED writingVars BY <1>11, WritingStays
<1>12. QED BY <1>1, <1>2, <1>3, <1>4, <1>5, <1>6, <1>7, <1>8, <1>9, <1>10, <1>11 DEF WritingNext,
    Answer

LEMMA WritingInvariant == WritingSpec => []WritingIInv
<1>1. WritingInit => WritingIInv BY WritingBegins
<1>2. WritingIInv /\ [WritingNext]_writingVars => WritingIInv' BY WritingStep
<1>3. QED BY <1>1, <1>2, PTL DEF WritingSpec

\* ScriptGenerationService._call_llm: a script that is kept tells every story of
\* the episode once, in the order of the outline, its segments marked with the
\* article they are of, and every chapter of it is one that a critic found
\* grounded and in the episode's language.
THEOREM ScriptsAreReviewed == WritingSpec => []KeptIsReviewed
<1>1. WritingIInv => KeptIsReviewed BY KeptFollows
<1>2. QED BY <1>1, WritingInvariant, PTL

\* Every request of a generation is about this moment of it: about the chapter at
\* hand, with what was covered before in this round and nothing else, and with
\* as much of the article's source as fits.
THEOREM PromptsStayCurrent == WritingSpec => []PromptsAreCurrent
<1>1. WritingIInv => PromptsAreCurrent BY PromptsFollow
<1>2. QED BY <1>1, WritingInvariant, PTL

=============================================================================

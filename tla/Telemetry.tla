------------------------------ MODULE Telemetry ------------------------------
(***************************************************************************)
(* Logs, metrics and traces: every line, span and count should belong to   *)
(* the request or task it speaks of.  The context they take it from is a   *)
(* set of variables per thread; threads serve one request or task after    *)
(* the other, threads of one process add to the same metrics, and with     *)
(* CELERY_TASK_ALWAYS_EAGER a task runs in the middle of a request.        *)
(* Request ids go the way of correlation ids and are left out.             *)
(***************************************************************************)
EXTENDS Naturals, FiniteSets

CONSTANTS
  Threads,        \* threads of the web server, workers, the beat
  TelemetrySites  \* the surroundings to consider

\* No id; also the number of what is not a request or a task.
None == 0

ASSUME TelemetrySitesAssumption ==
  \A s \in TelemetrySites :
    /\ s.serves \in [Threads -> {"requests", "tasks", "schedule", "nothing"}]
    /\ DOMAIN s.process = Threads
    /\ s.eager \in BOOLEAN
    /\ s.headers \subseteq Nat \ {None}
    /\ s.activities \in Nat /\ s.notes \in Nat /\ s.losses \in Nat

VARIABLES
  telemetrySite,  \* the surroundings, chosen at the start
  context,        \* thread -> its context variables
  serving,        \* thread -> the request and the task it is at
  lines,          \* the lines of the log
  spans,          \* process -> its spans
  metrics,        \* process -> its counters
  begun,          \* the requests, tasks and messages so far            (bound)
  noted,          \* the workflow events so far                         (bound)
  ended           \* what came to an end in a process since it started

telemetryVars == <<telemetrySite, context, serving, lines, spans, metrics, begun, noted, ended>>

Processes == {telemetrySite.process[t] : t \in Threads}
ProcessOf(t) == telemetrySite.process[t]

-----------------------------------------------------------------------------
(* The context.  An id somebody makes is the number of what it is for.     *)

Context == [correlation |-> None, job |-> None, run |-> None]

\* Mutant of BindContext: what is already bound is kept.
BindMissing(c, given, n) ==
  [c EXCEPT !.correlation = IF given # None THEN given ELSE IF @ # None THEN @ ELSE n]
BindContext(c, given, n) ==
  [Context EXCEPT !.correlation = IF given # None THEN given ELSE n]

\* Whoever writes a line without a correlation id is given one to keep.
Filled(c, n) == IF c.correlation = None THEN [c EXCEPT !.correlation = n] ELSE c

Line(n, event, c) ==
  [by |-> n, event |-> event, correlation |-> c.correlation, job |-> c.job, run |-> c.run]

\* A thread's work: the request, the correlation id its answer will carry and
\* the context to restore; the task; whether a task has run in the request.
Serving(request, answer, before) ==
  [request |-> request, answer |-> answer, before |-> before,
   task |-> None, job |-> None, interrupted |-> FALSE, runs |-> {}]
AtRest == Serving(None, None, Context)

\* What the application counts, and the spans of a process.
Counters == [http |-> 0, errors |-> 0, tasks |-> 0, succeeded |-> 0, failed |-> 0]

CountRequest(m, error) ==
  [m EXCEPT !.http = @ + 1, !.errors = @ + (IF error THEN 1 ELSE 0)]

\* Mutant of Succeeded: a retried task is neither a success nor a failure.
OnlySuccess(state) == state = "SUCCESS"
Succeeded(state) == state # "FAILURE"
CountTask(m, state) ==
  [m EXCEPT !.tasks = @ + 1,
            !.succeeded = @ + (IF Succeeded(state) THEN 1 ELSE 0),
            !.failed = @ + (IF Succeeded(state) THEN 0 ELSE 1)]

StartSpan(all, n, c) == all \cup {[by |-> n, correlation |-> c.correlation, status |-> "open"]}
EndSpan(all, n) == {IF x.by = n THEN [x EXCEPT !.status = "ok"] ELSE x : x \in all}

TelemetryInit ==
  /\ telemetrySite \in TelemetrySites
  /\ context = [t \in Threads |-> Context]
  /\ serving = [t \in Threads |-> AtRest]
  /\ lines = {}
  /\ spans = [p \in Processes |-> {}]
  /\ metrics = [p \in Processes |-> Counters]
  /\ begun = 0 /\ noted = 0
  /\ ended = {}

\* The activity a thread is at: a task before the request it runs in.
Activity(t) == IF serving[t].task # None THEN serving[t].task ELSE serving[t].request

-----------------------------------------------------------------------------
(* Requests.                                                               *)

BeginRequest(t) ==
  /\ telemetrySite.serves[t] = "requests" /\ serving[t].request = None
  /\ begun < telemetrySite.activities
  /\ begun' = begun + 1
  /\ \E given \in telemetrySite.headers \cup {None} :
       LET c == BindContext(context[t], given, begun') IN
       /\ context' = [context EXCEPT ![t] = c]
       /\ serving' = [serving EXCEPT ![t] = Serving(begun', c.correlation, context[t])]
       /\ lines' = lines \cup {Line(begun', "api_request_started", c)}
       /\ spans' = [spans EXCEPT ![ProcessOf(t)] = StartSpan(@, begun', c)]
  /\ UNCHANGED <<telemetrySite, metrics, noted, ended>>

\* An error inside the request has become an answer before it gets here, so
\* the span always ends well.
EndRequest(t) ==
  LET s == serving[t]  p == ProcessOf(t) IN
  /\ s.request # None /\ s.task = None
  /\ \E error \in BOOLEAN :
       /\ metrics' = [metrics EXCEPT ![p] = CountRequest(@, error)]
       /\ ended' = ended \cup {[what |-> "request", number |-> s.request, process |-> p, bad |-> error]}
  /\ spans' = [spans EXCEPT ![p] = EndSpan(@, s.request)]
  /\ lines' = lines \cup {Line(s.request, "api_request_completed", context[t])}
  /\ context' = [context EXCEPT ![t] = s.before]
  /\ serving' = [serving EXCEPT ![t] = AtRest]
  /\ UNCHANGED <<telemetrySite, begun, noted>>

-----------------------------------------------------------------------------
(* Tasks.                                                                  *)

\* Sending a message writes a line, also where no context has ever been bound.
Publish(t) ==
  /\ ~telemetrySite.eager
  /\ Activity(t) # None \/ telemetrySite.serves[t] = "schedule"
  /\ begun < telemetrySite.activities
  /\ begun' = begun + 1
  /\ LET c == Filled(context[t], begun') IN
     /\ context' = [context EXCEPT ![t] = c]
     /\ lines' = lines \cup {Line(Activity(t), "celery_task_published", c)}
  /\ UNCHANGED <<telemetrySite, serving, spans, metrics, noted, ended>>

\* An eager task runs here and now, without a message; one inside another is
\* left out.
RunEagerly(t) ==
  /\ telemetrySite.eager /\ serving[t].request # None /\ serving[t].task = None
  /\ begun < telemetrySite.activities
  /\ begun' = begun + 1
  /\ LET c == [BindContext(context[t], None, begun') EXCEPT !.job = begun'] IN
     /\ context' = [context EXCEPT ![t] = c]
     /\ lines' = lines \cup {Line(begun', "celery_task_started", c)}
  /\ serving' = [serving EXCEPT ![t].task = begun', ![t].job = begun', ![t].interrupted = TRUE]
  /\ UNCHANGED <<telemetrySite, spans, metrics, noted, ended>>

\* A scheduled task is not given a job.
TaskPrerun(t) ==
  /\ telemetrySite.serves[t] = "tasks" /\ serving[t].task = None
  /\ begun < telemetrySite.activities
  /\ begun' = begun + 1
  /\ \E job \in {begun', None} :
       LET c == [BindContext(context[t], None, begun') EXCEPT !.job = job] IN
       /\ context' = [context EXCEPT ![t] = c]
       /\ serving' = [serving EXCEPT ![t].task = begun', ![t].job = job, ![t].runs = {}]
       /\ lines' = lines \cup {Line(begun', "celery_task_started", c)}
  /\ UNCHANGED <<telemetrySite, spans, metrics, noted, ended>>

\* The lines about a task that raised an error.
FailureLines(state, n, c) ==
  CASE state = "RETRY" -> {Line(n, "celery_task_retrying", c)}
    [] state = "FAILURE" -> {Line(n, "celery_task_failed", c)}
    [] OTHER -> {}

\* The context stays as the task leaves it.
TaskPostrun(t) ==
  LET s == serving[t]  p == ProcessOf(t) IN
  /\ s.task # None
  /\ \E state \in {"SUCCESS", "FAILURE"} \cup (IF telemetrySite.eager THEN {} ELSE {"RETRY"}) :
       /\ metrics' = [metrics EXCEPT ![p] = CountTask(@, state)]
       /\ ended' = ended \cup
            {[what |-> "task", number |-> s.task, process |-> p, bad |-> state = "FAILURE"]}
       /\ lines' = lines
            \cup {Line(s.task, IF Succeeded(state) THEN "celery_task_completed" ELSE "celery_task_failed", context[t])}
            \cup FailureLines(state, s.task, context[t])
  /\ serving' = [serving EXCEPT ![t].task = None, ![t].job = None, ![t].runs = {}]
  /\ UNCHANGED <<telemetrySite, context, spans, begun, noted>>

\* The workflow engine says what it does, and leaves the run in the context.
LogWorkflowEvent(t) ==
  /\ Activity(t) # None /\ noted < telemetrySite.notes
  /\ noted' = noted + 1
  /\ LET c == [context[t] EXCEPT !.run = noted'] IN
     /\ context' = [context EXCEPT ![t] = c]
     /\ lines' = lines \cup {Line(Activity(t), "workflow", c)}
  /\ serving' = [serving EXCEPT ![t].runs = @ \cup {noted'}]
  /\ UNCHANGED <<telemetrySite, spans, metrics, begun, ended>>

\* A process is lost and another starts in its place, with nothing of it.
LoseProcess(p) ==
  LET its == {t \in Threads : ProcessOf(t) = p} IN
  /\ Cardinality({e \in ended : e.what = "loss"}) < telemetrySite.losses
  /\ \E t \in its : Activity(t) # None
  /\ context' = [t \in Threads |-> IF t \in its THEN Context ELSE context[t]]
  /\ serving' = [t \in Threads |-> IF t \in its THEN AtRest ELSE serving[t]]
  /\ spans' = [spans EXCEPT ![p] = {}]
  /\ metrics' = [metrics EXCEPT ![p] = Counters]
  /\ ended' = {e \in ended : e.process # p \/ e.what = "loss"}
       \cup {[what |-> "loss", number |-> begun, process |-> p, bad |-> TRUE]}
  /\ UNCHANGED <<telemetrySite, lines, begun, noted>>

TelemetryNext ==
  \/ \E t \in Threads :
       \/ BeginRequest(t) \/ EndRequest(t) \/ Publish(t) \/ RunEagerly(t)
       \/ TaskPrerun(t) \/ TaskPostrun(t) \/ LogWorkflowEvent(t)
  \/ \E p \in Processes : LoseProcess(p)

-----------------------------------------------------------------------------
(* Properties.                                                             *)

Ended(p, what) == {e \in ended : e.process = p /\ e.what = what}
Bad(p, what) == {e \in Ended(p, what) : e.bad}

\* What is written down belongs to what it is written about.  A line never
\* carries the correlation id, job or workflow run of another request or task,
\* although threads are used again and again and nobody clears the context
\* after a task (services/observability/celery_hooks.py:57); two requests share
\* an id only when their clients sent the same; the answer of a request carries
\* the id of its span and of its lines (up to a task that was run inside it); a
\* thread of the web server is handed back as it was found
\* (apps/observability/middleware.py:73); and a process counts what ended in it,
\* no more and no less, each task as a success or as a failure.
TelemetryBelongs ==
  /\ \A l \in lines :
       l.by # None =>
         /\ l.event \in {"celery_task_started", "celery_task_completed", "celery_task_failed"} =>
              l.correlation = l.by
         /\ telemetrySite.eager \/ (l.job \in {l.by, None} /\ l.correlation \in {l.by} \cup telemetrySite.headers)
  /\ \A l, m \in lines : (l.run = m.run /\ l.run # None) => (l.by = m.by \/ telemetrySite.eager)
  /\ \A t \in Threads :
       LET s == serving[t] IN
       /\ (s.request = None /\ telemetrySite.serves[t] = "requests") => context[t] = Context
       /\ s.task # None => context[t] = [correlation |-> s.task, job |-> s.job, run |-> context[t].run]
       /\ (s.request # None /\ ~s.interrupted) =>
            /\ \A l \in lines : l.by = s.request => l.correlation = s.answer
            /\ context[t].correlation = s.answer
            /\ context[t].job = None
       /\ (Activity(t) # None /\ ~s.interrupted) => context[t].run \in s.runs \cup {None}
       /\ s.request # None =>
            \E x \in spans[ProcessOf(t)] :
              x = [by |-> s.request, correlation |-> s.answer, status |-> "open"]
  /\ \A p \in Processes :
       LET m == metrics[p] IN
       /\ m.http = Cardinality(Ended(p, "request")) /\ m.errors = Cardinality(Bad(p, "request"))
       /\ m.tasks = Cardinality(Ended(p, "task")) /\ m.failed = Cardinality(Bad(p, "task"))
       /\ m.succeeded + m.failed = m.tasks

=============================================================================

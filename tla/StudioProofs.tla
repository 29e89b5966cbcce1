---------------------------- MODULE StudioProofs ----------------------------
(***************************************************************************)
(* Theorems about the four parts of MCStudio, each for any surroundings:   *)
(* the telemetry and the health reports, for any number of threads,        *)
(* processes and requests, and services that come and go as often as they  *)
(* like; the voices of the personas; the operators' pages.                 *)
(***************************************************************************)
EXTENDS StudioInvariants, FiniteSetTheorems, SequenceTheorems, WellFoundedInduction, TLAPS

-----------------------------------------------------------------------------
(* Telemetry.                                                              *)

\* The invariant holds when nothing has happened yet.
LEMMA TelemetryStart == TelemetryInit => TelemetryInv
<1> SUFFICES ASSUME TelemetryInit PROVE TelemetryInv
  OBVIOUS
<1> USE DEF TelemetryInit, None
<1>1. TelemetryTypes
  BY FS_EmptySet DEF TelemetryTypes, Context, AtRest, Serving, Contexts, Servings, Counters,
     CounterValues
<1>2. Numbers BY DEF Numbers, Its, AtRest, Serving
<1>4. Bound BY DEF Bound, Fits, AtRest, Serving, ActivityOf, Context
<1>5. LinesBelong BY DEF LinesBelong, AtRest, Serving
<1>6. RunsNoted BY DEF RunsNoted, AtRest, Serving, Context
<1>7. SpansOpen BY DEF SpansOpen, AtRest, Serving
<1>8. Counted
  <2>1. ASSUME NEW p \in Processes, NEW what PROVE Ended(p, what) = {} /\ Bad(p, what) = {}
    BY DEF Ended, Bad
  <2>2. ASSUME NEW p \in Processes
        PROVE  metrics[p] = [http |-> 0, errors |-> 0, tasks |-> 0, succeeded |-> 0, failed |-> 0]
    BY DEF Counters
  <2>3. Cardinality({}) = 0 BY FS_EmptySet
  <2>4. QED BY <2>1, <2>2, <2>3 DEF Counted
<1>9. QED BY <1>1, <1>2, <1>4, <1>5, <1>6, <1>7, <1>8 DEF TelemetryInv

\* A new number is nobody else's.
LEMMA NumbersTaken ==
  ASSUME TelemetryInv, NEW t \in Threads, begun' = begun + 1, ended' = ended,
         serving'[t].request \in {serving[t].request, begun + 1},
         serving'[t].task \in {serving[t].task, begun + 1},
         \A u \in Threads \ {t} : serving'[u] = serving[u],
         \A l \in lines' : l \in lines \/ l.by = begun + 1
  PROVE  Numbers'
<1> USE DEF TelemetryInv, None
<1>1. PICK n \in Nat : n = begun + 1 /\ n = begun' /\ begun \in Nat BY DEF TelemetryTypes
<1>2. /\ \A u \in Threads : \A m \in Its(u) : m \in Nat /\ m <= begun
      /\ \A e \in ended : e.number \in Nat /\ e.number <= begun
      /\ \A l \in lines : l.by \in Nat /\ l.by <= begun
  BY DEF Numbers, Its, TelemetryTypes, Servings, Ends, Lines
<1>3. Its(t)' \subseteq Its(t) \cup {n} /\ \A u \in Threads \ {t} : Its(u)' = Its(u) BY <1>1 DEF Its
<1>4. (\A u \in Threads : \A m \in Its(u) : m <= begun)' BY <1>1, <1>2, <1>3
<1>5. (\A u, v \in Threads : u # v => Its(u) \cap Its(v) = {})'
  <2>1. \A u \in Threads : n \notin Its(u) BY <1>1, <1>2
  <2>2. \A u, v \in Threads : u # v => Its(u) \cap Its(v) = {} BY DEF Numbers
  <2>3. QED BY <1>3, <2>1, <2>2
<1>6. (\A l \in lines : l.by <= begun)' BY <1>1, <1>2
<1>7. (\A e \in ended : e.number <= begun /\ (e.what # "loss" => e.number # 0))'
  BY <1>1, <1>2 DEF Numbers
<1>8. (\A e \in ended : \A u \in Threads :
        /\ e.what = "request" => e.number # serving[u].request
        /\ e.what = "task" => e.number # serving[u].task)'
  <2>1. \A e \in ended : e.number # n BY <1>1, <1>2
  <2>2. QED BY <1>1, <2>1 DEF Numbers
<1>9. QED BY <1>4, <1>5, <1>6, <1>7, <1>8 DEF Numbers

\* A request is begun under a new number, in a context of its own.
LEMMA BeginRequestKeeps ==
  ASSUME TelemetryInv, NEW t \in Threads, BeginRequest(t)
  PROVE  TelemetryInv'
<1> USE DEF TelemetryInv, None
<1>1. PICK n \in Nat : n = begun + 1 /\ n = begun' /\ n # 0 BY DEF BeginRequest, TelemetryTypes
<1>2. telemetrySite \in TelemetrySites /\ ProcessOf(t) \in Processes /\ ProcessOf(t)' = ProcessOf(t) /\ Processes' = Processes
      /\ telemetrySite' = telemetrySite /\ metrics' = metrics
      /\ noted' = noted /\ ended' = ended
  BY DEF TelemetryTypes, Processes, ProcessOf, BeginRequest
<1>3. PICK k \in Nat :
        /\ k # 0 /\ k \in {n} \cup telemetrySite.headers
        /\ context' = [context EXCEPT ![t] = [correlation |-> k, job |-> 0, run |-> 0]]
        /\ serving' = [serving EXCEPT ![t] =
             [request |-> n, answer |-> k, before |-> Context,
              task |-> 0, job |-> 0, interrupted |-> FALSE, runs |-> {}]]
        /\ lines' = lines \cup
             {[by |-> n, event |-> "api_request_started", correlation |-> k, job |-> 0, run |-> 0]}
        /\ spans' = [spans EXCEPT ![ProcessOf(t)] =
             @ \cup {[by |-> n, correlation |-> k, status |-> "open"]}]
  <2>1. telemetrySite.headers \subseteq Nat \ {0} BY <1>2, TelemetrySitesAssumption
  <2>2. context[t] = Context BY DEF Bound, Fits, BeginRequest
  <2>3. PICK given \in telemetrySite.headers \cup {0} :
          LET c == BindContext(context[t], given, n) IN
          /\ context' = [context EXCEPT ![t] = c]
          /\ serving' = [serving EXCEPT ![t] = Serving(n, c.correlation, context[t])]
          /\ lines' = lines \cup {Line(n, "api_request_started", c)}
          /\ spans' = [spans EXCEPT ![ProcessOf(t)] = StartSpan(@, n, c)]
    BY <1>1 DEF BeginRequest
  <2>4. PICK k \in Nat : k # 0 /\ k \in {n} \cup telemetrySite.headers
          /\ BindContext(context[t], given, n) = [correlation |-> k, job |-> 0, run |-> 0]
    <3>1. CASE given = 0 BY <1>1, <3>1 DEF BindContext, Context, TelemetryTypes
    <3>2. CASE given # 0 BY <2>1, <3>2 DEF BindContext, Context
    <3>3. QED BY <3>1, <3>2
  <2> DEFINE c == BindContext(context[t], given, n)
  <2>5. c = [correlation |-> k, job |-> 0, run |-> 0] /\ c.correlation = k BY <2>4
  <2>6. /\ context' = [context EXCEPT ![t] = c]
        /\ serving' = [serving EXCEPT ![t] = Serving(n, c.correlation, context[t])]
        /\ lines' = lines \cup {Line(n, "api_request_started", c)}
        /\ spans' = [spans EXCEPT ![ProcessOf(t)] = StartSpan(@, n, c)]
    BY <2>3
  <2> HIDE DEF c
  <2>7. QED BY <2>2, <2>4, <2>5, <2>6 DEF Serving, Line, StartSpan
<1>4. /\ telemetrySite.serves[t] = "requests" /\ serving[t].request = 0
      /\ serving[t].task = 0
      /\ serving[t].interrupted = FALSE
  BY DEF BeginRequest, Bound, Fits, TelemetryTypes, Servings
<1>5. /\ serving'[t] = [request |-> n, answer |-> k, before |-> Context,
                        task |-> 0, job |-> 0, interrupted |-> FALSE, runs |-> {}]
      /\ context'[t] = [correlation |-> k, job |-> 0, run |-> 0]
      /\ \A u \in Threads \ {t} : serving'[u] = serving[u] /\ context'[u] = context[u]
  BY <1>3 DEF TelemetryTypes
<1>6. TelemetryTypes'
  BY <1>1, <1>2, <1>3 DEF TelemetryTypes, Contexts, Servings, Lines, LineEvents, Spans, Context,
     Ends
<1>7. Numbers'
  <2>1. /\ begun' = begun + 1 /\ ended' = ended
        /\ serving'[t].request \in {serving[t].request, begun + 1}
        /\ serving'[t].task \in {serving[t].task, begun + 1}
        /\ \A u \in Threads \ {t} : serving'[u] = serving[u]
        /\ \A l \in lines' : l \in lines \/ l.by = begun + 1
    BY <1>1, <1>2, <1>3, <1>4, <1>5
  <2>2. QED BY <2>1, NumbersTaken
<1>9. Bound'
  <2>1. Fits(t, serving[t], context[t])' BY <1>1, <1>2, <1>3, <1>4, <1>5 DEF Fits, ActivityOf
  <2>2. ASSUME NEW u \in Threads, u # t PROVE Fits(u, serving[u], context[u])'
    BY <1>2, <1>5, <2>2 DEF Bound, Fits
  <2>3. QED BY <2>1, <2>2 DEF Bound
<1>10. LinesBelong'
  <2>1. (\A l \in lines : l.by # 0 =>
         /\ l.event \in TaskEvents => l.correlation = l.by
         /\ telemetrySite.eager \/ (l.job \in {l.by, 0} /\ l.correlation \in {l.by} \cup telemetrySite.headers))'
    BY <1>2, <1>3 DEF LinesBelong, TaskEvents
  <2>2. \A l \in lines : l.by # n BY <1>1 DEF Numbers, TelemetryTypes, Lines
  <2>3. \A u \in Threads : serving[u].request # n BY <1>1 DEF Numbers, TelemetryTypes, Servings, Its
  <2>4. QED BY <1>3, <1>5, <2>1, <2>2, <2>3 DEF LinesBelong
<1>11. RunsNoted' BY <1>2, <1>3, <1>4, <1>5 DEF RunsNoted, TelemetryTypes, Lines, Servings, Activity
<1>12. SpansOpen' BY <1>2, <1>3, <1>4, <1>5 DEF SpansOpen, TelemetryTypes, ProcessOf, Processes
<1>13. Counted' BY <1>2 DEF Counted, Ended, Bad
<1>14. QED BY <1>6, <1>7, <1>9, <1>10, <1>11, <1>12, <1>13

\* What has ended, by process and kind.
LEMMA EndedAre ==
  ASSUME NEW q, NEW w
  PROVE  /\ Ended(q, w) = EndedIn(ended, q, w) /\ Ended(q, w)' = EndedIn(ended', q, w)
         /\ ended \in SUBSET Ends => Bad(q, w) = BadIn(ended, q, w)
         /\ ended' \in SUBSET Ends => Bad(q, w)' = BadIn(ended', q, w)
  BY DEF Ended, Bad, EndedIn, BadIn, Ends

\* One more end is one more in its process and kind, and none elsewhere.
LEMMA EndsCounted ==
  ASSUME NEW E, IsFiniteSet(E), NEW e, e \notin E, NEW q, NEW w
  PROVE  /\ Cardinality(EndedIn(E \cup {e}, q, w)) =
              Cardinality(EndedIn(E, q, w)) + (IF e.process = q /\ e.what = w THEN 1 ELSE 0)
         /\ Cardinality(BadIn(E \cup {e}, q, w)) =
              Cardinality(BadIn(E, q, w)) + (IF e.process = q /\ e.what = w /\ e.bad = TRUE THEN 1 ELSE 0)
         /\ Cardinality(EndedIn(E, q, w)) \in Nat
         /\ Cardinality(BadIn(E, q, w)) \in Nat
<1>1. /\ IsFiniteSet(EndedIn(E, q, w)) /\ IsFiniteSet(BadIn(E, q, w))
      /\ Cardinality(EndedIn(E, q, w)) \in Nat
      /\ Cardinality(BadIn(E, q, w)) \in Nat
  <2>1. EndedIn(E, q, w) \in SUBSET E /\ BadIn(E, q, w) \in SUBSET E BY DEF EndedIn, BadIn
  <2>2. QED BY <2>1, FS_Subset, FS_CardinalityType
<1>2. e \notin EndedIn(E, q, w) /\ e \notin BadIn(E, q, w) BY DEF EndedIn, BadIn
<1>3. EndedIn(E \cup {e}, q, w) =
        IF e.process = q /\ e.what = w THEN EndedIn(E, q, w) \cup {e} ELSE EndedIn(E, q, w)
  BY DEF EndedIn
<1>4. BadIn(E \cup {e}, q, w) =
        IF e.process = q /\ e.what = w /\ e.bad = TRUE THEN BadIn(E, q, w) \cup {e} ELSE BadIn(E, q, w)
  BY DEF BadIn
<1>5. /\ Cardinality(EndedIn(E, q, w) \cup {e}) = Cardinality(EndedIn(E, q, w)) + 1
      /\ Cardinality(BadIn(E, q, w) \cup {e}) = Cardinality(BadIn(E, q, w)) + 1
  BY <1>1, <1>2, FS_AddElement
<1>6. QED BY <1>1, <1>3, <1>4, <1>5

\* What a process counts when something ends in it.
LEMMA CountedAfter ==
  ASSUME TelemetryTypes, Counted, Processes' = Processes,
         NEW p \in Processes, NEW e \in Ends, e \notin ended, e.process = p,
         ended' = ended \cup {e},
         NEW v \in CounterValues, metrics' = [metrics EXCEPT ![p] = v],
         v.http = metrics[p].http + (IF e.what = "request" THEN 1 ELSE 0),
         v.errors = metrics[p].errors + (IF e.what = "request" /\ e.bad = TRUE THEN 1 ELSE 0),
         v.tasks = metrics[p].tasks + (IF e.what = "task" THEN 1 ELSE 0),
         v.failed = metrics[p].failed + (IF e.what = "task" /\ e.bad = TRUE THEN 1 ELSE 0),
         v.succeeded + v.failed = v.tasks
  PROVE  Counted' /\ metrics' \in [Processes -> CounterValues]
         /\ ended' \in SUBSET Ends /\ IsFiniteSet(ended')
<1>1. metrics \in [Processes -> CounterValues] /\ ended \in SUBSET Ends /\ IsFiniteSet(ended)
  BY DEF TelemetryTypes
<1>2. ended' \in SUBSET Ends /\ IsFiniteSet(ended') BY <1>1, FS_AddElement
<1>3. ASSUME NEW q \in Processes
      PROVE  LET m == metrics'[q] IN
             /\ m.http = Cardinality(Ended(q, "request")')
             /\ m.errors = Cardinality(Bad(q, "request")')
             /\ m.tasks = Cardinality(Ended(q, "task")')
             /\ m.failed = Cardinality(Bad(q, "task")')
             /\ m.succeeded + m.failed = m.tasks
  <2> DEFINE NE(w) == Cardinality(EndedIn(ended, q, w))  NB(w) == Cardinality(BadIn(ended, q, w))
  <2>1. /\ metrics[q].http = NE("request") /\ metrics[q].errors = NB("request")
        /\ metrics[q].tasks = NE("task") /\ metrics[q].failed = NB("task")
        /\ metrics[q].succeeded + metrics[q].failed = metrics[q].tasks
    BY <1>1, EndedAre DEF Counted
  <2>2. ASSUME NEW w
        PROVE  /\ Cardinality(Ended(q, w)') = NE(w) + (IF p = q /\ e.what = w THEN 1 ELSE 0)
               /\ Cardinality(Bad(q, w)') = NB(w) + (IF p = q /\ e.what = w /\ e.bad = TRUE THEN 1 ELSE 0)
               /\ NE(w) \in Nat /\ NB(w) \in Nat
    <3>1. Ended(q, w)' = EndedIn(ended \cup {e}, q, w) /\ Bad(q, w)' = BadIn(ended \cup {e}, q, w)
      BY <1>2, EndedAre
    <3>2. /\ Cardinality(EndedIn(ended \cup {e}, q, w)) = NE(w) + (IF p = q /\ e.what = w THEN 1 ELSE 0)
          /\ Cardinality(BadIn(ended \cup {e}, q, w)) =
               NB(w) + (IF p = q /\ e.what = w /\ e.bad = TRUE THEN 1 ELSE 0)
          /\ NE(w) \in Nat /\ NB(w) \in Nat
      <4>1. PICK E : E = ended
        OBVIOUS
      <4>2. IsFiniteSet(E) /\ e \notin E BY <1>1, <4>1
      <4>3. /\ Cardinality(EndedIn(E \cup {e}, q, w)) =
                 Cardinality(EndedIn(E, q, w)) + (IF e.process = q /\ e.what = w THEN 1 ELSE 0)
            /\ Cardinality(BadIn(E \cup {e}, q, w)) =
                 Cardinality(BadIn(E, q, w)) + (IF e.process = q /\ e.what = w /\ e.bad = TRUE THEN 1 ELSE 0)
            /\ Cardinality(EndedIn(E, q, w)) \in Nat
            /\ Cardinality(BadIn(E, q, w)) \in Nat
        BY <4>2, EndsCounted, Zenon
      <4>4. QED BY <4>1, <4>3
    <3>3. QED BY <3>1, <3>2
  <2> HIDE DEF NE, NB
  <2>3. metrics'[q] = IF p = q THEN v ELSE metrics[q] BY <1>1
  <2>4. /\ Cardinality(Ended(q, "request")') = NE("request") + (IF p = q /\ e.what = "request" THEN 1 ELSE 0)
        /\ Cardinality(Bad(q, "request")') = NB("request") + (IF p = q /\ e.what = "request" /\ e.bad = TRUE THEN 1 ELSE 0)
        /\ Cardinality(Ended(q, "task")') = NE("task") + (IF p = q /\ e.what = "task" THEN 1 ELSE 0)
        /\ Cardinality(Bad(q, "task")') = NB("task") + (IF p = q /\ e.what = "task" /\ e.bad = TRUE THEN 1 ELSE 0)
        /\ NE("request") \in Nat /\ NB("request") \in Nat
        /\ NE("task") \in Nat /\ NB("task") \in Nat
    BY <2>2
  <2>5. CASE p = q BY <2>1, <2>3, <2>4, <2>5
  <2>6. CASE p # q BY <2>1, <2>3, <2>4, <2>6
  <2>7. QED BY <2>5, <2>6
<1>4. Counted' BY <1>3 DEF Counted
<1>5. QED BY <1>1, <1>2, <1>4

\* A request ends: its span closes, it is counted, its context is put back.
LEMMA EndRequestKeeps ==
  ASSUME TelemetryInv, NEW t \in Threads, EndRequest(t)
  PROVE  TelemetryInv'
<1> USE DEF TelemetryInv, None
<1> DEFINE s == serving[t]  p == ProcessOf(t)
<1>1. PICK n \in Nat : n = s.request /\ n # 0 BY DEF EndRequest, TelemetryTypes, Servings
<1>2. /\ telemetrySite \in TelemetrySites /\ p \in Processes /\ p' = p
      /\ Processes' = Processes
      /\ telemetrySite' = telemetrySite /\ begun' = begun /\ noted' = noted
      /\ begun \in Nat /\ noted \in Nat
  BY DEF TelemetryTypes, Processes, ProcessOf, EndRequest
<1>3. PICK k \in Contexts : k = context[t] BY DEF TelemetryTypes
<1>4. PICK e \in Ends, d \in {0, 1}, v \in CounterValues :
        /\ e.what = "request" /\ e.number = n /\ e.process = p /\ (e.bad = TRUE <=> d = 1)
        /\ ended' = ended \cup {e}
        /\ v.http = metrics[p].http + 1 /\ v.errors = metrics[p].errors + d
        /\ v.tasks = metrics[p].tasks /\ v.succeeded = metrics[p].succeeded
        /\ v.failed = metrics[p].failed
        /\ metrics' = [metrics EXCEPT ![p] = v]
  <2>1. PICK error \in BOOLEAN :
          /\ metrics' = [metrics EXCEPT ![p] = CountRequest(@, error)]
          /\ ended' = ended \cup {[what |-> "request", number |-> s.request, process |-> p, bad |-> error]}
    BY DEF EndRequest
  <2>2. PICK d \in {0, 1} : d = IF error THEN 1 ELSE 0
    OBVIOUS
  <2>3. PICK m \in CounterValues : m = metrics[p] BY <1>2 DEF TelemetryTypes
  <2> DEFINE e == [what |-> "request", number |-> n, process |-> p, bad |-> error]
  <2>4. PICK x \in Nat, y \in Nat : x = m.http + 1 /\ y = m.errors + d BY DEF CounterValues
  <2>5. PICK v \in CounterValues : v = [m EXCEPT !.http = x, !.errors = y] BY DEF CounterValues
  <2>10. /\ v.http = x /\ v.errors = y
         /\ v.tasks = m.tasks /\ v.succeeded = m.succeeded /\ v.failed = m.failed
    BY <2>5 DEF CounterValues
  <2>11. metrics' = [metrics EXCEPT ![p] = v] BY <2>1, <2>2, <2>3, <2>4, <2>5 DEF CountRequest
  <2>6. e \in Ends BY <1>2 DEF Ends
  <2>7. e.what = "request" /\ e.number = n /\ e.process = p /\ (e.bad = TRUE <=> d = 1) BY <2>2
  <2>8. ended' = ended \cup {e} BY <1>1, <2>1
  <2> HIDE DEF e
  <2>9. QED BY <2>3, <2>4, <2>10, <2>11, <2>6, <2>7, <2>8
<1>5. /\ spans' = [spans EXCEPT ![p] = EndSpan(@, n)]
      /\ lines' = lines \cup {[by |-> n, event |-> "api_request_completed",
                               correlation |-> k.correlation, job |-> k.job, run |-> k.run]}
      /\ context' = [context EXCEPT ![t] = Context]
      /\ serving' = [serving EXCEPT ![t] = AtRest]
  BY <1>1, <1>3 DEF EndRequest, Line, Bound, Fits
<1>6. /\ s.task = 0 /\ Fits(t, s, k) /\ s \in Servings
      /\ Activity(t) = n /\ ActivityOf(s) = n
  BY <1>1, <1>3 DEF EndRequest, Bound, TelemetryTypes, Activity, ActivityOf
<1>7. /\ serving'[t] = AtRest /\ context'[t] = Context
      /\ \A u \in Threads \ {t} : serving'[u] = serving[u] /\ context'[u] = context[u]
  BY <1>5 DEF TelemetryTypes
<1>8. \A u \in Threads \ {t} : serving[u].request # n /\ serving[u].task # n
  BY <1>1 DEF Numbers, Its
<1>9. e \notin ended BY <1>1, <1>4 DEF Numbers
<1>18. Counted' /\ metrics' \in [Processes -> CounterValues] /\ ended' \in SUBSET Ends /\ IsFiniteSet(ended')
  <2>1. /\ metrics[p].succeeded + metrics[p].failed = metrics[p].tasks
        /\ metrics[p] \in CounterValues
    BY <1>2 DEF Counted, TelemetryTypes
  <2>2. /\ v.http = metrics[p].http + (IF e.what = "request" THEN 1 ELSE 0)
        /\ v.errors = metrics[p].errors + (IF e.what = "request" /\ e.bad = TRUE THEN 1 ELSE 0)
        /\ v.tasks = metrics[p].tasks + (IF e.what = "task" THEN 1 ELSE 0)
        /\ v.failed = metrics[p].failed + (IF e.what = "task" /\ e.bad = TRUE THEN 1 ELSE 0)
        /\ v.succeeded + v.failed = v.tasks
    BY <1>4, <2>1 DEF CounterValues
  <2>3. QED BY <1>2, <1>4, <1>9, <2>2, CountedAfter
<1>10. TelemetryTypes'
  <2>1. context' \in [Threads -> Contexts] /\ serving' \in [Threads -> Servings]
    BY <1>5 DEF TelemetryTypes, Contexts, Servings, Context, AtRest, Serving
  <2>2. lines' \in SUBSET Lines BY <1>3, <1>5 DEF TelemetryTypes, Lines, LineEvents, Contexts
  <2>3. spans' \in [Processes -> SUBSET Spans] BY <1>2, <1>5 DEF TelemetryTypes, Spans, EndSpan
  <2>4. QED BY <1>2, <1>18, <2>1, <2>2, <2>3 DEF TelemetryTypes, Ends
<1>11. Numbers'
  <2>1. Its(t)' = {} /\ \A u \in Threads \ {t} : Its(u)' = Its(u) BY <1>7 DEF Its, AtRest, Serving
  <2>2. n <= begun /\ \A u \in Threads : \A m \in Its(u) : m <= begun BY <1>1 DEF Numbers, Its
  <2>3. (\A u, x \in Threads : u # x => Its(u) \cap Its(x) = {})' BY <2>1 DEF Numbers
  <2>4. (\A l \in lines : l.by <= begun)' BY <1>2, <1>5, <2>2 DEF Numbers
  <2>5. (\A x \in ended : x.number <= begun /\ (x.what # "loss" => x.number # 0))'
    BY <1>1, <1>2, <1>4, <2>2 DEF Numbers
  <2>6. (\A x \in ended : \A u \in Threads :
          /\ x.what = "request" => x.number # serving[u].request
          /\ x.what = "task" => x.number # serving[u].task)'
    <3>1. serving'[t].request = 0 /\ serving'[t].task = 0 BY <1>7 DEF AtRest, Serving
    <3>2. QED BY <1>1, <1>4, <1>7, <1>8, <3>1, <2>5 DEF Numbers
  <2>7. QED BY <1>2, <2>1, <2>2, <2>3, <2>4, <2>5, <2>6 DEF Numbers
<1>12. Bound'
  <2>1. Fits(t, serving[t], context[t])'
    BY <1>2, <1>7 DEF Fits, AtRest, Serving, Context, ActivityOf
  <2>2. ASSUME NEW u \in Threads, u # t PROVE Fits(u, serving[u], context[u])'
    BY <1>2, <1>7, <2>2 DEF Bound, Fits
  <2>3. QED BY <2>1, <2>2 DEF Bound
<1>13. LinesBelong'
  <2>1. telemetrySite.eager \/ (k.job = 0 /\ k.correlation \in {n} \cup telemetrySite.headers)
    BY <1>1, <1>6 DEF Fits
  <2>2. serving'[t].request = 0 BY <1>7 DEF AtRest, Serving
  <2>3. (\A l \in lines : l.by # 0 =>
         /\ l.event \in TaskEvents => l.correlation = l.by
         /\ telemetrySite.eager \/ (l.job \in {l.by, 0} /\ l.correlation \in {l.by} \cup telemetrySite.headers))'
    BY <1>2, <1>5, <2>1 DEF LinesBelong, TaskEvents
  <2>4. QED BY <1>5, <1>7, <1>8, <2>2, <2>3 DEF LinesBelong
<1>14. RunsNoted'
  <2>1. k.run <= noted /\ (telemetrySite.eager \/ k.run \in s.runs \cup {0})
    BY <1>1, <1>3, <1>6 DEF RunsNoted, Fits
  <2>2. serving'[t].runs = {} /\ context'[t].run = 0 BY <1>7 DEF AtRest, Serving, Context
  <2>3. ASSUME ~telemetrySite.eager, k.run # 0 PROVE \A l \in lines : l.run = k.run => l.by = n
    BY <1>6, <2>1, <2>3 DEF RunsNoted
  <2>4. \A u \in Threads \ {t} : Activity(u)' = Activity(u) BY <1>7 DEF Activity
  <2>5. (~telemetrySite.eager =>
       /\ \A l, m \in lines : (l.run = m.run /\ l.run # None) => l.by = m.by
       /\ \A u \in Threads, l \in lines : l.run \in serving[u].runs => l.by = Activity(u))'
    <3> SUFFICES ASSUME ~telemetrySite.eager
                 PROVE  (/\ \A l, m \in lines : (l.run = m.run /\ l.run # None) => l.by = m.by
                         /\ \A u \in Threads, l \in lines : l.run \in serving[u].runs => l.by = Activity(u))'
      BY <1>2
    <3>1. (\A l, m \in lines : (l.run = m.run /\ l.run # None) => l.by = m.by)'
      BY <1>5, <2>3 DEF RunsNoted
    <3>2. \A u \in Threads \ {t} : k.run \notin serving[u].runs BY <2>1 DEF RunsNoted
    <3>3. (\A u \in Threads, l \in lines : l.run \in serving[u].runs => l.by = Activity(u))'
      BY <1>5, <1>7, <2>2, <2>4, <3>2 DEF RunsNoted
    <3>4. QED BY <3>1, <3>3
  <2>6. (\A l \in lines : l.run <= noted)' BY <1>2, <1>5, <2>1 DEF RunsNoted
  <2>7. (\A u \in Threads : context[u].run <= noted /\ \A r \in serving[u].runs : 0 < r /\ r <= noted)'
    BY <1>2, <1>7, <2>2 DEF RunsNoted
  <2>8. (\A u, x \in Threads : u # x => serving[u].runs \cap serving[x].runs = {})'
    BY <1>7, <2>2 DEF RunsNoted
  <2>9. QED BY <2>5, <2>6, <2>7, <2>8 DEF RunsNoted
<1>15. SpansOpen'
  <2>1. ASSUME NEW u \in Threads, u # t, serving[u].request # 0
        PROVE  [by |-> serving[u].request, correlation |-> serving[u].answer, status |-> "open"]
                 \in spans'[ProcessOf(u)]
    BY <1>5, <1>8, <2>1 DEF SpansOpen, EndSpan, TelemetryTypes, ProcessOf, Processes
  <2>2. serving'[t].request = 0 BY <1>7 DEF AtRest, Serving
  <2>3. QED BY <1>2, <1>7, <2>1, <2>2 DEF SpansOpen, ProcessOf
<1>16. Counted' BY <1>18
<1>17. QED BY <1>10, <1>11, <1>12, <1>13, <1>14, <1>15, <1>16

\* What a thread writes about what it is at belongs to that.
LEMMA LinesKept ==
  ASSUME TelemetryInv, NEW t \in Threads, NEW L,
         \A l \in L : /\ l.by = Activity(t) /\ l.correlation = context[t].correlation
                      /\ l.job = context[t].job
                      /\ l.event \in TaskEvents => serving[t].task # None,
         lines' = lines \cup L, telemetrySite' = telemetrySite,
         \A u \in Threads : serving'[u].request # None /\ ~serving'[u].interrupted =>
           /\ serving'[u].request = serving[u].request
           /\ serving'[u].answer = serving[u].answer
           /\ ~serving[u].interrupted
  PROVE  LinesBelong' /\ \A l \in L : l.by <= begun
<1> USE DEF TelemetryInv, None
<1>1. /\ serving[t] \in Servings /\ Fits(t, serving[t], context[t])
      /\ begun \in Nat
      /\ Activity(t) = ActivityOf(serving[t])
  BY DEF TelemetryTypes, Bound, Activity, ActivityOf
<1>2. ASSUME NEW l \in L, l.by # 0
      PROVE  /\ l.event \in TaskEvents => l.correlation = l.by
             /\ telemetrySite.eager \/ (l.job \in {l.by, 0} /\ l.correlation \in {l.by} \cup telemetrySite.headers)
  <2>1. l.by = Activity(t) /\ l.correlation = context[t].correlation /\ l.job = context[t].job
        /\ (l.event \in TaskEvents => serving[t].task # 0)
    OBVIOUS
  <2>2. CASE serving[t].task # 0 BY <1>1, <2>1, <2>2 DEF Fits, ActivityOf
  <2>3. CASE serving[t].task = 0 BY <1>1, <1>2, <2>1, <2>3 DEF Fits, ActivityOf
  <2>4. QED BY <2>2, <2>3
<1>3. ASSUME NEW u \in Threads, NEW l \in L, serving[u].request # 0, ~serving[u].interrupted,
             l.by = serving[u].request
      PROVE  l.correlation = serving[u].answer
  <2>1. l.by \in Its(t) /\ l.by \in Its(u) BY <1>1, <1>3 DEF Its, ActivityOf
  <2>2. u = t BY <2>1 DEF Numbers
  <2>3. serving[t].task = 0
    <3>1. CASE serving[t].task # 0 BY <1>1, <1>3, <2>2, <3>1 DEF Fits
    <3>2. QED BY <3>1
  <2>4. QED BY <1>1, <1>3, <2>2, <2>3 DEF Fits
<1>4. (\A l \in lines : l.by # 0 =>
         /\ l.event \in TaskEvents => l.correlation = l.by
         /\ telemetrySite.eager \/ (l.job \in {l.by, 0} /\ l.correlation \in {l.by} \cup telemetrySite.headers))'
  BY <1>2 DEF LinesBelong
<1>5. (\A u \in Threads : (serving[u].request # None /\ ~serving[u].interrupted) =>
         \A l \in lines : l.by = serving[u].request => l.correlation = serving[u].answer)'
  BY <1>3 DEF LinesBelong
<1>6. ASSUME NEW l \in L PROVE l.by <= begun
  <2>1. l.by = 0 \/ l.by \in Its(t) BY <1>1 DEF Its, ActivityOf
  <2>2. QED BY <1>1, <2>1 DEF Numbers
<1>7. QED BY <1>4, <1>5, <1>6 DEF LinesBelong

\* The engine's runs stay with the activity that noted them.
LEMMA RunsKept ==
  ASSUME TelemetryInv, NEW t \in Threads, NEW L,
         \A l \in L : l.by = Activity(t) /\ l.run = context[t].run,
         Activity(t) # None \/ context[t].run = None,
         lines' = lines \cup L, telemetrySite' = telemetrySite, noted' = noted,
         \A u \in Threads : context'[u].run \in {context[u].run, None},
         \A u \in Threads : \/ serving'[u].runs = {}
                            \/ /\ serving'[u].runs = serving[u].runs
                               /\ ActivityOf(serving'[u]) = ActivityOf(serving[u])
  PROVE  RunsNoted'
<1> USE DEF TelemetryInv, None
<1>1. /\ context[t].run <= noted /\ noted \in Nat
      /\ telemetrySite.eager \/ context[t].run \in serving[t].runs \cup {0}
  <2>1. /\ serving[t] \in Servings /\ Fits(t, serving[t], context[t])
        /\ Activity(t) = ActivityOf(serving[t])
    BY DEF TelemetryTypes, Bound, Activity, ActivityOf
  <2>2. QED BY <2>1 DEF Fits, RunsNoted, TelemetryTypes
<1>2. ASSUME ~telemetrySite.eager, context[t].run # 0
      PROVE  /\ \A l \in lines : l.run = context[t].run => l.by = Activity(t)
             /\ \A u \in Threads : context[t].run \in serving[u].runs => u = t
  BY <1>1, <1>2 DEF RunsNoted
<1>3. \A u \in Threads : \A r \in serving[u].runs : r # 0 BY <1>1 DEF RunsNoted
<1>4. (\A l \in lines : l.run <= noted)' BY <1>1 DEF RunsNoted
<1>5. (\A u \in Threads : context[u].run <= noted /\ \A r \in serving[u].runs : 0 < r /\ r <= noted)'
  <2>1. ASSUME NEW u \in Threads
        PROVE  context'[u].run <= noted /\ \A r \in serving'[u].runs : 0 < r /\ r <= noted
    BY <1>1 DEF RunsNoted
  <2>2. QED BY <2>1
<1>6. (\A u, v \in Threads : u # v => serving[u].runs \cap serving[v].runs = {})'
  <2>1. \A u \in Threads : serving'[u].runs \subseteq serving[u].runs
    OBVIOUS
  <2>2. QED BY <2>1 DEF RunsNoted
<1>7. ASSUME ~telemetrySite.eager
      PROVE  (/\ \A l, m \in lines : (l.run = m.run /\ l.run # None) => l.by = m.by
              /\ \A u \in Threads, l \in lines : l.run \in serving[u].runs => l.by = Activity(u))'
  <2>1. (\A l, m \in lines : (l.run = m.run /\ l.run # None) => l.by = m.by)'
    BY <1>2, <1>7 DEF RunsNoted
  <2>2. (\A u \in Threads, l \in lines : l.run \in serving[u].runs => l.by = Activity(u))'
    <3>1. ASSUME NEW u \in Threads, NEW l \in lines \cup L, l.run \in serving[u].runs
          PROVE  l.by = Activity(u)
      BY <1>2, <1>3, <1>7, <3>1 DEF RunsNoted
    <3>2. \A u \in Threads : serving'[u].runs = {} \/
            (serving'[u].runs = serving[u].runs /\ Activity(u)' = Activity(u))
      BY DEF Activity, ActivityOf
    <3>3. QED BY <3>1, <3>2
  <2>3. QED BY <2>1, <2>2
<1>8. QED BY <1>4, <1>5, <1>6, <1>7 DEF RunsNoted

\* A task is published by whoever is at work.
LEMMA PublishKeeps ==
  ASSUME TelemetryInv, NEW t \in Threads, Publish(t)
  PROVE  TelemetryInv'
<1> USE DEF TelemetryInv, None
<1> DEFINE s == serving[t]
<1>1. /\ telemetrySite' = telemetrySite /\ serving' = serving
      /\ spans' = spans /\ metrics' = metrics
      /\ noted' = noted /\ ended' = ended /\ begun \in Nat /\ begun' = begun + 1
      /\ Processes' = Processes /\ ~telemetrySite.eager
      /\ Activity(t) # 0 \/ telemetrySite.serves[t] = "schedule"
  BY DEF Publish, TelemetryTypes, Processes
<1>2. /\ s \in Servings /\ Fits(t, s, context[t]) /\ Activity(t) = ActivityOf(s)
  BY DEF TelemetryTypes, Bound, Activity, ActivityOf
<1>3. PICK k \in Contexts :
        /\ k = Filled(context[t], begun') /\ k.job = context[t].job
        /\ k.run = context[t].run
        /\ context[t].correlation # 0 => k = context[t]
  <2>1. context[t] \in Contexts BY DEF TelemetryTypes
  <2>2. CASE context[t].correlation = 0
    <3>1. PICK n \in Nat : n = begun' BY <1>1
    <3>5. PICK k \in Contexts : k = [context[t] EXCEPT !.correlation = n] BY <2>1 DEF Contexts
    <3>2. k = Filled(context[t], begun') BY <2>2, <3>1, <3>5 DEF Filled
    <3>3. k.job = context[t].job /\ k.run = context[t].run BY <2>1, <3>5 DEF Contexts
    <3>4. QED BY <2>2, <3>2, <3>3
  <2>3. CASE context[t].correlation # 0 BY <1>1, <2>1, <2>3 DEF Filled, Contexts
  <2>4. QED BY <2>2, <2>3
<1>15. PICK l : l = [by |-> Activity(t), event |-> "celery_task_published",
                     correlation |-> k.correlation, job |-> k.job, run |-> k.run]
  OBVIOUS
<1>4. context' = [context EXCEPT ![t] = k] /\ lines' = lines \cup {l}
  BY <1>3, <1>15 DEF Publish, Line
<1>5. ASSUME Activity(t) # 0 PROVE k = context[t] BY <1>1, <1>2, <1>3, <1>5 DEF Fits, ActivityOf
<1>6. ASSUME Activity(t) = 0
      PROVE  /\ telemetrySite.serves[t] = "schedule" /\ k.run = 0
             /\ s.request = 0 /\ s.task = 0 /\ ~s.interrupted
  BY <1>1, <1>2, <1>3, <1>6 DEF Fits, ActivityOf
<1>7. Activity(t) \in Nat /\ l \in Lines /\ l.by \in Nat
  BY <1>2, <1>15 DEF Lines, LineEvents, Contexts, Servings, ActivityOf
<1>8. TelemetryTypes' BY <1>1, <1>4, <1>7 DEF TelemetryTypes, Ends
<1>9. LinesBelong' /\ l.by <= begun
  <2>1. CASE Activity(t) # 0
    <3>1. \A x \in {l} : /\ x.by = Activity(t) /\ x.correlation = context[t].correlation
                         /\ x.job = context[t].job
                         /\ x.event \in TaskEvents => serving[t].task # None
      BY <1>5, <1>15, <2>1 DEF TaskEvents
    <3>2. \A u \in Threads : serving'[u].request # None /\ ~serving'[u].interrupted =>
            /\ serving'[u].request = serving[u].request
            /\ serving'[u].answer = serving[u].answer
            /\ ~serving[u].interrupted
      BY <1>1
    <3>3. lines' = lines \cup {l} /\ telemetrySite' = telemetrySite BY <1>1, <1>4
    <3>4. LinesBelong' /\ \A x \in {l} : x.by <= begun BY <3>1, <3>2, <3>3, LinesKept, Zenon
    <3>5. QED BY <3>4
  <2>2. CASE Activity(t) = 0 BY <1>1, <1>4, <1>15, <2>2 DEF LinesBelong, TelemetryTypes
  <2>3. QED BY <2>1, <2>2
<1>10. Numbers'
  <2>1. Its(t)' = Its(t) /\ \A u \in Threads : Its(u)' = Its(u) BY <1>1 DEF Its
  <2>2. /\ \A u \in Threads : \A m \in Its(u) : m \in Nat /\ m <= begun
        /\ \A e \in ended : e.number \in Nat /\ e.number <= begun
        /\ \A x \in lines : x.by \in Nat /\ x.by <= begun
    BY DEF Numbers, Its, TelemetryTypes, Servings, Ends, Lines
  <2>3. \A x \in lines' : x.by <= begun' BY <1>1, <1>4, <1>7, <1>9, <2>2
  <2>4. QED BY <1>1, <2>1, <2>2, <2>3 DEF Numbers
<1>11. Bound'
  <2>1. Fits(t, serving[t], context[t])'
    <3>1. context'[t] = k BY <1>4 DEF TelemetryTypes
    <3>2. CASE Activity(t) # 0 BY <1>1, <1>2, <1>5, <3>1, <3>2 DEF Fits
    <3>3. CASE Activity(t) = 0 BY <1>1, <1>2, <1>6, <3>1, <3>3 DEF Fits, ActivityOf
    <3>4. QED BY <3>2, <3>3
  <2>2. ASSUME NEW u \in Threads, u # t PROVE Fits(u, serving[u], context[u])'
    BY <1>1, <1>4, <2>2 DEF Bound, Fits, TelemetryTypes
  <2>3. QED BY <2>1, <2>2 DEF Bound
<1>12. RunsNoted'
  <2>1. \A x \in {l} : x.by = Activity(t) /\ x.run = context[t].run BY <1>3, <1>15
  <2>2. \A u \in Threads : context'[u].run = context[u].run BY <1>1, <1>3, <1>4 DEF TelemetryTypes
  <2>3. Activity(t) # None \/ context[t].run = None BY <1>3, <1>6
  <2>4. \A u \in Threads : /\ context'[u].run \in {context[u].run, None}
                           /\ \/ serving'[u].runs = {}
                              \/ /\ serving'[u].runs = serving[u].runs
                                  /\ ActivityOf(serving'[u]) = ActivityOf(serving[u])
    BY <1>1, <2>2
  <2>5. lines' = lines \cup {l} /\ telemetrySite' = telemetrySite /\ noted' = noted BY <1>1, <1>4
  <2>6. QED
    <3>1. PICK L : L = {l}
      OBVIOUS
    <3>2. \A x \in L : x.by = Activity(t) /\ x.run = context[t].run BY <2>1, <3>1
    <3>3. lines' = lines \cup L /\ telemetrySite' = telemetrySite /\ noted' = noted BY <2>5, <3>1
    <3>4. \A u \in Threads : context'[u].run \in {context[u].run, None} BY <2>4
    <3>5. \A u \in Threads : \/ serving'[u].runs = {}
                             \/ /\ serving'[u].runs = serving[u].runs
                                /\ ActivityOf(serving'[u]) = ActivityOf(serving[u])
      BY <2>4
    <3>6. QED BY <2>3, <3>2, <3>3, <3>4, <3>5, RunsKept, Zenon
<1>13. SpansOpen' /\ Counted' BY <1>1 DEF SpansOpen, Counted, Ended, Bad, ProcessOf
<1>14. QED BY <1>8, <1>9, <1>10, <1>11, <1>12, <1>13

\* What the binding of a context makes of it.
LEMMA FreshContext ==
  ASSUME NEW c, NEW n \in Nat, n # None, NEW j \in Nat
  PROVE  LET k == [BindContext(c, None, n) EXCEPT !.job = j] IN
         k \in Contexts /\ k.correlation = n /\ k.job = j /\ k.run = None
<1> DEFINE b == BindContext(c, None, n)
<1>1. b \in Contexts /\ b.correlation = n /\ b.run = 0 BY DEF BindContext, Context, Contexts, None
<1> HIDE DEF b
<1>2. PICK a \in Contexts : a = b /\ a.correlation = n /\ a.run = 0 BY <1>1
<1>3. PICK k \in Contexts : k = [a EXCEPT !.job = j] BY DEF Contexts
<1>4. k.correlation = n /\ k.job = j /\ k.run = 0 BY <1>2, <1>3 DEF Contexts
<1>5. QED BY <1>2, <1>3, <1>4 DEF b, None

\* A line says what its context says.
LEMMA LineIs ==
  ASSUME NEW n \in Nat, NEW k \in Contexts, NEW event \in LineEvents
  PROVE  LET l == Line(n, event, k) IN
         /\ l \in Lines /\ l.by = n /\ l.event = event
         /\ l.correlation = k.correlation /\ l.job = k.job /\ l.run = k.run
  BY DEF Line, Lines, Contexts

\* A request runs a task in its own thread and is interrupted by it.
LEMMA RunEagerlyKeeps ==
  ASSUME TelemetryInv, NEW t \in Threads, RunEagerly(t)
  PROVE  TelemetryInv'
<1> USE DEF TelemetryInv, None
<1>1. PICK n \in Nat : n = begun + 1 /\ n = begun' /\ n # 0 BY DEF RunEagerly, TelemetryTypes
<1>2. /\ telemetrySite' = telemetrySite /\ spans' = spans /\ metrics' = metrics
      /\ noted' = noted /\ ended' = ended /\ Processes' = Processes
      /\ telemetrySite.eager
      /\ serving[t].request # 0 /\ serving[t].task = 0
  BY DEF RunEagerly, Processes
<1>3. /\ serving[t] \in Servings /\ Fits(t, serving[t], context[t]) BY DEF TelemetryTypes, Bound
<1>4. PICK k \in Contexts :
        /\ k = [BindContext(context[t], 0, n) EXCEPT !.job = n]
        /\ k.correlation = n /\ k.job = n /\ k.run = 0
  <2>1. PICK c, k : c = context[t] /\ k = [BindContext(c, None, n) EXCEPT !.job = n]
    OBVIOUS
  <2>2. k \in Contexts /\ k.correlation = n /\ k.job = n /\ k.run = None BY <1>1, <2>1, FreshContext
  <2>3. QED BY <2>1, <2>2
<1>5. PICK s \in Servings :
        /\ serving' \in [Threads -> Servings] /\ s = serving'[t]
        /\ \A u \in Threads \ {t} : serving'[u] = serving[u]
        /\ s.request = serving[t].request /\ s.answer = serving[t].answer
        /\ s.before = serving[t].before
        /\ s.task = n /\ s.job = n /\ s.interrupted = TRUE
        /\ s.runs = serving[t].runs
  <2>1. PICK a \in Servings : a = serving[t] BY DEF TelemetryTypes
  <2>2. PICK b \in Servings : b = [a EXCEPT !.task = n] BY DEF Servings
  <2>3. PICK d \in Servings : d = [b EXCEPT !.job = n] BY <1>1 DEF Servings
  <2>4. PICK e \in Servings : e = [d EXCEPT !.interrupted = TRUE] BY DEF Servings
  <2>5. /\ e.request = a.request /\ e.answer = a.answer /\ e.before = a.before
        /\ e.interrupted = TRUE /\ e.task = n /\ e.job = n /\ e.runs = a.runs
    BY <2>2, <2>3, <2>4 DEF Servings
  <2>6. serving' = [serving EXCEPT ![t].task = n, ![t].job = n, ![t].interrupted = TRUE]
    BY <1>1 DEF RunEagerly
  <2>7. serving' = [serving EXCEPT ![t] = e] BY <2>1, <2>2, <2>3, <2>4, <2>6
  <2>8. serving'[t] = e /\ serving' \in [Threads -> Servings]
        /\ \A u \in Threads \ {t} : serving'[u] = serving[u]
    BY <2>7 DEF TelemetryTypes
  <2>9. QED BY <1>3, <2>1, <2>5, <2>8
<1>6. PICK l \in Lines :
        /\ l = Line(n, "celery_task_started", k)
        /\ l.by = n /\ l.event = "celery_task_started" /\ l.correlation = n
        /\ l.job = n /\ l.run = 0
  <2>1. PICK l : l = Line(n, "celery_task_started", k)
    OBVIOUS
  <2>2. "celery_task_started" \in LineEvents BY DEF LineEvents, TaskEvents
  <2>3. /\ l \in Lines /\ l.by = n /\ l.event = "celery_task_started"
        /\ l.correlation = k.correlation /\ l.job = k.job /\ l.run = k.run
    BY <2>1, <2>2, LineIs
  <2>4. QED BY <1>4, <2>1, <2>3
<1>7. /\ context' = [context EXCEPT ![t] = k]
      /\ lines' = lines \cup {l}
  BY <1>1, <1>4, <1>6 DEF RunEagerly
<1>8. /\ serving'[t] = s /\ context'[t] = k
      /\ \A u \in Threads \ {t} : serving'[u] = serving[u] /\ context'[u] = context[u]
  BY <1>5, <1>7 DEF TelemetryTypes
<1>9. TelemetryTypes' BY <1>1, <1>2, <1>5, <1>7 DEF TelemetryTypes, Ends
<1>10. Numbers'
  <2>1. /\ serving'[t].request \in {serving[t].request, begun + 1}
        /\ serving'[t].task \in {serving[t].task, begun + 1}
        /\ \A u \in Threads \ {t} : serving'[u] = serving[u]
        /\ \A x \in lines' : x \in lines \/ x.by = begun + 1
        /\ begun' = begun + 1 /\ ended' = ended
    BY <1>1, <1>2, <1>5, <1>6, <1>7, <1>8
  <2>2. QED BY <2>1, NumbersTaken
<1>11. Bound'
  <2>1. Fits(t, serving[t], context[t])' BY <1>1, <1>2, <1>3, <1>4, <1>5, <1>8 DEF Fits, ActivityOf
  <2>2. ASSUME NEW u \in Threads, u # t PROVE Fits(u, serving[u], context[u])'
    BY <1>2, <1>8, <2>2 DEF Bound, Fits
  <2>3. QED BY <2>1, <2>2 DEF Bound
<1>12. LinesBelong'
  <2>1. (\A x \in lines : x.by # 0 =>
         /\ x.event \in TaskEvents => x.correlation = x.by
         /\ telemetrySite.eager \/ (x.job \in {x.by, 0} /\ x.correlation \in {x.by} \cup telemetrySite.headers))'
    BY <1>2, <1>6, <1>7 DEF LinesBelong
  <2>2. \A u \in Threads : serving[u].request # n BY <1>1 DEF Numbers, TelemetryTypes, Servings, Its
  <2>3. QED BY <1>5, <1>6, <1>7, <1>8, <2>1, <2>2 DEF LinesBelong
<1>13. RunsNoted'
  <2>1. noted \in Nat BY DEF TelemetryTypes
  <2>2. QED BY <1>2, <1>4, <1>5, <1>6, <1>7, <1>8, <2>1 DEF RunsNoted
<1>14. SpansOpen' /\ Counted'
  <2>1. \A u \in Threads : serving'[u].request = serving[u].request /\ serving'[u].answer = serving[u].answer
    BY <1>5
  <2>2. SpansOpen' BY <1>2, <2>1 DEF SpansOpen, ProcessOf
  <2>3. Counted' BY <1>2 DEF Counted, Ended, Bad
  <2>4. QED BY <2>2, <2>3
<1>15. QED BY <1>9, <1>10, <1>11, <1>12, <1>13, <1>14

\* A task begins in a context of its own.
LEMMA TaskPrerunKeeps ==
  ASSUME TelemetryInv, NEW t \in Threads, TaskPrerun(t)
  PROVE  TelemetryInv'
<1> USE DEF TelemetryInv, None
<1>1. PICK n \in Nat : n = begun + 1 /\ n = begun' /\ n # 0 BY DEF TaskPrerun, TelemetryTypes
<1>2. /\ telemetrySite' = telemetrySite /\ spans' = spans /\ metrics' = metrics
      /\ noted' = noted /\ ended' = ended /\ Processes' = Processes
      /\ telemetrySite.serves[t] = "tasks" /\ serving[t].task = 0
  BY DEF TaskPrerun, Processes
<1>3. /\ serving[t] \in Servings /\ Fits(t, serving[t], context[t])
      /\ serving[t].request = 0 /\ ~serving[t].interrupted
  BY <1>2 DEF TelemetryTypes, Bound, Fits
<1>4. PICK j \in Nat :
        /\ j \in {0, n}
        /\ context' = [context EXCEPT ![t] = [BindContext(context[t], 0, n) EXCEPT !.job = j]]
        /\ serving' = [serving EXCEPT ![t].task = n, ![t].job = j, ![t].runs = {}]
        /\ lines' = lines \cup {Line(n, "celery_task_started", [BindContext(context[t], 0, n) EXCEPT !.job = j])}
  <2>1. PICK j \in {begun', 0} :
          /\ context' = [context EXCEPT ![t] = [BindContext(context[t], 0, begun') EXCEPT !.job = j]]
          /\ serving' = [serving EXCEPT ![t].task = begun', ![t].job = j, ![t].runs = {}]
          /\ lines' = lines \cup {Line(begun', "celery_task_started",
                                       [BindContext(context[t], 0, begun') EXCEPT !.job = j])}
    BY DEF TaskPrerun
  <2>2. QED BY <1>1, <2>1
<1>5. PICK k \in Contexts :
        /\ k = [BindContext(context[t], 0, n) EXCEPT !.job = j]
        /\ k.correlation = n /\ k.job = j /\ k.run = 0
  <2>1. PICK c, k : c = context[t] /\ k = [BindContext(c, None, n) EXCEPT !.job = j]
    OBVIOUS
  <2>2. k \in Contexts /\ k.correlation = n /\ k.job = j /\ k.run = None BY <1>1, <2>1, FreshContext
  <2>3. QED BY <2>1, <2>2
<1>6. PICK s \in Servings :
        /\ serving' \in [Threads -> Servings] /\ s = serving'[t]
        /\ \A u \in Threads \ {t} : serving'[u] = serving[u]
        /\ s.request = 0 /\ s.task = n /\ s.job = j /\ ~s.interrupted
        /\ s.runs = {}
  <2>1. PICK a \in Servings : a = serving[t] BY DEF TelemetryTypes
  <2>2. PICK b \in Servings : b = [a EXCEPT !.task = n] BY DEF Servings
  <2>3. PICK d \in Servings : d = [b EXCEPT !.job = j] BY <1>1 DEF Servings
  <2>4. PICK e \in Servings : e = [d EXCEPT !.runs = {}] BY DEF Servings
  <2>5. /\ e.request = a.request /\ e.answer = a.answer /\ e.before = a.before
        /\ e.interrupted = a.interrupted /\ e.task = n /\ e.job = j /\ e.runs = {}
    BY <2>2, <2>3, <2>4 DEF Servings
  <2>6. serving' = [serving EXCEPT ![t].task = n, ![t].job = j, ![t].runs = {}] BY <1>4
  <2>7. serving' = [serving EXCEPT ![t] = e] BY <2>1, <2>2, <2>3, <2>4, <2>6
  <2>8. serving'[t] = e /\ serving' \in [Threads -> Servings]
        /\ \A u \in Threads \ {t} : serving'[u] = serving[u]
    BY <2>7 DEF TelemetryTypes
  <2>9. QED BY <1>3, <2>1, <2>5, <2>8
<1>7. PICK l \in Lines :
        /\ l = Line(n, "celery_task_started", k)
        /\ l.by = n /\ l.event = "celery_task_started" /\ l.correlation = n
        /\ l.job = j /\ l.run = 0
  <2>1. PICK l : l = Line(n, "celery_task_started", k)
    OBVIOUS
  <2>2. "celery_task_started" \in LineEvents BY DEF LineEvents, TaskEvents
  <2>3. /\ l \in Lines /\ l.by = n /\ l.event = "celery_task_started"
        /\ l.correlation = k.correlation /\ l.job = k.job /\ l.run = k.run
    BY <2>1, <2>2, LineIs
  <2>4. QED BY <1>5, <2>1, <2>3
<1>8. /\ context' = [context EXCEPT ![t] = k]
      /\ lines' = lines \cup {l}
  BY <1>4, <1>5, <1>7
<1>9. /\ serving'[t] = s /\ context'[t] = k
      /\ \A u \in Threads \ {t} : serving'[u] = serving[u] /\ context'[u] = context[u]
  BY <1>6, <1>8 DEF TelemetryTypes
<1>10. TelemetryTypes' BY <1>1, <1>2, <1>6, <1>8 DEF TelemetryTypes, Ends
<1>11. Numbers'
  <2>1. /\ serving'[t].request \in {serving[t].request, begun + 1}
        /\ serving'[t].task \in {serving[t].task, begun + 1}
        /\ \A u \in Threads \ {t} : serving'[u] = serving[u]
        /\ \A x \in lines' : x \in lines \/ x.by = begun + 1
        /\ begun' = begun + 1 /\ ended' = ended
    BY <1>1, <1>2, <1>3, <1>6, <1>7, <1>8, <1>9
  <2>2. QED BY <2>1, NumbersTaken
<1>12. Bound'
  <2>1. Fits(t, serving[t], context[t])'
    <3>1. Fits(t, s, k) BY <1>1, <1>2, <1>4, <1>5, <1>6 DEF Fits, ActivityOf
    <3>2. QED BY <1>2, <1>9, <3>1 DEF Fits
  <2>2. ASSUME NEW u \in Threads, u # t PROVE Fits(u, serving[u], context[u])'
    BY <1>2, <1>9, <2>2 DEF Bound, Fits
  <2>3. QED BY <2>1, <2>2 DEF Bound
<1>13. LinesBelong'
  <2>1. (\A x \in lines : x.by # 0 =>
         /\ x.event \in TaskEvents => x.correlation = x.by
         /\ telemetrySite.eager \/ (x.job \in {x.by, 0} /\ x.correlation \in {x.by} \cup telemetrySite.headers))'
    BY <1>2, <1>4, <1>7, <1>8 DEF LinesBelong
  <2>2. \A u \in Threads : serving[u].request # n BY <1>1 DEF Numbers, TelemetryTypes, Servings, Its
  <2>3. QED BY <1>6, <1>7, <1>8, <1>9, <2>1, <2>2 DEF LinesBelong
<1>14. RunsNoted'
  <2>1. \A u \in Threads \ {t} : Activity(u)' = Activity(u) BY <1>9 DEF Activity
  <2>2. noted \in Nat BY DEF TelemetryTypes
  <2>3. (\A x \in lines : x.run <= noted)' BY <1>2, <1>7, <1>8, <2>2 DEF RunsNoted
  <2>4. (\A u \in Threads : context[u].run <= noted /\ \A r \in serving[u].runs : 0 < r /\ r <= noted)'
    <3>1. context'[t].run <= noted /\ \A r \in serving'[t].runs : 0 < r /\ r <= noted
      BY <1>5, <1>6, <1>9, <2>2
    <3>2. \A u \in Threads \ {t} : context'[u].run <= noted /\ \A r \in serving'[u].runs : 0 < r /\ r <= noted
      BY <1>9 DEF RunsNoted
    <3>3. QED BY <1>2, <3>1, <3>2
  <2>5. (\A u, v \in Threads : u # v => serving[u].runs \cap serving[v].runs = {})'
    BY <1>6, <1>9 DEF RunsNoted
  <2>6. ASSUME ~telemetrySite.eager
        PROVE  (/\ \A x, m \in lines : (x.run = m.run /\ x.run # None) => x.by = m.by
                /\ \A u \in Threads, x \in lines : x.run \in serving[u].runs => x.by = Activity(u))'
    BY <1>6, <1>7, <1>8, <1>9, <2>1, <2>2, <2>6 DEF RunsNoted
  <2>7. QED BY <1>2, <2>3, <2>4, <2>5, <2>6 DEF RunsNoted
<1>15. SpansOpen' /\ Counted'
  BY <1>2, <1>3, <1>6, <1>9 DEF SpansOpen, Counted, Ended, Bad, ProcessOf
<1>16. QED BY <1>10, <1>11, <1>12, <1>13, <1>14, <1>15

\* A task ends: it is counted, and what it interrupted goes on.
LEMMA TaskPostrunKeeps ==
  ASSUME TelemetryInv, NEW t \in Threads, TaskPostrun(t)
  PROVE  TelemetryInv'
<1> USE DEF TelemetryInv, None
<1> DEFINE p == ProcessOf(t)
<1>1. PICK n \in Nat : n = serving[t].task /\ n # 0 BY DEF TaskPostrun, TelemetryTypes, Servings
<1>2. /\ p \in Processes /\ p' = p /\ Processes' = Processes
      /\ telemetrySite' = telemetrySite /\ begun' = begun /\ noted' = noted
      /\ begun \in Nat /\ noted \in Nat /\ spans' = spans /\ context' = context
  BY DEF TelemetryTypes, Processes, ProcessOf, TaskPostrun
<1>3. /\ serving[t] \in Servings /\ Fits(t, serving[t], context[t])
      /\ context[t] \in Contexts
      /\ Activity(t) = n
  BY <1>1 DEF TelemetryTypes, Bound, Activity
<1>4. PICK state \in {"SUCCESS", "FAILURE", "RETRY"} :
        /\ metrics' = [metrics EXCEPT ![p] = CountTask(@, state)]
        /\ ended' = ended \cup {[what |-> "task", number |-> n, process |-> p, bad |-> state = "FAILURE"]}
        /\ lines' = lines
             \cup {Line(n, IF Succeeded(state) THEN "celery_task_completed" ELSE "celery_task_failed", context[t])}
             \cup FailureLines(state, n, context[t])
  <2>1. PICK state \in {"SUCCESS", "FAILURE"} \cup (IF telemetrySite.eager THEN {} ELSE {"RETRY"}) :
        /\ metrics' = [metrics EXCEPT ![p] = CountTask(@, state)]
        /\ ended' = ended \cup
             {[what |-> "task", number |-> serving[t].task, process |-> p, bad |-> state = "FAILURE"]}
        /\ lines' = lines
             \cup {Line(serving[t].task, IF Succeeded(state) THEN "celery_task_completed" ELSE "celery_task_failed", context[t])}
             \cup FailureLines(state, serving[t].task, context[t])
    BY DEF TaskPostrun
  <2>2. QED BY <1>1, <2>1
<1>5. PICK e \in Ends, x \in {0, 1}, v \in CounterValues :
        /\ e.what = "task" /\ e.number = n /\ e.process = p /\ (e.bad = TRUE <=> x = 1)
        /\ ended' = ended \cup {e}
        /\ v.http = metrics[p].http /\ v.errors = metrics[p].errors
        /\ v.tasks = metrics[p].tasks + 1 /\ v.failed = metrics[p].failed + x
        /\ v.succeeded = metrics[p].succeeded + (1 - x)
        /\ metrics' = [metrics EXCEPT ![p] = v]
  <2>1. PICK x \in {0, 1}, y \in {0, 1} :
          y = (IF Succeeded(state) THEN 1 ELSE 0) /\ x = (IF Succeeded(state) THEN 0 ELSE 1)
    OBVIOUS
  <2>2. y = 1 - x /\ (state = "FAILURE" <=> x = 1) BY <2>1 DEF Succeeded
  <2>3. PICK m \in CounterValues : m = metrics[p] BY <1>2 DEF TelemetryTypes
  <2>4. PICK a \in Nat, b \in Nat, d \in Nat : a = m.tasks + 1 /\ b = m.succeeded + y /\ d = m.failed + x
    BY DEF CounterValues
  <2>5. PICK v1 \in CounterValues : v1 = [m EXCEPT !.tasks = a] BY DEF CounterValues
  <2>6. PICK v2 \in CounterValues : v2 = [v1 EXCEPT !.succeeded = b] BY DEF CounterValues
  <2>7. PICK v \in CounterValues : v = [v2 EXCEPT !.failed = d] BY DEF CounterValues
  <2>8. /\ v.http = m.http /\ v.errors = m.errors /\ v.tasks = a
        /\ v.succeeded = b /\ v.failed = d
        /\ v1.succeeded = m.succeeded /\ v2.failed = m.failed
    BY <2>5, <2>6, <2>7 DEF CounterValues
  <2>9. v = CountTask(m, state)
    <3>1. CountTask(m, state) = [m EXCEPT !.tasks = @ + 1, !.succeeded = @ + y, !.failed = @ + x]
      BY <2>1 DEF CountTask
    <3>2. QED BY <2>4, <2>5, <2>6, <2>7, <2>8, <3>1
  <2>10. PICK e : e = [what |-> "task", number |-> n, process |-> p, bad |-> state = "FAILURE"]
    OBVIOUS
  <2>11. e \in Ends /\ e.what = "task" /\ e.number = n /\ e.process = p /\ (e.bad = TRUE <=> x = 1)
    <3>1. CASE state = "FAILURE" BY <1>2, <2>2, <2>10, <3>1 DEF Ends
    <3>2. CASE state # "FAILURE" BY <1>2, <2>2, <2>10, <3>2 DEF Ends
    <3>3. QED BY <3>1, <3>2
  <2>12. metrics' = [metrics EXCEPT ![p] = v] /\ ended' = ended \cup {e} BY <1>4, <2>3, <2>9, <2>10
  <2>13. QED BY <2>2, <2>3, <2>4, <2>8, <2>11, <2>12
<1>6. PICK L \in SUBSET Lines :
        /\ lines' = lines \cup L
        /\ \A l \in L : /\ l.by = n /\ l.correlation = context[t].correlation
                        /\ l.job = context[t].job /\ l.run = context[t].run
  <2>1. PICK k \in Contexts : k = context[t] BY <1>3
  <2>2. PICK L : L = {Line(n, IF Succeeded(state) THEN "celery_task_completed" ELSE "celery_task_failed", k)}
                       \cup FailureLines(state, n, k)
    OBVIOUS
  <2>3. ASSUME NEW l \in L
        PROVE  \E event \in LineEvents : l = Line(n, event, k)
    <3>1. {"celery_task_completed", "celery_task_failed", "celery_task_retrying"} \subseteq LineEvents
      BY DEF LineEvents, TaskEvents
    <3>2. CASE l = Line(n, IF Succeeded(state) THEN "celery_task_completed" ELSE "celery_task_failed", k)
      <4>1. CASE Succeeded(state) BY <3>1, <3>2, <4>1
      <4>2. CASE ~Succeeded(state) BY <3>1, <3>2, <4>2
      <4>3. QED BY <4>1, <4>2
    <3>3. CASE l \in FailureLines(state, n, k) BY <3>1, <3>3 DEF FailureLines
    <3>4. QED BY <2>2, <3>2, <3>3
  <2>4. ASSUME NEW l \in L
        PROVE  l \in Lines /\ l.by = n /\ l.correlation = k.correlation /\ l.job = k.job /\ l.run = k.run
    <3>1. PICK event \in LineEvents : l = Line(n, event, k) BY <2>3
    <3>2. QED BY <3>1 DEF Line, Lines, Contexts
  <2>5. QED BY <1>4, <2>1, <2>2, <2>4
<1>7. PICK s \in Servings :
        /\ serving' \in [Threads -> Servings] /\ s = serving'[t]
        /\ \A u \in Threads \ {t} : serving'[u] = serving[u]
        /\ s.request = serving[t].request /\ s.answer = serving[t].answer
        /\ s.before = serving[t].before
        /\ s.task = 0 /\ s.job = 0 /\ s.interrupted = serving[t].interrupted
        /\ s.runs = {}
  <2>1. PICK a \in Servings : a = serving[t] BY <1>3
  <2>2. PICK b \in Servings : b = [a EXCEPT !.task = 0] BY DEF Servings
  <2>3. PICK d \in Servings : d = [b EXCEPT !.job = 0] BY DEF Servings
  <2>4. PICK f \in Servings : f = [d EXCEPT !.runs = {}] BY DEF Servings
  <2>5. /\ f.request = a.request /\ f.answer = a.answer /\ f.before = a.before
        /\ f.interrupted = a.interrupted /\ f.task = 0 /\ f.job = 0 /\ f.runs = {}
    BY <2>2, <2>3, <2>4 DEF Servings
  <2>6. serving' = [serving EXCEPT ![t].task = 0, ![t].job = 0, ![t].runs = {}] BY DEF TaskPostrun
  <2>7. serving' = [serving EXCEPT ![t] = f] BY <2>1, <2>2, <2>3, <2>4, <2>6
  <2>8. serving'[t] = f /\ serving' \in [Threads -> Servings]
        /\ \A u \in Threads \ {t} : serving'[u] = serving[u]
    BY <2>7 DEF TelemetryTypes
  <2>9. QED BY <2>1, <2>5, <2>8
<1>8. e \notin ended BY <1>1, <1>5 DEF Numbers
<1>9. Counted' /\ metrics' \in [Processes -> CounterValues] /\ ended' \in SUBSET Ends /\ IsFiniteSet(ended')
  <2>1. /\ metrics[p].succeeded + metrics[p].failed = metrics[p].tasks
        /\ metrics[p] \in CounterValues
    BY <1>2 DEF Counted, TelemetryTypes
  <2>2. /\ v.http = metrics[p].http + (IF e.what = "request" THEN 1 ELSE 0)
        /\ v.errors = metrics[p].errors + (IF e.what = "request" /\ e.bad = TRUE THEN 1 ELSE 0)
        /\ v.tasks = metrics[p].tasks + (IF e.what = "task" THEN 1 ELSE 0)
        /\ v.failed = metrics[p].failed + (IF e.what = "task" /\ e.bad = TRUE THEN 1 ELSE 0)
        /\ v.succeeded + v.failed = v.tasks
    BY <1>5, <2>1 DEF CounterValues
  <2>3. QED BY <1>2, <1>5, <1>8, <2>2, CountedAfter
<1>10. TelemetryTypes' BY <1>2, <1>6, <1>7, <1>9 DEF TelemetryTypes, Ends
<1>11. LinesBelong' /\ \A l \in L : l.by <= begun
  <2>1. \A l \in L : /\ l.by = Activity(t) /\ l.correlation = context[t].correlation
                     /\ l.job = context[t].job
                     /\ l.event \in TaskEvents => serving[t].task # None
    BY <1>1, <1>3, <1>6
  <2>2. \A u \in Threads : serving'[u].request # None /\ ~serving'[u].interrupted =>
          /\ serving'[u].request = serving[u].request
          /\ serving'[u].answer = serving[u].answer
          /\ ~serving[u].interrupted
    BY <1>7
  <2>3. lines' = lines \cup L /\ telemetrySite' = telemetrySite BY <1>2, <1>6
  <2>4. QED BY <2>1, <2>2, <2>3, LinesKept, Zenon
<1>12. Numbers'
  <2>1. Its(t)' \subseteq Its(t) /\ \A u \in Threads \ {t} : Its(u)' = Its(u) BY <1>7 DEF Its
  <2>2. \A u \in Threads \ {t} : serving[u].task # n BY <1>1 DEF Numbers, Its
  <2>3. n <= begun BY <1>1 DEF Numbers, Its
  <2>4. (\A u \in Threads : \A m \in Its(u) : m <= begun)' BY <1>2, <2>1 DEF Numbers
  <2>5. (\A u, w \in Threads : u # w => Its(u) \cap Its(w) = {})' BY <2>1 DEF Numbers
  <2>6. (\A l \in lines : l.by <= begun)' BY <1>2, <1>6, <1>11 DEF Numbers
  <2>7. (\A f \in ended : f.number <= begun /\ (f.what # "loss" => f.number # 0))'
    BY <1>1, <1>2, <1>5, <2>3 DEF Numbers
  <2>8. (\A f \in ended : \A u \in Threads :
          /\ f.what = "request" => f.number # serving[u].request
          /\ f.what = "task" => f.number # serving[u].task)'
    BY <1>1, <1>5, <1>7, <2>2, <2>7 DEF Numbers
  <2>9. QED BY <2>4, <2>5, <2>6, <2>7, <2>8 DEF Numbers
<1>13. Bound'
  <2>1. Fits(t, serving[t], context[t])' BY <1>1, <1>2, <1>3, <1>7 DEF Fits, ActivityOf
  <2>2. ASSUME NEW u \in Threads, u # t PROVE Fits(u, serving[u], context[u])'
    BY <1>2, <1>7, <2>2 DEF Bound, Fits
  <2>3. QED BY <2>1, <2>2 DEF Bound
<1>14. RunsNoted'
  <2>1. \A l \in L : l.by = Activity(t) /\ l.run = context[t].run BY <1>3, <1>6
  <2>2. Activity(t) # None \/ context[t].run = None BY <1>1, <1>3
  <2>3. lines' = lines \cup L /\ telemetrySite' = telemetrySite /\ noted' = noted BY <1>2, <1>6
  <2>4. \A u \in Threads : context'[u].run \in {context[u].run, None} BY <1>2
  <2>5. \A u \in Threads : \/ serving'[u].runs = {}
                           \/ /\ serving'[u].runs = serving[u].runs
                              /\ ActivityOf(serving'[u]) = ActivityOf(serving[u])
    BY <1>7
  <2>6. QED BY <2>1, <2>2, <2>3, <2>4, <2>5, RunsKept, Zenon
<1>15. SpansOpen'
  <2>1. \A u \in Threads : serving'[u].request = serving[u].request /\ serving'[u].answer = serving[u].answer
    BY <1>7
  <2>2. QED BY <1>2, <2>1 DEF SpansOpen, ProcessOf
<1>16. QED BY <1>9, <1>10, <1>11, <1>12, <1>13, <1>14, <1>15

\* The engine notes a run of what its thread is at.
LEMMA LogWorkflowEventKeeps ==
  ASSUME TelemetryInv, NEW t \in Threads, LogWorkflowEvent(t)
  PROVE  TelemetryInv'
<1> USE DEF TelemetryInv, None
<1>1. PICK r \in Nat : r = noted + 1 /\ r = noted' /\ r # 0 /\ noted \in Nat
  BY DEF LogWorkflowEvent, TelemetryTypes
<1>2. PICK n \in Nat : n = Activity(t) /\ n # 0
  BY DEF LogWorkflowEvent, TelemetryTypes, Activity, Servings
<1>3. /\ telemetrySite' = telemetrySite /\ spans' = spans
      /\ metrics' = metrics /\ begun' = begun
      /\ ended' = ended /\ Processes' = Processes
  BY DEF LogWorkflowEvent, Processes
<1>4. /\ serving[t] \in Servings /\ Fits(t, serving[t], context[t])
      /\ context[t] \in Contexts
      /\ ActivityOf(serving[t]) = n
  BY <1>2 DEF TelemetryTypes, Bound, Activity, ActivityOf
<1>5. PICK k \in Contexts :
        /\ k = [context[t] EXCEPT !.run = r]
        /\ k.correlation = context[t].correlation /\ k.job = context[t].job
        /\ k.run = r
  <2>1. PICK c \in Contexts : c = context[t] BY <1>4
  <2>2. PICK k \in Contexts : k = [c EXCEPT !.run = r] BY DEF Contexts
  <2>3. k.correlation = c.correlation /\ k.job = c.job /\ k.run = r BY <2>2 DEF Contexts
  <2>4. QED BY <2>1, <2>2, <2>3
<1>6. PICK l \in Lines :
        /\ l = Line(n, "workflow", k) /\ l.by = n /\ l.event = "workflow"
        /\ l.correlation = k.correlation /\ l.job = k.job /\ l.run = r
  <2>1. PICK l : l = Line(n, "workflow", k)
    OBVIOUS
  <2>2. "workflow" \in LineEvents BY DEF LineEvents
  <2>3. /\ l \in Lines /\ l.by = n /\ l.event = "workflow"
        /\ l.correlation = k.correlation /\ l.job = k.job /\ l.run = k.run
    BY <2>1, <2>2, LineIs
  <2>4. QED BY <1>5, <2>1, <2>3
<1>7. PICK s \in Servings :
        /\ s = [serving[t] EXCEPT !.runs = @ \cup {r}]
        /\ s.request = serving[t].request /\ s.answer = serving[t].answer
        /\ s.before = serving[t].before
        /\ s.task = serving[t].task /\ s.job = serving[t].job
        /\ s.interrupted = serving[t].interrupted
        /\ s.runs = serving[t].runs \cup {r}
  <2>1. PICK a \in Servings : a = serving[t] BY <1>4
  <2>2. PICK R \in SUBSET Nat : R = a.runs \cup {r} BY DEF Servings
  <2>3. PICK s \in Servings : s = [a EXCEPT !.runs = R] BY DEF Servings
  <2>4. /\ s.request = a.request /\ s.answer = a.answer /\ s.before = a.before
        /\ s.task = a.task /\ s.job = a.job /\ s.interrupted = a.interrupted
        /\ s.runs = R
    BY <2>3 DEF Servings
  <2>5. QED BY <2>1, <2>2, <2>3, <2>4
<1>8. /\ context' = [context EXCEPT ![t] = k]
      /\ lines' = lines \cup {l}
      /\ serving' = [serving EXCEPT ![t] = s]
  <2>1. /\ context' = [context EXCEPT ![t] = [context[t] EXCEPT !.run = noted']]
        /\ lines' = lines \cup {Line(Activity(t), "workflow", [context[t] EXCEPT !.run = noted'])}
        /\ serving' = [serving EXCEPT ![t].runs = @ \cup {noted'}]
    BY DEF LogWorkflowEvent
  <2>2. QED BY <1>1, <1>2, <1>5, <1>6, <1>7, <2>1
<1>9. /\ serving'[t] = s /\ context'[t] = k
      /\ \A u \in Threads \ {t} : serving'[u] = serving[u] /\ context'[u] = context[u]
  BY <1>8 DEF TelemetryTypes
<1>10. TelemetryTypes' BY <1>1, <1>3, <1>8 DEF TelemetryTypes, Ends
<1>11. LinesBelong' /\ n <= begun
  <2>1. \A x \in {l} : /\ x.by = Activity(t) /\ x.correlation = context[t].correlation
                       /\ x.job = context[t].job
                       /\ x.event \in TaskEvents => serving[t].task # None
    BY <1>2, <1>5, <1>6 DEF TaskEvents
  <2>2. \A u \in Threads : serving'[u].request # None /\ ~serving'[u].interrupted =>
          /\ serving'[u].request = serving[u].request
          /\ serving'[u].answer = serving[u].answer
          /\ ~serving[u].interrupted
    BY <1>7, <1>9
  <2>3. lines' = lines \cup {l} /\ telemetrySite' = telemetrySite BY <1>3, <1>8
  <2>4. LinesBelong' /\ \A x \in {l} : x.by <= begun BY <2>1, <2>2, <2>3, LinesKept, Zenon
  <2>5. QED BY <1>6, <2>4
<1>12. Numbers'
  <2>1. \A u \in Threads : /\ serving'[u].request = serving[u].request
                           /\ serving'[u].task = serving[u].task
    BY <1>7, <1>9
  <2>2. \A u \in Threads : Its(u)' = Its(u) BY <2>1 DEF Its
  <2>3. (\A x \in lines : x.by <= begun)' BY <1>3, <1>6, <1>8, <1>11 DEF Numbers
  <2>4. QED BY <1>3, <2>1, <2>2, <2>3 DEF Numbers
<1>13. Bound'
  <2>1. Fits(t, serving[t], context[t])'
    <3>1. telemetrySite.serves[t] # "schedule" BY <1>2, <1>4 DEF Fits, ActivityOf
    <3>2. ~(serving[t].request = 0 /\ telemetrySite.serves[t] = "requests")
      BY <1>2, <1>4 DEF Fits, ActivityOf
    <3>3. QED BY <1>3, <1>4, <1>5, <1>7, <1>9, <3>1, <3>2 DEF Fits, ActivityOf
  <2>2. ASSUME NEW u \in Threads, u # t PROVE Fits(u, serving[u], context[u])'
    BY <1>3, <1>9, <2>2 DEF Bound, Fits
  <2>3. QED BY <2>1, <2>2 DEF Bound
<1>14. RunsNoted'
  <2>1. /\ \A x \in lines : x.run \in Nat /\ x.run <= noted
        /\ \A u \in Threads : context[u].run \in Nat /\ context[u].run <= noted
        /\ \A u \in Threads : \A q \in serving[u].runs : q \in Nat /\ 0 < q /\ q <= noted
    BY DEF RunsNoted, TelemetryTypes, Lines, Contexts, Servings
  <2>2. \A u \in Threads : Activity(u)' = Activity(u) BY <1>7, <1>9 DEF Activity
  <2>3. (\A x \in lines : x.run <= noted)' BY <1>1, <1>6, <1>8, <2>1
  <2>4. (\A u \in Threads : context[u].run <= noted /\ \A q \in serving[u].runs : 0 < q /\ q <= noted)'
    <3>1. k.run <= r /\ \A q \in s.runs : 0 < q /\ q <= r BY <1>1, <1>5, <1>7, <2>1
    <3>2. \A u \in Threads \ {t} : context'[u].run <= r /\ \A q \in serving'[u].runs : 0 < q /\ q <= r
      BY <1>1, <1>9, <2>1
    <3>3. QED BY <1>1, <1>9, <3>1, <3>2
  <2>5. (\A u, w \in Threads : u # w => serving[u].runs \cap serving[w].runs = {})'
    <3>1. \A u \in Threads : r \notin serving[u].runs BY <1>1, <2>1
    <3>2. \A u, w \in Threads : u # w => serving[u].runs \cap serving[w].runs = {} BY DEF RunsNoted
    <3>3. \A u \in Threads \ {t} : serving'[u].runs = serving[u].runs BY <1>9
    <3>4. serving'[t].runs = serving[t].runs \cup {r} BY <1>7, <1>9
    <3>5. QED BY <3>1, <3>2, <3>3, <3>4
  <2>6. ASSUME ~telemetrySite.eager
        PROVE  (/\ \A x, m \in lines : (x.run = m.run /\ x.run # None) => x.by = m.by
                /\ \A u \in Threads, x \in lines : x.run \in serving[u].runs => x.by = Activity(u))'
    <3>1. \A x \in lines : x.run # r BY <1>1, <2>1
    <3>2. \A u \in Threads : r \notin serving[u].runs BY <1>1, <2>1
    <3>3. (\A x, m \in lines : (x.run = m.run /\ x.run # None) => x.by = m.by)'
      BY <1>6, <1>8, <2>6, <3>1 DEF RunsNoted
    <3>4. (\A u \in Threads, x \in lines : x.run \in serving[u].runs => x.by = Activity(u))'
      BY <1>2, <1>6, <1>7, <1>8, <1>9, <2>2, <2>6, <3>1, <3>2 DEF RunsNoted
    <3>5. QED BY <3>3, <3>4
  <2>7. QED BY <1>3, <2>3, <2>4, <2>5, <2>6 DEF RunsNoted
<1>15. SpansOpen' /\ Counted'
  <2>1. \A u \in Threads : serving'[u].request = serving[u].request /\ serving'[u].answer = serving[u].answer
    BY <1>7, <1>9
  <2>2. SpansOpen' BY <1>3, <2>1 DEF SpansOpen, ProcessOf
  <2>3. Counted' BY <1>3 DEF Counted, Ended, Bad
  <2>4. QED BY <2>2, <2>3
<1>16. QED BY <1>10, <1>11, <1>12, <1>13, <1>14, <1>15

\* A process is lost with its context and its counters.
LEMMA LoseProcessKeeps ==
  ASSUME TelemetryInv, NEW p \in Processes, LoseProcess(p)
  PROVE  TelemetryInv'
<1> USE DEF TelemetryInv, None
<1> DEFINE its == {t \in Threads : ProcessOf(t) = p}
<1>1. /\ telemetrySite' = telemetrySite /\ lines' = lines /\ begun' = begun
      /\ noted' = noted
      /\ begun \in Nat /\ Processes' = Processes /\ noted \in Nat
      /\ \A t \in Threads : ProcessOf(t)' = ProcessOf(t)
  BY DEF LoseProcess, TelemetryTypes, Processes, ProcessOf
<1>2. /\ \A t \in its : serving'[t] = AtRest /\ context'[t] = Context
      /\ \A t \in Threads \ its : serving'[t] = serving[t] /\ context'[t] = context[t]
  BY DEF LoseProcess
<1>3. PICK e \in Ends : e.what = "loss" /\ e.number = begun /\ e.process = p
        /\ ended' = {x \in ended : x.process # p \/ x.what = "loss"} \cup {e}
  <2>1. PICK e : e = [what |-> "loss", number |-> begun, process |-> p, bad |-> TRUE]
    OBVIOUS
  <2>2. e \in Ends /\ e.what = "loss" /\ e.number = begun /\ e.process = p BY <1>1, <2>1 DEF Ends
  <2>3. QED BY <2>1, <2>2 DEF LoseProcess
<1>4. /\ AtRest \in Servings /\ Context \in Contexts /\ Context.run = 0
      /\ AtRest.request = 0 /\ AtRest.task = 0 /\ ~AtRest.interrupted
      /\ AtRest.runs = {}
  BY DEF AtRest, Serving, Servings, Context, Contexts
<1>5. ended' \in SUBSET Ends /\ IsFiniteSet(ended')
  <2>1. {x \in ended : x.process # p \/ x.what = "loss"} \in SUBSET ended
    OBVIOUS
  <2>2. QED BY <1>3, <2>1, FS_Subset, FS_AddElement DEF TelemetryTypes
<1>6. TelemetryTypes'
  <2>1. context' \in [Threads -> Contexts] /\ serving' \in [Threads -> Servings]
    BY <1>4 DEF LoseProcess, TelemetryTypes
  <2>2. spans' \in [Processes -> SUBSET Spans] BY DEF LoseProcess, TelemetryTypes
  <2>3. metrics' \in [Processes -> CounterValues]
    BY DEF LoseProcess, TelemetryTypes, Counters, CounterValues
  <2>4. QED BY <1>1, <1>5, <2>1, <2>2, <2>3 DEF TelemetryTypes, Ends
<1>7. Numbers'
  <2>1. \A t \in Threads : Its(t)' \subseteq Its(t) BY <1>2, <1>4 DEF Its
  <2>2. (\A t, u \in Threads : t # u => Its(t) \cap Its(u) = {})' BY <2>1 DEF Numbers
  <2>3. (\A t \in Threads : \A n \in Its(t) : n <= begun)' BY <1>1, <2>1 DEF Numbers
  <2>4. (\A x \in ended : x.number <= begun /\ (x.what # "loss" => x.number # 0))'
    BY <1>1, <1>3 DEF Numbers
  <2>5. (\A x \in ended : \A t \in Threads :
          /\ x.what = "request" => x.number # serving[t].request
          /\ x.what = "task" => x.number # serving[t].task)'
    BY <1>2, <1>3, <1>4, <2>4 DEF Numbers
  <2>6. QED BY <1>1, <2>2, <2>3, <2>4, <2>5 DEF Numbers
<1>8. Bound'
  <2>1. ASSUME NEW t \in its PROVE Fits(t, serving[t], context[t])'
    BY <1>1, <1>2, <1>4 DEF Fits, ActivityOf
  <2>2. ASSUME NEW t \in Threads \ its PROVE Fits(t, serving[t], context[t])'
    BY <1>1, <1>2 DEF Bound, Fits
  <2>3. QED BY <2>1, <2>2 DEF Bound
<1>9. LinesBelong' BY <1>1, <1>2, <1>4 DEF LinesBelong
<1>10. RunsNoted'
  <2>1. \A t \in Threads : \/ serving'[t].runs = {}
                           \/ serving'[t].runs = serving[t].runs /\ Activity(t)' = Activity(t)
    BY <1>2, <1>4 DEF Activity
  <2>2. \A t \in Threads : context'[t].run \in {0, context[t].run} BY <1>2, <1>4
  <2>3. QED BY <1>1, <2>1, <2>2 DEF RunsNoted
<1>11. SpansOpen'
  <2>1. ASSUME NEW t \in Threads \ its PROVE spans'[ProcessOf(t)] = spans[ProcessOf(t)]
    BY DEF LoseProcess, TelemetryTypes
  <2>2. QED BY <1>1, <1>2, <1>4, <2>1 DEF SpansOpen
<1>12. Counted'
  <2>1. ASSUME NEW q \in Processes, q # p, NEW w PROVE Ended(q, w)' = Ended(q, w) /\ Bad(q, w)' = Bad(q, w)
    BY <1>3, <2>1 DEF Ended, Bad
  <2>2. ASSUME NEW w \in {"request", "task"} PROVE Ended(p, w)' = {} /\ Bad(p, w)' = {}
    BY <1>3 DEF Ended, Bad
  <2>3. metrics'[p] = [http |-> 0, errors |-> 0, tasks |-> 0, succeeded |-> 0, failed |-> 0]
        /\ \A q \in Processes \ {p} : metrics'[q] = metrics[q]
    BY DEF LoseProcess, TelemetryTypes, Counters
  <2>4. ASSUME NEW q \in Processes
        PROVE  LET m == metrics'[q] IN
               /\ m.http = Cardinality(Ended(q, "request")')
               /\ m.errors = Cardinality(Bad(q, "request")')
               /\ m.tasks = Cardinality(Ended(q, "task")')
               /\ m.failed = Cardinality(Bad(q, "task")')
               /\ m.succeeded + m.failed = m.tasks
    <3>1. CASE q = p
      <4>1. Cardinality({}) = 0 BY FS_EmptySet
      <4>2. QED BY <2>2, <2>3, <3>1, <4>1
    <3>2. CASE q # p BY <2>1, <2>3, <3>2 DEF Counted
    <3>3. QED BY <3>1, <3>2
  <2>5. QED BY <1>1, <2>4 DEF Counted
<1>13. QED BY <1>6, <1>7, <1>8, <1>9, <1>10, <1>11, <1>12

\* Every step of the telemetry keeps the invariant.
LEMMA TelemetryKept == TelemetryInv /\ [TelemetryNext]_telemetryVars => TelemetryInv'
<1> SUFFICES ASSUME TelemetryInv, [TelemetryNext]_telemetryVars PROVE TelemetryInv'
  OBVIOUS
<1>1. ASSUME NEW t \in Threads,
             BeginRequest(t) \/ EndRequest(t) \/ Publish(t) \/ RunEagerly(t)
               \/ TaskPrerun(t) \/ TaskPostrun(t) \/ LogWorkflowEvent(t)
      PROVE  TelemetryInv'
  BY <1>1, BeginRequestKeeps, EndRequestKeeps, PublishKeeps, RunEagerlyKeeps, TaskPrerunKeeps,
     TaskPostrunKeeps, LogWorkflowEventKeeps
<1>2. ASSUME NEW p \in Processes, LoseProcess(p) PROVE TelemetryInv' BY <1>2, LoseProcessKeeps
<1>3. ASSUME UNCHANGED telemetryVars PROVE TelemetryInv'
  <2>1. /\ telemetrySite' = telemetrySite /\ context' = context
        /\ serving' = serving
        /\ lines' = lines /\ spans' = spans /\ metrics' = metrics
        /\ begun' = begun
        /\ noted' = noted /\ ended' = ended /\ Processes' = Processes
    BY <1>3 DEF telemetryVars, Processes
  <2>2. TelemetryTypes' /\ Numbers' BY <2>1 DEF TelemetryInv, TelemetryTypes, Numbers, Its, Ends
  <2>3. Bound' BY <2>1 DEF TelemetryInv, Bound, Fits
  <2>4. LinesBelong' /\ RunsNoted' BY <2>1 DEF TelemetryInv, LinesBelong, RunsNoted, Activity
  <2>5. SpansOpen' /\ Counted' BY <2>1 DEF TelemetryInv, SpansOpen, ProcessOf, Counted, Ended, Bad
  <2>6. QED BY <2>2, <2>3, <2>4, <2>5 DEF TelemetryInv
<1>4. QED BY <1>1, <1>2, <1>3 DEF TelemetryNext

\* The invariant says what the run checks.
LEMMA TelemetryHolds == TelemetryInv => TelemetryBelongs
<1> SUFFICES ASSUME TelemetryInv PROVE TelemetryBelongs
  OBVIOUS
<1> USE DEF TelemetryInv, None
<1>1. \A l \in lines :
       l.by # None =>
         /\ l.event \in {"celery_task_started", "celery_task_completed", "celery_task_failed"} =>
              l.correlation = l.by
         /\ telemetrySite.eager \/ (l.job \in {l.by, None} /\ l.correlation \in {l.by} \cup telemetrySite.headers)
  BY DEF LinesBelong, TaskEvents
<1>2. \A l, m \in lines : (l.run = m.run /\ l.run # None) => (l.by = m.by \/ telemetrySite.eager)
  BY DEF RunsNoted
<1>3. ASSUME NEW t \in Threads
      PROVE  LET s == serving[t] IN
       /\ (s.request = None /\ telemetrySite.serves[t] = "requests") => context[t] = Context
       /\ s.task # None => context[t] = [correlation |-> s.task, job |-> s.job, run |-> context[t].run]
       /\ (s.request # None /\ ~s.interrupted) =>
            /\ \A l \in lines : l.by = s.request => l.correlation = s.answer
            /\ context[t].correlation = s.answer
            /\ context[t].job = None
       /\ (Activity(t) # None /\ ~s.interrupted) => context[t].run \in s.runs \cup {None}
       /\ s.request # None =>
            \E x \in spans[ProcessOf(t)] :
              x = [by |-> s.request, correlation |-> s.answer, status |-> "open"]
  <2>1. PICK s \in Servings, c \in Contexts : s = serving[t] /\ c = context[t] /\ Fits(t, s, c)
          /\ Activity(t) = ActivityOf(s)
    BY DEF TelemetryTypes, Bound, Activity, ActivityOf
  <2>2. s.task # 0 => c = [correlation |-> s.task, job |-> s.job, run |-> c.run]
    BY <2>1 DEF Fits, Contexts
  <2>3. (s.request # 0 /\ ~s.interrupted) => \A l \in lines : l.by = s.request => l.correlation = s.answer
    BY <2>1 DEF LinesBelong
  <2>4. s.request # 0 => [by |-> s.request, correlation |-> s.answer, status |-> "open"] \in spans[ProcessOf(t)]
    BY <2>1 DEF SpansOpen
  <2>5. QED BY <2>1, <2>2, <2>3, <2>4 DEF Fits
<1>4. QED BY <1>1, <1>2, <1>3 DEF TelemetryBelongs, Counted

\* Whatever requests, tasks, interruptions and lost processes do on however
\* many threads: lines, contexts, spans and counters belong to what they are of.
THEOREM TelemetryIsRight == FairSpec => []TelemetryBelongs
<1>1. StudioInit => TelemetryInv BY TelemetryStart DEF StudioInit
<1>2. TelemetryInv /\ [StudioNext]_studioVars => TelemetryInv'
  <2> SUFFICES ASSUME TelemetryInv, [StudioNext]_studioVars PROVE TelemetryInv'
    OBVIOUS
  <2>1. [TelemetryNext]_telemetryVars BY DEF StudioNext, studioVars
  <2>2. QED BY <2>1, TelemetryKept
<1>3. QED BY <1>1, <1>2, TelemetryHolds, PTL DEF FairSpec

-----------------------------------------------------------------------------
(* Health reports: the lists of questions.  Each is put together from      *)
(* short ones, and what matters about them is preserved by putting         *)
(* together.                                                               *)

LEMMA QuestionsAre ==
  /\ QuestionsOn("postgresql") = {"connect"}
  /\ QuestionsOn("redis") = {"ping"}
  /\ QuestionsOn("celery_workers") = {"broker", "workers", "registered"}
  /\ QuestionsOn("celery_beat") = {"enabled"}
  /\ QuestionsOn("ffmpeg") = {"which"}
  /\ QuestionsOn("storage") = {"write", "unlink"}
  /\ QuestionsOn("ollama") = {"tags", "models"}
  /\ QuestionsOn("chatterbox") = {"info"}
  /\ QuestionsOn("supabase") = {"rest"}
  /\ QuestionsOn("vector_store") = {"extension", "count", "tags", "models"}
  /\ QuestionsOn("rss_feed_generator") = {"mkdir"}
  BY DEF QuestionsOn

LEMMA NeedsAre ==
  /\ \A q \in {"connect", "enabled", "extension", "count"} : Needs(q) = {"postgresql"}
  /\ \A q \in {"ping", "broker"} : Needs(q) = {"redis"}
  /\ Needs("workers") = {"redis", "workers"}
  /\ Needs("registered") = {"redis", "workers", "tasks"}
  /\ Needs("which") = {"ffmpeg"}
  /\ \A q \in {"write", "unlink"} : Needs(q) = {"media"}
  /\ Needs("tags") = {"ollama"}
  /\ Needs("models") = {"ollama", "models"}
  /\ Needs("info") = {"chatterbox"}
  /\ Needs("rest") = IF probeSite.supabase THEN {"supabase"} ELSE {}
  /\ Needs("mkdir") = {"folder"}
  BY DEF Needs

LEMMA Joined ==
  ASSUME NEW s, NEW t, Proper(s), Proper(t)
  PROVE  /\ Proper(s \o t)
         /\ \A k : AsksAbout(s, k) \/ AsksAbout(t, k) => AsksAbout(s \o t, k)
         /\ KeepsOff(s) /\ KeepsOff(t) => KeepsOff(s \o t)
<1> DEFINE u == s \o t
<1>1. s \in Lists /\ t \in Lists BY DEF Proper
<1>2. /\ u \in Lists /\ Len(u) = Len(s) + Len(t) /\ Len(s) \in Nat /\ Len(t) \in Nat
      /\ \A i \in 1..Len(u) : u[i] = IF i <= Len(s) THEN s[i] ELSE t[i - Len(s)]
  BY <1>1, ConcatProperties, LenProperties DEF Lists
<1>3. /\ \A i \in 1..Len(s) : i \in 1..Len(u) /\ u[i] = s[i]
      /\ \A i \in 1..Len(t) : i + Len(s) \in 1..Len(u) /\ u[i + Len(s)] = t[i]
  BY <1>2
<1>4. \A i \in 1..Len(u) :
        \/ i \in 1..Len(s)
        \/ \E j \in 1..Len(t) : i = j + Len(s)
  <2> SUFFICES ASSUME NEW i \in 1..Len(u), i \notin 1..Len(s)
               PROVE  \E j \in 1..Len(t) : i = j + Len(s)
    OBVIOUS
  <2>1. i - Len(s) \in 1..Len(t) /\ i = (i - Len(s)) + Len(s) BY <1>2
  <2>2. QED BY <2>1
<1> HIDE DEF u
<1>5. ASSUME NEW i \in 1..Len(u)
      PROVE  /\ u[i][2] = "models" => i > 1 /\ u[i - 1][2] = "tags"
             /\ u[i][2] = "unlink" => i > 1 /\ u[i - 1][2] = "write"
             /\ u[i][2] \in {"write", "unlink"} => u[i][1] = "storage"
             /\ u[i][1] = "own_supabase" => u[i][2] = "rest"
             /\ u[i][1] \in Judged =>
                  /\ u[i][2] \in QuestionsOn(u[i][1])
                  /\ \A q \in QuestionsOn(u[i][1]) : \E j \in 1..Len(u) : u[j] = <<u[i][1], q>>
  <2>1. CASE i \in 1..Len(s)
    <3>1. u[i] = s[i] BY <1>3, <2>1
    <3>2. i > 1 => i - 1 \in 1..Len(s) /\ u[i - 1] = s[i - 1] BY <1>2, <1>3, <2>1
    <3>3. \A q \in QuestionsOn(s[i][1]) :
            (\E k \in 1..Len(s) : s[k] = <<s[i][1], q>>) => \E k \in 1..Len(u) : u[k] = <<s[i][1], q>>
      BY <1>3
    <3>4. /\ s[i][2] = "models" => i > 1 /\ s[i - 1][2] = "tags"
          /\ s[i][2] = "unlink" => i > 1 /\ s[i - 1][2] = "write"
          /\ s[i][2] \in {"write", "unlink"} => s[i][1] = "storage"
          /\ s[i][1] = "own_supabase" => s[i][2] = "rest"
          /\ s[i][1] \in Judged =>
               /\ s[i][2] \in QuestionsOn(s[i][1])
               /\ \A q \in QuestionsOn(s[i][1]) : \E k \in 1..Len(s) : s[k] = <<s[i][1], q>>
      BY <2>1 DEF Proper
    <3>5. QED BY <3>1, <3>2, <3>3, <3>4
  <2>2. ASSUME NEW j \in 1..Len(t), i = j + Len(s)
        PROVE  /\ u[i][2] = "models" => i > 1 /\ u[i - 1][2] = "tags"
               /\ u[i][2] = "unlink" => i > 1 /\ u[i - 1][2] = "write"
               /\ u[i][2] \in {"write", "unlink"} => u[i][1] = "storage"
               /\ u[i][1] = "own_supabase" => u[i][2] = "rest"
               /\ u[i][1] \in Judged =>
                    /\ u[i][2] \in QuestionsOn(u[i][1])
                    /\ \A q \in QuestionsOn(u[i][1]) : \E k \in 1..Len(u) : u[k] = <<u[i][1], q>>
    <3>1. u[i] = t[j] BY <1>3, <2>2
    <3>2. j > 1 => i > 1 /\ j - 1 \in 1..Len(t) /\ u[i - 1] = t[j - 1]
      <4> SUFFICES ASSUME j > 1 PROVE i > 1 /\ j - 1 \in 1..Len(t) /\ u[i - 1] = t[j - 1]
        OBVIOUS
      <4>1. j - 1 \in 1..Len(t) /\ i - 1 = (j - 1) + Len(s) /\ i > 1 BY <1>2, <2>2
      <4>2. u[(j - 1) + Len(s)] = t[j - 1] BY <1>3, <4>1
      <4>3. QED BY <4>1, <4>2
    <3>3. \A q \in QuestionsOn(t[j][1]) :
            (\E k \in 1..Len(t) : t[k] = <<t[j][1], q>>) => \E k \in 1..Len(u) : u[k] = <<t[j][1], q>>
      BY <1>3
    <3>4. /\ t[j][2] = "models" => j > 1 /\ t[j - 1][2] = "tags"
          /\ t[j][2] = "unlink" => j > 1 /\ t[j - 1][2] = "write"
          /\ t[j][2] \in {"write", "unlink"} => t[j][1] = "storage"
          /\ t[j][1] = "own_supabase" => t[j][2] = "rest"
          /\ t[j][1] \in Judged =>
               /\ t[j][2] \in QuestionsOn(t[j][1])
               /\ \A q \in QuestionsOn(t[j][1]) : \E k \in 1..Len(t) : t[k] = <<t[j][1], q>>
      BY <2>2 DEF Proper
    <3>5. QED BY <3>1, <3>2, <3>3, <3>4
  <2>3. QED BY <1>4, <2>1, <2>2
<1>6. Proper(u) BY <1>2, <1>5 DEF Proper
<1>7. \A k : AsksAbout(s, k) \/ AsksAbout(t, k) => AsksAbout(u, k) BY <1>3 DEF AsksAbout
<1>8. KeepsOff(s) /\ KeepsOff(t) => KeepsOff(u)
  <2> SUFFICES ASSUME KeepsOff(s), KeepsOff(t), NEW i \in 1..Len(u)
               PROVE  u[i][2] \notin {"write", "unlink"}
    BY DEF KeepsOff
  <2>1. CASE i \in 1..Len(s) BY <1>3, <2>1 DEF KeepsOff
  <2>2. ASSUME NEW j \in 1..Len(t), i = j + Len(s) PROVE u[i][2] \notin {"write", "unlink"}
    BY <1>3, <2>2 DEF KeepsOff
  <2>3. QED BY <1>4, <2>1, <2>2
<1>9. QED BY <1>6, <1>7, <1>8 DEF u

LEMMA OfOne ==
  ASSUME NEW k, NEW qs, Fit(k, qs)
  PROVE  /\ Proper(About(k, qs))
         /\ AsksAbout(About(k, qs), k)
         /\ k # "storage" => KeepsOff(About(k, qs))
<1> USE DEF Fit
<1> DEFINE s == About(k, qs)
<1>1. /\ Len(qs) \in Nat /\ \A i \in 1..Len(qs) : qs[i] \in Probed
      /\ s = [i \in 1..Len(qs) |-> <<k, qs[i]>>]
  BY DEF About
<1>2. s \in Lists /\ Len(s) = Len(qs) /\ \A i \in 1..Len(qs) : s[i] = <<k, qs[i]>> BY <1>1 DEF Lists
<1>3. \A i \in 1..Len(qs) : s[i] = <<k, qs[i]>> /\ s[i][1] = k /\ s[i][2] = qs[i] BY <1>2
<1> HIDE DEF s
<1>4. Proper(s)
  <2> SUFFICES ASSUME NEW i \in 1..Len(qs)
               PROVE  /\ s[i][2] = "models" => i > 1 /\ s[i - 1][2] = "tags"
                      /\ s[i][2] = "unlink" => i > 1 /\ s[i - 1][2] = "write"
                      /\ s[i][2] \in {"write", "unlink"} => s[i][1] = "storage"
                      /\ s[i][1] = "own_supabase" => s[i][2] = "rest"
                      /\ s[i][1] \in Judged =>
                           /\ s[i][2] \in QuestionsOn(s[i][1])
                           /\ \A q \in QuestionsOn(s[i][1]) : \E j \in 1..Len(s) : s[j] = <<s[i][1], q>>
    BY <1>2 DEF Proper
  <2>1. s[i][1] = k /\ s[i][2] = qs[i] /\ (i > 1 => i - 1 \in 1..Len(qs) /\ s[i - 1][2] = qs[i - 1])
    BY <1>1, <1>3
  <2>2. k \in Judged => \A q \in QuestionsOn(k) : \E j \in 1..Len(s) : s[j] = <<k, q>> BY <1>2
  <2>3. /\ qs[i] = "models" => i > 1 /\ qs[i - 1] = "tags"
        /\ qs[i] = "unlink" => i > 1 /\ qs[i - 1] = "write"
        /\ qs[i] \in {"write", "unlink"} => k = "storage"
        /\ k = "own_supabase" => qs[i] = "rest"
        /\ k \in Judged => qs[i] \in QuestionsOn(k)
    OBVIOUS
  <2> HIDE DEF Fit
  <2>4. QED BY <2>1, <2>2, <2>3
<1>5. AsksAbout(s, k)
  <2>1. 1 \in 1..Len(s) /\ s[1][1] = k BY <1>1, <1>2, <1>3
  <2>2. QED BY <2>1 DEF AsksAbout
<1>6. k # "storage" => KeepsOff(s) BY <1>2, <1>3 DEF KeepsOff
<1>7. QED BY <1>4, <1>5, <1>6 DEF s

LEMMA AllFit ==
  /\ Fit("postgresql", <<"connect">>)
  /\ Fit("redis", <<"ping">>)
  /\ Fit("celery_workers", <<"broker", "workers", "registered">>)
  /\ Fit("celery_beat", <<"enabled">>)
  /\ Fit("ffmpeg", <<"which">>)
  /\ Fit("storage", <<"write", "unlink">>)
  /\ Fit("ollama", <<"tags", "models">>)
  /\ Fit("chatterbox", <<"info">>)
  /\ Fit("supabase", <<"rest">>)
  /\ Fit("own_supabase", <<"rest">>)
  /\ Fit("rss_feed_generator", <<"mkdir">>)
  /\ Fit("vector_store", <<"extension", "count", "tags", "models">>)
  /\ Fit("embedding_provider", <<"extension", "count", "tags", "models">>)
<1>1. Fit("postgresql", <<"connect">>) BY QuestionsAre DEF Fit, Judged, Unjudged, Probed
<1>2. Fit("redis", <<"ping">>) BY QuestionsAre DEF Fit, Judged, Unjudged, Probed
<1>3. Fit("celery_workers", <<"broker", "workers", "registered">>)
  BY QuestionsAre DEF Fit, Judged, Unjudged, Probed
<1>4. Fit("celery_beat", <<"enabled">>) BY QuestionsAre DEF Fit, Judged, Unjudged, Probed
<1>5. Fit("ffmpeg", <<"which">>) BY QuestionsAre DEF Fit, Judged, Unjudged, Probed
<1>6. Fit("storage", <<"write", "unlink">>) BY QuestionsAre DEF Fit, Judged, Unjudged, Probed
<1>7. Fit("ollama", <<"tags", "models">>) BY QuestionsAre DEF Fit, Judged, Unjudged, Probed
<1>8. Fit("chatterbox", <<"info">>) BY QuestionsAre DEF Fit, Judged, Unjudged, Probed
<1>9. Fit("supabase", <<"rest">>) BY QuestionsAre DEF Fit, Judged, Unjudged, Probed
<1>10. Fit("own_supabase", <<"rest">>) BY QuestionsAre DEF Fit, Judged, Unjudged, Probed
<1>11. Fit("rss_feed_generator", <<"mkdir">>) BY QuestionsAre DEF Fit, Judged, Unjudged, Probed
<1>12. Fit("vector_store", <<"extension", "count", "tags", "models">>)
  BY QuestionsAre DEF Fit, Judged, Unjudged, Probed
<1>13. Fit("embedding_provider", <<"extension", "count", "tags", "models">>)
  BY QuestionsAre DEF Fit, Judged, Unjudged, Probed
<1>14. QED BY <1>1, <1>2, <1>3, <1>4, <1>5, <1>6, <1>7, <1>8, <1>9, <1>10, <1>11, <1>12, <1>13

\* The parts of the long lists.
LEMMA Parts ==
  /\ \A s \in {Postgres, Redis, Celery, About("celery_beat", <<"enabled">>), Ffmpeg, Llm, Tts, Supabase,
              About("own_supabase", <<"rest">>), Knowledge("vector_store"),
              Knowledge("embedding_provider"), Feed} : Proper(s) /\ KeepsOff(s)
  /\ Proper(Storage)
  /\ AsksAbout(Postgres, "postgresql") /\ AsksAbout(Redis, "redis")
  /\ AsksAbout(Celery, "celery_workers") /\ AsksAbout(Ffmpeg, "ffmpeg")
  /\ AsksAbout(Storage, "storage") /\ AsksAbout(Llm, "ollama") /\ AsksAbout(Tts, "chatterbox")
  /\ AsksAbout(Supabase, "supabase") /\ AsksAbout(About("own_supabase", <<"rest">>), "own_supabase")
  /\ AsksAbout(Knowledge("embedding_provider"), "embedding_provider")
  /\ probeSite.rss => AsksAbout(Feed, "rss_feed_generator")
<1>1. \A k : Knowledge(k) = About(k, <<"extension", "count", "tags", "models">>)
  <2> DEFINE a == <<"extension", "count">>
             b == <<"tags", "models">>
             l == <<"extension", "count", "tags", "models">>
  <2>1. a \in Seq(Probed) /\ b \in Seq(Probed) /\ l \in Seq(Probed) /\ Len(a) = 2 /\ Len(b) = 2 /\ Len(l) = 4
    BY DEF Probed
  <2>2. /\ a \o b \in Seq(Probed) /\ Len(a \o b) = Len(a) + Len(b)
        /\ \A i \in 1..Len(a) + Len(b) : (a \o b)[i] = IF i <= Len(a) THEN a[i] ELSE b[i - Len(a)]
    <3> HIDE DEF a, b
    <3>1. QED BY <2>1, ConcatProperties
  <2>3. \A i \in 1..4 : (a \o b)[i] = l[i]
    <3>1. \A i \in 1..4 : i = 1 \/ i = 2 \/ i = 3 \/ i = 4
      OBVIOUS
    <3>2. QED BY <2>1, <2>2, <3>1
  <2>4. a \o b = l
    <3> HIDE DEF a, b, l
    <3>1. QED BY <2>1, <2>2, <2>3, SeqEqual
  <2>5. QED BY <2>4 DEF Knowledge, Ollama
<1>2. Proper(<<>>) /\ KeepsOff(<<>>) BY DEF Proper, KeepsOff, Lists
<1>3. /\ Proper(Feed) /\ KeepsOff(Feed)
      /\ probeSite.rss => AsksAbout(Feed, "rss_feed_generator")
  <2>1. CASE probeSite.rss
    <3>1. Feed = About("rss_feed_generator", <<"mkdir">>) BY <2>1 DEF Feed
    <3>2. QED BY <3>1, OfOne, AllFit
  <2>2. CASE ~probeSite.rss BY <1>2, <2>2 DEF Feed
  <2>3. QED BY <2>1, <2>2
<1>4. Proper(Postgres) /\ KeepsOff(Postgres) /\ AsksAbout(Postgres, "postgresql")
  BY OfOne, AllFit DEF Postgres
<1>5. Proper(Redis) /\ KeepsOff(Redis) /\ AsksAbout(Redis, "redis") BY OfOne, AllFit DEF Redis
<1>6. Proper(Celery) /\ KeepsOff(Celery) /\ AsksAbout(Celery, "celery_workers")
  BY OfOne, AllFit DEF Celery
<1>7. /\ Proper(About("celery_beat", <<"enabled">>)) /\ KeepsOff(About("celery_beat", <<"enabled">>))
      /\ AsksAbout(About("celery_beat", <<"enabled">>), "celery_beat")
  BY OfOne, AllFit
<1>8. Proper(Ffmpeg) /\ KeepsOff(Ffmpeg) /\ AsksAbout(Ffmpeg, "ffmpeg") BY OfOne, AllFit DEF Ffmpeg
<1>9. Proper(Storage) /\ AsksAbout(Storage, "storage") BY OfOne, AllFit DEF Storage
<1>10. Proper(Llm) /\ KeepsOff(Llm) /\ AsksAbout(Llm, "ollama") BY OfOne, AllFit DEF Llm, Ollama
<1>11. Proper(Tts) /\ KeepsOff(Tts) /\ AsksAbout(Tts, "chatterbox") BY OfOne, AllFit DEF Tts
<1>12. Proper(Supabase) /\ KeepsOff(Supabase) /\ AsksAbout(Supabase, "supabase")
  BY OfOne, AllFit DEF Supabase
<1>13. /\ Proper(About("own_supabase", <<"rest">>)) /\ KeepsOff(About("own_supabase", <<"rest">>))
       /\ AsksAbout(About("own_supabase", <<"rest">>), "own_supabase")
  BY OfOne, AllFit
<1>14. /\ Proper(Knowledge("vector_store")) /\ KeepsOff(Knowledge("vector_store"))
       /\ AsksAbout(Knowledge("vector_store"), "vector_store")
  BY OfOne, AllFit, <1>1
<1>15. /\ Proper(Knowledge("embedding_provider")) /\ KeepsOff(Knowledge("embedding_provider"))
       /\ AsksAbout(Knowledge("embedding_provider"), "embedding_provider")
  BY OfOne, AllFit, <1>1
<1>16. QED BY <1>3, <1>4, <1>5, <1>6, <1>7, <1>8, <1>9, <1>10, <1>11, <1>12, <1>13, <1>14, <1>15

LEMMA UnifiedList ==
  /\ Proper(Unified)
  /\ AsksAbout(Unified, "postgresql") /\ AsksAbout(Unified, "redis")
  /\ AsksAbout(Unified, "celery_workers") /\ AsksAbout(Unified, "embedding_provider")
  /\ probeSite.rss => AsksAbout(Unified, "rss_feed_generator")
<1> DEFINE
     u2 == Postgres \o Redis
     u3 == u2 \o Celery
     u4 == u3 \o About("celery_beat", <<"enabled">>)
     u5 == u4 \o Ffmpeg
     u6 == u5 \o Storage
     u7 == u6 \o Llm
     u8 == u7 \o Tts
     u9 == u8 \o Supabase
     u10 == u9 \o Knowledge("vector_store")
     u11 == u10 \o Knowledge("embedding_provider")
     u12 == u11 \o Feed
<1>1. Unified = u12 BY DEF Unified
<1>2. /\ Proper(u2)
      /\ \A k : AsksAbout(Postgres, k) \/ AsksAbout(Redis, k) => AsksAbout(u2, k)
  BY Joined, Parts
<1> HIDE DEF u2
<1>3. /\ Proper(u3)
      /\ \A k : AsksAbout(u2, k) \/ AsksAbout(Celery, k) => AsksAbout(u3, k)
  BY <1>2, Joined, Parts
<1> HIDE DEF u3
<1>4. /\ Proper(u4)
      /\ \A k : AsksAbout(u3, k) \/ AsksAbout(About("celery_beat", <<"enabled">>), k) => AsksAbout(u4, k)
  BY <1>3, Joined, Parts
<1> HIDE DEF u4
<1>5. /\ Proper(u5)
      /\ \A k : AsksAbout(u4, k) \/ AsksAbout(Ffmpeg, k) => AsksAbout(u5, k)
  BY <1>4, Joined, Parts
<1> HIDE DEF u5
<1>6. /\ Proper(u6)
      /\ \A k : AsksAbout(u5, k) \/ AsksAbout(Storage, k) => AsksAbout(u6, k)
  BY <1>5, Joined, Parts
<1> HIDE DEF u6
<1>7. /\ Proper(u7)
      /\ \A k : AsksAbout(u6, k) \/ AsksAbout(Llm, k) => AsksAbout(u7, k)
  BY <1>6, Joined, Parts
<1> HIDE DEF u7
<1>8. /\ Proper(u8)
      /\ \A k : AsksAbout(u7, k) \/ AsksAbout(Tts, k) => AsksAbout(u8, k)
  BY <1>7, Joined, Parts
<1> HIDE DEF u8
<1>9. /\ Proper(u9)
      /\ \A k : AsksAbout(u8, k) \/ AsksAbout(Supabase, k) => AsksAbout(u9, k)
  BY <1>8, Joined, Parts
<1> HIDE DEF u9
<1>10. /\ Proper(u10)
      /\ \A k : AsksAbout(u9, k) \/ AsksAbout(Knowledge("vector_store"), k) => AsksAbout(u10, k)
  BY <1>9, Joined, Parts
<1> HIDE DEF u10
<1>11. /\ Proper(u11)
      /\ \A k : AsksAbout(u10, k) \/ AsksAbout(Knowledge("embedding_provider"), k) => AsksAbout(u11, k)
  BY <1>10, Joined, Parts
<1> HIDE DEF u11
<1>12. /\ Proper(u12)
      /\ \A k : AsksAbout(u11, k) \/ AsksAbout(Feed, k) => AsksAbout(u12, k)
  BY <1>11, Joined, Parts
<1> HIDE DEF u12
<1>13. QED BY <1>1, <1>2, <1>3, <1>4, <1>5, <1>6, <1>7, <1>8, <1>9, <1>10, <1>11, <1>12, Parts

LEMMA ApiList ==
  /\ Proper(Api) /\ KeepsOff(Api)
  /\ AsksAbout(Api, "celery_workers") /\ AsksAbout(Api, "ollama") /\ AsksAbout(Api, "chatterbox")
  /\ AsksAbout(Api, "supabase")
  /\ probeSite.rss => AsksAbout(Api, "rss_feed_generator")
<1> DEFINE
     u2 == Celery \o Llm
     u3 == u2 \o Tts
     u4 == u3 \o Supabase
     u5 == u4 \o Feed
     u6 == u5 \o Knowledge("vector_store")
<1>1. Api = u6 BY DEF Api
<1>2. /\ Proper(u2)
      /\ \A k : AsksAbout(Celery, k) \/ AsksAbout(Llm, k) => AsksAbout(u2, k)
      /\ KeepsOff(u2)
  BY Joined, Parts
<1> HIDE DEF u2
<1>3. /\ Proper(u3)
      /\ \A k : AsksAbout(u2, k) \/ AsksAbout(Tts, k) => AsksAbout(u3, k)
      /\ KeepsOff(u3)
  BY <1>2, Joined, Parts
<1> HIDE DEF u3
<1>4. /\ Proper(u4)
      /\ \A k : AsksAbout(u3, k) \/ AsksAbout(Supabase, k) => AsksAbout(u4, k)
      /\ KeepsOff(u4)
  BY <1>3, Joined, Parts
<1> HIDE DEF u4
<1>5. /\ Proper(u5)
      /\ \A k : AsksAbout(u4, k) \/ AsksAbout(Feed, k) => AsksAbout(u5, k)
      /\ KeepsOff(u5)
  BY <1>4, Joined, Parts
<1> HIDE DEF u5
<1>6. /\ Proper(u6)
      /\ \A k : AsksAbout(u5, k) \/ AsksAbout(Knowledge("vector_store"), k) => AsksAbout(u6, k)
      /\ KeepsOff(u6)
  BY <1>5, Joined, Parts
<1> HIDE DEF u6
<1>7. QED BY <1>1, <1>2, <1>3, <1>4, <1>5, <1>6, Parts

LEMMA MonitorList ==
  /\ Proper(Monitor)
  /\ \A k \in {"postgresql", "redis", "celery_workers", "ollama", "chatterbox", "own_supabase",
               "ffmpeg", "storage"} :
       AsksAbout(Monitor, k)
<1> DEFINE
     u2 == Api \o Postgres
     u3 == u2 \o Redis
     u4 == u3 \o About("own_supabase", <<"rest">>)
     u5 == u4 \o Ffmpeg
     u6 == u5 \o Storage
<1>1. Monitor = u6 BY DEF Monitor
<1>2. /\ Proper(u2)
      /\ \A k : AsksAbout(Api, k) \/ AsksAbout(Postgres, k) => AsksAbout(u2, k)
  BY Joined, Parts, ApiList
<1> HIDE DEF u2
<1>3. /\ Proper(u3)
      /\ \A k : AsksAbout(u2, k) \/ AsksAbout(Redis, k) => AsksAbout(u3, k)
  BY <1>2, Joined, Parts, ApiList
<1> HIDE DEF u3
<1>4. /\ Proper(u4)
      /\ \A k : AsksAbout(u3, k) \/ AsksAbout(About("own_supabase", <<"rest">>), k) => AsksAbout(u4, k)
  BY <1>3, Joined, Parts, ApiList
<1> HIDE DEF u4
<1>5. /\ Proper(u5)
      /\ \A k : AsksAbout(u4, k) \/ AsksAbout(Ffmpeg, k) => AsksAbout(u5, k)
  BY <1>4, Joined, Parts, ApiList
<1> HIDE DEF u5
<1>6. /\ Proper(u6)
      /\ \A k : AsksAbout(u5, k) \/ AsksAbout(Storage, k) => AsksAbout(u6, k)
  BY <1>5, Joined, Parts, ApiList
<1> HIDE DEF u6
<1>7. QED BY <1>1, <1>2, <1>3, <1>4, <1>5, <1>6, Parts, ApiList

-----------------------------------------------------------------------------
(* Health reports: the invariant.                                          *)

\* The lists of questions of the reports.
LEMMA ListsAre ==
  /\ \A r \in Reports : Proper(Questions(r)) /\ Len(Questions(r)) \in Nat \ {0}
  /\ KeepsOff(Questions("api"))
  /\ Questions("unified") = Unified \o Unified /\ Questions("ready") = Unified
  /\ Questions("api") = Api /\ Questions("monitor") = Monitor
<1>1. /\ Questions("unified") = Unified \o Unified /\ Questions("ready") = Unified
      /\ Questions("api") = Api /\ Questions("monitor") = Monitor
  BY DEF Questions
<1>2. Proper(Unified \o Unified) /\ AsksAbout(Unified \o Unified, "redis") BY UnifiedList, Joined
<1>3. Proper(Unified) /\ AsksAbout(Unified, "redis") BY UnifiedList
<1>4. Proper(Api) /\ KeepsOff(Api) /\ AsksAbout(Api, "ollama") BY ApiList
<1>5. Proper(Monitor) /\ AsksAbout(Monitor, "redis") BY MonitorList
<1>6. \A s, k : Proper(s) /\ AsksAbout(s, k) => Len(s) \in Nat \ {0}
  BY LenProperties DEF Proper, AsksAbout, Lists
<1>7. \A r \in Reports : Proper(Questions(r)) /\ Len(Questions(r)) \in Nat \ {0}
  BY <1>1, <1>2, <1>3, <1>4, <1>5, <1>6 DEF Reports
<1>8. QED BY <1>1, <1>4, <1>7

LEMMA ReportsUnmoved ==
  ASSUME probeSite' = probeSite
  PROVE  /\ \A r : Questions(r)' = Questions(r)
         /\ \A q : Needs(q)' = Needs(q)
  BY DEF Questions, Unified, Api, Monitor, Feed, Needs, Postgres, Redis, Celery, Ffmpeg, Storage,
     Llm, Tts, Supabase, Knowledge, About, Ollama

LEMMA Asks ==
  ASSUME NEW c, Honest(c), c.pc = "asking"
  PROVE  /\ Next1(c) \in Probed /\ Needs(Next1(c)) \subseteq Services
         /\ Next1(c) = "models" => c.answers # <<>> /\ Questions(c.report)[Len(c.answers)][2] = "tags"
         /\ Next1(c) = "unlink" => c.answers # <<>> /\ Questions(c.report)[Len(c.answers)][2] = "write"
         /\ Next1(c) \in {"write", "unlink"} => c.report # "api"
         /\ Len(c.answers) \in Nat
         /\ c.answers # <<>> => Len(c.answers) \in 1..Len(c.answers) /\ Previous(c) \in BOOLEAN
<1> DEFINE n == Len(c.answers)
           s == Questions(c.report)
<1>1. /\ c.report \in Reports /\ c.answers \in Seq(BOOLEAN) /\ n \in Nat /\ n < Len(s)
      /\ c.answers # <<>> => n \in 1..n
  BY LenProperties, EmptySeq DEF Honest, Given
<1>2. Proper(s) /\ Len(s) \in Nat BY <1>1, ListsAre
<1>3. n + 1 \in 1..Len(s) /\ (n + 1) - 1 = n BY <1>1, <1>2
<1>4. s[n + 1] \in (Judged \cup Unjudged) \X Probed BY <1>2, <1>3 DEF Proper, Lists
<1>5. Next1(c) = s[n + 1][2] BY DEF Next1
<1>6. Next1(c) \in Probed BY <1>4, <1>5
<1>7. Needs(Next1(c)) \subseteq Services BY <1>6, NeedsAre DEF Probed, Services
<1>8. /\ Next1(c) = "models" => n + 1 > 1 /\ s[n][2] = "tags"
      /\ Next1(c) = "unlink" => n + 1 > 1 /\ s[n][2] = "write"
  BY <1>2, <1>3, <1>5 DEF Proper
<1>9. n + 1 > 1 => c.answers # <<>> BY <1>1
<1>10. Next1(c) \in {"write", "unlink"} => c.report # "api" BY <1>3, <1>5, ListsAre DEF KeepsOff
<1>11. c.answers # <<>> => Previous(c) \in BOOLEAN BY <1>1 DEF Previous
<1>12. QED BY <1>1, <1>6, <1>7, <1>8, <1>9, <1>10, <1>11

LEMMA AnswerIs ==
  ASSUME NEW c, NEW q
  PROVE  /\ q = "connect" => (AnswerOf(c, q) <=> c.link # "none" \/ Needs(q) \subseteq up)
         /\ q \in {"enabled", "extension", "count"} =>
              (AnswerOf(c, q) <=> c.link = "open" \/ (c.link = "none" /\ Needs(q) \subseteq up))
         /\ q = "models" => (AnswerOf(c, q) <=> Previous(c) /\ Needs(q) \subseteq up)
         /\ q = "unlink" =>
              (AnswerOf(c, q) <=> Previous(c) /\ Needs(q) \subseteq up /\ TestFile(c.report) \in testFiles)
         /\ q \notin {"connect", "enabled", "extension", "count", "models", "unlink"} =>
              (AnswerOf(c, q) <=> Needs(q) \subseteq up)
  BY DEF AnswerOf

LEMMA AnswerIsSaid ==
  ASSUME NEW c, Honest(c), c.pc = "asking"
  PROVE  AnswerOf(c, Next1(c)) \in BOOLEAN
<1> DEFINE q == Next1(c)
<1>1. q \in {"models", "unlink"} => Previous(c) \in BOOLEAN BY Asks
<1>2. CASE q = "connect" BY <1>2 DEF AnswerOf
<1>3. CASE q \in {"enabled", "extension", "count"} BY <1>3 DEF AnswerOf
<1>4. CASE q = "models" BY <1>1, <1>4 DEF AnswerOf
<1>5. CASE q = "unlink" BY <1>1, <1>5 DEF AnswerOf
<1>6. CASE q \notin {"connect", "enabled", "extension", "count", "models", "unlink"}
  BY <1>6 DEF AnswerOf
<1>7. QED BY <1>2, <1>3, <1>4, <1>5, <1>6

\* What is answered now, of a report that has seen what is so now.
LEMMA AnswersWell ==
  ASSUME NEW c, Honest(c), c.pc = "asking", up \subseteq Services,
         NEW seenUp, NEW seenDown,
         seenUp = IF c.answers = <<>> THEN up ELSE c.seenUp,
         seenDown = IF c.answers = <<>> THEN Services \ up ELSE c.seenDown
  PROVE  LET q == Next1(c) IN
         /\ AnswerOf(c, q) \in BOOLEAN
         /\ AnswerOf(c, q) => Needs(q) \subseteq seenUp
         /\ ~AnswerOf(c, q) => Needs(q) \cap seenDown # {} \/ (q = "unlink" /\ c.joined)
         /\ up \subseteq seenUp /\ Services \ up \subseteq seenDown
<1> DEFINE q == Next1(c)
           n == Len(c.answers)
<1>1. up \subseteq seenUp /\ Services \ up \subseteq seenDown BY DEF Honest, Sees, Started
<1>2. Needs(q) \subseteq up => Needs(q) \subseteq seenUp BY <1>1
<1>3. ~(Needs(q) \subseteq up) => Needs(q) \cap seenDown # {} BY <1>1, Asks
<1>4. /\ c.link # "none" => "postgresql" \in seenUp
      /\ c.link = "broken" => "postgresql" \in seenDown
      /\ c.link \in {"none", "open", "broken"}
  BY DEF Honest, Sees, Given
<1>5. c.answers # <<>> =>
        /\ Questions(c.report)[n][2] = "tags" /\ ~Previous(c) => "ollama" \in seenDown
        /\ Questions(c.report)[n][2] = "write" /\ ~Previous(c) => "media" \in seenDown
        /\ Questions(c.report)[n][2] = "write" /\ Previous(c) /\ ~c.joined => TestFile(c.report) \in testFiles
  <2> SUFFICES ASSUME c.answers # <<>>
               PROVE  /\ Questions(c.report)[n][2] = "tags" /\ ~Previous(c) => "ollama" \in seenDown
                      /\ Questions(c.report)[n][2] = "write" /\ ~Previous(c) => "media" \in seenDown
                      /\ Questions(c.report)[n][2] = "write" /\ Previous(c) /\ ~c.joined =>
                           TestFile(c.report) \in testFiles
    OBVIOUS
  <2>1. n \in 1..n BY Asks
  <2>2. ~Previous(c) => \/ Needs(Questions(c.report)[n][2]) \cap seenDown # {}
                        \/ Questions(c.report)[n][2] = "unlink" /\ c.joined
    BY <2>1 DEF Honest, Says, Previous
  <2>3. QED BY <2>2, NeedsAre DEF Honest, KeepsFile, Started
<1>6. CASE q = "connect" BY <1>1, <1>2, <1>3, <1>4, <1>6, AnswerIs, NeedsAre, AnswerIsSaid
<1>7. CASE q \in {"enabled", "extension", "count"}
  <2>1. Needs(q) = {"postgresql"} /\ q # "unlink" BY <1>7, NeedsAre
  <2>2. AnswerOf(c, q) <=> c.link = "open" \/ (c.link = "none" /\ Needs(q) \subseteq up)
    BY <1>7, AnswerIs
  <2>3. QED BY <1>1, <1>2, <1>3, <1>4, <2>1, <2>2, AnswerIsSaid
<1>8. CASE q = "models" BY <1>1, <1>2, <1>3, <1>5, <1>8, AnswerIs, NeedsAre, Asks, AnswerIsSaid
<1>9. CASE q = "unlink" BY <1>1, <1>2, <1>3, <1>5, <1>9, AnswerIs, NeedsAre, Asks, AnswerIsSaid
<1>10. CASE q \notin {"connect", "enabled", "extension", "count", "models", "unlink"}
  BY <1>1, <1>2, <1>3, <1>10, AnswerIs, AnswerIsSaid
<1>11. QED BY <1>6, <1>7, <1>8, <1>9, <1>10

LEMMA AskMakes ==
  ASSUME ProbeInv, NEW p \in Probers, Ask(p), NEW c, c = probe[p], NEW d, d = probe'[p]
  PROVE  After(c, d, Next1(c))
<1> DEFINE C == probe[p]
           question == Next1(C)
           a == AnswerOf(C, question)
           l == LinkAfter(C, question)
           o == {r \in Probers \ {p} : UsesFile(probe[r]) /\ SameKind(C, probe[r])}
           k == IF Raises(C, question) THEN "failed"
                ELSE IF Len(C.answers) + 1 = Len(Questions(C.report)) THEN "answered" ELSE "asking"
           z == Append(C.answers, a)
           su == IF C.answers = <<>> THEN up ELSE C.seenUp
           sd == IF C.answers = <<>> THEN Services \ up ELSE C.seenDown
           j == C.joined \/ (C.report # "api" /\ o # {})
           f == [C EXCEPT !.answers = z, !.link = l, !.seenUp = su, !.seenDown = sd, !.joined = j, !.pc = k]
<1>1. C \in Given /\ Honest(C) /\ up \subseteq Services BY DEF ProbeInv
<1>2. C.pc = "asking" /\ (C.report = "monitor" /\ C.answers = <<>> => "postgresql" \in up)
  BY DEF Ask
<1>3. a \in BOOLEAN BY <1>1, <1>2, AnswerIsSaid
<1>4. l \in {"none", "open", "broken"} BY <1>1 DEF LinkAfter, Given
<1>5. /\ k \in {"failed", "answered", "asking"} /\ (k = "failed" => Raises(C, question))
      /\ k = "asking" => Len(C.answers) + 1 # Len(Questions(C.report))
      /\ k = "answered" => Len(C.answers) + 1 = Len(Questions(C.report))
  OBVIOUS
<1>6. probe' = [r \in Probers |->
         CASE r = p -> f
           [] r \in o -> [probe[r] EXCEPT !.joined = @ \/ C.report # "api"]
           [] OTHER -> probe[r]]
  BY DEF Ask
<1>7. d = f
  <2> DEFINE g(r) == [probe[r] EXCEPT !.joined = @ \/ C.report # "api"]
             h(r) == CASE r = p -> f [] r \in o -> g(r) [] OTHER -> probe[r]
  <2>1. probe' = [r \in Probers |-> h(r)] BY <1>6
  <2>2. h(p) = f
    OBVIOUS
  <2> HIDE DEF f, o, g, h
  <2>3. QED BY <2>1, <2>2
<1>8. /\ testFiles' = CASE question = "write" /\ a -> testFiles \cup {TestFile(C.report)}
                        [] question = "unlink" /\ a -> testFiles \ {TestFile(C.report)}
                        [] OTHER -> testFiles
      /\ probeSite' = probeSite /\ up' = up
  BY DEF Ask
<1>9. j \in BOOLEAN /\ (C.joined => j) BY <1>1 DEF Given
<1> HIDE DEF a, l, k, o, j
<1>10. z \in Seq(BOOLEAN) /\ su \in SUBSET Services /\ sd \in SUBSET Services
  BY <1>1, <1>3 DEF Given
<1> HIDE DEF z, su, sd
<1>13. /\ d \in Given /\ d.report = C.report /\ d.answers = z /\ d.link = l
       /\ d.seenUp = su /\ d.seenDown = sd /\ d.joined = j /\ d.pc = k
  BY <1>1, <1>4, <1>5, <1>7, <1>9, <1>10 DEF Given
<1>11. /\ question # "write" => testFiles' \subseteq testFiles
       /\ question = "write" /\ a => testFiles' = testFiles \cup {TestFile(C.report)}
       /\ ~(question = "unlink" /\ a) => testFiles \subseteq testFiles'
       /\ testFiles \ {TestFile(C.report)} \subseteq testFiles'
  BY <1>8
<1>12. QED BY <1>1, <1>2, <1>5, <1>8, <1>9, <1>11, <1>13 DEF After, a, l, z, su, sd

LEMMA OneMore ==
  ASSUME NEW S, NEW list \in Seq(S), NEW x \in S
  PROVE  /\ Append(list, x) \in Seq(S) /\ Len(Append(list, x)) = Len(list) + 1
         /\ Append(list, x) # <<>> /\ Append(list, x)[Len(list) + 1] = x
         /\ \A i \in 1..Len(list) : Append(list, x)[i] = list[i]
OBVIOUS

LEMMA AskerStaysHonest ==
  ASSUME ProbeInv, NEW p \in Probers, Ask(p)
  PROVE  Honest(probe[p])'
<1>1. PICK c : c = probe[p]
  OBVIOUS
<1>2. PICK d : d = probe'[p]
  OBVIOUS
<1>3. PICK q : q = Next1(c)
  OBVIOUS
<1>4. /\ c.pc = "asking" /\ Honest(c) /\ c \in Given /\ d \in Given
      /\ c.report = "monitor" /\ c.answers = <<>> => "postgresql" \in up
      /\ d.report = c.report /\ d.answers = Append(c.answers, AnswerOf(c, q))
      /\ d.link = LinkAfter(c, q)
      /\ d.seenUp = IF c.answers = <<>> THEN up ELSE c.seenUp
      /\ d.seenDown = IF c.answers = <<>> THEN Services \ up ELSE c.seenDown
      /\ c.joined => d.joined
      /\ d.pc # "idle" /\ (d.pc = "failed" => Raises(c, q))
      /\ d.pc = "asking" => Len(c.answers) + 1 # Len(Questions(c.report))
      /\ d.pc = "answered" => Len(c.answers) + 1 = Len(Questions(c.report))
      /\ probeSite' = probeSite /\ up' = up
      /\ q # "write" => testFiles' \subseteq testFiles
      /\ q = "write" /\ AnswerOf(c, q) => testFiles' = testFiles \cup {TestFile(c.report)}
      /\ ~(q = "unlink" /\ AnswerOf(c, q)) => testFiles \subseteq testFiles'
      /\ testFiles \ {TestFile(c.report)} \subseteq testFiles'
  <2>1. After(c, d, q) BY <1>1, <1>2, <1>3, AskMakes
  <2>2. QED BY <2>1 DEF After
<1> DEFINE a == AnswerOf(c, q)
           n == Len(c.answers)
           s == Questions(c.report)
<1>5. up \subseteq Services BY DEF ProbeInv
<1>6. /\ a \in BOOLEAN
      /\ a => Needs(q) \subseteq d.seenUp
      /\ ~a => Needs(q) \cap d.seenDown # {} \/ (q = "unlink" /\ c.joined)
      /\ up \subseteq d.seenUp /\ Services \ up \subseteq d.seenDown
  BY <1>3, <1>4, <1>5, AnswersWell
<1>7. /\ Questions(c.report)' = s /\ Questions(d.report)' = s
      /\ \A x : Needs(x)' = Needs(x)
  BY <1>4, ReportsUnmoved
<1>8. /\ q \in Probed /\ n \in Nat /\ q = s[n + 1][2]
      /\ q = "models" => c.answers # <<>> /\ s[n][2] = "tags"
      /\ q = "unlink" => c.answers # <<>> /\ s[n][2] = "write"
      /\ c.answers # <<>> => n \in 1..n
  BY <1>3, <1>4, Asks DEF Next1
<1>9. c.answers = <<>> <=> n = 0 BY <1>4, EmptySeq DEF Given
<1>10. /\ c.report \in Reports /\ Len(s) \in Nat /\ n < Len(s) /\ c.answers \in Seq(BOOLEAN)
  BY <1>4, ListsAre DEF Honest, Given
<1>11. /\ d.answers \in Seq(BOOLEAN) /\ Len(d.answers) = n + 1 /\ d.answers # <<>>
       /\ \A i \in 1..n : d.answers[i] = c.answers[i]
       /\ d.answers[n + 1] = a
  <2>1. d.answers = Append(c.answers, a) BY <1>4
  <2>2. c.answers \in Seq(BOOLEAN) /\ a \in BOOLEAN BY <1>6, <1>10
  <2> HIDE DEF a
  <2>3. QED BY <2>1, <2>2, OneMore
<1> HIDE DEF a, n, s
<1>12. Says(d)'
  <2> SUFFICES ASSUME NEW i \in 1..(n + 1)
               PROVE  /\ d.answers[i] => Needs(s[i][2]) \subseteq d.seenUp
                      /\ ~d.answers[i] =>
                           \/ Needs(s[i][2]) \cap d.seenDown # {}
                           \/ s[i][2] = "unlink" /\ d.joined
    BY <1>7, <1>11 DEF Says
  <2>1. CASE i = n + 1 BY <1>4, <1>6, <1>8, <1>11, <2>1
  <2>2. CASE i # n + 1
    <3>1. i \in 1..n /\ n # 0 BY <1>8, <2>2
    <3>2. d.seenUp = c.seenUp /\ d.seenDown = c.seenDown BY <1>4, <1>9, <3>1
    <3>3. /\ c.answers[i] => Needs(s[i][2]) \subseteq c.seenUp
          /\ ~c.answers[i] =>
               \/ Needs(s[i][2]) \cap c.seenDown # {}
               \/ s[i][2] = "unlink" /\ c.joined
      BY <1>4, <3>1 DEF Honest, Says, n, s
    <3>4. QED BY <1>4, <1>11, <3>1, <3>2, <3>3
  <2>3. QED BY <2>1, <2>2
<1>13. c.link = "none" /\ d.link # "none" => d.link = "open" /\ "postgresql" \in d.seenUp
  <2> SUFFICES ASSUME c.link = "none", d.link # "none"
               PROVE  d.link = "open" /\ "postgresql" \in d.seenUp
    OBVIOUS
  <2>1. d.link = "open" /\ ((Needs(q) = {"postgresql"} /\ a) \/ c.report = "monitor")
    BY <1>4 DEF LinkAfter, a
  <2>2. c.report = "monitor" => "postgresql" \in up BY <1>4 DEF Honest, Sees
  <2>3. QED BY <1>6, <2>1, <2>2
<1>14. c.link # "none" => d.link = c.link BY <1>4 DEF LinkAfter
<1>15. Sees(d)'
  <2>1. c.link # "none" => "postgresql" \in c.seenUp /\ c.answers # <<>> BY <1>4 DEF Honest, Sees
  <2>2. c.link = "broken" => "postgresql" \in c.seenDown BY <1>4 DEF Honest, Sees
  <2>3. c.report = "monitor" => d.link # "none" BY <1>4, <1>14 DEF LinkAfter
  <2>4. QED BY <1>4, <1>6, <1>11, <1>13, <1>14, <2>1, <2>2, <2>3 DEF Sees, Started
<1>16. KeepsFile(d)'
  <2> SUFFICES ASSUME q = "write", a PROVE TestFile(d.report) \in testFiles'
    BY <1>7, <1>8, <1>11 DEF KeepsFile, Previous
  <2>1. QED BY <1>4 DEF a
<1>17. Raises(c, q) => {"postgresql", "ollama"} \cap d.seenDown # {}
  <2>1. CASE q = "count" /\ ~a BY <1>6, <2>1, NeedsAre
  <2>2. CASE q = "models" /\ "ollama" \notin up BY <1>6, <2>2 DEF Services
  <2>3. QED BY <2>1, <2>2 DEF Raises, a
<1>18. Honest(d)' BY <1>4, <1>7, <1>8, <1>10, <1>11, <1>12, <1>15, <1>16, <1>17 DEF Honest, n, s
<1>19. QED BY <1>2, <1>18

LEMMA OthersStayHonest ==
  ASSUME ProbeInv, NEW p \in Probers, Ask(p), NEW r \in Probers, r # p
  PROVE  Honest(probe[r])'
<1> DEFINE C == probe[p]
           E == probe[r]
           question == Next1(C)
           o == {x \in Probers \ {p} : UsesFile(probe[x]) /\ SameKind(C, probe[x])}
           g(x) == [probe[x] EXCEPT !.joined = @ \/ C.report # "api"]
<1>1. PICK d : d = probe'[p]
  OBVIOUS
<1>2. After(C, d, question) BY <1>1, AskMakes
<1>3. r \in o => probe'[r] = g(r) BY <1>2 DEF Ask
<1>4. r \notin o => probe'[r] = E
  <2> DEFINE f == probe'[p]
             h(x) == CASE x = p -> f [] x \in o -> g(x) [] OTHER -> probe[x]
  <2> SUFFICES ASSUME r \notin o PROVE probe'[r] = E
    OBVIOUS
  <2>1. QED BY DEF Ask
<1>5. Honest(E) /\ E \in Given /\ C \in Given BY DEF ProbeInv
<1>6. PICK e : e = E
  OBVIOUS
<1>7. PICK z : z = probe'[r]
  OBVIOUS
<1>8. /\ z \in Given /\ z.report = e.report /\ z.answers = e.answers /\ z.pc = e.pc /\ z.link = e.link
      /\ z.seenUp = e.seenUp /\ z.seenDown = e.seenDown /\ (e.joined => z.joined)
      /\ r \in o /\ C.report # "api" => z.joined
  <2>1. CASE r \in o BY <1>3, <1>5, <1>6, <1>7, <2>1 DEF Given
  <2>2. CASE r \notin o BY <1>4, <1>5, <1>6, <1>7, <2>2
  <2>3. QED BY <2>1, <2>2
<1>9. /\ probeSite' = probeSite /\ up' = up
      /\ C.pc = "asking" /\ Honest(C)
      /\ ~(question = "unlink" /\ AnswerOf(C, question)) => testFiles \subseteq testFiles'
      /\ testFiles \ {TestFile(C.report)} \subseteq testFiles'
  BY <1>2 DEF After
<1>10. /\ \A x : Questions(x)' = Questions(x)
       /\ \A x : Needs(x)' = Needs(x)
  BY <1>9, ReportsUnmoved
<1>11. question = "unlink" => C.report # "api" BY <1>9, Asks
<1>12. Says(z)' BY <1>5, <1>6, <1>8, <1>10 DEF Honest, Says
<1>13. Sees(z)' BY <1>5, <1>6, <1>8, <1>9 DEF Honest, Sees, Started
<1>14. KeepsFile(z)'
  <2> SUFFICES ASSUME Started(e), Questions(e.report)[Len(e.answers)][2] = "write", Previous(e), ~z.joined
               PROVE  TestFile(e.report) \in testFiles'
    BY <1>8, <1>10 DEF KeepsFile, Started, Previous
  <2>1. TestFile(e.report) \in testFiles BY <1>5, <1>6, <1>8 DEF Honest, KeepsFile, Given
  <2>2. Len(e.answers) \in 1..Len(Questions(e.report)) /\ e.report \in Reports
    <3>1. e.answers \in Seq(BOOLEAN) /\ e.answers # <<>> /\ e.report \in Reports
          /\ Len(e.answers) <= Len(Questions(e.report))
      BY <1>5, <1>6 DEF Honest, Started, Given
    <3>2. Len(e.answers) \in Nat /\ Len(e.answers) # 0 /\ Len(Questions(e.report)) \in Nat
      BY <3>1, EmptySeq, ListsAre
    <3>3. QED BY <3>1, <3>2
  <2>3. e.report # "api" BY <2>2, ListsAre DEF KeepsOff
  <2>4. CASE ~(question = "unlink" /\ AnswerOf(C, question)) BY <1>9, <2>1, <2>4
  <2>5. CASE question = "unlink"
    <3>1. r \notin o BY <1>8, <1>11, <2>5
    <3>2. ~SameKind(C, E) BY <1>6, <2>3, <3>1 DEF UsesFile
    <3>3. TestFile(e.report) # TestFile(C.report) BY <1>6, <3>2 DEF SameKind, TestFile
    <3>4. QED BY <1>9, <2>1, <3>3
  <2>6. QED BY <2>4, <2>5
<1>15. Honest(z)' BY <1>5, <1>6, <1>8, <1>10, <1>12, <1>13, <1>14 DEF Honest
<1>16. QED BY <1>7, <1>15

LEMMA SwingKeepsHonest ==
  ASSUME ProbeInv, NEW s \in Services, Swing(s), NEW p \in Probers
  PROVE  Honest(probe[p])'
<1> DEFINE now == IF s \in up THEN up \ {s} ELSE up \cup {s}
           C == probe[p]
           su == C.seenUp \cup now
           sd == C.seenDown \cup (Services \ now)
           l == IF s = "postgresql" /\ C.link = "open" THEN "broken" ELSE C.link
           f == [C EXCEPT !.seenUp = su, !.seenDown = sd, !.link = l]
<1>1. /\ up' = now /\ probeSite' = probeSite /\ testFiles' = testFiles
      /\ probe'[p] = IF ~Started(C) THEN C ELSE f
  BY DEF Swing
<1>2. C \in Given /\ Honest(C) /\ up \subseteq Services BY DEF ProbeInv
<1>3. now \subseteq Services BY <1>2
<1>4. PICK c : c = C
  OBVIOUS
<1>5. PICK z : z = probe'[p]
  OBVIOUS
<1>6. su \in SUBSET Services /\ sd \in SUBSET Services /\ l \in {"none", "open", "broken"}
  BY <1>2, <1>3 DEF Given
<1>7. /\ \A x : Questions(x)' = Questions(x)
      /\ \A x : Needs(x)' = Needs(x)
  BY <1>1, ReportsUnmoved
<1>8. CASE ~Started(c)
  <2>1. z = c /\ Honest(c) BY <1>1, <1>2, <1>4, <1>5, <1>8
  <2>2. Sees(z)' /\ KeepsFile(z)' BY <1>8, <2>1 DEF Honest, Sees, KeepsFile, Started
  <2>3. Says(z)' BY <1>7, <2>1 DEF Honest, Says
  <2>4. Honest(z)' BY <1>7, <2>1, <2>2, <2>3 DEF Honest
  <2>5. QED BY <1>5, <2>4
<1>9. CASE Started(c)
  <2>1. /\ z \in Given /\ z.report = c.report /\ z.answers = c.answers /\ z.pc = c.pc /\ z.joined = c.joined
        /\ z.seenUp = su /\ z.seenDown = sd /\ z.link = l
    <3> HIDE DEF su, sd, l
    <3>1. z = f BY <1>1, <1>4, <1>5, <1>9
    <3>2. QED BY <1>2, <1>4, <1>6, <3>1 DEF Given
  <2>2. c \in Given /\ Honest(c) /\ c.seenUp \subseteq z.seenUp /\ c.seenDown \subseteq z.seenDown
        /\ now \subseteq z.seenUp /\ Services \ now \subseteq z.seenDown
    BY <1>2, <1>4, <2>1
  <2>3. Says(z)' BY <1>7, <2>1, <2>2 DEF Honest, Says
  <2>4. s = "postgresql" /\ c.link = "open" => "postgresql" \in z.seenDown
    <3> SUFFICES ASSUME s = "postgresql", c.link = "open" PROVE "postgresql" \in z.seenDown
      OBVIOUS
    <3>1. "postgresql" \in Services \ up \/ "postgresql" \in Services \ now BY DEF Services
    <3>2. Services \ up \subseteq c.seenDown BY <1>9, <2>2 DEF Honest, Sees
    <3>3. QED BY <2>2, <3>1, <3>2
  <2>5. Sees(z)'
    <3>1. z.link # "none" => c.link # "none" BY <1>4, <2>1
    <3>2. z.link = "none" => c.link = "none" BY <1>4, <2>1
    <3>3. z.link = "broken" => c.link = "broken" \/ (s = "postgresql" /\ c.link = "open")
      BY <1>4, <2>1
    <3>4. QED BY <1>1, <2>1, <2>2, <2>4, <3>1, <3>2, <3>3 DEF Honest, Sees, Started
  <2>6. KeepsFile(z)' BY <1>1, <1>7, <2>1, <2>2 DEF Honest, KeepsFile, Started, Previous
  <2>7. z.pc = "failed" => {"postgresql", "ollama"} \cap z.seenDown # {} BY <2>1, <2>2 DEF Honest
  <2>8. Honest(z)' BY <1>7, <2>1, <2>2, <2>3, <2>5, <2>6, <2>7 DEF Honest
  <2>9. QED BY <1>5, <2>8
<1>10. QED BY <1>8, <1>9

LEMMA ProbesStart == ProbeInit => ProbeInv
<1> SUFFICES ASSUME ProbeInit PROVE ProbeInv
  OBVIOUS
<1>1. /\ probeSite \in ProbeSites /\ up \subseteq Services
      /\ probeSite.requests \in [Probers -> Reports \cup {"none"}]
      /\ probe = [p \in Probers |-> Report(probeSite.requests[p])]
  BY ProbeSitesAssumption DEF ProbeInit
<1>2. ASSUME NEW k \in Reports \cup {"none"} PROVE Honest(Report(k))
  <2>1. PICK c : c = Report(k)
    OBVIOUS
  <2>2. /\ c \in Given /\ c.report = k /\ c.answers = <<>> /\ c.link = "none" /\ Len(c.answers) = 0
        /\ c.pc = IF k = "none" THEN "idle" ELSE "asking"
    BY <2>1 DEF Report, Given
  <2>3. c.pc # "idle" => c.report \in Reports /\ Len(c.answers) < Len(Questions(c.report))
    BY <2>2, ListsAre
  <2>4. Says(c) /\ Sees(c) /\ KeepsFile(c) BY <2>2 DEF Says, Sees, KeepsFile, Started
  <2>5. c.pc # "idle" => Len(c.answers) <= Len(Questions(c.report))
    <3> SUFFICES ASSUME c.pc # "idle" PROVE Len(c.answers) <= Len(Questions(c.report))
      OBVIOUS
    <3>1. Len(Questions(c.report)) \in Nat BY <2>3, ListsAre
    <3>2. QED BY <2>2, <3>1
  <2>6. QED BY <2>1, <2>2, <2>3, <2>4, <2>5 DEF Honest
<1>3. \A p \in Probers : probe[p] = Report(probeSite.requests[p]) /\ Honest(probe[p]) BY <1>1, <1>2
<1>4. probe \in [Probers -> Given] BY <1>1, <1>3 DEF Honest
<1>5. QED BY <1>1, <1>3, <1>4 DEF ProbeInv

LEMMA ProbesStayHonest == ProbeInv /\ [ProbeNext]_probeVars => ProbeInv'
<1> SUFFICES ASSUME ProbeInv, [ProbeNext]_probeVars PROVE ProbeInv'
  OBVIOUS
<1>1. ASSUME NEW p \in Probers, Ask(p) PROVE ProbeInv'
  <2>1. \A r \in Probers : Honest(probe[r])' BY <1>1, AskerStaysHonest, OthersStayHonest
  <2>2. \A r \in Probers : probe'[r] \in Given BY <2>1 DEF Honest
  <2>3. probe' = [r \in Probers |-> probe'[r]]
    <3> DEFINE C == probe[p]
               question == Next1(C)
               o == {r \in Probers \ {p} : UsesFile(probe[r]) /\ SameKind(C, probe[r])}
               f == [C EXCEPT
                      !.answers = Append(@, AnswerOf(C, question)),
                      !.link = LinkAfter(C, question),
                      !.seenUp = IF C.answers = <<>> THEN up ELSE @,
                      !.seenDown = IF C.answers = <<>> THEN Services \ up ELSE @,
                      !.joined = @ \/ (C.report # "api" /\ o # {}),
                      !.pc = IF Raises(C, question) THEN "failed"
                             ELSE IF Len(C.answers) + 1 = Len(Questions(C.report)) THEN "answered"
                             ELSE "asking"]
               h(r) == CASE r = p -> f
                         [] r \in o -> [probe[r] EXCEPT !.joined = @ \/ C.report # "api"]
                         [] OTHER -> probe[r]
    <3>1. probe' = [r \in Probers |-> h(r)] BY <1>1 DEF Ask
    <3> HIDE DEF h
    <3>2. QED BY <3>1
  <2>4. probe' \in [Probers -> Given] BY <2>2, <2>3
  <2>5. probeSite' = probeSite /\ up' = up BY <1>1 DEF Ask
  <2>6. QED BY <2>1, <2>4, <2>5 DEF ProbeInv
<1>2. ASSUME NEW s \in Services, Swing(s) PROVE ProbeInv'
  <2>1. \A r \in Probers : Honest(probe[r])' BY <1>2, SwingKeepsHonest
  <2>2. \A r \in Probers : probe'[r] \in Given BY <2>1 DEF Honest
  <2>3. probe' = [r \in Probers |-> probe'[r]] BY <1>2 DEF Swing
  <2>4. probe' \in [Probers -> Given] BY <2>2, <2>3
  <2>5. probeSite' = probeSite /\ up' \subseteq Services BY <1>2 DEF Swing, ProbeInv
  <2>6. QED BY <2>1, <2>4, <2>5 DEF ProbeInv
<1>3. CASE UNCHANGED probeVars
  <2>1. \A x : Questions(x)' = Questions(x) BY <1>3, ReportsUnmoved DEF probeVars
  <2>2. \A x : Needs(x)' = Needs(x) BY <1>3, ReportsUnmoved DEF probeVars
  <2>3. ASSUME NEW c, Honest(c) PROVE Honest(c)'
    BY <1>3, <2>1, <2>2, <2>3 DEF Honest, Says, Sees, KeepsFile, Started, Previous, probeVars
  <2>4. \A r \in Probers : Honest(probe[r])' BY <1>3, <2>3 DEF ProbeInv, probeVars
  <2>5. QED BY <1>3, <2>4 DEF ProbeInv, probeVars
<1>4. QED BY <1>1, <1>2, <1>3 DEF ProbeNext

-----------------------------------------------------------------------------
(* Health reports: what a finished report says.                            *)

\* A component all of whose questions lie among those from first to last is
\* called well only if what it stands on has been up, and otherwise part of it
\* has been down.
LEMMA RowHolds ==
  ASSUME NEW c, Honest(c), c.pc = "answered", NEW k \in Judged,
         NEW first \in Nat \ {0}, NEW last \in 1..Len(c.answers),
         \E i \in first..last : Questions(c.report)[i][1] = k,
         \A i \in first..last : Questions(c.report)[i][1] = k =>
           \A q \in QuestionsOn(k) : \E j \in first..last : Questions(c.report)[j] = <<k, q>>
  PROVE  /\ Well(c, k, first, last) => Supports(k) \subseteq c.seenUp
         /\ ~Well(c, k, first, last) =>
              (Supports(k) \cap c.seenDown # {}) \/ (k = "storage" /\ c.joined)
<1> DEFINE s == Questions(c.report)
<1>1. /\ c.report \in Reports /\ Len(c.answers) = Len(s) /\ Len(s) \in Nat /\ Proper(s)
  BY ListsAre DEF Honest
<1>2. \A i \in first..last : i \in 1..Len(s) /\ i \in 1..Len(c.answers) BY <1>1
<1>3. \A i \in 1..Len(c.answers) :
        /\ c.answers[i] => Needs(s[i][2]) \subseteq c.seenUp
        /\ ~c.answers[i] => \/ Needs(s[i][2]) \cap c.seenDown # {}
                            \/ s[i][2] = "unlink" /\ c.joined
  BY DEF Honest, Says
<1>4. ASSUME Well(c, k, first, last), NEW q \in QuestionsOn(k)
      PROVE  Needs(q) \subseteq c.seenUp
  <2>1. PICK j \in first..last : s[j] = <<k, q>>
    OBVIOUS
  <2>2. s[j][1] = k /\ s[j][2] = q BY <2>1
  <2>3. c.answers[j] BY <1>4, <2>2 DEF Well
  <2>4. QED BY <1>2, <1>3, <2>2, <2>3
<1>5. ASSUME ~Well(c, k, first, last)
      PROVE  (Supports(k) \cap c.seenDown # {}) \/ (k = "storage" /\ c.joined)
  <2>1. PICK i \in first..last : s[i][1] = k /\ ~c.answers[i] BY <1>5 DEF Well
  <2>2. s[i][2] \in QuestionsOn(k) /\ (s[i][2] = "unlink" => k = "storage")
    BY <1>1, <1>2, <2>1 DEF Proper
  <2>3. Needs(s[i][2]) \subseteq Supports(k) BY <2>2 DEF Supports
  <2>4. QED BY <1>2, <1>3, <2>1, <2>2, <2>3
<1>6. QED BY <1>4, <1>5 DEF Supports

\* The rows of the reports that show the components of a list of questions,
\* which is that of the report or one of its halves.
LEMMA RowsHold ==
  ASSUME NEW c, Honest(c), c.pc = "answered",
         NEW first \in Nat \ {0}, NEW last \in 1..Len(c.answers),
         NEW s, Round(c, first, last, s),
         NEW k \in DOMAIN Components(c, first, last), ~Settled(k)
  PROVE  /\ k \in Judged
         /\ Components(c, first, last)[k] = "healthy" <=> Well(c, k, first, last)
         /\ Components(c, first, last)[k] = "healthy" => Supports(k) \subseteq c.seenUp
         /\ Components(c, first, last)[k] # "healthy" =>
              (Supports(k) \cap c.seenDown # {}) \/ (k = "storage" /\ c.joined)
<1> DEFINE Q == Questions(c.report)
<1> USE DEF Round
<1>1. /\ Len(s) \in Nat /\ first \in Nat /\ last \in Nat /\ Len(c.answers) \in Nat
      /\ \A i \in 1..Len(s) : s[i] \in (Judged \cup Unjudged) \X Probed
  BY ListsAre, LenProperties DEF Proper, Lists, Honest, Given
<1>2. /\ \A i \in 1..Len(s) : (first - 1) + i \in first..last /\ Q[(first - 1) + i] = s[i]
      /\ \A j \in first..last : (j - first) + 1 \in 1..Len(s) /\ Q[j] = s[(j - first) + 1]
  <2>1. \A i \in 1..Len(s) : (first - 1) + i \in first..last BY <1>1
  <2>2. \A j \in first..last : (j - first) + 1 \in 1..Len(s) /\ (first - 1) + ((j - first) + 1) = j
    BY <1>1
  <2>3. QED BY <2>1, <2>2
<1>3. k \in {Q[i][1] : i \in first..last} \cup {"youtube_publishing", "rss_feed_generator"}
  BY DEF Components
<1>4. k # "youtube_publishing" /\ k # "embedding_provider" /\ k # "own_supabase"
  BY DEF Settled, Misnamed
<1>5. k = "rss_feed_generator" => probeSite.rss BY DEF Settled
<1>6. \E i \in first..last : Q[i][1] = k
  <2>1. CASE k = "rss_feed_generator"
    <3>1. PICK i \in 1..Len(s) : s[i][1] = k BY <1>5, <2>1 DEF AsksAbout
    <3>2. QED BY <1>2, <3>1
  <2>2. CASE k # "rss_feed_generator" BY <1>3, <1>4, <2>2
  <2>3. QED BY <2>1, <2>2
<1>7. k \in Judged
  <2>1. PICK i \in first..last : Q[i][1] = k BY <1>6
  <2>2. PICK m \in 1..Len(s) : Q[i] = s[m] BY <1>2
  <2>3. s[m][1] \in Judged \cup Unjudged BY <1>1
  <2>4. QED BY <1>4, <2>1, <2>2, <2>3 DEF Unjudged
<1>8. \A i \in first..last : Q[i][1] = k =>
        \A q \in QuestionsOn(k) : \E j \in first..last : Q[j] = <<k, q>>
  <2> SUFFICES ASSUME NEW i \in first..last, Q[i][1] = k, NEW q \in QuestionsOn(k)
               PROVE  \E j \in first..last : Q[j] = <<k, q>>
    OBVIOUS
  <2>1. PICK m \in 1..Len(s) : s[m][1] = k BY <1>2
  <2>2. \A x \in QuestionsOn(s[m][1]) : \E j \in 1..Len(s) : s[j] = <<s[m][1], x>>
    <3>1. s[m][1] \in Judged BY <1>7, <2>1
    <3>2. QED BY <3>1 DEF Proper
  <2>3. PICK j \in 1..Len(s) : s[j] = <<k, q>> BY <2>1, <2>2
  <2>4. QED BY <1>2, <2>3
<1>9. /\ Well(c, k, first, last) => Supports(k) \subseteq c.seenUp
      /\ ~Well(c, k, first, last) =>
           (Supports(k) \cap c.seenDown # {}) \/ (k = "storage" /\ c.joined)
  BY <1>6, <1>7, <1>8, RowHolds
<1>10. Components(c, first, last)[k] = "healthy" <=> Well(c, k, first, last)
  <2>1. /\ ~(k = "youtube_publishing" \/ (k = "rss_feed_generator" /\ ~probeSite.rss))
        /\ k # "embedding_provider"
        /\ ~(k = "celery_beat" /\ ~probeSite.scheduled)
        /\ ~(k = "supabase" /\ ~probeSite.supabase)
    BY <1>4, <1>5 DEF Settled
  <2>2. Components(c, first, last)[k] =
          Grade(Well(c, k, first, last), IF k = "celery_workers" THEN "warning" ELSE "unhealthy")
    BY <1>3, <2>1 DEF Components
  <2>3. QED BY <2>2 DEF Grade
<1>11. QED BY <1>7, <1>9, <1>10

\* The two rounds of the unified report.
LEMMA TwoRounds ==
  ASSUME NEW c, Honest(c), c.pc = "answered", c.report = "unified"
  PROVE  /\ HalfOf(c.report) = Len(Unified) /\ Len(Unified) \in Nat \ {0}
         /\ Len(c.answers) = Len(Unified) + Len(Unified)
         /\ \A i \in 1..Len(Unified) :
              /\ Questions(c.report)[i] = Unified[i]
              /\ Questions(c.report)[Len(Unified) + i] = Unified[i]
<1>1. Questions("unified") = Unified \o Unified /\ Proper(Unified) /\ Len(Unified) \in Nat \ {0}
  <2>1. "ready" \in Reports BY DEF Reports
  <2>2. QED BY <2>1, ListsAre
<1>2. Unified \in Lists BY <1>1 DEF Proper
<1>3. /\ Len(Unified \o Unified) = Len(Unified) + Len(Unified)
      /\ \A i \in 1..Len(Unified) + Len(Unified) : (Unified \o Unified)[i] =
           IF i <= Len(Unified) THEN Unified[i] ELSE Unified[i - Len(Unified)]
  BY <1>2, ConcatProperties DEF Lists
<1>4. Len(c.answers) = Len(Questions(c.report)) BY DEF Honest
<1>5. \A i \in 1..Len(Unified) :
        /\ i \in 1..Len(Unified) + Len(Unified) /\ i <= Len(Unified)
        /\ Len(Unified) + i \in 1..Len(Unified) + Len(Unified) /\ ~(Len(Unified) + i <= Len(Unified))
        /\ (Len(Unified) + i) - Len(Unified) = i
  BY <1>1
<1>6. \A i \in 1..Len(Unified) :
        (Unified \o Unified)[i] = Unified[i] /\ (Unified \o Unified)[Len(Unified) + i] = Unified[i]
  BY <1>3, <1>5
<1>7. HalfOf(c.report) = Len(Unified) BY DEF HalfOf
<1>8. QED BY <1>1, <1>3, <1>4, <1>6, <1>7

LEMMA UnifiedTrue ==
  ASSUME NEW c, Honest(c), c.pc = "answered", c.report = "unified"
  PROVE  /\ \A k \in DOMAIN Rows(c) : ~Settled(k) =>
              IF Rows(c)[k] = "healthy" THEN Supports(k) \subseteq c.seenUp
              ELSE (Supports(k) \cap c.seenDown # {}) \/ (k = "storage" /\ c.joined)
         /\ Status(c) = "unhealthy"
<1> DEFINE h == Len(Unified)
           n == Len(c.answers)
<1>1. /\ HalfOf(c.report) = h /\ h \in Nat \ {0} /\ n = h + h
      /\ \A i \in 1..h : Questions(c.report)[i] = Unified[i] /\ Questions(c.report)[h + i] = Unified[i]
  BY TwoRounds
<1>2. /\ Proper(Unified) /\ AsksAbout(Unified, "embedding_provider")
      /\ probeSite.rss => AsksAbout(Unified, "rss_feed_generator")
  BY UnifiedList
<1>3. Rows(c) = Components(c, h + 1, n) /\ Status(c) = Summarize(Components(c, 1, h))
  BY <1>1 DEF Rows, Status
<1>4. ASSUME NEW k \in DOMAIN Rows(c), ~Settled(k)
      PROVE  IF Rows(c)[k] = "healthy" THEN Supports(k) \subseteq c.seenUp
             ELSE (Supports(k) \cap c.seenDown # {}) \/ (k = "storage" /\ c.joined)
  <2>1. h + 1 \in Nat \ {0} /\ n \in 1..n /\ h = (n - (h + 1)) + 1 /\ (h + 1) - 1 = h BY <1>1
  <2> DEFINE first == h + 1
  <2>2. \A i \in 1..h : Questions(c.report)[(first - 1) + i] = Unified[i] BY <1>1, <2>1
  <2>3. first \in Nat \ {0} /\ h = (n - first) + 1 BY <2>1
  <2>4. k \in DOMAIN Components(c, first, n) BY <1>3
  <2>7. Round(c, first, n, Unified) BY <1>2, <2>2, <2>3 DEF Round
  <2> HIDE DEF first, n, h
  <2>5. /\ Components(c, first, n)[k] = "healthy" => Supports(k) \subseteq c.seenUp
        /\ Components(c, first, n)[k] # "healthy" =>
             (Supports(k) \cap c.seenDown # {}) \/ (k = "storage" /\ c.joined)
    BY <1>4, <2>1, <2>3, <2>4, <2>7, RowsHold DEF n
  <2>6. QED BY <1>3, <2>5 DEF first, n
<1>5. PICK i \in 1..h : Unified[i][1] = "embedding_provider" BY <1>2 DEF AsksAbout
<1>6. /\ i \in 1..h /\ Questions(c.report)[i][1] = "embedding_provider"
      /\ h + i \in (h + 1)..n /\ Questions(c.report)[h + i][1] = "embedding_provider"
  BY <1>1, <1>5
<1>7. \A first, last :
        (\E j \in first..last : Questions(c.report)[j][1] = "embedding_provider") =>
          /\ "embedding_provider" \in DOMAIN Components(c, first, last)
          /\ Components(c, first, last)["embedding_provider"] = "unhealthy"
  BY DEF Components
<1>8. \A first, last :
        (\E j \in first..last : Questions(c.report)[j][1] = "embedding_provider") =>
          "unhealthy" \in Range(Components(c, first, last))
  BY <1>7 DEF Range
<1>10. Status(c) = "unhealthy"
  <2>1. "unhealthy" \in Range(Components(c, 1, h)) BY <1>6, <1>8
  <2>2. \A x : "unhealthy" \in Range(x) => Summarize(x) = "unhealthy" BY DEF Summarize
  <2>3. QED BY <1>3, <2>1, <2>2
<1>11. QED BY <1>4, <1>10

\* The readiness probe and the API show all components of their lists.
LEMMA ListTrue ==
  ASSUME NEW c, Honest(c), c.pc = "answered", c.report \in {"ready", "api"}
  PROVE  /\ Rows(c) = Components(c, 1, Len(c.answers)) /\ Len(c.answers) \in Nat \ {0}
         /\ \A k \in DOMAIN Rows(c) : ~Settled(k) =>
              /\ k \in Judged /\ (Rows(c)[k] = "healthy" <=> Well(c, k, 1, Len(c.answers)))
              /\ IF Rows(c)[k] = "healthy" THEN Supports(k) \subseteq c.seenUp
                 ELSE (Supports(k) \cap c.seenDown # {}) \/ (k = "storage" /\ c.joined)
<1> DEFINE n == Len(c.answers)
           s == Questions(c.report)
<1>1. c.report \in Reports /\ n = Len(s) /\ n \in Nat \ {0} /\ Proper(s)
  BY ListsAre DEF Reports, Honest
<1>2. probeSite.rss => AsksAbout(s, "rss_feed_generator") BY ListsAre, UnifiedList, ApiList
<1>3. Rows(c) = Components(c, 1, n) BY DEF Rows
<1>4. Round(c, 1, n, s)
  <2>1. n = (n - 1) + 1 BY <1>1
  <2>2. \A i \in 1..Len(s) : s[(1 - 1) + i] = s[i] BY <1>1
  <2>3. QED BY <1>1, <1>2, <2>1, <2>2 DEF Round
<1>5. 1 \in Nat \ {0} /\ n \in 1..Len(c.answers) BY <1>1
<1>6. ASSUME NEW k \in DOMAIN Rows(c), ~Settled(k)
      PROVE  /\ k \in Judged /\ (Rows(c)[k] = "healthy" <=> Well(c, k, 1, n))
             /\ IF Rows(c)[k] = "healthy" THEN Supports(k) \subseteq c.seenUp
                ELSE (Supports(k) \cap c.seenDown # {}) \/ (k = "storage" /\ c.joined)
  <2> HIDE DEF n, s
  <2>1. k \in DOMAIN Components(c, 1, n) BY <1>3, <1>6
  <2>2. /\ k \in Judged
        /\ Components(c, 1, n)[k] = "healthy" <=> Well(c, k, 1, n)
        /\ Components(c, 1, n)[k] = "healthy" => Supports(k) \subseteq c.seenUp
        /\ Components(c, 1, n)[k] # "healthy" =>
             (Supports(k) \cap c.seenDown # {}) \/ (k = "storage" /\ c.joined)
    BY <1>4, <1>5, <1>6, <2>1, RowsHold
  <2>3. QED BY <1>3, <2>2
<1>7. QED BY <1>1, <1>3, <1>6

LEMMA ReadyTrue ==
  ASSUME NEW c, Honest(c), c.pc = "answered", c.report = "ready"
  PROVE  IF Status(c) = "healthy" THEN {"postgresql", "redis"} \subseteq c.seenUp
         ELSE {"postgresql", "redis"} \cap c.seenDown # {}
<1> DEFINE n == Len(c.answers)
           rows == Components(c, 1, n)
<1>1. /\ Rows(c) = rows /\ n \in Nat \ {0}
      /\ \A k \in DOMAIN rows : ~Settled(k) =>
           /\ rows[k] = "healthy" <=> Well(c, k, 1, n)
           /\ IF rows[k] = "healthy" THEN Supports(k) \subseteq c.seenUp
              ELSE (Supports(k) \cap c.seenDown # {}) \/ (k = "storage" /\ c.joined)
  BY ListTrue
<1>2. Status(c) = Readiness(rows) BY DEF Status
<1>3. Questions(c.report) = Unified /\ n = Len(Unified) BY ListsAre DEF Honest
<1>4. \A k \in Critical : k \in DOMAIN rows /\ ~Settled(k)
  <2> SUFFICES ASSUME NEW k \in Critical PROVE k \in DOMAIN rows /\ ~Settled(k)
    OBVIOUS
  <2>1. AsksAbout(Unified, k) BY UnifiedList DEF Critical
  <2>2. PICK i \in 1..n : Questions(c.report)[i][1] = k BY <1>3, <2>1 DEF AsksAbout
  <2>3. QED BY <2>2 DEF Components, Settled, Misnamed, Critical
<1>5. \A k \in {"postgresql", "redis"} :
        /\ rows[k] \in {"healthy", "unhealthy"} /\ Supports(k) = {k}
        /\ rows[k] = "healthy" => k \in c.seenUp
        /\ rows[k] # "healthy" => k \in c.seenDown
  <2> SUFFICES ASSUME NEW k \in {"postgresql", "redis"}
               PROVE  /\ rows[k] \in {"healthy", "unhealthy"} /\ Supports(k) = {k}
                      /\ rows[k] = "healthy" => k \in c.seenUp
                      /\ rows[k] # "healthy" => k \in c.seenDown
    OBVIOUS
  <2>1. k \in Critical BY DEF Critical
  <2>2. Supports(k) = {k} BY QuestionsAre, NeedsAre DEF Supports
  <2>3. rows[k] = Grade(Well(c, k, 1, n), IF k = "celery_workers" THEN "warning" ELSE "unhealthy")
    BY <1>4, <2>1 DEF Components
  <2>4. rows[k] \in {"healthy", "unhealthy"} BY <2>3 DEF Grade
  <2>5. QED BY <1>1, <1>4, <2>1, <2>2, <2>4
<1>6. rows["celery_workers"] \in {"healthy", "warning"}
  <2>1. "celery_workers" \in DOMAIN rows BY <1>4 DEF Critical
  <2>2. rows["celery_workers"] = Grade(Well(c, "celery_workers", 1, n), "warning")
    BY <2>1 DEF Components
  <2>3. QED BY <2>2 DEF Grade
<1> HIDE DEF rows
<1>7. Status(c) = "healthy" <=> rows["postgresql"] = "healthy" /\ rows["redis"] = "healthy"
  <2>1. (\A k \in Critical : rows[k] \in {"healthy", "warning"})
          <=> rows["postgresql"] = "healthy" /\ rows["redis"] = "healthy"
    BY <1>5, <1>6 DEF Critical
  <2>2. QED BY <1>2, <2>1 DEF Readiness, Grade
<1>8. QED BY <1>5, <1>7

LEMMA ApiTrue ==
  ASSUME NEW c, Honest(c), c.pc = "answered", c.report = "api", Status(c) = "healthy",
         NEW k \in DOMAIN Rows(c), ~Settled(k)
  PROVE  Supports(k) \subseteq c.seenUp
<1>1. \A i \in 1..Len(c.answers) : c.answers[i] BY DEF Status, Overall, Grade
<1>2. Well(c, k, 1, Len(c.answers)) BY <1>1 DEF Well
<1>3. QED BY <1>2, ListTrue

LEMMA AsksAll ==
  ASSUME NEW s, Proper(s), NEW i \in 1..Len(s), s[i][1] \in Judged
  PROVE  \A q \in QuestionsOn(s[i][1]) : \E j \in 1..Len(s) : s[j] = <<s[i][1], q>>
  BY DEF Proper

LEMMA MonitorTrue ==
  ASSUME NEW c, Honest(c), c.pc = "answered", c.report = "monitor",
         NEW k \in DOMAIN Rows(c), ~Settled(k)
  PROVE  IF Rows(c)[k] = "healthy" THEN Supports(k) \subseteq c.seenUp
         ELSE (Supports(k) \cap c.seenDown # {}) \/ (k = "storage" /\ c.joined)
<1> DEFINE n == Len(c.answers)
           Q == Questions(c.report)
<1>1. /\ Q = Monitor /\ Proper(Monitor) /\ n = Len(Monitor) /\ n \in Nat \ {0}
  <2>1. "monitor" \in Reports BY DEF Reports
  <2>2. QED BY <2>1, ListsAre DEF Honest
<1>2. Rows(c) = MonitorRows(c) BY DEF Rows
<1>3. k \in {"postgresql", "redis", "celery_workers", "ollama", "chatterbox", "supabase", "ffmpeg", "storage"}
  BY <1>2 DEF MonitorRows
<1>4. CASE k = "supabase"
  <2>1. probeSite.supabase BY <1>4 DEF Settled
  <2>2. Rows(c)[k] = Grade(Well(c, "own_supabase", 1, n), "unhealthy")
    BY <1>2, <1>4, <2>1 DEF MonitorRows
  <2>3. Supports(k) = {"supabase"} /\ Needs("rest") = {"supabase"}
    BY <1>4, <2>1, QuestionsAre, NeedsAre DEF Supports
  <2>4. PICK i \in 1..n : Q[i][1] = "own_supabase" BY <1>1, MonitorList DEF AsksAbout
  <2>5. \A j \in 1..n : Q[j][1] = "own_supabase" =>
          /\ c.answers[j] => "supabase" \in c.seenUp
          /\ ~c.answers[j] => "supabase" \in c.seenDown
    <3> SUFFICES ASSUME NEW j \in 1..n, Q[j][1] = "own_supabase"
                 PROVE  /\ c.answers[j] => "supabase" \in c.seenUp
                        /\ ~c.answers[j] => "supabase" \in c.seenDown
      OBVIOUS
    <3>1. Q[j][2] = "rest" BY <1>1 DEF Proper
    <3>2. QED BY <2>3, <3>1 DEF Honest, Says
  <2>6. CASE Well(c, "own_supabase", 1, n)
    <3>1. c.answers[i] BY <2>4, <2>6 DEF Well
    <3>2. QED BY <2>2, <2>3, <2>4, <2>5, <2>6, <3>1 DEF Grade
  <2>7. CASE ~Well(c, "own_supabase", 1, n)
    <3>1. PICK j \in 1..n : Q[j][1] = "own_supabase" /\ ~c.answers[j] BY <2>7 DEF Well
    <3>2. QED BY <2>2, <2>3, <2>5, <2>7, <3>1 DEF Grade
  <2>8. QED BY <2>6, <2>7
<1>5. CASE k # "supabase"
  <2>1. Rows(c)[k] = Grade(Well(c, k, 1, n), IF k = "celery_workers" THEN "warning" ELSE "unhealthy")
    BY <1>2, <1>3, <1>5 DEF MonitorRows
  <2>2. k \in Judged BY <1>3 DEF Judged
  <2>3. \E i \in 1..n : Q[i][1] = k BY <1>1, <1>3, <1>5, MonitorList DEF AsksAbout
  <2>4. \A i \in 1..n : Q[i][1] = k =>
          \A q \in QuestionsOn(k) : \E j \in 1..n : Q[j] = <<k, q>>
    <3> SUFFICES ASSUME NEW i \in 1..n, Q[i][1] = k
                 PROVE  \A q \in QuestionsOn(k) : \E j \in 1..n : Q[j] = <<k, q>>
      OBVIOUS
    <3>1. i \in 1..Len(Monitor) /\ Monitor[i][1] = k /\ Monitor[i][1] \in Judged BY <1>1, <2>2
    <3>2. \A q \in QuestionsOn(Monitor[i][1]) : \E j \in 1..Len(Monitor) : Monitor[j] = <<Monitor[i][1], q>>
      BY <1>1, <3>1, AsksAll
    <3>3. \A q \in QuestionsOn(k) : \E j \in 1..Len(Monitor) : Monitor[j] = <<k, q>> BY <3>1, <3>2
    <3>4. QED BY <1>1, <3>3
  <2>5. 1 \in Nat \ {0} /\ n \in 1..Len(c.answers) BY <1>1
  <2>6. /\ Well(c, k, 1, n) => Supports(k) \subseteq c.seenUp
        /\ ~Well(c, k, 1, n) => (Supports(k) \cap c.seenDown # {}) \/ (k = "storage" /\ c.joined)
    BY <2>2, <2>3, <2>4, <2>5, RowHolds
  <2>7. QED BY <2>1, <2>6 DEF Grade
<1>6. QED BY <1>4, <1>5

-----------------------------------------------------------------------------
(* Health reports: the theorem.                                            *)

LEMMA ReportsHold == ProbeInv => ReportsTellTheTruth
<1> SUFFICES ASSUME ProbeInv, NEW p \in Probers
             PROVE  LET c == probe[p]
                        rows == Rows(c)
                        told == {k \in DOMAIN rows : ~Settled(k)}
                    IN
                    /\ c.pc = "failed" => {"postgresql", "ollama"} \cap c.seenDown # {}
                    /\ c.pc = "answered" =>
                         /\ \A k \in told :
                              IF rows[k] = "healthy" THEN Supports(k) \subseteq c.seenUp
                              ELSE (Supports(k) \cap c.seenDown # {}) \/ (k = "storage" /\ c.joined)
                         /\ \A k \in Misnamed \cap DOMAIN rows : rows[k] = "unhealthy"
                         /\ c.report = "unified" => Status(c) = "unhealthy"
                         /\ c.report = "ready" =>
                              IF Status(c) = "healthy" THEN {"postgresql", "redis"} \subseteq c.seenUp
                              ELSE {"postgresql", "redis"} \cap c.seenDown # {}
                         /\ (c.report = "api" /\ Status(c) = "healthy") =>
                              \A k \in told : Supports(k) \subseteq c.seenUp
  BY DEF ReportsTellTheTruth
<1>1. PICK c : c = probe[p]
  OBVIOUS
<1>2. Honest(c) BY <1>1 DEF ProbeInv
<1>3. c.pc = "failed" => {"postgresql", "ollama"} \cap c.seenDown # {} BY <1>2 DEF Honest
<1>4. c.pc = "answered" => c.report \in {"unified", "ready", "api", "monitor"}
  BY <1>2 DEF Honest, Reports
<1>5. c.pc = "answered" =>
        \A k \in DOMAIN Rows(c) : ~Settled(k) =>
          IF Rows(c)[k] = "healthy" THEN Supports(k) \subseteq c.seenUp
          ELSE (Supports(k) \cap c.seenDown # {}) \/ (k = "storage" /\ c.joined)
  BY <1>2, <1>4, UnifiedTrue, ListTrue, MonitorTrue
<1>6. c.pc = "answered" /\ c.report = "unified" => Status(c) = "unhealthy" BY <1>2, UnifiedTrue
<1>10. \A k \in Misnamed \cap DOMAIN Rows(c) : Rows(c)[k] = "unhealthy"
  <2>1. \A first, last : "embedding_provider" \in DOMAIN Components(c, first, last) =>
          Components(c, first, last)["embedding_provider"] = "unhealthy"
    BY DEF Components
  <2>2. "embedding_provider" \notin DOMAIN MonitorRows(c) BY DEF MonitorRows
  <2>3. \/ Rows(c) = MonitorRows(c)
        \/ \E first, last : Rows(c) = Components(c, first, last)
    BY DEF Rows
  <2>4. QED BY <2>1, <2>2, <2>3 DEF Misnamed
<1>7. c.pc = "answered" /\ c.report = "ready" =>
        IF Status(c) = "healthy" THEN {"postgresql", "redis"} \subseteq c.seenUp
        ELSE {"postgresql", "redis"} \cap c.seenDown # {}
  BY <1>2, ReadyTrue
<1>8. c.pc = "answered" /\ c.report = "api" /\ Status(c) = "healthy" =>
        \A k \in DOMAIN Rows(c) : ~Settled(k) => Supports(k) \subseteq c.seenUp
  BY <1>2, ApiTrue
<1>9. QED BY <1>1, <1>3, <1>5, <1>6, <1>7, <1>8, <1>10

\* However many requests, however services come and go and whoever else puts
\* the test file: what a report says of a service it asks was so while it was
\* made, and of the embedding provider it says the same whatever is so.
THEOREM ReportsAreTrue == FairSpec => []ReportsTellTheTruth
<1>1. StudioInit => ProbeInv BY ProbesStart DEF StudioInit
<1>2. ProbeInv /\ [StudioNext]_studioVars => ProbeInv'
  <2> SUFFICES ASSUME ProbeInv, [StudioNext]_studioVars PROVE ProbeInv'
    OBVIOUS
  <2>1. [ProbeNext]_probeVars BY DEF StudioNext, studioVars
  <2>2. QED BY <2>1, ProbesStayHonest
<1>3. QED BY <1>1, <1>2, ReportsHold, PTL DEF FairSpec

-----------------------------------------------------------------------------
(***************************************************************************)
(* A theorem about the voices of the personas, for any number of           *)
(* generations, any script, any voices of the server and any rows to begin *)
(* with.                                                                   *)
(*                                                                         *)
(* A setup is a transaction of many statements, which sees what others     *)
(* commit meanwhile.  The argument is that it does not matter when it sees *)
(* what: Mended is the row a setup that knows the voices it wants makes of *)
(* another one, and the rows that the setups see, write and commit are     *)
(* always those at some base, or the Mended ones.  A generation whose rows *)
(* nobody else has changed has the rows as its base; and as long as        *)
(* nothing changes at all, the rows at the start are the base of           *)
(* everybody, since all want the same voices.                              *)
(***************************************************************************)

-----------------------------------------------------------------------------
(* Personas, the rows of the setup, and distinct voices.                   *)

\* Min is the least number of a set.
LEMMA LeastNumber ==
  ASSUME NEW S \in SUBSET Nat, S # {}
  PROVE  Min(S) \in S /\ \A y \in S : Min(S) <= y
<1> DEFINE R == {p \in Nat \X Nat : p[1] < p[2]}
<1>1. IsWellFoundedOn(R, Nat) BY NatLessThanWellFounded DEF OpToRel
<1>2. PICK x \in S : \A y \in S : ~ (<<y, x>> \in R)
  <2> HIDE DEF R
  <2>1. QED BY <1>1, WFMin, Zenon
<1>3. ASSUME NEW y \in S PROVE x <= y
  <2>1. x \in Nat /\ y \in Nat /\ <<y, x>> \notin R BY <1>2
  <2>2. ~ (y < x) BY <2>1
  <2>3. QED BY <2>1, <2>2
<1>4. QED BY <1>3 DEF Min

\* The personas of PersonaVoiceResolver by name.
LEMMA PersonaNames == ToSet(Primary) = PrimarySet /\ Personas = PersonaSet
<1>1. DOMAIN Primary = 1..3 BY DEF Primary
<1>2. DOMAIN Secondary = {"narration", "outro"} BY DEF Secondary
<1>3. Primary[1] = "intro" /\ Primary[2] = "expert" /\ Primary[3] = "beginner" BY DEF Primary
<1>4. ToSet(Primary) = {Primary[i] : i \in 1..3} BY <1>1 DEF ToSet
<1>5. QED BY <1>2, <1>3, <1>4 DEF Personas, PrimarySet, PersonaSet

\* Every persona has the profile of a primary one.
LEMMA ProfilesNamed ==
  /\ \A p \in PersonaSet : ProfileOf(p) \in PrimarySet
  /\ \A p \in PrimarySet : ProfileOf(p) = p
  /\ SetupNames = PrimarySet \cup {"default"}
<1>1. DOMAIN Secondary = {"narration", "outro"} BY DEF Secondary
<1>2. Secondary["narration"] = "expert" /\ Secondary["outro"] = "beginner" BY DEF Secondary
<1>3. \A p \in PrimarySet : ProfileOf(p) = p BY <1>1 DEF ProfileOf, PrimarySet
<1>4. ProfileOf("narration") = "expert" /\ ProfileOf("outro") = "beginner"
  BY <1>1, <1>2 DEF ProfileOf
<1>5. \A p \in PersonaSet : ProfileOf(p) \in PrimarySet BY <1>3, <1>4 DEF PersonaSet, PrimarySet
<1>7. QED BY <1>3, <1>5, PersonaNames DEF SetupNames

\* The setup makes a profile for each primary persona and a mapping for each
\* persona, and nothing else.
LEMMA SetupRowsListed ==
  /\ Len(SetupRows) = 8
  /\ \A i \in 1..8 :
       /\ SetupRows[i] = Row(SetupRows[i].table, SetupRows[i].persona)
       /\ SetupRows[i].table \in Tables /\ SetupRows[i].persona \in PersonaSet
  /\ \A p \in PrimarySet : \E i \in 1..8 : SetupRows[i] = Row("profiles", p)
  /\ \A p \in PersonaSet : \E i \in 1..8 : SetupRows[i] = Row("mappings", p)
<1>1. Len(SetupRows) = 8 BY DEF SetupRows
<1>2. /\ SetupRows[1] = Row("profiles", "intro") /\ SetupRows[2] = Row("mappings", "intro")
      /\ SetupRows[3] = Row("profiles", "expert") /\ SetupRows[4] = Row("mappings", "expert")
      /\ SetupRows[5] = Row("profiles", "beginner") /\ SetupRows[6] = Row("mappings", "beginner")
      /\ SetupRows[7] = Row("mappings", "narration") /\ SetupRows[8] = Row("mappings", "outro")
  BY DEF SetupRows
<1>3. ASSUME NEW i \in 1..8
      PROVE  /\ SetupRows[i] = Row(SetupRows[i].table, SetupRows[i].persona)
             /\ SetupRows[i].table \in Tables /\ SetupRows[i].persona \in PersonaSet
  <2>1. i \in {1, 2, 3, 4, 5, 6, 7, 8}
    OBVIOUS
  <2>2. \E t \in Tables, p \in PersonaSet : SetupRows[i] = Row(t, p)
    BY <2>1, <1>2 DEF Tables, PersonaSet, PrimarySet
  <2>3. QED BY <2>2 DEF Row
<1>4. QED BY <1>1, <1>2, <1>3 DEF PersonaSet, PrimarySet

\* An update that is made twice is made once.
LEMMA OverTwice ==
  ASSUME NEW f, NEW g
  PROVE  Over(f, Over(f, g)) = Over(f, g)
<1> DEFINE h == Over(f, g)
<1>1. h = [x \in DOMAIN f \cup DOMAIN g |-> IF x \in DOMAIN f THEN f[x] ELSE g[x]] BY DEF Over
<1>2. Over(f, h) = [x \in DOMAIN f \cup DOMAIN h |-> IF x \in DOMAIN f THEN f[x] ELSE h[x]]
  BY DEF Over
<1> HIDE DEF h
<1>3. DOMAIN h = DOMAIN f \cup DOMAIN g BY <1>1
<1>4. DOMAIN f \cup DOMAIN h = DOMAIN f \cup DOMAIN g BY <1>3
<1>5. \A x \in DOMAIN f \cup DOMAIN g :
        (IF x \in DOMAIN f THEN f[x] ELSE h[x]) = (IF x \in DOMAIN f THEN f[x] ELSE g[x])
  BY <1>1
<1>6. Over(f, h) = h BY <1>1, <1>2, <1>4, <1>5
<1>7. QED BY <1>6 DEF h

\* A profile that is given another voice has it.
LEMMA OverVoice ==
  ASSUME NEW v, NEW r
  PROVE  (Over([voice |-> v], r)).voice = v
<1> DEFINE f == [voice |-> v]
<1>1. DOMAIN f = {"voice"} /\ f.voice = v
  OBVIOUS
<1> HIDE DEF f
<1>2. Over(f, r) = [x \in DOMAIN f \cup DOMAIN r |-> IF x \in DOMAIN f THEN f[x] ELSE r[x]]
  BY DEF Over
<1>3. Over(f, r)["voice"] = f["voice"] BY <1>1, <1>2
<1>4. QED BY <1>3, <1>1 DEF f

\* A mapping that is switched on again keeps its profile.
LEMMA OverEnabled ==
  ASSUME NEW r \in MappingRows
  PROVE Over([enabled |-> TRUE], r) = [profile |-> r.profile, enabled |-> TRUE]
<1> DEFINE f == [enabled |-> TRUE] s == [profile |-> r.profile, enabled |-> TRUE]
<1>1. DOMAIN f = {"enabled"} /\ f["enabled"] = TRUE
  OBVIOUS
<1>0. DOMAIN r = {"profile", "enabled"} BY DEF MappingRows, PersonaVoiceMapping
<1>4. s = [x \in {"profile", "enabled"} |-> s[x]] /\ s["enabled"] = TRUE /\ s["profile"] = r["profile"]
  OBVIOUS
<1> HIDE DEF f, s
<1>2. Over(f, r) = [x \in DOMAIN f \cup DOMAIN r |-> IF x \in DOMAIN f THEN f[x] ELSE r[x]]
  BY DEF Over
<1>3. DOMAIN f \cup DOMAIN r = {"profile", "enabled"} BY <1>1, <1>0
<1>5. Over(f, r) = s BY <1>1, <1>2, <1>3, <1>4
<1>6. QED BY <1>5 DEF f, s

\* A mapping is written as a whole.
LEMMA OverMapping ==
  ASSUME NEW r \in MappingRows, NEW q
  PROVE Over(Mapping(q), r) = Mapping(q)
<1> DEFINE f == Mapping(q)
<1>1. DOMAIN f = {"enabled", "profile"} BY DEF Mapping
<1>0. DOMAIN r = {"profile", "enabled"} BY DEF MappingRows, PersonaVoiceMapping
<1>4. f = [x \in {"enabled", "profile"} |-> f[x]] BY DEF Mapping
<1> HIDE DEF f
<1>2. Over(f, r) = [x \in DOMAIN f \cup DOMAIN r |-> IF x \in DOMAIN f THEN f[x] ELSE r[x]]
  BY DEF Over
<1>5. Over(f, r) = f BY <1>0, <1>1, <1>2, <1>4
<1>6. QED BY <1>5 DEF f

\* What the setup writes is something.
LEMMA NotEmpty ==
   \A v, l : Profile(v, l) # <<>> /\ Mapping(v) # <<>> /\ [voice |-> v] # <<>> /\ [enabled |-> v] # <<>>
<1> SUFFICES ASSUME NEW v, NEW l
             PROVE  /\ Profile(v, l) # <<>> /\ Mapping(v) # <<>>
                    /\ [voice |-> v] # <<>> /\ [enabled |-> v] # <<>>
  OBVIOUS
<1>1. DOMAIN <<>> = {}
  OBVIOUS
<1>2. /\ "voice" \in DOMAIN Profile(v, l) /\ "profile" \in DOMAIN Mapping(v)
      /\ "voice" \in DOMAIN [voice |-> v] /\ "enabled" \in DOMAIN [enabled |-> v]
  BY DEF Profile, Mapping
<1>3. QED BY <1>1, <1>2

\* The setup leaves a row as it wants it, a mapping a mapping, the profile made
\* by hand the same, and nothing to correct.
LEMMA MendedRight ==
  ASSUME NEW t \in Tables, NEW p \in PersonaSet, NEW rows, NEW wanted,
         t = "mappings" => MappingsIn(rows)
  PROVE  /\ Right(t, p, Mended(t, p, rows, wanted), wanted)
         /\ t = "mappings" => Mended(t, p, rows, wanted) \in MappingRows
         /\ (t = "mappings" /\ p \in DOMAIN rows /\ ~AutoManaged(rows[p].profile)) =>
              Mended(t, p, rows, wanted).profile = rows[p].profile
         /\ \A more : (p \in DOMAIN more /\ more[p] = Mended(t, p, rows, wanted)) =>
              Correction(Row(t, p), more, wanted) = <<>>
         /\ (p \notin DOMAIN rows) => Correction(Row(t, p), rows, wanted) # <<>>
<1> DEFINE M == Mended(t, p, rows, wanted)
<1>1. CASE t = "profiles"
  <2>1. M.voice = wanted[p] BY <1>1, NotEmpty, OverVoice DEF Mended, Correction, Row, Profile
  <2>2. QED BY <2>1, <1>1, NotEmpty DEF Mended, Right, Correction, Row, Tables
<1>2. CASE t = "mappings"
  <2>1. p \notin DOMAIN rows => M = Mapping(ProfileOf(p))
    BY <1>2, NotEmpty DEF Mended, Correction, Row
  <2>2. p \in DOMAIN rows =>
          M = IF rows[p].profile # ProfileOf(p) /\ AutoManaged(rows[p].profile)
              THEN Over(Mapping(ProfileOf(p)), rows[p])
              ELSE IF rows[p].enabled THEN rows[p] ELSE Over([enabled |-> TRUE], rows[p])
    BY <1>2, NotEmpty DEF Mended, Correction, Row
  <2>3. \A r \in MappingRows :
          /\ Over(Mapping(ProfileOf(p)), r) = Mapping(ProfileOf(p))
          /\ Over([enabled |-> TRUE], r) = [profile |-> r.profile, enabled |-> TRUE]
    BY OverMapping, OverEnabled
  <2>4. p \in DOMAIN rows => rows[p] \in MappingRows BY <1>2 DEF MappingsIn
  <2>5. \A q : q \in SetupNames => Mapping(q) \in MappingRows
    BY DEF Mapping, MappingRows, PersonaVoiceMapping
  <2>6. \A q : Mapping(q).enabled /\ Mapping(q).profile = q BY DEF Mapping
  <2>7. /\ p \in DOMAIN rows =>
             M \in {Mapping(ProfileOf(p)), rows[p], [profile |-> rows[p].profile, enabled |-> TRUE]}
        /\ M.enabled /\ (M.profile = ProfileOf(p) \/ ~AutoManaged(M.profile))
        /\ (p \in DOMAIN rows /\ ~AutoManaged(rows[p].profile)) => M.profile = rows[p].profile
    <3> HIDE DEF M
    <3>1. CASE p \notin DOMAIN rows BY <3>1, <2>1, <2>6
    <3>2. CASE p \in DOMAIN rows
      <4>1. PICK r \in MappingRows : r = rows[p] BY <3>2, <2>4
      <4>2. M = IF r.profile # ProfileOf(p) /\ AutoManaged(r.profile) THEN Mapping(ProfileOf(p))
                ELSE IF r.enabled THEN r ELSE [profile |-> r.profile, enabled |-> TRUE]
        BY <4>1, <3>2, <2>2, <2>3
      <4>3. QED BY <4>1, <4>2, <2>6
    <3>3. QED BY <3>1, <3>2
  <2>8. ASSUME NEW more, p \in DOMAIN more, more[p] = M
        PROVE  Correction(Row(t, p), more, wanted) = <<>>
    <3> HIDE DEF M
    <3>1. Row(t, p).persona = p /\ Row(t, p).table = "mappings" BY <1>2 DEF Row
    <3>2. QED BY <3>1, <2>7, <2>8 DEF Correction
  <2>9. p \notin DOMAIN rows => Correction(Row(t, p), rows, wanted) # <<>>
    BY <1>2, NotEmpty DEF Correction, Row
  <2>10. p \in DOMAIN rows => M \in MappingRows
    <3> HIDE DEF M
    <3>1. CASE p \in DOMAIN rows /\ M = Mapping(ProfileOf(p)) BY <3>1, ProfilesNamed, <2>5
    <3>2. CASE p \in DOMAIN rows /\ M = rows[p] BY <3>2, <2>4
    <3>3. CASE p \in DOMAIN rows /\ M = [profile |-> rows[p].profile, enabled |-> TRUE]
      BY <3>3, <2>4 DEF MappingRows, PersonaVoiceMapping
    <3>4. QED BY <3>1, <3>2, <3>3, <2>7
  <2>11. p \notin DOMAIN rows => M \in MappingRows BY <2>1, <2>5, ProfilesNamed
  <2>12. QED BY <1>2, <2>7, <2>8, <2>9, <2>10, <2>11 DEF Right
<1>3. QED BY <1>1, <1>2 DEF Tables

\* Whoever has no voice yet gets one that no other has.
LEMMA GivenApart ==
  ASSUME NEW voices, Enough(voices), NEW fallback
  PROVE  GivesApart(voices, fallback)
<1> USE DEF GivesApart
<1> SUFFICES ASSUME NEW given, WellApart(given), NEW p \in PrimarySet
             PROVE  /\ WellApart(Give(voices, fallback, given, p))
                    /\ DOMAIN Give(voices, fallback, given, p) = DOMAIN given \cup {p}
  OBVIOUS
<1>1. CASE p \in DOMAIN given BY <1>1 DEF Give
<1>2. CASE p \notin DOMAIN given
  <2> DEFINE unused == Unused(voices, given)
  <2>1. \E a, b : Range(given) \subseteq {a, b}
    <3>1. PICK q, r \in PrimarySet : PrimarySet = {p, q, r} BY DEF PrimarySet
    <3>2. Range(given) \subseteq {given[q], given[r]} BY <1>2, <3>1 DEF WellApart, Range
    <3>3. QED BY <3>2
  <2>2. PICK a, b : Range(given) \subseteq {a, b} BY <2>1
  <2>3. \E id \in Ids(voices) : id \notin {a, b}
    <3> SUFFICES ASSUME Ids(voices) \subseteq {a, b} PROVE FALSE
      OBVIOUS
    <3>1. IsFiniteSet({a, b}) /\ Cardinality({a, b}) <= 2
      <4>1. IsFiniteSet({a}) /\ Cardinality({a}) = 1 BY FS_Singleton
      <4>2. {a, b} = {a} \cup {b}
        OBVIOUS
      <4>3. /\ IsFiniteSet({a} \cup {b})
            /\ \/ Cardinality({a} \cup {b}) = Cardinality({a})
               \/ Cardinality({a} \cup {b}) = Cardinality({a}) + 1
        BY <4>1, FS_AddElement
      <4>4. IsFiniteSet({a, b}) /\ (Cardinality({a, b}) = 1 \/ Cardinality({a, b}) = 1 + 1)
        BY <4>1, <4>2, <4>3
      <4>5. QED BY <4>4
    <3>2. Cardinality(Ids(voices)) <= Cardinality({a, b}) BY <3>1, FS_Subset
    <3>3. Cardinality(Ids(voices)) \in Nat /\ Cardinality({a, b}) \in Nat
      BY <3>1, FS_Subset, FS_CardinalityType
    <3>4. QED BY <3>1, <3>2, <3>3 DEF Enough
  <2>4. unused # {} /\ unused \in SUBSET Nat
    <3>1. DOMAIN voices = 1..Len(voices) /\ Len(voices) \in Nat BY DEF Enough
    <3>2. QED BY <2>2, <2>3, <3>1 DEF Ids, Unused
  <2>5. voices # <<>> BY <2>3 DEF Ids
  <2>6. VoiceFor(voices, given, p) \notin Range(given)
    <3> DEFINE hinted == {i \in unused : p \in voices[i].hints}
    <3>1. VoiceFor(voices, given, p) = IF hinted # {} THEN voices[Min(hinted)].id ELSE voices[Min(unused)].id
      BY <2>4 DEF VoiceFor
    <3>2. Min(unused) \in unused /\ (hinted # {} => Min(hinted) \in unused)
      <4>1. hinted \in SUBSET Nat /\ hinted \subseteq unused BY <2>4
      <4> HIDE DEF unused, hinted
      <4>2. QED BY <2>4, <4>1, LeastNumber
    <3>3. \A i \in unused : voices[i].id \notin Range(given) BY DEF Unused
    <3> HIDE DEF unused, hinted
    <3>4. QED BY <3>1, <3>2, <3>3
  <2>7. Give(voices, fallback, given, p) = With(given, p, VoiceFor(voices, given, p))
    BY <1>2, <2>5 DEF Give
  <2>8. \A q \in DOMAIN given : given[q] \in Range(given) BY DEF Range
  <2> HIDE DEF unused
  <2>9. QED BY <1>2, <2>6, <2>7, <2>8 DEF With, WellApart
<1>3. QED BY <1>1, <1>2

\* When the server has a voice for each of them, the primary personas get
\* voices of their own.
LEMMA DistinctVoicesApart ==
  ASSUME NEW voices, Enough(voices), NEW fallback,
         \A p, q \in PrimarySet : p # q => Settings(p) = "" \/ Settings(p) # Settings(q)
  PROVE  Distinct(voices, fallback)
<1>1. WellApart(ConfiguredVoices) BY PersonaNames DEF WellApart, ConfiguredVoices
<1> DEFINE g1 == Give(voices, fallback, ConfiguredVoices, "intro")
           g2 == Give(voices, fallback, g1, "expert")
           g3 == Give(voices, fallback, g2, "beginner")
<1>0. "intro" \in PrimarySet /\ "expert" \in PrimarySet /\ "beginner" \in PrimarySet
  BY DEF PrimarySet
<1>10. GivesApart(voices, fallback) BY GivenApart
<1>2. WellApart(g1) /\ DOMAIN g1 = DOMAIN ConfiguredVoices \cup {"intro"}
  BY <1>0, <1>1, <1>10 DEF GivesApart
<1>3. WellApart(g2) /\ DOMAIN g2 = DOMAIN g1 \cup {"expert"}
  <2> HIDE DEF g1
  <2>1. QED BY <1>0, <1>2, <1>10 DEF GivesApart
<1>4. WellApart(g3) /\ DOMAIN g3 = DOMAIN g2 \cup {"beginner"}
  <2> HIDE DEF g2
  <2>1. QED BY <1>0, <1>3, <1>10 DEF GivesApart
<1>5. DistinctVoices(voices, fallback) = g3 BY DEF DistinctVoices, Primary
<1> HIDE DEF g1, g2, g3
<1>6. DOMAIN g3 = PrimarySet BY <1>1, <1>2, <1>3, <1>4 DEF WellApart, PrimarySet
<1>7. QED BY <1>4, <1>5, <1>6 DEF Distinct

-----------------------------------------------------------------------------
(* Setups, and the rows they work from.                                    *)

\* Whatever a transaction sees comes from its base by setups.
LEMMA SeenValues ==
  ASSUME NEW c, NEW C, NEW B, Between(B, C, c.wanted), OwnMended(c, B), NEW t \in Tables
  PROVE  Mends(B[t], SeenBy(c, C, t), t, c.wanted)
  BY DEF Mends, Between, OwnMended, SeenBy, Over

\* Each row of the setup by its number.
LEMMA RowOf ==
  ASSUME NEW i \in 1..8
  PROVE  /\ SetupRows[i] = Row(SetupRows[i].table, SetupRows[i].persona)
         /\ SetupRows[i].table \in Tables /\ SetupRows[i].persona \in PersonaSet
         /\ SetupRow(SetupRows[i].table, SetupRows[i].persona)
<1>1. /\ SetupRows[i] = Row(SetupRows[i].table, SetupRows[i].persona)
      /\ SetupRows[i].table \in Tables /\ SetupRows[i].persona \in PersonaSet
  BY SetupRowsListed
<1>2. QED BY <1>1 DEF SetupRow

\* A correction depends on one row only.
LEMMA CorrectionAlike ==
  ASSUME NEW t \in Tables, NEW p, NEW rows, NEW more, NEW wanted,
         p \in DOMAIN rows <=> p \in DOMAIN more,
         p \in DOMAIN rows => rows[p] = more[p]
  PROVE  Correction(Row(t, p), rows, wanted) = Correction(Row(t, p), more, wanted)
<1>1. Row(t, p).persona = p BY DEF Row
<1>2. QED BY <1>1 DEF Correction

\* Whether others have mended a row or not: a transaction that sees something
\* to correct sees what is to correct in its base.
LEMMA CorrectionOfSeen ==
  ASSUME NEW c, NEW C, NEW B, Between(B, C, c.wanted), OwnMended(c, B), MappingsIn(B.mappings),
         NEW t \in Tables, NEW p \in PersonaSet
  PROVE  LET seen == SeenBy(c, C, t)
             fields == Correction(Row(t, p), seen, c.wanted)
         IN /\ fields = <<>> => p \in DOMAIN seen /\ seen[p] = Mended(t, p, B[t], c.wanted)
            /\ fields # <<>> => /\ fields = Correction(Row(t, p), B[t], c.wanted)
                                /\ p \in DOMAIN seen <=> p \in DOMAIN B[t]
<1> DEFINE seen == SeenBy(c, C, t)
           M == Mended(t, p, B[t], c.wanted)
<1>1. t = "mappings" => MappingsIn(B[t])
  OBVIOUS
<1>2. /\ \A more : (p \in DOMAIN more /\ more[p] = M) => Correction(Row(t, p), more, c.wanted) = <<>>
      /\ p \notin DOMAIN B[t] => Correction(Row(t, p), B[t], c.wanted) # <<>>
  BY <1>1, MendedRight
<1>3. /\ DOMAIN B[t] \subseteq DOMAIN seen
      /\ p \in DOMAIN seen => (p \in DOMAIN B[t] /\ seen[p] = B[t][p]) \/ seen[p] = M
  BY SeenValues DEF Mends
<1>4. M = LET fields == Correction(Row(t, p), B[t], c.wanted)
          IN IF fields = <<>> THEN B[t][p] ELSE IF p \in DOMAIN B[t] THEN Over(fields, B[t][p]) ELSE fields
  BY DEF Mended
<1> HIDE DEF seen, M
<1>5. CASE p \notin DOMAIN seen
  <2>1. Correction(Row(t, p), seen, c.wanted) = Correction(Row(t, p), B[t], c.wanted)
    BY <1>3, <1>5, CorrectionAlike
  <2>2. QED BY <2>1, <1>2, <1>3, <1>5 DEF seen, M
<1>6. CASE p \in DOMAIN seen /\ seen[p] = M
  <2>1. Correction(Row(t, p), seen, c.wanted) = <<>> BY <1>2, <1>6
  <2>2. QED BY <2>1, <1>6 DEF seen, M
<1>7. CASE p \in DOMAIN seen /\ p \in DOMAIN B[t] /\ seen[p] = B[t][p]
  <2>1. Correction(Row(t, p), seen, c.wanted) = Correction(Row(t, p), B[t], c.wanted)
    BY <1>7, CorrectionAlike
  <2>2. QED BY <2>1, <1>4, <1>7 DEF seen, M
<1>8. QED BY <1>3, <1>5, <1>6, <1>7

\* A look keeps to the base.
LEMMA LookedAhead ==
  ASSUME NEW c, Shape(c), NEW C, NEW B, Sets(c, C, B), MappingsIn(B.mappings), c.row \in 1..8,
         c.pc = "look"
  PROVE  Sets(Looked(c, C), C, B)
<1> DEFINE t == SetupRows[c.row].table
           p == SetupRows[c.row].persona
           fields == Correction(Row(t, p), SeenBy(c, C, t), c.wanted)
<1>1. t \in Tables /\ p \in PersonaSet /\ SetupRows[c.row] = Row(t, p) BY RowOf
<1>2. Between(B, C, c.wanted) /\ OwnMended(c, B) BY DEF Sets
<1> HIDE DEF t, p
<1>3. /\ fields = <<>> => p \in DOMAIN SeenBy(c, C, t) /\ SeenBy(c, C, t)[p] = Mended(t, p, B[t], c.wanted)
      /\ fields # <<>> => /\ fields = Correction(Row(t, p), B[t], c.wanted)
                          /\ p \in DOMAIN SeenBy(c, C, t) <=> p \in DOMAIN B[t]
  BY <1>1, <1>2, CorrectionOfSeen
<1> HIDE DEF fields
<1>4. CASE fields = <<>>
  <2> DEFINE d == [c EXCEPT !.row = @ + 1]
  <2>1. Looked(c, C) = d BY <1>1, <1>4 DEF Looked, fields, t, p
  <2>2. d.pc = "look" /\ d.row = c.row + 1 /\ d.own = c.own /\ d.wanted = c.wanted
    BY DEF Shape, Fields
  <2> HIDE DEF d
  <2>3. Between(B, C, d.wanted) /\ OwnMended(d, B) /\ Pending(d, B)
    BY <1>2, <2>2 DEF OwnMended, Pending
  <2>4. \A u, q : SeenBy(d, C, u) = SeenBy(c, C, u) /\ (Passed(d, C, B, u, q) <=> Passed(c, C, B, u, q))
    BY <2>2 DEF SeenBy, Passed
  <2>5. AllPassed(d, C, B)
    <3> SUFFICES ASSUME NEW i \in 1..8, i < d.row
                 PROVE  Passed(d, C, B, SetupRows[i].table, SetupRows[i].persona)
      BY DEF AllPassed
    <3>1. CASE i < c.row BY <3>1, <2>4 DEF Sets, AllPassed
    <3>2. CASE i = c.row
      <4>1. Passed(c, C, B, t, p) BY <1>3, <1>4 DEF Passed
      <4>2. QED BY <4>1, <3>2, <2>4 DEF t, p
    <3>3. QED BY <3>1, <3>2, <2>2
  <2>6. QED BY <2>1, <2>3, <2>5 DEF Sets
<1>5. CASE fields # <<>>
  <2> DEFINE d == [c EXCEPT !.pc = "write", !.fields = fields, !.new = p \notin DOMAIN SeenBy(c, C, t)]
  <2>1. Looked(c, C) = d BY <1>1, <1>5 DEF Looked, fields, t, p
  <2>2. /\ d.pc = "write" /\ d.row = c.row /\ d.own = c.own /\ d.wanted = c.wanted
        /\ d.fields = fields /\ d.new = (p \notin DOMAIN SeenBy(c, C, t))
    BY DEF Shape, Fields
  <2> HIDE DEF d
  <2>3. Between(B, C, d.wanted) /\ OwnMended(d, B) BY <1>2, <2>2 DEF OwnMended
  <2>4. \A u, q : SeenBy(d, C, u) = SeenBy(c, C, u) /\ (Passed(d, C, B, u, q) <=> Passed(c, C, B, u, q))
    BY <2>2 DEF SeenBy, Passed
  <2>5. AllPassed(d, C, B) BY <2>2, <2>4 DEF Sets, AllPassed
  <2>6. Pending(d, B)
    <3>1. d.fields = Correction(Row(t, p), B[t], d.wanted) /\ d.fields # <<>> BY <2>2, <1>3, <1>5
    <3>2. d.new = (p \notin DOMAIN B[t]) BY <2>2, <1>3, <1>5
    <3>3. /\ SetupRows[d.row] = Row(t, p) /\ d.row <= 8
          /\ SetupRows[d.row].table = t /\ SetupRows[d.row].persona = p
      BY <1>1, <2>2 DEF t, p
    <3>4. QED BY <3>1, <3>2, <3>3 DEF Pending
  <2>7. QED BY <2>1, <2>3, <2>5, <2>6 DEF Sets
<1>6. QED BY <1>4, <1>5

\* So does a write, whatever others have committed since the look.
LEMMA WroteRight ==
  ASSUME NEW c, Shape(c), NEW C, NEW B, Sets(c, C, B), c.row \in 1..8,
         c.pc = "write", DOMAIN c.own = Tables
  PROVE  Sets(Wrote(c, C), C, B)
<1> DEFINE t == SetupRows[c.row].table
           p == SetupRows[c.row].persona
           seen == SeenBy(c, C, t)
           M == Mended(t, p, B[t], c.wanted)
<1>1. t \in Tables /\ p \in PersonaSet /\ SetupRows[c.row] = Row(t, p) /\ SetupRow(t, p) BY RowOf
<1>2. Between(B, C, c.wanted) /\ OwnMended(c, B) BY DEF Sets
<1>9. Mends(B[t], seen, t, c.wanted)
  <2> HIDE DEF t
  <2>1. QED BY <1>1, <1>2, SeenValues
<1>3. /\ DOMAIN B[t] \subseteq DOMAIN seen
      /\ p \in DOMAIN seen => (p \in DOMAIN B[t] /\ seen[p] = B[t][p]) \/ seen[p] = M
  <2> HIDE DEF seen, t, p
  <2>1. QED BY <1>9 DEF Mends
<1>4. c.fields = Correction(Row(t, p), B[t], c.wanted) /\ c.fields # <<>> /\ c.new = (p \notin DOMAIN B[t])
  BY <1>1 DEF Sets, Pending
<1>5. M = IF p \in DOMAIN B[t] THEN Over(c.fields, B[t][p]) ELSE c.fields BY <1>4 DEF Mended
<1> HIDE DEF t, p, seen, M
<1>6. CASE c.new /\ p \in DOMAIN seen
  <2> DEFINE d == [c EXCEPT !.pc = "look"]
  <2>1. Wrote(c, C) = d BY <1>6 DEF Wrote, t, p, seen
  <2>2. d.pc = "look" /\ d.row = c.row /\ d.own = c.own /\ d.wanted = c.wanted BY DEF Shape, Fields
  <2> HIDE DEF d
  <2>3. Between(B, C, d.wanted) /\ OwnMended(d, B) /\ Pending(d, B)
    BY <1>2, <2>2 DEF OwnMended, Pending
  <2>4. \A u, q : SeenBy(d, C, u) = SeenBy(c, C, u) /\ (Passed(d, C, B, u, q) <=> Passed(c, C, B, u, q))
    BY <2>2 DEF SeenBy, Passed
  <2>5. AllPassed(d, C, B) BY <2>2, <2>4 DEF Sets, AllPassed
  <2>6. QED BY <2>1, <2>3, <2>5 DEF Sets
<1>7. CASE ~(c.new /\ p \in DOMAIN seen)
  <2> DEFINE v == IF c.new THEN c.fields ELSE Over(c.fields, seen[p])
             d == [c EXCEPT !.pc = "look", !.row = @ + 1, !.own[t] = With(@, p, v)]
  <2>1. Wrote(c, C) = d BY <1>7 DEF Wrote, t, p, seen
  <2>2. /\ d.pc = "look" /\ d.row = c.row + 1 /\ d.wanted = c.wanted
        /\ d.own[t] = With(c.own[t], p, v) /\ \A u \in Tables \ {t} : d.own[u] = c.own[u]
    BY <1>1 DEF Shape, Fields, Tables
  <2>3. v = M
    <3>1. CASE p \notin DOMAIN B[t] BY <3>1, <1>4, <1>5
    <3>2. CASE p \in DOMAIN B[t]
      <4>1. v = Over(c.fields, seen[p]) /\ M = Over(c.fields, B[t][p]) BY <3>2, <1>4, <1>5
      <4>2. seen[p] = B[t][p] \/ seen[p] = M BY <3>2, <1>3
      <4>3. Over(c.fields, M) = M BY <4>1, OverTwice
      <4>4. QED BY <4>1, <4>2, <4>3
    <3>3. QED BY <3>1, <3>2
  <2> HIDE DEF d, v
  <2>4. OwnMended(d, B)
    <3> SUFFICES ASSUME NEW u \in Tables, NEW q \in DOMAIN d.own[u]
                 PROVE  SetupRow(u, q) /\ d.own[u][q] = Mended(u, q, B[u], d.wanted)
      BY DEF OwnMended
    <3>1. CASE u # t BY <3>1, <2>2, <1>2 DEF OwnMended
    <3>2. CASE u = t /\ q = p BY <3>2, <2>2, <2>3, <1>1 DEF With, M
    <3>3. CASE u = t /\ q # p BY <3>3, <2>2, <1>1, <1>2 DEF With, OwnMended
    <3>4. QED BY <3>1, <3>2, <3>3
  <2>5. Passed(d, C, B, t, p)
    <3>1. p \in DOMAIN d.own[t] /\ d.own[t][p] = M BY <2>2, <2>3 DEF With
    <3>2. QED BY <3>1, <2>2 DEF Passed, SeenBy, Over, M
  <2>6. ASSUME NEW u \in Tables, NEW q, u # t \/ q # p, Passed(c, C, B, u, q)
        PROVE  Passed(d, C, B, u, q)
    <3>1. /\ q \in DOMAIN d.own[u] <=> q \in DOMAIN c.own[u]
          /\ q \in DOMAIN d.own[u] => d.own[u][q] = c.own[u][q]
      BY <2>2, <2>6 DEF With
    <3>2. QED BY <3>1, <2>6, <2>2 DEF Passed, SeenBy, Over
  <2>7. AllPassed(d, C, B)
    <3> SUFFICES ASSUME NEW i \in 1..8, i < d.row
                 PROVE  Passed(d, C, B, SetupRows[i].table, SetupRows[i].persona)
      BY DEF AllPassed
    <3> DEFINE u == SetupRows[i].table
               q == SetupRows[i].persona
    <3>1. u \in Tables BY RowOf
    <3>2. CASE u = t /\ q = p BY <3>2, <2>5
    <3>3. CASE ~(u = t /\ q = p)
      <4>1. i # c.row BY <3>3 DEF t, p
      <4>2. Passed(c, C, B, u, q) BY <4>1, <2>2 DEF Sets, AllPassed
      <4>3. QED BY <3>1, <3>3, <4>2, <2>6
    <3>4. QED BY <3>2, <3>3
  <2>8. Between(B, C, d.wanted) /\ Pending(d, B) BY <1>2, <2>2 DEF Pending
  <2>9. QED BY <2>1, <2>4, <2>7, <2>8 DEF Sets
<1>8. QED BY <1>6, <1>7

\* A commit after the last row leaves every row of the setup mended.
LEMMA CommitMends ==
  ASSUME NEW c, NEW C, NEW B, Sets(c, C, B), c.row = 9, NEW D, \A t \in Tables : D[t] = SeenBy(c, C, t)
  PROVE  /\ Between(B, D, c.wanted)
         /\ \A t \in Tables, p \in PersonaSet : SetupRow(t, p) =>
              p \in DOMAIN D[t] /\ D[t][p] = Mended(t, p, B[t], c.wanted)
<1>1. Between(B, D, c.wanted)
  <2>1. \A t \in Tables : Mends(B[t], SeenBy(c, C, t), t, c.wanted) BY SeenValues DEF Sets
  <2>2. QED BY <2>1 DEF Between
<1>2. ASSUME NEW t \in Tables, NEW p \in PersonaSet, SetupRow(t, p)
      PROVE  p \in DOMAIN D[t] /\ D[t][p] = Mended(t, p, B[t], c.wanted)
  <2>1. PICK i \in 1..8 : SetupRows[i] = Row(t, p) BY <1>2 DEF SetupRow
  <2>2. Row(t, p).table = t /\ Row(t, p).persona = p BY DEF Row
  <2>3. Passed(c, C, B, t, p) BY <2>1, <2>2 DEF Sets, AllPassed
  <2>4. QED BY <2>3 DEF Passed
<1>3. QED BY <1>1, <1>2

\* Another transaction from the same rows changes nothing for this one.
LEMMA OthersCommit ==
  ASSUME NEW c, NEW C, NEW B, Sets(c, C, B), NEW x, OwnMended(x, B), x.wanted = c.wanted,
         NEW D, \A t \in Tables : D[t] = SeenBy(x, C, t)
  PROVE  Sets(c, D, B)
<1>1. Between(B, D, c.wanted)
  <2>1. \A t \in Tables : Mends(B[t], SeenBy(x, C, t), t, c.wanted) BY SeenValues DEF Sets
  <2>2. QED BY <2>1 DEF Between
<1>2. ASSUME NEW t \in Tables, NEW p, Passed(c, C, B, t, p) PROVE Passed(c, D, B, t, p)
  <2>1. CASE p \in DOMAIN c.own[t] BY <1>2, <2>1 DEF Passed, SeenBy, Over
  <2>2. CASE p \notin DOMAIN c.own[t]
    <3>1. p \in DOMAIN C[t] /\ C[t][p] = Mended(t, p, B[t], c.wanted)
      BY <1>2, <2>2 DEF Passed, SeenBy, Over
    <3>2. p \in DOMAIN D[t] /\ D[t][p] = Mended(t, p, B[t], c.wanted)
      <4>1. D[t] = Over(x.own[t], C[t]) BY DEF SeenBy
      <4>2. p \in DOMAIN x.own[t] => x.own[t][p] = Mended(t, p, B[t], c.wanted) BY DEF OwnMended
      <4>3. QED BY <3>1, <4>1, <4>2 DEF Over
    <3>3. QED BY <3>2, <2>2 DEF Passed, SeenBy, Over
  <2>3. QED BY <2>1, <2>2
<1>3. AllPassed(c, D, B) BY <1>2, RowOf DEF Sets, AllPassed
<1>4. QED BY <1>1, <1>3 DEF Sets

-----------------------------------------------------------------------------
(* The invariant, and what it says of the lines.                           *)

\* Every primary persona has a profile and every persona a mapping of the setup.
LEMMA SetupRowsAre ==
  /\ \A p \in PrimarySet : SetupRow("profiles", p)
  /\ \A p \in PersonaSet : SetupRow("mappings", p)
BY SetupRowsListed DEF SetupRow

\* The invariant makes a cast that is kept.
LEMMA CastKeeps == CastInv => CastIsKept
<1> SUFFICES ASSUME CastInv, NEW w \in Casters, casting[w].alone \/ troubles = 0
             PROVE  LET c == casting[w] IN
                    /\ \A i, j \in DOMAIN c.take :
                         c.take[i].speaker = c.take[j].speaker => c.take[i].voice = c.take[j].voice
                    /\ FreeChoice(c) => \A i, j \in DOMAIN c.take :
                         c.take[i].voice = c.take[j].voice =>
                           ProfileOf(c.take[i].speaker) = ProfileOf(c.take[j].speaker)
                    /\ \A i \in DOMAIN c.take :
                         c.take[i].speaker \in DOMAIN c.given /\ Suits(profiles[c.given[c.take[i].speaker]])
                           => c.take[i].voice = profiles[c.given[c.take[i].speaker]].voice
  BY DEF CastIsKept
<1> DEFINE c == casting[w]
<1>1. Proceeds(c) /\ Generation(c) /\ Keeps(c) BY DEF CastInv, Proceeds
<1> HIDE DEF c
<1>2. \A i \in DOMAIN c.take :
        c.take[i].voice = VoiceOf(c.take[i].speaker) /\ c.take[i].speaker \in PersonaSet
  BY <1>1, PersonaNames DEF Keeps, Generation
<1>3. \A i \in DOMAIN c.take : SetOut(c) BY <1>1 DEF Generation, SetOut
<1>4. \A i, j \in DOMAIN c.take :
        c.take[i].speaker = c.take[j].speaker => c.take[i].voice = c.take[j].voice
  BY <1>2
<1>5. ASSUME NEW i \in DOMAIN c.take, FreeChoice(c)
      PROVE  c.take[i].voice = c.wanted[ProfileOf(c.take[i].speaker)]
  <2> DEFINE p == c.take[i].speaker
             q == ProfileOf(p)
  <2>1. p \in PersonaSet /\ q \in PrimarySet BY <1>2, ProfilesNamed
  <2>2. p \in DOMAIN mappings /\ mappings[p].enabled /\ mappings[p].profile = q /\ Suits(profiles[q])
    BY <1>5, <2>1, PersonaNames DEF FreeChoice
  <2>3. ResolvedProfile(profiles, mappings, p) = q BY <2>2 DEF ResolvedProfile
  <2>4. Right("profiles", q, profiles[q], c.wanted)
    <3>1. SetupRow("profiles", q) /\ "profiles" \in Tables /\ q \in PersonaSet
      BY <2>1, SetupRowsAre DEF Tables, PersonaSet
    <3> HIDE DEF q
    <3>2. Right("profiles", q, Committed["profiles"][q], c.wanted) BY <1>1, <1>3, <3>1 DEF Keeps
    <3>3. QED BY <3>2 DEF Committed
  <2>5. profiles[q].voice = c.wanted[q] BY <2>4 DEF Right
  <2>6. QED BY <2>3, <2>5, <1>2 DEF VoiceOf
<1>6. ASSUME FreeChoice(c), NEW i \in DOMAIN c.take, NEW j \in DOMAIN c.take,
             c.take[i].voice = c.take[j].voice
      PROVE  ProfileOf(c.take[i].speaker) = ProfileOf(c.take[j].speaker)
  <2>1. WellApart(c.wanted) /\ DOMAIN c.wanted = PrimarySet
    <3>1. Len(Primary) = 3 BY DEF Primary
    <3>2. Cardinality(Ids(c.heard)) >= 3 BY <1>6, <3>1 DEF FreeChoice
    <3>3. \A p, q \in PrimarySet : p # q => Settings(p) = "" \/ Settings(p) # Settings(q)
      BY <1>6, PersonaNames DEF FreeChoice
    <3>4. QED BY <3>2, <3>3, <1>1, <1>3 DEF Generation, Spread
  <2>2. ProfileOf(c.take[i].speaker) \in PrimarySet /\ ProfileOf(c.take[j].speaker) \in PrimarySet
    BY <1>2, ProfilesNamed
  <2>3. c.wanted[ProfileOf(c.take[i].speaker)] = c.wanted[ProfileOf(c.take[j].speaker)]
    BY <1>5, <1>6
  <2>4. QED BY <2>1, <2>2, <2>3 DEF WellApart
<1>7. ASSUME NEW i \in DOMAIN c.take, c.take[i].speaker \in DOMAIN c.given,
             Suits(profiles[c.given[c.take[i].speaker]])
      PROVE  c.take[i].voice = profiles[c.given[c.take[i].speaker]].voice
  <2> DEFINE p == c.take[i].speaker
  <2>1. p \in PersonaSet /\ p \in DOMAIN mappings /\ mappings[p].profile = c.given[p]
    BY <1>1, <1>2, <1>7 DEF Keeps
  <2>2. Right("mappings", p, mappings[p], c.wanted)
    <3>1. SetupRow("mappings", p) /\ "mappings" \in Tables /\ p \in PersonaSet
      BY <2>1, SetupRowsAre DEF Tables, PersonaSet
    <3> HIDE DEF p
    <3>2. Right("mappings", p, Committed["mappings"][p], c.wanted) BY <1>1, <1>3, <3>1 DEF Keeps
    <3>3. QED BY <3>2 DEF Committed
  <2>3. mappings[p].enabled BY <2>2 DEF Right
  <2>4. ResolvedProfile(profiles, mappings, p) = c.given[p] BY <2>1, <2>3, <1>7 DEF ResolvedProfile
  <2>5. QED BY <2>4, <1>2 DEF VoiceOf
<1>8. QED BY <1>4, <1>6, <1>7 DEF c

-----------------------------------------------------------------------------
(* The steps of a generation.                                              *)

\* A generation that has not begun, or has ended.
LEMMA IdleProceeds == Proceeds(NoCasting)
<1>1. /\ NoCasting.pc = "idle" /\ NoCasting.heard = <<>> /\ NoCasting.row = 1
      /\ NoCasting.own = NoRows /\ NoCasting.take = <<>> /\ NoCasting.given = <<>>
      /\ NoRows.mappings = <<>> /\ Shape(NoCasting)
  BY DEF NoCasting, Shape, Fields, Tables, NoRows
<1>2. DOMAIN <<>> = {} /\ <<>> \in Seq(VoiceInfo) /\ <<>> \in Seq(Range(<<>>))
  OBVIOUS
<1>3. Generation(NoCasting) BY <1>1, <1>2 DEF Generation, Setting, SetOut, CastPcs, MappingsIn
<1>4. QED BY <1>1, <1>2, <1>3 DEF Proceeds, Writing, Calm, Keeps, Setting, SetOut

\* At the start nothing is going on.
LEMMA CastStart == CastInit => CastInv
<1> SUFFICES ASSUME CastInit PROVE CastInv
  OBVIOUS
<1>1. castSite \in CastSites /\ server = [up |-> TRUE, voices |-> castSite.offers[1]]
      /\ profiles = castSite.profiles /\ mappings = castSite.mappings /\ troubles = 0
      /\ casting = [w \in Casters |-> NoCasting]
  BY DEF CastInit
<1>0. castSite.offers \in Seq(Seq(VoiceInfo)) \ {<<>>} BY <1>1, CastSitesAssumption
<1>2. /\ castSite.offers[1] \in Seq(VoiceInfo)
      /\ castSite.profiles \in [DOMAIN castSite.profiles -> VoiceProfile]
      /\ castSite.mappings \in [DOMAIN castSite.mappings -> PersonaVoiceMapping(castSite)]
  BY <1>0, <1>1, CastSitesAssumption
<1>3. Committed = FirstRows BY <1>1 DEF Committed, FirstRows
<1>4. Between(FirstRows, Committed, FirstVoices) BY <1>3 DEF Between, Mends
<1>5. MappingsIn(mappings) BY <1>1, <1>2 DEF MappingsIn, MappingRows
<1>6. CastGlobals BY <1>1, <1>2, <1>4, <1>5 DEF CastGlobals
<1>7. QED BY <1>1, <1>6, IdleProceeds DEF CastInv

\* What depends on the surroundings only does not change.
LEMMA SiteKept ==
  ASSUME castSite' = castSite
  PROVE  /\ FirstRows' = FirstRows /\ FirstVoices' = FirstVoices /\ MappingRows' = MappingRows
         /\ \A p : Settings(p)' = Settings(p)
<1>1. ConfiguredVoices' = ConfiguredVoices BY DEF ConfiguredVoices, Settings
<1>4. FirstVoices' = FirstVoices BY <1>1 DEF FirstVoices, DistinctVoices, FallbackVoice
<1>5. QED BY <1>4 DEF FirstRows, MappingRows, Settings

\* What depends on the rows only changes with them.
LEMMA RowsKept ==
  ASSUME castSite' = castSite, profiles' = profiles, mappings' = mappings
  PROVE  /\ Committed' = Committed
         /\ \A p : VoiceOf(p)' = VoiceOf(p)
<1>1. \A rows : Fallbacks(rows)' = Fallbacks(rows) BY DEF Fallbacks, Suits
<1>3. \A p : ResolvedProfile(profiles, mappings, p)' = ResolvedProfile(profiles, mappings, p)
  BY <1>1 DEF ResolvedProfile, Suits, Fallbacks
<1>4. QED BY <1>3 DEF Committed, VoiceOf

\* A generation that has not moved, while the rows have not.
LEMMA CastUnmoved ==
  ASSUME castSite' = castSite, profiles' = profiles, mappings' = mappings,
         troubles' = 0 => troubles = 0, NEW c, Proceeds(c), NEW w, casting'[w] = c
  PROVE  Proceeds(casting[w])'
<1>1. Generation(casting[w])'
  BY SiteKept DEF Proceeds, Generation, Spread, MappingsIn, Setting, SetOut
<1>2. Writing(casting[w])' BY RowsKept DEF Proceeds, Writing
<1>3. (c.alone /\ Setting(c)) => Sets(casting'[w], Committed', Committed') BY RowsKept DEF Proceeds
<1>4. troubles = 0 => Calm(casting[w])' BY RowsKept, SiteKept DEF Proceeds, Calm, Setting, SetOut
<1>5. (c.alone \/ troubles = 0) => Keeps(casting[w])'
  BY RowsKept, SiteKept DEF Proceeds, Keeps, Setting, SetOut
<1>6. QED BY <1>1, <1>2, <1>3, <1>4, <1>5 DEF Proceeds, Setting

\* A step that changes one generation and no row.
LEMMA PrivateStep ==
  ASSUME CastInv, castSite' = castSite, server' = server, profiles' = profiles,
         mappings' = mappings, troubles' = troubles,
         NEW w \in Casters, NEW c, Proceeds(c), casting' = [casting EXCEPT ![w] = c]
  PROVE  CastInv'
<1>1. casting = [x \in Casters |-> casting[x]] BY DEF CastInv, CastGlobals
<1>2. casting'[w] = c /\ \A x \in Casters \ {w} : casting'[x] = casting[x] BY <1>1
<1>3. ASSUME NEW x \in Casters PROVE Proceeds(casting[x])'
  <2>1. CASE x = w BY <2>1, <1>2, CastUnmoved
  <2>2. CASE x # w
    <3>1. Proceeds(casting[x]) /\ casting'[x] = casting[x] BY <2>2, <1>2 DEF CastInv
    <3>2. QED BY <3>1, CastUnmoved
  <2>3. QED BY <2>1, <2>2
<1>4. casting' = [x \in Casters |-> casting'[x]] BY <1>1
<1>5. CastGlobals' BY <1>4, RowsKept, SiteKept DEF CastInv, CastGlobals, MappingsIn
<1>6. QED BY <1>3, <1>5 DEF CastInv

\* Cast.
LEMMA CastBegins ==
  ASSUME CastInv, NEW w \in Casters, Cast(w)
  PROVE  CastInv'
<1> DEFINE G == [p \in {q \in DOMAIN mappings : mappings[q].profile \in castSite.handmade}
                   |-> mappings[p].profile]
           c == [NoCasting EXCEPT !.pc = "list", !.given = G]
<1>1. casting' = [casting EXCEPT ![w] = c] BY DEF Cast, CastTo
<1>2. /\ c.pc = "list" /\ c.heard = <<>> /\ c.row = 1 /\ c.own = NoRows /\ c.take = <<>> /\ c.given = G
      /\ NoRows.mappings = <<>> /\ Shape(c)
  BY DEF NoCasting, Shape, Fields, Tables, NoRows
<1>3. \A p \in DOMAIN G : p \in DOMAIN mappings /\ mappings[p].profile = G[p] /\ G[p] \in castSite.handmade
  OBVIOUS
<1> HIDE DEF c, G
<1>4. DOMAIN <<>> = {} /\ <<>> \in Seq(VoiceInfo) /\ <<>> \in Seq(Range(<<>>))
  OBVIOUS
<1>5. Generation(c) BY <1>2, <1>4 DEF Generation, Setting, SetOut, CastPcs, MappingsIn
<1>6. Proceeds(c) BY <1>2, <1>3, <1>4, <1>5 DEF Proceeds, Writing, Calm, Keeps, Setting, SetOut
<1>7. QED BY <1>1, <1>6, PrivateStep DEF Cast

\* What the server tells.
LEMMA HeardVoices ==
  ASSUME CastInv
  PROVE  /\ Heard \in Seq(VoiceInfo)
         /\ troubles = 0 => Heard = castSite.offers[1]
  BY DEF CastInv, CastGlobals, Heard

\* ListVoices.
LEMMA VoicesListed ==
  ASSUME CastInv, NEW w \in Casters, ListVoices(w)
  PROVE  CastInv'
<1> DEFINE c == casting[w]
           d == [c EXCEPT !.pc = "fallback", !.heard = Heard]
<1>1. casting' = [casting EXCEPT ![w] = d] /\ c.pc = "list" BY DEF ListVoices, CastTo, Doing
<1>2. Proceeds(c) BY DEF CastInv
<1> HIDE DEF c
<1>3. /\ d.pc = "fallback" /\ d.heard = Heard /\ d.row = c.row /\ d.own = c.own /\ d.take = c.take
      /\ d.given = c.given /\ d.alone = c.alone /\ Shape(d)
  BY <1>2 DEF Proceeds, Generation, Shape, Fields
<1> HIDE DEF d
<1>4. Generation(d)
  BY <1>1, <1>2, <1>3, HeardVoices DEF Proceeds, Generation, Setting, SetOut, CastPcs
<1>5. Proceeds(d)
  BY <1>1, <1>2, <1>3, <1>4, HeardVoices DEF Proceeds, Generation, Writing, Calm, Keeps, Setting,
     SetOut
<1>6. QED BY <1>1, <1>5, PrivateStep DEF ListVoices

\* Resolve: the setup begins, and its base is what it finds.
LEMMA VoicesResolved ==
  ASSUME CastInv, NEW w \in Casters, Resolve(w)
  PROVE  CastInv'
<1> DEFINE c == casting[w]
           d == [c EXCEPT !.pc = "look", !.wanted = DistinctVoices(c.heard, FallbackVoice(Heard))]
<1>1. casting' = [casting EXCEPT ![w] = d] /\ c.pc = "fallback" BY DEF Resolve, CastTo, Doing
<1>2. Proceeds(c) BY DEF CastInv
<1> HIDE DEF c
<1>3. /\ d.pc = "look" /\ d.heard = c.heard /\ d.row = c.row /\ d.own = c.own /\ d.take = c.take
      /\ d.given = c.given /\ d.alone = c.alone /\ Shape(d)
      /\ d.wanted = DistinctVoices(c.heard, FallbackVoice(Heard))
  BY <1>2 DEF Proceeds, Generation, Shape, Fields
<1> HIDE DEF d
<1>4. d.row = 1 /\ d.own = NoRows /\ d.take = <<>> /\ d.heard \in Seq(VoiceInfo)
  BY <1>1, <1>2, <1>3 DEF Proceeds, Generation, Setting
<1>5. Spread(d)
  <2> SUFFICES ASSUME Cardinality(Ids(d.heard)) >= 3,
                      \A p, q \in PrimarySet : p # q => Settings(p) = "" \/ Settings(p) # Settings(q)
               PROVE  WellApart(d.wanted) /\ DOMAIN d.wanted = PrimarySet
    BY DEF Spread
  <2>1. Enough(d.heard) BY <1>4 DEF Enough
  <2>2. Distinct(d.heard, FallbackVoice(Heard)) BY <2>1, DistinctVoicesApart
  <2>3. QED BY <2>2, <1>3 DEF Distinct
<1>6. Generation(d)
  BY <1>1, <1>2, <1>3, <1>4, <1>5 DEF Proceeds, Generation, Setting, SetOut, CastPcs
<1>7. OwnMended(d, Committed) /\ OwnMended(d, FirstRows) BY <1>4 DEF OwnMended, NoRows, Tables
<1>8. AllPassed(d, Committed, Committed) /\ AllPassed(d, Committed, FirstRows) BY <1>4 DEF AllPassed
<1>9. Sets(d, Committed, Committed)
  <2>1. Between(Committed, Committed, d.wanted) BY DEF Between, Mends
  <2>2. QED BY <2>1, <1>3, <1>7, <1>8 DEF Sets, Pending
<1>10. troubles = 0 => d.heard = castSite.offers[1] /\ d.wanted = FirstVoices
  BY <1>1, <1>2, <1>3, HeardVoices DEF Proceeds, Calm, FirstVoices
<1>11. troubles = 0 => Sets(d, Committed, FirstRows)
  <2> SUFFICES ASSUME troubles = 0 PROVE Sets(d, Committed, FirstRows)
    OBVIOUS
  <2>1. Between(FirstRows, Committed, d.wanted) BY <1>10 DEF CastInv, CastGlobals
  <2>2. QED BY <2>1, <1>3, <1>7, <1>8 DEF Sets, Pending
<1>12. Proceeds(d)
  BY <1>1, <1>2, <1>3, <1>4, <1>6, <1>9, <1>10, <1>11 DEF Proceeds, Writing, Calm, Keeps, Setting,
     SetOut
<1>13. QED BY <1>1, <1>12, PrivateStep DEF Resolve

\* The bases hold mappings.
LEMMA BasesTyped ==
  ASSUME CastInv
  PROVE  MappingsIn(Committed.mappings) /\ MappingsIn(FirstRows.mappings)
<1>1. Committed.mappings = mappings /\ FirstRows.mappings = castSite.mappings
  BY DEF Committed, FirstRows
<1>2. castSite.mappings \in [DOMAIN castSite.mappings -> PersonaVoiceMapping(castSite)]
  BY CastSitesAssumption DEF CastInv, CastGlobals
<1>3. QED BY <1>1, <1>2 DEF CastInv, CastGlobals, MappingsIn, MappingRows

\* What has been seen of the mappings are mappings.
LEMMA SeenTyped ==
  ASSUME CastInv, NEW c, Generation(c)
  PROVE  MappingsIn(SeenBy(c, Committed, "mappings"))
<1>1. Committed["mappings"] = mappings BY DEF Committed
<1>2. MappingsIn(mappings) /\ MappingsIn(c.own["mappings"]) BY DEF CastInv, CastGlobals, Generation
<1>3. QED BY <1>1, <1>2 DEF MappingsIn, SeenBy, Over

\* Look.
LEMMA Looks ==
  ASSUME CastInv, NEW w \in Casters, Look(w)
  PROVE  CastInv'
<1> DEFINE c == casting[w]
           d == Looked(c, Committed)
<1>1. casting' = [casting EXCEPT ![w] = d] /\ c.pc = "look" /\ c.row <= Len(SetupRows)
  BY DEF Look, Looked, CastTo, Doing, Seen, SeenBy
<1>2. Proceeds(c) /\ Generation(c) /\ Shape(c) /\ c.row \in 1..8
  BY <1>1, SetupRowsListed DEF CastInv, Proceeds, Generation
<1> HIDE DEF c
<1> DEFINE t == SetupRows[c.row].table
           p == SetupRows[c.row].persona
           fields == Correction(Row(t, p), SeenBy(c, Committed, t), c.wanted)
<1>3. SetupRows[c.row] = Row(t, p) /\ t \in Tables /\ p \in PersonaSet BY <1>2, RowOf
<1>4. d = IF fields = <<>> THEN [c EXCEPT !.row = @ + 1]
          ELSE [c EXCEPT !.pc = "write", !.fields = fields, !.new = p \notin DOMAIN SeenBy(c, Committed, t)]
  BY <1>3 DEF Looked
<1>5. /\ d.heard = c.heard /\ d.wanted = c.wanted /\ d.own = c.own /\ d.take = c.take /\ d.given = c.given
      /\ d.alone = c.alone /\ Shape(d)
      /\ \/ d.pc = "look" /\ d.row = c.row + 1
         \/ d.pc = "write" /\ d.row = c.row /\ d.fields = fields /\ fields # <<>>
            /\ d.new = (p \notin DOMAIN SeenBy(c, Committed, t))
  BY <1>1, <1>2, <1>4 DEF Shape, Fields
<1>6. \A B : Sets(c, Committed, B) /\ MappingsIn(B.mappings) => Sets(d, Committed, B)
  BY <1>1, <1>2, LookedAhead
<1> HIDE DEF d, fields, t, p
<1>7. Generation(d)
  <2>1. Spread(d) /\ c.take = <<>> /\ Setting(d) /\ d.pc \in CastPcs
    BY <1>1, <1>2, <1>5 DEF Generation, Setting, CastPcs, Spread
  <2>2. d.row \in 1..9 /\ (d.pc = "write" => d.row \in 1..8) BY <1>2, <1>5
  <2>3. QED BY <1>1, <1>2, <1>5, <2>1, <2>2 DEF Generation, Setting, SetOut
<1>8. Writing(d)
  <2> SUFFICES ASSUME d.pc = "write" PROVE
        /\ t = "mappings" => \/ d.fields = Mapping(ProfileOf(p))
                             \/ d.fields = [enabled |-> TRUE] /\ ~d.new
        /\ ~d.new => p \in DOMAIN SeenBy(d, Committed, t)
    <3>1. d.pc = "write" => SetupRows[d.row].table = t /\ SetupRows[d.row].persona = p
      BY <1>5 DEF t, p
    <3>2. QED BY <3>1 DEF Writing
  <2>1. d.fields = fields /\ fields # <<>> /\ d.new = (p \notin DOMAIN SeenBy(c, Committed, t))
    BY <1>5
  <2>2. SeenBy(d, Committed, t) = SeenBy(c, Committed, t) BY <1>5 DEF SeenBy
  <2>3. Row(t, p).table = t /\ Row(t, p).persona = p BY DEF Row
  <2>4. t = "mappings" => \/ fields = Mapping(ProfileOf(p))
                          \/ fields = [enabled |-> TRUE] /\ p \in DOMAIN SeenBy(c, Committed, t)
    BY <2>1, <2>3 DEF fields, Correction
  <2>5. QED BY <2>1, <2>2, <2>4
<1>9. Proceeds(d)
  BY <1>1, <1>2, <1>5, <1>6, <1>7, <1>8, BasesTyped DEF Proceeds, Calm, Keeps, Setting, SetOut,
     Generation
<1>10. QED BY <1>1, <1>9, PrivateStep DEF Look

\* Write.
LEMMA Writes ==
  ASSUME CastInv, NEW w \in Casters, Write(w)
  PROVE  CastInv'
<1> DEFINE c == casting[w]
           d == Wrote(c, Committed)
<1>1. casting' = [casting EXCEPT ![w] = d] /\ c.pc = "write"
  BY DEF Write, Wrote, CastTo, Doing, Seen, SeenBy
<1>2. Proceeds(c) /\ Generation(c) /\ Shape(c) /\ c.row \in 1..8 /\ Writing(c) /\ DOMAIN c.own = Tables
  BY <1>1 DEF CastInv, Proceeds, Generation, Shape
<1> HIDE DEF c
<1> DEFINE t == SetupRows[c.row].table
           p == SetupRows[c.row].persona
           seen == SeenBy(c, Committed, t)
           v == IF c.new THEN c.fields ELSE Over(c.fields, seen[p])
<1>3. t \in Tables /\ p \in PersonaSet BY <1>2, RowOf
<1>4. d = IF c.new /\ p \in DOMAIN seen THEN [c EXCEPT !.pc = "look"]
          ELSE [c EXCEPT !.pc = "look", !.row = @ + 1, !.own[t] = With(@, p, v)]
  BY DEF Wrote
<1>5. \A B : Sets(c, Committed, B) => Sets(d, Committed, B) BY <1>1, <1>2, WroteRight
<1>6. /\ d.heard = c.heard /\ d.wanted = c.wanted /\ d.take = c.take /\ d.given = c.given
      /\ d.alone = c.alone /\ Shape(d) /\ d.pc = "look"
      /\ \/ d.row = c.row /\ d.own = c.own
         \/ /\ d.row = c.row + 1 /\ d.own[t] = With(c.own[t], p, v)
            /\ \A u \in Tables \ {t} : d.own[u] = c.own[u]
  <2> HIDE DEF t, p, seen, v
  <2>1. CASE c.new /\ p \in DOMAIN seen BY <1>1, <1>2, <1>4, <2>1 DEF Shape, Fields
  <2>2. CASE ~(c.new /\ p \in DOMAIN seen)
    <3>1. d = [c EXCEPT !.pc = "look", !.row = @ + 1, !.own[t] = With(@, p, v)] BY <1>4, <2>2
    <3> HIDE DEF d
    <3>2. /\ d.heard = c.heard /\ d.wanted = c.wanted /\ d.take = c.take /\ d.given = c.given
          /\ d.alone = c.alone /\ d.pc = "look" /\ d.row = c.row + 1
          /\ d = [x \in Fields |-> d[x]] /\ DOMAIN d = Fields
          /\ d.own = [c.own EXCEPT ![t] = With(@, p, v)]
      BY <1>2, <3>1 DEF Shape, Fields
    <3>3. d.own = [u \in Tables |-> d.own[u]] /\ DOMAIN d.own = Tables /\ d.own[t] = With(c.own[t], p, v)
          /\ \A u \in Tables \ {t} : d.own[u] = c.own[u]
      BY <1>2, <1>3, <3>2 DEF Shape
    <3>4. QED BY <3>2, <3>3 DEF Shape
  <2>3. QED BY <2>1, <2>2
<1> HIDE DEF d, v, seen, t, p
<1>7. t = "mappings" => v \in MappingRows
  <2> SUFFICES ASSUME t = "mappings" PROVE v \in MappingRows
    OBVIOUS
  <2>1. /\ \/ c.fields = Mapping(ProfileOf(p))
           \/ c.fields = [enabled |-> TRUE] /\ ~c.new
        /\ ~c.new => p \in DOMAIN seen
    <3>1. Writing(c) /\ SetupRows[c.row].table = "mappings" /\ c.pc = "write" BY <1>1, <1>2 DEF t
    <3>2. QED BY <3>1 DEF Writing, t, p, seen
  <2>2. Mapping(ProfileOf(p)) \in MappingRows
    BY <1>3, ProfilesNamed DEF Mapping, MappingRows, PersonaVoiceMapping
  <2>3. ~c.new => seen[p] \in MappingRows
    <3>1. MappingsIn(seen) BY <1>2, SeenTyped DEF seen
    <3>2. QED BY <2>1, <3>1 DEF MappingsIn
  <2>4. CASE c.new BY <2>1, <2>2, <2>4 DEF v
  <2>5. CASE ~c.new /\ c.fields = Mapping(ProfileOf(p))
    <3>1. Over(c.fields, seen[p]) = Mapping(ProfileOf(p)) BY <2>3, <2>5, OverMapping
    <3>2. QED BY <2>2, <2>5, <3>1 DEF v
  <2>6. CASE ~c.new /\ c.fields = [enabled |-> TRUE]
    <3>1. Over(c.fields, seen[p]) = [profile |-> seen[p].profile, enabled |-> TRUE]
      BY <2>3, <2>6, OverEnabled
    <3>2. [profile |-> seen[p].profile, enabled |-> TRUE] \in MappingRows
      BY <2>3, <2>6 DEF MappingRows, PersonaVoiceMapping
    <3>3. QED BY <2>6, <3>1, <3>2 DEF v
  <2>7. QED BY <2>1, <2>4, <2>5, <2>6
<1>8. MappingsIn(d.own.mappings)
  <2>1. MappingsIn(c.own.mappings) BY <1>2 DEF Generation
  <2>2. CASE t = "mappings" /\ d.own[t] = With(c.own[t], p, v)
    BY <2>1, <2>2, <1>7 DEF MappingsIn, With
  <2>3. CASE d.own.mappings = c.own.mappings BY <2>1, <2>3
  <2>4. QED BY <2>2, <2>3, <1>6 DEF Tables
<1>9. Generation(d)
  <2>1. Spread(d) /\ c.take = <<>> /\ Setting(d) /\ d.pc \in CastPcs
    BY <1>1, <1>2, <1>6 DEF Generation, Setting, CastPcs, Spread
  <2>2. d.row \in 1..9 BY <1>2, <1>6
  <2>3. QED BY <1>1, <1>2, <1>6, <1>8, <2>1, <2>2 DEF Generation, Setting, SetOut
<1>10. Proceeds(d)
  BY <1>1, <1>2, <1>5, <1>6, <1>9 DEF Proceeds, Writing, Calm, Keeps, Setting, SetOut, Generation
<1>11. QED BY <1>1, <1>10, PrivateStep DEF Write

\* A generation that goes on after its setup.
LEMMA GoesOn ==
  ASSUME NEW c, Proceeds(c), SetOut(c), NEW d, Shape(d), SetOut(d),
         d.heard = c.heard, d.wanted = c.wanted, d.row = c.row, d.own = c.own,
         d.given = c.given, d.alone = c.alone, d.take = c.take,
         d.pc \in {"line", "speak"} => Len(c.take) < Len(castSite.script),
         d.pc \notin {"line", "speak"} => c.take = <<>>,
         d.pc = "speak" => d.voice = VoiceOf(castSite.script[Len(c.take) + 1])
  PROVE  Proceeds(d)
<1>1. ~Setting(c) /\ ~Setting(d) /\ d.pc \in CastPcs /\ d.pc \notin {"idle", "list", "fallback", "write"}
  BY DEF SetOut, Setting, CastPcs
<1>2. Generation(d)
  <2>1. Spread(d) BY DEF Proceeds, Generation, Spread
  <2>2. QED BY <1>1, <2>1 DEF Proceeds, Generation
<1>3. troubles = 0 => Calm(d) BY <1>1 DEF Proceeds, Calm, SetOut
<1>4. (c.alone \/ troubles = 0) => Keeps(d) BY DEF Proceeds, Keeps
<1>5. QED BY <1>1, <1>2, <1>3, <1>4 DEF Proceeds, Writing

\* CheckHealth.
LEMMA HealthChecked ==
  ASSUME CastInv, NEW w \in Casters, CheckHealth(w)
  PROVE  CastInv'
<1> DEFINE c == casting[w]
           d == [c EXCEPT !.pc = "voices"]
<1>1. c.pc = "health" /\ Proceeds(c) /\ Shape(c) /\ c.take = <<>>
  BY DEF CheckHealth, Doing, CastInv, Proceeds, Generation
<1>2. casting' = [casting EXCEPT ![w] = d] \/ casting' = [casting EXCEPT ![w] = NoCasting]
  BY DEF CheckHealth, CastTo, Stop
<1> HIDE DEF c
<1>3. /\ d.pc = "voices" /\ d.heard = c.heard /\ d.wanted = c.wanted /\ d.row = c.row /\ d.own = c.own
      /\ d.given = c.given /\ d.alone = c.alone /\ d.take = c.take /\ Shape(d)
  BY <1>1 DEF Shape, Fields
<1> HIDE DEF d
<1>4. Proceeds(d) BY <1>1, <1>3, GoesOn DEF SetOut
<1>5. QED BY <1>2, <1>4, IdleProceeds, PrivateStep DEF CheckHealth

\* GetVoices.
LEMMA VoicesGot ==
  ASSUME CastInv, NEW w \in Casters, GetVoices(w)
  PROVE  CastInv'
<1> DEFINE c == casting[w]
           d == [c EXCEPT !.pc = "line", !.allowed = IF Known THEN voiceIds ELSE Ids(server.voices)]
<1>1. c.pc = "voices" /\ Proceeds(c) /\ Shape(c) /\ c.take = <<>>
  BY DEF GetVoices, Doing, CastInv, Proceeds, Generation
<1>2. casting' = [casting EXCEPT ![w] = d] \/ casting' = [casting EXCEPT ![w] = NoCasting]
  BY DEF GetVoices, CastTo, Stop
<1> HIDE DEF c
<1>3. /\ d.pc = "line" /\ d.heard = c.heard /\ d.wanted = c.wanted /\ d.row = c.row /\ d.own = c.own
      /\ d.given = c.given /\ d.alone = c.alone /\ d.take = c.take /\ Shape(d)
  BY <1>1 DEF Shape, Fields
<1> HIDE DEF d
<1>4. Len(castSite.script) > 0
  <2>1. castSite.script \in Seq(Personas) \ {<<>>} BY CastSitesAssumption DEF CastInv, CastGlobals
  <2>2. QED BY <2>1
<1>5. Proceeds(d) BY <1>1, <1>3, <1>4, GoesOn DEF SetOut
<1>6. QED BY <1>2, <1>5, IdleProceeds, PrivateStep DEF GetVoices

\* Prepare: the voice of the line is that of its speaker.
LEMMA LinePrepared ==
  ASSUME CastInv, NEW w \in Casters, Prepare(w)
  PROVE  CastInv'
<1> DEFINE c == casting[w]
           v == VoiceOf(castSite.script[Len(c.take) + 1])
           d == [c EXCEPT !.pc = "speak", !.languages = Languages(w), !.voice = v]
<1>1. c.pc = "line" /\ Proceeds(c) /\ Shape(c) /\ Len(c.take) < Len(castSite.script)
  BY DEF Prepare, Doing, CastInv, Proceeds, Generation
<1>2. casting' = [casting EXCEPT ![w] = d] \/ casting' = [casting EXCEPT ![w] = NoCasting]
  BY DEF Prepare, CastTo, Stop, VoiceOf, Speaker
<1> HIDE DEF c, v
<1>3. /\ d.pc = "speak" /\ d.heard = c.heard /\ d.wanted = c.wanted /\ d.row = c.row /\ d.own = c.own
      /\ d.given = c.given /\ d.alone = c.alone /\ d.take = c.take /\ d.voice = v /\ Shape(d)
  BY <1>1 DEF Shape, Fields
<1> HIDE DEF d
<1>4. Proceeds(d) BY <1>1, <1>3, GoesOn DEF SetOut, v
<1>5. QED BY <1>2, <1>4, IdleProceeds, PrivateStep DEF Prepare

\* SpeakLine: one more line has been spoken with the voice of its speaker.
LEMMA LineSpoken ==
  ASSUME CastInv, NEW w \in Casters, SpeakLine(w)
  PROVE  CastInv'
<1> DEFINE c == casting[w]
           line == [speaker |-> Speaker(w), voice |-> c.voice]
           d == [c EXCEPT !.pc = "line", !.take = Append(c.take, line)]
<1>1. /\ c.pc = "speak" /\ Proceeds(c) /\ Generation(c) /\ Shape(c) /\ Len(c.take) < Len(castSite.script)
      /\ c.take \in Seq(Range(c.take))
  BY DEF SpeakLine, Doing, CastInv, Proceeds, Generation
<1>2. \/ casting' = [casting EXCEPT ![w] = d] /\ Len(Append(c.take, line)) < Len(castSite.script)
      \/ casting' = [casting EXCEPT ![w] = NoCasting]
  BY DEF SpeakLine, CastTo, Stop
<1>3. Speaker(w) = castSite.script[Len(c.take) + 1] /\ Speaker(w) \in Personas
  <2>1. castSite.script \in Seq(Personas) BY CastSitesAssumption DEF CastInv, CastGlobals
  <2>2. Len(c.take) + 1 \in 1..Len(castSite.script) BY <1>1, <2>1
  <2>3. castSite.script[Len(c.take) + 1] \in Personas BY <2>1, <2>2, ElementOfSeq
  <2>4. QED BY <2>3 DEF Speaker
<1>4. line.speaker = Speaker(w) /\ line.voice = c.voice
  OBVIOUS
<1> HIDE DEF c, line
<1> DEFINE after == Append(c.take, line)
<1>5. CASE Len(after) < Len(castSite.script) /\ casting' = [casting EXCEPT ![w] = d]
  <2>1. /\ d.pc = "line" /\ d.heard = c.heard /\ d.wanted = c.wanted /\ d.row = c.row /\ d.own = c.own
        /\ d.given = c.given /\ d.alone = c.alone /\ d.take = after /\ Shape(d)
    BY <1>1 DEF Shape, Fields
  <2>2. /\ DOMAIN after = 1..(Len(c.take) + 1) /\ Len(after) = Len(c.take) + 1
        /\ after[Len(c.take) + 1] = line /\ \A i \in 1..Len(c.take) : after[i] = c.take[i]
        /\ DOMAIN c.take = 1..Len(c.take) /\ Len(c.take) \in Nat
    <3> DEFINE S == Range(c.take) \cup {line}
    <3>1. c.take \in Seq(S) /\ line \in S BY <1>1
    <3> HIDE DEF S
    <3>2. QED BY <3>1
  <2>3. after \in Seq(Range(after))
    <3> DEFINE S == Range(c.take) \cup {line}
    <3>1. c.take \in Seq(S) /\ line \in S BY <1>1
    <3>2. after \in Seq(S) BY <3>1
    <3>3. \A i \in 1..Len(after) : after[i] \in Range(after) BY <2>2 DEF Range
    <3> HIDE DEF S, after
    <3>4. after = [i \in 1..Len(after) |-> after[i]] /\ Len(after) \in Nat BY <3>2
    <3>5. QED BY <3>3, <3>4, SeqDef
  <2> HIDE DEF d, after
  <2>4. \A i \in DOMAIN after : after[i].speaker \in Personas
    BY <1>1, <1>3, <1>4, <2>2 DEF Generation
  <2>5. Generation(d)
    <3>1. Spread(d) /\ ~Setting(d) /\ ~Setting(c) /\ d.pc \in CastPcs
      BY <1>1, <2>1 DEF Generation, Spread, Setting, SetOut, CastPcs
    <3>2. QED BY <1>1, <1>5, <2>1, <2>3, <2>4, <3>1 DEF Generation
  <2>6. troubles = 0 => Calm(d) BY <1>1, <2>1 DEF Proceeds, Calm, SetOut, Setting
  <2>7. (c.alone \/ troubles = 0) => Keeps(d)
    <3> SUFFICES ASSUME Keeps(c) PROVE Keeps(d) BY <1>1 DEF Proceeds
    <3>1. SetOut(c) /\ SetOut(d) BY <1>1, <2>1 DEF SetOut
    <3>2. line.voice = VoiceOf(line.speaker) BY <1>1, <1>3, <1>4 DEF Keeps
    <3>3. \A i \in DOMAIN after : after[i].voice = VoiceOf(after[i].speaker) BY <3>2, <2>2 DEF Keeps
    <3>4. QED BY <2>1, <3>1, <3>3 DEF Keeps
  <2>8. Proceeds(d) BY <2>1, <2>5, <2>6, <2>7 DEF Proceeds, Writing, Setting
  <2>9. QED BY <1>5, <2>8, PrivateStep DEF SpeakLine
<1>6. CASE casting' = [casting EXCEPT ![w] = NoCasting]
  BY <1>6, IdleProceeds, PrivateStep DEF SpeakLine
<1>7. QED BY <1>2, <1>5, <1>6

-----------------------------------------------------------------------------
(* The end of a setup.                                                     *)

\* A mapping made by hand keeps its profile.
LEMMA HandKept ==
  ASSUME CastInv, NEW B, MappingsIn(B.mappings), NEW C, NEW wanted,
         Mends(B["mappings"], C["mappings"], "mappings", wanted),
         NEW p \in PersonaSet, p \in DOMAIN C["mappings"], ~AutoManaged(C["mappings"][p].profile)
  PROVE  Mended("mappings", p, B["mappings"], wanted).profile = C["mappings"][p].profile
<1> DEFINE M == Mended("mappings", p, B["mappings"], wanted)
<1>1. (p \in DOMAIN B["mappings"] /\ C["mappings"][p] = B["mappings"][p]) \/ C["mappings"][p] = M
  BY DEF Mends
<1>2. (p \in DOMAIN B["mappings"] /\ ~AutoManaged(B["mappings"][p].profile)) =>
        M.profile = B["mappings"][p].profile
  BY MendedRight DEF Tables
<1> HIDE DEF M
<1>3. QED BY <1>1, <1>2 DEF M

\* The setup makes rows for personas.
LEMMA SetupRowPersona ==
  ASSUME NEW t, NEW p, SetupRow(t, p)
  PROVE  p \in PersonaSet
<1>1. PICK i \in 1..8 : SetupRows[i] = Row(t, p) BY DEF SetupRow
<1>2. Row(t, p).persona = p BY DEF Row
<1>3. QED BY <1>1, <1>2, SetupRowsListed

\* A generation whose setup has come from the rows B keeps the profiles made by
\* hand when it, or another from the same rows, commits.
LEMMA GivenKept ==
  ASSUME CastInv, NEW B, MappingsIn(B.mappings), NEW c, Between(B, Committed, c.wanted), OwnMended(c, B),
         NEW p \in DOMAIN mappings, mappings[p].profile \in castSite.handmade
  PROVE  /\ p \in DOMAIN SeenBy(c, Committed, "mappings")
         /\ SeenBy(c, Committed, "mappings")[p].profile = mappings[p].profile
<1>1. Committed["mappings"] = mappings BY DEF Committed
<1>2. ~AutoManaged(mappings[p].profile) BY CastSitesAssumption DEF CastInv, CastGlobals, AutoManaged
<1>3. CASE p \in DOMAIN c.own["mappings"]
  <2>1. SetupRow("mappings", p) /\ c.own["mappings"][p] = Mended("mappings", p, B["mappings"], c.wanted)
    BY <1>3 DEF OwnMended, Tables
  <2>2. p \in PersonaSet BY <2>1, SetupRowPersona
  <2>3. Mends(B["mappings"], Committed["mappings"], "mappings", c.wanted) BY DEF Between, Tables
  <2> DEFINE C == Committed
             v == c.wanted
  <2>4. p \in DOMAIN C["mappings"] /\ ~AutoManaged(C["mappings"][p].profile) BY <1>1, <1>2
  <2>5. Mends(B["mappings"], C["mappings"], "mappings", v) BY <2>3
  <2> HIDE DEF C, v
  <2>6. Mended("mappings", p, B["mappings"], v).profile = C["mappings"][p].profile
    BY <2>2, <2>4, <2>5, HandKept
  <2>7. Mended("mappings", p, B["mappings"], c.wanted).profile = mappings[p].profile
    BY <2>6, <1>1 DEF C, v
  <2>8. QED BY <1>1, <1>3, <2>1, <2>7 DEF SeenBy, Over
<1>4. CASE p \notin DOMAIN c.own["mappings"] BY <1>1, <1>4 DEF SeenBy, Over
<1>5. QED BY <1>3, <1>4

\* When all rows are as the setup wants them, a commit changes none.
LEMMA NothingNew ==
  ASSUME CastInv, NEW c, NEW B, OwnMended(c, B),
         \A t \in Tables, p \in PersonaSet : SetupRow(t, p) =>
           p \in DOMAIN Committed[t] /\ Committed[t][p] = Mended(t, p, B[t], c.wanted)
  PROVE  /\ SeenBy(c, Committed, "profiles") = profiles
         /\ SeenBy(c, Committed, "mappings") = mappings
<1>1. ASSUME NEW t \in Tables, NEW p \in DOMAIN c.own[t]
      PROVE  p \in DOMAIN Committed[t] /\ c.own[t][p] = Committed[t][p]
  BY SetupRowPersona DEF OwnMended
<1>2. /\ Committed["profiles"] = profiles /\ Committed["mappings"] = mappings
      /\ profiles = [x \in DOMAIN profiles |-> profiles[x]]
      /\ mappings = [x \in DOMAIN mappings |-> mappings[x]]
  BY DEF Committed, CastInv, CastGlobals
<1>3. SeenBy(c, Committed, "profiles") = profiles
  <2>1. \A p \in DOMAIN c.own["profiles"] : p \in DOMAIN profiles /\ c.own["profiles"][p] = profiles[p]
    BY <1>1, <1>2 DEF Tables
  <2>2. QED BY <2>1, <1>2 DEF SeenBy, Over
<1>4. SeenBy(c, Committed, "mappings") = mappings
  <2>1. \A p \in DOMAIN c.own["mappings"] : p \in DOMAIN mappings /\ c.own["mappings"][p] = mappings[p]
    BY <1>1, <1>2 DEF Tables
  <2>2. QED BY <2>1, <1>2 DEF SeenBy, Over
<1>5. QED BY <1>3, <1>4

\* Commit: the rows are right for this generation, the same as before for those
\* of the others that have the same base, and the others know.
LEMMA Commits ==
  ASSUME CastInv, NEW w \in Casters, Commit(w)
  PROVE  CastInv'
<1> DEFINE c == casting[w]
           d == [c EXCEPT !.pc = "health", !.own = NoRows]
           e(x) == [casting[x] EXCEPT !.alone = FALSE]
<1>1. /\ c.pc = "look" /\ c.row > Len(SetupRows)
      /\ profiles' = SeenBy(c, Committed, "profiles") /\ mappings' = SeenBy(c, Committed, "mappings")
      /\ casting' = [x \in Casters |-> IF x = w THEN d ELSE e(x)]
      /\ castSite' = castSite /\ server' = server /\ troubles' = troubles
  BY DEF Commit, Doing, Seen, SeenBy, Disturbing
<1>2. Proceeds(c) /\ Generation(c) /\ Shape(c) /\ c.row = 9 /\ Setting(c) /\ c.take = <<>>
  <2>1. Proceeds(c) BY DEF CastInv
  <2> HIDE DEF c
  <2>2. Generation(c) /\ Shape(c) /\ c.row \in 1..9 /\ c.take = <<>>
    BY <1>1, <2>1 DEF Proceeds, Generation
  <2>3. Len(SetupRows) = 8 BY DEF SetupRows
  <2>4. c.row = 9 BY <1>1, <2>2, <2>3
  <2>5. QED BY <1>1, <2>1, <2>2, <2>4 DEF Setting
<1>3. \A t \in Tables : Committed'[t] = SeenBy(c, Committed, t) BY <1>1 DEF Committed, Tables
<1>4. casting'[w] = d /\ \A x \in Casters \ {w} : casting'[x] = e(x) BY <1>1
<1> HIDE DEF c
<1>5. /\ d.pc = "health" /\ d.heard = c.heard /\ d.wanted = c.wanted /\ d.row = c.row /\ d.own = NoRows
      /\ d.given = c.given /\ d.alone = c.alone /\ d.take = c.take /\ Shape(d)
  <2>1. NoRows = [t \in Tables |-> NoRows[t]] /\ DOMAIN NoRows = Tables BY DEF NoRows, Tables
  <2>2. QED BY <1>2, <2>1 DEF Shape, Fields
<1>6. \A B : Sets(c, Committed, B) =>
        /\ Between(B, Committed', c.wanted)
        /\ \A t \in Tables, p \in PersonaSet : SetupRow(t, p) =>
             p \in DOMAIN Committed'[t] /\ Committed'[t][p] = Mended(t, p, B[t], c.wanted)
  <2> SUFFICES ASSUME NEW B, Sets(c, Committed, B)
               PROVE  /\ Between(B, Committed', c.wanted)
                      /\ \A t \in Tables, p \in PersonaSet : SetupRow(t, p) =>
                           p \in DOMAIN Committed'[t] /\ Committed'[t][p] = Mended(t, p, B[t], c.wanted)
    OBVIOUS
  <2> DEFINE D == Committed'
  <2>1. \A t \in Tables : D[t] = SeenBy(c, Committed, t) BY <1>3
  <2> HIDE DEF D
  <2>2. /\ Between(B, D, c.wanted)
        /\ \A t \in Tables, p \in PersonaSet : SetupRow(t, p) =>
             p \in DOMAIN D[t] /\ D[t][p] = Mended(t, p, B[t], c.wanted)
    BY <2>1, <1>2, CommitMends
  <2>3. QED BY <2>2 DEF D
<1>7. \A B : Sets(c, Committed, B) /\ MappingsIn(B.mappings) =>
        /\ \A p \in DOMAIN mappings : mappings[p].profile \in castSite.handmade =>
             p \in DOMAIN mappings' /\ mappings'[p].profile = mappings[p].profile
        /\ \A t \in Tables, p \in PersonaSet : SetupRow(t, p) =>
             p \in DOMAIN Committed'[t] /\ Right(t, p, Committed'[t][p], c.wanted)
  <2> SUFFICES ASSUME NEW B, Sets(c, Committed, B), MappingsIn(B.mappings)
               PROVE  /\ \A p \in DOMAIN mappings : mappings[p].profile \in castSite.handmade =>
                           p \in DOMAIN mappings' /\ mappings'[p].profile = mappings[p].profile
                      /\ \A t \in Tables, p \in PersonaSet : SetupRow(t, p) =>
                           p \in DOMAIN Committed'[t] /\ Right(t, p, Committed'[t][p], c.wanted)
    OBVIOUS
  <2>1. Between(B, Committed, c.wanted) /\ OwnMended(c, B) BY DEF Sets
  <2>2. ASSUME NEW p \in DOMAIN mappings, mappings[p].profile \in castSite.handmade
        PROVE  p \in DOMAIN mappings' /\ mappings'[p].profile = mappings[p].profile
    BY <1>1, <2>1, <2>2, GivenKept
  <2>3. ASSUME NEW t \in Tables, NEW p \in PersonaSet, SetupRow(t, p)
        PROVE  p \in DOMAIN Committed'[t] /\ Right(t, p, Committed'[t][p], c.wanted)
    <3>1. p \in DOMAIN Committed'[t] /\ Committed'[t][p] = Mended(t, p, B[t], c.wanted)
      BY <2>3, <1>6
    <3>2. t = "mappings" => MappingsIn(B[t])
      OBVIOUS
    <3>3. Right(t, p, Mended(t, p, B[t], c.wanted), c.wanted) BY <3>2, MendedRight
    <3>4. QED BY <3>1, <3>3
  <2>4. QED BY <2>2, <2>3
<1>8. CastGlobals'
  <2>1. /\ profiles' = [x \in DOMAIN profiles' |-> profiles'[x]]
        /\ mappings' = [x \in DOMAIN mappings' |-> mappings'[x]]
    BY <1>1 DEF SeenBy, Over
  <2>2. MappingsIn(mappings') BY <1>1, <1>2, SeenTyped
  <2>3. casting' = [x \in Casters |-> casting'[x]] BY <1>1
  <2>4. troubles = 0 => Between(FirstRows, Committed', FirstVoices) BY <1>2, <1>6 DEF Proceeds, Calm
  <2>5. QED BY <1>1, <2>1, <2>2, <2>3, <2>4, SiteKept DEF CastInv, CastGlobals, MappingsIn
<1>9. Proceeds(casting[w])'
  <2> DEFINE P == casting'[w]
  <2>1. P = d BY <1>4
  <2> HIDE DEF d
  <2>2. Generation(casting[w])'
    <3>1. NoRows.mappings = <<>> /\ DOMAIN <<>> = {} BY DEF NoRows
    <3>2. Spread(d) BY <1>2, <1>5 DEF Generation, Spread
    <3>3. MappingsIn(d.own.mappings) BY <3>1, <1>5 DEF MappingsIn
    <3>4. Generation(d) BY <1>2, <1>5, <3>2, <3>3 DEF Generation, Setting, SetOut, CastPcs
    <3>5. QED BY <3>4, <2>1, <1>1, SiteKept DEF Generation, Spread, MappingsIn, Setting, SetOut
  <2>3. troubles = 0 => Calm(casting[w])'
    <3> SUFFICES ASSUME troubles = 0 PROVE Calm(casting[w])'
      OBVIOUS
    <3>1. Sets(c, Committed, FirstRows) /\ c.heard = castSite.offers[1] /\ c.wanted = FirstVoices
      BY <1>1, <1>2 DEF Proceeds, Calm
    <3>2. \A t \in Tables, p \in PersonaSet : SetupRow(t, p) =>
            p \in DOMAIN Committed'[t] /\ Committed'[t][p] = Mended(t, p, FirstRows[t], FirstVoices)
      BY <3>1, <1>6
    <3>3. ~Setting(d) /\ SetOut(d) BY <1>5 DEF Setting, SetOut
    <3>4. QED BY <3>1, <3>2, <3>3, <1>1, <1>5, <2>1, SiteKept DEF Calm, Setting, SetOut
  <2>4. (c.alone \/ troubles = 0) => Keeps(casting[w])'
    <3> SUFFICES ASSUME c.alone \/ troubles = 0 PROVE Keeps(casting[w])'
      OBVIOUS
    <3>1. PICK B : Sets(c, Committed, B) /\ MappingsIn(B.mappings)
      BY <1>2, BasesTyped DEF Proceeds, Calm
    <3>2. Keeps(c) BY <1>2 DEF Proceeds
    <3>3. \A p \in DOMAIN d.given :
            p \in DOMAIN mappings' /\ mappings'[p].profile = d.given[p] /\ d.given[p] \in castSite.handmade
      BY <3>1, <3>2, <1>5, <1>7 DEF Keeps
    <3>4. \A t \in Tables, p \in PersonaSet : SetupRow(t, p) =>
            p \in DOMAIN Committed'[t] /\ Right(t, p, Committed'[t][p], d.wanted)
      BY <3>1, <1>5, <1>7
    <3>5. DOMAIN <<>> = {} /\ d.take = <<>> BY <1>2, <1>5
    <3>6. QED BY <3>3, <3>4, <3>5, <1>1, <1>5, <2>1 DEF Keeps
  <2>5. QED BY <1>1, <1>5, <2>1, <2>2, <2>3, <2>4 DEF Proceeds, Writing, Setting
<1>10. ASSUME NEW x \in Casters \ {w} PROVE Proceeds(casting[x])'
  <2> DEFINE o == casting[x]
             y == e(x)
  <2>1. Proceeds(o) /\ Generation(o) /\ Shape(o) BY DEF CastInv, Proceeds, Generation
  <2>2. casting'[x] = y BY <1>4
  <2> HIDE DEF o
  <2>3. /\ y.pc = o.pc /\ y.heard = o.heard /\ y.wanted = o.wanted /\ y.row = o.row /\ y.own = o.own
        /\ y.given = o.given /\ y.alone = FALSE /\ y.take = o.take /\ y.voice = o.voice
        /\ y.fields = o.fields /\ y.new = o.new /\ Shape(y)
    BY <2>1 DEF Shape, Fields, o
  <2> HIDE DEF y, e
  <2>4. Generation(casting[x])'
    <3>1. (Setting(y) \/ SetOut(y)) => Spread(y)
      BY <2>1, <2>3 DEF Generation, Spread, Setting, SetOut
    <3>2. Generation(y) BY <2>1, <2>3, <3>1 DEF Generation, Setting, SetOut
    <3>3. QED BY <3>2, <2>2, <1>1, SiteKept DEF Generation, Spread, MappingsIn, Setting, SetOut
  <2>5. Writing(casting[x])'
    <3> DEFINE t == SetupRows[o.row].table
               p == SetupRows[o.row].persona
    <3>1. (o.pc = "write" /\ ~o.new) => p \in DOMAIN SeenBy(y, Committed', t)
      <4> SUFFICES ASSUME o.pc = "write", ~o.new PROVE p \in DOMAIN SeenBy(y, Committed', t)
        OBVIOUS
      <4>1. p \in DOMAIN SeenBy(o, Committed, t) BY <2>1 DEF Proceeds, Writing
      <4>2. t \in Tables BY <2>1, RowOf DEF Generation
      <4> HIDE DEF t, p
      <4>3. DOMAIN Committed[t] \subseteq DOMAIN Committed'[t] BY <1>3, <4>2 DEF SeenBy, Over
      <4>4. QED BY <4>1, <4>3, <2>3 DEF SeenBy, Over
    <3>2. QED BY <3>1, <2>1, <2>2, <2>3 DEF Proceeds, Writing
  <2>6. troubles = 0 =>
          /\ Sets(c, Committed, FirstRows) /\ c.wanted = FirstVoices /\ Calm(o) /\ Keeps(o)
    BY <1>2, <2>1 DEF Proceeds, Calm
  <2>7. (troubles = 0 /\ Setting(o)) => Sets(y, Committed', FirstRows)
    <3> SUFFICES ASSUME troubles = 0, Setting(o) PROVE Sets(y, Committed', FirstRows)
      OBVIOUS
    <3> DEFINE D == Committed'
               B == FirstRows
    <3>1. \A t \in Tables : D[t] = SeenBy(c, Committed, t) BY <1>3
    <3>2. Sets(o, Committed, B) /\ OwnMended(c, B) /\ c.wanted = o.wanted BY <2>6 DEF Calm, Sets
    <3> HIDE DEF D, B
    <3>3. Sets(o, D, B) BY <3>1, <3>2, OthersCommit
    <3>4. OwnMended(y, B) /\ Pending(y, B) BY <3>3, <2>3 DEF Sets, OwnMended, Pending
    <3>5. \A t, p : Passed(o, D, B, t, p) => Passed(y, D, B, t, p) BY <2>3 DEF Passed, SeenBy
    <3>6. AllPassed(y, D, B) BY <3>3, <3>5, <2>3 DEF Sets, AllPassed
    <3>7. Sets(y, D, B) BY <3>3, <3>4, <3>6, <2>3 DEF Sets
    <3>8. QED BY <3>7 DEF D, B
  <2>8. troubles = 0 => Calm(casting[x])'
    <3> SUFFICES ASSUME troubles = 0 PROVE Calm(casting[x])'
      OBVIOUS
    <3>1. SetOut(y) => \A t \in Tables, p \in PersonaSet : SetupRow(t, p) =>
            p \in DOMAIN Committed'[t] /\ Committed'[t][p] = Mended(t, p, FirstRows[t], FirstVoices)
      BY <2>6, <1>6
    <3>2. Calm(o) BY <2>6
    <3>3. Setting(y) = Setting(o) /\ SetOut(y) = SetOut(o) BY <2>3 DEF Setting, SetOut
    <3>4. QED BY <3>1, <3>2, <3>3, <1>1, <2>2, <2>3, <2>7, SiteKept DEF Calm, Setting, SetOut
  <2>9. troubles = 0 => Keeps(casting[x])'
    <3> SUFFICES ASSUME troubles = 0 PROVE Keeps(casting[x])'
      OBVIOUS
    <3>1. \A p \in DOMAIN y.given :
            p \in DOMAIN mappings' /\ mappings'[p].profile = y.given[p] /\ y.given[p] \in castSite.handmade
      BY <2>6, <1>7, <2>3, BasesTyped DEF Keeps
    <3>2. CASE ~SetOut(y)
      <4>1. y.take = <<>> /\ y.pc # "speak" /\ DOMAIN <<>> = {}
        BY <3>2, <2>1, <2>3 DEF SetOut, Generation
      <4>2. QED BY <3>1, <3>2, <4>1, <2>2, <1>1 DEF Keeps, SetOut
    <3>3. CASE SetOut(y)
      <4>1. SetOut(o) BY <3>3, <2>3 DEF SetOut
      <4>2. profiles' = profiles /\ mappings' = mappings
        <5>1. \A t \in Tables, p \in PersonaSet : SetupRow(t, p) =>
                p \in DOMAIN Committed[t] /\ Committed[t][p] = Mended(t, p, FirstRows[t], c.wanted)
          BY <2>6, <4>1 DEF Calm
        <5>2. OwnMended(c, FirstRows) BY <2>6 DEF Sets
        <5>3. QED BY <5>1, <5>2, <1>1, NothingNew
      <4>3. QED BY <2>2, <2>3, <2>6, <4>1, <4>2, <1>1, RowsKept DEF Keeps, SetOut
    <3>4. QED BY <3>2, <3>3
  <2>10. QED BY <1>1, <2>2, <2>3, <2>4, <2>5, <2>8, <2>9 DEF Proceeds
<1>11. QED BY <1>8, <1>9, <1>10 DEF CastInv

-----------------------------------------------------------------------------
(* Everybody else, and the theorem.                                        *)

\* An admin's edit is a mapping, and everybody learns of it.
LEMMA Edited ==
  ASSUME CastInv, NEW e \in castSite.edits, Edit(e.persona, e.mapping)
  PROVE  CastInv'
<1> DEFINE m == e.mapping
           q == e.persona
           f(x) == [casting[x] EXCEPT !.alone = FALSE]
<1>1. /\ castSite' = castSite /\ server' = server /\ profiles' = profiles
      /\ mappings' = [mappings EXCEPT ![q] = m] /\ troubles' = troubles + 1
      /\ casting' = [x \in Casters |-> f(x)]
  BY DEF Edit, Trouble
<1>2. m \in MappingRows /\ troubles \in Nat /\ castSite \in CastSites
      /\ mappings = [x \in DOMAIN mappings |-> mappings[x]] /\ MappingsIn(mappings)
  BY CastSitesAssumption DEF CastInv, CastGlobals, MappingRows
<1> HIDE DEF m, q
<1>3. troubles' # 0 /\ troubles' \in Nat BY <1>1, <1>2
<1>4. DOMAIN mappings' = DOMAIN mappings /\ mappings' = [x \in DOMAIN mappings' |-> mappings'[x]]
      /\ MappingsIn(mappings')
  BY <1>1, <1>2 DEF MappingsIn
<1>5. CastGlobals' BY <1>1, <1>3, <1>4, SiteKept DEF CastInv, CastGlobals, MappingsIn
<1>6. ASSUME NEW x \in Casters PROVE Proceeds(casting[x])'
  <2> DEFINE o == casting[x]
             y == f(x)
  <2>1. Proceeds(o) /\ Generation(o) /\ Shape(o) BY DEF CastInv, Proceeds, Generation
  <2>2. casting'[x] = y BY <1>1
  <2> HIDE DEF o
  <2>3. /\ y.pc = o.pc /\ y.heard = o.heard /\ y.wanted = o.wanted /\ y.row = o.row /\ y.own = o.own
        /\ y.given = o.given /\ y.alone = FALSE /\ y.take = o.take /\ y.voice = o.voice
        /\ y.fields = o.fields /\ y.new = o.new /\ Shape(y)
    BY <2>1 DEF Shape, Fields, o
  <2> HIDE DEF y, f
  <2>4. Generation(casting[x])'
    <3>1. (Setting(y) \/ SetOut(y)) => Spread(y)
      BY <2>1, <2>3 DEF Generation, Spread, Setting, SetOut
    <3>2. Generation(y) BY <2>1, <2>3, <3>1 DEF Generation, Setting, SetOut
    <3>3. QED BY <3>2, <2>2, <1>1, SiteKept DEF Generation, Spread, MappingsIn, Setting, SetOut
  <2>5. Writing(casting[x])'
    <3> DEFINE t == SetupRows[o.row].table
               p == SetupRows[o.row].persona
    <3>1. (o.pc = "write" /\ ~o.new) => p \in DOMAIN SeenBy(y, Committed', t)
      <4> SUFFICES ASSUME o.pc = "write", ~o.new PROVE p \in DOMAIN SeenBy(y, Committed', t)
        OBVIOUS
      <4>1. p \in DOMAIN SeenBy(o, Committed, t) BY <2>1 DEF Proceeds, Writing
      <4>2. t \in Tables BY <2>1, RowOf DEF Generation
      <4> HIDE DEF t, p
      <4>3. DOMAIN Committed[t] \subseteq DOMAIN Committed'[t]
        BY <1>1, <1>4, <4>2 DEF Committed, Tables
      <4>4. QED BY <4>1, <4>3, <2>3 DEF SeenBy, Over
    <3>2. QED BY <3>1, <2>1, <2>2, <2>3 DEF Proceeds, Writing
  <2>6. QED BY <2>2, <2>3, <2>4, <2>5, <1>3 DEF Proceeds
<1>7. QED BY <1>5, <1>6 DEF CastInv

\* What the server and the cache do reaches no row and no generation.
LEMMA ServerStep ==
  ASSUME CastInv, castSite' = castSite, profiles' = profiles, mappings' = mappings,
         casting' = casting, troubles' \in Nat, troubles' = 0 => troubles = 0 /\ server' = server,
         server' = [up |-> server'.up, voices |-> server'.voices], server'.voices \in Seq(VoiceInfo)
  PROVE  CastInv'
<1>1. ASSUME NEW x \in Casters PROVE Proceeds(casting[x])'
  <2>1. Proceeds(casting[x]) /\ casting'[x] = casting[x] BY DEF CastInv
  <2>2. QED BY <2>1, CastUnmoved
<1>2. CastGlobals' BY RowsKept, SiteKept DEF CastInv, CastGlobals, MappingsIn
<1>3. QED BY <1>1, <1>2 DEF CastInv

\* Every step of every generation, of the server, of the cache and of the
\* people at the admin pages.
LEMMA CastHolds == CastInv /\ [CastNext]_castVars => CastInv'
<1> SUFFICES ASSUME CastInv, [CastNext]_castVars PROVE CastInv'
  OBVIOUS
<1>1. /\ server = [up |-> server.up, voices |-> server.voices] /\ server.voices \in Seq(VoiceInfo)
      /\ troubles \in Nat /\ castSite \in CastSites
      /\ troubles = 0 => server.up = TRUE
  BY DEF CastInv, CastGlobals
<1>2. ASSUME NEW w \in Casters, CastStep(w) PROVE CastInv'
  BY <1>2, CastBegins, VoicesListed, VoicesResolved, Looks, Writes, Commits, HealthChecked,
     VoicesGot, LinePrepared, LineSpoken DEF CastStep
<1>3. CASE GoDown
  <2>1. troubles' = troubles + 1 /\ server' = [up |-> FALSE, voices |-> server.voices]
    BY <1>1, <1>3 DEF GoDown, Trouble
  <2>2. /\ troubles' \in Nat /\ troubles' # 0 /\ server'.voices \in Seq(VoiceInfo)
        /\ server' = [up |-> server'.up, voices |-> server'.voices]
    BY <1>1, <2>1
  <2>3. QED BY <1>3, <2>2, ServerStep DEF GoDown
<1>4. CASE ComeUp
  <2>1. troubles' = troubles /\ troubles # 0 /\ server' = [up |-> TRUE, voices |-> server.voices]
    BY <1>1, <1>4 DEF ComeUp
  <2>2. QED BY <1>1, <1>4, <2>1, ServerStep DEF ComeUp
<1>5. CASE ChangeVoices
  <2>1. PICK i \in DOMAIN castSite.offers : server' = [server EXCEPT !.voices = castSite.offers[i]]
    BY <1>5 DEF ChangeVoices
  <2>2. castSite.offers[i] \in Seq(VoiceInfo)
    <3>1. castSite.offers \in Seq(Seq(VoiceInfo)) BY <1>1, CastSitesAssumption
    <3>2. QED BY <3>1
  <2>3. troubles' = troubles + 1 /\ server' = [up |-> server.up, voices |-> castSite.offers[i]]
    BY <1>1, <1>5, <2>1 DEF ChangeVoices, Trouble
  <2>4. QED BY <1>1, <1>5, <2>2, <2>3, ServerStep DEF ChangeVoices
<1>6. CASE ExpireVoices BY <1>1, <1>6, ServerStep DEF ExpireVoices
<1>7. CASE ExpireHealth BY <1>1, <1>7, ServerStep DEF ExpireHealth
<1>8. ASSUME NEW e \in castSite.edits, Edit(e.persona, e.mapping) PROVE CastInv' BY <1>8, Edited
<1>9. CASE UNCHANGED castVars BY <1>1, <1>9, ServerStep DEF castVars
<1>10. QED BY <1>2, <1>3, <1>4, <1>5, <1>6, <1>7, <1>8, <1>9 DEF CastNext

\* A cast is kept, however many generations there are, whatever the server does
\* and whatever rows there were: the property CastIsKept of VoiceCasting.
THEOREM CastsAreKept == FairSpec => []CastIsKept
<1>1. StudioInit => CastInv BY CastStart DEF StudioInit
<1>2. CastInv /\ [StudioNext]_studioVars => CastInv'
  <2> SUFFICES ASSUME CastInv, [StudioNext]_studioVars PROVE CastInv'
    OBVIOUS
  <2>1. [CastNext]_castVars BY DEF StudioNext, studioVars
  <2>2. QED BY <2>1, CastHolds
<1>3. QED BY <1>1, <1>2, CastKeeps, PTL DEF FairSpec

-----------------------------------------------------------------------------
(***************************************************************************)
(* Theorems about the operators' pages, for any number of people and       *)
(* workers, any surroundings and any bounds.                               *)
(*                                                                         *)
(* What a script is made from is decided by three parties in turn: the     *)
(* request that links the articles, whoever writes the same episode        *)
(* meanwhile, and the worker that reads them.  The inductive invariant     *)
(* DeskInv says how far each request has come with its episode             *)
(* (RequestsFit), what the rows say of each other (ScriptsFit), and that   *)
(* what a worker has read is still right (HandsFit).  PanelInv, for the    *)
(* panel, says who still has a job or a script in hand.                    *)
(***************************************************************************)

-----------------------------------------------------------------------------
(* Rows, and the invariant from its parts.                                 *)

\* Rows that are replaced, and rows that are added.
LEMMA Replaced ==
  ASSUME NEW S, NEW q \in Seq(S), NEW i \in DOMAIN q, NEW v \in S, NEW r, r = [q EXCEPT ![i] = v]
  PROVE  /\ r \in Seq(S) /\ DOMAIN r = DOMAIN q /\ r[i] = v
         /\ \A j \in DOMAIN q : j # i => r[j] = q[j]
<1>1. r \in [1..Len(q) -> S]
  OBVIOUS
<1>2. QED BY <1>1

\* A row that is added is the last one.
LEMMA Appended ==
  ASSUME NEW S, NEW q \in Seq(S), NEW v \in S, NEW r, r = Append(q, v), NEW n, n = Len(q) + 1
  PROVE  /\ r \in Seq(S) /\ DOMAIN r = DOMAIN q \cup {n} /\ r[n] = v
         /\ \A j \in DOMAIN q : r[j] = q[j]
         /\ n \in Nat /\ n # 0 /\ n \notin DOMAIN q /\ 0 \notin DOMAIN q
         /\ 0 \notin DOMAIN r
  OBVIOUS

\* The types are kept as long as the surroundings are the same.
LEMMA DeskTyped ==
  ASSUME DeskTypes, deskSite' = deskSite,
         selected' \in SUBSET Articles, episodes' \in Seq(EpisodeRows), scripts' \in Seq(ScriptRows),
         jobs' \in Seq(JobRows), desk' \in [Staff -> RequestRows], hand' \in [Hands -> HandRows]
  PROVE  DeskTypes'
  BY DEF DeskTypes, Articles, EpisodeRows, ScriptRows, JobRows, RequestRows, HandRows

\* The invariant after a step, from its parts.
LEMMA DeskInvNext ==
  ASSUME deskSite' = deskSite, DeskTypes',
         \A o \in Staff : RequestFits(desk'[o], selected', episodes', jobs', scripts'),
         Apart(desk'), AllComplete(episodes', desk'),
         \A s \in DOMAIN scripts' :
           /\ ScriptFits(scripts'[s], episodes')
           /\ \A o \in Staff : Links(desk'[o], scripts'[s].episode) => scripts'[s].early,
         \A j \in DOMAIN jobs' : JobFits(jobs'[j], episodes', scripts'),
         \A h \in Hands : HandFits(hand'[h], episodes', jobs', scripts'),
         OwnScripts(hand', jobs', scripts')
  PROVE  DeskInv'
<1>1. RequestsFit'
  <2>1. Articles' = Articles BY DEF Articles
  <2>2. (\A o \in Staff : RequestFits(desk[o], selected, episodes, jobs, scripts))'
    BY <2>1 DEF RequestFits, Chosen, Makes, Holds, Asked, Drafted
  <2>3. Apart(desk)' /\ AllComplete(episodes, desk)'
    BY DEF Apart, AllComplete, Complete, Links, Makes, Holds
  <2>4. QED BY <2>2, <2>3 DEF RequestsFit
<1>2. ScriptsFit' BY DEF ScriptsFit, ScriptFits, JobFits, Links, Sourced
<1>3. HandsFit' BY DEF HandsFit, HandFits, Scripting, Sourced
<1>4. QED BY <1>1, <1>2, <1>3 DEF DeskInv

\* A request that waits while its episode is written, as far as others may.
LEMMA StillFits ==
  ASSUME NEW r, NEW sel, NEW E, NEW J, NEW S, RequestFits(r, sel, E, J, S),
         NEW r2, NEW sel2, NEW E2, NEW J2, NEW S2,
         Unmoved(r2, r), r2.alone => sel2 = sel,
         DOMAIN E \subseteq DOMAIN E2, DOMAIN J \subseteq DOMAIN J2, DOMAIN S \subseteq DOMAIN S2,
         \A e \in DOMAIN E :
           /\ E[e].gone => E2[e].gone
           /\ E[e].resaved => E2[e].resaved,
         \A e \in DOMAIN E : Makes(r) /\ r.item = e =>
           /\ E2[e].asked = E[e].asked
           /\ E2[e].links = E[e].links \/ (E2[e].gone /\ E2[e].links = {}) \/ E2[e].resaved,
         \A e \in DOMAIN E : Holds(r) /\ r.item = e /\ r.status # "new" /\ r2.alone =>
           E2[e].links = E[e].links \/ E2[e].gone
  PROVE  RequestFits(r2, sel2, E2, J2, S2)
<1>1. Holds(r2) => r2.item \in DOMAIN E2 BY DEF RequestFits, Holds, Unmoved
<1>2. Makes(r2) => Asked(r2, E2[r2.item]) BY DEF RequestFits, Makes, Holds, Asked, Unmoved
<1>3. r2.alone /\ r2.status # "new" => Chosen(r2, sel2) /\ (Holds(r2) => Drafted(r2, E2[r2.item]))
  BY DEF RequestFits, Chosen, Holds, Drafted, Unmoved
<1>4. QED BY <1>1, <1>2, <1>3 DEF RequestFits, Unmoved

\* Nobody begins to make an episode of another.
LEMMA StillApart ==
  ASSUME NEW D, Apart(D), NEW D2,
         \A o \in Staff : Makes(D2[o]) => Makes(D[o]) /\ D2[o].item = D[o].item
  PROVE  Apart(D2)
  BY DEF Apart

\* An episode stays complete, or is still being linked.
LEMMA StillComplete ==
  ASSUME NEW E, NEW D, AllComplete(E, D), NEW E2, NEW D2,
         \A e \in DOMAIN E2 : Complete(E2[e]) \/
           /\ e \in DOMAIN E
           /\ ~Complete(E[e])
           /\ \A o \in Staff : Links(D[o], e) => Links(D2[o], e)
  PROVE  AllComplete(E2, D2)
  BY DEF AllComplete

\* What a person does leaves what the workers have in hand as it is.
LEMMA DeskSideKeeps ==
  ASSUME DeskInv, NEW D2, NEW E2, NEW J2,
         DOMAIN episodes \subseteq DOMAIN E2, DOMAIN jobs \subseteq DOMAIN J2,
         \A e \in DOMAIN episodes :
           /\ E2[e].gone <=> episodes[e].gone
           /\ episodes[e].resaved => E2[e].resaved
           /\ E2[e].asked = episodes[e].asked \/ \E o \in Staff : Links(desk[o], e),
         \A o \in Staff, e \in DOMAIN episodes : Links(D2[o], e) => Links(desk[o], e),
         SameJobs(J2),
         \A j \in DOMAIN J2 : j \in DOMAIN jobs \/ JobFits(J2[j], E2, scripts)
  PROVE  /\ \A s \in DOMAIN scripts :
              /\ ScriptFits(scripts[s], E2)
              /\ \A o \in Staff : Links(D2[o], scripts[s].episode) => scripts[s].early
         /\ \A j \in DOMAIN J2 : JobFits(J2[j], E2, scripts)
         /\ \A h \in Hands : HandFits(hand[h], E2, J2, scripts)
         /\ OwnScripts(hand, J2, scripts)
<1> USE DEF DeskInv, DeskTypes
<1>1. ASSUME NEW s \in DOMAIN scripts
      PROVE  /\ ScriptFits(scripts[s], E2)
             /\ \A o \in Staff : Links(D2[o], scripts[s].episode) => scripts[s].early
  <2>1. /\ ScriptFits(scripts[s], episodes)
        /\ \A o \in Staff : Links(desk[o], scripts[s].episode) => scripts[s].early
    BY DEF ScriptsFit
  <2>2. QED BY <2>1 DEF ScriptFits, Sourced
<1>2. \A j \in DOMAIN J2 : JobFits(J2[j], E2, scripts) BY DEF ScriptsFit, JobFits, SameJobs
<1>3. ASSUME NEW h \in Hands
      PROVE  /\ HandFits(hand[h], E2, J2, scripts)
             /\ Scripting(hand[h], J2) <=> Scripting(hand[h], jobs)
  <2>1. HandFits(hand[h], episodes, jobs, scripts) BY DEF HandsFit
  <2>2. Scripting(hand[h], J2) <=> Scripting(hand[h], jobs)
    BY <2>1 DEF HandFits, Scripting, SameJobs
  <2>3. ASSUME Scripting(hand[h], jobs)
        PROVE  Sourced(scripts[hand[h].script], E2[jobs[hand[h].job].episode], hand[h].sources)
    <3>1. /\ hand[h].script \in DOMAIN scripts /\ hand[h].job \in DOMAIN jobs
          /\ scripts[hand[h].script].episode = jobs[hand[h].job].episode
      BY <2>1, <2>3 DEF HandFits, Scripting
    <3>2. /\ scripts[hand[h].script].episode \in DOMAIN episodes
          /\ \A o \in Staff : Links(desk[o], scripts[hand[h].script].episode)
                               => scripts[hand[h].script].early
      BY <3>1 DEF ScriptsFit, ScriptFits
    <3>3. QED BY <2>1, <2>3, <3>1, <3>2 DEF HandFits, Sourced
  <2>4. QED BY <2>1, <2>2, <2>3 DEF HandFits, Scripting, SameJobs
<1>4. QED BY <1>1, <1>2, <1>3 DEF HandsFit, OwnScripts

\* A step of a request that writes neither flags nor links.
LEMMA QuietRequest ==
  ASSUME DeskInv, NEW o \in Staff, NEW r \in RequestRows, desk' = [desk EXCEPT ![o] = r],
         deskSite' = deskSite, selected' = selected, episodes' = episodes, scripts' = scripts,
         hand' = hand, jobs' \in Seq(JobRows), DOMAIN jobs \subseteq DOMAIN jobs',
         SameJobs(jobs'),
         \A j \in DOMAIN jobs' : j \in DOMAIN jobs \/ JobFits(jobs'[j], episodes, scripts),
         RequestFits(r, selected, episodes, jobs', scripts),
         Makes(r) => Makes(desk[o]) /\ r.item = desk[o].item,
         \A e \in DOMAIN episodes :
           /\ Links(r, e) => Links(desk[o], e)
           /\ Links(desk[o], e) => Links(r, e) \/ Complete(episodes[e])
  PROVE  DeskInv'
<1> USE DEF DeskInv
<1>1. /\ \A p \in Staff : p # o => desk'[p] = desk[p]
      /\ desk'[o] = r /\ desk' \in [Staff -> RequestRows]
  BY DEF DeskTypes
<1>2. DeskTypes' BY <1>1, DeskTyped DEF DeskTypes
<1>3. ASSUME NEW p \in Staff PROVE RequestFits(desk'[p], selected, episodes, jobs', scripts)
  <2>1. CASE p = o BY <2>1, <1>1
  <2>2. CASE p # o
    <3>1. RequestFits(desk[p], selected, episodes, jobs, scripts) BY DEF RequestsFit
    <3>2. QED BY <2>2, <1>1, <3>1 DEF RequestFits
  <2>3. QED BY <2>1, <2>2
<1>4. Apart(desk')
  <2>1. Apart(desk) BY DEF RequestsFit
  <2>2. \A p \in Staff : Makes(desk'[p]) => Makes(desk[p]) /\ desk'[p].item = desk[p].item BY <1>1
  <2>3. QED BY <2>1, <2>2, StillApart
<1>5. AllComplete(episodes, desk') BY <1>1 DEF RequestsFit, AllComplete
<1>6. \A p \in Staff, e \in DOMAIN episodes : Links(desk'[p], e) => Links(desk[p], e) BY <1>1
<1>7. /\ \A s \in DOMAIN scripts :
           /\ ScriptFits(scripts[s], episodes)
           /\ \A p \in Staff : Links(desk'[p], scripts[s].episode) => scripts[s].early
      /\ \A j \in DOMAIN jobs' : JobFits(jobs'[j], episodes, scripts)
      /\ \A h \in Hands : HandFits(hand[h], episodes, jobs', scripts)
      /\ OwnScripts(hand, jobs', scripts)
  BY <1>6, DeskSideKeeps
<1>8. QED BY <1>2, <1>3, <1>4, <1>5, <1>7, DeskInvNext

-----------------------------------------------------------------------------
(* Requests that only read, and those that end in a job.                   *)

\* A step by which a request begins, or rests.
LEMMA RestingRequest ==
  ASSUME DeskInv, NEW o \in Staff, NEW r \in RequestRows, desk' = [desk EXCEPT ![o] = r],
         r.pc \in {"idle", "reload", "flags", "count", "create", "active"},
         r.form \subseteq r.scope, r.pc \in {"flags", "count", "create"} => r.status = "",
         desk[o].pc \notin {"sync", "unlink", "link"},
         deskSite' = deskSite, selected' = selected, episodes' = episodes, scripts' = scripts,
         hand' = hand, jobs' \in Seq(JobRows), DOMAIN jobs \subseteq DOMAIN jobs',
         SameJobs(jobs'),
         \A j \in DOMAIN jobs' : j \in DOMAIN jobs \/ JobFits(jobs'[j], episodes, scripts)
  PROVE  DeskInv'
<1>1. RequestFits(r, selected, episodes, jobs', scripts) BY DEF RequestFits, Holds, Makes, Chosen
<1>2. ~Makes(r) /\ \A e : ~Links(r, e) /\ ~Links(desk[o], e) BY DEF Makes, Holds, Links
<1>3. QED BY <1>1, <1>2, QuietRequest

\* The request that does nothing, and the one that is answered.
LEMMA RequestTyped ==
  /\ NoRequest \in RequestRows /\ NoRequest.pc = "idle" /\ NoRequest.alone = TRUE
  /\ NoRequest.status = "" /\ NoRequest.form = {}
  /\ Answered \in RequestRows /\ Answered.pc = "reload" /\ Answered.form = {}
<1>1. /\ NoRequest \in RequestRows /\ NoRequest.pc = "idle"
      /\ NoRequest.alone = TRUE
      /\ NoRequest.status = "" /\ NoRequest.form = {}
  BY DEF NoRequest, RequestRows
<1>2. Answered \in RequestRows /\ Answered.pc = "reload" /\ Answered.form = {}
  BY <1>1 DEF Answered, RequestRows
<1>3. QED BY <1>1, <1>2

\* The steps that read.
LEMMA ReadingKeeps ==
  ASSUME DeskInv, NEW o \in Staff,
         LoadPage(o) \/ SaveSources(o) \/ GenerateScript(o) \/ CheckActive(o) \/ AbortScript(o)
  PROVE  DeskInv'
<1>1. /\ deskSite' = deskSite /\ selected' = selected /\ episodes' = episodes
      /\ scripts' = scripts
      /\ hand' = hand /\ jobs' = jobs
  BY DEF LoadPage, SaveSources, GenerateScript, CheckActive, AbortScript
<1>2. desk[o] \in RequestRows /\ jobs \in Seq(JobRows) BY DEF DeskInv, DeskTypes
<1>3. PICK r \in RequestRows :
        /\ desk' = [desk EXCEPT ![o] = r]
        /\ r.pc \in {"idle", "reload", "flags", "count", "create", "active"}
        /\ r.form \subseteq r.scope /\ (r.pc \in {"flags", "count", "create"} => r.status = "")
        /\ desk[o].pc \notin {"sync", "unlink", "link"}
  <2>1. CASE LoadPage(o) BY <2>1, RequestTyped DEF LoadPage, Then, At
  <2>2. CASE SaveSources(o)
    <3> DEFINE Scope(filter) == {x \in Articles : filter \in {"all", deskSite.articles[x].type}}
               Form(a, filter) == LET marked == page[o].checked \cap Scope(filter)
                                  IN (marked \ {a}) \cup ({a} \ marked)
    <3>1. PICK a \in Articles, filter \in deskSite.filters :
            /\ a \in Scope(filter)
            /\ Begin(o, "save", [NoRequest EXCEPT !.pc = "flags", !.form = Form(a, filter),
                                                   !.scope = Scope(filter)])
      BY <2>2 DEF SaveSources
    <3>2. PICK form, scope : form = Form(a, filter) /\ scope = Scope(filter)
      OBVIOUS
    <3>3. form \subseteq scope /\ scope \in SUBSET Articles /\ form \in SUBSET Articles
      BY <3>1, <3>2
    <3>4. PICK r \in RequestRows :
            r = [NoRequest EXCEPT !.pc = "flags", !.form = form, !.scope = scope]
      BY <3>3, RequestTyped DEF RequestRows
    <3>5. r.pc = "flags" /\ r.form = form /\ r.scope = scope /\ r.status = ""
      BY <3>4, RequestTyped DEF RequestRows
    <3>6. QED BY <3>1, <3>2, <3>3, <3>4, <3>5 DEF Begin, Then, At
  <2>3. CASE GenerateScript(o)
    <3>1. /\ [NoRequest EXCEPT !.pc = "count"] \in RequestRows
          /\ LET r == [NoRequest EXCEPT !.pc = "count"]
             IN r.pc = "count" /\ r.form = {} /\ r.status = ""
      BY RequestTyped DEF RequestRows
    <3>2. QED BY <2>3, <3>1 DEF GenerateScript, Begin, Then, At
  <2>4. CASE CheckActive(o)
    <3>1. /\ [desk[o] EXCEPT !.pc = "create"] \in RequestRows
          /\ LET r == [desk[o] EXCEPT !.pc = "create"]
             IN r.pc = "create" /\ r.form = desk[o].form /\ r.scope = desk[o].scope
                /\ r.status = desk[o].status
      BY <1>2 DEF RequestRows
    <3>2. desk[o].form \subseteq desk[o].scope /\ (desk[o].pc = "count" => desk[o].status = "")
      BY DEF DeskInv, RequestsFit, RequestFits
    <3>3. QED BY <2>4, <3>1, <3>2, RequestTyped DEF CheckActive, Answer, Then, At
  <2>5. CASE AbortScript(o)
    <3>1. /\ [NoRequest EXCEPT !.pc = "active"] \in RequestRows
          /\ LET r == [NoRequest EXCEPT !.pc = "active"] IN r.pc = "active" /\ r.form = {}
      BY RequestTyped DEF RequestRows
    <3>2. QED BY <2>5, <3>1 DEF AbortScript, Begin, Then, At
  <2>6. QED BY <2>1, <2>2, <2>3, <2>4, <2>5
<1>4. QED BY <1>1, <1>2, <1>3, RestingRequest DEF SameJobs

\* The steps that end in a job, or change its status.
LEMMA NewJob ==
  ASSUME DeskTypes, NEW type \in {"script", "audio"}, NEW e \in Nat, NEW s \in Nat,
         jobs' = Append(jobs, Job(type, e, s)), JobFits(Job(type, e, s), episodes, scripts)
  PROVE  /\ jobs' \in Seq(JobRows) /\ DOMAIN jobs \subseteq DOMAIN jobs'
         /\ SameJobs(jobs')
         /\ \A j \in DOMAIN jobs' : j \in DOMAIN jobs \/ JobFits(jobs'[j], episodes, scripts)
<1>1. Job(type, e, s) \in JobRows BY DEF Job, JobRows, DeskTypes
<1>2. QED BY <1>1, Appended DEF DeskTypes, SameJobs

\* A job that is replaced by another of its kind, episode and script.
LEMMA ChangedJob ==
  ASSUME DeskTypes, NEW i \in DOMAIN jobs, NEW v \in JobRows, jobs' = [jobs EXCEPT ![i] = v],
         v.type = jobs[i].type, v.episode = jobs[i].episode, v.script = jobs[i].script
  PROVE  /\ jobs' \in Seq(JobRows) /\ DOMAIN jobs' = DOMAIN jobs /\ jobs'[i] = v
         /\ \A j \in DOMAIN jobs : j # i => jobs'[j] = jobs[j]
         /\ SameJobs(jobs')
  BY Replaced DEF DeskTypes, SameJobs

\* A job for a script of an episode there is.
LEMMA ScriptJobFits ==
  ASSUME NEW E, NEW S, NEW e \in DOMAIN E
  PROVE  JobFits(Job("script", e, 0), E, S)
  BY DEF JobFits, Job

\* GenerateAgain: the admin asks for another script.
LEMMA AskingAgainKeeps ==
  ASSUME DeskInv, NEW o \in Staff, GenerateAgain(o)
  PROVE  DeskInv'
<1>1. PICK e \in ThereAre : jobs' = Append(jobs, Job("script", e, 0)) BY DEF GenerateAgain
<1>2. e \in DOMAIN episodes /\ e \in Nat BY DEF ThereAre, DeskInv, DeskTypes
<1>3. JobFits(Job("script", e, 0), episodes, scripts) BY <1>2, ScriptJobFits
<1>4. /\ jobs' \in Seq(JobRows) /\ DOMAIN jobs \subseteq DOMAIN jobs'
      /\ SameJobs(jobs')
      /\ \A j \in DOMAIN jobs' : j \in DOMAIN jobs \/ JobFits(jobs'[j], episodes, scripts)
  BY <1>1, <1>2, <1>3, NewJob DEF DeskInv
<1>5. /\ desk' = [desk EXCEPT ![o] = Answered] /\ desk[o].pc = "idle"
      /\ deskSite' = deskSite /\ selected' = selected /\ episodes' = episodes
      /\ scripts' = scripts /\ hand' = hand
  BY DEF GenerateAgain, Begin, Then, At
<1>6. QED BY <1>4, <1>5, RequestTyped, RestingRequest

\* A job whose status is written.
LEMMA CancelledJob ==
  ASSUME DeskTypes, NEW i \in DOMAIN jobs, NEW c \in {"running", "cancelled", "failed", "succeeded"},
         jobs' = [jobs EXCEPT ![i].status = c]
  PROVE  /\ jobs' \in Seq(JobRows) /\ DOMAIN jobs' = DOMAIN jobs
         /\ jobs'[i].status = c /\ jobs'[i].waiting = jobs[i].waiting
         /\ jobs'[i].gone = jobs[i].gone /\ jobs'[i].lost = jobs[i].lost
         /\ \A j \in DOMAIN jobs : j # i => jobs'[j] = jobs[j]
         /\ SameJobs(jobs')
<1>1. jobs[i] \in JobRows BY DEF DeskTypes
<1>2. PICK v \in JobRows : v = [jobs[i] EXCEPT !.status = c] BY <1>1 DEF JobRows
<1>3. /\ v.type = jobs[i].type /\ v.episode = jobs[i].episode
      /\ v.script = jobs[i].script /\ v.lost = jobs[i].lost
      /\ v.status = c /\ v.waiting = jobs[i].waiting /\ v.gone = jobs[i].gone
  BY <1>1, <1>2 DEF JobRows
<1>4. jobs' = [jobs EXCEPT ![i] = v] BY <1>2
<1>5. QED BY <1>3, <1>4, ChangedJob

\* CancelActive: a job is cancelled, or not.
LEMMA CancelKeeps ==
  ASSUME DeskInv, NEW o \in Staff, CancelActive(o)
  PROVE  DeskInv'
<1>1. desk[o].pc = "cancel" /\ desk[o].item \in DOMAIN jobs
  BY DEF CancelActive, At, DeskInv, RequestsFit, RequestFits
<1>2. /\ desk' = [desk EXCEPT ![o] = Answered]
      /\ deskSite' = deskSite /\ selected' = selected /\ episodes' = episodes
      /\ scripts' = scripts /\ hand' = hand
  BY DEF CancelActive, Answer, Then
<1>3. CASE jobs' = jobs
  BY <1>1, <1>2, <1>3, RequestTyped, RestingRequest DEF DeskInv, DeskTypes, SameJobs
<1>4. CASE jobs' = [jobs EXCEPT ![desk[o].item].status = "cancelled"]
  <2>1. /\ jobs' \in Seq(JobRows) /\ DOMAIN jobs' = DOMAIN jobs
        /\ SameJobs(jobs')
    BY <1>1, <1>4, CancelledJob DEF DeskInv
  <2>2. QED BY <1>1, <1>2, <2>1, RequestTyped, RestingRequest
<1>5. QED BY <1>3, <1>4 DEF CancelActive

\* DeleteFailedJob: a job that has failed is deleted.
LEMMA ClearKeeps ==
  ASSUME DeskInv, NEW o \in Staff, DeleteFailedJob(o)
  PROVE  DeskInv'
<1>1. PICK i \in DOMAIN jobs : jobs' = [jobs EXCEPT ![i].gone = TRUE] BY DEF DeleteFailedJob
<1>2. /\ desk' = [desk EXCEPT ![o] = Answered] /\ desk[o].pc = "idle"
      /\ deskSite' = deskSite /\ selected' = selected /\ episodes' = episodes
      /\ scripts' = scripts /\ hand' = hand
  BY DEF DeleteFailedJob, Begin, Then, At
<1>3. jobs[i] \in JobRows BY DEF DeskInv, DeskTypes
<1>4. PICK v \in JobRows : v = [jobs[i] EXCEPT !.gone = TRUE] BY <1>3 DEF JobRows
<1>5. v.type = jobs[i].type /\ v.episode = jobs[i].episode /\ v.script = jobs[i].script
  BY <1>3, <1>4 DEF JobRows
<1>6. jobs' = [jobs EXCEPT ![i] = v] BY <1>1, <1>4
<1>7. /\ jobs' \in Seq(JobRows) /\ DOMAIN jobs' = DOMAIN jobs
      /\ SameJobs(jobs')
  BY <1>5, <1>6, ChangedJob DEF DeskInv
<1>8. QED BY <1>2, <1>7, RequestTyped, RestingRequest

\* The newest of some rows is one of them, and none is newer.
LEMMA NewestIn ==
  ASSUME NEW n \in Nat, NEW S \in SUBSET (1..n), S # {}
  PROVE  Newest(S) \in S /\ \A y \in S : y <= Newest(S)
<1> DEFINE R == {p \in Nat \X Nat : p[1] < p[2]}
           U == {n - y : y \in S}
<1>1. IsWellFoundedOn(R, Nat) BY NatLessThanWellFounded DEF OpToRel
<1>2. U \subseteq Nat /\ U # {}
  <2>1. PICK y \in S : TRUE
    OBVIOUS
  <2>2. n - y \in U
    OBVIOUS
  <2>3. \A x \in U : x \in Nat
    OBVIOUS
  <2>4. QED BY <2>2, <2>3
<1>3. PICK x \in U : \A y \in U : ~ (<<y, x>> \in R)
  <2> HIDE DEF R, U
  <2>1. QED BY <1>1, <1>2, WFMin, Zenon
<1>4. PICK s \in S : x = n - s
  OBVIOUS
<1>5. ASSUME NEW y \in S PROVE s >= y
  <2>1. n - y \in U /\ n - y \in Nat /\ x \in Nat BY <1>2
  <2>2. <<n - y, x>> \notin R BY <2>1, <1>3
  <2>3. ~ (n - y < x) BY <2>1, <2>2
  <2>4. QED BY <1>4, <2>3
<1>6. Max(S) \in S /\ \A y \in S : Max(S) >= y BY <1>5 DEF Max
<1>7. QED BY <1>6 DEF Newest

\* Newest, as the operators of the model use it.
LEMMA NewestNone ==
  ASSUME NEW n \in Nat, NEW S \in SUBSET (1..n), Newest(S) # 0
  PROVE  Newest(S) \in S
<1>1. S # {} BY DEF Newest
<1>2. QED BY <1>1, NewestIn

\* The steps by which a request takes up a row.
LEMMA FindKeeps ==
  ASSUME DeskInv, NEW o \in Staff, FindActive(o)
  PROVE  DeskInv'
<1>1. /\ deskSite' = deskSite /\ selected' = selected /\ episodes' = episodes
      /\ scripts' = scripts
      /\ hand' = hand /\ jobs' = jobs /\ desk[o].pc = "active"
  BY DEF FindActive, At
<1>2. desk[o] \in RequestRows /\ jobs \in Seq(JobRows) BY DEF DeskInv, DeskTypes
<1>3. CASE desk' = [desk EXCEPT ![o] = Answered]
  BY <1>1, <1>2, <1>3, RequestTyped, RestingRequest DEF SameJobs
<1>4. CASE ActiveScriptJob # 0 /\ desk' # [desk EXCEPT ![o] = Answered]
  <2>1. ActiveScriptJob \in DOMAIN jobs
    <3>1. PICK ids : ids = {j \in DOMAIN jobs : /\ jobs[j].type = "script" /\ ~jobs[j].gone
                                                /\ jobs[j].status \in ACTIVE_JOB_STATUSES}
      OBVIOUS
    <3>2. ids \in SUBSET (1..Len(jobs)) /\ Len(jobs) \in Nat BY <1>2, <3>1
    <3>3. ActiveScriptJob = Newest(ids) BY <3>1 DEF ActiveScriptJob
    <3>4. ids \subseteq DOMAIN jobs /\ Newest(ids) # 0 BY <1>4, <3>1, <3>3
    <3>5. Newest(ids) \in ids BY <3>2, <3>4, NewestNone
    <3>6. QED BY <3>3, <3>4, <3>5
  <2>2. PICK i, c : i = ActiveScriptJob /\ c = jobs[i].status
    OBVIOUS
  <2>3. i \in DOMAIN jobs /\ i \in Nat /\ c \in {"queued", "running", "retrying", "succeeded", "failed", "cancelled"}
    <3>1. jobs[i] \in JobRows /\ i \in Nat BY <2>1, <2>2, <1>2
    <3>2. QED BY <3>1, <2>1, <2>2 DEF JobRows
  <2>4. PICK r \in RequestRows : r = [desk[o] EXCEPT !.pc = "cancel", !.item = i, !.status = c]
    BY <2>3, <1>2 DEF RequestRows
  <2>5. r.pc = "cancel" /\ r.item = i /\ r.form = desk[o].form /\ r.scope = desk[o].scope
    BY <2>4, <1>2 DEF RequestRows
  <2>6. desk' = [desk EXCEPT ![o] = r] BY <1>4, <2>2, <2>4 DEF FindActive, Answer, Then
  <2>7. RequestFits(r, selected, episodes, jobs, scripts)
    BY <2>3, <2>5 DEF DeskInv, RequestsFit, RequestFits, Holds, Makes, Chosen
  <2>8. ~Makes(r) /\ \A e : ~Links(r, e) /\ ~Links(desk[o], e) BY <1>1, <2>5 DEF Makes, Holds, Links
  <2>9. QED BY <1>1, <1>2, <2>6, <2>7, <2>8, QuietRequest DEF SameJobs
<1>5. QED BY <1>3, <1>4 DEF FindActive, Answer, Then

\* OpenStudio: the newest usable script is looked up.
LEMMA OpenKeeps ==
  ASSUME DeskInv, NEW o \in Staff, OpenStudio(o)
  PROVE  DeskInv'
<1>1. /\ deskSite' = deskSite /\ selected' = selected /\ episodes' = episodes
      /\ scripts' = scripts
      /\ hand' = hand /\ jobs' = jobs /\ desk[o].pc = "idle"
  BY DEF OpenStudio, Begin, At
<1>2. desk[o] \in RequestRows /\ jobs \in Seq(JobRows) /\ scripts \in Seq(ScriptRows)
  BY DEF DeskInv, DeskTypes
<1>3. PICK e \in ThereAre :
         /\ LatestUsable(e) # 0
         /\ desk' = [desk EXCEPT ![o] = [NoRequest EXCEPT !.pc = "studio", !.item = LatestUsable(e)]]
  BY DEF OpenStudio, Begin, Then
<1>4. LatestUsable(e) \in DOMAIN scripts
  <2>1. {s \in ScriptsOf(e) : Usable(s)} \in SUBSET (1..Len(scripts)) /\ Len(scripts) \in Nat
    BY <1>2 DEF ScriptsOf
  <2>2. QED BY <1>2, <1>3, <2>1, NewestNone DEF LatestUsable
<1>5. PICK i \in Nat : i = LatestUsable(e) BY <1>2, <1>4
<1>6. PICK r \in RequestRows : r = [NoRequest EXCEPT !.pc = "studio", !.item = i]
  BY RequestTyped DEF RequestRows
<1>7. r.pc = "studio" /\ r.item = i /\ r.form = {} BY <1>6, RequestTyped DEF RequestRows
<1>8. RequestFits(r, selected, episodes, jobs, scripts)
  BY <1>4, <1>5, <1>7 DEF RequestFits, Holds, Makes, Chosen
<1>9. ~Makes(r) /\ \A x : ~Links(r, x) /\ ~Links(desk[o], x) BY <1>1, <1>7 DEF Makes, Holds, Links
<1>10. QED BY <1>1, <1>2, <1>3, <1>5, <1>6, <1>8, <1>9, QuietRequest DEF SameJobs

\* GenerateAudio: audio is asked for, of a script that is usable.
LEMMA AudioKeeps ==
  ASSUME DeskInv, NEW o \in Staff, GenerateAudio(o)
  PROVE  DeskInv'
<1>1. /\ deskSite' = deskSite /\ selected' = selected /\ episodes' = episodes
      /\ scripts' = scripts
      /\ hand' = hand /\ desk[o].pc = "studio"
      /\ desk' = [desk EXCEPT ![o] = Answered]
  BY DEF GenerateAudio, At, Answer, Then
<1>2. PICK s : s = desk[o].item
  OBVIOUS
<1>3. s \in DOMAIN scripts /\ scripts[s] \in ScriptRows /\ ScriptFits(scripts[s], episodes) /\ s \in Nat
  <2>1. s \in DOMAIN scripts BY <1>1, <1>2 DEF DeskInv, RequestsFit, RequestFits
  <2>2. QED BY <2>1 DEF DeskInv, DeskTypes, ScriptsFit
<1>4. CASE jobs' = jobs
  BY <1>1, <1>4, RequestTyped, RestingRequest DEF DeskInv, DeskTypes, SameJobs
<1>5. CASE Usable(s) /\ jobs' = Append(jobs, Job("audio", scripts[s].episode, s))
  <2>1. scripts[s].status = "ready" /\ scripts[s].episode \in Nat /\ scripts[s].episode \in DOMAIN episodes
    BY <1>3, <1>5 DEF Usable, ScriptRows, ScriptFits
  <2>2. JobFits(Job("audio", scripts[s].episode, s), episodes, scripts)
    BY <1>3, <2>1 DEF JobFits, Job
  <2>3. /\ jobs' \in Seq(JobRows) /\ DOMAIN jobs \subseteq DOMAIN jobs'
        /\ SameJobs(jobs')
        /\ \A j \in DOMAIN jobs' : j \in DOMAIN jobs \/ JobFits(jobs'[j], episodes, scripts)
    BY <1>3, <1>5, <2>1, <2>2, NewJob DEF DeskInv
  <2>4. QED BY <1>1, <2>3, RequestTyped, RestingRequest
<1>6. QED BY <1>2, <1>4, <1>5 DEF GenerateAudio

-----------------------------------------------------------------------------
(* Requests that write flags and links.                                    *)

\* The steps that write an episode, an article or a flag, seen by the others.
LEMMA OthersWait ==
  ASSUME DeskInv, NEW o, NEW p \in Staff, p # o, NEW r2, NEW sel2, NEW E2, NEW S2,
         Unmoved(r2, desk[p]), r2.alone => sel2 = selected,
         DOMAIN episodes \subseteq DOMAIN E2, DOMAIN scripts \subseteq DOMAIN S2,
         \A e \in DOMAIN episodes :
           /\ episodes[e].gone => E2[e].gone
           /\ episodes[e].resaved => E2[e].resaved,
         \A e \in DOMAIN episodes : Makes(desk[p]) /\ desk[p].item = e =>
           /\ E2[e].asked = episodes[e].asked
           /\ \/ E2[e].links = episodes[e].links \/ (E2[e].gone /\ E2[e].links = {})
              \/ E2[e].resaved,
         \A e \in DOMAIN episodes : r2.alone => E2[e].links = episodes[e].links \/ E2[e].gone
  PROVE  RequestFits(r2, sel2, E2, jobs, S2)
<1>1. RequestFits(desk[p], selected, episodes, jobs, scripts) BY DEF DeskInv, RequestsFit
<1>2. QED BY <1>1, StillFits

\* What one person writes; the others notice when it is flags or links.
LEMMA DeskAfter ==
  ASSUME DeskTypes, NEW o \in Staff, NEW r \in RequestRows, Then(o, r) \/ ThenDisturbing(o, r)
  PROVE  /\ desk' \in [Staff -> RequestRows] /\ desk'[o] = r
         /\ \A p \in Staff : p # o =>
              /\ Unmoved(desk'[p], desk[p])
              /\ Makes(desk'[p]) = Makes(desk[p]) /\ desk'[p].item = desk[p].item
              /\ \A e : Links(desk'[p], e) = Links(desk[p], e)
              /\ ThenDisturbing(o, r) => desk'[p].alone = FALSE
<1>1. \A p \in Staff : desk[p] \in RequestRows /\ [desk[p] EXCEPT !.alone = FALSE] \in RequestRows
  BY DEF DeskTypes, RequestRows
<1>2. ASSUME NEW p \in Staff, NEW d, d = [desk[p] EXCEPT !.alone = FALSE]
      PROVE  d.alone = FALSE /\ Unmoved(d, desk[p])
  BY <1>1, <1>2 DEF RequestRows, Unmoved
<1>3. CASE Then(o, r) /\ ~ThenDisturbing(o, r) BY <1>1, <1>3 DEF Then, DeskTypes, Unmoved
<1>4. CASE ThenDisturbing(o, r)
  <2>1. desk' = [p \in Staff |-> IF p = o THEN r ELSE [desk[p] EXCEPT !.alone = FALSE]]
    BY <1>4 DEF ThenDisturbing
  <2>2. desk' \in [Staff -> RequestRows] /\ desk'[o] = r BY <1>1, <2>1
  <2>3. ASSUME NEW p \in Staff, p # o
        PROVE  desk'[p].alone = FALSE /\ Unmoved(desk'[p], desk[p])
    BY <2>1, <2>3, <1>2
  <2>4. QED BY <2>2, <2>3 DEF Makes, Holds, Links, Unmoved
<1>5. QED BY <1>3, <1>4

\* ReadFlags: the flags that are to be written.
LEMMA ReadFlagsKeeps ==
  ASSUME DeskInv, NEW o \in Staff, ReadFlags(o)
  PROVE  DeskInv'
<1>1. /\ deskSite' = deskSite /\ selected' = selected /\ episodes' = episodes
      /\ scripts' = scripts
      /\ hand' = hand /\ jobs' = jobs /\ desk[o].pc = "flags"
  BY DEF ReadFlags, At
<1>2. desk[o] \in RequestRows /\ jobs \in Seq(JobRows) /\ selected \in SUBSET Articles
  BY DEF DeskInv, DeskTypes
<1>3. PICK T, s : T = Unequal(desk[o].form, desk[o].scope) /\ s = selected
  OBVIOUS
<1>4. T \in SUBSET Articles /\ T \subseteq desk[o].scope /\ s \in SUBSET Articles
  BY <1>2, <1>3 DEF Unequal, RequestRows
<1>5. PICK r \in RequestRows :
        r = [desk[o] EXCEPT !.pc = "save", !.todo = T, !.before = s, !.alone = TRUE]
  BY <1>2, <1>4 DEF RequestRows
<1>6. /\ r.pc = "save" /\ r.todo = T /\ r.before = s /\ r.form = desk[o].form
      /\ r.scope = desk[o].scope /\ r.status = desk[o].status
  BY <1>2, <1>5 DEF RequestRows
<1>7. desk' = [desk EXCEPT ![o] = r] BY <1>3, <1>5 DEF ReadFlags, Then
<1>8. desk[o].form \subseteq desk[o].scope /\ desk[o].status = ""
  BY <1>1 DEF DeskInv, RequestsFit, RequestFits
<1>9. Chosen(r, selected)
  <2>1. ASSUME NEW a \in Articles, a \notin T
        PROVE  a \in selected <=> a \in (s \ desk[o].scope) \cup desk[o].form
    BY <1>3, <1>8, <2>1 DEF Unequal
  <2>2. QED BY <1>4, <1>6, <2>1 DEF Chosen
<1>10. RequestFits(r, selected, episodes, jobs, scripts)
  BY <1>6, <1>8, <1>9 DEF RequestFits, Holds, Makes
<1>11. ~Makes(r) /\ \A e : ~Links(r, e) /\ ~Links(desk[o], e) BY <1>1, <1>6 DEF Makes, Holds, Links
<1>12. QED BY <1>1, <1>2, <1>7, <1>10, <1>11, QuietRequest DEF SameJobs

\* A step of a request that writes flags, or the episode it has in hand.
LEMMA WritingRequest ==
  ASSUME DeskInv, NEW o \in Staff, NEW r \in RequestRows, Then(o, r) \/ ThenDisturbing(o, r),
         deskSite' = deskSite, scripts' = scripts, hand' = hand, jobs' = jobs,
         selected' \in SUBSET Articles, selected' = selected \/ ThenDisturbing(o, r),
         episodes' \in Seq(EpisodeRows), DOMAIN episodes' = DOMAIN episodes,
         \A e \in DOMAIN episodes : e # desk[o].item => episodes'[e] = episodes[e],
         \A e \in DOMAIN episodes :
           /\ episodes'[e].gone <=> episodes[e].gone
           /\ episodes[e].resaved => episodes'[e].resaved
           /\ episodes'[e].asked = episodes[e].asked \/ Links(desk[o], e)
           /\ Makes(desk[o]) \/ episodes'[e].links = episodes[e].links \/ episodes'[e].resaved
           /\ episodes'[e].links = episodes[e].links \/ ThenDisturbing(o, r),
         RequestFits(r, selected', episodes', jobs, scripts),
         Makes(r) => Makes(desk[o]) /\ r.item = desk[o].item,
         \A e \in DOMAIN episodes : Links(r, e) => Links(desk[o], e),
         \A e \in DOMAIN episodes :
           \/ Complete(episodes'[e]) \/ Links(r, e)
           \/ episodes'[e] = episodes[e] /\ ~Links(desk[o], e)
  PROVE  DeskInv'
<1>1. /\ desk' \in [Staff -> RequestRows] /\ desk'[o] = r
      /\ \A p \in Staff : p # o =>
           /\ Unmoved(desk'[p], desk[p])
           /\ Makes(desk'[p]) = Makes(desk[p]) /\ desk'[p].item = desk[p].item
           /\ \A e : Links(desk'[p], e) = Links(desk[p], e)
           /\ ThenDisturbing(o, r) => desk'[p].alone = FALSE
  BY DeskAfter DEF DeskInv
<1>2. DeskTypes' BY <1>1, DeskTyped DEF DeskInv, DeskTypes
<1>3. ASSUME NEW p \in Staff PROVE RequestFits(desk'[p], selected', episodes', jobs, scripts)
  <2>1. CASE p = o BY <2>1, <1>1
  <2>2. CASE p # o
    <3>1. /\ Unmoved(desk'[p], desk[p])
          /\ desk'[p].alone => selected' = selected
      BY <2>2, <1>1
    <3>2. \A e \in DOMAIN episodes : Makes(desk[p]) /\ desk[p].item = e =>
            /\ episodes'[e].asked = episodes[e].asked
            /\ \/ episodes'[e].links = episodes[e].links
                  \/ (episodes'[e].gone /\ episodes'[e].links = {})
               \/ episodes'[e].resaved
      <4> SUFFICES ASSUME NEW e \in DOMAIN episodes, Makes(desk[p]), desk[p].item = e
                   PROVE  /\ episodes'[e].asked = episodes[e].asked
                          /\ episodes'[e].links = episodes[e].links \/ episodes'[e].resaved
        OBVIOUS
      <4>1. CASE e # desk[o].item BY <4>1
      <4>2. CASE e = desk[o].item
        <5>1. ~Makes(desk[o]) BY <2>2, <4>2 DEF DeskInv, RequestsFit, Apart
        <5>2. ~Links(desk[o], e) BY <5>1 DEF Links, Makes, Holds
        <5>3. QED BY <5>1, <5>2
      <4>3. QED BY <4>1, <4>2
    <3>3. \A e \in DOMAIN episodes :
            desk'[p].alone => episodes'[e].links = episodes[e].links \/ episodes'[e].gone
      BY <2>2, <1>1
    <3>4. /\ DOMAIN episodes \subseteq DOMAIN episodes'
          /\ DOMAIN scripts \subseteq DOMAIN scripts
          /\ \A e \in DOMAIN episodes :
               /\ episodes[e].gone => episodes'[e].gone
               /\ episodes[e].resaved => episodes'[e].resaved
      OBVIOUS
    <3>5. QED BY <2>2, <3>1, <3>2, <3>3, <3>4, OthersWait
  <2>3. QED BY <2>1, <2>2
<1>4. Apart(desk')
  <2>1. Apart(desk) BY DEF DeskInv, RequestsFit
  <2>2. \A p \in Staff : Makes(desk'[p]) => Makes(desk[p]) /\ desk'[p].item = desk[p].item BY <1>1
  <2>3. QED BY <2>1, <2>2, StillApart
<1>5. AllComplete(episodes', desk') BY <1>1 DEF DeskInv, RequestsFit, AllComplete
<1>6. \A p \in Staff, e \in DOMAIN episodes : Links(desk'[p], e) => Links(desk[p], e) BY <1>1
<1>7. /\ \A s \in DOMAIN scripts :
           /\ ScriptFits(scripts[s], episodes')
           /\ \A p \in Staff : Links(desk'[p], scripts[s].episode) => scripts[s].early
      /\ \A j \in DOMAIN jobs : JobFits(jobs[j], episodes', scripts)
      /\ \A h \in Hands : HandFits(hand[h], episodes', jobs, scripts)
      /\ OwnScripts(hand, jobs, scripts)
  <2>1. \A j \in DOMAIN jobs : JobFits(jobs[j], episodes', scripts)
    BY DEF DeskInv, ScriptsFit, JobFits
  <2>2. QED BY <1>6, <2>1, DeskSideKeeps DEF SameJobs
<1>8. QED BY <1>2, <1>3, <1>4, <1>5, <1>7, DeskInvNext

\* SaveFlag: a flag is written, or the newest draft looked up.
LEMMA SaveFlagKeeps ==
  ASSUME DeskInv, NEW o \in Staff, SaveFlag(o)
  PROVE  DeskInv'
<1>1. /\ deskSite' = deskSite /\ episodes' = episodes /\ scripts' = scripts
      /\ hand' = hand /\ jobs' = jobs /\ desk[o].pc = "save"
  BY DEF SaveFlag, At
<1>2. /\ desk[o] \in RequestRows /\ selected \in SUBSET Articles
      /\ jobs \in Seq(JobRows)
      /\ episodes \in Seq(EpisodeRows)
  BY DEF DeskInv, DeskTypes
<1>3. /\ desk[o].form \subseteq desk[o].scope /\ desk[o].status = ""
      /\ desk[o].alone => Chosen(desk[o], selected)
  BY <1>1 DEF DeskInv, RequestsFit, RequestFits
<1>4. \A e : ~Links(desk[o], e) BY <1>1 DEF Links
<1>5. CASE desk[o].todo # {}
  <2>1. PICK a \in desk[o].todo :
          /\ selected' = IF a \in desk[o].form THEN selected \cup {a} ELSE selected \ {a}
          /\ ThenDisturbing(o, [desk[o] EXCEPT !.todo = @ \ {a}])
    BY <1>5 DEF SaveFlag
  <2>2. a \in Articles BY <1>2 DEF RequestRows
  <2>3. PICK T \in SUBSET Articles : T = desk[o].todo \ {a} BY <1>2 DEF RequestRows
  <2>4. PICK r \in RequestRows : r = [desk[o] EXCEPT !.todo = T] BY <1>2 DEF RequestRows
  <2>5. /\ r.pc = "save" /\ r.todo = T /\ r.before = desk[o].before
        /\ r.form = desk[o].form
        /\ r.scope = desk[o].scope /\ r.status = desk[o].status
        /\ r.alone = desk[o].alone
    BY <1>1, <1>2, <2>4 DEF RequestRows
  <2>6. ThenDisturbing(o, r) BY <2>1, <2>3, <2>4
  <2>7. selected' \in SUBSET Articles BY <1>2, <2>1, <2>2
  <2>8. ASSUME r.alone PROVE Chosen(r, selected')
    <3>1. /\ desk[o].todo \subseteq desk[o].scope
          /\ \A b \in Articles : b \notin desk[o].todo =>
               (b \in selected <=> b \in (desk[o].before \ desk[o].scope) \cup desk[o].form)
      BY <1>1, <1>3, <2>5, <2>8 DEF Chosen
    <3>2. ASSUME NEW b \in Articles, b \notin T
          PROVE  b \in selected' <=> b \in (desk[o].before \ desk[o].scope) \cup desk[o].form
      <4>1. CASE b = a BY <2>1, <3>1, <4>1
      <4>2. CASE b # a BY <2>1, <2>3, <3>1, <3>2, <4>2
      <4>3. QED BY <4>1, <4>2
    <3>3. QED BY <2>3, <2>5, <3>1, <3>2 DEF Chosen
  <2>9. RequestFits(r, selected', episodes, jobs, scripts)
    BY <1>3, <2>5, <2>8 DEF RequestFits, Holds, Makes
  <2>10. ~Makes(r) /\ \A e : ~Links(r, e) BY <2>5 DEF Makes, Holds, Links
  <2>11. QED BY <1>1, <1>2, <1>4, <2>6, <2>7, <2>9, <2>10, WritingRequest
<1>6. CASE desk[o].todo = {} /\ DraftEpisode = 0
  <2>1. desk' = [desk EXCEPT ![o] = Answered] /\ selected' = selected
    BY <1>6 DEF SaveFlag, Answer, Then
  <2>2. QED BY <1>1, <1>2, <2>1, RequestTyped, RestingRequest DEF SameJobs
<1>7. CASE desk[o].todo = {} /\ DraftEpisode # 0
  <2>1. desk' = [desk EXCEPT ![o] = [desk[o] EXCEPT !.pc = "sync", !.item = DraftEpisode]]
        /\ selected' = selected
    BY <1>7 DEF SaveFlag, Then
  <2>2. DraftEpisode \in DOMAIN episodes
    <3>1. PICK ids : ids = {e \in ThereAre : episodes[e].status \in {"draft", "collecting"}}
      OBVIOUS
    <3>2. ids \in SUBSET (1..Len(episodes)) /\ Len(episodes) \in Nat BY <1>2, <3>1 DEF ThereAre
    <3>3. ids \subseteq DOMAIN episodes /\ DraftEpisode = Newest(ids)
      BY <3>1 DEF ThereAre, DraftEpisode
    <3>4. Newest(ids) \in ids BY <1>7, <3>2, <3>3, NewestNone
    <3>5. QED BY <3>3, <3>4
  <2>3. PICK i \in Nat : i = DraftEpisode BY <1>2, <2>2
  <2>4. PICK r \in RequestRows : r = [desk[o] EXCEPT !.pc = "sync", !.item = i]
    BY <1>2 DEF RequestRows
  <2>5. /\ r.pc = "sync" /\ r.item = i /\ r.before = desk[o].before
        /\ r.form = desk[o].form
        /\ r.scope = desk[o].scope /\ r.status = desk[o].status
        /\ r.alone = desk[o].alone
    BY <1>2, <2>4 DEF RequestRows
  <2>6. ASSUME r.alone PROVE Chosen(r, selected)
    <3>1. \A b \in Articles :
            b \in selected <=> b \in (desk[o].before \ desk[o].scope) \cup desk[o].form
      BY <1>1, <1>3, <1>7, <2>5, <2>6 DEF Chosen
    <3>2. (desk[o].before \ desk[o].scope) \cup desk[o].form \in SUBSET Articles
      BY <1>2 DEF RequestRows
    <3>3. selected = (desk[o].before \ desk[o].scope) \cup desk[o].form BY <1>2, <3>1, <3>2
    <3>4. QED BY <2>5, <3>3 DEF Chosen
  <2>7. RequestFits(r, selected, episodes, jobs, scripts)
    BY <1>3, <2>2, <2>3, <2>5, <2>6 DEF RequestFits, Holds, Makes, Drafted
  <2>8. ~Makes(r) /\ \A e : ~Links(r, e) BY <1>3, <2>5 DEF Makes, Links
  <2>9. desk' = [desk EXCEPT ![o] = r] BY <2>1, <2>3, <2>4
  <2>10. QED BY <1>1, <1>2, <1>4, <2>1, <2>7, <2>8, <2>9, QuietRequest DEF SameJobs
<1>8. QED BY <1>5, <1>6, <1>7

\* An episode whose links are written for a person.
LEMMA RelinkedIs ==
  ASSUME DeskTypes, NEW o \in Staff, NEW e \in DOMAIN episodes, e = desk[o].item,
         NEW L \in SUBSET Articles, episodes' = Relinked(o, L)
  PROVE  /\ episodes' \in Seq(EpisodeRows) /\ DOMAIN episodes' = DOMAIN episodes
         /\ \A i \in DOMAIN episodes : i # e => episodes'[i] = episodes[i]
         /\ episodes'[e].links = L /\ episodes'[e].asked = episodes[e].asked
         /\ (episodes'[e].gone <=> episodes[e].gone)
         /\ (episodes'[e].resaved <=> episodes[e].resaved \/ desk[o].status # "new")
         /\ episodes'[e].status = episodes[e].status
         /\ episodes'[e].stranded = episodes[e].stranded
<1>1. episodes[e] \in EpisodeRows BY DEF DeskTypes
<1>2. PICK b \in BOOLEAN : b = (episodes[e].resaved \/ ~Asking(o)) BY <1>1 DEF EpisodeRows
<1>3. PICK v \in EpisodeRows : v = [episodes[e] EXCEPT !.links = L, !.resaved = b]
  BY <1>1 DEF EpisodeRows
<1>4. /\ v.links = L /\ v.resaved = b /\ v.asked = episodes[e].asked
      /\ v.gone = episodes[e].gone
      /\ v.status = episodes[e].status /\ v.stranded = episodes[e].stranded
  BY <1>1, <1>3 DEF EpisodeRows
<1>5. episodes' = [episodes EXCEPT ![e] = v]
  <2>1. episodes' = [episodes EXCEPT ![e] = [episodes[e] EXCEPT !.links = L, !.resaved = b]]
    BY <1>2, Zenon DEF Relinked, SyncTarget
  <2>2. QED BY <2>1, <1>3
<1>6. b <=> episodes[e].resaved \/ desk[o].status # "new" BY <1>2 DEF Asking
<1>7. /\ episodes' \in Seq(EpisodeRows) /\ DOMAIN episodes' = DOMAIN episodes
      /\ episodes'[e] = v
      /\ \A i \in DOMAIN episodes : i # e => episodes'[i] = episodes[i]
  BY <1>5, Replaced DEF DeskTypes
<1>8. QED BY <1>4, <1>6, <1>7

\* What a request with an episode in hand knows.
LEMMA HoldingKnows ==
  ASSUME DeskInv, NEW o \in Staff, Holds(desk[o])
  PROVE  /\ desk[o] \in RequestRows /\ desk[o].item \in DOMAIN episodes
         /\ episodes[desk[o].item] \in EpisodeRows
         /\ desk[o].form \subseteq desk[o].scope
         /\ desk[o].status = "new" => Asked(desk[o], episodes[desk[o].item])
         /\ desk[o].alone /\ desk[o].status # "new" =>
              Chosen(desk[o], selected) /\ Drafted(desk[o], episodes[desk[o].item])
<1>1. RequestFits(desk[o], selected, episodes, jobs, scripts) BY DEF DeskInv, RequestsFit
<1>2. desk[o].item \in DOMAIN episodes BY <1>1 DEF RequestFits
<1>3. episodes[desk[o].item] \in EpisodeRows /\ desk[o] \in RequestRows
  BY <1>2 DEF DeskInv, DeskTypes
<1>4. QED BY <1>1, <1>2, <1>3 DEF RequestFits, Makes

\* ReadSelected: what is selected is read, and noted for a new episode.
LEMMA ReadSelectedKeeps ==
  ASSUME DeskInv, NEW o \in Staff, ReadSelected(o)
  PROVE  DeskInv'
<1>1. /\ deskSite' = deskSite /\ selected' = selected /\ scripts' = scripts
      /\ hand' = hand /\ jobs' = jobs /\ desk[o].pc = "sync"
  BY DEF ReadSelected, At
<1>2. PICK e, s : e = desk[o].item /\ s = selected
  OBVIOUS
<1>3. /\ desk[o] \in RequestRows /\ e \in DOMAIN episodes
      /\ episodes[e] \in EpisodeRows
      /\ desk[o].form \subseteq desk[o].scope
      /\ desk[o].status = "new" => Asked(desk[o], episodes[e])
      /\ desk[o].alone /\ desk[o].status # "new" => Chosen(desk[o], selected)
  BY <1>1, <1>2, HoldingKnows DEF Holds
<1>4. s \in SUBSET Articles /\ episodes \in Seq(EpisodeRows) BY <1>2 DEF DeskInv, DeskTypes
<1>5. PICK r \in RequestRows : r = [desk[o] EXCEPT !.pc = "unlink", !.found = s]
  BY <1>3, <1>4 DEF RequestRows
<1>6. /\ r.pc = "unlink" /\ r.item = e /\ r.before = desk[o].before
      /\ r.form = desk[o].form
      /\ r.scope = desk[o].scope /\ r.status = desk[o].status
      /\ r.alone = desk[o].alone
      /\ r.found = s
  BY <1>2, <1>3, <1>5 DEF RequestRows
<1>7. Then(o, r) BY <1>2, <1>5 DEF ReadSelected
<1>8. /\ episodes' \in Seq(EpisodeRows) /\ DOMAIN episodes' = DOMAIN episodes
      /\ \A i \in DOMAIN episodes : i # e => episodes'[i] = episodes[i]
      /\ episodes'[e].links = episodes[e].links /\ (episodes'[e].gone <=> episodes[e].gone)
      /\ (episodes'[e].resaved <=> episodes[e].resaved)
      /\ IF desk[o].status = "new" THEN episodes'[e].asked = s ELSE episodes' = episodes
  <2>1. CASE desk[o].status = "new"
    <3>1. PICK v \in EpisodeRows : v = [episodes[e] EXCEPT !.asked = s]
      BY <1>3, <1>4 DEF EpisodeRows
    <3>2. /\ v.links = episodes[e].links /\ v.resaved = episodes[e].resaved
          /\ v.asked = s
          /\ v.gone = episodes[e].gone
      BY <1>3, <3>1 DEF EpisodeRows
    <3>3. episodes' = [episodes EXCEPT ![e] = v] BY <1>2, <2>1, <3>1 DEF ReadSelected, Asking
    <3>4. /\ episodes' \in Seq(EpisodeRows)
          /\ DOMAIN episodes' = DOMAIN episodes /\ episodes'[e] = v
          /\ \A i \in DOMAIN episodes : i # e => episodes'[i] = episodes[i]
      BY <1>3, <1>4, <3>3, Replaced
    <3>5. QED BY <2>1, <3>2, <3>4
  <2>2. CASE desk[o].status # "new" BY <1>4, <2>2 DEF ReadSelected, Asking
  <2>3. QED BY <2>1, <2>2
<1>9. RequestFits(r, selected, episodes', jobs, scripts)
  <2>1. Makes(r) => Asked(r, episodes'[e]) BY <1>1, <1>3, <1>6, <1>8 DEF Makes, Asked
  <2>2. r.alone /\ r.status # "new" => Chosen(r, selected) BY <1>1, <1>2, <1>3, <1>6 DEF Chosen
  <2>3. QED BY <1>3, <1>6, <1>8, <2>1, <2>2 DEF RequestFits, Drafted
<1>10. /\ Makes(r) => Makes(desk[o]) /\ r.item = desk[o].item
       /\ \A x : Links(r, x) <=> Links(desk[o], x)
  BY <1>1, <1>2, <1>6 DEF Makes, Holds, Links
<1>11. \A x \in DOMAIN episodes :
         /\ episodes'[x].gone <=> episodes[x].gone
         /\ episodes[x].resaved => episodes'[x].resaved
         /\ episodes'[x].asked = episodes[x].asked \/ Links(desk[o], x)
         /\ episodes'[x].links = episodes[x].links
  BY <1>1, <1>2, <1>8 DEF Links
<1>12. \A x \in DOMAIN episodes : Links(r, x) \/ (episodes'[x] = episodes[x] /\ ~Links(desk[o], x))
  BY <1>2, <1>6, <1>8, <1>10 DEF Links
<1>13. QED BY <1>1, <1>2, <1>4, <1>7, <1>8, <1>9, <1>10, <1>11, <1>12, WritingRequest

\* Unlink: the links to articles that are not selected go.
LEMMA UnlinkKeeps ==
  ASSUME DeskInv, NEW o \in Staff, Unlink(o)
  PROVE  DeskInv'
<1>1. /\ deskSite' = deskSite /\ selected' = selected /\ scripts' = scripts
      /\ hand' = hand /\ jobs' = jobs /\ desk[o].pc = "unlink"
  BY DEF Unlink, At
<1>2. PICK e, f, L : e = desk[o].item /\ f = desk[o].found /\ L = episodes[e].links \cap f
  OBVIOUS
<1>3. /\ desk[o] \in RequestRows /\ e \in DOMAIN episodes
      /\ episodes[e] \in EpisodeRows
      /\ desk[o].form \subseteq desk[o].scope
      /\ desk[o].status = "new" => Asked(desk[o], episodes[e])
      /\ desk[o].alone /\ desk[o].status # "new" => Chosen(desk[o], selected)
  BY <1>1, <1>2, HoldingKnows DEF Holds
<1>4. /\ f \in SUBSET Articles /\ L \in SUBSET Articles /\ DeskTypes
      /\ selected \in SUBSET Articles
  BY <1>2, <1>3 DEF DeskInv, DeskTypes, RequestRows
<1>5. PICK r \in RequestRows : r = [desk[o] EXCEPT !.pc = "link", !.todo = f]
  BY <1>3, <1>4 DEF RequestRows
<1>6. /\ r.pc = "link" /\ r.item = e /\ r.before = desk[o].before
      /\ r.form = desk[o].form
      /\ r.scope = desk[o].scope /\ r.status = desk[o].status
      /\ r.alone = desk[o].alone
      /\ r.found = f /\ r.todo = f
  BY <1>2, <1>3, <1>5 DEF RequestRows
<1>7. ThenDisturbing(o, r) /\ episodes' = Relinked(o, L) BY <1>2, <1>5 DEF Unlink, SyncTarget
<1>8. /\ episodes' \in Seq(EpisodeRows) /\ DOMAIN episodes' = DOMAIN episodes
      /\ \A i \in DOMAIN episodes : i # e => episodes'[i] = episodes[i]
      /\ episodes'[e].links = L /\ episodes'[e].asked = episodes[e].asked
      /\ (episodes'[e].gone <=> episodes[e].gone)
      /\ (episodes'[e].resaved <=> episodes[e].resaved \/ desk[o].status # "new")
  <2>1. DeskTypes /\ e \in DOMAIN episodes /\ e = desk[o].item /\ L \in SUBSET Articles
        /\ episodes' = Relinked(o, L)
    BY <1>2, <1>3, <1>4, <1>7
  <2>2. QED BY <2>1, RelinkedIs
<1>9. RequestFits(r, selected, episodes', jobs, scripts)
  <2>1. Makes(r) => Asked(r, episodes'[e])
    <3> SUFFICES ASSUME Makes(r) PROVE Asked(r, episodes'[e])
      OBVIOUS
    <3>1. /\ episodes[e].resaved \/ episodes[e].links = {}
          /\ desk[o].found = episodes[e].asked
      BY <1>1, <1>3, <1>6 DEF Makes, Asked
    <3>2. episodes'[e].resaved \/ episodes'[e].links = f \ f BY <1>2, <1>8, <3>1
    <3>3. QED BY <1>2, <1>6, <1>8, <3>1, <3>2 DEF Asked
  <2>2. r.alone /\ r.status # "new" => Chosen(r, selected) BY <1>1, <1>2, <1>3, <1>6 DEF Chosen
  <2>3. Drafted(r, episodes'[e]) BY <1>2, <1>6, <1>8 DEF Drafted
  <2>4. QED BY <1>3, <1>6, <1>8, <2>1, <2>2, <2>3 DEF RequestFits
<1>10. /\ Makes(r) => Makes(desk[o]) /\ r.item = desk[o].item
       /\ \A x : Links(r, x) <=> Links(desk[o], x)
       /\ Makes(desk[o]) <=> desk[o].status = "new"
  BY <1>1, <1>2, <1>6 DEF Makes, Holds, Links
<1>11. \A x \in DOMAIN episodes :
         /\ episodes'[x].gone <=> episodes[x].gone
         /\ episodes[x].resaved => episodes'[x].resaved
         /\ episodes'[x].asked = episodes[x].asked
         /\ Makes(desk[o]) \/ episodes'[x].links = episodes[x].links \/ episodes'[x].resaved
  BY <1>8, <1>10
<1>12. \A x \in DOMAIN episodes :
         \/ Complete(episodes'[x]) \/ Links(r, x)
         \/ (episodes'[x] = episodes[x] /\ ~Links(desk[o], x))
  BY <1>2, <1>6, <1>8, <1>10 DEF Links, Complete
<1>13. QED BY <1>1, <1>2, <1>4, <1>7, <1>8, <1>9, <1>10, <1>11, <1>12, WritingRequest

\* Link: an article is linked, or the request is done with its episode.
LEMMA LinkKeeps ==
  ASSUME DeskInv, NEW o \in Staff, Link(o)
  PROVE  DeskInv'
<1>1. /\ deskSite' = deskSite /\ selected' = selected /\ scripts' = scripts
      /\ hand' = hand /\ jobs' = jobs /\ desk[o].pc = "link"
  BY DEF Link, At
<1>2. PICK e, T : e = desk[o].item /\ T = desk[o].todo
  OBVIOUS
<1>3. /\ desk[o] \in RequestRows /\ e \in DOMAIN episodes
      /\ episodes[e] \in EpisodeRows
      /\ desk[o].form \subseteq desk[o].scope
      /\ desk[o].status = "new" => Asked(desk[o], episodes[e])
      /\ desk[o].alone /\ desk[o].status # "new" =>
           Chosen(desk[o], selected) /\ Drafted(desk[o], episodes[e])
  BY <1>1, <1>2, HoldingKnows DEF Holds
<1>4. /\ DeskTypes /\ selected \in SUBSET Articles /\ jobs \in Seq(JobRows)
      /\ T \in SUBSET Articles
  BY <1>2, <1>3 DEF DeskInv, DeskTypes, RequestRows
<1>5. /\ desk[o].status = "new" => Links(desk[o], e) /\ Makes(desk[o])
      /\ \A x : Links(desk[o], x) => x = e /\ desk[o].status = "new"
  BY <1>1, <1>2 DEF Links, Makes, Holds
<1>6. CASE T # {} /\ episodes[e].gone
  <2>1. desk' = [desk EXCEPT ![o] = Answered] /\ episodes' = episodes
    BY <1>2, <1>6 DEF Link, SyncTarget, Answer, Then
  <2>2. RequestFits(Answered, selected, episodes, jobs, scripts)
    BY RequestTyped DEF RequestFits, Holds, Makes, Chosen
  <2>3. ~Makes(Answered) /\ \A x : ~Links(Answered, x) BY RequestTyped DEF Makes, Holds, Links
  <2>4. Complete(episodes[e]) BY <1>6 DEF Complete
  <2>5. /\ Makes(Answered) => Makes(desk[o]) /\ Answered.item = desk[o].item
        /\ \A x \in DOMAIN episodes :
             /\ Links(Answered, x) => Links(desk[o], x)
             /\ Links(desk[o], x) => Links(Answered, x) \/ Complete(episodes[x])
    BY <1>5, <2>3, <2>4
  <2>6. /\ RequestFits(Answered, selected, episodes, jobs', scripts)
        /\ jobs' \in Seq(JobRows) /\ DOMAIN jobs \subseteq DOMAIN jobs'
        /\ SameJobs(jobs')
        /\ \A j \in DOMAIN jobs' : j \in DOMAIN jobs \/ JobFits(jobs'[j], episodes, scripts)
    BY <1>1, <1>4, <2>2 DEF SameJobs
  <2>7. QED BY <1>1, <2>1, <2>5, <2>6, RequestTyped, QuietRequest
<1>7. CASE T # {} /\ ~episodes[e].gone
  <2>1. PICK a \in T :
          /\ episodes' = Relinked(o, episodes[e].links \cup {a})
          /\ ThenDisturbing(o, [desk[o] EXCEPT !.todo = @ \ {a}])
    BY <1>2, <1>7 DEF Link, SyncTarget
  <2>2. PICK L, U : L = episodes[e].links \cup {a} /\ U = T \ {a}
    OBVIOUS
  <2>3. L \in SUBSET Articles /\ U \in SUBSET Articles /\ a \in Articles
    BY <1>3, <1>4, <2>1, <2>2 DEF EpisodeRows
  <2>4. PICK r \in RequestRows : r = [desk[o] EXCEPT !.todo = U] BY <1>3, <2>3 DEF RequestRows
  <2>5. /\ r.pc = "link" /\ r.item = e /\ r.before = desk[o].before
        /\ r.form = desk[o].form
        /\ r.scope = desk[o].scope /\ r.status = desk[o].status
        /\ r.alone = desk[o].alone
        /\ r.found = desk[o].found /\ r.todo = U
    BY <1>1, <1>2, <1>3, <2>4 DEF RequestRows
  <2>6. ThenDisturbing(o, r) /\ episodes' = Relinked(o, L) BY <1>2, <2>1, <2>2, <2>4
  <2>7. /\ episodes' \in Seq(EpisodeRows) /\ DOMAIN episodes' = DOMAIN episodes
        /\ \A i \in DOMAIN episodes : i # e => episodes'[i] = episodes[i]
        /\ episodes'[e].links = L /\ episodes'[e].asked = episodes[e].asked
        /\ (episodes'[e].gone <=> episodes[e].gone)
        /\ (episodes'[e].resaved <=> episodes[e].resaved \/ desk[o].status # "new")
    BY <1>2, <1>3, <1>4, <2>3, <2>6, RelinkedIs
  <2>8. RequestFits(r, selected, episodes', jobs, scripts)
    <3>1. Makes(r) => Asked(r, episodes'[e])
      <4> SUFFICES ASSUME Makes(r) PROVE Asked(r, episodes'[e])
        OBVIOUS
      <4>1. /\ T \subseteq desk[o].found /\ desk[o].found = episodes[e].asked
            /\ episodes[e].resaved \/ episodes[e].links = desk[o].found \ T
        BY <1>1, <1>2, <1>3, <1>7, <2>5 DEF Makes, Asked
      <4>2. episodes[e].resaved \/ L = desk[o].found \ U BY <2>1, <2>2, <4>1
      <4>3. QED BY <2>2, <2>5, <2>7, <4>1, <4>2 DEF Asked
    <3>2. r.alone /\ r.status # "new" => Chosen(r, selected) BY <1>1, <1>2, <1>3, <2>5 DEF Chosen
    <3>3. r.alone /\ r.status # "new" => Drafted(r, episodes'[e])
      <4> SUFFICES ASSUME r.alone, r.status # "new" PROVE Drafted(r, episodes'[e])
        OBVIOUS
      <4>1. episodes[e].links \cup T = desk[o].found BY <1>1, <1>2, <1>3, <1>7, <2>5 DEF Drafted
      <4>2. L \cup U = desk[o].found BY <2>1, <2>2, <4>1
      <4>3. QED BY <2>5, <2>7, <4>2 DEF Drafted
    <3>4. QED BY <1>3, <2>5, <2>7, <3>1, <3>2, <3>3 DEF RequestFits
  <2>9. /\ Makes(r) => Makes(desk[o]) /\ r.item = desk[o].item
        /\ \A x : Links(r, x) <=> Links(desk[o], x)
    BY <1>1, <1>2, <2>5 DEF Makes, Holds, Links
  <2>10. \A x \in DOMAIN episodes :
           /\ episodes'[x].gone <=> episodes[x].gone
           /\ episodes[x].resaved => episodes'[x].resaved
           /\ episodes'[x].asked = episodes[x].asked
           /\ Makes(desk[o]) \/ episodes'[x].links = episodes[x].links \/ episodes'[x].resaved
    BY <1>5, <2>7
  <2>11. \A x \in DOMAIN episodes :
           \/ Complete(episodes'[x]) \/ Links(r, x)
           \/ (episodes'[x] = episodes[x] /\ ~Links(desk[o], x))
    BY <1>2, <1>5, <2>7, <2>9 DEF Complete
  <2>12. QED BY <1>1, <1>2, <1>4, <2>6, <2>7, <2>8, <2>9, <2>10, <2>11, WritingRequest
<1>8. CASE T = {} /\ desk[o].status = "new"
  <2>1. desk' = [desk EXCEPT ![o] = [desk[o] EXCEPT !.pc = "dispatch"]] /\ episodes' = episodes
    BY <1>2, <1>8 DEF Link, Then, Asking
  <2>2. PICK r \in RequestRows : r = [desk[o] EXCEPT !.pc = "dispatch"] BY <1>3 DEF RequestRows
  <2>3. /\ r.pc = "dispatch" /\ r.item = e /\ r.form = desk[o].form
        /\ r.scope = desk[o].scope
        /\ r.status = "new"
    BY <1>2, <1>3, <1>8, <2>2 DEF RequestRows
  <2>4. episodes[e].resaved \/ episodes[e].gone \/ episodes[e].links = episodes[e].asked
    <3>1. /\ desk[o].found = episodes[e].asked
          /\ episodes[e].resaved \/ episodes[e].gone \/ episodes[e].links = desk[o].found \ T
      BY <1>1, <1>2, <1>3, <1>8 DEF Asked
    <3>2. QED BY <1>8, <3>1
  <2>5. RequestFits(r, selected, episodes, jobs, scripts)
    BY <1>3, <2>3, <2>4 DEF RequestFits, Makes, Asked
  <2>6. Makes(desk[o]) /\ r.item = desk[o].item /\ \A x : ~Links(r, x)
    BY <1>2, <1>5, <1>8, <2>3 DEF Links
  <2>7. Complete(episodes[e]) BY <2>4 DEF Complete
  <2>8. /\ Makes(r) => Makes(desk[o]) /\ r.item = desk[o].item
        /\ \A x \in DOMAIN episodes :
             /\ Links(r, x) => Links(desk[o], x)
             /\ Links(desk[o], x) => Links(r, x) \/ Complete(episodes[x])
    BY <1>5, <2>6, <2>7
  <2>9. /\ RequestFits(r, selected, episodes, jobs', scripts)
        /\ jobs' \in Seq(JobRows) /\ DOMAIN jobs \subseteq DOMAIN jobs'
        /\ SameJobs(jobs')
        /\ \A j \in DOMAIN jobs' : j \in DOMAIN jobs \/ JobFits(jobs'[j], episodes, scripts)
    BY <1>1, <1>4, <2>5 DEF SameJobs
  <2>10. desk' = [desk EXCEPT ![o] = r] BY <2>1, <2>2
  <2>11. QED BY <1>1, <2>1, <2>8, <2>9, <2>10, QuietRequest
<1>9. CASE T = {} /\ desk[o].status # "new"
  <2>1. desk' = [desk EXCEPT ![o] = Answered] /\ episodes' = episodes
    BY <1>2, <1>9 DEF Link, Answer, Then, Asking
  <2>2. RequestFits(Answered, selected, episodes, jobs, scripts)
    BY RequestTyped DEF RequestFits, Holds, Makes, Chosen
  <2>3. ~Makes(Answered) /\ \A x : ~Links(Answered, x) /\ ~Links(desk[o], x)
    BY <1>9, RequestTyped DEF Makes, Holds, Links
  <2>4. QED BY <1>1, <1>4, <2>1, <2>2, <2>3, RequestTyped, QuietRequest DEF SameJobs
<1>10. QED BY <1>6, <1>7, <1>8, <1>9

-----------------------------------------------------------------------------
(* Episodes that come and go.                                              *)

\* A new episode, by the planner or by a person who writes it from now on.
LEMMA NewEpisode ==
  ASSUME DeskInv, NEW L \in SUBSET Articles, episodes' = Append(episodes, Episode("draft", L)),
         NEW n, n = Len(episodes) + 1, L = {} \/ desk' = desk,
         deskSite' = deskSite, selected' = selected, scripts' = scripts, jobs' = jobs,
         hand' = hand, desk' \in [Staff -> RequestRows],
         \A p \in Staff : desk'[p] = desk[p] \/
           /\ desk[p].pc = "create" /\ desk'[p].pc = "sync"
           /\ desk'[p].status = "new"
           /\ desk'[p].item = n /\ desk'[p].form \subseteq desk'[p].scope,
         \A p, q \in Staff : p # q => desk'[p] = desk[p] \/ desk'[q] = desk[q]
  PROVE  DeskInv'
<1>1. PICK v \in EpisodeRows : v = Episode("draft", L) BY DEF Episode, EpisodeRows, EpisodeStatuses
<1>2. /\ v.links = L /\ v.asked = {} /\ v.gone = FALSE /\ v.resaved = FALSE BY <1>1 DEF Episode
<1>3. /\ episodes' \in Seq(EpisodeRows)
      /\ DOMAIN episodes' = DOMAIN episodes \cup {n}
      /\ episodes'[n] = v /\ \A x \in DOMAIN episodes : episodes'[x] = episodes[x]
      /\ n \notin DOMAIN episodes
  BY <1>1, Appended DEF DeskInv, DeskTypes
<1>4. DeskTypes' BY <1>3, DeskTyped DEF DeskInv, DeskTypes
<1>5. ASSUME NEW p \in Staff
      PROVE  /\ RequestFits(desk'[p], selected, episodes', jobs, scripts)
             /\ Makes(desk'[p]) => desk'[p] = desk[p] \/ desk'[p].item = n
             /\ Makes(desk[p]) => desk[p].item \in DOMAIN episodes
             /\ \A x \in DOMAIN episodes : Links(desk'[p], x) <=> Links(desk[p], x)
  <2>1. RequestFits(desk[p], selected, episodes, jobs, scripts) BY DEF DeskInv, RequestsFit
  <2>2. CASE desk'[p] = desk[p]
    <3>1. Holds(desk[p]) => /\ desk[p].item \in DOMAIN episodes'
                            /\ episodes'[desk[p].item] = episodes[desk[p].item]
      BY <1>3, <2>1 DEF RequestFits
    <3>2. Makes(desk[p]) => Holds(desk[p]) BY DEF Makes
    <3>3. QED BY <2>1, <2>2, <3>1, <3>2 DEF RequestFits
  <2>3. CASE desk'[p] # desk[p]
    <3>1. /\ desk[p].pc = "create" /\ desk'[p].pc = "sync"
          /\ desk'[p].status = "new"
          /\ desk'[p].item = n /\ desk'[p].form \subseteq desk'[p].scope /\ L = {}
      BY <2>3
    <3>2. QED BY <1>2, <1>3, <3>1 DEF RequestFits, Makes, Holds, Asked, Links
  <2>4. QED BY <2>2, <2>3
<1>6. Apart(desk')
  <2> SUFFICES ASSUME NEW p \in Staff, NEW q \in Staff, p # q, Makes(desk'[p]), Makes(desk'[q])
               PROVE  desk'[p].item # desk'[q].item
    BY DEF Apart
  <2>1. Makes(desk[p]) /\ Makes(desk[q]) => desk[p].item # desk[q].item
    BY DEF DeskInv, RequestsFit, Apart
  <2>2. QED BY <1>3, <1>5, <2>1
<1>7. AllComplete(episodes', desk')
  BY <1>2, <1>3, <1>5 DEF DeskInv, RequestsFit, AllComplete, Complete
<1>8. /\ \A s \in DOMAIN scripts :
           /\ ScriptFits(scripts[s], episodes')
           /\ \A p \in Staff : Links(desk'[p], scripts[s].episode) => scripts[s].early
      /\ \A j \in DOMAIN jobs : JobFits(jobs[j], episodes', scripts)
      /\ \A h \in Hands : HandFits(hand[h], episodes', jobs, scripts)
      /\ OwnScripts(hand, jobs, scripts)
  <2>1. /\ DOMAIN episodes \subseteq DOMAIN episodes'
        /\ DOMAIN jobs \subseteq DOMAIN jobs
        /\ \A x \in DOMAIN episodes :
             /\ episodes'[x].gone <=> episodes[x].gone
             /\ episodes[x].resaved => episodes'[x].resaved
             /\ episodes'[x].asked = episodes[x].asked \/ \E p \in Staff : Links(desk[p], x)
        /\ \A p \in Staff, x \in DOMAIN episodes : Links(desk'[p], x) => Links(desk[p], x)
    BY <1>3, <1>5
  <2>2. \A j \in DOMAIN jobs : j \in DOMAIN jobs \/ JobFits(jobs[j], episodes', scripts)
    OBVIOUS
  <2>3. QED BY <2>1, <2>2, DeskSideKeeps DEF SameJobs
<1>9. QED BY <1>4, <1>5, <1>6, <1>7, <1>8, DeskInvNext

\* PlanEpisode: the planner makes an episode.
LEMMA PlanKeeps ==
  ASSUME DeskInv, PlanEpisode
  PROVE  DeskInv'
<1>1. PICK n : n = Len(episodes) + 1
  OBVIOUS
<1>2. desk' = desk /\ desk \in [Staff -> RequestRows] BY DEF PlanEpisode, DeskInv, DeskTypes
<1>3. \A p, q \in Staff : desk'[p] = desk[p] /\ desk'[q] = desk[q] BY <1>2
<1>4. QED BY <1>1, <1>2, <1>3, NewEpisode DEF PlanEpisode

\* CreateEpisode: a person makes an episode.
LEMMA CreateKeeps ==
  ASSUME DeskInv, NEW o \in Staff, CreateEpisode(o)
  PROVE  DeskInv'
<1>1. PICK n : n = Len(episodes) + 1
  OBVIOUS
<1>2. /\ desk \in [Staff -> RequestRows] /\ desk[o] \in RequestRows /\ n \in Nat
      /\ desk[o].form \subseteq desk[o].scope /\ desk[o].pc = "create"
  <2>1. /\ desk \in [Staff -> RequestRows] /\ episodes \in Seq(EpisodeRows)
        /\ RequestFits(desk[o], selected, episodes, jobs, scripts)
    BY DEF DeskInv, DeskTypes, RequestsFit
  <2>2. desk[o].pc = "create" BY DEF CreateEpisode, At
  <2>3. n \in Nat BY <1>1, <2>1
  <2>4. QED BY <2>1, <2>2, <2>3 DEF RequestFits
<1>3. PICK r \in RequestRows : r = [desk[o] EXCEPT !.pc = "sync", !.item = n, !.status = "new"]
  BY <1>2 DEF RequestRows
<1>4. /\ r.pc = "sync" /\ r.item = n /\ r.status = "new" /\ r.form = desk[o].form
      /\ r.scope = desk[o].scope
  BY <1>2, <1>3 DEF RequestRows
<1>5. desk' = [desk EXCEPT ![o] = r] BY <1>1, <1>3 DEF CreateEpisode, Then
<1>6. /\ desk' \in [Staff -> RequestRows]
      /\ \A p \in Staff : desk'[p] = desk[p] \/
           /\ desk[p].pc = "create" /\ desk'[p].pc = "sync"
           /\ desk'[p].status = "new"
           /\ desk'[p].item = n /\ desk'[p].form \subseteq desk'[p].scope
      /\ \A p, q \in Staff : p # q => desk'[p] = desk[p] \/ desk'[q] = desk[q]
  BY <1>2, <1>4, <1>5
<1>7. /\ episodes' = Append(episodes, Episode("draft", {}))
      /\ deskSite' = deskSite /\ selected' = selected /\ scripts' = scripts
      /\ jobs' = jobs
      /\ hand' = hand
  BY DEF CreateEpisode
<1>8. QED BY <1>1, <1>6, <1>7, NewEpisode

\* What is left of an episode that is deleted, and of its scripts.
LEMMA RemovedIs ==
  ASSUME DeskTypes, NEW e \in DOMAIN episodes, Removed(e)
  PROVE  /\ episodes' \in Seq(EpisodeRows) /\ DOMAIN episodes' = DOMAIN episodes
         /\ \A x \in DOMAIN episodes : x # e => episodes'[x] = episodes[x]
         /\ episodes'[e].gone /\ episodes'[e].links = {}
         /\ episodes'[e].status = episodes[e].status
         /\ episodes'[e].stranded = episodes[e].stranded
         /\ episodes'[e].asked = episodes[e].asked
         /\ (episodes'[e].resaved <=> episodes[e].resaved)
         /\ scripts' \in Seq(ScriptRows) /\ DOMAIN scripts' = DOMAIN scripts
         /\ \A s \in DOMAIN scripts :
              /\ scripts'[s].episode = scripts[s].episode
              /\ scripts[s].episode = e => scripts'[s].status = "deleted"
              /\ (scripts'[s].early <=> scripts[s].early)
              /\ (scripts'[s].shared <=> scripts[s].shared)
              /\ scripts[s].episode # e => scripts'[s] = scripts[s]
<1>1. episodes[e] \in EpisodeRows /\ \A s \in DOMAIN scripts : scripts[s] \in ScriptRows
  BY DEF DeskTypes
<1>2. PICK v \in EpisodeRows : v = [episodes[e] EXCEPT !.gone = TRUE, !.links = {}]
  BY <1>1 DEF EpisodeRows
<1>3. /\ v.gone = TRUE /\ v.links = {} /\ v.asked = episodes[e].asked
      /\ v.resaved = episodes[e].resaved /\ v.status = episodes[e].status
      /\ v.stranded = episodes[e].stranded
  BY <1>1, <1>2 DEF EpisodeRows
<1>4. episodes' = [episodes EXCEPT ![e] = v] BY <1>2 DEF Removed
<1>5. /\ episodes' \in Seq(EpisodeRows) /\ DOMAIN episodes' = DOMAIN episodes
      /\ episodes'[e] = v /\ \A x \in DOMAIN episodes : x # e => episodes'[x] = episodes[x]
  BY <1>4, Replaced DEF DeskTypes
<1>6. ASSUME NEW s \in DOMAIN scripts, NEW d, d = [scripts[s] EXCEPT !.status = "deleted"]
      PROVE  /\ d \in ScriptRows /\ d.episode = scripts[s].episode /\ d.status = "deleted"
             /\ d.early = scripts[s].early /\ d.shared = scripts[s].shared
  BY <1>1, <1>6 DEF ScriptRows
<1>7. scripts' = [s \in 1..Len(scripts) |->
        IF scripts[s].episode = e THEN [scripts[s] EXCEPT !.status = "deleted"] ELSE scripts[s]]
  BY DEF Removed, DeskTypes
<1>8. ASSUME NEW s \in DOMAIN scripts
      PROVE  /\ scripts'[s] \in ScriptRows /\ scripts'[s].episode = scripts[s].episode
             /\ scripts[s].episode = e => scripts'[s].status = "deleted"
             /\ (scripts'[s].early <=> scripts[s].early)
             /\ (scripts'[s].shared <=> scripts[s].shared)
             /\ scripts[s].episode # e => scripts'[s] = scripts[s]
  <2>1. PICK d : d = [scripts[s] EXCEPT !.status = "deleted"]
    OBVIOUS
  <2>2. /\ d \in ScriptRows /\ d.episode = scripts[s].episode
        /\ d.status = "deleted"
        /\ d.early = scripts[s].early /\ d.shared = scripts[s].shared
    BY <1>6, <2>1
  <2>3. scripts'[s] = IF scripts[s].episode = e THEN d ELSE scripts[s] BY <1>7, <2>1 DEF DeskTypes
  <2>4. QED BY <1>1, <2>2, <2>3
<1>9. scripts' \in Seq(ScriptRows) /\ DOMAIN scripts' = DOMAIN scripts
  <2>1. DOMAIN scripts = 1..Len(scripts) /\ Len(scripts) \in Nat BY DEF DeskTypes
  <2>2. scripts' \in [1..Len(scripts) -> ScriptRows] BY <1>7, <1>8, <2>1
  <2>3. QED BY <2>1, <2>2
<1>10. QED BY <1>3, <1>5, <1>8, <1>9

\* An episode is deleted by a person who is not linking one.
LEMMA RemovedKeeps ==
  ASSUME DeskInv, NEW o \in Staff, NEW e \in DOMAIN episodes, Removed(e),
         desk' = [desk EXCEPT ![o] = Answered], desk[o].pc \notin {"sync", "unlink", "link"},
         deskSite' = deskSite, selected' = selected, jobs' = jobs, hand' = hand
  PROVE  DeskInv'
<1>1. /\ episodes' \in Seq(EpisodeRows) /\ DOMAIN episodes' = DOMAIN episodes
      /\ \A x \in DOMAIN episodes : x # e => episodes'[x] = episodes[x]
      /\ episodes'[e].gone /\ episodes'[e].links = {}
      /\ episodes'[e].asked = episodes[e].asked
      /\ (episodes'[e].resaved <=> episodes[e].resaved)
      /\ scripts' \in Seq(ScriptRows) /\ DOMAIN scripts' = DOMAIN scripts
      /\ \A s \in DOMAIN scripts :
           /\ scripts'[s].episode = scripts[s].episode
           /\ scripts[s].episode = e => scripts'[s].status = "deleted"
           /\ (scripts'[s].early <=> scripts[s].early)
           /\ (scripts'[s].shared <=> scripts[s].shared)
           /\ scripts[s].episode # e => scripts'[s] = scripts[s]
  BY RemovedIs DEF DeskInv
<1>2. /\ desk' \in [Staff -> RequestRows] /\ desk'[o] = Answered
      /\ \A p \in Staff : p # o => desk'[p] = desk[p]
  BY RequestTyped DEF DeskInv, DeskTypes
<1>3. DeskTypes' BY <1>1, <1>2, DeskTyped DEF DeskInv, DeskTypes
<1>4. /\ ~Makes(Answered)
      /\ \A x : ~Links(Answered, x) /\ ~Links(desk[o], x)
  BY RequestTyped DEF Makes, Holds, Links
<1>5. ASSUME NEW p \in Staff PROVE RequestFits(desk'[p], selected, episodes', jobs, scripts')
  <2>1. CASE p = o BY <1>2, <2>1, RequestTyped DEF RequestFits, Holds, Makes, Chosen
  <2>2. CASE p # o
    <3>1. Unmoved(desk[p], desk[p]) /\ desk'[p] = desk[p] BY <1>2, <2>2 DEF Unmoved
    <3>2. \A x \in DOMAIN episodes : Makes(desk[p]) /\ desk[p].item = x =>
            /\ episodes'[x].asked = episodes[x].asked
            /\ \/ episodes'[x].links = episodes[x].links
                  \/ (episodes'[x].gone /\ episodes'[x].links = {})
               \/ episodes'[x].resaved
      BY <1>1
    <3>3. \A x \in DOMAIN episodes : desk[p].alone =>
            episodes'[x].links = episodes[x].links \/ episodes'[x].gone
      BY <1>1
    <3>4. /\ DOMAIN episodes \subseteq DOMAIN episodes'
          /\ DOMAIN scripts \subseteq DOMAIN scripts'
          /\ desk[p].alone => selected = selected
          /\ \A x \in DOMAIN episodes :
               /\ episodes[x].gone => episodes'[x].gone
               /\ episodes[x].resaved => episodes'[x].resaved
      BY <1>1
    <3>5. RequestFits(desk[p], selected, episodes', jobs, scripts')
      BY <2>2, <3>1, <3>2, <3>3, <3>4, OthersWait
    <3>6. QED BY <3>1, <3>5
  <2>3. QED BY <2>1, <2>2
<1>6. Apart(desk') BY <1>2, <1>4 DEF DeskInv, RequestsFit, Apart
<1>7. AllComplete(episodes', desk')
  <2>1. AllComplete(episodes, desk) BY DEF DeskInv, RequestsFit
  <2>2. QED BY <1>1, <1>2, <1>4, <2>1 DEF AllComplete, Complete
<1>8. ASSUME NEW s \in DOMAIN scripts
      PROVE  /\ ScriptFits(scripts'[s], episodes')
             /\ \A p \in Staff : Links(desk'[p], scripts'[s].episode) => scripts'[s].early
  <2>1. /\ ScriptFits(scripts[s], episodes)
        /\ \A p \in Staff : Links(desk[p], scripts[s].episode) => scripts[s].early
    BY DEF DeskInv, ScriptsFit
  <2>2. \A p \in Staff : \A x : Links(desk'[p], x) => Links(desk[p], x) BY <1>2, <1>4
  <2>3. CASE scripts[s].episode = e BY <1>1, <2>1, <2>2, <2>3 DEF ScriptFits
  <2>4. CASE scripts[s].episode # e
    <3>1. scripts'[s] = scripts[s] /\ scripts[s].episode \in DOMAIN episodes
      BY <1>1, <2>1, <2>4 DEF ScriptFits
    <3>2. episodes'[scripts[s].episode] = episodes[scripts[s].episode] BY <1>1, <2>4, <3>1
    <3>3. QED BY <1>1, <2>1, <2>2, <3>1, <3>2 DEF ScriptFits
  <2>5. QED BY <2>3, <2>4
<1>9. \A j \in DOMAIN jobs : JobFits(jobs[j], episodes', scripts')
  <2> SUFFICES ASSUME NEW j \in DOMAIN jobs PROVE JobFits(jobs[j], episodes', scripts')
    OBVIOUS
  <2>1. JobFits(jobs[j], episodes, scripts) BY DEF DeskInv, ScriptsFit
  <2>2. QED BY <1>1, <2>1 DEF JobFits
<1>10. ASSUME NEW h \in Hands PROVE HandFits(hand[h], episodes', jobs, scripts')
  <2>1. HandFits(hand[h], episodes, jobs, scripts) BY DEF DeskInv, HandsFit
  <2>2. CASE Scripting(hand[h], jobs)
    <3>1. PICK s, x : s = hand[h].script /\ x = jobs[hand[h].job].episode
      OBVIOUS
    <3>2. /\ s \in DOMAIN scripts /\ scripts[s].episode = x
          /\ scripts[s].status \in {"generating", "deleted"} \/ scripts[s].shared
          /\ Sourced(scripts[s], episodes[x], hand[h].sources)
      BY <2>1, <2>2, <3>1 DEF HandFits, Scripting
    <3>3. x \in DOMAIN episodes BY <3>2 DEF DeskInv, ScriptsFit, ScriptFits
    <3>4. /\ scripts'[s].episode = x
          /\ scripts'[s].status \in {"generating", "deleted"} \/ scripts'[s].shared
          /\ Sourced(scripts'[s], episodes'[x], hand[h].sources)
      <4>1. CASE x = e BY <1>1, <3>2, <4>1 DEF Sourced
      <4>2. CASE x # e BY <1>1, <3>2, <3>3, <4>2
      <4>3. QED BY <4>1, <4>2
    <3>5. QED BY <1>1, <2>1, <2>2, <3>1, <3>4 DEF HandFits, Scripting
  <2>3. CASE ~Scripting(hand[h], jobs) BY <1>1, <2>1, <2>3 DEF HandFits
  <2>4. QED BY <2>2, <2>3
<1>11. OwnScripts(hand, jobs, scripts')
  BY <1>1 DEF DeskInv, HandsFit, HandFits, OwnScripts, Scripting
<1>12. QED BY <1>1, <1>3, <1>5, <1>6, <1>7, <1>8, <1>9, <1>10, <1>11, DeskInvNext

\* DeleteEpisode.
LEMMA DeleteKeeps ==
  ASSUME DeskInv, NEW o \in Staff, DeleteEpisode(o)
  PROVE  DeskInv'
<1>1. PICK e \in ThereAre : Removed(e) BY DEF DeleteEpisode
<1>2. e \in DOMAIN episodes BY DEF ThereAre
<1>3. /\ desk' = [desk EXCEPT ![o] = Answered] /\ desk[o].pc = "idle"
      /\ deskSite' = deskSite /\ selected' = selected /\ jobs' = jobs
      /\ hand' = hand
  BY DEF DeleteEpisode, Begin, Then, At
<1>4. QED BY <1>1, <1>2, <1>3, RemovedKeeps

\* QueueScript: a job for the new episode, or its deletion.
LEMMA QueueKeeps ==
  ASSUME DeskInv, NEW o \in Staff, QueueScript(o)
  PROVE  DeskInv'
<1>1. /\ desk' = [desk EXCEPT ![o] = Answered] /\ desk[o].pc = "dispatch"
      /\ deskSite' = deskSite /\ selected' = selected /\ hand' = hand
  BY DEF QueueScript, Answer, Then, At
<1>2. PICK e : e = desk[o].item
  OBVIOUS
<1>3. e \in DOMAIN episodes /\ e \in Nat
  <2>1. Holds(desk[o]) BY <1>1 DEF Holds
  <2>2. e \in DOMAIN episodes BY <1>2, <2>1, HoldingKnows
  <2>3. QED BY <2>2 DEF DeskInv, DeskTypes
<1>4. CASE episodes[e].links = {}
  <2>1. Removed(e) /\ jobs' = jobs BY <1>2, <1>4 DEF QueueScript
  <2>2. QED BY <1>1, <1>3, <2>1, RemovedKeeps
<1>5. CASE episodes[e].links # {}
  <2>1. jobs' = Append(jobs, Job("script", e, 0)) /\ episodes' = episodes /\ scripts' = scripts
    BY <1>2, <1>5 DEF QueueScript
  <2>2. JobFits(Job("script", e, 0), episodes, scripts) BY <1>3, ScriptJobFits
  <2>3. /\ jobs' \in Seq(JobRows) /\ DOMAIN jobs \subseteq DOMAIN jobs'
        /\ SameJobs(jobs')
        /\ \A j \in DOMAIN jobs' : j \in DOMAIN jobs \/ JobFits(jobs'[j], episodes, scripts)
    BY <1>3, <2>1, <2>2, NewJob DEF DeskInv
  <2>4. QED BY <1>1, <2>1, <2>3, RequestTyped, RestingRequest
<1>6. QED BY <1>4, <1>5

-----------------------------------------------------------------------------
(* Workers.                                                                *)

\* The rows after a worker's step, from its parts.
LEMMA WorkerStep ==
  ASSUME DeskInv, deskSite' = deskSite, selected' = selected, desk' = desk,
         episodes' \in Seq(EpisodeRows), DOMAIN episodes' = DOMAIN episodes, Touched(episodes'),
         scripts' \in Seq(ScriptRows), DOMAIN scripts \subseteq DOMAIN scripts',
         jobs' \in Seq(JobRows), DOMAIN jobs' = DOMAIN jobs,
         \A j \in DOMAIN jobs :
           /\ jobs'[j].type = jobs[j].type /\ jobs'[j].episode = jobs[j].episode
           /\ jobs[j].type = "audio" => jobs'[j].script = jobs[j].script,
         \A s \in DOMAIN scripts' :
           /\ ScriptFits(scripts'[s], episodes')
           /\ \A o \in Staff : Links(desk[o], scripts'[s].episode) => scripts'[s].early,
         \A s \in DOMAIN scripts :
           /\ scripts'[s].episode = scripts[s].episode
           /\ scripts[s].status \in {"ready", "deleted"} \/ scripts[s].shared
                => scripts'[s].status \in {"ready", "deleted"} \/ scripts'[s].shared,
         hand' \in [Hands -> HandRows],
         \A h \in Hands : HandFits(hand'[h], episodes', jobs', scripts'),
         OwnScripts(hand', jobs', scripts')
  PROVE  DeskInv'
<1>1. DeskTypes' BY DeskTyped DEF DeskInv, DeskTypes
<1>2. ASSUME NEW o \in Staff PROVE RequestFits(desk'[o], selected, episodes', jobs', scripts')
  <2>1. RequestFits(desk[o], selected, episodes, jobs, scripts) BY DEF DeskInv, RequestsFit
  <2>2. Unmoved(desk[o], desk[o]) BY DEF Unmoved
  <2>3. RequestFits(desk[o], selected, episodes', jobs', scripts')
    BY <2>1, <2>2, StillFits DEF Touched
  <2>4. QED BY <2>3
<1>3. Apart(desk') /\ AllComplete(episodes', desk')
  BY DEF DeskInv, RequestsFit, AllComplete, Complete, Touched
<1>4. ASSUME NEW j \in DOMAIN jobs' PROVE JobFits(jobs'[j], episodes', scripts')
  <2>1. JobFits(jobs[j], episodes, scripts) BY DEF DeskInv, ScriptsFit
  <2>2. QED BY <2>1 DEF JobFits
<1>5. QED BY <1>1, <1>2, <1>3, <1>4, DeskInvNext

\* The worker has the script out of its hands.
LEMMA HandEmptied ==
  ASSUME DeskInv, NEW h \in Hands, NEW w \in HandRows, w.script = 0,
         w.job = 0 \/ w.job \in DOMAIN jobs, hand' = [hand EXCEPT ![h] = w],
         NEW E2, NEW J2, NEW S2, Touched(E2), DOMAIN J2 = DOMAIN jobs, DOMAIN S2 = DOMAIN scripts,
         SameJobs(J2),
         \A s \in DOMAIN scripts :
           \/ S2[s] = scripts[s]
           \/ /\ S2[s].episode = scripts[s].episode /\ (S2[s].early <=> scripts[s].early)
              /\ (S2[s].shared <=> scripts[s].shared) /\ scripts[s].status # "deleted"
              /\ \/ scripts[s].shared \/ scripts[s].status = "ready"
                 \/ Scripting(hand[h], jobs) /\ s = hand[h].script
  PROVE  /\ hand' \in [Hands -> HandRows]
         /\ \A k \in Hands : HandFits(hand'[k], E2, J2, S2)
         /\ OwnScripts(hand', J2, S2)
<1>1. /\ hand' \in [Hands -> HandRows] /\ hand'[h] = w
      /\ \A k \in Hands : k # h => hand'[k] = hand[k]
  BY DEF DeskInv, DeskTypes
<1>2. ~Scripting(w, J2) /\ HandFits(w, E2, J2, S2) BY DEF Scripting, HandFits
<1>3. ASSUME NEW k \in Hands, k # h
      PROVE  /\ HandFits(hand[k], E2, J2, S2)
             /\ Scripting(hand[k], J2) <=> Scripting(hand[k], jobs)
  <2>1. HandFits(hand[k], episodes, jobs, scripts) BY DEF DeskInv, HandsFit
  <2>2. Scripting(hand[k], J2) <=> Scripting(hand[k], jobs)
    BY <2>1 DEF HandFits, Scripting, SameJobs
  <2>3. CASE Scripting(hand[k], jobs)
    <3>1. PICK s, x : s = hand[k].script /\ x = jobs[hand[k].job].episode
      OBVIOUS
    <3>2. /\ s \in DOMAIN scripts /\ scripts[s].episode = x
          /\ scripts[s].status \in {"generating", "deleted"} \/ scripts[s].shared
          /\ Sourced(scripts[s], episodes[x], hand[k].sources)
      BY <2>1, <2>3, <3>1 DEF HandFits, Scripting
    <3>3. Scripting(hand[h], jobs) => s # hand[h].script \/ scripts[s].shared
      BY <1>3, <2>3, <3>1 DEF DeskInv, HandsFit, OwnScripts
    <3>4. \/ S2[s] = scripts[s]
          \/ /\ S2[s].episode = scripts[s].episode /\ (S2[s].early <=> scripts[s].early)
             /\ S2[s].shared /\ scripts[s].status # "deleted"
      BY <3>2, <3>3
    <3>5. x \in DOMAIN episodes BY <3>2 DEF DeskInv, ScriptsFit, ScriptFits
    <3>6. Sourced(S2[s], E2[x], hand[k].sources) BY <3>2, <3>4, <3>5 DEF Sourced, Touched
    <3>7. QED BY <2>1, <2>2, <2>3, <3>1, <3>2, <3>4, <3>6 DEF HandFits, Scripting, SameJobs
  <2>4. CASE ~Scripting(hand[k], jobs) BY <2>1, <2>2, <2>4 DEF HandFits, SameJobs
  <2>5. QED BY <2>2, <2>3, <2>4
<1>4. \A k \in Hands : HandFits(hand'[k], E2, J2, S2) BY <1>1, <1>2, <1>3
<1>5. ASSUME NEW k \in Hands, NEW l \in Hands, k # l, Scripting(hand'[k], J2), Scripting(hand'[l], J2)
      PROVE  hand'[k].script # hand'[l].script \/ S2[hand'[k].script].shared
  <2>1. k # h /\ l # h BY <1>1, <1>2, <1>5
  <2>2. Scripting(hand[k], jobs) /\ Scripting(hand[l], jobs) BY <1>1, <1>3, <1>5, <2>1
  <2>3. hand[k].script \in DOMAIN scripts BY <2>2 DEF DeskInv, HandsFit, HandFits, Scripting
  <2>4. QED BY <1>1, <1>5, <2>1, <2>2, <2>3 DEF DeskInv, HandsFit, OwnScripts
<1>6. QED BY <1>1, <1>4, <1>5 DEF OwnScripts

\* A step that leaves the scripts as they are.
LEMMA LetGoKeeps ==
  ASSUME DeskInv, NEW h \in Hands, NEW w \in HandRows, w.script = 0,
         w.job = 0 \/ w.job \in DOMAIN jobs, hand' = [hand EXCEPT ![h] = w],
         deskSite' = deskSite, selected' = selected, desk' = desk, scripts' = scripts,
         episodes' \in Seq(EpisodeRows), DOMAIN episodes' = DOMAIN episodes, Touched(episodes'),
         jobs' \in Seq(JobRows), DOMAIN jobs' = DOMAIN jobs,
         SameJobs(jobs')
  PROVE  DeskInv'
<1>1. /\ hand' \in [Hands -> HandRows]
      /\ \A k \in Hands : HandFits(hand'[k], episodes', jobs', scripts)
      /\ OwnScripts(hand', jobs', scripts')
  BY HandEmptied
<1>2. ASSUME NEW s \in DOMAIN scripts
      PROVE  /\ ScriptFits(scripts[s], episodes')
             /\ \A o \in Staff : Links(desk[o], scripts[s].episode) => scripts[s].early
  <2>1. /\ ScriptFits(scripts[s], episodes)
        /\ \A o \in Staff : Links(desk[o], scripts[s].episode) => scripts[s].early
    BY DEF DeskInv, ScriptsFit
  <2>2. QED BY <2>1 DEF ScriptFits, Sourced, Touched
<1>3. scripts' \in Seq(ScriptRows) BY DEF DeskInv, DeskTypes
<1>4. /\ \A k \in Hands : HandFits(hand'[k], episodes', jobs', scripts')
      /\ \A s \in DOMAIN scripts' :
           /\ ScriptFits(scripts'[s], episodes')
           /\ \A o \in Staff : Links(desk[o], scripts'[s].episode) => scripts'[s].early
      /\ DOMAIN scripts \subseteq DOMAIN scripts'
  BY <1>1, <1>2
<1>5. QED BY <1>1, <1>3, <1>4, WorkerStep DEF SameJobs

\* The episode of a worker's job.
LEMMA TouchedIs ==
  ASSUME DeskTypes, NEW e \in DOMAIN episodes,
         \/ episodes' = episodes
         \/ \E c \in EpisodeStatuses : episodes' = [episodes EXCEPT ![e].status = c]
         \/ episodes' = [episodes EXCEPT ![e].stranded = TRUE]
  PROVE  episodes' \in Seq(EpisodeRows) /\ DOMAIN episodes' = DOMAIN episodes /\ Touched(episodes')
<1>1. episodes[e] \in EpisodeRows BY DEF DeskTypes
<1>2. CASE episodes' = episodes
  <2>1. Touched(episodes') BY <1>2, Zenon DEF Touched
  <2>2. QED BY <1>2, <2>1 DEF DeskTypes
<1>3. CASE episodes' # episodes
  <2>1. PICK v \in EpisodeRows :
          /\ episodes' = [episodes EXCEPT ![e] = v]
          /\ v.links = episodes[e].links /\ v.asked = episodes[e].asked
          /\ v.gone = episodes[e].gone /\ v.resaved = episodes[e].resaved
    <3>1. PICK c \in EpisodeStatuses :
            \/ episodes' = [episodes EXCEPT ![e].status = c]
            \/ episodes' = [episodes EXCEPT ![e].stranded = TRUE]
      BY <1>3 DEF EpisodeStatuses
    <3>2. PICK v : /\ v \in {[episodes[e] EXCEPT !.status = c], [episodes[e] EXCEPT !.stranded = TRUE]}
                   /\ episodes' = [episodes EXCEPT ![e] = v]
      BY <3>1
    <3>3. /\ v \in EpisodeRows /\ v.links = episodes[e].links /\ v.asked = episodes[e].asked
          /\ v.gone = episodes[e].gone /\ v.resaved = episodes[e].resaved
      BY <1>1, <3>2 DEF EpisodeRows
    <3>4. QED BY <3>2, <3>3
  <2>2. /\ episodes' \in Seq(EpisodeRows) /\ DOMAIN episodes' = DOMAIN episodes
        /\ episodes'[e] = v /\ \A x \in DOMAIN episodes : x # e => episodes'[x] = episodes[x]
    BY <2>1, Replaced DEF DeskTypes
  <2>3. QED BY <2>1, <2>2 DEF Touched
<1>4. QED BY <1>2, <1>3

\* A worker without a job.
LEMMA FreeTyped == Free \in HandRows /\ Free.job = 0 /\ Free.script = 0
  BY DEF Free, HandRows

\* What a worker has in hand.
LEMMA InHand ==
  ASSUME DeskInv, NEW h \in Hands, Busy(h)
  PROVE  /\ hand[h] \in HandRows /\ hand[h].job \in DOMAIN jobs
         /\ jobs[hand[h].job] \in JobRows
         /\ jobs[hand[h].job].episode \in DOMAIN episodes
         /\ JobFits(jobs[hand[h].job], episodes, scripts)
         /\ HandFits(hand[h], episodes, jobs, scripts)
<1>1. hand[h].job \in DOMAIN jobs /\ HandFits(hand[h], episodes, jobs, scripts)
  BY DEF DeskInv, HandsFit, HandFits, Busy
<1>2. JobFits(jobs[hand[h].job], episodes, scripts) BY <1>1 DEF DeskInv, ScriptsFit
<1>3. QED BY <1>1, <1>2 DEF DeskInv, DeskTypes, JobFits

\* A job is ended, and the worker is free.
LEMMA SettledIs ==
  ASSUME DeskInv, NEW h \in Hands, Busy(h), NEW c \in {"succeeded", "failed"}, Settle(h, c)
  PROVE  /\ hand' = [hand EXCEPT ![h] = Free]
         /\ jobs' \in Seq(JobRows) /\ DOMAIN jobs' = DOMAIN jobs
         /\ SameJobs(jobs')
<1>1. PICK i : i = hand[h].job
  OBVIOUS
<1>2. i \in DOMAIN jobs /\ DeskTypes BY <1>1, InHand DEF DeskInv
<1>3. jobs' = [jobs EXCEPT ![i].status = c] /\ hand' = [hand EXCEPT ![h] = Free] BY <1>1 DEF Settle
<1>4. QED BY <1>2, <1>3, CancelledJob

\* TakeJob: a worker takes a job, or drops a cancelled one.
LEMMA TakeKeeps ==
  ASSUME DeskInv, NEW h \in Hands, TakeJob(h)
  PROVE  DeskInv'
<1>1. /\ deskSite' = deskSite /\ selected' = selected /\ desk' = desk
      /\ scripts' = scripts
      /\ episodes' = episodes /\ hand[h].job = 0
  BY DEF TakeJob, Idle
<1>2. /\ episodes' \in Seq(EpisodeRows) /\ DOMAIN episodes' = DOMAIN episodes
      /\ Touched(episodes')
      /\ jobs \in Seq(JobRows) /\ hand \in [Hands -> HandRows]
  BY <1>1 DEF DeskInv, DeskTypes, Touched
<1>3. PICK j \in DOMAIN jobs :
        IF jobs[j].status = "cancelled"
        THEN jobs' = [jobs EXCEPT ![j].waiting = FALSE] /\ UNCHANGED hand
        ELSE /\ jobs' = [jobs EXCEPT ![j] = [@ EXCEPT !.waiting = FALSE, !.status = "running"]]
             /\ hand' = [hand EXCEPT ![h] = [Free EXCEPT !.job = j]]
  BY DEF TakeJob
<1>4. jobs[j] \in JobRows /\ j \in Nat BY <1>2
<1>5. CASE jobs[j].status = "cancelled"
  <2>1. PICK v \in JobRows : v = [jobs[j] EXCEPT !.waiting = FALSE] BY <1>4 DEF JobRows
  <2>2. v.type = jobs[j].type /\ v.episode = jobs[j].episode /\ v.script = jobs[j].script
    BY <1>4, <2>1 DEF JobRows
  <2>3. jobs' = [jobs EXCEPT ![j] = v] /\ hand' = hand BY <1>3, <1>5, <2>1
  <2>4. /\ jobs' \in Seq(JobRows) /\ DOMAIN jobs' = DOMAIN jobs
        /\ SameJobs(jobs')
    BY <2>2, <2>3, ChangedJob DEF DeskInv
  <2>5. hand[h] \in HandRows /\ hand' = [hand EXCEPT ![h] = hand[h]] BY <1>2, <2>3
  <2>6. hand[h].script = 0 BY <1>1, <1>2 DEF DeskInv, HandsFit, HandFits
  <2>7. QED BY <1>1, <1>2, <2>4, <2>5, <2>6, LetGoKeeps
<1>6. CASE jobs[j].status # "cancelled"
  <2>1. PICK v \in JobRows : v = [jobs[j] EXCEPT !.waiting = FALSE, !.status = "running"]
    BY <1>4 DEF JobRows
  <2>2. v.type = jobs[j].type /\ v.episode = jobs[j].episode /\ v.script = jobs[j].script
    BY <1>4, <2>1 DEF JobRows
  <2>3. PICK w \in HandRows : w = [Free EXCEPT !.job = j] BY <1>4, FreeTyped DEF HandRows
  <2>4. w.job = j /\ w.script = 0 BY <2>3, FreeTyped DEF HandRows
  <2>5. jobs' = [jobs EXCEPT ![j] = v] /\ hand' = [hand EXCEPT ![h] = w] BY <1>3, <1>6, <2>1, <2>3
  <2>6. /\ jobs' \in Seq(JobRows) /\ DOMAIN jobs' = DOMAIN jobs
        /\ SameJobs(jobs')
    BY <2>2, <2>5, ChangedJob DEF DeskInv
  <2>7. QED BY <1>1, <1>2, <2>4, <2>5, <2>6, LetGoKeeps
<1>7. QED BY <1>5, <1>6

\* What BeginScript makes of the rows, of a new script or of one that is taken
\* for it.
LEMMA BegunIs ==
  ASSUME DeskInv, NEW h \in Hands, BeginScript(h), NEW i, i = hand[h].job,
         NEW e, e = jobs[i].episode, ~episodes[e].gone, episodes[e].links # {}
  PROVE  \E n \in Nat, w \in HandRows : Begun(h, i, e, n, w)
<1>1. Busy(h) /\ hand[h] \in HandRows /\ e \in DOMAIN episodes /\ e \in Nat
  <2>1. Busy(h) BY DEF BeginScript
  <2>2. QED BY <2>1, InHand DEF DeskInv, DeskTypes
<1>2. episodes[e] \in EpisodeRows /\ scripts \in Seq(ScriptRows) BY <1>1 DEF DeskInv, DeskTypes
<1>3. PICK n \in Placeholder(i) :
        /\ episodes' = [episodes EXCEPT ![e] = [@ EXCEPT !.status = "generating_script",
                                                         !.stranded = FALSE]]
        /\ scripts' = BegunScript(n, e)
        /\ jobs' = [jobs EXCEPT ![i].script = n]
        /\ hand' = [hand EXCEPT ![h] = [@ EXCEPT !.script = n, !.sources = episodes[e].links]]
  BY Zenon DEF BeginScript
<1>4. \/ n = Len(scripts) + 1
      \/ n \in DOMAIN scripts /\ scripts[n].episode = e /\ scripts[n].status \in {"failed", "generating"}
  BY <1>3 DEF Placeholder, Unfinished, ScriptsOf
<1>5. n \in Nat /\ n # 0 BY <1>2, <1>4
<1>6. PICK w \in HandRows : w = [hand[h] EXCEPT !.script = n, !.sources = episodes[e].links]
  BY <1>1, <1>2, <1>5 DEF HandRows, EpisodeRows
<1>7. /\ w.job = i /\ w.script = n /\ w.sources = episodes[e].links
      /\ hand' = [hand EXCEPT ![h] = w]
  BY <1>1, <1>3, <1>6 DEF HandRows
<1>8. PICK b \in BOOLEAN, c \in BOOLEAN :
        /\ b = (\E o \in Staff : Linking(o, e))
        /\ c = (\E k \in Hands : AtScript(k) /\ hand[k].script = n)
  OBVIOUS
<1>9. PICK fresh \in ScriptRows :
        /\ fresh.episode = e /\ fresh.status = "generating" /\ fresh.early = b /\ fresh.shared = c
        /\ scripts' = IF n \in DOMAIN scripts
                      THEN [scripts EXCEPT ![n] = [fresh EXCEPT !.early = @ \/ scripts[n].early,
                                                                !.shared = @ \/ scripts[n].shared]]
                      ELSE Append(scripts, fresh)
  <2>1. PICK fresh \in ScriptRows :
          fresh = [episode |-> e, status |-> "generating", sources |-> {}, voiced |-> FALSE,
                   early |-> b, shared |-> c]
    BY <1>1 DEF ScriptRows
  <2>2. fresh.episode = e /\ fresh.status = "generating" /\ fresh.early = b /\ fresh.shared = c
    BY <2>1
  <2>3. scripts' = IF n \in DOMAIN scripts
                   THEN [scripts EXCEPT ![n] = [fresh EXCEPT !.early = @ \/ scripts[n].early,
                                                             !.shared = @ \/ scripts[n].shared]]
                   ELSE Append(scripts, fresh)
    BY <1>3, <1>8, <2>1, Zenon DEF BegunScript
  <2>4. QED BY <2>2, <2>3
<1>10. /\ \A o \in Staff : Links(desk[o], e) => b
       /\ \A k \in Hands : Scripting(hand[k], jobs) /\ hand[k].script = n => c
  BY <1>8 DEF Linking, Asking, Links, AtScript, Busy, Scripting
<1>11. CASE n \in DOMAIN scripts
  <2>1. scripts[n] \in ScriptRows BY <1>2, <1>11
  <2>2. PICK early \in BOOLEAN, shared \in BOOLEAN :
          early = (b \/ scripts[n].early) /\ shared = (c \/ scripts[n].shared)
    OBVIOUS
  <2>3. PICK v \in ScriptRows : v = [fresh EXCEPT !.early = early, !.shared = shared]
    BY <1>9 DEF ScriptRows
  <2>4. v.episode = e /\ v.status = "generating" /\ v.early = early /\ v.shared = shared
    BY <1>9, <2>3 DEF ScriptRows
  <2>5. scripts' = [scripts EXCEPT ![n] = v]
    <3>1. [fresh EXCEPT !.early = @ \/ scripts[n].early, !.shared = @ \/ scripts[n].shared] = v
      BY <1>9, <2>2, <2>3 DEF ScriptRows
    <3>2. QED BY <1>9, <1>11, <3>1
  <2>6. /\ scripts' \in Seq(ScriptRows) /\ DOMAIN scripts' = DOMAIN scripts /\ scripts'[n] = v
        /\ \A s \in DOMAIN scripts : s # n => scripts'[s] = scripts[s]
    BY <1>2, <1>11, <2>5, Replaced
  <2>7. scripts[n].episode = e /\ scripts[n].status \in {"failed", "generating"}
    BY <1>2, <1>4, <1>11
  <2>8. DOMAIN scripts' = DOMAIN scripts \cup {n} BY <1>11, <2>6
  <2>9. /\ scripts' \in Seq(ScriptRows) /\ DOMAIN scripts' = DOMAIN scripts \cup {n}
        /\ \A s \in DOMAIN scripts : s # n => scripts'[s] = scripts[s]
        /\ scripts'[n].episode = e /\ scripts'[n].status = "generating"
    BY <2>4, <2>6, <2>8
  <2>10. scripts'[n].early = (b \/ scripts[n].early) /\ scripts'[n].shared = (c \/ scripts[n].shared)
    BY <2>2, <2>4, <2>6
  <2>11. /\ \A o \in Staff : Links(desk[o], e) => scripts'[n].early
         /\ BegunRow(scripts[n], scripts'[n])
         /\ \A k \in Hands : Scripting(hand[k], jobs) /\ hand[k].script = n => scripts'[n].shared
    BY <1>10, <2>7, <2>9, <2>10, Zenon DEF BegunRow
  <2>12. QED BY <1>3, <1>5, <1>7, <1>11, <2>9, <2>11, Zenon DEF Begun
<1>12. CASE n \notin DOMAIN scripts
  <2>1. scripts' = Append(scripts, fresh) /\ n = Len(scripts) + 1 BY <1>4, <1>9, <1>12
  <2>2. /\ scripts' \in Seq(ScriptRows) /\ DOMAIN scripts' = DOMAIN scripts \cup {n}
        /\ scripts'[n] = fresh /\ \A s \in DOMAIN scripts : scripts'[s] = scripts[s]
    BY <1>2, <1>9, <2>1, Appended
  <2>3. /\ scripts'[n].episode = e /\ scripts'[n].status = "generating"
        /\ scripts'[n].early = b /\ scripts'[n].shared = c
    BY <1>9, <2>2
  <2>4. /\ \A o \in Staff : Links(desk[o], e) => scripts'[n].early
        /\ \A k \in Hands : Scripting(hand[k], jobs) /\ hand[k].script = n => scripts'[n].shared
    BY <1>10, <2>3, Zenon
  <2>5. /\ scripts' \in Seq(ScriptRows) /\ DOMAIN scripts' = DOMAIN scripts \cup {n}
        /\ \A s \in DOMAIN scripts : s # n => scripts'[s] = scripts[s]
    BY <1>12, <2>2, Zenon
  <2>6. QED BY <1>3, <1>5, <1>7, <1>12, <2>3, <2>4, <2>5, Zenon DEF Begun
<1>13. QED BY <1>11, <1>12

\* BeginScript: the articles are read.  A script that is not early has all of
\* those that were asked for, because nobody is linking its episode.
LEMMA BeginScriptKeeps ==
  ASSUME DeskInv, NEW h \in Hands, BeginScript(h)
  PROVE  DeskInv'
<1>1. /\ deskSite' = deskSite /\ selected' = selected /\ desk' = desk
      /\ Busy(h) /\ hand[h].script = 0 /\ jobs[hand[h].job].type = "script"
  BY DEF BeginScript
<1>2. PICK i, e : i = hand[h].job /\ e = jobs[i].episode
  OBVIOUS
<1>3. /\ hand[h] \in HandRows /\ i \in DOMAIN jobs /\ e \in DOMAIN episodes
      /\ i # 0 /\ jobs[i] \in JobRows
      /\ episodes[e] \in EpisodeRows /\ e \in Nat
  BY <1>1, <1>2, InHand DEF DeskInv, DeskTypes, Busy
<1>4. /\ episodes \in Seq(EpisodeRows) /\ scripts \in Seq(ScriptRows)
      /\ jobs \in Seq(JobRows)
      /\ hand \in [Hands -> HandRows]
  BY DEF DeskInv, DeskTypes
<1>5. CASE episodes[e].gone \/ episodes[e].links = {}
  <2>1. Settle(h, "failed") /\ episodes' = episodes /\ scripts' = scripts
    BY <1>2, <1>5 DEF BeginScript
  <2>2. /\ hand' = [hand EXCEPT ![h] = Free]
        /\ jobs' \in Seq(JobRows) /\ DOMAIN jobs' = DOMAIN jobs
        /\ SameJobs(jobs')
    BY <1>1, <2>1, SettledIs
  <2>3. /\ episodes' \in Seq(EpisodeRows) /\ DOMAIN episodes' = DOMAIN episodes
        /\ Touched(episodes')
    BY <1>4, <2>1 DEF Touched
  <2>4. QED BY <1>1, <2>1, <2>2, <2>3, FreeTyped, LetGoKeeps
<1>6. CASE ~(episodes[e].gone \/ episodes[e].links = {})
  <2>1. PICK n \in Nat, w \in HandRows : Begun(h, i, e, n, w) BY <1>2, <1>6, BegunIs, Zenon
  <2>2. /\ n # 0 /\ w.job = i /\ w.script = n /\ w.sources = episodes[e].links
        /\ hand' = [hand EXCEPT ![h] = w]
        /\ episodes' = [episodes EXCEPT ![e] = [@ EXCEPT !.status = "generating_script",
                                                         !.stranded = FALSE]]
        /\ jobs' = [jobs EXCEPT ![i].script = n]
    BY <2>1 DEF Begun
  <2>3. /\ scripts' \in Seq(ScriptRows) /\ DOMAIN scripts' = DOMAIN scripts \cup {n}
        /\ \A s \in DOMAIN scripts : s # n => scripts'[s] = scripts[s]
        /\ scripts'[n].episode = e /\ scripts'[n].status = "generating"
        /\ \A o \in Staff : Links(desk[o], e) => scripts'[n].early
        /\ n \in DOMAIN scripts =>
             /\ scripts[n].episode = e /\ scripts[n].status \in {"failed", "generating"}
             /\ scripts[n].early => scripts'[n].early
             /\ scripts[n].shared => scripts'[n].shared
        /\ \A k \in Hands : Scripting(hand[k], jobs) /\ hand[k].script = n => scripts'[n].shared
    BY <2>1 DEF Begun, BegunRow
  <2>4. /\ episodes' \in Seq(EpisodeRows) /\ DOMAIN episodes' = DOMAIN episodes
        /\ Touched(episodes')
    <3>1. PICK v \in EpisodeRows :
            v = [episodes[e] EXCEPT !.status = "generating_script", !.stranded = FALSE]
      BY <1>3 DEF EpisodeRows, EpisodeStatuses
    <3>2. /\ v.links = episodes[e].links /\ v.asked = episodes[e].asked
          /\ v.gone = episodes[e].gone /\ v.resaved = episodes[e].resaved
      BY <1>3, <3>1 DEF EpisodeRows
    <3>3. episodes' = [episodes EXCEPT ![e] = v] BY <2>2, <3>1
    <3>4. /\ episodes' \in Seq(EpisodeRows) /\ DOMAIN episodes' = DOMAIN episodes /\ episodes'[e] = v
          /\ \A x \in DOMAIN episodes : x # e => episodes'[x] = episodes[x]
      BY <1>3, <1>4, <3>3, Replaced
    <3>5. QED BY <3>2, <3>4 DEF Touched
  <2>5. /\ hand' \in [Hands -> HandRows] /\ hand'[h] = w
        /\ \A k \in Hands : k # h => hand'[k] = hand[k]
    BY <1>4, <2>2
  <2>6. /\ jobs' \in Seq(JobRows) /\ DOMAIN jobs' = DOMAIN jobs
        /\ \A j \in DOMAIN jobs :
             /\ jobs'[j].type = jobs[j].type /\ jobs'[j].episode = jobs[j].episode
             /\ jobs[j].type = "audio" => jobs'[j].script = jobs[j].script
    <3>1. PICK v \in JobRows : v = [jobs[i] EXCEPT !.script = n] BY <1>3 DEF JobRows
    <3>2. v.type = jobs[i].type /\ v.episode = jobs[i].episode BY <1>3, <3>1 DEF JobRows
    <3>3. jobs' = [jobs EXCEPT ![i] = v] BY <2>2, <3>1
    <3>4. QED BY <1>1, <1>2, <1>3, <1>4, <3>2, <3>3, Replaced
  <2>7. ASSUME NEW s \in DOMAIN scripts'
        PROVE  /\ ScriptFits(scripts'[s], episodes')
               /\ \A o \in Staff : Links(desk[o], scripts'[s].episode) => scripts'[s].early
    <3>1. CASE s = n BY <1>3, <1>6, <2>3, <2>4, <3>1 DEF ScriptFits, Touched
    <3>2. CASE s # n
      <4>1. /\ ScriptFits(scripts[s], episodes) /\ scripts'[s] = scripts[s]
            /\ \A o \in Staff : Links(desk[o], scripts[s].episode) => scripts[s].early
        BY <2>3, <3>2 DEF DeskInv, ScriptsFit
      <4>2. QED BY <2>4, <4>1 DEF ScriptFits, Sourced, Touched
    <3>3. QED BY <3>1, <3>2
  <2>8. Sourced(scripts'[n], episodes'[e], episodes[e].links)
    <3>1. ~scripts'[n].early => Complete(episodes[e])
      BY <1>3, <2>3 DEF DeskInv, RequestsFit, AllComplete
    <3>2. QED BY <1>3, <1>6, <2>4, <3>1 DEF Sourced, Complete, Touched
  <2>9. ASSUME NEW k \in Hands
        PROVE  /\ HandFits(hand'[k], episodes', jobs', scripts')
               /\ k # h /\ Scripting(hand'[k], jobs') =>
                    /\ Scripting(hand[k], jobs) /\ hand[k].script \in DOMAIN scripts
                    /\ scripts[hand[k].script].shared => scripts'[hand[k].script].shared
    <3>1. CASE k = h
      BY <1>1, <1>2, <1>3, <2>2, <2>3, <2>5, <2>6, <2>8, <3>1 DEF HandFits, Scripting
    <3>2. CASE k # h
      <4>1. HandFits(hand[k], episodes, jobs, scripts) /\ hand'[k] = hand[k]
        BY <2>5, <3>2 DEF DeskInv, HandsFit
      <4>2. Scripting(hand[k], jobs') <=> Scripting(hand[k], jobs)
        BY <2>6, <4>1 DEF HandFits, Scripting
      <4>3. CASE Scripting(hand[k], jobs)
        <5>1. PICK s, x : s = hand[k].script /\ x = jobs[hand[k].job].episode
          OBVIOUS
        <5>2. /\ s \in DOMAIN scripts /\ scripts[s].episode = x /\ hand[k].job \in DOMAIN jobs
              /\ scripts[s].status \in {"generating", "deleted"} \/ scripts[s].shared
              /\ Sourced(scripts[s], episodes[x], hand[k].sources)
          BY <4>1, <4>3, <5>1 DEF HandFits, Scripting
        <5>3. x \in DOMAIN episodes BY <5>2 DEF DeskInv, ScriptsFit, ScriptFits
        <5>4. /\ scripts'[s].episode = x /\ (scripts[s].shared => scripts'[s].shared)
              /\ scripts'[s].status \in {"generating", "deleted"} \/ scripts'[s].shared
              /\ Sourced(scripts'[s], episodes'[x], hand[k].sources)
          <6>1. CASE s = n BY <2>3, <2>4, <4>3, <5>1, <5>2, <5>3, <6>1 DEF Sourced, Touched
          <6>2. CASE s # n BY <2>3, <2>4, <5>2, <5>3, <6>2 DEF Sourced, Touched
          <6>3. QED BY <6>1, <6>2
        <5>5. HandFits(hand[k], episodes', jobs', scripts')
          BY <2>3, <2>6, <4>3, <5>1, <5>2, <5>4 DEF HandFits, Scripting
        <5>6. QED BY <4>1, <4>3, <5>1, <5>2, <5>4, <5>5
      <4>4. CASE ~Scripting(hand[k], jobs)
        BY <2>3, <2>6, <4>1, <4>2, <4>4 DEF HandFits, DeskInv, ScriptsFit, JobFits
      <4>5. QED BY <4>3, <4>4
    <3>3. QED BY <3>1, <3>2
  <2>10. OwnScripts(hand', jobs', scripts')
    <3> SUFFICES ASSUME NEW k \in Hands, NEW l \in Hands, k # l, Scripting(hand'[k], jobs'),
                        Scripting(hand'[l], jobs')
                 PROVE  hand'[k].script # hand'[l].script \/ scripts'[hand'[k].script].shared
      BY DEF OwnScripts
    <3>1. CASE k # h /\ l # h BY <2>5, <2>9, <3>1 DEF DeskInv, HandsFit, OwnScripts
    <3>2. CASE k = h
      <4>1. Scripting(hand[l], jobs) /\ hand[l].script \in DOMAIN scripts /\ hand'[l] = hand[l]
        BY <2>5, <2>9, <3>2
      <4>2. QED BY <2>2, <2>3, <2>5, <3>2, <4>1
    <3>3. CASE l = h
      <4>1. Scripting(hand[k], jobs) /\ hand[k].script \in DOMAIN scripts /\ hand'[k] = hand[k]
        BY <2>5, <2>9, <3>3
      <4>2. QED BY <2>2, <2>3, <2>5, <3>3, <4>1
    <3>4. QED BY <3>1, <3>2, <3>3
  <2>11. \A s \in DOMAIN scripts :
          /\ scripts'[s].episode = scripts[s].episode
          /\ scripts[s].status \in {"ready", "deleted"} \/ scripts[s].shared
               => scripts'[s].status \in {"ready", "deleted"} \/ scripts'[s].shared
    BY <2>3
  <2>12. DOMAIN scripts \subseteq DOMAIN scripts' BY <2>3
  <2>13. \A k \in Hands : HandFits(hand'[k], episodes', jobs', scripts') BY <2>9
  <2>14. QED BY <1>1, <2>3, <2>4, <2>5, <2>6, <2>7, <2>10, <2>11, <2>12, <2>13, WorkerStep
<1>7. QED BY <1>5, <1>6

\* The worker leaves what it has made, if the episode is still there.
LEMMA LeavingKeeps ==
  ASSUME DeskInv, NEW h \in Hands, Busy(h), NEW c \in {"succeeded", "failed"}, Settle(h, c),
         NEW row, NEW s \in DOMAIN scripts, s = hand[h].script,
         NEW e \in DOMAIN episodes, e = scripts[s].episode,
         \/ Leaves(h, row)
         \/ /\ ~episodes[e].gone /\ scripts' = [scripts EXCEPT ![s] = row]
            /\ episodes' = [episodes EXCEPT ![e].stranded = TRUE],
         deskSite' = deskSite, selected' = selected, desk' = desk,
         ~episodes[e].gone =>
           /\ row \in ScriptRows /\ row.episode = e
           /\ row.early = scripts[s].early /\ row.shared = scripts[s].shared
           /\ row.status # "deleted"
           /\ row.status = "ready" => Sourced(row, episodes[e], row.sources)
           /\ scripts[s].status = "ready" => row.status = "ready" \/ row.shared
           /\ scripts[s].shared \/ scripts[s].status = "ready" \/ Scripting(hand[h], jobs)
  PROVE  DeskInv'
<1>1. /\ hand' = [hand EXCEPT ![h] = Free]
      /\ jobs' \in Seq(JobRows) /\ DOMAIN jobs' = DOMAIN jobs
      /\ SameJobs(jobs')
  BY SettledIs
<1>2. CASE episodes[e].gone
  <2>1. episodes' = episodes /\ scripts' = scripts BY <1>2 DEF Leaves
  <2>2. /\ episodes' \in Seq(EpisodeRows) /\ DOMAIN episodes' = DOMAIN episodes
        /\ Touched(episodes')
    BY <2>1 DEF Touched, DeskInv, DeskTypes
  <2>3. QED BY <1>1, <2>1, <2>2, FreeTyped, LetGoKeeps
<1>3. CASE ~episodes[e].gone
  <2>1. /\ scripts' = [scripts EXCEPT ![s] = row]
        /\ episodes' = Idled(e, row) \/ episodes' = [episodes EXCEPT ![e].stranded = TRUE]
    BY <1>3 DEF Leaves
  <2>2. /\ row \in ScriptRows /\ row.episode = e /\ row.early = scripts[s].early
        /\ row.shared = scripts[s].shared /\ row.status # "deleted"
        /\ row.status = "ready" => Sourced(row, episodes[e], row.sources)
        /\ scripts[s].status = "ready" => row.status = "ready" \/ row.shared
        /\ scripts[s].shared \/ scripts[s].status = "ready" \/ Scripting(hand[h], jobs)
    BY <1>3
  <2>3. /\ scripts' \in Seq(ScriptRows) /\ DOMAIN scripts' = DOMAIN scripts
        /\ scripts'[s] = row
        /\ \A t \in DOMAIN scripts : t # s => scripts'[t] = scripts[t]
    BY <2>1, <2>2, Replaced DEF DeskInv, DeskTypes
  <2>4. /\ episodes' \in Seq(EpisodeRows) /\ DOMAIN episodes' = DOMAIN episodes
        /\ Touched(episodes')
    <3>1. DeskTypes BY DEF DeskInv
    <3>2. CASE episodes' = Idled(e, row) BY <3>1, <3>2, TouchedIs DEF Idled, EpisodeStatuses
    <3>3. CASE episodes' = [episodes EXCEPT ![e].stranded = TRUE] BY <3>1, <3>3, TouchedIs
    <3>4. QED BY <2>1, <3>2, <3>3
  <2>5. /\ ScriptFits(scripts[s], episodes)
        /\ \A o \in Staff : Links(desk[o], e) => scripts[s].early
    BY DEF DeskInv, ScriptsFit
  <2>6. ASSUME NEW t \in DOMAIN scripts'
        PROVE  /\ ScriptFits(scripts'[t], episodes')
               /\ \A o \in Staff : Links(desk[o], scripts'[t].episode) => scripts'[t].early
    <3>1. CASE t = s
      <4>1. ~episodes'[e].gone /\ (row.status = "ready" => Sourced(row, episodes'[e], row.sources))
        BY <1>3, <2>2, <2>4 DEF Sourced, Touched
      <4>2. QED BY <2>2, <2>3, <2>4, <2>5, <3>1, <4>1 DEF ScriptFits
    <3>2. CASE t # s
      <4>1. /\ ScriptFits(scripts[t], episodes) /\ scripts'[t] = scripts[t]
            /\ \A o \in Staff : Links(desk[o], scripts[t].episode) => scripts[t].early
        BY <2>3, <3>2 DEF DeskInv, ScriptsFit
      <4>2. QED BY <2>4, <4>1 DEF ScriptFits, Sourced, Touched
    <3>3. QED BY <3>1, <3>2
  <2>7. \A t \in DOMAIN scripts :
          \/ scripts'[t] = scripts[t]
          \/ /\ scripts'[t].episode = scripts[t].episode /\ (scripts'[t].early <=> scripts[t].early)
             /\ (scripts'[t].shared <=> scripts[t].shared) /\ scripts[t].status # "deleted"
             /\ \/ scripts[t].shared \/ scripts[t].status = "ready"
                \/ Scripting(hand[h], jobs) /\ t = hand[h].script
    BY <1>3, <2>2, <2>3, <2>5 DEF ScriptFits
  <2>8. /\ hand' \in [Hands -> HandRows]
        /\ \A k \in Hands : HandFits(hand'[k], episodes', jobs', scripts')
        /\ OwnScripts(hand', jobs', scripts')
    BY <1>1, <2>3, <2>4, <2>7, FreeTyped, HandEmptied
  <2>9. /\ DOMAIN scripts \subseteq DOMAIN scripts'
        /\ \A t \in DOMAIN scripts :
             /\ scripts'[t].episode = scripts[t].episode
             /\ scripts[t].status \in {"ready", "deleted"} \/ scripts[t].shared
                  => scripts'[t].status \in {"ready", "deleted"} \/ scripts'[t].shared
    <3>1. scripts[s].status # "deleted" BY <1>3, <2>5 DEF ScriptFits
    <3>2. QED BY <2>2, <2>3, <3>1
  <2>10. QED BY <1>1, <2>3, <2>4, <2>6, <2>8, <2>9, WorkerStep DEF SameJobs
<1>4. QED BY <1>2, <1>3

\* FinishScript, RefuseScript and FailCommit.
LEMMA WritingKeeps ==
  ASSUME DeskInv, NEW h \in Hands, FinishScript(h) \/ RefuseScript(h) \/ FailCommit(h)
  PROVE  DeskInv'
<1>1. /\ deskSite' = deskSite /\ selected' = selected /\ desk' = desk
      /\ Busy(h) /\ hand[h].script # 0 /\ jobs[hand[h].job].type = "script"
  BY DEF FinishScript, RefuseScript, FailCommit, AtScript
<1>2. PICK s, e : s = hand[h].script /\ e = scripts[s].episode
  OBVIOUS
<1>3. HandFits(hand[h], episodes, jobs, scripts) /\ hand[h] \in HandRows BY <1>1, InHand
<1>4. Scripting(hand[h], jobs) BY <1>1 DEF Scripting, Busy
<1>5. /\ s \in DOMAIN scripts /\ jobs[hand[h].job].episode = e
      /\ scripts[s].status \in {"generating", "deleted"} \/ scripts[s].shared
      /\ Sourced(scripts[s], episodes[e], hand[h].sources)
  BY <1>2, <1>3, <1>4 DEF HandFits, Scripting
<1>6. /\ scripts[s] \in ScriptRows /\ ScriptFits(scripts[s], episodes)
      /\ e \in DOMAIN episodes /\ episodes \in Seq(EpisodeRows)
  BY <1>2, <1>5 DEF DeskInv, DeskTypes, ScriptsFit, ScriptFits
<1>7. PICK L \in SUBSET Articles : L = hand[h].sources BY <1>3 DEF HandRows
<1>8. PICK row \in ScriptRows, c \in {"succeeded", "failed"} :
        /\ \/ Leaves(h, row)
           \/ /\ ~episodes[e].gone /\ scripts' = [scripts EXCEPT ![s] = row]
              /\ episodes' = [episodes EXCEPT ![e].stranded = TRUE]
        /\ Settle(h, c)
        /\ row.episode = e /\ row.early = scripts[s].early /\ row.shared = scripts[s].shared
        /\ \/ row.status = "ready" /\ row.sources = L
           \/ row.status = "failed"
  <2>1. CASE FinishScript(h)
    <3>1. PICK row \in ScriptRows :
            row = [scripts[s] EXCEPT !.status = "ready", !.sources = L, !.voiced = FALSE]
      BY <1>6, <1>7 DEF ScriptRows
    <3>2. /\ row.episode = e /\ row.early = scripts[s].early /\ row.shared = scripts[s].shared
          /\ row.status = "ready" /\ row.sources = L
      BY <1>2, <1>6, <3>1 DEF ScriptRows
    <3>3. row = Written(h) BY <1>2, <1>7, <3>1 DEF Written
    <3>4. PICK c \in {"succeeded", "failed"} : c = Outcome(h) BY DEF Outcome
    <3>5. QED BY <2>1, <3>2, <3>3, <3>4 DEF FinishScript
  <2>2. CASE RefuseScript(h) \/ FailCommit(h)
    <3>1. PICK row \in ScriptRows : row = [scripts[s] EXCEPT !.status = "failed"]
      BY <1>6 DEF ScriptRows
    <3>2. /\ row.episode = e /\ row.early = scripts[s].early /\ row.shared = scripts[s].shared
          /\ row.status = "failed"
      BY <1>2, <1>6, <3>1 DEF ScriptRows
    <3>3. row = Refused(h) BY <1>2, <3>1 DEF Refused
    <3>4. CASE RefuseScript(h) BY <3>2, <3>3, <3>4 DEF RefuseScript
    <3>5. CASE FailCommit(h)
      <4>1. /\ ~episodes[e].gone /\ scripts' = [scripts EXCEPT ![s] = row]
            /\ episodes' = [episodes EXCEPT ![e].stranded = TRUE] /\ Settle(h, "failed")
        BY <1>2, <3>3, <3>5 DEF FailCommit
      <4>2. QED BY <3>2, <4>1
    <3>6. QED BY <2>2, <3>4, <3>5
  <2>3. QED BY <2>1, <2>2
<1>9. ~episodes[e].gone => scripts[s].status # "deleted" BY <1>2, <1>6 DEF ScriptFits
<1>10. ~episodes[e].gone => (row.status = "ready" => Sourced(row, episodes[e], row.sources))
  BY <1>5, <1>7, <1>8, <1>9 DEF Sourced
<1>11. /\ row.status # "deleted" /\ row.shared = scripts[s].shared
       /\ ~episodes[e].gone /\ scripts[s].status = "ready" => row.shared
  BY <1>5, <1>8, <1>9
<1>12. QED BY <1>1, <1>2, <1>4, <1>5, <1>6, <1>8, <1>10, <1>11, LeavingKeeps

\* FinishAudio: the script is spoken; it is still made of the same.
LEMMA FinishAudioKeeps ==
  ASSUME DeskInv, NEW h \in Hands, FinishAudio(h)
  PROVE  DeskInv'
<1>1. /\ deskSite' = deskSite /\ selected' = selected /\ desk' = desk
      /\ Busy(h) /\ hand[h].script # 0 /\ jobs[hand[h].job].type = "audio"
  BY DEF FinishAudio, AtAudio
<1>2. PICK s, e : s = hand[h].script /\ e = scripts[s].episode
  OBVIOUS
<1>3. /\ HandFits(hand[h], episodes, jobs, scripts)
      /\ JobFits(jobs[hand[h].job], episodes, scripts)
  BY <1>1, InHand
<1>4. s \in DOMAIN scripts /\ (scripts[s].status \in {"ready", "deleted"} \/ scripts[s].shared)
  BY <1>1, <1>2, <1>3 DEF HandFits, JobFits
<1>5. /\ scripts[s] \in ScriptRows /\ ScriptFits(scripts[s], episodes)
      /\ e \in DOMAIN episodes
  BY <1>2, <1>4 DEF DeskInv, DeskTypes, ScriptsFit, ScriptFits
<1>6. PICK row \in ScriptRows : row = [scripts[s] EXCEPT !.voiced = TRUE] BY <1>5 DEF ScriptRows
<1>7. /\ row.episode = e /\ row.early = scripts[s].early
      /\ row.shared = scripts[s].shared /\ row.status = scripts[s].status
      /\ row.sources = scripts[s].sources
  BY <1>2, <1>5, <1>6 DEF ScriptRows
<1>8. PICK c \in {"succeeded", "failed"} : c = Outcome(h) BY DEF Outcome
<1>9. Leaves(h, row) /\ Settle(h, c) BY <1>2, <1>6, <1>8 DEF FinishAudio
<1>10. ~episodes[e].gone =>
         /\ row.status # "deleted" /\ (scripts[s].shared \/ scripts[s].status = "ready")
         /\ row.status = "ready" => Sourced(row, episodes[e], row.sources)
  BY <1>2, <1>4, <1>5, <1>7 DEF ScriptFits, Sourced
<1>11. QED BY <1>1, <1>2, <1>4, <1>5, <1>7, <1>8, <1>9, <1>10, LeavingKeeps

\* BeginAudio: a usable script is taken in hand.
LEMMA BeginAudioKeeps ==
  ASSUME DeskInv, NEW h \in Hands, BeginAudio(h)
  PROVE  DeskInv'
<1>1. /\ deskSite' = deskSite /\ selected' = selected /\ desk' = desk
      /\ scripts' = scripts
      /\ Busy(h) /\ hand[h].script = 0 /\ jobs[hand[h].job].type = "audio"
  BY DEF BeginAudio
<1>2. PICK i, s, e : i = hand[h].job /\ s = jobs[i].script /\ e = scripts[s].episode
  OBVIOUS
<1>3. /\ hand[h] \in HandRows /\ i \in DOMAIN jobs /\ i # 0
      /\ JobFits(jobs[i], episodes, scripts)
  BY <1>1, <1>2, InHand DEF Busy
<1>4. s \in DOMAIN scripts BY <1>1, <1>2, <1>3 DEF JobFits
<1>5. /\ e \in DOMAIN episodes /\ s \in Nat /\ hand \in [Hands -> HandRows]
      /\ jobs \in Seq(JobRows)
      /\ DeskTypes /\ scripts \in Seq(ScriptRows)
  BY <1>2, <1>4 DEF DeskInv, DeskTypes, ScriptsFit, ScriptFits
<1>6. CASE ~Usable(s)
  <2>1. Settle(h, "failed") /\ episodes' = episodes BY <1>2, <1>6 DEF BeginAudio
  <2>2. /\ hand' = [hand EXCEPT ![h] = Free]
        /\ jobs' \in Seq(JobRows) /\ DOMAIN jobs' = DOMAIN jobs
        /\ SameJobs(jobs')
    BY <1>1, <2>1, SettledIs
  <2>3. /\ episodes' \in Seq(EpisodeRows) /\ DOMAIN episodes' = DOMAIN episodes
        /\ Touched(episodes')
    BY <2>1 DEF Touched, DeskInv, DeskTypes
  <2>4. QED BY <1>1, <2>2, <2>3, FreeTyped, LetGoKeeps
<1>7. CASE Usable(s)
  <2>1. PICK w \in HandRows : w = [hand[h] EXCEPT !.script = s] BY <1>3, <1>5 DEF HandRows
  <2>2. w.job = i /\ w.script = s BY <1>2, <1>3, <2>1 DEF HandRows
  <2>3. /\ episodes' = [episodes EXCEPT ![e].status = "generating_audio"]
        /\ hand' = [hand EXCEPT ![h] = w] /\ jobs' = jobs
    BY <1>2, <1>7, <2>1 DEF BeginAudio
  <2>4. /\ episodes' \in Seq(EpisodeRows) /\ DOMAIN episodes' = DOMAIN episodes
        /\ Touched(episodes')
    BY <1>5, <2>3, TouchedIs DEF EpisodeStatuses
  <2>5. /\ hand' \in [Hands -> HandRows] /\ hand'[h] = w
        /\ \A k \in Hands : k # h => hand'[k] = hand[k]
    BY <1>5, <2>3
  <2>6. ~Scripting(w, jobs) /\ HandFits(w, episodes', jobs, scripts)
    BY <1>1, <1>2, <1>3, <1>4, <2>2 DEF Scripting, HandFits
  <2>7. ASSUME NEW k \in Hands PROVE HandFits(hand'[k], episodes', jobs, scripts)
    <3>1. CASE k = h BY <2>5, <2>6, <3>1
    <3>2. CASE k # h
      <4>1. HandFits(hand[k], episodes, jobs, scripts) /\ hand'[k] = hand[k]
        BY <2>5, <3>2 DEF DeskInv, HandsFit
      <4>2. CASE Scripting(hand[k], jobs)
        <5>1. jobs[hand[k].job].episode \in DOMAIN episodes
          BY <4>1, <4>2 DEF HandFits, Scripting, DeskInv, ScriptsFit, JobFits
        <5>2. QED BY <2>4, <4>1, <4>2, <5>1 DEF HandFits, Sourced, Touched
      <4>3. CASE ~Scripting(hand[k], jobs) BY <4>1, <4>3 DEF HandFits
      <4>4. QED BY <4>2, <4>3
    <3>3. QED BY <3>1, <3>2
  <2>8. OwnScripts(hand', jobs, scripts) BY <2>5, <2>6 DEF DeskInv, HandsFit, OwnScripts
  <2>9. ASSUME NEW t \in DOMAIN scripts
        PROVE  /\ ScriptFits(scripts[t], episodes')
               /\ \A o \in Staff : Links(desk[o], scripts[t].episode) => scripts[t].early
    <3>1. /\ ScriptFits(scripts[t], episodes)
          /\ \A o \in Staff : Links(desk[o], scripts[t].episode) => scripts[t].early
      BY DEF DeskInv, ScriptsFit
    <3>2. QED BY <2>4, <3>1 DEF ScriptFits, Sourced, Touched
  <2>10. /\ jobs' \in Seq(JobRows) /\ DOMAIN jobs' = DOMAIN jobs
         /\ SameJobs(jobs')
         /\ scripts' \in Seq(ScriptRows)
         /\ DOMAIN scripts \subseteq DOMAIN scripts'
         /\ \A t \in DOMAIN scripts :
              /\ scripts'[t].episode = scripts[t].episode
              /\ scripts'[t] = scripts[t]
         /\ \A t \in DOMAIN scripts' :
              /\ ScriptFits(scripts'[t], episodes')
              /\ \A o \in Staff : Links(desk[o], scripts'[t].episode) => scripts'[t].early
         /\ \A k \in Hands : HandFits(hand'[k], episodes', jobs', scripts')
         /\ OwnScripts(hand', jobs', scripts')
    BY <1>1, <1>5, <2>3, <2>7, <2>8, <2>9 DEF SameJobs
  <2>11. QED BY <1>1, <2>4, <2>5, <2>10, WorkerStep DEF SameJobs
<1>8. QED BY <1>6, <1>7

\* RefuseAudio and LoseWorker: the worker is rid of its job.
LEMMA LosingKeeps ==
  ASSUME DeskInv, NEW h \in Hands, RefuseAudio(h) \/ LoseWorker(h)
  PROVE  DeskInv'
<1>1. /\ deskSite' = deskSite /\ selected' = selected /\ desk' = desk
      /\ scripts' = scripts
      /\ Busy(h) /\ DeskTypes
  BY DEF RefuseAudio, LoseWorker, AtAudio, DeskInv
<1>2. PICK i, e : i = hand[h].job /\ e = jobs[i].episode
  OBVIOUS
<1>3. i \in DOMAIN jobs /\ jobs[i] \in JobRows /\ e \in DOMAIN episodes BY <1>1, <1>2, InHand
<1>4. /\ episodes' \in Seq(EpisodeRows) /\ DOMAIN episodes' = DOMAIN episodes
      /\ Touched(episodes')
  <2>1. episodes' = episodes \/ episodes' = [episodes EXCEPT ![e].stranded = TRUE]
    BY <1>2 DEF RefuseAudio, LoseWorker
  <2>2. QED BY <1>1, <1>3, <2>1, TouchedIs
<1>5. /\ hand' = [hand EXCEPT ![h] = Free]
      /\ jobs' \in Seq(JobRows) /\ DOMAIN jobs' = DOMAIN jobs
      /\ SameJobs(jobs')
  <2>1. CASE Settle(h, "failed") BY <1>1, <2>1, SettledIs
  <2>2. CASE LoseWorker(h)
    <3>1. PICK v \in JobRows : v = [jobs[i] EXCEPT !.lost = TRUE] BY <1>3 DEF JobRows
    <3>2. v.type = jobs[i].type /\ v.episode = jobs[i].episode /\ v.script = jobs[i].script
      BY <1>3, <3>1 DEF JobRows
    <3>3. jobs' = [jobs EXCEPT ![i] = v] /\ hand' = [hand EXCEPT ![h] = Free]
      BY <1>2, <2>2, <3>1 DEF LoseWorker
    <3>4. QED BY <1>1, <1>3, <3>2, <3>3, ChangedJob
  <2>3. CASE /\ jobs' = [jobs EXCEPT ![i] = [@ EXCEPT !.status = "retrying", !.waiting = TRUE]]
             /\ hand' = [hand EXCEPT ![h] = Free]
    <3>1. PICK v \in JobRows : v = [jobs[i] EXCEPT !.status = "retrying", !.waiting = TRUE]
      BY <1>3 DEF JobRows
    <3>2. v.type = jobs[i].type /\ v.episode = jobs[i].episode /\ v.script = jobs[i].script
      BY <1>3, <3>1 DEF JobRows
    <3>3. jobs' = [jobs EXCEPT ![i] = v] BY <2>3, <3>1
    <3>4. QED BY <1>1, <1>3, <2>3, <3>2, <3>3, ChangedJob
  <2>4. QED BY <1>2, <2>1, <2>2, <2>3 DEF RefuseAudio
<1>6. QED BY <1>1, <1>4, <1>5, FreeTyped, LetGoKeeps

-----------------------------------------------------------------------------
(* The pages as a whole.                                                   *)

\* The invariant holds when the pages are opened.
LEMMA DeskStart ==
  ASSUME DeskInit
  PROVE  DeskInv
<1>1. /\ deskSite \in DeskSites /\ selected = deskSite.selected
      /\ episodes = deskSite.episodes /\ scripts = <<>> /\ jobs = <<>>
      /\ desk = [o \in Staff |-> Answered]
      /\ hand = [h \in Hands |-> [job |-> 0, script |-> 0, sources |-> {}]]
  BY DEF DeskInit
<1>2. selected \in SUBSET Articles BY <1>1, DeskSitesAssumption DEF Articles
<1>3. /\ episodes \in Seq(EpisodeRows)
      /\ \A e \in DOMAIN episodes : episodes[e].asked = {}
  <2>1. PICK R : R = [status : {"draft", "collecting"}, links : SUBSET Articles,
                      gone : {FALSE}, asked : {{}}, resaved : {FALSE}, stranded : {FALSE}]
    OBVIOUS
  <2>2. episodes \in Seq(R) BY <1>1, <2>1, DeskSitesAssumption DEF Articles
  <2>3. \A v \in R : v \in EpisodeRows /\ v.asked = {} BY <2>1 DEF EpisodeRows, EpisodeStatuses
  <2>4. \A e \in DOMAIN episodes : episodes[e] \in R BY <2>2
  <2>5. episodes \in [1..Len(episodes) -> EpisodeRows] /\ Len(episodes) \in Nat BY <2>2, <2>3, <2>4
  <2>6. QED BY <2>3, <2>4, <2>5
<1>4. /\ desk \in [Staff -> RequestRows]
      /\ \A o \in Staff : desk[o].pc = "reload" /\ desk[o].form = {}
  BY <1>1, RequestTyped
<1>5. hand \in [Hands -> HandRows] /\ \A h \in Hands : hand[h].job = 0 /\ hand[h].script = 0
  <2>1. PICK w : w = [job |-> 0, script |-> 0, sources |-> {}]
    OBVIOUS
  <2>2. w \in HandRows /\ w.job = 0 /\ w.script = 0 BY <2>1 DEF HandRows
  <2>3. hand = [h \in Hands |-> w] BY <1>1, <2>1
  <2>4. QED BY <2>2, <2>3
<1>6. scripts \in Seq(ScriptRows) /\ jobs \in Seq(JobRows) /\ DOMAIN scripts = {} /\ DOMAIN jobs = {}
  BY <1>1
<1>7. DeskTypes BY <1>1, <1>2, <1>3, <1>4, <1>5, <1>6 DEF DeskTypes
<1>8. RequestsFit
  <2>1. \A o \in Staff : RequestFits(desk[o], selected, episodes, jobs, scripts)
    BY <1>4 DEF RequestFits, Holds, Makes, Chosen
  <2>2. Apart(desk) BY <1>4 DEF Apart, Makes, Holds
  <2>3. AllComplete(episodes, desk) BY <1>3 DEF AllComplete, Complete
  <2>4. QED BY <2>1, <2>2, <2>3 DEF RequestsFit
<1>9. ScriptsFit BY <1>6 DEF ScriptsFit
<1>10. HandsFit BY <1>5 DEF HandsFit, HandFits, Scripting, OwnScripts
<1>11. QED BY <1>7, <1>8, <1>9, <1>10 DEF DeskInv

\* A step of the pages is one of a person, of a worker or of the planner.
LEMMA PersonKeeps ==
  ASSUME DeskInv, NEW o \in Staff,
         \/ LoadPage(o) \/ RequestStep(o)
         \/ SaveSources(o) \/ GenerateScript(o) \/ GenerateAgain(o) \/ AbortScript(o)
         \/ DeleteEpisode(o) \/ DeleteFailedJob(o) \/ OpenStudio(o)
  PROVE  DeskInv'
<1>1. CASE LoadPage(o) \/ SaveSources(o) \/ GenerateScript(o) \/ CheckActive(o) \/ AbortScript(o)
  BY <1>1, ReadingKeeps
<1>2. CASE ReadFlags(o) BY <1>2, ReadFlagsKeeps
<1>3. CASE SaveFlag(o) BY <1>3, SaveFlagKeeps
<1>4. CASE ReadSelected(o) BY <1>4, ReadSelectedKeeps
<1>5. CASE Unlink(o) BY <1>5, UnlinkKeeps
<1>6. CASE Link(o) BY <1>6, LinkKeeps
<1>7. CASE CreateEpisode(o) BY <1>7, CreateKeeps
<1>8. CASE QueueScript(o) BY <1>8, QueueKeeps
<1>9. CASE FindActive(o) BY <1>9, FindKeeps
<1>10. CASE CancelActive(o) BY <1>10, CancelKeeps
<1>11. CASE GenerateAudio(o) BY <1>11, AudioKeeps
<1>12. CASE GenerateAgain(o) BY <1>12, AskingAgainKeeps
<1>13. CASE DeleteEpisode(o) BY <1>13, DeleteKeeps
<1>14. CASE DeleteFailedJob(o) BY <1>14, ClearKeeps
<1>15. CASE OpenStudio(o) BY <1>15, OpenKeeps
<1>16. QED BY <1>1, <1>2, <1>3, <1>4, <1>5, <1>6, <1>7, <1>8, <1>9, <1>10, <1>11, <1>12,
     <1>13, <1>14, <1>15
     DEF RequestStep

\* Every step of the pages keeps the invariant.
LEMMA DeskKept ==
  ASSUME DeskInv, [DeskNext]_deskVars
  PROVE  DeskInv'
<1>1. deskSite.people \subseteq Staff /\ deskSite.hands \subseteq Hands
  BY DeskSitesAssumption DEF DeskInv, DeskTypes
<1>2. ASSUME NEW o \in deskSite.people,
             \/ LoadPage(o) \/ RequestStep(o)
             \/ SaveSources(o) \/ GenerateScript(o) \/ GenerateAgain(o) \/ AbortScript(o)
             \/ DeleteEpisode(o) \/ DeleteFailedJob(o) \/ OpenStudio(o)
      PROVE  DeskInv'
  BY <1>1, <1>2, PersonKeeps
<1>3. ASSUME NEW h \in deskSite.hands,
             WorkStep(h) \/ RefuseScript(h) \/ FailCommit(h) \/ RefuseAudio(h) \/ LoseWorker(h)
      PROVE  DeskInv'
  <2>1. h \in Hands BY <1>1
  <2>2. CASE TakeJob(h) BY <2>1, <2>2, TakeKeeps
  <2>3. CASE BeginScript(h) BY <2>1, <2>3, BeginScriptKeeps
  <2>4. CASE FinishScript(h) \/ RefuseScript(h) \/ FailCommit(h) BY <2>1, <2>4, WritingKeeps
  <2>5. CASE BeginAudio(h) BY <2>1, <2>5, BeginAudioKeeps
  <2>6. CASE FinishAudio(h) BY <2>1, <2>6, FinishAudioKeeps
  <2>7. CASE RefuseAudio(h) \/ LoseWorker(h) BY <2>1, <2>7, LosingKeeps
  <2>8. QED BY <1>3, <2>2, <2>3, <2>4, <2>5, <2>6, <2>7 DEF WorkStep
<1>4. CASE PlanEpisode BY <1>4, PlanKeeps
<1>5. CASE UNCHANGED deskVars
  <2>1. /\ deskSite' = deskSite /\ selected' = selected /\ episodes' = episodes
        /\ scripts' = scripts /\ jobs' = jobs /\ desk' = desk /\ hand' = hand
    BY <1>5 DEF deskVars
  <2>2. DeskTypes' BY <2>1, DeskTyped DEF DeskInv, DeskTypes
  <2>3. QED BY <2>1, <2>2, DeskInvNext DEF DeskInv, RequestsFit, ScriptsFit, HandsFit
<1>6. QED BY <1>2, <1>3, <1>4, <1>5 DEF DeskNext

\* The invariant says what the run checks.
LEMMA SourcesHold == DeskInv => ScriptsHaveTheirSources
<1> SUFFICES ASSUME DeskInv PROVE ScriptsHaveTheirSources
  OBVIOUS
<1>1. ASSUME NEW s \in DOMAIN scripts, NEW e, e = scripts[s].episode,
             scripts[s].status = "ready", episodes[e].asked # {}, ~scripts[s].early,
             ~episodes[e].resaved
      PROVE  scripts[s].sources = episodes[e].asked
  BY <1>1 DEF DeskInv, ScriptsFit, ScriptFits, Sourced
<1>2. ASSUME NEW j \in DOMAIN jobs, jobs[j].type = "audio"
      PROVE  \/ Usable(jobs[j].script) \/ episodes[jobs[j].episode].gone
             \/ scripts[jobs[j].script].shared
  <2>1. /\ jobs[j].script \in DOMAIN scripts
        /\ scripts[jobs[j].script].episode = jobs[j].episode
        /\ \/ scripts[jobs[j].script].status \in {"ready", "deleted"}
           \/ scripts[jobs[j].script].shared
    BY <1>2 DEF DeskInv, ScriptsFit, JobFits
  <2>2. ScriptFits(scripts[jobs[j].script], episodes) BY <2>1 DEF DeskInv, ScriptsFit
  <2>3. QED BY <2>1, <2>2 DEF ScriptFits, Usable
<1>3. QED BY <1>1, <1>2 DEF ScriptsHaveTheirSources

\* A request goes on by a step of its own only.
LEMMA OwnSteps ==
  ASSUME DeskInv, [DeskNext]_deskVars, NEW o \in Staff, desk[o].pc = "link",
         desk'[o].pc # "link"
  PROVE  Link(o)
<1>1. deskSite.people \subseteq Staff BY DeskSitesAssumption DEF DeskInv, DeskTypes
<1>2. PICK p \in deskSite.people :
        \/ LoadPage(p) \/ RequestStep(p)
        \/ SaveSources(p) \/ GenerateScript(p) \/ GenerateAgain(p) \/ AbortScript(p)
        \/ DeleteEpisode(p) \/ DeleteFailedJob(p) \/ OpenStudio(p)
  <2>1. desk' # desk
    OBVIOUS
  <2>2. QED BY <2>1 DEF DeskNext, deskVars, WorkStep, TakeJob, BeginScript, FinishScript,
      RefuseScript, FailCommit, BeginAudio, FinishAudio, RefuseAudio, LoseWorker,
      PlanEpisode
<1>3. CASE p = o
  BY <1>2, <1>3 DEF LoadPage, RequestStep, SaveSources, GenerateScript, GenerateAgain, AbortScript,
     DeleteEpisode, DeleteFailedJob, OpenStudio, ReadFlags, SaveFlag, ReadSelected, Unlink,
     CheckActive, CreateEpisode, QueueScript, FindActive, CancelActive, GenerateAudio, Begin, At
<1>4. CASE p # o
  <2>1. PICK r : Then(p, r) \/ ThenDisturbing(p, r)
    BY <1>2 DEF LoadPage, RequestStep, SaveSources, GenerateScript, GenerateAgain, AbortScript,
       DeleteEpisode, DeleteFailedJob, OpenStudio, ReadFlags, SaveFlag, ReadSelected, Unlink, Link,
       CheckActive, CreateEpisode, QueueScript, FindActive, CancelActive, GenerateAudio, Begin,
       Answer
  <2>2. desk[o] \in RequestRows /\ desk \in [Staff -> RequestRows] BY DEF DeskInv, DeskTypes
  <2>3. desk'[o].pc = desk[o].pc
    <3>1. PICK d : d = [desk[o] EXCEPT !.alone = FALSE]
      OBVIOUS
    <3>2. d.pc = desk[o].pc BY <2>2, <3>1 DEF RequestRows
    <3>3. QED BY <1>1, <1>4, <2>1, <2>2, <3>1, <3>2 DEF Then, ThenDisturbing
  <2>4. QED BY <2>3
<1>5. QED BY <1>3, <1>4

\* What an undisturbed save has come to when it ends.
LEMMA SavedWell ==
  ASSUME DeskInv, [DeskNext]_deskVars, NEW o \in Staff, Saved(o), desk[o].alone,
         ~episodes[desk[o].item].gone
  PROVE  /\ selected = (desk[o].before \ desk[o].scope) \cup desk[o].form
         /\ episodes[desk[o].item].links = selected
<1>1. desk[o].pc = "link" /\ desk[o].status # "new" /\ desk'[o].pc = "reload" BY DEF Saved, Asking
<1>2. Link(o) BY <1>1, OwnSteps
<1>3. desk[o] \in RequestRows /\ desk \in [Staff -> RequestRows] BY DEF DeskInv, DeskTypes
<1>4. desk[o].todo = {}
  <2> SUFFICES ASSUME desk[o].todo # {} PROVE FALSE
    OBVIOUS
  <2>1. PICK T, a : ThenDisturbing(o, [desk[o] EXCEPT !.todo = T \ {a}]) /\ T = desk[o].todo
    BY <1>2 DEF Link, SyncTarget
  <2>2. PICK d : d = [desk[o] EXCEPT !.todo = T \ {a}]
    OBVIOUS
  <2>3. d.pc = "link" BY <1>1, <1>3, <2>2 DEF RequestRows
  <2>4. desk'[o] = d BY <2>1, <2>2 DEF ThenDisturbing
  <2>5. QED BY <1>1, <2>3, <2>4
<1>5. Chosen(desk[o], selected) /\ Drafted(desk[o], episodes[desk[o].item])
  <2>1. Holds(desk[o]) BY <1>1 DEF Holds
  <2>2. QED BY <1>1, <2>1, HoldingKnows
<1>6. /\ selected = (desk[o].before \ desk[o].scope) \cup desk[o].form
      /\ desk[o].found = selected
      /\ episodes[desk[o].item].links \cup desk[o].todo = desk[o].found
  BY <1>1, <1>5 DEF Chosen, Drafted
<1>7. QED BY <1>4, <1>6

-----------------------------------------------------------------------------
(* The panel.                                                              *)

\* What the rows say of each other.
LEMMA RowsKnow ==
  ASSUME DeskInv
  PROVE  /\ \A e \in DOMAIN episodes : episodes[e] \in EpisodeRows
         /\ \A j \in DOMAIN jobs :
              jobs[j] \in JobRows /\ jobs[j].episode \in DOMAIN episodes /\ j # 0
         /\ \A s \in DOMAIN scripts :
              /\ scripts[s] \in ScriptRows
              /\ scripts[s].episode \in DOMAIN episodes
              /\ scripts[s].status = "deleted" <=> episodes[scripts[s].episode].gone
         /\ \A h \in Hands :
              /\ hand[h] \in HandRows
              /\ hand[h].job # 0 => hand[h].job \in DOMAIN jobs
              /\ Scripting(hand[h], jobs) =>
                   /\ hand[h].script \in DOMAIN scripts /\ hand[h].job # 0
                   /\ hand[h].job \in DOMAIN jobs
                   /\ scripts[hand[h].script].episode = jobs[hand[h].job].episode
<1>1. ASSUME NEW j \in DOMAIN jobs
      PROVE  jobs[j] \in JobRows /\ jobs[j].episode \in DOMAIN episodes /\ j # 0
  BY DEF DeskInv, DeskTypes, ScriptsFit, JobFits
<1>2. ASSUME NEW s \in DOMAIN scripts
      PROVE  /\ scripts[s] \in ScriptRows /\ scripts[s].episode \in DOMAIN episodes
             /\ scripts[s].status = "deleted" <=> episodes[scripts[s].episode].gone
  BY DEF DeskInv, DeskTypes, ScriptsFit, ScriptFits
<1>3. ASSUME NEW h \in Hands
      PROVE  /\ hand[h] \in HandRows
             /\ hand[h].job # 0 => hand[h].job \in DOMAIN jobs
             /\ Scripting(hand[h], jobs) =>
                  /\ hand[h].script \in DOMAIN scripts /\ hand[h].job # 0
                  /\ hand[h].job \in DOMAIN jobs
                  /\ scripts[hand[h].script].episode = jobs[hand[h].job].episode
  <2>1. HandFits(hand[h], episodes, jobs, scripts) /\ hand[h] \in HandRows
    BY DEF DeskInv, DeskTypes, HandsFit
  <2>2. QED BY <2>1 DEF HandFits, Scripting
<1>4. QED BY <1>1, <1>2, <1>3 DEF DeskInv, DeskTypes

\* Rows that only people and the planner have written.
LEMMA PersonPanel ==
  ASSUME DeskInv, PanelInv, hand' = hand, EpisodesGo, ScriptsGo, JobsGo
  PROVE  PanelInv'
<1> USE DEF EpisodesGo, ScriptsGo, JobsGo
<1>1. \A h \in Hands :
        /\ hand[h].job # 0 => hand[h].job \in DOMAIN jobs
        /\ Scripting(hand[h], jobs) => hand[h].job \in DOMAIN jobs /\ hand[h].script \in DOMAIN scripts
  BY RowsKnow
<1>2. HandsOwn'
  <2>1. \A h \in Hands : Scripting(hand'[h], jobs') => Scripting(hand[h], jobs)
    BY <1>1 DEF Scripting
  <2>2. QED BY <1>1, <2>1 DEF PanelInv, HandsOwn
<1>3. \A h \in Hands : Scripting(hand[h], jobs) => Scripting(hand'[h], jobs') BY <1>1 DEF Scripting
<1>4. \A j : Working(j)' <=> Working(j) BY DEF Working
<1>5. JobsStand'
  <2> SUFFICES ASSUME NEW j \in DOMAIN jobs' PROVE JobStands(j)'
    BY DEF JobsStand
  <2>1. CASE j \in DOMAIN jobs
    <3>1. jobs[j].episode \in DOMAIN episodes BY <2>1, RowsKnow
    <3>2. JobStands(j) BY <2>1 DEF PanelInv, JobsStand
    <3>3. QED BY <1>4, <2>1, <3>1, <3>2 DEF JobStands
  <2>2. CASE j \notin DOMAIN jobs BY <2>2 DEF JobStands
  <2>3. QED BY <2>1, <2>2
<1>6. ScriptsStand'
  <2> SUFFICES ASSUME NEW s \in DOMAIN scripts PROVE ScriptStands(s)'
    BY DEF ScriptsStand
  <2>1. ScriptStands(s) BY DEF PanelInv, ScriptsStand
  <2>2. Held(s) => Held(s)' BY <1>3 DEF Held
  <2>3. \A j \in DOMAIN jobs : Owns(j, s) => Owns(j, s)' BY DEF Owns
  <2>4. \A j \in DOMAIN jobs : Concluded(j) => Concluded(j)' BY <1>4 DEF Concluded
  <2>5. QED BY <2>1, <2>2, <2>3, <2>4 DEF ScriptStands
<1>7. EpisodesStand'
  <2> SUFFICES ASSUME NEW e \in DOMAIN episodes', episodes'[e].status = "generating_script",
                      ~episodes'[e].gone
               PROVE  \/ episodes'[e].stranded
                      \/ \E h \in Hands :
                           Scripting(hand'[h], jobs') /\ scripts'[hand'[h].script].episode = e
    BY DEF EpisodesStand
  <2>1. e \in DOMAIN episodes
    OBVIOUS
  <2>2. \/ episodes[e].stranded
        \/ \E h \in Hands : Scripting(hand[h], jobs) /\ scripts[hand[h].script].episode = e
    BY <2>1 DEF PanelInv, EpisodesStand
  <2>3. QED BY <1>1, <1>3, <2>1, <2>2
<1>8. QED BY <1>2, <1>5, <1>6, <1>7 DEF PanelInv

\* A worker that is free again.
LEMMA FreedPanel ==
  ASSUME DeskInv, PanelInv, NEW h \in Hands, Busy(h), NEW i, i = hand[h].job,
         hand' = [hand EXCEPT ![h] = Free],
         FreedEpisodes, FreedScripts(h, i), FreedWork(h, i), FreedJobs(i)
  PROVE  PanelInv'
<1> USE DEF FreedEpisodes, FreedScripts, FreedWork, FreedJobs
<1>1. /\ i # 0 /\ i \in DOMAIN jobs
      /\ ~jobs[i].gone
      /\ Scripting(hand[h], jobs) => jobs[i].script = hand[h].script /\ jobs[i].type = "script"
      /\ \A k \in Hands : k # h => hand'[k] = hand[k] /\ (hand[k].job # 0 => hand[k].job # i)
      /\ hand'[h].job = 0
  BY FreeTyped DEF Busy, DeskInv, DeskTypes, HandsFit, HandFits, PanelInv, HandsOwn, Scripting
<1>2. \A k \in Hands :
        /\ hand[k].job # 0 => hand[k].job \in DOMAIN jobs
        /\ Scripting(hand[k], jobs) =>
             /\ hand[k].job \in DOMAIN jobs /\ hand[k].script \in DOMAIN scripts
             /\ scripts[hand[k].script].episode = jobs[hand[k].job].episode
  BY RowsKnow
<1>3. HandsOwn'
  <2>1. \A k \in Hands : k # h /\ Scripting(hand'[k], jobs') => Scripting(hand[k], jobs)
    BY <1>1, <1>2 DEF Scripting
  <2>2. QED BY <1>1, <1>2, <2>1 DEF PanelInv, HandsOwn
<1>4. \A k \in Hands : k # h /\ Scripting(hand[k], jobs) => Scripting(hand'[k], jobs')
  BY <1>1, <1>2 DEF Scripting
<1>5. ~Working(i)' /\ \A j \in DOMAIN jobs : j # i => (Working(j)' <=> Working(j))
  <2>1. \A j \in DOMAIN jobs : j # 0 BY RowsKnow
  <2>2. QED BY <1>1, <2>1 DEF Working
<1>6. JobsStand'
  <2> SUFFICES ASSUME NEW j \in DOMAIN jobs PROVE JobStands(j)'
    BY DEF JobsStand
  <2>1. CASE j = i BY <1>1, <2>1 DEF JobStands
  <2>2. CASE j # i
    <3>1. jobs[j].episode \in DOMAIN episodes BY RowsKnow
    <3>2. JobStands(j) BY DEF PanelInv, JobsStand
    <3>3. QED BY <1>5, <2>2, <3>1, <3>2 DEF JobStands
  <2>3. QED BY <2>1, <2>2
<1>7. ScriptsStand'
  <2> SUFFICES ASSUME NEW s \in DOMAIN scripts PROVE ScriptStands(s)'
    BY DEF ScriptsStand
  <2>1. ScriptStands(s) BY DEF PanelInv, ScriptsStand
  <2>2. \A j \in DOMAIN jobs : Owns(j, s) => Owns(j, s)' BY DEF Owns
  <2>3. Scripting(hand[h], jobs) /\ hand[h].script = s => Owns(i, s)' BY <1>1, <1>2 DEF Owns
  <2>4. ASSUME scripts'[s].status = "generating"
        PROVE  Held(s)' \/ \E j \in DOMAIN jobs' : Owns(j, s)' /\ jobs'[j].lost
    <3>1. scripts[s].status = "generating" BY <2>4
    <3>2. CASE \E j \in DOMAIN jobs : Owns(j, s) /\ jobs[j].lost BY <2>2, <3>2
    <3>3. ASSUME NEW k \in Hands, Scripting(hand[k], jobs), hand[k].script = s
          PROVE  Held(s)' \/ \E j \in DOMAIN jobs' : Owns(j, s)' /\ jobs'[j].lost
      <4>1. CASE k = h BY <1>1, <2>3, <2>4, <3>3, <4>1
      <4>2. CASE k # h BY <1>1, <1>4, <3>3, <4>2 DEF Held
      <4>3. QED BY <4>1, <4>2
    <3>4. QED BY <2>1, <3>1, <3>2, <3>3 DEF ScriptStands, Held
  <2>5. ASSUME scripts'[s].status = "failed"
        PROVE  \E j \in DOMAIN jobs' : Owns(j, s)' /\ Concluded(j)'
    <3>1. CASE scripts[s].status = "failed"
      <4>1. PICK j \in DOMAIN jobs : Owns(j, s) /\ Concluded(j) BY <2>1, <3>1 DEF ScriptStands
      <4>2. j # i BY <4>1 DEF Concluded, Working
      <4>3. Concluded(j)' BY <1>5, <4>1, <4>2 DEF Concluded
      <4>4. QED BY <2>2, <4>1, <4>3
    <3>2. CASE scripts[s].status # "failed"
      <4>1. jobs'[i].status = "failed" /\ ~jobs'[i].waiting BY <2>5, <3>2
      <4>2. Owns(i, s)' BY <2>3, <2>5, <3>2
      <4>3. Concluded(i)' BY <1>5, <4>1 DEF Concluded
      <4>4. QED BY <1>1, <4>2, <4>3
    <3>3. QED BY <3>1, <3>2
  <2>6. QED BY <2>4, <2>5 DEF ScriptStands
<1>8. EpisodesStand'
  <2> SUFFICES ASSUME NEW e \in DOMAIN episodes, episodes'[e].status = "generating_script",
                      ~episodes'[e].gone
               PROVE  \/ episodes'[e].stranded
                      \/ \E k \in Hands :
                           Scripting(hand'[k], jobs') /\ scripts'[hand'[k].script].episode = e
    BY DEF EpisodesStand
  <2>1. \/ episodes[e].stranded
        \/ \E k \in Hands : Scripting(hand[k], jobs) /\ scripts[hand[k].script].episode = e
    BY DEF PanelInv, EpisodesStand
  <2>2. CASE episodes[e].stranded BY <2>2
  <2>3. ASSUME NEW k \in Hands, Scripting(hand[k], jobs), scripts[hand[k].script].episode = e
        PROVE  \/ episodes'[e].stranded
               \/ \E l \in Hands :
                    Scripting(hand'[l], jobs') /\ scripts'[hand'[l].script].episode = e
    <3>1. CASE k = h BY <1>2, <2>3, <3>1
    <3>2. CASE k # h BY <1>1, <1>2, <1>4, <2>3, <3>2
    <3>3. QED BY <3>1, <3>2
  <2>4. QED BY <2>1, <2>2, <2>3
<1>9. QED BY <1>3, <1>6, <1>7, <1>8 DEF PanelInv

\* Rows that stay as they are.
LEMMA RowsStay ==
  /\ episodes' = episodes => EpisodesGo
  /\ scripts' = scripts => ScriptsGo
  /\ jobs' = jobs => JobsGo
  BY DEF EpisodesGo, ScriptsGo, JobsGo

\* A job that is asked for.
LEMMA JobAsked ==
  ASSUME DeskTypes, NEW type \in {"script", "audio"}, NEW e \in Nat, NEW s \in Nat,
         jobs' = Append(jobs, Job(type, e, s))
  PROVE  JobsGo
<1>1. PICK v \in JobRows : v = Job(type, e, s)
  <2>1. Len(scripts) \in Nat BY DEF DeskTypes
  <2>2. QED BY <2>1 DEF Job, JobRows
<1>2. v.status = "queued" /\ v.gone = FALSE /\ v.waiting = TRUE /\ v.lost = FALSE
  BY <1>1 DEF Job
<1>3. PICK n : n = Len(jobs) + 1
  OBVIOUS
<1>4. /\ DOMAIN jobs' = DOMAIN jobs \cup {n} /\ jobs'[n] = v
      /\ \A j \in DOMAIN jobs : jobs'[j] = jobs[j]
  BY <1>1, <1>3, Appended DEF DeskTypes
<1>5. QED BY <1>2, <1>4 DEF JobsGo

\* A job that is cancelled, or deleted because it has failed.
LEMMA JobDropped ==
  ASSUME DeskTypes, NEW i \in DOMAIN jobs, NEW v \in JobRows, jobs' = [jobs EXCEPT ![i] = v],
         v.type = jobs[i].type, v.episode = jobs[i].episode, v.waiting = jobs[i].waiting,
         v.script = jobs[i].script, v.lost = jobs[i].lost,
         \/ v.status = "cancelled" /\ v.gone = jobs[i].gone
         \/ v.status = "failed" /\ jobs[i].status = "failed"
  PROVE  JobsGo
<1>1. /\ DOMAIN jobs' = DOMAIN jobs /\ jobs'[i] = v
      /\ \A j \in DOMAIN jobs : j # i => jobs'[j] = jobs[j]
  BY Replaced DEF DeskTypes
<1>2. QED BY <1>1 DEF JobsGo

\* The episode of a request.
LEMMA LinksOnly ==
  ASSUME DeskInv, NEW o \in Staff, ReadSelected(o) \/ Unlink(o) \/ Link(o)
  PROVE  EpisodesGo
<1>1. PICK e : e = desk[o].item
  OBVIOUS
<1>2. /\ desk[o] \in RequestRows /\ e \in DOMAIN episodes
      /\ episodes[e] \in EpisodeRows
      /\ DeskTypes /\ selected \in SUBSET Articles
  BY <1>1, HoldingKnows DEF Holds, ReadSelected, Unlink, Link, At, DeskInv, DeskTypes
<1>3. CASE episodes' = episodes BY <1>3, RowsStay
<1>4. ASSUME NEW L \in SUBSET Articles, episodes' = Relinked(o, L)
      PROVE  EpisodesGo
  <2>1. /\ DOMAIN episodes' = DOMAIN episodes
        /\ \A i \in DOMAIN episodes : i # e => episodes'[i] = episodes[i]
        /\ (episodes'[e].gone <=> episodes[e].gone)
        /\ episodes'[e].status = episodes[e].status
        /\ episodes'[e].stranded = episodes[e].stranded
    BY <1>1, <1>2, <1>4, RelinkedIs
  <2>2. QED BY <2>1 DEF EpisodesGo
<1>5. CASE ReadSelected(o) /\ Asking(o)
  <2>1. PICK s \in SUBSET Articles : s = selected BY <1>2
  <2>2. PICK v \in EpisodeRows : v = [episodes[e] EXCEPT !.asked = s] BY <1>2 DEF EpisodeRows
  <2>3. /\ v.status = episodes[e].status /\ v.stranded = episodes[e].stranded
        /\ v.gone = episodes[e].gone
    BY <1>2, <2>2 DEF EpisodeRows
  <2>4. episodes' = [episodes EXCEPT ![e] = v] BY <1>1, <1>5, <2>1, <2>2 DEF ReadSelected
  <2>5. /\ DOMAIN episodes' = DOMAIN episodes /\ episodes'[e] = v
        /\ \A i \in DOMAIN episodes : i # e => episodes'[i] = episodes[i]
    BY <1>2, <2>4, Replaced DEF DeskTypes
  <2>6. QED BY <2>3, <2>5 DEF EpisodesGo
<1>6. CASE Unlink(o)
  <2>1. PICK L : L = episodes[e].links \cap desk[o].found
    OBVIOUS
  <2>2. L \in SUBSET Articles /\ episodes' = Relinked(o, L)
    BY <1>1, <1>2, <1>6, <2>1 DEF Unlink, SyncTarget, EpisodeRows
  <2>3. QED BY <1>4, <2>2
<1>7. CASE Link(o) /\ episodes' # episodes
  <2>1. PICK a \in desk[o].todo : episodes' = Relinked(o, episodes[e].links \cup {a})
    BY <1>1, <1>7 DEF Link, SyncTarget
  <2>2. PICK L : L = episodes[e].links \cup {a}
    OBVIOUS
  <2>3. L \in SUBSET Articles /\ episodes' = Relinked(o, L)
    BY <1>2, <2>1, <2>2 DEF EpisodeRows, RequestRows
  <2>4. QED BY <1>4, <2>3
<1>8. QED BY <1>3, <1>5, <1>6, <1>7 DEF ReadSelected

\* An episode that is new.
LEMMA EpisodeAdded ==
  ASSUME DeskTypes, NEW L \in SUBSET Articles, episodes' = Append(episodes, Episode("draft", L))
  PROVE  EpisodesGo
<1>1. PICK v \in EpisodeRows : v = Episode("draft", L) BY DEF Episode, EpisodeRows, EpisodeStatuses
<1>2. v.status = "draft" BY <1>1 DEF Episode
<1>3. PICK n : n = Len(episodes) + 1
  OBVIOUS
<1>4. /\ DOMAIN episodes' = DOMAIN episodes \cup {n} /\ episodes'[n] = v
      /\ \A x \in DOMAIN episodes : episodes'[x] = episodes[x]
  BY <1>1, <1>3, Appended DEF DeskTypes
<1>5. QED BY <1>2, <1>4 DEF EpisodesGo

\* An episode that is deleted.
LEMMA EpisodeRemoved ==
  ASSUME DeskTypes, NEW e \in DOMAIN episodes, Removed(e)
  PROVE  EpisodesGo /\ ScriptsGo
<1>1. /\ DOMAIN episodes' = DOMAIN episodes
      /\ \A x \in DOMAIN episodes : x # e => episodes'[x] = episodes[x]
      /\ episodes'[e].gone
      /\ episodes'[e].status = episodes[e].status
      /\ episodes'[e].stranded = episodes[e].stranded
      /\ DOMAIN scripts' = DOMAIN scripts
      /\ \A s \in DOMAIN scripts :
           /\ scripts'[s].episode = scripts[s].episode
           /\ scripts[s].episode = e => scripts'[s].status = "deleted"
           /\ scripts[s].episode # e => scripts'[s] = scripts[s]
  BY RemovedIs
<1>2. QED BY <1>1 DEF EpisodesGo, ScriptsGo

\* What a person does keeps the invariant of the panel.
LEMMA PersonKeepsPanel ==
  ASSUME DeskInv, PanelInv, NEW o \in Staff,
         \/ LoadPage(o) \/ RequestStep(o)
         \/ SaveSources(o) \/ GenerateScript(o) \/ GenerateAgain(o) \/ AbortScript(o)
         \/ DeleteEpisode(o) \/ DeleteFailedJob(o) \/ OpenStudio(o)
  PROVE  PanelInv'
<1>1. DeskTypes BY DEF DeskInv
<1>2. CASE \/ LoadPage(o) \/ SaveSources(o) \/ GenerateScript(o) \/ CheckActive(o)
           \/ AbortScript(o) \/ ReadFlags(o) \/ SaveFlag(o) \/ FindActive(o) \/ OpenStudio(o)
  <2>1. hand' = hand /\ episodes' = episodes /\ scripts' = scripts /\ jobs' = jobs
    BY <1>2 DEF LoadPage, SaveSources, GenerateScript, CheckActive, AbortScript, ReadFlags,
       SaveFlag, FindActive, OpenStudio
  <2>2. QED BY <2>1, RowsStay, PersonPanel
<1>3. CASE ReadSelected(o) \/ Unlink(o) \/ Link(o)
  <2>1. hand' = hand /\ scripts' = scripts /\ jobs' = jobs BY <1>3 DEF ReadSelected, Unlink, Link
  <2>2. QED BY <1>3, <2>1, LinksOnly, RowsStay, PersonPanel
<1>4. CASE CreateEpisode(o)
  <2>1. /\ hand' = hand /\ scripts' = scripts /\ jobs' = jobs
        /\ episodes' = Append(episodes, Episode("draft", {}))
    BY <1>4 DEF CreateEpisode
  <2>2. EpisodesGo BY <1>1, <2>1, EpisodeAdded
  <2>3. QED BY <2>1, <2>2, RowsStay, PersonPanel
<1>5. CASE QueueScript(o)
  <2>1. PICK e : e = desk[o].item
    OBVIOUS
  <2>2. e \in DOMAIN episodes /\ e \in Nat /\ hand' = hand
    BY <1>1, <1>5, <2>1, HoldingKnows DEF QueueScript, At, Holds, DeskTypes
  <2>3. CASE Removed(e) /\ jobs' = jobs BY <1>1, <2>2, <2>3, EpisodeRemoved, RowsStay, PersonPanel
  <2>4. CASE jobs' = Append(jobs, Job("script", e, 0)) /\ episodes' = episodes /\ scripts' = scripts
    <3>1. JobsGo BY <1>1, <2>2, <2>4, JobAsked
    <3>2. QED BY <2>2, <2>4, <3>1, RowsStay, PersonPanel
  <2>5. QED BY <1>5, <2>1, <2>3, <2>4 DEF QueueScript
<1>6. CASE GenerateAgain(o)
  <2>1. PICK e \in ThereAre : jobs' = Append(jobs, Job("script", e, 0)) BY <1>6 DEF GenerateAgain
  <2>2. e \in Nat BY <1>1 DEF ThereAre, DeskTypes
  <2>3. JobsGo BY <1>1, <2>1, <2>2, JobAsked
  <2>4. hand' = hand /\ episodes' = episodes /\ scripts' = scripts BY <1>6 DEF GenerateAgain
  <2>5. QED BY <2>3, <2>4, RowsStay, PersonPanel
<1>7. CASE GenerateAudio(o)
  <2>1. hand' = hand /\ episodes' = episodes /\ scripts' = scripts BY <1>7 DEF GenerateAudio
  <2>2. PICK s : s = desk[o].item
    OBVIOUS
  <2>3. s \in DOMAIN scripts /\ s \in Nat /\ scripts[s].episode \in Nat
    <3>1. s \in DOMAIN scripts
      BY <1>7, <2>2 DEF GenerateAudio, At, DeskInv, RequestsFit, RequestFits
    <3>2. scripts[s] \in ScriptRows /\ s \in Nat BY <1>1, <3>1 DEF DeskTypes
    <3>3. QED BY <3>1, <3>2 DEF ScriptRows
  <2>4. JobsGo
    <3>1. CASE jobs' = jobs BY <3>1, RowsStay
    <3>2. CASE jobs' = Append(jobs, Job("audio", scripts[s].episode, s))
      BY <1>1, <2>3, <3>2, JobAsked
    <3>3. QED BY <1>7, <2>2, <3>1, <3>2 DEF GenerateAudio
  <2>5. QED BY <2>1, <2>4, RowsStay, PersonPanel
<1>8. CASE CancelActive(o)
  <2>1. hand' = hand /\ episodes' = episodes /\ scripts' = scripts BY <1>8 DEF CancelActive
  <2>2. PICK i : i = desk[o].item
    OBVIOUS
  <2>3. i \in DOMAIN jobs /\ jobs[i] \in JobRows
    <3>1. i \in DOMAIN jobs BY <1>8, <2>2 DEF CancelActive, At, DeskInv, RequestsFit, RequestFits
    <3>2. QED BY <1>1, <3>1 DEF DeskTypes
  <2>4. JobsGo
    <3>1. CASE jobs' = jobs BY <3>1, RowsStay
    <3>2. CASE jobs' = [jobs EXCEPT ![i].status = "cancelled"]
      <4>1. PICK v \in JobRows : v = [jobs[i] EXCEPT !.status = "cancelled"] BY <2>3 DEF JobRows
      <4>2. /\ v.type = jobs[i].type /\ v.episode = jobs[i].episode
            /\ v.waiting = jobs[i].waiting /\ v.status = "cancelled"
            /\ v.gone = jobs[i].gone /\ v.script = jobs[i].script /\ v.lost = jobs[i].lost
        BY <2>3, <4>1 DEF JobRows
      <4>3. jobs' = [jobs EXCEPT ![i] = v] BY <3>2, <4>1
      <4>4. QED BY <1>1, <2>3, <4>2, <4>3, JobDropped
    <3>3. QED BY <1>8, <2>2, <3>1, <3>2 DEF CancelActive
  <2>5. QED BY <2>1, <2>4, RowsStay, PersonPanel
<1>9. CASE DeleteEpisode(o)
  <2>1. PICK e \in ThereAre : Removed(e) BY <1>9 DEF DeleteEpisode
  <2>2. e \in DOMAIN episodes /\ hand' = hand /\ jobs' = jobs BY <1>9 DEF DeleteEpisode, ThereAre
  <2>3. QED BY <1>1, <2>1, <2>2, EpisodeRemoved, RowsStay, PersonPanel
<1>10. CASE DeleteFailedJob(o)
  <2>1. PICK i \in DOMAIN jobs : jobs[i].status = "failed" /\ jobs' = [jobs EXCEPT ![i].gone = TRUE]
    BY <1>10 DEF DeleteFailedJob
  <2>2. jobs[i] \in JobRows BY <1>1 DEF DeskTypes
  <2>3. PICK v \in JobRows : v = [jobs[i] EXCEPT !.gone = TRUE] BY <2>2 DEF JobRows
  <2>4. /\ v.type = jobs[i].type /\ v.episode = jobs[i].episode
        /\ v.waiting = jobs[i].waiting /\ v.status = jobs[i].status
        /\ v.script = jobs[i].script /\ v.lost = jobs[i].lost
    BY <2>2, <2>3 DEF JobRows
  <2>5. jobs' = [jobs EXCEPT ![i] = v] BY <2>1, <2>3
  <2>6. JobsGo BY <1>1, <2>1, <2>4, <2>5, JobDropped
  <2>7. hand' = hand /\ episodes' = episodes /\ scripts' = scripts BY <1>10 DEF DeleteFailedJob
  <2>8. QED BY <2>6, <2>7, RowsStay, PersonPanel
<1>11. QED BY <1>2, <1>3, <1>4, <1>5, <1>6, <1>7, <1>8, <1>9, <1>10 DEF RequestStep

\* A worker takes a job, or drops one.
LEMMA TakeKeepsPanel ==
  ASSUME DeskInv, PanelInv, NEW h \in Hands, TakeJob(h)
  PROVE  PanelInv'
<1>1. /\ scripts' = scripts /\ episodes' = episodes /\ hand[h].job = 0
      /\ jobs \in Seq(JobRows) /\ hand \in [Hands -> HandRows]
  BY DEF TakeJob, Idle, DeskInv, DeskTypes
<1>2. PICK j \in DOMAIN jobs :
        /\ jobs[j].waiting
        /\ IF jobs[j].status = "cancelled"
           THEN jobs' = [jobs EXCEPT ![j].waiting = FALSE] /\ UNCHANGED hand
           ELSE /\ jobs' = [jobs EXCEPT ![j] = [@ EXCEPT !.waiting = FALSE, !.status = "running"]]
                /\ hand' = [hand EXCEPT ![h] = [Free EXCEPT !.job = j]]
  BY DEF TakeJob
<1>3. jobs[j] \in JobRows /\ j \in Nat /\ j # 0 BY <1>1
<1>4. /\ ~jobs[j].gone /\ ~jobs[j].lost
      /\ jobs[j].status \in {"queued", "retrying", "cancelled"} /\ ~Working(j)
  <2>1. ~jobs[j].gone /\ ~jobs[j].lost /\ jobs[j].status \in {"queued", "retrying", "cancelled"}
    BY <1>2 DEF PanelInv, JobsStand, JobStands
  <2>2. ~Working(j) BY <1>2, <1>3 DEF Working, PanelInv, HandsOwn
  <2>3. QED BY <2>1, <2>2
<1>5. PICK v \in JobRows :
        /\ jobs' = [jobs EXCEPT ![j] = v] /\ v.type = jobs[j].type
        /\ v.episode = jobs[j].episode /\ v.script = jobs[j].script
        /\ v.waiting = FALSE /\ v.gone = FALSE /\ v.lost = FALSE
        /\ v.status = IF jobs[j].status = "cancelled" THEN "cancelled" ELSE "running"
  <2>1. CASE jobs[j].status = "cancelled"
    <3>1. PICK v \in JobRows : v = [jobs[j] EXCEPT !.waiting = FALSE] BY <1>3 DEF JobRows
    <3>2. /\ v.type = jobs[j].type /\ v.episode = jobs[j].episode
          /\ v.script = jobs[j].script /\ v.lost = FALSE
          /\ v.waiting = FALSE /\ v.gone = FALSE /\ v.status = jobs[j].status
      BY <1>3, <1>4, <3>1 DEF JobRows
    <3>3. jobs' = [jobs EXCEPT ![j] = v] BY <1>2, <2>1, <3>1
    <3>4. QED BY <2>1, <3>2, <3>3
  <2>2. CASE jobs[j].status # "cancelled"
    <3>1. PICK v \in JobRows : v = [jobs[j] EXCEPT !.waiting = FALSE, !.status = "running"]
      BY <1>3 DEF JobRows
    <3>2. /\ v.type = jobs[j].type /\ v.episode = jobs[j].episode
          /\ v.script = jobs[j].script /\ v.lost = FALSE
          /\ v.waiting = FALSE /\ v.gone = FALSE /\ v.status = "running"
      BY <1>3, <1>4, <3>1 DEF JobRows
    <3>3. jobs' = [jobs EXCEPT ![j] = v] BY <1>2, <2>2, <3>1
    <3>4. QED BY <2>2, <3>2, <3>3
  <2>3. QED BY <2>1, <2>2
<1>6. /\ DOMAIN jobs' = DOMAIN jobs /\ jobs'[j] = v
      /\ \A x \in DOMAIN jobs : x # j => jobs'[x] = jobs[x]
  BY <1>1, <1>5, Replaced
<1>7. /\ hand'[h].script = 0
      /\ hand'[h].job \in {0, j}
      /\ hand'[h].job = j <=> v.status = "running"
      /\ \A k \in Hands : k # h => hand'[k] = hand[k]
  <2>1. CASE jobs[j].status = "cancelled"
    <3>1. hand' = hand BY <1>2, <2>1
    <3>2. hand[h].script = 0 BY <1>1 DEF DeskInv, HandsFit, HandFits
    <3>3. QED BY <1>1, <1>3, <1>5, <2>1, <3>1, <3>2
  <2>2. CASE jobs[j].status # "cancelled"
    <3>1. PICK w \in HandRows : w = [Free EXCEPT !.job = j] BY <1>3, FreeTyped DEF HandRows
    <3>2. w.job = j /\ w.script = 0 BY <3>1, FreeTyped DEF HandRows
    <3>3. hand' = [hand EXCEPT ![h] = w] BY <1>2, <2>2, <3>1
    <3>4. QED BY <1>1, <1>5, <2>2, <3>2, <3>3
  <2>3. QED BY <2>1, <2>2
<1>8. \A k \in Hands :
        /\ hand[k].job # 0 => hand[k].job \in DOMAIN jobs /\ hand[k].job # j
        /\ Scripting(hand[k], jobs) =>
             k # h /\ hand[k].job \in DOMAIN jobs /\ hand[k].script \in DOMAIN scripts
  <2>1. \A k \in Hands : hand[k].job # j BY <1>4 DEF Working
  <2>2. QED BY <1>1, <2>1, RowsKnow DEF Scripting
<1>9. \A k \in Hands : Scripting(hand[k], jobs) => Scripting(hand'[k], jobs')
  BY <1>6, <1>7, <1>8 DEF Scripting
<1>10. HandsOwn'
  <2>1. ~Scripting(hand'[h], jobs') BY <1>7 DEF Scripting
  <2>2. \A k \in Hands : k # h /\ Scripting(hand'[k], jobs') => Scripting(hand[k], jobs)
    BY <1>6, <1>7, <1>8 DEF Scripting
  <2>3. ASSUME NEW k \in Hands, hand'[k].job # 0
        PROVE  /\ ~jobs'[hand'[k].job].waiting /\ ~jobs'[hand'[k].job].gone
               /\ ~jobs'[hand'[k].job].lost
               /\ jobs'[hand'[k].job].status \in {"running", "cancelled"}
               /\ Scripting(hand'[k], jobs') => jobs'[hand'[k].job].script = hand'[k].script
    <3>1. CASE k = h BY <1>5, <1>6, <1>7, <2>1, <2>3, <3>1
    <3>2. CASE k # h BY <1>6, <1>7, <1>8, <2>2, <2>3, <3>2 DEF PanelInv, HandsOwn
    <3>3. QED BY <3>1, <3>2
  <2>4. ASSUME NEW k \in Hands, NEW l \in Hands, k # l, hand'[k].job # 0
        PROVE  hand'[k].job # hand'[l].job
    BY <1>1, <1>7, <1>8, <2>4 DEF PanelInv, HandsOwn
  <2>5. QED BY <2>3, <2>4 DEF HandsOwn
<1>11. \A x \in DOMAIN jobs : x # j => (Working(x)' <=> Working(x))
  <2>1. \A x \in DOMAIN jobs : x # 0 BY RowsKnow
  <2>2. QED BY <1>1, <1>7, <2>1 DEF Working
<1>12. /\ JobsStand'
       /\ ScriptsStand'
  <2>1. ASSUME NEW x \in DOMAIN jobs PROVE JobStands(x)'
    <3>1. JobStands(x) BY DEF PanelInv, JobsStand
    <3>2. CASE x = j
      <4>1. v.status = "running" => Working(j)' BY <1>7 DEF Working
      <4>2. QED BY <1>5, <1>6, <3>2, <4>1 DEF JobStands
    <3>3. CASE x # j BY <1>1, <1>6, <1>11, <3>1, <3>3 DEF JobStands
    <3>4. QED BY <3>2, <3>3
  <2>2. ASSUME NEW s \in DOMAIN scripts PROVE ScriptStands(s)'
    <3>1. ScriptStands(s) BY DEF PanelInv, ScriptsStand
    <3>2. Held(s) => Held(s)' BY <1>7, <1>8, <1>9 DEF Held
    <3>3. \A x \in DOMAIN jobs : Owns(x, s) => Owns(x, s)' BY <1>1, <1>5, <1>6 DEF Owns
    <3>4. \A x \in DOMAIN jobs : Concluded(x) => Concluded(x)'
      BY <1>2, <1>6, <1>11 DEF Concluded
    <3>5. \A x \in DOMAIN jobs : jobs[x].lost => jobs'[x].lost BY <1>4, <1>6
    <3>6. QED BY <1>1, <1>6, <3>1, <3>2, <3>3, <3>4, <3>5 DEF ScriptStands
  <2>3. QED BY <1>1, <1>6, <2>1, <2>2 DEF JobsStand, ScriptsStand
<1>13. EpisodesStand'
  <2> SUFFICES ASSUME NEW e \in DOMAIN episodes, episodes[e].status = "generating_script",
                      ~episodes[e].gone, ~episodes[e].stranded
               PROVE  \E k \in Hands : Scripting(hand'[k], jobs') /\ scripts[hand'[k].script].episode = e
    BY <1>1 DEF EpisodesStand
  <2>1. PICK k \in Hands : Scripting(hand[k], jobs) /\ scripts[hand[k].script].episode = e
    BY DEF PanelInv, EpisodesStand
  <2>2. QED BY <1>7, <1>8, <1>9, <2>1
<1>14. QED BY <1>10, <1>11, <1>12, <1>13 DEF PanelInv

\* A worker that has begun.
LEMMA BegunPanel ==
  ASSUME DeskInv, PanelInv, NEW h \in Hands, Busy(h), NEW w, hand' = [hand EXCEPT ![h] = w],
         NEW i, i = hand[h].job, w.job = i, hand[h].script = 0,
         NEW e \in DOMAIN episodes, BegunJobs(i, w), BegunEpisodes(h, w, e), BegunScripts(h, w)
  PROVE  PanelInv'
<1> USE DEF BegunJobs, BegunEpisodes, BegunScripts
<1>1. /\ hand'[h] = w /\ \A k \in Hands : k # h => hand'[k] = hand[k]
      /\ i # 0 /\ i \in DOMAIN jobs /\ ~jobs[i].lost /\ Working(i)
      /\ \A k \in Hands : hand'[k].job = hand[k].job
  BY RowsKnow DEF Busy, DeskInv, DeskTypes, PanelInv, HandsOwn, Working
<1>2. \A k \in Hands :
        /\ hand[k].job # 0 => hand[k].job \in DOMAIN jobs
        /\ Scripting(hand[k], jobs) =>
             k # h /\ hand[k].script \in DOMAIN scripts /\ hand[k].job \in DOMAIN jobs
  BY RowsKnow DEF Scripting
<1>3. \A k \in Hands : Scripting(hand[k], jobs) => Scripting(hand'[k], jobs') /\ hand'[k] = hand[k]
  BY <1>1, <1>2 DEF Scripting
<1>4. HandsOwn'
  <2>1. ASSUME NEW k \in Hands, Scripting(hand'[k], jobs')
        PROVE  jobs'[hand'[k].job].script = hand'[k].script
    <3>1. CASE k = h BY <1>1, <2>1, <3>1 DEF Scripting
    <3>2. CASE k # h
      <4>1. /\ hand[k].job # 0 /\ hand[k].job # i /\ hand'[k] = hand[k]
            /\ hand[k].job \in DOMAIN jobs
        BY <1>1, <1>2, <2>1, <3>2 DEF PanelInv, HandsOwn, Scripting
      <4>2. Scripting(hand[k], jobs) /\ jobs'[hand[k].job] = jobs[hand[k].job]
        BY <2>1, <4>1 DEF Scripting
      <4>3. QED BY <4>1, <4>2 DEF PanelInv, HandsOwn
    <3>3. QED BY <3>1, <3>2
  <2>2. QED BY <1>1, <1>2, <2>1 DEF PanelInv, HandsOwn
<1>5. \A j : Working(j)' <=> Working(j) BY <1>1 DEF Working
<1>6. JobsStand'
  <2> SUFFICES ASSUME NEW j \in DOMAIN jobs PROVE JobStands(j)'
    BY DEF JobsStand
  <2>1. jobs[j].episode \in DOMAIN episodes BY RowsKnow
  <2>2. JobStands(j) BY DEF PanelInv, JobsStand
  <2>3. QED BY <1>5, <2>1, <2>2 DEF JobStands
<1>7. ScriptsStand'
  <2> SUFFICES ASSUME NEW s \in DOMAIN scripts' PROVE ScriptStands(s)'
    BY DEF ScriptsStand
  <2>1. CASE s \in DOMAIN scripts /\ scripts'[s] = scripts[s]
    <3>1. ScriptStands(s) BY <2>1 DEF PanelInv, ScriptsStand
    <3>2. Held(s) => Held(s)' BY <1>3 DEF Held
    <3>3. \A j \in DOMAIN jobs : j # i /\ Owns(j, s) => Owns(j, s)' BY <2>1 DEF Owns
    <3>4. \A j \in DOMAIN jobs : Concluded(j) => Concluded(j)' /\ j # i
      BY <1>1, <1>5 DEF Concluded
    <3>5. \A j \in DOMAIN jobs : jobs[j].lost => jobs'[j].lost /\ j # i BY <1>1
    <3>6. QED BY <2>1, <3>1, <3>2, <3>3, <3>4, <3>5 DEF ScriptStands
  <2>2. CASE /\ s = w.script /\ s # 0 /\ scripts'[s].status = "generating"
             /\ jobs[hand[h].job].type = "script"
    <3>1. Scripting(hand'[h], jobs') /\ hand'[h].script = s BY <1>1, <2>2 DEF Scripting
    <3>2. QED BY <2>2, <3>1 DEF ScriptStands, Held
  <2>3. QED BY <2>1, <2>2
<1>8. EpisodesStand'
  <2> SUFFICES ASSUME NEW x \in DOMAIN episodes, episodes'[x].status = "generating_script",
                      ~episodes'[x].gone, ~episodes'[x].stranded
               PROVE  \E k \in Hands : Scripting(hand'[k], jobs') /\ scripts'[hand'[k].script].episode = x
    BY DEF EpisodesStand
  <2>1. CASE /\ episodes'[x].stranded <=> episodes[x].stranded
             /\ episodes'[x].status \in {episodes[x].status, "generating_audio"}
    <3>1. PICK k \in Hands : Scripting(hand[k], jobs) /\ scripts[hand[k].script].episode = x
      BY <2>1 DEF PanelInv, EpisodesStand
    <3>2. QED BY <1>2, <1>3, <3>1
  <2>2. CASE /\ x = e /\ w.script # 0 /\ jobs[hand[h].job].type = "script"
             /\ w.script \in DOMAIN scripts' /\ scripts'[w.script].episode = e
    <3>1. Scripting(hand'[h], jobs') /\ scripts'[hand'[h].script].episode = x
      BY <1>1, <2>2 DEF Scripting
    <3>2. QED BY <3>1
  <2>3. QED BY <2>1, <2>2
<1>9. QED BY <1>4, <1>6, <1>7, <1>8 DEF PanelInv

\* A job is ended.
LEMMA SettledJob ==
  ASSUME DeskInv, PanelInv, NEW h \in Hands, Busy(h), NEW i, i = hand[h].job,
         NEW c \in {"succeeded", "failed"}, Settle(h, c)
  PROVE  /\ hand' = [hand EXCEPT ![h] = Free] /\ DOMAIN jobs' = DOMAIN jobs
         /\ \A j \in DOMAIN jobs :
              /\ jobs'[j].type = jobs[j].type
              /\ jobs'[j].episode = jobs[j].episode
              /\ jobs'[j].gone = jobs[j].gone /\ jobs'[j].script = jobs[j].script
              /\ jobs'[j].lost = jobs[j].lost
              /\ j # i => jobs'[j] = jobs[j]
         /\ jobs'[i].status = c /\ ~jobs'[i].waiting
<1>1. i \in DOMAIN jobs /\ DeskTypes BY InHand DEF DeskInv
<1>2. jobs' = [jobs EXCEPT ![i].status = c] /\ hand' = [hand EXCEPT ![h] = Free] BY DEF Settle
<1>3. ~jobs[i].waiting BY DEF PanelInv, HandsOwn, Busy
<1>4. /\ DOMAIN jobs' = DOMAIN jobs
      /\ jobs'[i].status = c /\ jobs'[i].waiting = jobs[i].waiting
      /\ jobs'[i].gone = jobs[i].gone /\ jobs'[i].lost = jobs[i].lost
      /\ \A j \in DOMAIN jobs : j # i => jobs'[j] = jobs[j]
      /\ \A j \in DOMAIN jobs :
           /\ jobs'[j].type = jobs[j].type /\ jobs'[j].episode = jobs[j].episode
           /\ jobs'[j].script = jobs[j].script
  BY <1>1, <1>2, CancelledJob DEF SameJobs
<1>5. QED BY <1>1, <1>2, <1>3, <1>4

\* A job is ended, and nothing else is written.
LEMMA EndedPanel ==
  ASSUME DeskInv, PanelInv, NEW h \in Hands, Busy(h), NEW c \in {"succeeded", "failed"},
         Settle(h, c), episodes' = episodes, scripts' = scripts,
         Scripting(hand[h], jobs) => episodes[jobs[hand[h].job].episode].gone,
         c = "failed" \/ \E s \in DOMAIN scripts : scripts[s].episode = jobs[hand[h].job].episode
  PROVE  PanelInv'
<1>1. PICK i : i = hand[h].job
  OBVIOUS
<1>2. /\ hand' = [hand EXCEPT ![h] = Free] /\ DOMAIN jobs' = DOMAIN jobs
      /\ \A j \in DOMAIN jobs :
           /\ jobs'[j].type = jobs[j].type /\ jobs'[j].episode = jobs[j].episode
           /\ jobs'[j].gone = jobs[j].gone /\ jobs'[j].script = jobs[j].script
           /\ jobs'[j].lost = jobs[j].lost
           /\ j # i => jobs'[j] = jobs[j]
      /\ jobs'[i].status = c /\ ~jobs'[i].waiting
  BY <1>1, SettledJob
<1>3. FreedEpisodes BY DEF FreedEpisodes
<1>4. FreedScripts(h, i) BY DEF FreedScripts
<1>5. FreedWork(h, i)
  <2>1. Scripting(hand[h], jobs) =>
          /\ hand[h].script \in DOMAIN scripts
          /\ scripts[hand[h].script].episode = jobs[i].episode
          /\ scripts[hand[h].script].status = "deleted"
    BY <1>1, RowsKnow
  <2>2. QED BY <1>1, <2>1 DEF FreedWork
<1>6. FreedJobs(i) BY <1>1, <1>2 DEF FreedJobs
<1>7. QED BY <1>1, <1>2, <1>3, <1>4, <1>5, <1>6, FreedPanel

\* The status of an episode is written.
LEMMA StatusIs ==
  ASSUME DeskTypes, NEW e \in DOMAIN episodes, NEW c \in EpisodeStatuses,
         episodes' = [episodes EXCEPT ![e].status = c]
  PROVE  /\ DOMAIN episodes' = DOMAIN episodes /\ episodes'[e].status = c
         /\ \A x \in DOMAIN episodes :
              /\ episodes'[x].gone <=> episodes[x].gone
              /\ episodes'[x].stranded <=> episodes[x].stranded
              /\ x # e => episodes'[x].status = episodes[x].status
<1>1. episodes[e] \in EpisodeRows BY DEF DeskTypes
<1>2. PICK v \in EpisodeRows : v = [episodes[e] EXCEPT !.status = c] BY <1>1 DEF EpisodeRows
<1>3. v.status = c /\ v.gone = episodes[e].gone /\ v.stranded = episodes[e].stranded
  BY <1>1, <1>2 DEF EpisodeRows
<1>4. episodes' = [episodes EXCEPT ![e] = v] BY <1>2
<1>5. /\ DOMAIN episodes' = DOMAIN episodes /\ episodes'[e] = v
      /\ \A x \in DOMAIN episodes : x # e => episodes'[x] = episodes[x]
  BY <1>4, Replaced DEF DeskTypes
<1>6. QED BY <1>3, <1>5

\* BeginScript.
LEMMA BeginScriptKeepsPanel ==
  ASSUME DeskInv, PanelInv, NEW h \in Hands, BeginScript(h)
  PROVE  PanelInv'
<1>1. Busy(h) /\ hand[h].script = 0 /\ jobs[hand[h].job].type = "script" BY DEF BeginScript
<1>2. PICK e : e = jobs[hand[h].job].episode
  OBVIOUS
<1>3. /\ hand[h] \in HandRows /\ e \in DOMAIN episodes /\ e \in Nat
      /\ episodes[e] \in EpisodeRows
      /\ DeskTypes /\ scripts \in Seq(ScriptRows)
  BY <1>1, <1>2, InHand DEF DeskInv, DeskTypes
<1>4. CASE episodes[e].gone \/ episodes[e].links = {}
  <2>1. Settle(h, "failed") /\ episodes' = episodes /\ scripts' = scripts
    BY <1>2, <1>4 DEF BeginScript
  <2>2. ~Scripting(hand[h], jobs) BY <1>1 DEF Scripting
  <2>3. QED BY <1>1, <2>1, <2>2, EndedPanel
<1>5. CASE ~(episodes[e].gone \/ episodes[e].links = {})
  <2>1. PICK i : i = hand[h].job
    OBVIOUS
  <2>2. PICK n \in Nat, w \in HandRows : Begun(h, i, e, n, w) BY <1>2, <1>5, <2>1, BegunIs, Zenon
  <2>3. /\ w.job = i /\ w.script = n /\ n # 0 /\ hand' = [hand EXCEPT ![h] = w]
        /\ jobs' = [jobs EXCEPT ![i].script = n]
        /\ DOMAIN scripts' = DOMAIN scripts \cup {n}
        /\ \A s \in DOMAIN scripts : s # n => scripts'[s] = scripts[s]
        /\ scripts'[n].episode = e /\ scripts'[n].status = "generating"
        /\ n \in DOMAIN scripts => scripts[n].episode = e
    BY <2>2 DEF Begun, BegunRow
  <2>4. episodes' = [episodes EXCEPT ![e] = [@ EXCEPT !.status = "generating_script",
                                                      !.stranded = FALSE]]
    BY <2>2 DEF Begun
  <2>5. /\ DOMAIN episodes' = DOMAIN episodes
        /\ \A x \in DOMAIN episodes :
             /\ episodes'[x].gone <=> episodes[x].gone
             /\ x # e => episodes'[x] = episodes[x]
    <3>1. PICK v \in EpisodeRows :
            v = [episodes[e] EXCEPT !.status = "generating_script", !.stranded = FALSE]
      BY <1>3 DEF EpisodeRows, EpisodeStatuses
    <3>2. v.gone = episodes[e].gone BY <1>3, <3>1 DEF EpisodeRows
    <3>3. episodes' = [episodes EXCEPT ![e] = v] BY <2>4, <3>1
    <3>4. QED BY <1>3, <3>2, <3>3, Replaced DEF DeskTypes
  <2>6. BegunJobs(i, w)
    <3>1. i \in DOMAIN jobs /\ jobs[i] \in JobRows BY <1>1, <2>1, InHand
    <3>2. PICK v \in JobRows : v = [jobs[i] EXCEPT !.script = n] BY <3>1 DEF JobRows
    <3>3. /\ v.type = jobs[i].type /\ v.episode = jobs[i].episode
          /\ v.status = jobs[i].status /\ v.waiting = jobs[i].waiting
          /\ v.gone = jobs[i].gone /\ v.lost = jobs[i].lost /\ v.script = n
      BY <3>1, <3>2 DEF JobRows
    <3>4. jobs' = [jobs EXCEPT ![i] = v] BY <2>3, <3>2
    <3>5. /\ DOMAIN jobs' = DOMAIN jobs /\ jobs'[i] = v
          /\ \A j \in DOMAIN jobs : j # i => jobs'[j] = jobs[j]
      BY <1>3, <3>1, <3>4, Replaced DEF DeskTypes
    <3>6. QED BY <2>3, <3>3, <3>5 DEF BegunJobs
  <2>7. BegunEpisodes(h, w, e) BY <1>1, <2>3, <2>5 DEF BegunEpisodes
  <2>8. BegunScripts(h, w) BY <1>1, <2>3 DEF BegunScripts
  <2>9. QED BY <1>1, <1>3, <2>1, <2>3, <2>6, <2>7, <2>8, BegunPanel
<1>6. QED BY <1>4, <1>5

\* BeginAudio.
LEMMA BeginAudioKeepsPanel ==
  ASSUME DeskInv, PanelInv, NEW h \in Hands, BeginAudio(h)
  PROVE  PanelInv'
<1>1. Busy(h) /\ hand[h].script = 0 /\ jobs[hand[h].job].type = "audio" /\ scripts' = scripts
  BY DEF BeginAudio
<1>2. PICK s, x, e : s = jobs[hand[h].job].script /\ x = scripts[s].episode
                     /\ e = jobs[hand[h].job].episode
  OBVIOUS
<1>3. /\ hand[h] \in HandRows /\ JobFits(jobs[hand[h].job], episodes, scripts)
      /\ e \in DOMAIN episodes /\ DeskTypes
  BY <1>1, <1>2, InHand DEF DeskInv
<1>4. s \in DOMAIN scripts /\ s \in Nat /\ x \in DOMAIN episodes
  <2>1. s \in DOMAIN scripts BY <1>1, <1>2, <1>3 DEF JobFits
  <2>2. s \in Nat BY <1>3, <2>1 DEF DeskTypes
  <2>3. x \in DOMAIN episodes BY <1>2, <2>1, RowsKnow
  <2>4. QED BY <2>1, <2>2, <2>3
<1>5. CASE ~Usable(s)
  <2>1. Settle(h, "failed") /\ episodes' = episodes BY <1>2, <1>5 DEF BeginAudio
  <2>2. ~Scripting(hand[h], jobs) BY <1>1 DEF Scripting
  <2>3. QED BY <1>1, <2>1, <2>2, EndedPanel
<1>6. CASE Usable(s)
  <2>1. PICK w \in HandRows : w = [hand[h] EXCEPT !.script = s] BY <1>3, <1>4 DEF HandRows
  <2>2. w.job = hand[h].job BY <1>3, <2>1 DEF HandRows
  <2>3. /\ episodes' = [episodes EXCEPT ![x].status = "generating_audio"]
        /\ hand' = [hand EXCEPT ![h] = w] /\ jobs' = jobs
    BY <1>2, <1>6, <2>1 DEF BeginAudio
  <2>4. /\ DOMAIN episodes' = DOMAIN episodes
        /\ episodes'[x].status = "generating_audio"
        /\ \A y \in DOMAIN episodes :
             /\ episodes'[y].gone <=> episodes[y].gone
             /\ episodes'[y].stranded <=> episodes[y].stranded
             /\ y # x => episodes'[y].status = episodes[y].status
    BY <1>3, <1>4, <2>3, StatusIs DEF EpisodeStatuses
  <2>5. BegunEpisodes(h, w, e) BY <2>4 DEF BegunEpisodes
  <2>6. BegunScripts(h, w) BY <1>1 DEF BegunScripts
  <2>7. BegunJobs(hand[h].job, w) BY <1>1, <2>3 DEF BegunJobs
  <2>8. QED BY <1>1, <1>3, <2>2, <2>3, <2>5, <2>6, <2>7, BegunPanel
<1>7. QED BY <1>5, <1>6

\* The episode of a worker that leaves it in peace.
LEMMA IdledIs ==
  ASSUME DeskTypes, NEW e \in DOMAIN episodes, NEW row, episodes' = Idled(e, row)
  PROVE  /\ DOMAIN episodes' = DOMAIN episodes /\ episodes'[e].status # "generating_script"
         /\ \A x \in DOMAIN episodes :
              /\ episodes'[x].gone <=> episodes[x].gone
              /\ episodes[x].stranded => episodes'[x].stranded
              /\ episodes'[x].status \in {episodes[x].status, "draft"}
<1>1. CASE episodes[e].status \in {"generating_script", "generating_audio"}
  <2>1. episodes' = [episodes EXCEPT ![e].status = "draft"] BY <1>1 DEF Idled
  <2>2. /\ DOMAIN episodes' = DOMAIN episodes /\ episodes'[e].status = "draft"
        /\ \A x \in DOMAIN episodes :
             /\ episodes'[x].gone <=> episodes[x].gone
             /\ episodes'[x].stranded <=> episodes[x].stranded
             /\ x # e => episodes'[x].status = episodes[x].status
    BY <2>1, StatusIs DEF EpisodeStatuses
  <2>3. QED BY <2>2
<1>2. CASE episodes[e].status \notin {"generating_script", "generating_audio"} BY <1>2 DEF Idled
<1>3. QED BY <1>1, <1>2

\* The episode of a worker that has died, or could not commit.
LEMMA StrandedIs ==
  ASSUME DeskTypes, NEW e \in DOMAIN episodes, episodes' = [episodes EXCEPT ![e].stranded = TRUE]
  PROVE  /\ DOMAIN episodes' = DOMAIN episodes /\ episodes'[e].stranded
         /\ \A x \in DOMAIN episodes :
              /\ episodes'[x].gone <=> episodes[x].gone
              /\ episodes[x].stranded => episodes'[x].stranded
              /\ episodes'[x].status = episodes[x].status
<1>1. episodes[e] \in EpisodeRows BY DEF DeskTypes
<1>2. PICK v \in EpisodeRows : v = [episodes[e] EXCEPT !.stranded = TRUE] BY <1>1 DEF EpisodeRows
<1>3. v.stranded = TRUE /\ v.gone = episodes[e].gone /\ v.status = episodes[e].status
  BY <1>1, <1>2 DEF EpisodeRows
<1>4. episodes' = [episodes EXCEPT ![e] = v] BY <1>2
<1>5. QED BY <1>3, <1>4, Replaced DEF DeskTypes

\* FinishScript, RefuseScript, FailCommit and FinishAudio.
LEMMA LeavingKeepsPanel ==
  ASSUME DeskInv, PanelInv, NEW h \in Hands, Busy(h), hand[h].script # 0,
         NEW c \in {"succeeded", "failed"}, Settle(h, c), NEW row,
         NEW s \in DOMAIN scripts, s = hand[h].script, NEW e, e = jobs[hand[h].job].episode,
         scripts[s].episode = e, row.episode = e,
         \/ Leaves(h, row)
         \/ scripts' = [scripts EXCEPT ![s] = row] /\ episodes' = [episodes EXCEPT ![e].stranded = TRUE],
         \/ Scripting(hand[h], jobs) /\ row.status = "ready"
         \/ Scripting(hand[h], jobs) /\ row.status = "failed" /\ c = "failed"
         \/ row.status = scripts[s].status /\ ~Scripting(hand[h], jobs)
  PROVE  PanelInv'
<1>1. PICK i : i = hand[h].job
  OBVIOUS
<1>2. e \in DOMAIN episodes /\ DeskTypes /\ episodes[e] \in EpisodeRows
  BY <1>1, InHand DEF DeskInv, DeskTypes
<1>3. CASE episodes' = episodes /\ scripts' = scripts /\ episodes[e].gone
  BY <1>1, <1>2, <1>3, EndedPanel
<1>4. ASSUME scripts' = [scripts EXCEPT ![s] = row], DOMAIN episodes' = DOMAIN episodes,
             episodes'[e].stranded \/ episodes'[e].status # "generating_script",
             \A x \in DOMAIN episodes :
               /\ episodes'[x].gone <=> episodes[x].gone
               /\ episodes[x].stranded => episodes'[x].stranded
               /\ episodes'[x].status \in {episodes[x].status, "draft"}
      PROVE  PanelInv'
  <2>1. /\ DOMAIN scripts' = DOMAIN scripts /\ scripts'[s] = row
        /\ \A t \in DOMAIN scripts : t # s => scripts'[t] = scripts[t]
    BY <1>2, <1>4 DEF DeskTypes
  <2>2. /\ hand' = [hand EXCEPT ![h] = Free] /\ DOMAIN jobs' = DOMAIN jobs
        /\ \A j \in DOMAIN jobs :
             /\ jobs'[j].type = jobs[j].type /\ jobs'[j].episode = jobs[j].episode
             /\ jobs'[j].gone = jobs[j].gone /\ jobs'[j].script = jobs[j].script
             /\ jobs'[j].lost = jobs[j].lost
             /\ j # i => jobs'[j] = jobs[j]
        /\ jobs'[i].status = c /\ ~jobs'[i].waiting
    BY <1>1, SettledJob
  <2>3. FreedEpisodes BY <1>4 DEF FreedEpisodes
  <2>4. FreedScripts(h, i) BY <1>1, <2>1, <2>2 DEF FreedScripts
  <2>5. FreedWork(h, i) BY <1>1, <1>4, <2>1 DEF FreedWork
  <2>6. FreedJobs(i) BY <1>1, <2>2 DEF FreedJobs
  <2>7. QED BY <1>1, <2>2, <2>3, <2>4, <2>5, <2>6, FreedPanel
<1>5. CASE scripts' = [scripts EXCEPT ![s] = row] /\ episodes' = Idled(e, row)
  <2>1. /\ DOMAIN episodes' = DOMAIN episodes
        /\ episodes'[e].status # "generating_script"
        /\ \A x \in DOMAIN episodes :
             /\ episodes'[x].gone <=> episodes[x].gone
             /\ episodes[x].stranded => episodes'[x].stranded
             /\ episodes'[x].status \in {episodes[x].status, "draft"}
    BY <1>2, <1>5, IdledIs
  <2>2. QED BY <1>4, <1>5, <2>1
<1>6. CASE scripts' = [scripts EXCEPT ![s] = row] /\ episodes' = [episodes EXCEPT ![e].stranded = TRUE]
  BY <1>2, <1>4, <1>6, StrandedIs
<1>7. QED BY <1>3, <1>5, <1>6 DEF Leaves

\* A worker's step keeps the invariant of the panel.
LEMMA WorkerKeepsPanel ==
  ASSUME DeskInv, PanelInv, NEW h \in Hands,
         \/ WorkStep(h) \/ RefuseScript(h) \/ FailCommit(h) \/ RefuseAudio(h)
         \/ LoseWorker(h)
  PROVE  PanelInv'
<1>1. CASE TakeJob(h) BY <1>1, TakeKeepsPanel
<1>2. CASE BeginScript(h) BY <1>2, BeginScriptKeepsPanel
<1>3. CASE BeginAudio(h) BY <1>3, BeginAudioKeepsPanel
<1>4. CASE FinishScript(h) \/ RefuseScript(h) \/ FailCommit(h)
  <2>1. Busy(h) /\ hand[h].script # 0 /\ Scripting(hand[h], jobs)
    BY <1>4 DEF FinishScript, RefuseScript, FailCommit, AtScript, Scripting, Busy
  <2>2. PICK s : s = hand[h].script
    OBVIOUS
  <2>3. s \in DOMAIN scripts /\ scripts[s].episode = jobs[hand[h].job].episode
        /\ scripts[s] \in ScriptRows
    BY <2>1, <2>2, RowsKnow
  <2>4. CASE FinishScript(h)
    <3>1. PICK row : row = Written(h)
      OBVIOUS
    <3>2. row.episode = scripts[s].episode /\ row.status = "ready"
      BY <2>2, <2>3, <3>1 DEF Written, ScriptRows
    <3>3. PICK c \in {"succeeded", "failed"} : c = Outcome(h) BY DEF Outcome
    <3>4. Leaves(h, row) /\ Settle(h, c) BY <2>4, <3>1, <3>3 DEF FinishScript
    <3>5. QED BY <2>1, <2>2, <2>3, <3>2, <3>4, LeavingKeepsPanel
  <2>5. CASE RefuseScript(h) \/ FailCommit(h)
    <3>1. PICK row : row = Refused(h)
      OBVIOUS
    <3>2. row.episode = scripts[s].episode /\ row.status = "failed"
      BY <2>2, <2>3, <3>1 DEF Refused, ScriptRows
    <3>3. CASE RefuseScript(h)
      <4>1. Leaves(h, row) /\ Settle(h, "failed") BY <3>1, <3>3 DEF RefuseScript
      <4>2. QED BY <2>1, <2>2, <2>3, <3>2, <4>1, LeavingKeepsPanel
    <3>4. CASE FailCommit(h)
      <4>1. PICK e : e = scripts[s].episode
        OBVIOUS
      <4>2. /\ scripts' = [scripts EXCEPT ![s] = row]
            /\ episodes' = [episodes EXCEPT ![e].stranded = TRUE]
            /\ Settle(h, "failed")
        BY <2>2, <3>1, <3>4, <4>1 DEF FailCommit
      <4>3. QED BY <2>1, <2>2, <2>3, <3>2, <4>1, <4>2, LeavingKeepsPanel
    <3>5. QED BY <2>5, <3>3, <3>4
  <2>6. QED BY <1>4, <2>4, <2>5
<1>5. CASE FinishAudio(h)
  <2>1. Busy(h) /\ hand[h].script # 0 /\ jobs[hand[h].job].type = "audio"
    BY <1>5 DEF FinishAudio, AtAudio
  <2>2. PICK s : s = hand[h].script
    OBVIOUS
  <2>3. s \in DOMAIN scripts /\ scripts[s].episode = jobs[hand[h].job].episode
    BY <2>1, <2>2, InHand DEF HandFits, JobFits
  <2>4. scripts[s] \in ScriptRows BY <2>3, RowsKnow
  <2>5. PICK row : row = [scripts[s] EXCEPT !.voiced = TRUE]
    OBVIOUS
  <2>6. row.episode = scripts[s].episode /\ row.status = scripts[s].status
    BY <2>4, <2>5 DEF ScriptRows
  <2>7. PICK c \in {"succeeded", "failed"} : c = Outcome(h) BY DEF Outcome
  <2>8. Leaves(h, row) /\ Settle(h, c) /\ ~Scripting(hand[h], jobs)
    BY <1>5, <2>1, <2>2, <2>5, <2>7 DEF FinishAudio, Scripting
  <2>9. QED BY <2>1, <2>2, <2>3, <2>6, <2>8, LeavingKeepsPanel
<1>6. CASE RefuseAudio(h)
  <2>1. /\ Busy(h) /\ hand[h].script # 0 /\ ~Scripting(hand[h], jobs)
        /\ episodes' = episodes /\ scripts' = scripts
    BY <1>6 DEF RefuseAudio, AtAudio, Scripting
  <2>2. CASE Settle(h, "failed") BY <2>1, <2>2, EndedPanel
  <2>3. CASE ~Settle(h, "failed")
    <3>1. PICK i : i = hand[h].job
      OBVIOUS
    <3>2. i \in DOMAIN jobs /\ jobs[i] \in JobRows /\ jobs[i].episode \in DOMAIN episodes
      BY <2>1, <3>1, InHand
    <3>3. PICK v \in JobRows : v = [jobs[i] EXCEPT !.status = "retrying", !.waiting = TRUE]
      BY <3>2 DEF JobRows
    <3>4. /\ v.type = jobs[i].type /\ v.episode = jobs[i].episode
          /\ v.gone = jobs[i].gone /\ v.status = "retrying" /\ v.waiting = TRUE
          /\ v.script = jobs[i].script /\ v.lost = FALSE /\ jobs[i].lost = FALSE
      BY <2>1, <3>1, <3>2, <3>3 DEF JobRows, PanelInv, HandsOwn, Busy
    <3>5. jobs' = [jobs EXCEPT ![i] = v] /\ hand' = [hand EXCEPT ![h] = Free]
      BY <1>6, <2>3, <3>1, <3>3 DEF RefuseAudio
    <3>6. /\ DOMAIN jobs' = DOMAIN jobs /\ jobs'[i] = v
          /\ \A j \in DOMAIN jobs : j # i => jobs'[j] = jobs[j]
      BY <3>2, <3>5 DEF DeskInv, DeskTypes
    <3>7. FreedEpisodes BY <2>1 DEF FreedEpisodes
    <3>8. FreedScripts(h, i) BY <2>1 DEF FreedScripts
    <3>9. FreedWork(h, i) BY <2>1 DEF FreedWork
    <3>10. FreedJobs(i) BY <3>4, <3>6 DEF FreedJobs
    <3>11. QED BY <2>1, <3>1, <3>5, <3>7, <3>8, <3>9, <3>10, FreedPanel
  <2>4. QED BY <2>2, <2>3
<1>7. CASE LoseWorker(h)
  <2>1. PICK i, e : i = hand[h].job /\ e = jobs[i].episode
    OBVIOUS
  <2>2. /\ Busy(h) /\ hand' = [hand EXCEPT ![h] = Free] /\ scripts' = scripts
        /\ jobs' = [jobs EXCEPT ![i].lost = TRUE]
        /\ AtScript(h) => episodes' = [episodes EXCEPT ![e].stranded = TRUE]
        /\ ~AtScript(h) => episodes' = episodes
    BY <1>7, <2>1 DEF LoseWorker
  <2>3. /\ i \in DOMAIN jobs /\ e \in DOMAIN episodes /\ jobs[i] \in JobRows
        /\ ~jobs[i].waiting /\ jobs[i].status \in {"running", "cancelled"}
    BY <2>1, <2>2, InHand, RowsKnow DEF PanelInv, HandsOwn, Busy
  <2>4. PICK v \in JobRows : v = [jobs[i] EXCEPT !.lost = TRUE] BY <2>3 DEF JobRows
  <2>5. /\ v.type = jobs[i].type /\ v.episode = jobs[i].episode /\ v.script = jobs[i].script
        /\ v.status = jobs[i].status /\ v.waiting = jobs[i].waiting /\ v.gone = jobs[i].gone
        /\ v.lost = TRUE
    BY <2>3, <2>4 DEF JobRows
  <2>6. /\ DOMAIN jobs' = DOMAIN jobs /\ jobs'[i] = v
        /\ \A j \in DOMAIN jobs : j # i => jobs'[j] = jobs[j]
    <3>1. jobs' = [jobs EXCEPT ![i] = v] BY <2>2, <2>4
    <3>2. QED BY <2>3, <3>1, Replaced DEF DeskInv, DeskTypes
  <2>7. /\ FreedEpisodes
        /\ AtScript(h) => episodes'[e].stranded
    <3>1. CASE AtScript(h) BY <2>2, <2>3, <3>1, StrandedIs DEF DeskInv, FreedEpisodes
    <3>2. CASE ~AtScript(h) BY <2>2, <3>2 DEF FreedEpisodes
    <3>3. QED BY <3>1, <3>2
  <2>8. FreedScripts(h, i) BY <2>2 DEF FreedScripts
  <2>9. FreedWork(h, i) BY <2>1, <2>2, <2>5, <2>6, <2>7 DEF FreedWork, AtScript, Scripting
  <2>10. FreedJobs(i) BY <2>3, <2>5, <2>6 DEF FreedJobs
  <2>11. QED BY <2>1, <2>2, <2>7, <2>8, <2>9, <2>10, FreedPanel
<1>8. QED BY <1>1, <1>2, <1>3, <1>4, <1>5, <1>6, <1>7 DEF WorkStep

\* The panel when the pages are opened.
LEMMA PanelStart ==
  ASSUME DeskInit
  PROVE  PanelInv
<1>1. /\ deskSite \in DeskSites /\ episodes = deskSite.episodes
      /\ scripts = <<>> /\ jobs = <<>>
      /\ hand = [h \in Hands |-> [job |-> 0, script |-> 0, sources |-> {}]]
  BY DEF DeskInit
<1>2. \A e \in DOMAIN episodes : episodes[e].status # "generating_script"
  <2>1. PICK R : R = [status : {"draft", "collecting"}, links : SUBSET Articles,
                      gone : {FALSE}, asked : {{}}, resaved : {FALSE}, stranded : {FALSE}]
    OBVIOUS
  <2>2. episodes \in Seq(R) BY <1>1, <2>1, DeskSitesAssumption DEF Articles
  <2>3. \A v \in R : v.status # "generating_script" BY <2>1
  <2>4. QED BY <2>2, <2>3
<1>3. \A h \in Hands : hand[h].job = 0 BY <1>1
<1>4. DOMAIN scripts = {} /\ DOMAIN jobs = {} BY <1>1
<1>5. QED BY <1>2, <1>3, <1>4 DEF PanelInv, HandsOwn, JobsStand, ScriptsStand, EpisodesStand

\* Every step of the pages keeps the invariant of the panel.
LEMMA PanelKept ==
  ASSUME DeskInv, PanelInv, [DeskNext]_deskVars
  PROVE  PanelInv'
<1>1. deskSite.people \subseteq Staff /\ deskSite.hands \subseteq Hands
  BY DeskSitesAssumption DEF DeskInv, DeskTypes
<1>2. ASSUME NEW o \in deskSite.people,
             \/ LoadPage(o) \/ RequestStep(o)
             \/ SaveSources(o) \/ GenerateScript(o) \/ GenerateAgain(o) \/ AbortScript(o)
             \/ DeleteEpisode(o) \/ DeleteFailedJob(o) \/ OpenStudio(o)
      PROVE  PanelInv'
  BY <1>1, <1>2, PersonKeepsPanel
<1>3. ASSUME NEW h \in deskSite.hands,
             \/ WorkStep(h) \/ RefuseScript(h) \/ FailCommit(h) \/ RefuseAudio(h)
             \/ LoseWorker(h)
      PROVE  PanelInv'
  <2>1. h \in Hands BY <1>1
  <2>2. QED BY <1>3, <2>1, WorkerKeepsPanel
<1>4. CASE PlanEpisode
  <2>1. PICK L : L = Articles
    OBVIOUS
  <2>2. /\ episodes' = Append(episodes, Episode("draft", L))
        /\ L \in SUBSET Articles
        /\ hand' = hand /\ scripts' = scripts /\ jobs' = jobs
    BY <1>4, <2>1 DEF PlanEpisode
  <2>3. DeskTypes BY DEF DeskInv
  <2>4. EpisodesGo BY <2>2, <2>3, EpisodeAdded
  <2>5. QED BY <2>2, <2>4, RowsStay, PersonPanel
<1>5. CASE UNCHANGED deskVars
  <2>1. hand' = hand /\ episodes' = episodes /\ scripts' = scripts /\ jobs' = jobs
    BY <1>5 DEF deskVars
  <2>2. QED BY <2>1, RowsStay, PersonPanel
<1>6. QED BY <1>2, <1>3, <1>4, <1>5 DEF DeskNext

\* How the statuses of a script and of its job are shown.
LEMMA ShownAs ==
  /\ DisplayStatus("ready") = "SUCCESS" /\ DisplayStatus("succeeded") = "SUCCESS"
  /\ DisplayStatus("failed") = "FAILED" /\ DisplayStatus("cancelled") = "FAILED"
  /\ DisplayStatus("generating") = "RUNNING"
  /\ DisplayStatus("running") = "RUNNING"
  /\ DisplayStatus("retrying") = "RUNNING" /\ DisplayStatus("queued") = "QUEUED"
  /\ DisplayStatus("pending") = "PENDING" /\ DisplayStatus("deleted") = "deleted"
  BY DEF DisplayStatus, SUCCESS_STATUSES, FAILED_STATUSES, RUNNING_STATUSES

\* Of five stages, all are done when the panel says SUCCESS, and not before.
LEMMA AllDone ==
  ASSUME NEW V, NEW shown \in [1..5 -> V]
  PROVE  /\ OverallStatus(shown) = "SUCCESS" <=> \A i \in 1..5 : shown[i] = "SUCCESS"
         /\ OverallStatus(shown) = "FAILED" => \E i \in 1..5 : shown[i] = "FAILED"
         /\ OverallStatus(shown) = "RUNNING" =>
              \E i \in 1..5 : shown[i] \in {"RUNNING", "QUEUED"}
<1>1. PICK R : R = Range(shown)
  OBVIOUS
<1>2. \A x : x \in R <=> \E i \in 1..5 : shown[i] = x BY <1>1 DEF Range
<1>3. OverallStatus(shown) =
        IF "FAILED" \in R THEN "FAILED"
        ELSE IF R = {"SUCCESS"} THEN "SUCCESS"
        ELSE IF R \cap {"RUNNING", "QUEUED"} # {} THEN "RUNNING" ELSE "PENDING"
  BY <1>1 DEF OverallStatus
<1>4. R = {"SUCCESS"} <=> \A i \in 1..5 : shown[i] = "SUCCESS"
  <2>1. ASSUME \A i \in 1..5 : shown[i] = "SUCCESS" PROVE R = {"SUCCESS"}
    <3>1. shown[1] = "SUCCESS" BY <2>1
    <3>2. QED BY <1>2, <2>1, <3>1
  <2>2. QED BY <1>2, <2>1
<1>5. QED BY <1>2, <1>3, <1>4

\* 100 % is said of all five stages.
LEMMA AllCounted ==
  ASSUME NEW V, NEW shown \in [1..5 -> V]
  PROVE  OverallStatus(shown) = "SUCCESS" <=> Progress(shown) = 100
<1>1. PICK D : D = {i \in 1..5 : shown[i] = "SUCCESS"}
  OBVIOUS
<1>2. PICK c : c = Cardinality(D)
  OBVIOUS
<1>3. c \in 0..5 /\ (c = 5 <=> D = 1..5)
  <2>1. PICK a \in Int, b \in Int : a = 1 /\ b = 5
    OBVIOUS
  <2>2. PICK T : T = a..b
    OBVIOUS
  <2>3. IsFiniteSet(T) /\ Cardinality(T) = 5
    <3>1. IsFiniteSet(a..b) /\ Cardinality(a..b) = IF a > b THEN 0 ELSE b - a + 1 BY FS_Interval
    <3>2. QED BY <2>1, <2>2, <3>1
  <2>4. D \in SUBSET T BY <1>1, <2>1, <2>2
  <2>5. /\ IsFiniteSet(D) /\ Cardinality(D) <= Cardinality(T)
        /\ Cardinality(T) = Cardinality(D) => T = D
    BY <2>3, <2>4, FS_Subset
  <2>6. Cardinality(D) \in Nat BY <2>5, FS_CardinalityType
  <2>7. QED BY <1>2, <2>1, <2>2, <2>3, <2>5, <2>6
<1>4. Completed(shown) = c BY <1>1, <1>2 DEF Completed
<1>5. Len(shown) = 5
  <2>1. PICK n \in Nat : n = 5
    OBVIOUS
  <2>2. shown \in [1..n -> V] BY <2>1
  <2>3. Len(shown) = n BY <2>2
  <2>4. QED BY <2>1, <2>3
<1>6. OverallStatus(shown) = "SUCCESS" <=> c = 5 BY <1>1, <1>3, AllDone
<1>7. PICK p : p = (c * 100) \div 5
  OBVIOUS
<1>8. p \in 0..100 /\ p = c * 20 BY <1>3, <1>7
<1>9. Progress(shown) =
        IF OverallStatus(shown) = "RUNNING" /\ p < 100
        THEN IF p + 5 > 95 THEN 95 ELSE p + 5
        ELSE p
  BY <1>4, <1>5, <1>7 DEF Progress
<1>10. QED BY <1>3, <1>6, <1>8, <1>9

\* The newest script of an episode.
LEMMA LatestIs ==
  ASSUME DeskInv, NEW e \in DOMAIN episodes, NEW S, S = ScriptsOf(e), NEW s, s = LatestScript(e)
  PROVE  /\ s = 0 => S = {}
         /\ s # 0 => s \in S /\ {t \in S : \A u \in S : u <= t} = {s}
<1>1. scripts \in Seq(ScriptRows) BY DEF DeskInv, DeskTypes
<1>2. PICK n \in Nat : DOMAIN scripts = 1..n BY <1>1
<1>3. S \in SUBSET (1..n) /\ s = Newest(S) BY <1>2 DEF ScriptsOf, LatestScript
<1>4. S # {} => s \in S /\ \A y \in S : y <= s BY <1>3, NewestIn
<1>5. S = {} => s = 0 BY <1>3 DEF Newest
<1>6. QED BY <1>3, <1>4, <1>5

\* The jobs of an episode without a script.
LEMMA LatestJobIs ==
  ASSUME DeskInv, NEW e \in DOMAIN episodes, ScriptJobs(e) # {}
  PROVE  Max(ScriptJobs(e)) \in ScriptJobs(e)
<1>1. jobs \in Seq(JobRows) BY DEF DeskInv, DeskTypes
<1>2. PICK n \in Nat : DOMAIN jobs = 1..n BY <1>1
<1>3. ScriptJobs(e) \in SUBSET (1..n) BY <1>2 DEF ScriptJobs
<1>4. Newest(ScriptJobs(e)) \in ScriptJobs(e) BY <1>3, NewestIn
<1>5. QED BY <1>4 DEF Newest

\* The stage of the script is in order.
LEMMA StageHolds ==
  ASSUME DeskInv, PanelInv, NEW e \in ThereAre, NEW d, d = DisplayStatus(ScriptStage(e)),
         NEW newest, newest = NewestScripts(e)
  PROVE  StageSays(e, d, newest)
<1>1. e \in DOMAIN episodes /\ ~episodes[e].gone BY DEF ThereAre
<1>2. PICK s, S : s = LatestScript(e) /\ S = ScriptsOf(e)
  OBVIOUS
<1>3. /\ s = 0 => newest = {} /\ S = {}
      /\ s # 0 => s \in S /\ newest = {s}
  BY <1>1, <1>2, LatestIs DEF NewestScripts
<1>4. CASE s # 0
  <2>1. s \in DOMAIN scripts /\ scripts[s].episode = e BY <1>2, <1>3, <1>4 DEF ScriptsOf
  <2>2. scripts[s].status \in {"generating", "ready", "failed"}
    <3>1. scripts[s] \in ScriptRows /\ scripts[s].status # "deleted" BY <1>1, <2>1, RowsKnow
    <3>2. QED BY <3>1 DEF ScriptRows
  <2>3. PICK c : c = scripts[s].status
    OBVIOUS
  <2>4. d = DisplayStatus(c) /\ (Usable(s) <=> c = "ready")
    BY <1>2, <1>4, <2>2, <2>3 DEF ScriptStage, Usable
  <2>5. /\ c = "ready" <=> d = "SUCCESS"
        /\ d \in {"RUNNING", "QUEUED"} => c = "generating"
        /\ d = "FAILED" => c = "failed"
    BY <2>2, <2>3, <2>4, ShownAs
  <2>6. \A j \in DOMAIN jobs : Owns(j, s) => Behind(j, e, newest)
    BY <1>3, <1>4, <2>1 DEF Owns, Behind
  <2>7. ScriptStands(s) BY <2>1 DEF PanelInv, ScriptsStand
  <2>8. c = "generating" =>
          \E j \in DOMAIN jobs : Owns(j, s) /\ (Working(j) \/ jobs[j].lost)
    <3>1. ASSUME NEW h \in Hands, Scripting(hand[h], jobs), hand[h].script = s
          PROVE  \E j \in DOMAIN jobs : Owns(j, s) /\ Working(j)
      <4>1. PICK j : j = hand[h].job
        OBVIOUS
      <4>2. /\ j \in DOMAIN jobs /\ jobs[j].type = "script" /\ j # 0
            /\ jobs[j].episode = scripts[s].episode
        BY <3>1, <4>1, RowsKnow DEF Scripting
      <4>3. jobs[j].script = s BY <3>1, <4>1, <4>2 DEF PanelInv, HandsOwn
      <4>4. QED BY <4>1, <4>2, <4>3 DEF Owns, Working
    <3>2. QED BY <2>3, <2>7, <3>1 DEF ScriptStands, Held
  <2>9. c = "failed" =>
          \E j \in DOMAIN jobs : Owns(j, s) /\ jobs[j].status \in {"failed", "cancelled"}
    BY <2>3, <2>7 DEF ScriptStands, Concluded
  <2>10. d = "SUCCESS" <=> \E t \in newest : Usable(t) BY <1>3, <1>4, <2>4, <2>5
  <2>11. QED BY <2>5, <2>6, <2>8, <2>9, <2>10, Zenon DEF StageSays
<1>5. CASE s = 0 /\ ScriptJobs(e) # {}
  <2>1. PICK j : j = Max(ScriptJobs(e))
    OBVIOUS
  <2>2. j \in ScriptJobs(e) BY <1>1, <1>5, <2>1, LatestJobIs
  <2>3. j \in DOMAIN jobs /\ jobs[j].episode = e /\ Behind(j, e, newest)
    BY <1>3, <1>5, <2>2 DEF ScriptJobs, Behind
  <2>4. PICK c : c = jobs[j].status
    OBVIOUS
  <2>5. c \in {"queued", "running", "retrying", "succeeded", "failed", "cancelled"}
    BY <2>3, <2>4, RowsKnow DEF JobRows
  <2>6. JobStands(j) BY <2>3 DEF PanelInv, JobsStand
  <2>7. c # "succeeded"
    <3>1. c = "succeeded" => \E t \in DOMAIN scripts : scripts[t].episode = e
      BY <1>1, <2>3, <2>4, <2>6 DEF JobStands
    <3>2. QED BY <1>2, <1>3, <1>5, <3>1 DEF ScriptsOf
  <2>8. d = DisplayStatus(c) BY <1>2, <1>5, <2>1, <2>4 DEF ScriptStage
  <2>9. /\ d # "SUCCESS"
        /\ d \in {"RUNNING", "QUEUED"} => c \in {"queued", "running", "retrying"}
        /\ d = "FAILED" => c \in {"failed", "cancelled"}
    BY <2>5, <2>7, <2>8, ShownAs
  <2>10. c \in {"queued", "running", "retrying"} => jobs[j].waiting \/ Working(j) \/ jobs[j].lost
    BY <2>4, <2>6 DEF JobStands
  <2>11. QED BY <1>3, <1>5, <2>3, <2>4, <2>9, <2>10 DEF StageSays
<1>6. CASE s = 0 /\ ScriptJobs(e) = {}
  <2>1. d = "PENDING" BY <1>2, <1>6, ShownAs DEF ScriptStage
  <2>2. QED BY <1>3, <1>6, <2>1 DEF StageSays
<1>7. QED BY <1>4, <1>5, <1>6

\* The badge is in order.
LEMMA BadgeHolds ==
  ASSUME DeskInv, PanelInv, NEW e \in ThereAre, Badge(e) = "generating_script"
  PROVE  episodes[e].stranded \/ \E h \in Hands : AtScriptOf(h, e)
<1>1. e \in DOMAIN episodes /\ ~episodes[e].gone BY DEF ThereAre
<1>2. episodes[e].status = "generating_script" BY DEF Badge
<1>3. \/ episodes[e].stranded
      \/ \E h \in Hands : Scripting(hand[h], jobs) /\ scripts[hand[h].script].episode = e
  BY <1>1, <1>2 DEF PanelInv, EpisodesStand
<1>4. QED BY <1>3 DEF Scripting, AtScriptOf, AtScript, Busy

\* The invariants say what the run checks.
LEMMA PanelHolds == DeskInv /\ PanelInv => PanelIsHonest
<1> SUFFICES ASSUME DeskInv, PanelInv, NEW e \in ThereAre
             PROVE  LET shown == Shown(e)
                        newest == {s \in ScriptsOf(e) : \A t \in ScriptsOf(e) : t <= s}
                        behind == {j \in DOMAIN jobs : Behind(j, e, newest)}
                        analysed == \A i \in 1..4 : shown[i] = "SUCCESS"
                    IN /\ OverallStatus(shown) = "SUCCESS" <=> Progress(shown) = 100
                       /\ analysed =>
                            /\ OverallStatus(shown) = "SUCCESS" <=> \E s \in newest : Usable(s)
                            /\ OverallStatus(shown) = "RUNNING" =>
                                 \E j \in behind : jobs[j].waiting \/ Working(j) \/ jobs[j].lost
                            /\ OverallStatus(shown) = "FAILED" =>
                                 \E j \in behind : jobs[j].status \in {"failed", "cancelled"}
                       /\ Badge(e) = "generating_script" =>
                            episodes[e].stranded \/ \E h \in Hands : AtScriptOf(h, e)
  BY DEF PanelIsHonest, Behind
<1>1. PICK shown : shown = Shown(e)
  OBVIOUS
<1>2. PICK newest : newest = NewestScripts(e)
  OBVIOUS
<1>3. PICK d : d = DisplayStatus(ScriptStage(e))
  OBVIOUS
<1>4. PICK V : shown \in [1..5 -> V]
  <2>1. PICK V : V = {DisplayStatus(BuildPipeline(e)[i]) : i \in 1..5}
    OBVIOUS
  <2>2. shown \in [1..5 -> V] BY <1>1, <2>1 DEF Shown
  <2>3. QED BY <2>2
<1>5. shown[5] = d
  <2>1. BuildPipeline(e)[5] = ScriptStage(e) BY DEF BuildPipeline
  <2>2. QED BY <1>1, <1>3, <2>1 DEF Shown
<1>6. /\ OverallStatus(shown) = "SUCCESS" <=> \A i \in 1..5 : shown[i] = "SUCCESS"
      /\ OverallStatus(shown) = "FAILED" => \E i \in 1..5 : shown[i] = "FAILED"
      /\ OverallStatus(shown) = "RUNNING" => \E i \in 1..5 : shown[i] \in {"RUNNING", "QUEUED"}
  BY <1>4, AllDone
<1>7. OverallStatus(shown) = "SUCCESS" <=> Progress(shown) = 100 BY <1>4, AllCounted
<1>8. StageSays(e, d, newest) BY <1>2, <1>3, StageHolds
<1>9. ASSUME \A i \in 1..4 : shown[i] = "SUCCESS"
      PROVE  /\ OverallStatus(shown) = "SUCCESS" <=> d = "SUCCESS"
             /\ OverallStatus(shown) = "RUNNING" => d \in {"RUNNING", "QUEUED"}
             /\ OverallStatus(shown) = "FAILED" => d = "FAILED"
  <2>1. \A i \in 1..5 : i = 5 \/ shown[i] = "SUCCESS" BY <1>9
  <2>2. QED BY <1>5, <1>6, <2>1
<1>10. QED BY <1>1, <1>2, <1>7, <1>8, <1>9, BadgeHolds DEF NewestScripts, StageSays

-----------------------------------------------------------------------------
(* Theorems.                                                               *)

\* A step of the studio is one of the pages, or leaves them as they are.
LEMMA PagesOnly ==
  ASSUME [StudioNext]_studioVars
  PROVE  [DeskNext]_deskVars
  BY DEF StudioNext, studioVars

\* Scripts are made from what was selected when they were asked for, and audio
\* is asked for usable scripts, however many people, planners and workers
\* write the same rows.
THEOREM ScriptsKeepTheirSources == FairSpec => []ScriptsHaveTheirSources
<1>1. StudioInit => DeskInv BY DeskStart DEF StudioInit
<1>2. DeskInv /\ [StudioNext]_studioVars => DeskInv' BY PagesOnly, DeskKept
<1>3. QED BY <1>1, <1>2, SourcesHold, PTL DEF FairSpec

\* A save that nobody disturbed does what the page said: its articles are
\* selected as they were checked, and the draft is linked to what is selected.
THEOREM SavesDoAsThePageSaid == FairSpec => SavesAreExact
<1>1. StudioInit => DeskInv BY DeskStart DEF StudioInit
<1>2. DeskInv /\ [StudioNext]_studioVars => DeskInv' BY PagesOnly, DeskKept
<1>3. DeskInv /\ [StudioNext]_studioVars =>
        [\A o \in Staff :
           LET r == desk[o]
           IN Saved(o) /\ r.alone /\ ~episodes[r.item].gone =>
                /\ selected = (r.before \ r.scope) \cup r.form
                /\ episodes[r.item].links = selected]_deskVars
  BY PagesOnly, SavedWell
<1>4. QED BY <1>1, <1>2, <1>3, PTL DEF FairSpec, SavesAreExact

\* The panel of an episode says how its newest script stands, and the badge
\* says that a script is being written only if somebody is at it.
THEOREM PanelTellsTheTruth == FairSpec => []PanelIsHonest
<1>1. StudioInit => DeskInv /\ PanelInv BY DeskStart, PanelStart DEF StudioInit
<1>2. DeskInv /\ PanelInv /\ [StudioNext]_studioVars => DeskInv' /\ PanelInv'
  BY PagesOnly, DeskKept, PanelKept
<1>3. QED BY <1>1, <1>2, PanelHolds, PTL DEF FairSpec

=============================================================================

---------------------------- MODULE HealthReports ----------------------------
(***************************************************************************)
(* The health reports: what the unified report, the readiness probe, the   *)
(* API and the Monitor page of the dashboard say of the services the       *)
(* system needs.  A report asks one question after the other, without any  *)
(* view of all the services at one moment, while they come and go and      *)
(* other reports put a test file of the same name in the media folder.     *)
(***************************************************************************)
EXTENDS Naturals, Sequences, FiniteSets, SequencesExt

CONSTANTS
  Probers,    \* requests for a report
  ProbeSites  \* the surroundings to consider

\* "tasks": the workers know every task.  "models": Ollama has both models.
Services == {"postgresql", "redis", "workers", "tasks", "ffmpeg", "media",
             "ollama", "models", "chatterbox", "supabase", "folder"}
Reports == {"unified", "ready", "api", "monitor"}

ASSUME ProbeSitesAssumption ==
  \A s \in ProbeSites :
    /\ s.up \subseteq Services /\ s.swinging \subseteq Services
    /\ s.requests \in [Probers -> Reports \cup {"none"}]
    /\ s.supabase \in BOOLEAN /\ s.rss \in BOOLEAN /\ s.scheduled \in BOOLEAN
    /\ s.swings \in Nat

VARIABLES
  probeSite,  \* the surroundings, chosen at the start
  up,         \* the services that answer
  testFiles,  \* the test files in the media folder
  probe,      \* request -> its report so far
  swings      \* how often a service has gone or come               (bound)

probeVars == <<probeSite, up, testFiles, probe, swings>>

-----------------------------------------------------------------------------
(* The questions of each report in their order: component and question.    *)

About(component, questions) == [i \in 1..Len(questions) |-> <<component, questions[i]>>]
Postgres == About("postgresql", <<"connect">>)
Redis == About("redis", <<"ping">>)
Celery == About("celery_workers", <<"broker", "workers", "registered">>)
Ffmpeg == About("ffmpeg", <<"which">>)
Storage == About("storage", <<"write", "unlink">>)
Ollama == <<"tags", "models">>
Llm == About("ollama", Ollama)
Tts == About("chatterbox", <<"info">>)
Supabase == About("supabase", <<"rest">>)
Knowledge(component) == About(component, <<"extension", "count">> \o Ollama)
Feed == IF probeSite.rss THEN About("rss_feed_generator", <<"mkdir">>) ELSE <<>>

\* The answer to the second inquiry about the knowledge base is looked up by a
\* name it does not have (Components).
Unified ==
  Postgres \o Redis \o Celery \o About("celery_beat", <<"enabled">>) \o Ffmpeg \o Storage
    \o Llm \o Tts \o Supabase \o Knowledge("vector_store") \o Knowledge("embedding_provider")
    \o Feed
Api == Celery \o Llm \o Tts \o Supabase \o Feed \o Knowledge("vector_store")
Monitor == Api \o Postgres \o Redis \o About("own_supabase", <<"rest">>) \o Ffmpeg \o Storage

\* The unified report is made twice: once for the verdict and the counts, and
\* again for the components.
Questions(report) ==
  CASE report = "unified" -> Unified \o Unified
    [] report = "ready" -> Unified
    [] report = "api" -> Api
    [] report = "monitor" -> Monitor

\* The services without which the answer is no.
Needs(question) ==
  CASE question \in {"connect", "enabled", "extension", "count"} -> {"postgresql"}
    [] question \in {"ping", "broker"} -> {"redis"}
    [] question = "workers" -> {"redis", "workers"}
    [] question = "registered" -> {"redis", "workers", "tasks"}
    [] question = "which" -> {"ffmpeg"}
    [] question \in {"write", "unlink"} -> {"media"}
    [] question = "tags" -> {"ollama"}
    [] question = "models" -> {"ollama", "models"}
    [] question = "info" -> {"chatterbox"}
    [] question = "rest" -> IF probeSite.supabase THEN {"supabase"} ELSE {}
    [] question = "mkdir" -> {"folder"}

\* Mutant of TestFile: one name for all.
OneTestFile(report) == "health_check"
TestFile(report) == IF report = "monitor" THEN "admin_health_check" ELSE "observability_health_check"

-----------------------------------------------------------------------------
(* What a finished report says.                                            *)

HalfOf(report) == IF report = "unified" THEN Len(Unified) ELSE Len(Questions(report))

\* Whether all questions about the component among those from first to last
\* were answered well.
Well(c, component, first, last) ==
  \A i \in first..last : Questions(c.report)[i][1] = component => c.answers[i]

Grade(ok, bad) == IF ok THEN "healthy" ELSE bad

\* A missing worker or schedule, and a Supabase that is not set up, are
\* warnings; a publisher that is not enabled is unknown.
Components(c, first, last) ==
  [k \in {Questions(c.report)[i][1] : i \in first..last} \cup {"youtube_publishing", "rss_feed_generator"} |->
     CASE k = "youtube_publishing" \/ (k = "rss_feed_generator" /\ ~probeSite.rss) -> "unknown"
       [] k = "embedding_provider" -> "unhealthy"
       [] k = "celery_beat" /\ ~probeSite.scheduled /\ Well(c, k, first, last) -> "warning"
       [] k = "supabase" /\ ~probeSite.supabase -> "warning"
       [] OTHER -> Grade(Well(c, k, first, last), IF k = "celery_workers" THEN "warning" ELSE "unhealthy")]

\* Mutant of Summarize: a warning hides what is unhealthy.
SummarizeWarnings(components) ==
  LET said == Range(components) IN
  IF "warning" \in said THEN "warning"
  ELSE IF "unhealthy" \in said THEN "unhealthy" ELSE "healthy"
Summarize(components) ==
  LET said == Range(components) IN
  IF "unhealthy" \in said THEN "unhealthy"
  ELSE IF "warning" \in said THEN "warning"
  ELSE IF "unknown" \in said /\ "healthy" \notin said THEN "unknown" ELSE "healthy"

Critical == {"postgresql", "redis", "celery_workers"}
Readiness(components) ==
  Grade(\A k \in Critical : components[k] \in {"healthy", "warning"}, "unhealthy")

\* The API takes a Supabase that is not set up, and no publisher, for healthy.
Overall(c) ==
  Grade(\A i \in 1..Len(c.answers) : c.answers[i], "degraded")

\* The rows of the Monitor page: the API's answers about Celery, the language
\* model and the voices, its own about the rest.
MonitorRows(c) ==
  [k \in {"postgresql", "redis", "celery_workers", "ollama", "chatterbox", "supabase", "ffmpeg", "storage"} |->
     CASE k = "supabase" /\ ~probeSite.supabase -> "warning"
       [] k = "supabase" /\ probeSite.supabase -> Grade(Well(c, "own_supabase", 1, Len(c.answers)), "unhealthy")
       [] OTHER -> Grade(Well(c, k, 1, Len(c.answers)), IF k = "celery_workers" THEN "warning" ELSE "unhealthy")]

Rows(c) ==
  LET n == Len(c.answers)  half == HalfOf(c.report) IN
  CASE c.report = "monitor" -> MonitorRows(c)
    [] c.report = "unified" -> Components(c, half + 1, n)
    [] OTHER -> Components(c, 1, n)

Status(c) ==
  CASE c.report = "unified" -> Summarize(Components(c, 1, HalfOf(c.report)))
    [] c.report = "ready" -> Readiness(Components(c, 1, Len(c.answers)))
    [] c.report = "api" -> Overall(c)
    [] OTHER -> "none"

-----------------------------------------------------------------------------
(* A report in the making.  link: the request's database connection, which *)
(* does not recover once it is broken.  seenUp, seenDown: the services     *)
(* that have been up and down during the report.  joined: another report   *)
(* has used the same kind of test file at the same time.                   *)

Report(kind) ==
  [report |-> kind, answers |-> <<>>, pc |-> IF kind = "none" THEN "idle" ELSE "asking",
   link |-> "none", seenUp |-> {}, seenDown |-> {}, joined |-> FALSE]

ProbeInit ==
  /\ probeSite \in ProbeSites
  /\ up = probeSite.up
  /\ testFiles = {}
  /\ probe = [p \in Probers |-> Report(probeSite.requests[p])]
  /\ swings = 0

Started(c) == c.pc = "asking" /\ c.answers # <<>>
Next1(c) == Questions(c.report)[Len(c.answers) + 1][2]
Previous(c) == c.answers[Len(c.answers)]

\* The answer to the question that is asked now.  A connection once made is
\* taken for a good one, whatever has become of it; the models are not asked
\* for without an answer to the tags.
AnswerOf(c, question) ==
  CASE question = "connect" -> c.link # "none" \/ Needs(question) \subseteq up
    [] question \in {"enabled", "extension", "count"} ->
         c.link = "open" \/ (c.link = "none" /\ Needs(question) \subseteq up)
    [] question = "models" -> Previous(c) /\ Needs(question) \subseteq up
    [] question = "unlink" -> Previous(c) /\ Needs(question) \subseteq up /\ TestFile(c.report) \in testFiles
    [] OTHER -> Needs(question) \subseteq up

\* The questions nobody guards: their failure is the report's.
Raises(c, question) ==
  \/ question = "count" /\ ~AnswerOf(c, question)
  \/ question = "models" /\ Previous(c) /\ "ollama" \notin up

\* The Monitor page has looked up who asks before it begins.
LinkAfter(c, question) ==
  IF /\ c.link = "none"
     /\ \/ Needs(question) = {"postgresql"} /\ AnswerOf(c, question)
        \/ c.report = "monitor"
  THEN "open" ELSE c.link

UsesFile(c) == Started(c) /\ c.report # "api"
SameKind(c, d) == (c.report = "monitor") = (d.report = "monitor")

Ask(p) ==
  LET c == probe[p]
      question == Next1(c)
      others == {q \in Probers \ {p} : UsesFile(probe[q]) /\ SameKind(c, probe[q])}
      after ==
        [c EXCEPT
          !.answers = Append(@, AnswerOf(c, question)),
          !.link = LinkAfter(c, question),
          !.seenUp = IF c.answers = <<>> THEN up ELSE @,
          !.seenDown = IF c.answers = <<>> THEN Services \ up ELSE @,
          !.joined = @ \/ (c.report # "api" /\ others # {}),
          !.pc = IF Raises(c, question) THEN "failed"
                 ELSE IF Len(c.answers) + 1 = Len(Questions(c.report)) THEN "answered" ELSE "asking"]
  IN
  /\ c.pc = "asking"
  /\ (c.report = "monitor" /\ c.answers = <<>>) => "postgresql" \in up
  /\ probe' = [q \in Probers |->
       CASE q = p -> after
         [] q \in others -> [probe[q] EXCEPT !.joined = @ \/ c.report # "api"]
         [] OTHER -> probe[q]]
  /\ testFiles' = CASE question = "write" /\ AnswerOf(c, question) -> testFiles \cup {TestFile(c.report)}
                    [] question = "unlink" /\ AnswerOf(c, question) -> testFiles \ {TestFile(c.report)}
                    [] OTHER -> testFiles
  /\ UNCHANGED <<probeSite, up, swings>>

\* A service goes or comes; open connections to the database break with it.
Swing(s) ==
  LET now == IF s \in up THEN up \ {s} ELSE up \cup {s} IN
  /\ s \in probeSite.swinging /\ swings < probeSite.swings
  /\ up' = now
  /\ swings' = swings + 1
  /\ probe' = [p \in Probers |->
       IF ~Started(probe[p]) THEN probe[p]
       ELSE [probe[p] EXCEPT
               !.seenUp = @ \cup now, !.seenDown = @ \cup (Services \ now),
               !.link = IF s = "postgresql" /\ @ = "open" THEN "broken" ELSE @]]
  /\ UNCHANGED <<probeSite, testFiles>>

ProbeNext == (\E p \in Probers : Ask(p)) \/ (\E s \in Services : Swing(s))

-----------------------------------------------------------------------------
(* Properties.                                                             *)

\* The questions about a component, and what it stands on.
QuestionsOn(component) ==
  CASE component = "postgresql" -> {"connect"}
    [] component = "redis" -> {"ping"}
    [] component = "celery_workers" -> {"broker", "workers", "registered"}
    [] component = "celery_beat" -> {"enabled"}
    [] component = "ffmpeg" -> {"which"}
    [] component = "storage" -> {"write", "unlink"}
    [] component = "ollama" -> {"tags", "models"}
    [] component = "chatterbox" -> {"info"}
    [] component = "supabase" -> {"rest"}
    [] component = "vector_store" -> {"extension", "count", "tags", "models"}
    [] component = "rss_feed_generator" -> {"mkdir"}
Supports(component) == UNION {Needs(q) : q \in QuestionsOn(component)}

\* Rows that say nothing of the services: the settings alone decide them, or
\* they are looked up by a name that is not there (Components).
Misnamed == {"embedding_provider"}
Settled(component) ==
  \/ component \in Misnamed \cup {"youtube_publishing", "own_supabase"}
  \/ component = "celery_beat" /\ ~probeSite.scheduled
  \/ component = "supabase" /\ ~probeSite.supabase
  \/ component = "rss_feed_generator" /\ ~probeSite.rss

\* A report tells of each service it asks how it was while the report was made:
\* what it calls healthy was up at some moment of it, what it does not was down
\* at one (or, for the media folder, another report of its kind was being made),
\* and a report that fails altogether does so for the database or the language
\* model.  This is not so of the embedding provider: its row, and with it the
\* verdict of the unified report, is unhealthy whatever is up.  Nor is it said of
\* what the settings decide: a publisher that is not enabled, a schedule or a
\* Supabase that is not set up.  Reports share the media folder, hang on to a
\* connection and take their rows from a second round (services/observability/
\* health/check_service.py:39); the wrong name is at services/observability/
\* health/provider.py:105.
ReportsTellTheTruth ==
  \A p \in Probers :
    LET c == probe[p]
        rows == Rows(c)
        told == {k \in DOMAIN rows : ~Settled(k)}
    IN
    /\ c.pc = "failed" => {"postgresql", "ollama"} \cap c.seenDown # {}
    /\ c.pc = "answered" =>
         /\ \A k \in told :
              IF rows[k] = "healthy" THEN Supports(k) \subseteq c.seenUp
              ELSE (Supports(k) \cap c.seenDown # {}) \/ (k = "storage" /\ c.joined)
         /\ \A k \in Misnamed \cap DOMAIN rows : rows[k] = "unhealthy"
         /\ c.report = "unified" => Status(c) = "unhealthy"
         /\ c.report = "ready" =>
              IF Status(c) = "healthy" THEN {"postgresql", "redis"} \subseteq c.seenUp
              ELSE {"postgresql", "redis"} \cap c.seenDown # {}
         /\ (c.report = "api" /\ Status(c) = "healthy") =>
              \A k \in told : Supports(k) \subseteq c.seenUp

=============================================================================

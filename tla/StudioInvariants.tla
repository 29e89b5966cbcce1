-------------------------- MODULE StudioInvariants --------------------------
(***************************************************************************)
(* What is invariant of the four parts of MCStudio, beyond their           *)
(* properties: the inductive invariants of StudioProofs and their parts.   *)
(***************************************************************************)
EXTENDS MCStudio

-----------------------------------------------------------------------------
(* Telemetry.                                                              *)

\* What the variables hold.
Contexts == [correlation : Nat, job : Nat, run : Nat]
Servings ==
  [request : Nat, answer : Nat, before : Contexts, task : Nat, job : Nat,
   interrupted : BOOLEAN, runs : SUBSET Nat]
TaskEvents == {"celery_task_started", "celery_task_completed", "celery_task_failed"}
LineEvents ==
  TaskEvents \cup {"api_request_started", "api_request_completed", "celery_task_published",
                   "celery_task_retrying", "workflow"}
Lines == [by : Nat, event : LineEvents, correlation : Nat, job : Nat, run : Nat]
Spans == [by : Nat, correlation : Nat, status : {"open", "ok"}]
CounterValues == [http : Nat, errors : Nat, tasks : Nat, succeeded : Nat, failed : Nat]
Ends == [what : {"request", "task", "loss"}, number : Nat, process : Processes, bad : BOOLEAN]

TelemetryTypes ==
  /\ telemetrySite \in TelemetrySites
  /\ context \in [Threads -> Contexts]
  /\ serving \in [Threads -> Servings]
  /\ lines \in SUBSET Lines
  /\ spans \in [Processes -> SUBSET Spans]
  /\ metrics \in [Processes -> CounterValues]
  /\ begun \in Nat /\ noted \in Nat
  /\ ended \in SUBSET Ends /\ IsFiniteSet(ended)

\* Requests and tasks have numbers of their own, and the numbers of what is
\* over are not used again.
Its(t) == {serving[t].request, serving[t].task} \ {None}
Numbers ==
  /\ \A t \in Threads : \A n \in Its(t) : n <= begun
  /\ \A t, u \in Threads : t # u => Its(t) \cap Its(u) = {}
  /\ \A l \in lines : l.by <= begun
  /\ \A e \in ended : e.number <= begun /\ (e.what # "loss" => e.number # None)
  /\ \A e \in ended : \A t \in Threads :
       /\ e.what = "request" => e.number # serving[t].request
       /\ e.what = "task" => e.number # serving[t].task

\* The number of what a thread is at, by what it is serving.
ActivityOf(s) == IF s.task # None THEN s.task ELSE s.request

\* The context of a thread belongs to what it is serving.
Fits(t, s, c) ==
  /\ s.request # None =>
       /\ telemetrySite.serves[t] = "requests"
       /\ s.before = Context
       /\ s.answer # None /\ s.answer \in {s.request} \cup telemetrySite.headers
  /\ s.task # None =>
       /\ telemetrySite.serves[t] = "tasks" \/ s.interrupted
       /\ c.correlation = s.task /\ c.job = s.job
       /\ s.job \in {s.task, None}
  /\ s.interrupted => s.request # None /\ telemetrySite.eager
  /\ (s.request = None /\ telemetrySite.serves[t] = "requests") => c = Context
  /\ telemetrySite.serves[t] = "schedule" => c.run = None
  /\ (s.request # None /\ ~s.interrupted) => c.correlation = s.answer /\ c.job = None
  /\ (ActivityOf(s) # None /\ ~s.interrupted) => c.run \in s.runs \cup {None}
Bound == \A t \in Threads : Fits(t, serving[t], context[t])

\* Lines carry what the context said.
LinesBelong ==
  /\ \A l \in lines :
       l.by # None =>
         /\ l.event \in TaskEvents => l.correlation = l.by
         /\ telemetrySite.eager \/ (l.job \in {l.by, None} /\ l.correlation \in {l.by} \cup telemetrySite.headers)
  /\ \A t \in Threads : (serving[t].request # None /\ ~serving[t].interrupted) =>
       \A l \in lines : l.by = serving[t].request => l.correlation = serving[t].answer

\* A run of the engine is noted by one activity.
RunsNoted ==
  /\ \A l \in lines : l.run <= noted
  /\ \A t \in Threads : context[t].run <= noted /\ \A r \in serving[t].runs : 0 < r /\ r <= noted
  /\ \A t, u \in Threads : t # u => serving[t].runs \cap serving[u].runs = {}
  /\ ~telemetrySite.eager =>
       /\ \A l, m \in lines : (l.run = m.run /\ l.run # None) => l.by = m.by
       /\ \A t \in Threads, l \in lines : l.run \in serving[t].runs => l.by = Activity(t)

\* The span of a request is open as long as the request.
SpansOpen ==
  \A t \in Threads : serving[t].request # None =>
    [by |-> serving[t].request, correlation |-> serving[t].answer, status |-> "open"]
      \in spans[ProcessOf(t)]

\* A process counts what has ended in it.
Counted ==
  \A p \in Processes :
    LET m == metrics[p] IN
    /\ m.http = Cardinality(Ended(p, "request"))
    /\ m.errors = Cardinality(Bad(p, "request"))
    /\ m.tasks = Cardinality(Ended(p, "task"))
    /\ m.failed = Cardinality(Bad(p, "task"))
    /\ m.succeeded + m.failed = m.tasks

\* The inductive invariant behind TelemetryBelongs.
TelemetryInv ==
  TelemetryTypes /\ Numbers /\ Bound /\ LinesBelong /\ RunsNoted /\ SpansOpen /\ Counted

\* The ends of one kind in one process, as an operator on values.
EndedIn(E, q, w) == {x \in E : x.process = q /\ x.what = w}
BadIn(E, q, w) == {x \in E : x.process = q /\ x.what = w /\ x.bad = TRUE}

-----------------------------------------------------------------------------
(* Health reports: the lists of questions.  Each is put together from      *)
(* short ones, and what matters about them is preserved by putting         *)
(* together.                                                               *)

Judged ==
  {"postgresql", "redis", "celery_workers", "celery_beat", "ffmpeg", "storage", "ollama",
   "chatterbox", "supabase", "vector_store", "rss_feed_generator"}
Unjudged == {"embedding_provider", "own_supabase"}
Probed ==
  {"connect", "ping", "broker", "workers", "registered", "enabled", "which", "write", "unlink",
   "tags", "models", "info", "rest", "extension", "count", "mkdir"}
Lists == Seq((Judged \cup Unjudged) \X Probed)

\* A question follows the one whose answer it depends on, the test file is
\* asked about under the name of the storage, and a component that is judged
\* is asked all its questions and no other.  What the Monitor page asks of
\* Supabase itself is the same question.
Proper(s) ==
  /\ s \in Lists
  /\ \A i \in 1..Len(s) :
       /\ s[i][2] = "models" => i > 1 /\ s[i - 1][2] = "tags"
       /\ s[i][2] = "unlink" => i > 1 /\ s[i - 1][2] = "write"
       /\ s[i][2] \in {"write", "unlink"} => s[i][1] = "storage"
       /\ s[i][1] = "own_supabase" => s[i][2] = "rest"
       /\ s[i][1] \in Judged =>
            /\ s[i][2] \in QuestionsOn(s[i][1])
            /\ \A q \in QuestionsOn(s[i][1]) : \E j \in 1..Len(s) : s[j] = <<s[i][1], q>>

AsksAbout(s, component) == \E i \in 1..Len(s) : s[i][1] = component
KeepsOff(s) == \A i \in 1..Len(s) : s[i][2] \notin {"write", "unlink"}

\* What is asked of one component.
Fit(k, qs) ==
  /\ k \in Judged \cup Unjudged /\ qs \in Seq(Probed) /\ Len(qs) > 0
  /\ \A i \in 1..Len(qs) :
       /\ qs[i] = "models" => i > 1 /\ qs[i - 1] = "tags"
       /\ qs[i] = "unlink" => i > 1 /\ qs[i - 1] = "write"
       /\ qs[i] \in {"write", "unlink"} => k = "storage"
       /\ k = "own_supabase" => qs[i] = "rest"
       /\ k \in Judged => qs[i] \in QuestionsOn(k)
  /\ k \in Judged => \A q \in QuestionsOn(k) : \E i \in 1..Len(qs) : qs[i] = q

-----------------------------------------------------------------------------
(* Health reports: the invariant.                                          *)

Given == [report : Reports \cup {"none"}, answers : Seq(BOOLEAN),
          pc : {"idle", "asking", "answered", "failed"}, link : {"none", "open", "broken"},
          seenUp : SUBSET Services, seenDown : SUBSET Services, joined : BOOLEAN]

\* A good answer was good when it was given, and a bad one was bad, or another
\* report has taken the test file away.
Says(c) ==
  \A i \in 1..Len(c.answers) :
    /\ c.answers[i] => Needs(Questions(c.report)[i][2]) \subseteq c.seenUp
    /\ ~c.answers[i] =>
         \/ Needs(Questions(c.report)[i][2]) \cap c.seenDown # {}
         \/ Questions(c.report)[i][2] = "unlink" /\ c.joined

\* What has been seen includes what is so now, the connection tells what has
\* become of the database, and a file that was put there is there still, unless
\* another report is at it.
Sees(c) ==
  /\ Started(c) => up \subseteq c.seenUp /\ Services \ up \subseteq c.seenDown
  /\ c.answers = <<>> => c.link = "none"
  /\ c.report = "monitor" /\ c.answers # <<>> => c.link # "none"
  /\ c.link # "none" => "postgresql" \in c.seenUp
  /\ c.link = "broken" => "postgresql" \in c.seenDown
KeepsFile(c) ==
  Started(c) /\ Questions(c.report)[Len(c.answers)][2] = "write" /\ Previous(c) /\ ~c.joined =>
    TestFile(c.report) \in testFiles

Honest(c) ==
  /\ c \in Given
  /\ c.pc # "idle" => c.report \in Reports /\ Len(c.answers) <= Len(Questions(c.report))
  /\ c.pc = "idle" => c.answers = <<>>
  /\ c.pc = "asking" => Len(c.answers) < Len(Questions(c.report))
  /\ c.pc = "answered" => Len(c.answers) = Len(Questions(c.report))
  /\ c.pc = "failed" => {"postgresql", "ollama"} \cap c.seenDown # {}
  /\ Says(c) /\ Sees(c) /\ KeepsFile(c)

ProbeInv ==
  /\ probeSite \in ProbeSites
  /\ up \subseteq Services
  /\ probe \in [Probers -> Given]
  /\ \A p \in Probers : Honest(probe[p])

\* What a report, c, is after a question: d.
After(c, d, q) ==
  /\ c.pc = "asking" /\ Honest(c) /\ c \in Given /\ d \in Given
  /\ c.report = "monitor" /\ c.answers = <<>> => "postgresql" \in up
  /\ d.report = c.report /\ d.answers = Append(c.answers, AnswerOf(c, q))
  /\ d.link = LinkAfter(c, q)
  /\ d.seenUp = IF c.answers = <<>> THEN up ELSE c.seenUp
  /\ d.seenDown = IF c.answers = <<>> THEN Services \ up ELSE c.seenDown
  /\ c.joined => d.joined
  /\ d.pc # "idle" /\ (d.pc = "failed" => Raises(c, q))
  /\ d.pc = "asking" => Len(c.answers) + 1 # Len(Questions(c.report))
  /\ d.pc = "answered" => Len(c.answers) + 1 = Len(Questions(c.report))
  /\ probeSite' = probeSite /\ up' = up
  /\ q # "write" => testFiles' \subseteq testFiles
  /\ q = "write" /\ AnswerOf(c, q) => testFiles' = testFiles \cup {TestFile(c.report)}
  /\ ~(q = "unlink" /\ AnswerOf(c, q)) => testFiles \subseteq testFiles'
  /\ testFiles \ {TestFile(c.report)} \subseteq testFiles'

-----------------------------------------------------------------------------
(* Health reports: what a finished report says.                            *)

\* The questions from first to last are those of s.
Round(c, first, last, s) ==
  /\ Proper(s) /\ Len(s) = (last - first) + 1
  /\ \A i \in 1..Len(s) : Questions(c.report)[(first - 1) + i] = s[i]
  /\ probeSite.rss => AsksAbout(s, "rss_feed_generator")

-----------------------------------------------------------------------------
(* Voices: personas, the rows of the setup, and distinct voices.           *)

Tables == {"profiles", "mappings"}
PrimarySet == {"intro", "expert", "beginner"}
PersonaSet == PrimarySet \cup {"narration", "outro"}

\* The rows a mapping can have.
MappingRows == PersonaVoiceMapping(castSite)

\* What a setup makes of the row of p, and when a row is as a setup wants it.
Mended(t, p, rows, wanted) ==
  LET fields == Correction(Row(t, p), rows, wanted)
  IN IF fields = <<>> THEN rows[p] ELSE IF p \in DOMAIN rows THEN Over(fields, rows[p]) ELSE fields

Right(t, p, value, wanted) ==
  IF t = "profiles" THEN value.voice = wanted[p]
  ELSE value.enabled /\ (value.profile = ProfileOf(p) \/ ~AutoManaged(value.profile))

MappingsIn(rows) == \A p \in DOMAIN rows : rows[p] \in MappingRows

\* Voices are given to personas, to each another one.
WellApart(given) ==
  /\ DOMAIN given \subseteq PrimarySet
  /\ \A p, q \in DOMAIN given : p # q => given[p] # given[q]

\* A server with a voice for each of them.
Enough(voices) == voices \in Seq(VoiceInfo) /\ Cardinality(Ids(voices)) >= 3

GivesApart(voices, fallback) ==
  \A given : \A p \in PrimarySet : WellApart(given) =>
    /\ WellApart(Give(voices, fallback, given, p))
    /\ DOMAIN Give(voices, fallback, given, p) = DOMAIN given \cup {p}

\* The primary personas have voices of their own.
Distinct(voices, fallback) ==
  LET given == DistinctVoices(voices, fallback) IN DOMAIN given = PrimarySet /\ WellApart(given)

-----------------------------------------------------------------------------
(* Voices: setups, and the rows they work from.                            *)

\* The rows of the setup.
SetupRow(t, p) == \E i \in 1..8 : SetupRows[i] = Row(t, p)

\* The rows of a table have come from others by nothing but the setup.
Mends(base, rows, t, wanted) ==
  /\ DOMAIN base \subseteq DOMAIN rows
  /\ \A p \in DOMAIN rows :
       \/ p \in DOMAIN base /\ rows[p] = base[p]
       \/ SetupRow(t, p) /\ rows[p] = Mended(t, p, base, wanted)
Between(B, C, wanted) == \A t \in Tables : Mends(B[t], C[t], t, wanted)

\* What a transaction sees of table t, when C is what has been committed, and
\* whether it sees a row mended from the base B.
SeenBy(c, C, t) == Over(c.own[t], C[t])
Passed(c, C, B, t, p) ==
  p \in DOMAIN SeenBy(c, C, t) /\ SeenBy(c, C, t)[p] = Mended(t, p, B[t], c.wanted)
\* What it has written, passed and will write is mended from the base.
OwnMended(c, B) ==
  \A t \in Tables : \A p \in DOMAIN c.own[t] :
    SetupRow(t, p) /\ c.own[t][p] = Mended(t, p, B[t], c.wanted)
AllPassed(c, C, B) ==
  \A i \in 1..8 : i < c.row => Passed(c, C, B, SetupRows[i].table, SetupRows[i].persona)
Pending(c, B) ==
  c.pc = "write" =>
    LET row == SetupRows[c.row] IN
    /\ c.row <= 8
    /\ c.fields = Correction(row, B[row.table], c.wanted) /\ c.fields # <<>>
    /\ c.new = (row.persona \notin DOMAIN B[row.table])
Sets(c, C, B) == Between(B, C, c.wanted) /\ OwnMended(c, B) /\ AllPassed(c, C, B) /\ Pending(c, B)

\* The fields of a generation.
Fields == {"pc", "heard", "wanted", "row", "fields", "new", "own", "allowed", "languages", "voice",
           "take", "given", "alone"}
Shape(c) ==
  /\ c = [x \in Fields |-> c[x]] /\ DOMAIN c = Fields
  /\ c.own = [t \in Tables |-> c.own[t]] /\ DOMAIN c.own = Tables

\* What Look and Write make of a generation.
Looked(c, C) ==
  LET row == SetupRows[c.row]
      fields == Correction(row, SeenBy(c, C, row.table), c.wanted)
  IN IF fields = <<>> THEN [c EXCEPT !.row = @ + 1]
     ELSE [c EXCEPT !.pc = "write", !.fields = fields,
                    !.new = row.persona \notin DOMAIN SeenBy(c, C, row.table)]
Wrote(c, C) ==
  LET row == SetupRows[c.row]
      rows == SeenBy(c, C, row.table)
  IN IF c.new /\ row.persona \in DOMAIN rows THEN [c EXCEPT !.pc = "look"]
     ELSE [c EXCEPT !.pc = "look", !.row = @ + 1,
             !.own[row.table] =
               With(@, row.persona, IF c.new THEN c.fields ELSE Over(c.fields, rows[row.persona]))]

-----------------------------------------------------------------------------
(* Voices: the invariant, and what it says of the lines.                   *)

\* Where a generation can be: before, in and after its setup.
CastPcs == {"idle", "list", "fallback", "look", "write", "health", "voices", "line", "speak"}
Setting(c) == c.pc \in {"look", "write"}
SetOut(c) == c.pc \in {"health", "voices", "line", "speak"}

\* The voices of the setup are distinct when they can be.
Spread(c) ==
  (/\ Cardinality(Ids(c.heard)) >= 3
   /\ \A p, q \in PrimarySet : p # q => Settings(p) = "" \/ Settings(p) # Settings(q))
    => WellApart(c.wanted) /\ DOMAIN c.wanted = PrimarySet

\* A generation at one of its places.
Generation(c) ==
  /\ Shape(c) /\ c.pc \in CastPcs /\ c.row \in 1..9 /\ c.heard \in Seq(VoiceInfo)
  /\ c.pc \in {"idle", "list", "fallback"} => c.row = 1
  /\ c.pc = "write" => c.row \in 1..8
  /\ ~Setting(c) => c.own = NoRows
  /\ c.take \in Seq(Range(c.take))
  /\ c.pc \in {"line", "speak"} => Len(c.take) < Len(castSite.script)
  /\ c.pc \notin {"line", "speak"} => c.take = <<>>
  /\ \A i \in DOMAIN c.take : c.take[i].speaker \in Personas
  /\ (Setting(c) \/ SetOut(c)) => Spread(c)
  /\ MappingsIn(c.own.mappings)

\* What it will write to a mapping is a mapping, whatever others do.
Writing(c) ==
  LET row == SetupRows[c.row] IN
  c.pc = "write" =>
    /\ row.table = "mappings" =>
         \/ c.fields = Mapping(ProfileOf(row.persona))
         \/ c.fields = [enabled |-> TRUE] /\ ~c.new
    /\ ~c.new => row.persona \in DOMAIN SeenBy(c, Committed, row.table)

\* The voice that p would speak with now.
VoiceOf(p) == profiles[ResolvedProfile(profiles, mappings, p)].voice

\* The rows at the start, and the voices of every setup as long as the server
\* stays as it is.
FirstRows == [profiles |-> castSite.profiles, mappings |-> castSite.mappings]
FirstVoices == DistinctVoices(castSite.offers[1], FallbackVoice(castSite.offers[1]))

\* As long as nothing has changed, every generation has heard the same, wants
\* the same and works from the rows at the start.
Calm(c) ==
  /\ c.pc \notin {"idle", "list"} => c.heard = castSite.offers[1]
  /\ (Setting(c) \/ SetOut(c)) => c.wanted = FirstVoices
  /\ Setting(c) => Sets(c, Committed, FirstRows)
  /\ SetOut(c) => \A t \in Tables, p \in PersonaSet : SetupRow(t, p) =>
       p \in DOMAIN Committed[t] /\ Committed[t][p] = Mended(t, p, FirstRows[t], FirstVoices)

\* What CastIsKept says of the lines, from the rows as they are: profiles made by
\* hand are still mapped, the setup has left all rows right, and every line has
\* been spoken with the voice its speaker has now.
Keeps(c) ==
  /\ \A p \in DOMAIN c.given :
       p \in DOMAIN mappings /\ mappings[p].profile = c.given[p] /\ c.given[p] \in castSite.handmade
  /\ SetOut(c) => \A t \in Tables, p \in PersonaSet : SetupRow(t, p) =>
       p \in DOMAIN Committed[t] /\ Right(t, p, Committed[t][p], c.wanted)
  /\ \A i \in DOMAIN c.take : c.take[i].voice = VoiceOf(c.take[i].speaker)
  /\ c.pc = "speak" => c.voice = VoiceOf(castSite.script[Len(c.take) + 1])

\* What holds of every generation.
Proceeds(c) ==
  /\ Generation(c) /\ Writing(c)
  /\ (c.alone /\ Setting(c)) => Sets(c, Committed, Committed)
  /\ troubles = 0 => Calm(c)
  /\ (c.alone \/ troubles = 0) => Keeps(c)

\* The rows, and what the server offers.
CastGlobals ==
  /\ castSite \in CastSites
  /\ server = [up |-> server.up, voices |-> server.voices] /\ server.voices \in Seq(VoiceInfo)
  /\ troubles \in Nat
  /\ profiles = [x \in DOMAIN profiles |-> profiles[x]]
  /\ mappings = [x \in DOMAIN mappings |-> mappings[x]] /\ MappingsIn(mappings)
  /\ casting = [w \in Casters |-> casting[w]]
  /\ troubles = 0 => /\ server.up = TRUE /\ server.voices = castSite.offers[1]
                     /\ Between(FirstRows, Committed, FirstVoices)

CastInv == CastGlobals /\ \A w \in Casters : Proceeds(casting[w])

-----------------------------------------------------------------------------
(* The operators' pages.                                                   *)

\* What the variables hold.
EpisodeRows ==
  [status : EpisodeStatuses, links : SUBSET Articles, gone : BOOLEAN, asked : SUBSET Articles,
   resaved : BOOLEAN, stranded : BOOLEAN]
ScriptRows ==
  [episode : Nat, status : {"generating", "ready", "failed", "deleted"},
   sources : SUBSET Articles, voiced : BOOLEAN, early : BOOLEAN, shared : BOOLEAN]
JobRows ==
  [type : {"script", "audio"},
   status : {"queued", "running", "retrying", "succeeded", "failed", "cancelled"},
   episode : Nat, script : Nat, since : Nat, waiting : BOOLEAN, gone : BOOLEAN, lost : BOOLEAN]
RequestRows ==
  [pc : {"idle", "reload", "flags", "save", "sync", "unlink", "link", "dispatch", "count",
         "create", "active", "cancel", "studio"},
   form : SUBSET Articles, scope : SUBSET Articles, todo : SUBSET Articles,
   found : SUBSET Articles, item : Nat,
   status : {"", "new", "queued", "running", "retrying", "succeeded", "failed", "cancelled"},
   before : SUBSET Articles, alone : BOOLEAN]
HandRows == [job : Nat, script : Nat, sources : SUBSET Articles]

DeskTypes ==
  /\ deskSite \in DeskSites /\ selected \in SUBSET Articles
  /\ episodes \in Seq(EpisodeRows) /\ scripts \in Seq(ScriptRows) /\ jobs \in Seq(JobRows)
  /\ desk \in [Staff -> RequestRows] /\ hand \in [Hands -> HandRows]

\* A request has an episode in hand; it writes the one it has made; it has
\* not linked all its articles yet.
Holds(r) == r.pc \in {"sync", "unlink", "link", "dispatch"}
Makes(r) == Holds(r) /\ r.status = "new"
Links(r, e) == r.status = "new" /\ r.item = e /\ r.pc \in {"sync", "unlink", "link"}

\* What a request for a script has made of its episode so far.
Asked(r, row) ==
  /\ r.pc \in {"sync", "unlink"} => row.resaved \/ row.links = {}
  /\ r.pc = "sync" => row.asked = {}
  /\ r.pc \in {"unlink", "link"} => r.found = row.asked
  /\ r.pc = "link" =>
       r.todo \subseteq r.found /\ (row.resaved \/ row.gone \/ row.links = r.found \ r.todo)
  /\ r.pc = "dispatch" => row.resaved \/ row.gone \/ row.links = row.asked
\* What an undisturbed save has made of the flags ...
Chosen(r, sel) ==
  /\ r.pc = "save" => r.todo \subseteq r.scope /\ \A a \in Articles :
       a \notin r.todo => (a \in sel <=> a \in (r.before \ r.scope) \cup r.form)
  /\ r.pc \in {"sync", "unlink", "link"} => sel = (r.before \ r.scope) \cup r.form
  /\ r.pc \in {"unlink", "link"} => r.found = sel
\* ... and of the draft.
Drafted(r, row) == r.pc = "link" => row.gone \/ row.links \cup r.todo = r.found

RequestFits(r, sel, E, J, S) ==
  /\ r.form \subseteq r.scope
  /\ r.pc \in {"flags", "save", "count", "create"} => r.status = ""
  /\ Holds(r) => r.item \in DOMAIN E
  /\ Makes(r) => Asked(r, E[r.item])
  /\ r.pc = "cancel" => r.item \in DOMAIN J
  /\ r.pc = "studio" => r.item \in DOMAIN S
  /\ r.alone /\ r.status # "new" => Chosen(r, sel) /\ (Holds(r) => Drafted(r, E[r.item]))

\* No two requests make the same episode.
Apart(D) ==
  \A o, p \in Staff : o # p /\ Makes(D[o]) /\ Makes(D[p]) => D[o].item # D[p].item
\* An episode that was asked for has the articles it was asked for with.
Complete(row) == row.gone \/ row.resaved \/ row.asked = {} \/ row.links = row.asked
AllComplete(E, D) ==
  \A e \in DOMAIN E : Complete(E[e]) \/ \E o \in Staff : Links(D[o], e)

RequestsFit ==
  /\ \A o \in Staff : RequestFits(desk[o], selected, episodes, jobs, scripts)
  /\ Apart(desk)
  /\ AllComplete(episodes, desk)

\* Sources that do not depend on who else wrote the episode.
Sourced(s, row, sources) ==
  s.status # "deleted" /\ ~s.early /\ ~row.resaved /\ row.asked # {} => sources = row.asked

ScriptFits(s, E) ==
  /\ s.episode \in DOMAIN E
  /\ s.status = "deleted" <=> E[s.episode].gone
  /\ s.status = "ready" => Sourced(s, E[s.episode], s.sources)
JobFits(j, E, S) ==
  /\ j.episode \in DOMAIN E
  /\ j.type = "audio" =>
       /\ j.script \in DOMAIN S
       /\ S[j.script].episode = j.episode
       /\ S[j.script].status \in {"ready", "deleted"} \/ S[j.script].shared
ScriptsFit ==
  /\ \A s \in DOMAIN scripts :
       /\ ScriptFits(scripts[s], episodes)
       /\ \A o \in Staff : Links(desk[o], scripts[s].episode) => scripts[s].early
  /\ \A j \in DOMAIN jobs : JobFits(jobs[j], episodes, scripts)

\* What a worker has in hand is a script, that of its job, which nobody else is
\* writing unless they share it, or the audio of one.
Scripting(w, J) == w.job # 0 /\ w.script # 0 /\ J[w.job].type = "script"
HandFits(w, E, J, S) ==
  /\ w.job # 0 => w.job \in DOMAIN J
  /\ w.script # 0 => w.script \in DOMAIN S /\ w.job # 0
  /\ Scripting(w, J) =>
       /\ S[w.script].episode = J[w.job].episode
       /\ S[w.script].status \in {"generating", "deleted"} \/ S[w.script].shared
       /\ Sourced(S[w.script], E[J[w.job].episode], w.sources)
  /\ (w.script # 0 /\ J[w.job].type = "audio") => w.script = J[w.job].script
OwnScripts(H, J, S) ==
  \A h, k \in Hands :
    h # k /\ Scripting(H[h], J) /\ Scripting(H[k], J)
      => H[h].script # H[k].script \/ S[H[h].script].shared
HandsFit ==
  /\ \A h \in Hands : HandFits(hand[h], episodes, jobs, scripts)
  /\ OwnScripts(hand, jobs, scripts)

\* The inductive invariant of the pages.
DeskInv == DeskTypes /\ RequestsFit /\ ScriptsFit /\ HandsFit

\* A request that does nothing; it may be disturbed.
Unmoved(r2, r) ==
  /\ r2.pc = r.pc /\ r2.item = r.item /\ r2.status = r.status /\ r2.form = r.form
  /\ r2.scope = r.scope /\ r2.todo = r.todo /\ r2.found = r.found /\ r2.before = r.before
  /\ r2.alone => r.alone

\* What a worker does to the rows of the others: of an episode it writes the
\* status only.
Touched(E2) ==
  \A x \in DOMAIN episodes :
    /\ E2[x].links = episodes[x].links /\ E2[x].asked = episodes[x].asked
    /\ E2[x].gone <=> episodes[x].gone
    /\ E2[x].resaved <=> episodes[x].resaved

\* Jobs are what they were.
SameJobs(J2) ==
  \A j \in DOMAIN jobs :
    /\ J2[j].type = jobs[j].type /\ J2[j].episode = jobs[j].episode
    /\ J2[j].script = jobs[j].script

\* A script is begun: a new one, or one that is taken for it.
BegunRow(old, row) ==
  /\ old.episode = row.episode /\ old.status \in {"failed", "generating"}
  /\ old.early => row.early
  /\ old.shared => row.shared
Begun(h, i, e, n, w) ==
  /\ n # 0 /\ w.job = i /\ w.script = n /\ w.sources = episodes[e].links
  /\ hand' = [hand EXCEPT ![h] = w]
  /\ episodes' = [episodes EXCEPT ![e] = [@ EXCEPT !.status = "generating_script", !.stranded = FALSE]]
  /\ jobs' = [jobs EXCEPT ![i].script = n]
  /\ scripts' \in Seq(ScriptRows) /\ DOMAIN scripts' = DOMAIN scripts \cup {n}
  /\ \A s \in DOMAIN scripts : s # n => scripts'[s] = scripts[s]
  /\ scripts'[n].episode = e /\ scripts'[n].status = "generating"
  /\ \A o \in Staff : Links(desk[o], e) => scripts'[n].early
  /\ n \in DOMAIN scripts => BegunRow(scripts[n], scripts'[n])
  /\ \A k \in Hands : Scripting(hand[k], jobs) /\ hand[k].script = n => scripts'[n].shared

-----------------------------------------------------------------------------
(* The panel.                                                              *)

\* What a worker has in hand is its own, and is under way unless cancelled; the
\* job knows the script.
HandsOwn ==
  /\ \A h \in Hands : hand[h].job # 0 =>
       /\ ~jobs[hand[h].job].waiting /\ ~jobs[hand[h].job].gone /\ ~jobs[hand[h].job].lost
       /\ jobs[hand[h].job].status \in {"running", "cancelled"}
       /\ Scripting(hand[h], jobs) => jobs[hand[h].job].script = hand[h].script
  /\ \A h, k \in Hands : h # k /\ hand[h].job # 0 => hand[h].job # hand[k].job

\* A job that waits is there, one that is open waits or is in hand unless its
\* worker has died, and one that succeeded has left a script.
JobStands(j) ==
  /\ jobs[j].status \in {"queued", "retrying"} => jobs[j].waiting
  /\ jobs[j].status = "running" => Working(j) \/ jobs[j].lost
  /\ jobs[j].waiting =>
       ~jobs[j].gone /\ ~jobs[j].lost /\ jobs[j].status \in {"queued", "retrying", "cancelled"}
  /\ jobs[j].status = "succeeded" /\ ~episodes[jobs[j].episode].gone =>
       \E s \in DOMAIN scripts : scripts[s].episode = jobs[j].episode
JobsStand == \A j \in DOMAIN jobs : JobStands(j)

\* A script being written is in somebody's hands, or was in those of a worker
\* that died, and one that failed has a job that nobody will change.
Concluded(j) == jobs[j].status \in {"failed", "cancelled"} /\ ~jobs[j].waiting /\ ~Working(j)
Owns(j, s) ==
  /\ jobs[j].type = "script" /\ jobs[j].script = s /\ jobs[j].episode = scripts[s].episode
Held(s) == \E h \in Hands : Scripting(hand[h], jobs) /\ hand[h].script = s
ScriptStands(s) ==
  /\ scripts[s].status = "generating" =>
       Held(s) \/ \E j \in DOMAIN jobs : Owns(j, s) /\ jobs[j].lost
  /\ scripts[s].status = "failed" => \E j \in DOMAIN jobs : Owns(j, s) /\ Concluded(j)
ScriptsStand == \A s \in DOMAIN scripts : ScriptStands(s)
EpisodesStand ==
  \A e \in DOMAIN episodes :
    episodes[e].status = "generating_script" /\ ~episodes[e].gone =>
      \/ episodes[e].stranded
      \/ \E h \in Hands : Scripting(hand[h], jobs) /\ scripts[hand[h].script].episode = e

\* A job for the newest script of an episode, or for a first one.
NewestScripts(e) == {s \in ScriptsOf(e) : \A t \in ScriptsOf(e) : t <= s}
Behind(j, e, newest) ==
  /\ jobs[j].type = "script" /\ jobs[j].episode = e
  /\ newest # {} => jobs[j].script \in newest

\* What the stage of the script says.
StageSays(e, d, newest) ==
  /\ d = "SUCCESS" <=> \E s \in newest : Usable(s)
  /\ d \in {"RUNNING", "QUEUED"} =>
       \E j \in DOMAIN jobs :
         Behind(j, e, newest) /\ (jobs[j].waiting \/ Working(j) \/ jobs[j].lost)
  /\ d = "FAILED" =>
       \E j \in DOMAIN jobs : Behind(j, e, newest) /\ jobs[j].status \in {"failed", "cancelled"}

\* The inductive invariant of the panel.
PanelInv == HandsOwn /\ JobsStand /\ ScriptsStand /\ EpisodesStand

\* What people and the planner do to the rows of the panel.
EpisodesGo ==
  /\ DOMAIN episodes \subseteq DOMAIN episodes'
  /\ \A e \in DOMAIN episodes' :
       IF e \in DOMAIN episodes
       THEN /\ episodes'[e].status = episodes[e].status
            /\ episodes[e].stranded => episodes'[e].stranded
            /\ episodes[e].gone => episodes'[e].gone
       ELSE episodes'[e].status = "draft"
ScriptsGo ==
  /\ DOMAIN scripts' = DOMAIN scripts
  /\ \A s \in DOMAIN scripts :
       /\ scripts'[s].episode = scripts[s].episode
       /\ scripts'[s].status = scripts[s].status \/ scripts'[s].status = "deleted"
JobsGo ==
  /\ DOMAIN jobs \subseteq DOMAIN jobs'
  /\ \A j \in DOMAIN jobs' :
       IF j \in DOMAIN jobs
       THEN /\ jobs'[j].type = jobs[j].type /\ jobs'[j].episode = jobs[j].episode
            /\ jobs'[j].waiting = jobs[j].waiting /\ jobs'[j].script = jobs[j].script
            /\ jobs'[j].lost = jobs[j].lost
            /\ jobs'[j].status = jobs[j].status \/ jobs'[j].status = "cancelled"
            /\ jobs'[j].gone => jobs[j].gone \/ jobs[j].status = "failed"
       ELSE jobs'[j].status = "queued" /\ jobs'[j].waiting /\ ~jobs'[j].gone /\ ~jobs'[j].lost

\* What a worker leaves of its job when it is free again.
FreedEpisodes ==
  /\ DOMAIN episodes' = DOMAIN episodes
  /\ \A e \in DOMAIN episodes :
       /\ episodes'[e].gone <=> episodes[e].gone
       /\ episodes[e].stranded => episodes'[e].stranded
       /\ episodes'[e].status \in {episodes[e].status, "draft"}
FreedScripts(h, i) ==
  /\ DOMAIN scripts' = DOMAIN scripts
  /\ \A s \in DOMAIN scripts :
       /\ scripts'[s].episode = scripts[s].episode
       /\ scripts'[s].status # scripts[s].status =>
            /\ s = hand[h].script /\ Scripting(hand[h], jobs)
            /\ \/ scripts'[s].status = "ready"
               \/ scripts'[s].status = "failed" /\ jobs'[i].status = "failed" /\ ~jobs'[i].waiting
FreedWork(h, i) ==
  Scripting(hand[h], jobs) =>
    /\ \/ episodes'[jobs[i].episode].stranded \/ episodes'[jobs[i].episode].gone
       \/ episodes'[jobs[i].episode].status # "generating_script"
    /\ jobs'[i].lost \/ scripts'[hand[h].script].status # "generating"
FreedJobs(i) ==
  /\ DOMAIN jobs' = DOMAIN jobs
  /\ \A j \in DOMAIN jobs :
       /\ jobs'[j].type = jobs[j].type /\ jobs'[j].episode = jobs[j].episode
       /\ jobs'[j].gone = jobs[j].gone /\ jobs'[j].script = jobs[j].script
       /\ jobs[j].lost => jobs'[j].lost
       /\ j # i => jobs'[j] = jobs[j]
  /\ jobs'[i].status # "queued" /\ (jobs'[i].waiting <=> jobs'[i].status = "retrying")
  /\ jobs'[i].waiting => ~jobs'[i].lost
  /\ jobs'[i].status = "running" => jobs'[i].lost
  /\ jobs'[i].status = "succeeded" => \E s \in DOMAIN scripts : scripts[s].episode = jobs[i].episode

\* What a worker has begun.
BegunJobs(i, w) ==
  /\ DOMAIN jobs' = DOMAIN jobs
  /\ \A j \in DOMAIN jobs :
       /\ jobs'[j].type = jobs[j].type /\ jobs'[j].episode = jobs[j].episode
       /\ jobs'[j].status = jobs[j].status /\ jobs'[j].waiting = jobs[j].waiting
       /\ jobs'[j].gone = jobs[j].gone /\ jobs'[j].lost = jobs[j].lost
       /\ j # i => jobs'[j] = jobs[j]
  /\ jobs[i].type = "script" => jobs'[i].script = w.script
BegunEpisodes(h, w, e) ==
  /\ DOMAIN episodes' = DOMAIN episodes
  /\ \A x \in DOMAIN episodes :
       /\ episodes'[x].gone <=> episodes[x].gone
       /\ \/ /\ episodes'[x].stranded <=> episodes[x].stranded
             /\ episodes'[x].status \in {episodes[x].status, "generating_audio"}
          \/ /\ x = e /\ w.script # 0 /\ jobs[hand[h].job].type = "script"
             /\ w.script \in DOMAIN scripts' /\ scripts'[w.script].episode = e
BegunScripts(h, w) ==
  /\ DOMAIN scripts \subseteq DOMAIN scripts'
  /\ \A s \in DOMAIN scripts : scripts'[s].episode = scripts[s].episode
  /\ \A s \in DOMAIN scripts' :
       \/ s \in DOMAIN scripts /\ scripts'[s] = scripts[s]
       \/ /\ s = w.script /\ s # 0 /\ scripts'[s].status = "generating"
          /\ jobs[hand[h].job].type = "script"

=============================================================================

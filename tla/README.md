# A formal model of the cast-it podcast builder

cast-it is a Django application that turns news into podcasts. Celery workers
import articles, analyse and rank them, plan an episode, have a language model
write its script, have a text-to-speech provider speak it line by line, stitch
the lines with ffmpeg and publish the result as an RSS feed, on YouTube and on a
Supabase database that a listener application reads.

The services are plain sequential Python. What makes the system hard is around
them: several workers, API processes, administrators and a beat scheduler work on
the same rows with no locks; each reads a row into an object, decides on the object
and later saves some of its columns; external calls, files and other databases do
not take part in the transactions; workers die, retries exist at three levels
(Celery, the job, the workflow step), and several loops end at their first
exception. The modules here model exactly these steps.

Paths below are relative to `src/`.

## 1. Inventory

| Component | State | Operations | Talks to | Module |
|---|---|---|---|---|
| Background jobs (`services/jobs`, `infrastructure/jobs`, `apps/scheduler`, `api/v1/services/job_dispatch.py`) | `Job` rows, Celery messages, the copies processes hold | create, dispatch, mark queued/running/retrying/..., retry, cancel, sweep | every other component runs inside a job | `JobLifecycle`, `JobExecution` |
| Workflow engine (`services/workflow`, `domain/workflow`) | a `WorkflowRun`, its step runs, the episode's status | create, execute, pause, resume, cancel, skip and retry a step, retry the run | one adapter per step type calls the services | `WorkflowEngine`, `WorkflowContract`, `WorkflowStates` |
| Publishing (`services/publish`, `infrastructure/publish`) | `PublishJob`s, publication history, episode status and `publish` flag, the feed file, YouTube | publish, retry, cancel, daily sweep, admin Republish | reads final audio, writes the episode | `PublishEpisode` |
| Audio (`services/audio`, `services/audio/pipeline`) | `AudioAsset` rows, media files, episode status | speak a script, stitch, build chapters, the daily job | scripts in, publishers out | `EpisodeAudio` |
| Listeners' shelf (`services/publish/supabase_publisher.py`) | Supabase tables and bucket | daily batch | reads audio rows and files | `ListenerShelf` |
| Episode status (`services/episodes/status_sync.py`, `services/workflow/episode_sync.py`) | `Episode.status` | written by five services | all of the above | inside each; composition planned |
| Script generation and versions (`services/scripts/generation_service.py`, `services/admin/manual_script.py`) | `Script`s, versions, the active flag | placeholder, generate, persist, activate, retry, abort | LLM in, audio out | `ScriptVersions` |
| Writing of scripts (`services/scripts`, `services/llm`) | what one generation holds in memory: briefs, outline, chapters, previous lines | brief, outline, chapter, critique, rewrite, polish, validate | language model, knowledge base | `ScriptWriting` |
| News import (`services/news`, `infrastructure/news`) | articles, sources | import, validate, detect duplicates; entered by hand or API | RSS and Gmail | `EditorialPipeline` |
| Intelligence and planning (`services/intelligence`) | article analysis and status, episodes | summarise, classify, score, cluster, rank, select, plan | LLM | `EditorialPipeline`, `Selection` |
| Knowledge base (`services/knowledge`) | documents, chunks, embeddings | index, embed, search, assemble a context | embedding model, pgvector; scripts ask | `KnowledgeIndex`, `TextChunks` |
| Voices (`services/audio/voice_setup.py`, `persona_resolver.py`, `voice_cache.py`) | voice profiles and mappings, cached voices and health | set up, choose, validate | TTS server; every spoken line | `VoiceCasting` |
| Operations pages (`services/admin`, `apps/operations`) | selected articles, draft episodes, jobs | save a selection, ask for, abort, delete, open the studio, watch | planner and workers write the same rows | `OperationsDesk` |
| Health reports (`services/observability/health`, `api/v1`) | a cache key, a test file | four reports that ask one service after the other | every service | `HealthReports` |
| Observability (`services/observability`, `apps/observability`) | context variables, metrics, spans, log lines | bind, count, finish, hand back | every request and task | `Telemetry` |
| Configuration and schedule (`config`, `infrastructure/celery`) | settings, the daily beat | - | starts the daily jobs | constants and fairness |
| Admin lists and statistics, REST lists, listener SQL | - | read | - | not modelled, see 7 |

What makes each of them correct:

* **Jobs.** Retry limits hold although they are counted in two places; a settled job
  is not executed again; a job that says it is being worked on is; every sent job
  comes to an end (that the sweep finds every failed job is not so, see 6).
* **Workflow.** Steps run one at a time and in order; success means nothing is left;
  a failure can be retried, within the limit; run and episode agree.
* **Publishing.** Listeners see what was published and only that; publish jobs,
  history, uploads and feed agree; nobody's failure loses somebody else's episode;
  nothing is published more often than was asked for.
* **Audio.** Rows have files; the episode that is delivered is the whole script, in
  order, whatever failed before; chapters are about their article.
* **Shelf.** What can be chosen can be played; the shelf finally agrees with the
  database after any partial failure.
* **Scripts.** A ready script is whole; one version is active; what is finished is not taken
  back; a retry goes on where it was; an episode nobody writes for does not say that somebody does.
* **Writing.** What is kept was reviewed and is in the order of the outline; the model is
  told what is so at that moment; a generation ends whatever the model answers.
* **Editorial.** One row per address, one plan per article, the best choice there is, and nothing on offer
  is missed for good.
* **Knowledge.** A document has exactly the chunks of its text, with their embeddings; a context is the
  best that fits; what is imported is indexed.
* **Voices.** A persona keeps its voice during an episode and differs from the others; speech comes back
  after an outage.
* **Pages.** A script is made from what was selected; a save does what the page showed; the panel is honest;
  who keeps asking gets a script.
* **Reports and telemetry.** A report was true at some moment of its making; a line, span or count
  belongs to the request or task it speaks of.

The hazards (interleavings, stale copies, partial failures, retries, crashes) are
listed with their lines in `PROJECT.json`, each with the properties that would catch it.

## 2. Modules and the code

**`JobLifecycle`** — one row per job (`apps/scheduler/models.py`), one record per Celery
message, one record per process that serves a request. A request is several steps,
one per database or broker round trip: `LoadForRetry`, `ResetForRetry`
(`JobService.retry_job`), `SendTask` (`delay()`), `MarkQueued`; the sweep loads a list
and works through it. A delivery is `Receive` (`JobTaskRunner.run` reads the row),
`MarkRunning`, `ReportProgress`, one of `Succeed`, `FailPermanently`,
`FailTransiently`, and `CeleryRetry` or its end. Each process decides on the copy it read.
**`JobExecution`** is the abstract promise: one execution of a job at a time, with a
bounded number of attempts.

**`WorkflowEngine`** — the calls of `WorkflowEngineService` on one run, statement by
statement between saves; each call has its copy of the run. `WorkflowStates` holds the
transition tables of `domain/workflow/state.py`; **`WorkflowContract`** is the abstract
engine: runs and steps move along these tables, steps in sequence, success only when all
steps are settled.

**`PublishEpisode`** — a call of `publish_episode` for one episode over its platforms:
`Load` (build_context), `Begin` (saves PUBLISHING), per platform `CreateJob`,
`MarkRunning`, `Publish`, `MarkSucceeded`, `Record`, `LoadRows`/`WriteFeed`, or
`MarkFailed`, and `Finish`. The sweep runs these calls one after the other; an operator
cancels publish jobs in two steps (`CancelLoad`, `CancelSave`).

**`EpisodeAudio`** — a job of the queues `tts` and `audio`: resolve the script, check the
provider, per line `Speak` (the file) and `Save` (the transaction), `EndSpeech`
(`sync_episode_idle_status`), then `Load`, `Stitch`, `BuildChapters`, `BuildChapter`,
`Commit`. Rows of the pipeline exist only in the job's `made` until `Commit`;
files change at once, and all takes and runs share their paths.

**`ListenerShelf`** EXTENDS it with the batch of `SupabasePublisher`: one action per HTTP
request, interleaved with jobs that rewrite the rows and files it reads.

**`ScriptVersions`** — a generation (`ScriptGenerationService.generate`) statement by statement:
`Begin` saves GENERATING_SCRIPT, `FindScript` looks for the job's own version, `Reset` or
`Number`/`CreatePlaceholder` make the placeholder, then the transaction of `_persist_script`
(`LoadEpisode`, `SaveScript`, `ClearActive`, `CommitScript`) or `MarkFailed`/`SyncIdle`. A pasted script
(`ManualScriptService.create`) is one transaction with the same `Number` and `ClearActive`. What a
transaction wrote appears at its commit; the rows it holds are derived from how far it has come
(`HoldsEpisode`, `Held`), statements wait for them, and `Victim` is the transaction PostgreSQL
cancels when some wait for each other. Job rows are reduced to what these operations look at;
their own races are `JobLifecycle`'s.

**`EditorialPipeline`** — imports, analyses and plans on one day. `Collect` fetches a source's window of
items, then per item `Check` (the duplicate check), `FindSource` (get or create) and `Insert` (the transaction).
An analysis has a copy of the article (`Copy`), calls the model and saves single columns: `Summarize`,
`Classify`, `Extract`, `Tag`, `Score`; a plan runs these for each of today's articles, then `Choose`, `Describe`
(titles and descriptions by the model) and `CreateEpisode`. People enter, rescore and add articles and change
the sources meanwhile. **`Selection`** has the pure parts: score, clusters, ranking, choice.

**`Arranging`** — sets brought into an order and parts of sequences, by recursive functions that proofs can follow;
the editorial pipeline, the audio and the knowledge base use it.

**`KnowledgeIndex`** — `IndexingService` with its transaction: `Look` finds the document outside of it,
`CreateAndIndex` or `Reindex` write it (and wait for another transaction on it), `EmbedBatch` embeds and stores
a batch, `Commit` shows it all. `Retrieve`, `BuildContext`, `UseContext` are a script's questions. Distances are
chosen freely for each chunk. **`TextChunks`** is `ChunkingService` on sequences of characters, and what
it means that a passage survives the cuts.

**`ScriptWriting`** — one generation, one request per action (`StoryBrief`, `EpisodeOutline`, `Draft`,
`Critique`, `Rewrite`, `Coherence`), each with every answer the schemas admit and every way a request can fail
(`RequestFails`: the provider's retries, the service's errors), then `Validate`. `Prompt(w)` is what the model is told:
prompts are records of what goes into them. `FitToTokenBudget` cuts sources.

**`VoiceCasting`** — `ListVoices`, `Resolve`, then the setup's transaction row by row (`Look`, `Write`,
`Commit`; rows written by another transaction are waited for), then per line `CheckHealth`, `GetVoices`, `Prepare`
and `SpeakLine`, with the two caches in between.

**`OperationsDesk`** — requests of the staff pages, statement by statement and in no transaction: saving a
selection is `SaveSources`, `ReadFlags`, `SaveFlag`, `SyncTarget`, `ReadSelected`, `Unlink`, `Link`; asking for a
script is `CheckActive`, `CreateEpisode`, `QueueScript`. Workers begin a script (`BeginScript` takes over a placeholder that another
job of the episode has left unfinished, as `_resolve_or_create_script` does), finish it, have it refused, cannot commit it (`FailCommit`) or die. The panel and the badge are operators on the state
(`BuildPipeline`, `OverallStatus`, `Progress`, `Badge`), evaluated in every state.

**`HealthReports`** — a report is the sequence of its questions (`Questions`); `Ask` puts the next one,
`Swing` lets a service go or come. Status and rows are computed from the answers as the code does.

**`Telemetry`** — the context variables of each thread, with `BeginRequest`/`EndRequest` (the middleware),
`TaskPrerun`/`TaskPostrun` (the Celery hooks), `Publish` (the header a message is given), `RunEagerly` and
`LogWorkflowEvent`.

`MCStudio` checks the last four in one run: none writes what another reads, so in each surrounding one is at
work and the others are still.

The `MC*` modules give TLC the surroundings ("sites") of each run. The refinement mappings are in the modules of the
detailed specifications: `Exec == INSTANCE JobExecution` in `JobLifecycle`, `Contract == INSTANCE WorkflowContract`
in `WorkflowEngine`. The `*Proofs` modules hold the theorems of section 4 and are used by no run. `JobsAndWritingProofs` is about
`JobLifecycle` and `ScriptWriting`, `StudioProofs` about the four parts of `MCStudio` (their invariants are in `StudioInvariants`);
each of the others is about the module it is named after.
Operators that say "mutant of" in a comment are deliberate faults, used to confirm that
each property notices the kind of mistake it is about; no specification uses them.

## 3. Runs

| Run | What it shows |
|---|---|
| `jobs_concurrent` | Two clients (one sweeps), worker, client and broker faults: types, `RetryBudget`, `WorkIsNotForgotten` (what RUNNING and RETRYING promise), `SettledIsFinal`, `BrokerDrains` |
| `jobs_one_client` | One request at a time: `RowsAndTasksAgree` (single flight, work that says it is under way is scheduled, success is complete), refinement `ImplementsExecution`, and `OnlyLateMarksStrand` as the one way a sent job does not end |
| `workflow_one_caller` | All operations one after the other, on the steps of a production, whose services leave DRAFT, GENERATING and PUBLISHING on the episode: `RunsEndAsTheySay` (the run ends, its row says how, the episode is COMPLETED or FAILED with it all the same, a failure can be retried), `CallsEnd`, refinement `ImplementsContract` |
| `workflow_control` | A controller against an executor that crashes, with refused steps and steps switched off: `StepsStayLegal` (retry limit, order, meaning of success) |
| `publish_checked` | Five surroundings: `ShelfIsTruthful`, `BooksAreRight` (books agree, what is unfinished can be retried, the feed is current, duplicates are bounded where only enabled platforms are asked for and each once), `ReadyIsTakenUp` |
| `publish_sweep_blocked` | The one expected violation: an unfit episode ends every sweep, and a ready one is never published |
| `shelf_checked` | Three surroundings: `AudioIsWhole` (rows have files, the daily job delivers whole scripts), `ChaptersPlayTheirArticle`, and `ReadyIsHeard`, everything ready is finally heard |
| `scripts_checked` | Four surroundings: `VersionsAgree` (ready is whole, one active, ready is kept, no idle GENERATING_SCRIPT unless the episode's own worker died or its own commit failed), `RetriesKeepVersion`, `JobsSettle` |
| `editorial_checked` | Five surroundings: `RowsAreDistinct`, `PlannedOnce`, `SelectionIsBest`, `FeedIsImported` |
| `knowledge_checked` | Eight surroundings: `IndexIsWhole` (documents are whole, no passage is lost to a cut), `ContextIsBest` (and the types of calls and documents), `ImportedIsIndexed` |
| `writing_checked` | Six surroundings: `KeptIsReviewed`, `PromptsAreCurrent`, `GenerationEnds` |
| `studio_checked` | Voices (six surroundings): `CastIsKept`, `SpeechComesBack`; pages (eight): `ScriptsHaveTheirSources`, `SavesAreExact`, `PanelIsHonest`, `ScriptComesInTheEnd`; reports (seven): `ReportsTellTheTruth`; logs, metrics and traces (four): `TelemetryBelongs` |

A property that is a conjunction is one question asked of a component; its parts are named and commented
in the module. Two of them have an exception that is worth knowing. `ScriptsHaveTheirSources` lets a script be
incomplete that was begun while a person's save was linking the articles of its episode (`early`), which the code
does nothing about. It also lets audio be
asked for a script that two workers have shared. `ReportsTellTheTruth` makes no claim of rows that the settings decide, and
says of the embedding provider's row (`Misnamed`), and so of the verdict of the unified report, that it is unhealthy whatever
is up, because that is what the code makes of it (section 6); a storage row may also tell of another report's test file.

### Bounds

* Jobs: one job and two deliveries for two clients with every fault (a job's interplay is
  with its own messages; the only place where jobs meet is the sweep's list); three deliveries and two retries (code: 3) for one
  client, so that Celery and the job can both be first to give up. `SweepLimit` 1 stands
  for 100: what matters is that it is smaller than the number of failed rows.
  `NumDeliveries` limits requests, never a retry of Celery's own.
* Workflow: six steps, the last five of the default workflow (planning, script, audio, finishing, publishing) after
  one that does not touch the episode (the default has five of these); the first and the last are optional. `RetryLimit`
  1 (code: 3) so that both outcomes of the limit happen; two steps when calls interleave.
* Publishing: two episodes on two platforms, `FeedLimit` 2 (code: 100, reached by
  republishing), `MaxRetries` 1, one or two requests per site. Each site lets some
  things fail, all together cover every fault.
* Audio: two episodes or one with two versions, two lines, two articles, up to two faults,
  up to two requests, two workers on one site. Repeated takes, stale files of an earlier
  run and half-written generations all happen within these.

* Scripts: two jobs, one pasted script, one retry and two workers, on one episode with or without a version before; one fault in the site that has faults, which has two episodes, so that what one of them has
  suffered excuses nothing of the other. Three
  transactions on one episode are enough for every kind of wait and deadlock the code can make:
  episode row, rows of scripts, active flags.
* Editorial: two sources with feeds of one to five items that change once, up to four stored articles, two articles per
  episode (code: 8), two workers and one operator, up to five requests, one fault. The items include every kind the
  validation and the duplicate check tell apart, and two stories of one cluster.
* Knowledge: two articles in up to two editions of at most a dozen characters, chunks of 3 to 9 characters
  (code: 512 tokens), overlaps of 0 to 7, budgets of 1 to 5 tokens (code: 4000); two faults. Paragraphs below, at and above the chunk
  size, an overlap larger than the stride and a gap as long as a chunk all occur.
* Writing: two articles, one rewrite (as the default) and two attempts (code: 3), drafts of one to three segments, two faults.
* Voices: three or four voices in up to three lists, two episodes of up to four lines, two troubles. Pages:
  two operators, one worker (two where jobs of one episode meet), two articles, up to three episodes, three requests and two faults. Reports: two at once, three services that
  swing twice at most. Telemetry: three requests or tasks, two events, one lost process.

Every action and every disjunct of the next-state relations is taken in some passing run.
`CHECK_DEADLOCK FALSE` is given for workflow, scripts and studio only: when everything that was asked for is
done, they really stop.

### Fairness

* Jobs: workers take messages and handlers return or raise (Celery's time limits see to
  that); a request that has begun goes on. No user has to ask for anything.
* Workflow: a call is straight-line Python and goes on until it ends.
* Publishing: a call goes on, a transient failure is delivered again, and the beat starts the sweep
  every day (`infrastructure/celery/beat_schedule.py:66`).
* Shelf: the beat starts the daily audio job (`:61`) and the batch (`:71`); some worker and
  some publisher go on. Faults are bounded in number and nothing obliges them to end earlier:
  `ReadyIsHeard` says the system recovers from any of them.

* Scripts: idle workers take waiting jobs, generations and requests go on, the database breaks
  deadlocks (`deadlock_timeout`). Nobody has to ask, retry or abort.
* Editorial: whoever is at work goes on, and the beat starts the import every day. Knowledge: a worker goes on with
  what it has begun. Writing: every request is answered or fails (the provider has timeouts); which is open.
* Voices: jobs are run and failed ones asked for again, the server is mended, caches expire (`voice_cache.py:43`);
  `SpeechComesBack` is about servers that finally stay up with voices for the script. Pages: requests are answered, jobs worked on,
  and a person who wants a script loads the page again and does what it offers; nobody has to delete or save anything.

## 4. What is proved

By TLAPS, for all values of the constants (and under the stated hypothesis, where one is named):

| Theorems | Module | Hypothesis |
|---|---|---|
| `TypeCorrect`, `RetriesBounded`, `SettledForGood`, `NothingIsForgotten` | `JobsAndWritingProofs` | - |
| `RowsAgreeWithTasks`, `ExecutionImplemented` | `JobsAndWritingProofs` | one client (the first: and no lost worker) |
| `WorkflowTypes` | `WorkflowEngineProofs` | - |
| `StepsLegal` | `WorkflowEngineProofs` | at most one caller that is no controller |
| `RunsEndTruly`, `ContractImplemented` | `WorkflowEngineProofs` | one caller, no faults |
| `PublishTypes`, `ShownIsPublished`, `BooksHold` | `PublishEpisodeProofs` | - |
| `ScriptsAgree`, `JobsKeepVersion` | `ScriptVersionsProofs` | - |
| `CutsKeepPassages`, `IndexHolds`, `ContextsAreBest` | `KnowledgeIndexProofs` | - |
| `RowsStayDistinct`, `PlansAreExclusive`, `PlansChooseTheBest` | `EditorialPipelineProofs` | - |
| `AudioStaysWhole`, `ListenersHearTheirArticle` | `ListenerShelfProofs` | - |
| `ScriptsAreReviewed`, `PromptsStayCurrent` | `JobsAndWritingProofs` | - |
| `ScriptsKeepTheirSources`, `SavesDoAsThePageSaid`, `PanelTellsTheTruth`, `CastsAreKept`, `TelemetryIsRight`, `ReportsAreTrue` | `StudioProofs` | - |

The hypotheses are the ones of the runs: `jobs_one_client` and `workflow_one_caller` check these properties where one
request is made at a time, because with more they are not true (section 6 says how they fail). The assumptions are
the named ones on the constants, which TLC evaluates in every run: `JobAssumption`, `WorkflowAssumption`,
`PublishAssumption`, `ScriptAssumption`, `KnowledgeAssumption`, `EditorialAssumption`, `AudioAssumption`,
`CastSitesAssumption`, `DeskSitesAssumption`,
`WritingAssumption`, `ProbeSitesAssumption`, `TelemetrySitesAssumption`. Beyond types they say that there are finitely many workers, articles, sources and keywords, that no worker is
called "nobody", that no platform is configured twice, that paragraphs are not blank (the chunker strips them), that a script
has a line and an episode that is to be written an article (the schema and `generate` refuse others), and that profiles made by hand have other names than those of the setup.

### The arguments

* **Jobs.** `TypeOK` is inductive as it stands because it also says that a sent task and an acting request have a
  job. The budget needs that a *copy's* count is within the limit too: `mark_retrying` writes copy + 1, so
  the row's own count says nothing. `SettledForGood` is an action property: no step of a request
  (`RequestKeepsSettled`) or an execution (`ExecutionKeepsSettled`) changes the row of a settled job; its
  definition of "settled" contains the absence of stale writers, which is what makes it preserved.
  `Remembered` adds to `WorkIsNotForgotten` that the two counters agree (`Counted`) as long as a job has one task:
  the row's retry_count is then never behind Celery's attempts, so the job gives up first. For one
  client, `Agreeing` has a clause per way in which a row is quiet: no live task (`QuietRows`), a request that has
  loaded it (`QuietRequests`), at most one live task (`OneTask`), and counts that agree with its attempts (`CountsAgree`).
  The same invariant gives the refinement: with `OneTask`, the one live task of a job determines the state of `JobExecution`
  (`Mapped`), and each step of a task or request is a step there or none.
* **Workflow.** `Legal` is `StepsStayLegal` with what the executor has read and not yet written: the
  retries of the step it is at, and that no step before it is left. `Keeping` relates, for each place a call can
  be at, the row of the run (`PcRun`), the step it is at (`PcStep`), the other steps (`Rows`), the markers (`Marks`) and the status shown on the episode (`Shown`);
  the last cannot say what the status is while steps run, because the services behind them write it (`Leaves`, `LeavesFailing`), but
  what the call's own object says: if that is COMPLETED and the row is not, a finishing step is still to be retried. At rest this is `RunsEndAsTheySay`. With it every save is a move of the tables of `WorkflowContract`.
* **Publishing.** That an episode which is shown was published somewhere is not inductive: `Finish` sets the flag
  from the call's own counters. `IInv` adds, per call, `Sound`: a call that is on a platform has its publish job,
  failures and remaining platforms add up to its targets at most, and a call that has no failure has either all its
  platforms before it or a row in the history. `Sound` survives the steps of others because job table and
  history only grow (`SoundStays`). `BooksInv` adds which rows belong to one another (`Bookkeeping`), that
  videos and finished publish jobs are history rows or in the hands of a call on its way to one (`Balanced`), that an episode which is not
  completed has a failed job or a worker (`Retriable`), that what the only worker has read for the feed is what the
  feed must hold (`FeedFollows`), and that what it has published and is still due to publish stays within what was
  asked for (`Rationed`).
* **Scripts.** `VersionsInv` joins the parts of `VersionsAgree` with what processes hold: rows are locked by one
  transaction, which sees them as they are (`RowsLocked`), what a call has read fits the rows (`CallsFit`), and
  an episode that says GENERATING_SCRIPT has somebody who will see to it, unless a fault has deserted it (`Minded`).
* **Knowledge.** `CutsKeepPassages` is about data: for every text, size and overlap, by recursion over the paragraphs.
  The two facts that make this provable are `UpTo` (a set that contains 0 and with every number the next one contains all)
  and `StepByStep` (a function can be defined from each value to the next). `Holds` says of the chunks so far and the
  buffer that every passage no longer than the margin is inside of one of them; `PiecesKeep` is the arithmetic of the
  stride, `TakeKeeps` one paragraph, `TakenHolds` all of them. `IndexInv` then says that a worker that embeds holds its
  article alone, that the document it found is still the one there, and that the chunks before its next one have their own
  vectors and the others none (`Alone`, `Halfway`); numbers of documents are distinct and none is one to come.
  `ContextInv` adds that what was found is in the order of its scores and of one edition of the article (`FromEdition`),
  which still exists when the context is built, because editions are only added (`ReadsStay`). That the context is the best
  is about data again, with one lemma per stage of it: what sorting does (`ByScoreIs`, from the ranks of a total order),
  that a search returns the first rows (`SearchIs`), that stretched scores keep their order (`NormalizedIs`), which rows are the first of
  their text (`DedupedIs`), and what the budget lets through (`AssembleIs`, by recursion along the rows: each row is taken or too long for
  what had been taken before it). `ContextIs` joins them; since `Best` speaks of rows as they were found, it follows the place of each
  row taken back through the stages.
* **Editorial.** `Inv` is the rows' side (`OneRowPerUrl`, `PlannedOnce`) and one side per call, `Good`: what it has loaded are rows that
  exist and fit the stage it is at (`Sound`, `Fits`, `Loads`), what its duplicate check has told it is still so unless another call
  inserted late (`Informed`), and the articles in its hands are planned by nobody else unless two have worked on them (`Open`, `Agrees`).
  That the choice is best is about data: `Kept` and `Arranged` are characterised once (`KeptIs`, `ArrangedIs`), and `TakeBest` goes along the
  ranking: whatever a choice passes over is of a story it has already, or came when it was full.
* **Audio and the listeners' shelf.** `Inv` has five parts. `RowsStand`: a row is the take of a line, a final MP3 or a chapter, has its file,
  and with the take of a line those of the lines before exist. `FilesTell`: the file of a line holds takes of that line, the file of a
  chapter (on disk and on the shelf) nothing but its article, if the episode has one script. `JobsStand`: how far each job has come whatever others do
  (`Speech`, `Mix`), what it has left in the files as long as it was alone (`Own`), and of two jobs on one episode none was alone (`Exclusive`).
  `ShelfStands`: what a batch has uploaded is there. Two relations make one action provable at a time: rows and files only ever grow (`Grows`), which
  everything but `Own` survives, and a step leaves other episodes aside (`Aside`), which `Own` survives. Three lemmas are about sequences:
  where flattened parts begin (`FlatBegins`), that chapters of a beginning of a script are a beginning of its chapters (`SameLists`, `ChaptersFollow`),
  and that increasing numbers which are as many as there can be are all of them (`AllNumbers`, `TakenOnce`).
* **Writing.** `WritingIInv` says that the request under way is the prompt of the generation as it stands (`Prompt(work)`), and where a
  generation can stand (`Stands`). Its core is that the script so far is `Laid`: there are places at which its chapters begin, one per
  article in the order of the outline, and all between two of them is of one article and marked so. At the same places a critic has found
  each chapter grounded (`GroundedParts`), and the lengths noted in the first round are their distances (`Measures`). The polish
  may change texts but keeps order, articles and speakers (`Retells`, from `SameIdentity`), so it leaves the places and what was found up to the
  polish; that is why the slices of the second round (`SliceIs`) are the chapters of the first. An accepted chapter adds one place (`Grow`,
  `AcceptedIs`), whatever the round. From this `KeptFollows` and `PromptsFollow` conclude, with `ChapterIs`: the segments marked with an
  article are one part of the script. That a source is cut to as much as fits (`SourceFits`) is about data: how many sentences fit one by one and what the
  blanks between them cost at most (`Fitting`, `Joined`), and that the bisection ends, because the range shrinks with every
  halving, at a beginning that fits while one character more does not.
* **Voices.** The setup sees what others commit between its statements. `Mended` is the row it makes of another one, given
  the voices it wants, and `Sets` says that what it sees, has written and will write comes from the rows of some *base*,
  as they are there or mended. Mending what is mended changes nothing, so it does not matter when a row was seen. A
  generation whose rows nobody else has changed has the rows themselves as its base; while nothing has changed
  at all, all generations want the same voices and have the rows at the start as theirs (`Calm`), so that a second
  commit changes nothing for the lines of the first.
* **Pages.** `DeskInv` has what a request in the middle of a save knows: whom it has read, written and linked so
  far (`RequestsFit`), and what workers have in hand (`HandsFit`); a script may be in two hands only if it is marked `shared`
  (`OwnScripts`). The panel is proved from `PanelInv`: a job in hand is its worker's own and knows its script
  (`HandsOwn`), and every status has somebody or something behind it: a job a message, a worker or a lost one (`JobsStand`), a script
  being written somebody at it or a lost job of its own, one that failed a concluded job of its own (`ScriptsStand`), a generating episode a
  worker or a fault since its last script was begun (`EpisodesStand`). What others do is summed up once (`EpisodesGo`,
  `ScriptsGo`, `JobsGo`), and so is what a worker begins (`Begun...`) and leaves (`Freed...`).
* **Reports.** `ProbeInv` says of every question asked that its answer was true at that moment (`Honest`), and `Proper`
  of every list of questions that what is judged is asked all its questions, in their order; the misnamed row has no answer to
  be judged by, and one unhealthy row decides the verdict.
* **Telemetry.** `TelemetryInv` counts: each counter is the number of requests and tasks that ended so; ids are
  below the next one; a thread that serves nothing has no context, one that serves has its own.

### What stays model-checked

* Liveness (`BrokerDrains`, `OnlyLateMarksStrand`, `CallsEnd`, `ReadyIsTakenUp`, `ReadyIsHeard`, `JobsSettle`, `FeedIsImported`,
  `ImportedIsIndexed`, `GenerationEnds`, `SpeechComesBack`, `ScriptComesInTheEnd`): TLAPS proves nothing about ENABLED,
  on which fairness rests.
* What `SelectSeq`, `SortSeq` and the folds compute for every input, for which the provers have no rules:
  the modules that are proved about use `Kept` and `Arranged` of `Arranging`, or recursive functions, instead.

## 5. Assumptions of the models

* A save of some columns, a query and an HTTP request are atomic; everything between them
  interleaves. PostgreSQL's READ COMMITTED is what the code gets by default.
* Celery acknowledges a message when a worker takes it (the default, which no setting changes): a
  worker's death loses the attempt.
* `PublishEpisode`: a call that failed transiently is made again by the worker that made it.
* `EpisodeAudio`: equal sequence numbers come in one of two orders (creation order or its reverse); a job's
  `alone` is an observation and guards nothing. The script an episode-wide request resolves to may be any
  ready version, which includes the active one.
* `ScriptVersions`: a job is run at most once at a time, and reading its row and marking it RUNNING is one
  step (`JobLifecycle` has both apart). Whether a script that waits for its episode's row has read
  the episode before or after the wait makes no difference and is not distinguished.
* `ListenerShelf`: chapters come by the name of their file, which is their order up to `chapter_99.mp3`. The rows of the chapters are read and the shelf's chapters deleted in one step; nothing
  else writes the shelf, so a step between them would see the same.
* `EditorialPipeline`: all happens on one day (its yesterday is the items that are not `today`). What the
  model answers depends on the text, so a second analysis says the same.
* `KnowledgeIndex`: distances are chosen for each retrieval; what is far and what is near is the embedding model's.
* `VoiceCasting`, `OperationsDesk`, `ScriptVersions`: `alone`, `given`, `early`, `shared`, `stranded`, `lost`, `deserted` and the like are observations that properties use; they guard nothing.
* `ScriptWriting`: a character is CJK or not, and a blank is one that is not; blanks at the end of a cut sentence, which
  the code strips, are kept.
* `Telemetry`: generated ids are distinct; an id that a client sends is none of them.

## 6. Observations

The disagreement with a document that is a run is listed under "findings" in
`PROJECT.json`. Met while modelling and not kept as runs:

Jobs and workflow

* The runner's check for CANCELLED (`infrastructure/jobs/runner.py:48`) and its save of RUNNING are two transactions:
  a cancellation between them is overwritten and the handler executed; `tests/services/jobs/test_runner.py:71` tests
  the sequential case. An executing workflow call never re-reads its run and overwrites a cancellation in the same way.
* `services/jobs/job_service.py:221` "Cancel a job if it is still pending or queued.": RETRYING jobs
  are cancelled too, and the decision is taken on a stale object.
* A job whose message is lost with its worker stays RUNNING; a job whose `delay()` failed after
  `retry_job` stays PENDING. No operation takes either further.
* `services/jobs/job_service.py:303` "Return failed jobs eligible for retry sweep.": exhausted jobs
  are among the newest failed rows and fill the page of the sweep.
* `services/workflow/engine.py:110`: after a crash inside an adapter, `execute_run` leaves its loop with a step
  RUNNING and neither succeeds nor fails. A step that is refused before it
  starts makes the engine raise an invalid transition and the run stays RUNNING.
* `retry_workflow` sets failed steps to PENDING directly, a move `STEP_TRANSITIONS` does not have;
  `WorkflowContract` has an action `ResetStep` for it. The engine is called by tests only.

Publishing, audio, shelf

* The admin's Republish garbles the platforms to `['rss']` as one name, and leaves the episode PUBLISHING.
* Audio that is made again leaves the chapters of the earlier run READY; the shelf lists both.
* `services/episodes/status_sync.py:32` "has audio for every segment": it counts rows, and two takes of one
  line make up for the line that has none.
* A line that fails leaves the episode GENERATING_AUDIO; a finished generation resets to DRAFT an
  episode that another worker has completed meanwhile, and the RSS sweep then passes it over.
* An episode with two script versions plays the file of whichever was spoken last for both rows:
  `segment_path` does not contain the version.
* The daily audio job takes the newest waiting script; one that always fails keeps older ones waiting.

Scripts and their writing

* `services/scripts/generation_service.py:201` "Reuse the job's script on retry; create a new version for
  fresh runs.": a fresh job whose episode has a placeholder made after the job was created takes that
  placeholder over (the search for jobs from before `script_id`). Two jobs queued for one episode then
  write one script, and the failure of one marks FAILED what the other has activated: `ReadyIsKept`
  without its exception for shared scripts is violated.
* Two activations that overlap leave two active versions; `get_active_script` returns either.
* A deleted article makes the commit of a finished generation fail; `_mark_failed` then looks at an episode
  that is DRAFT in memory only, and the row stays GENERATING_SCRIPT.
* By default nothing reviews the text that the coherence pass has changed. The critic sees the brief, never the source.
* `fit_to_token_budget` counts sentences without the blanks it joins them with, and can exceed the budget by these.
* From twelve chapters on, the limits per chapter add up to more than the script may have, and nothing enforces them.
* In the review after the polish the "previous chapter" is the whole episode unless a chapter was rewritten.

Editorial pipeline and knowledge base

* `ArticleScoreService.score` saves the score and then fails to build its `ScoreDTO` (`domain/intelligence/dtos.py:42` and
  `:45` require fields it is not given): `pipeline.py:83` counts every article as failed, while
  `tests/services/intelligence/test_pipeline.py:59` expects `articles_processed == 3`; a rescore ends after the first article.
* The API's extract-keywords endpoint dispatches a classification (`api/v1/views/articles.py`).
* Only articles published between midnight and the plan of 07:00 are ever planned; the workflow step takes midnight in UTC,
  the job the local one.
* An RSS feed's limit cuts before validation and duplicates: untitled or known entries at its head hide what follows.
* A source deleted or renamed during an import is created again, enabled; two rows of one name make every later import fail.
* A summary saved from a stale copy sets a selected article back, and a later plan may take it again.
* Of two indexings the one with the older text may come last. A chunk of blanks makes its article unindexable.
  Chunks of different paragraphs do not overlap.

Voices, pages, reports, telemetry

* After the server has changed its voices, generations fail until the cached list expires (300 s). A setup that cannot
  have the list writes the fallback voice to every persona, also under an episode being spoken; two overlapping setups
  can leave a mix. A mapping that somebody disabled is enabled again by the next setup. Profiles that are disabled or of another
  language than the script's are passed over, and all personas then share the first profile that suits (`resolve`);
  the proof of `CastIsKept` showed that telling personas apart needs profiles that suit, whatever the server offers.
* Deleting a failed job races with its retry; aborting a RUNNING job overwrites a success or is overwritten. Script jobs are never
  RETRYING, because `generate` wraps every error in one that is permanent.
* Two clicks queue two jobs (`tests/operations/test_content.py:280` tests one after the other). Saving a selection
  links it to the newest DRAFT episode even if that is queued, scripted or planned.
* The knowledge health is looked up by a key that is not there (`services/observability/health/provider.py:105`):
  embedding, and so the overall verdict, is always UNHEALTHY. No workers is a WARNING, and ready.
* Two reports at once can find the media folder unhealthy because of each other's test file.
* `celery_hooks.py` counts a RETRY as a success. Metrics are per process: the web process never shows the workers' tasks. All
  messages of the beat share one correlation id. An eager task leaves its ids to the rest of its request.

## 7. What is not modelled, and why

* Wording of prompts, XML, audio signal processing, metadata and tags: data the properties do not distinguish. The
  LLM and TTS providers, YouTube, Gmail and Supabase are modelled by their answers, success or failure.
* The SQL functions that rank a listener's feed run in another system.
* Lists, statistics, serializers and the metrics dashboard only read.
* `OperationalEventService.record`, the alerts registry, the performance tracker, `enrich`, `retry_failed` and the other
  normalizers of the knowledge base have no callers in production.
* Deleting audio assets by hand (`services/admin/actions.py:156`) is left out of
  `EpisodeAudio`: it would make `RowsHaveFiles` vacuous for the deleted rows and nothing else.
* Durations, latencies and clocks: what expires may expire at any moment.
* The writers of `Episode.status` are each in the module of their service; the modules are not composed, so what one of them does
  to a status that another has just written is seen only where 6 says so.

## 8. Plan

1. `EpisodeStatus` — the writers of `Episode.status` composed: audio, publishing, scripts, workflow. Promise: a
   completed episode with audio is not lost to the publishers. Section 6 names the interleavings in which it is, so
   the promise needs its exceptions.
2. Runs: `workflow_one_caller` and `workflow_control` can become one run with sites, and the script that two fresh
   jobs share a run of its own.

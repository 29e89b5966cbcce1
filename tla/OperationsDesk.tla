--------------------------- MODULE OperationsDesk ---------------------------
(***************************************************************************)
(* The staff pages of the operations dashboard: people choose the articles *)
(* a script is made from, ask for it, abort it, delete what is in the way, *)
(* open the studio for its audio, and watch the panel of the episode.      *)
(*                                                                         *)
(* The pages write the same rows as the planner and the workers, one       *)
(* statement at a time and in no transaction; what a person sees is what   *)
(* was so when the page was loaded.  What a job does to a script in detail *)
(* is ScriptVersions', and how it is delivered is JobLifecycle's.          *)
(***************************************************************************)
EXTENDS Naturals, Sequences, FiniteSets, FiniteSetsExt, SequencesExt

CONSTANTS
  Staff,      \* people at the pages
  Hands,      \* Celery workers of the queue llm
  DeskSites   \* the surroundings to consider

\* "crash": a worker dies.  "refuse": the LLM gives up.  "commit": what it wrote
\* cannot be committed.
DeskFaults == {"crash", "refuse", "commit"}
DeskOperations == {"save", "generate", "again", "abort", "delete", "clear", "studio", "plan"}

\* EpisodeStatus, as far as the pages and the workers write it.
EpisodeStatuses == {"draft", "collecting", "generating_script", "generating_audio"}

\* asked: the articles that were selected when its script was asked for.
\* resaved: its articles were written again since.  stranded: since a script
\* of it was last begun, a worker died at one, or could not commit it
\* (observations).
Episode(status, links) ==
  [status |-> status, links |-> links, gone |-> FALSE, asked |-> {},
   resaved |-> FALSE, stranded |-> FALSE]

\* Bounds: the episodes there may be, and how often people begin something
\* other than a generation, and faults happen.
ASSUME DeskSitesAssumption ==
  \A s \in DeskSites :
    /\ s.people \subseteq Staff /\ s.hands \subseteq Hands
    /\ s.operations \subseteq DeskOperations /\ s.faults \subseteq DeskFaults
    /\ s.patient \in BOOLEAN
    /\ s.selected \subseteq DOMAIN s.articles
    \* Nobody is at work on the episodes there are at the start.
    /\ s.episodes \in Seq([status : {"draft", "collecting"}, links : SUBSET DOMAIN s.articles,
                           gone : {FALSE}, asked : {{}}, resaved : {FALSE}, stranded : {FALSE}])

VARIABLES
  deskSite,  \* the surroundings, chosen at the start
  selected,  \* the articles whose selected_for_script is set
  episodes,  \* rows of table episodes_episode, in creation order
  scripts,   \* rows of table scripts_script, in creation order
  jobs,      \* rows of table scheduler_job, in creation order
  page,      \* person -> what the loaded page shows
  desk,      \* person -> the request
  hand,      \* worker -> the job it has in hand
  used       \* how often what is bounded has happened

deskVars == <<deskSite, selected, episodes, scripts, jobs, page, desk, hand, used>>

Articles == DOMAIN deskSite.articles

\* since: how many scripts there were when it was made.  lost: its worker has
\* died (observation).
Job(type, e, s) == [type |-> type, status |-> "queued", episode |-> e, script |-> s,
                    since |-> Len(scripts), waiting |-> TRUE, gone |-> FALSE, lost |-> FALSE]

ACTIVE_JOB_STATUSES == {"pending", "queued", "running", "retrying"}
CANCELLABLE_STATUSES == {"pending", "queued", "retrying"}
CancellableOnly == CANCELLABLE_STATUSES   \* mutant of SCRIPT_ABORTABLE_STATUSES
SCRIPT_ABORTABLE_STATUSES == CANCELLABLE_STATUSES \cup {"running"}

Newest(ids) == IF ids = {} THEN 0 ELSE Max(ids)
ThereAre == {e \in DOMAIN episodes : ~episodes[e].gone}
ScriptsOf(e) == {s \in DOMAIN scripts : scripts[s].episode = e}
Usable(s) == scripts[s].status \in {"ready", "approved"}
LatestUsable(e) == Newest({s \in ScriptsOf(e) : Usable(s)})

\* find_any_active_script_job.
ActiveScriptJob ==
  Newest({j \in DOMAIN jobs : /\ jobs[j].type = "script" /\ ~jobs[j].gone
                              /\ jobs[j].status \in ACTIVE_JOB_STATUSES})

\* The newest episode that collects articles, and what the page offers.
DraftEpisode == Newest({e \in ThereAre : episodes[e].status \in {"draft", "collecting"}})
ScriptWorkspace ==
  [checked |-> selected,
   can_generate |-> selected # {} /\ ActiveScriptJob = 0,
   can_abort |-> ActiveScriptJob # 0 /\ jobs[ActiveScriptJob].status \in SCRIPT_ABORTABLE_STATUSES]

-----------------------------------------------------------------------------
(* A request.  form: what was checked on the page, and scope: the articles *)
(* it showed.  todo: articles still to be written, of those found.  item:  *)
(* the episode, job or script it is about, and its status as it was read.  *)
(* before: what was selected when it began.  alone: nobody has written     *)
(* flags or links since (observations).                                    *)

NoRequest ==
  [pc |-> "idle", form |-> {}, scope |-> {}, todo |-> {}, found |-> {}, item |-> 0,
   status |-> "", before |-> {}, alone |-> TRUE]
At(o, pc) == o \in deskSite.people /\ desk[o].pc = pc
Then(o, r) == desk' = [desk EXCEPT ![o] = r]
ThenDisturbing(o, r) ==
  desk' = [p \in Staff |-> IF p = o THEN r ELSE [desk[p] EXCEPT !.alone = FALSE]]
\* The answer is the page again, or leads to it.
Answered == [NoRequest EXCEPT !.pc = "reload"]
Answer(o) == Then(o, Answered)
Begin(o, op, r) ==
  /\ At(o, "idle") /\ op \in deskSite.operations
  /\ LET unbounded == op = "generate" \/ (op = "abort" /\ deskSite.patient)
     IN /\ unbounded \/ used.requests < deskSite.requests
        /\ used' = IF unbounded THEN used ELSE [used EXCEPT !.requests = @ + 1]
  /\ Then(o, r)

DeskInit ==
  /\ deskSite \in DeskSites
  /\ selected = deskSite.selected
  /\ episodes = deskSite.episodes /\ scripts = <<>> /\ jobs = <<>>
  /\ page = [o \in Staff |-> [checked |-> {}, can_generate |-> FALSE, can_abort |-> FALSE]]
  /\ desk = [o \in Staff |-> Answered]
  /\ hand = [h \in Hands |-> [job |-> 0, script |-> 0, sources |-> {}]]
  /\ used = [requests |-> 0, faults |-> 0]

LoadPage(o) ==
  /\ \/ At(o, "reload")
     \/ At(o, "idle") /\ ScriptWorkspace # page[o]
  /\ page' = [page EXCEPT ![o] = ScriptWorkspace] /\ Then(o, NoRequest)
  /\ UNCHANGED <<deskSite, selected, episodes, scripts, jobs, hand, used>>

-----------------------------------------------------------------------------
(* save_script_sources.                                                    *)

\* A person changes the mark of an article, on a page of all articles or of
\* one type, and saves.
SaveSources(o) ==
  /\ \E a \in Articles, filter \in deskSite.filters :
       LET scope == {x \in Articles : filter \in {"all", deskSite.articles[x].type}}
           marked == page[o].checked \cap scope
           form == (marked \ {a}) \cup ({a} \ marked)
       IN /\ a \in scope
          /\ Begin(o, "save", [NoRequest EXCEPT !.pc = "flags", !.form = form, !.scope = scope])
  /\ UNCHANGED <<deskSite, page, selected, episodes, scripts, jobs, hand>>

\* Mutant of Unequal: the page's type is forgotten.
UnequalAnywhere(form, scope) == (form \ selected) \cup (selected \ form)
Unequal(form, scope) == {a \in scope : (a \in form) # (a \in selected)}

\* update_script_selection: the flags as they were read at once, ...
ReadFlags(o) ==
  /\ At(o, "flags")
  /\ Then(o, [desk[o] EXCEPT !.pc = "save", !.todo = Unequal(desk[o].form, desk[o].scope),
                                 !.before = selected, !.alone = TRUE])
  /\ UNCHANGED <<deskSite, page, selected, episodes, scripts, jobs, hand, used>>

\* ... are written one by one.  Then the newest draft is looked up.
SaveFlag(o) ==
  /\ At(o, "save")
  /\ IF desk[o].todo # {}
     THEN \E a \in desk[o].todo :
            /\ selected' = IF a \in desk[o].form THEN selected \cup {a} ELSE selected \ {a}
            /\ ThenDisturbing(o, [desk[o] EXCEPT !.todo = @ \ {a}])
     ELSE /\ IF DraftEpisode = 0 THEN Answer(o)
             ELSE Then(o, [desk[o] EXCEPT !.pc = "sync", !.item = DraftEpisode])
          /\ UNCHANGED selected
  /\ UNCHANGED <<deskSite, page, episodes, scripts, jobs, hand, used>>

-----------------------------------------------------------------------------
(* sync_selected_articles_to_draft_episode.  status "new": for a script.   *)

\* Mutant of SyncTarget: the newest draft is taken for a new episode's.
DraftInstead(o) == IF DraftEpisode = 0 THEN desk[o].item ELSE DraftEpisode
SyncTarget(o) == desk[o].item

Asking(o) == desk[o].status = "new"
\* The articles of an episode that was asked for are being linked.
Linking(o, e) ==
  Asking(o) /\ desk[o].item = e /\ desk[o].pc \in {"sync", "unlink", "link"}
ReadSelected(o) ==
  /\ At(o, "sync")
  /\ Then(o, [desk[o] EXCEPT !.pc = "unlink", !.found = selected])
  /\ episodes' = IF Asking(o) THEN [episodes EXCEPT ![desk[o].item].asked = selected]
                 ELSE episodes
  /\ UNCHANGED <<deskSite, page, selected, scripts, jobs, hand, used>>

Relinked(o, links) ==
  LET again == episodes[SyncTarget(o)].resaved \/ ~Asking(o)
  IN [episodes EXCEPT ![SyncTarget(o)] = [@ EXCEPT !.links = links, !.resaved = again]]

Unlink(o) ==
  /\ At(o, "unlink")
  /\ episodes' = Relinked(o, episodes[SyncTarget(o)].links \cap desk[o].found)
  /\ ThenDisturbing(o, [desk[o] EXCEPT !.pc = "link", !.todo = desk[o].found])
  /\ UNCHANGED <<deskSite, page, selected, scripts, jobs, hand, used>>

\* An episode that was deleted meanwhile cannot be linked to.
Link(o) ==
  /\ At(o, "link")
  /\ LET e == SyncTarget(o)
     IN IF desk[o].todo # {}
        THEN IF episodes[e].gone THEN Answer(o) /\ UNCHANGED episodes
             ELSE \E a \in desk[o].todo :
                    /\ episodes' = Relinked(o, episodes[e].links \cup {a})
                    /\ ThenDisturbing(o, [desk[o] EXCEPT !.todo = @ \ {a}])
        ELSE /\ IF Asking(o) THEN Then(o, [desk[o] EXCEPT !.pc = "dispatch"]) ELSE Answer(o)
             /\ UNCHANGED episodes
  /\ UNCHANGED <<deskSite, page, selected, scripts, jobs, hand, used>>

-----------------------------------------------------------------------------
(* queue_script_generation and abort_script_generation.                    *)

Scripted == \E s \in DOMAIN scripts : Usable(s)
Live(ids) == {e \in ids : ~episodes[e].gone}

\* A person asks for a script if the page offers it.
GenerateScript(o) ==
  /\ page[o].can_generate /\ ~Scripted
  /\ Len(episodes) + Cardinality({p \in Staff : desk[p].pc \in {"count", "create"}})
       < deskSite.episodeLimit
  /\ Begin(o, "generate", [NoRequest EXCEPT !.pc = "count"])
  /\ UNCHANGED <<deskSite, page, selected, episodes, scripts, jobs, hand>>

CheckActive(o) ==
  /\ At(o, "count")
  /\ IF selected = {} \/ ActiveScriptJob # 0 THEN Answer(o)
     ELSE Then(o, [desk[o] EXCEPT !.pc = "create"])
  /\ UNCHANGED <<deskSite, page, selected, episodes, scripts, jobs, hand, used>>

CreateEpisode(o) ==
  /\ At(o, "create")
  /\ episodes' = Append(episodes, Episode("draft", {}))
  /\ Then(o, [desk[o] EXCEPT !.pc = "sync", !.item = Len(episodes) + 1, !.status = "new"])
  /\ UNCHANGED <<deskSite, page, selected, scripts, jobs, hand, used>>

\* An episode goes with its links and scripts, under the worker's hands too.
Removed(e) ==
  /\ episodes' = [episodes EXCEPT ![e] = [@ EXCEPT !.gone = TRUE, !.links = {}]]
  /\ scripts' = [s \in DOMAIN scripts |->
       IF scripts[s].episode = e THEN [scripts[s] EXCEPT !.status = "deleted"] ELSE scripts[s]]

\* Without articles the new episode is deleted again.
QueueScript(o) ==
  /\ At(o, "dispatch")
  /\ LET e == desk[o].item
     IN IF episodes[e].links = {}
        THEN Removed(e) /\ UNCHANGED jobs
        ELSE jobs' = Append(jobs, Job("script", e, 0)) /\ UNCHANGED <<episodes, scripts>>
  /\ Answer(o)
  /\ UNCHANGED <<deskSite, page, selected, hand, used>>

\* The admin asks for another script of an episode.
GenerateAgain(o) ==
  /\ \E e \in ThereAre : jobs' = Append(jobs, Job("script", e, 0))
  /\ Begin(o, "again", Answered)
  /\ UNCHANGED <<deskSite, page, selected, episodes, scripts, hand>>

\* Somebody is working on the job; nobody is on the running one (observations).
Working(j) == \E h \in Hands : hand[h].job = j
Stuck(j) == jobs[j].status = "running" /\ ~Working(j)

\* A patient person aborts what is stuck; others abort what the page lets them.
AbortScript(o) ==
  /\ page[o].can_abort
  /\ deskSite.patient => ActiveScriptJob # 0 /\ Stuck(ActiveScriptJob)
  /\ Begin(o, "abort", [NoRequest EXCEPT !.pc = "active"])
  /\ UNCHANGED <<deskSite, page, selected, episodes, scripts, jobs, hand>>

FindActive(o) ==
  /\ At(o, "active")
  /\ IF ActiveScriptJob = 0 THEN Answer(o)
     ELSE Then(o, [desk[o] EXCEPT !.pc = "cancel", !.item = ActiveScriptJob,
                                     !.status = jobs[ActiveScriptJob].status])
  /\ UNCHANGED <<deskSite, page, selected, episodes, scripts, jobs, hand, used>>

\* Refused or saved by the status that was read; mark_cancelled likewise.
CancelActive(o) ==
  /\ At(o, "cancel")
  /\ IF desk[o].status \in SCRIPT_ABORTABLE_STATUSES
     THEN jobs' = [jobs EXCEPT ![desk[o].item].status = "cancelled"] ELSE UNCHANGED jobs
  /\ Answer(o)
  /\ UNCHANGED <<deskSite, page, selected, episodes, scripts, hand, used>>

-----------------------------------------------------------------------------
(* Deleting, and the studio.                                               *)

DeleteEpisode(o) ==
  /\ \E e \in ThereAre : Removed(e)
  /\ Begin(o, "delete", Answered)
  /\ UNCHANGED <<deskSite, page, selected, jobs, hand>>

\* A job is deleted if it has failed.
DeleteFailedJob(o) ==
  /\ \E j \in DOMAIN jobs : /\ jobs[j].status = "failed" /\ ~jobs[j].gone
                            /\ jobs' = [jobs EXCEPT ![j].gone = TRUE]
  /\ Begin(o, "clear", Answered)
  /\ UNCHANGED <<deskSite, page, selected, episodes, scripts, hand>>

\* tts_generation leads to the newest usable script of an episode.
OpenStudio(o) ==
  /\ \E e \in ThereAre :
       /\ LatestUsable(e) # 0
       /\ Begin(o, "studio", [NoRequest EXCEPT !.pc = "studio", !.item = LatestUsable(e)])
  /\ UNCHANGED <<deskSite, page, selected, episodes, scripts, jobs, hand>>

\* script_detail reads the script again; one that was deleted is not found.
GenerateAudio(o) ==
  /\ At(o, "studio")
  /\ LET s == desk[o].item
     IN jobs' = IF Usable(s) THEN Append(jobs, Job("audio", scripts[s].episode, s)) ELSE jobs
  /\ Answer(o)
  /\ UNCHANGED <<deskSite, page, selected, episodes, scripts, hand, used>>

-----------------------------------------------------------------------------
(* The worker.  It goes on with what it has read.                          *)

Idle(h) == h \in deskSite.hands /\ hand[h].job = 0
Busy(h) == hand[h].job # 0
Free == [job |-> 0, script |-> 0, sources |-> {}]
Settle(h, status) ==
  /\ jobs' = [jobs EXCEPT ![hand[h].job].status = status]
  /\ hand' = [hand EXCEPT ![h] = Free]
DeskFault(kind) ==
  /\ kind \in deskSite.faults /\ used.faults < deskSite.faultLimit
  /\ used' = [used EXCEPT !.faults = @ + 1]

TakeJob(h) ==
  /\ Idle(h)
  /\ \E j \in DOMAIN jobs :
       /\ jobs[j].waiting
       /\ IF jobs[j].status = "cancelled"
          THEN jobs' = [jobs EXCEPT ![j].waiting = FALSE] /\ UNCHANGED hand
          ELSE /\ jobs' = [jobs EXCEPT ![j] = [@ EXCEPT !.waiting = FALSE, !.status = "running"]]
               /\ hand' = [hand EXCEPT ![h] = [Free EXCEPT !.job = j]]
  /\ UNCHANGED <<deskSite, page, selected, episodes, scripts, desk, used>>

\* _resolve_or_create_script: the oldest script of the episode that is not
\* finished, and was made since the job, is taken for the job's own if it has
\* no lines; or else there is a new one.
Unfinished(j) ==
  {s \in ScriptsOf(jobs[j].episode) :
     s > jobs[j].since /\ scripts[s].status \in {"failed", "generating"}}
Placeholder(j) ==
  LET legacy == {s \in Unfinished(j) : scripts[s].sources = {} /\ \A t \in Unfinished(j) : s <= t}
  IN IF legacy = {} THEN {Len(scripts) + 1} ELSE legacy

AtScript(h) == Busy(h) /\ hand[h].script # 0 /\ jobs[hand[h].job].type = "script"
AtAudio(h) == Busy(h) /\ hand[h].script # 0 /\ jobs[hand[h].job].type = "audio"

\* early: not all of its articles were linked.  shared: somebody else was
\* writing it (observations).
BegunScript(s, e) ==
  LET fresh == [episode |-> e, status |-> "generating", sources |-> {}, voiced |-> FALSE,
                early |-> \E o \in Staff : Linking(o, e),
                shared |-> \E k \in Hands : AtScript(k) /\ hand[k].script = s]
  IN IF s \in DOMAIN scripts
     THEN [scripts EXCEPT ![s] = [fresh EXCEPT !.early = @ \/ scripts[s].early,
                                               !.shared = @ \/ scripts[s].shared]]
     ELSE Append(scripts, fresh)

\* The articles are read, and the script begun.
BeginScript(h) ==
  /\ Busy(h) /\ hand[h].script = 0 /\ jobs[hand[h].job].type = "script"
  /\ LET e == jobs[hand[h].job].episode
     IN IF episodes[e].gone \/ episodes[e].links = {}
        THEN Settle(h, "failed") /\ UNCHANGED <<episodes, scripts>>
        ELSE \E s \in Placeholder(hand[h].job) :
               /\ episodes' = [episodes EXCEPT ![e] = [@ EXCEPT !.status = "generating_script",
                                                                !.stranded = FALSE]]
               /\ scripts' = BegunScript(s, e)
               /\ jobs' = [jobs EXCEPT ![hand[h].job].script = s]
               /\ hand' = [hand EXCEPT ![h] = [@ EXCEPT !.script = s, !.sources = episodes[e].links]]
  /\ UNCHANGED <<deskSite, page, selected, desk, used>>

\* Mutant of Idled: only a script that is ready ends the generation.
IdledIfReady(e, row) ==
  IF row.status = "ready" THEN [episodes EXCEPT ![e].status = "draft"] ELSE episodes

\* sync_episode_idle_status, with the script's row.
Idled(e, row) ==
  IF episodes[e].status \in {"generating_script", "generating_audio"}
  THEN [episodes EXCEPT ![e].status = "draft"] ELSE episodes

Leaves(h, row) ==
  LET s == hand[h].script
      e == scripts[s].episode
  IN IF episodes[e].gone THEN UNCHANGED <<episodes, scripts>>
     ELSE /\ scripts' = [scripts EXCEPT ![s] = row]
          /\ episodes' = Idled(e, row)
Outcome(h) == IF episodes[jobs[hand[h].job].episode].gone THEN "failed" ELSE "succeeded"
Written(h) ==
  [scripts[hand[h].script] EXCEPT !.status = "ready", !.sources = hand[h].sources, !.voiced = FALSE]
Refused(h) == [scripts[hand[h].script] EXCEPT !.status = "failed"]

\* Everything that goes wrong is permanent; so is a row that was deleted.
FinishScript(h) ==
  /\ AtScript(h)
  /\ Leaves(h, Written(h)) /\ Settle(h, Outcome(h))
  /\ UNCHANGED <<deskSite, page, selected, desk, used>>

RefuseScript(h) ==
  /\ AtScript(h) /\ DeskFault("refuse")
  /\ Leaves(h, Refused(h)) /\ Settle(h, "failed")
  /\ UNCHANGED <<deskSite, page, selected, desk>>

\* The transaction of _persist_script is rolled back, an article having been
\* deleted, say.  _mark_failed sees the episode as the transaction has left it
\* in memory, idle, and its row is not written.
FailCommit(h) ==
  /\ AtScript(h) /\ DeskFault("commit")
  /\ LET s == hand[h].script
         e == scripts[s].episode
     IN /\ ~episodes[e].gone
        /\ scripts' = [scripts EXCEPT ![s] = Refused(h)]
        /\ episodes' = [episodes EXCEPT ![e].stranded = TRUE]
  /\ Settle(h, "failed")
  /\ UNCHANGED <<deskSite, page, selected, desk>>

\* The audio of a script, from the first line to the last.
BeginAudio(h) ==
  /\ Busy(h) /\ hand[h].script = 0 /\ jobs[hand[h].job].type = "audio"
  /\ LET s == jobs[hand[h].job].script
     IN IF ~Usable(s) THEN Settle(h, "failed") /\ UNCHANGED episodes
        ELSE /\ episodes' = [episodes EXCEPT ![scripts[s].episode].status = "generating_audio"]
             /\ hand' = [hand EXCEPT ![h].script = s]
             /\ UNCHANGED jobs
  /\ UNCHANGED <<deskSite, page, selected, scripts, desk, used>>

FinishAudio(h) ==
  /\ AtAudio(h)
  /\ Leaves(h, [scripts[hand[h].script] EXCEPT !.voiced = TRUE]) /\ Settle(h, Outcome(h))
  /\ UNCHANGED <<deskSite, page, selected, desk, used>>

\* What was said so far stays, and so does the status of the episode.
RefuseAudio(h) ==
  /\ AtAudio(h) /\ DeskFault("refuse")
  /\ \/ Settle(h, "failed")
     \/ /\ jobs' = [jobs EXCEPT ![hand[h].job] = [@ EXCEPT !.status = "retrying", !.waiting = TRUE]]
        /\ hand' = [hand EXCEPT ![h] = Free]
  /\ UNCHANGED <<deskSite, page, selected, episodes, scripts, desk>>

LoseWorker(h) ==
  /\ Busy(h) /\ DeskFault("crash")
  /\ hand' = [hand EXCEPT ![h] = Free]
  /\ jobs' = [jobs EXCEPT ![hand[h].job].lost = TRUE]
  /\ episodes' = IF AtScript(h)
                  THEN [episodes EXCEPT ![jobs[hand[h].job].episode].stranded = TRUE] ELSE episodes
  /\ UNCHANGED <<deskSite, page, selected, scripts, desk>>

\* The planner makes an episode of its own choice.
PlanEpisode ==
  /\ "plan" \in deskSite.operations /\ Len(episodes) < deskSite.episodeLimit
  /\ episodes' = Append(episodes, Episode("draft", Articles))
  /\ UNCHANGED <<deskSite, page, selected, scripts, jobs, desk, hand, used>>

-----------------------------------------------------------------------------
RequestStep(o) ==
  \/ ReadFlags(o) \/ SaveFlag(o) \/ ReadSelected(o) \/ Unlink(o) \/ Link(o)
  \/ CheckActive(o) \/ CreateEpisode(o) \/ QueueScript(o)
  \/ FindActive(o) \/ CancelActive(o) \/ GenerateAudio(o)
WorkStep(h) ==
  \/ TakeJob(h) \/ BeginScript(h) \/ FinishScript(h) \/ BeginAudio(h) \/ FinishAudio(h)

DeskNext ==
  \/ \E o \in deskSite.people :
       \/ LoadPage(o) \/ RequestStep(o)
       \/ SaveSources(o) \/ GenerateScript(o) \/ GenerateAgain(o) \/ AbortScript(o)
       \/ DeleteEpisode(o) \/ DeleteFailedJob(o) \/ OpenStudio(o)
  \/ \E h \in deskSite.hands :
       \/ WorkStep(h) \/ RefuseScript(h) \/ FailCommit(h) \/ RefuseAudio(h) \/ LoseWorker(h)
  \/ PlanEpisode

\* Requests are answered and jobs are worked on; a person who wants a script
\* looks at the page again, and does what it offers.
DeskFairness ==
  /\ \A o \in Staff :
       /\ WF_deskVars(LoadPage(o)) /\ WF_deskVars(RequestStep(o))
       /\ WF_deskVars(GenerateScript(o)) /\ WF_deskVars(AbortScript(o))
  /\ \A h \in Hands : WF_deskVars(WorkStep(h))

-----------------------------------------------------------------------------
(* The panel of an episode: EpisodePipelineService.  There are no import   *)
(* jobs for an episode.                                                    *)

SUCCESS_STATUSES == {"succeeded", "completed", "ready", "approved", "processed", "collected"}
RUNNING_STATUSES == {"running", "retrying", "generating", "generating_script",
                     "generating_audio", "collecting", "publishing"}
FAILED_STATUSES == {"failed", "cancelled"}

\* Any other status is shown as it is.
DisplayStatus(status) ==
  CASE status \in SUCCESS_STATUSES -> "SUCCESS"
    [] status \in FAILED_STATUSES -> "FAILED"
    [] status \in RUNNING_STATUSES -> "RUNNING"
    [] status = "queued" -> "QUEUED"
    [] status = "pending" -> "PENDING"
    [] OTHER -> status

\* The jobs of the episode's articles, oldest first: the newest one that is
\* under way counts, or else the newest one, or else what the articles say.
ArticleStage(e, type, items) ==
  LET matching == SelectSeq(deskSite.analysis,
                            LAMBDA j : j.type = type /\ j.article \in episodes[e].links)
      active == SelectSeq(matching, LAMBDA j : DisplayStatus(j.status) \in {"RUNNING", "QUEUED"})
  IN IF active # <<>> THEN Last(active).status
     ELSE IF matching # <<>> THEN Last(matching).status
     ELSE IF items # {} THEN "completed" ELSE "pending"

Linked(e, attribute) ==
  {a \in episodes[e].links : attribute \in deskSite.articles[a].has}
Present(items) == IF items # {} THEN "completed" ELSE "pending"

\* Mutant of LatestScript: the script that was made first.
EarliestScript(e) == IF ScriptsOf(e) = {} THEN 0 ELSE Min(ScriptsOf(e))
LatestScript(e) == Newest(ScriptsOf(e))
ScriptJobs(e) == {j \in DOMAIN jobs : /\ jobs[j].type = "script" /\ ~jobs[j].gone
                                      /\ jobs[j].episode = e}
\* A script says more than its job.
ScriptStage(e) ==
  IF LatestScript(e) # 0 THEN scripts[LatestScript(e)].status
  ELSE IF ScriptJobs(e) # {} THEN jobs[Max(ScriptJobs(e))].status ELSE "pending"

BuildPipeline(e) ==
  <<Present(episodes[e].links),
    ArticleStage(e, "summarize_article", Linked(e, "summary")),
    ArticleStage(e, "classify_article", Linked(e, "category")),
    Present(Linked(e, "score")),
    ScriptStage(e)>>

Shown(e) == [i \in 1..5 |-> DisplayStatus(BuildPipeline(e)[i])]
OverallStatus(shown) ==
  IF "FAILED" \in Range(shown) THEN "FAILED"
  ELSE IF Range(shown) = {"SUCCESS"} THEN "SUCCESS"
  ELSE IF Range(shown) \cap {"RUNNING", "QUEUED"} # {} THEN "RUNNING" ELSE "PENDING"

Completed(shown) == Cardinality({i \in DOMAIN shown : shown[i] = "SUCCESS"})
Progress(shown) ==
  LET percent == (Completed(shown) * 100) \div Len(shown)
  IN IF OverallStatus(shown) = "RUNNING" /\ percent < 100
     THEN IF percent + 5 > 95 THEN 95 ELSE percent + 5
     ELSE percent

\* episode_display_status: the badge of the episode.
NeedsAudio(e) == LatestUsable(e) # 0 /\ ~scripts[LatestUsable(e)].voiced
Badge(e) ==
  IF episodes[e].status \in {"generating_script", "generating_audio"} THEN episodes[e].status
  ELSE IF NeedsAudio(e) THEN "ready_to_audio"
  ELSE IF LatestUsable(e) # 0 THEN "generating_audio"
  ELSE IF LatestScript(e) # 0 /\ scripts[LatestScript(e)].status = "failed" THEN "script_failed"
  ELSE episodes[e].status

-----------------------------------------------------------------------------
(* Properties.                                                             *)

\* A script is made from what was selected when it was asked for, however many
\* ask and plan at once, unless its articles were saved again meanwhile or it
\* was begun, as another script of the episode, before they were all linked;
\* and audio is asked for usable scripts only, unless the episode was deleted
\* or two workers have shared the script.
ScriptsHaveTheirSources ==
  /\ \A s \in DOMAIN scripts :
       LET e == scripts[s].episode
           plain == ~scripts[s].early /\ ~episodes[e].resaved
       IN scripts[s].status = "ready" /\ episodes[e].asked # {} /\ plain
            => scripts[s].sources = episodes[e].asked
  /\ \A j \in DOMAIN jobs :
       jobs[j].type = "audio" =>
         LET s == jobs[j].script IN Usable(s) \/ episodes[jobs[j].episode].gone \/ scripts[s].shared

\* A save that nobody disturbed leaves the page's articles as they were
\* checked, all others as they were, and the draft linked to what is selected.
Saved(o) == desk[o].pc = "link" /\ ~Asking(o) /\ desk'[o].pc = "reload"
SavesAreExact ==
  [][\A o \in Staff :
       LET r == desk[o]
       IN Saved(o) /\ r.alone /\ ~episodes[r.item].gone =>
            /\ selected = (r.before \ r.scope) \cup r.form
            /\ episodes[r.item].links = selected]_deskVars

AtScriptOf(h, e) == AtScript(h) /\ scripts[hand[h].script].episode = e

\* The panel says how the newest script stands: SUCCESS and 100 % when it is
\* usable and nothing else is open; RUNNING only if a job for this very script
\* (for a first one, if there is none) waits for a worker, has one or has lost
\* it; FAILED only if such a job has failed or was cancelled.  The badge says
\* that a script is being generated only if somebody is at it, or nobody has
\* begun one since a worker died at it or could not commit it.
PanelIsHonest ==
  \A e \in ThereAre :
    LET shown == Shown(e)
        newest == {s \in ScriptsOf(e) : \A t \in ScriptsOf(e) : t <= s}
        behind == {j \in DOMAIN jobs : /\ jobs[j].type = "script" /\ jobs[j].episode = e
                                       /\ newest # {} => jobs[j].script \in newest}
        analysed == \A i \in 1..4 : shown[i] = "SUCCESS"
    IN /\ OverallStatus(shown) = "SUCCESS" <=> Progress(shown) = 100
       /\ analysed =>
            /\ OverallStatus(shown) = "SUCCESS" <=> \E s \in newest : Usable(s)
            /\ OverallStatus(shown) = "RUNNING" =>
                 \E j \in behind : jobs[j].waiting \/ Working(j) \/ jobs[j].lost
            /\ OverallStatus(shown) = "FAILED" =>
                 \E j \in behind : jobs[j].status \in {"failed", "cancelled"}
       /\ Badge(e) = "generating_script" =>
            episodes[e].stranded \/ \E h \in Hands : AtScriptOf(h, e)

\* A person who asks again until there is a script gets one, though workers
\* die with the job in hand: it can be aborted, and another one asked for.
ScriptComesInTheEnd ==
  (deskSite.patient /\ <>[](selected # {})) => <>Scripted

=============================================================================

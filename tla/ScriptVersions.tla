--------------------------- MODULE ScriptVersions ---------------------------
(***************************************************************************)
(* The script versions of an episode: ScriptGenerationService makes one    *)
(* per generation job, ManualScriptService one per pasted dialogue, and    *)
(* ScriptVersionService numbers them and marks the active one.             *)
(*                                                                         *)
(* Generations and manual scripts of one episode may run side by side.     *)
(* PostgreSQL keeps them apart with row locks and the unique (episode,     *)
(* version) only: under READ COMMITTED a statement sees what was committed *)
(* when it began, a row that another transaction has changed is waited     *)
(* for, and of transactions that wait for each other one is cancelled.     *)
(* The rows of a transaction appear here when it commits.                  *)
(***************************************************************************)
EXTENDS Naturals, Sequences, FiniteSets, FiniteSetsExt

CONSTANTS
  NumEpisodes,  \* episodes                                        (bound)
  Workers,      \* Celery workers of the queue llm
  Operators,    \* people at the content pages
  Sites         \* the surroundings to consider

Episodes == 1..NumEpisodes
Processes == Workers \cup Operators

\* "crash": a worker dies.  "article": an article is deleted while a script
\* about it is generated; the foreign key of its segments is checked at COMMIT.
FaultKinds == {"crash", "article"}
Operations == {"queue", "generate", "regenerate", "retry", "abort", "manual"}

\* A site: the episodes that are there, whether episode 1 has a script, the
\* processes at work, what people do, and how often it happens (bounds).
ASSUME ScriptAssumption ==
  /\ NumEpisodes \in Nat \ {0}
  /\ Workers \cap Operators = {}
  /\ \A s \in Sites :
       /\ s.episodes \subseteq Episodes /\ 1 \in s.episodes
       /\ s.written \in BOOLEAN
       /\ s.processes \subseteq Processes
       /\ s.operations \subseteq Operations /\ s.faults \subseteq FaultKinds
       /\ s.jobs \in Nat /\ s.manuals \in Nat /\ s.retries \in Nat
       /\ s.faultLimit \in Nat

VARIABLES
  site,        \* the surroundings, chosen at the start
  status,      \* episode -> its status
  summarised,  \* the episodes that have a title and a summary
  script,      \* the rows of table scripts_script, in creation order
  job,         \* the generate_script jobs, in creation order
  call,        \* process -> the generation, or the request, it has under way
  torn,        \* episodes whose activations overlapped last (observation)
  deserted,    \* episodes with a generation that a fault has ended since their
               \* status was last written (observation)
  spent        \* how often what is bounded has happened

vars == <<site, status, summarised, script, job, call, torn, deserted, spent>>

-----------------------------------------------------------------------------
(* The data.                                                               *)

\* "none": the episode does not exist yet.
EpisodeStatus == {"none", "draft", "generating_script"}
ScriptStatus == {"generating", "ready", "failed"}
ReusableOrReady == ScriptStatus   \* mutant of Reusable
FailedForgotten == {"generating"}   \* mutant of Reusable
Reusable == {"failed", "generating"}

\* copies: how many dialogues its segments make up.  born: the jobs that
\* existed when it was created.  shared: two generations have worked on it at
\* the same time (observation).
Script == [episode : Episodes, version : Nat, status : ScriptStatus,
           copies : Nat, active : BOOLEAN, born : Nat, shared : BOOLEAN]

JobStatus == {"queued", "running", "succeeded", "failed", "cancelled"}
ActiveJobStatuses == {"queued", "running"}
SettledStatuses == {"succeeded", "failed", "cancelled"}

\* script: payload["script_id"], 0 when there is none.  waiting: its message
\* is with the broker.
Job == [status : JobStatus, episode : Episodes, script : Nat,
        waiting : BOOLEAN]

\* Where a process is: before the step of that name.
WriterPc == {"begin", "find", "reset", "number", "insert", "write", "save",
             "activate", "commit", "finish", "failing", "sync"}
CallPc == WriterPc \cup {"idle", "queue"}

\* version: the number to insert.  cleared: the scripts whose is_active the
\* transaction has cleared.  early: the transaction has saved the episode
\* before anything else.  seen: the status in script.episode, once loaded.
\* late: another activation was committed since this one cleared (observation).
Call == [pc : CallPc, job : Nat, episode : Episodes, script : Nat,
         version : Nat, cleared : SUBSET Nat, early : BOOLEAN,
         seen : EpisodeStatus \cup {"unread"}, late : BOOLEAN]
NoCall == [pc |-> "idle", job |-> 0, episode |-> 1, script |-> 0,
           version |-> 0, cleared |-> {}, early |-> FALSE,
           seen |-> "unread", late |-> FALSE]

Existing == {e \in Episodes : status[e] # "none"}
AtWork(p) == call[p].pc \in WriterPc
NewEpisodes == {e \in Episodes \ Existing :
                  \A p \in Processes : AtWork(p) => call[p].episode # e}
ScriptsOf(e) == {s \in DOMAIN script : script[s].episode = e}
Active(e) == {s \in ScriptsOf(e) : script[s].active}
Versions(e) == {script[s].version : s \in ScriptsOf(e)}

\* ScriptVersionService.get_next_version.
NextVersion(e) == 1 + Max(Versions(e) \cup {0})

Goto(p, c) == call' = [call EXCEPT ![p] = c]
Leave(p) == Goto(p, NoCall)
SetJob(p, s) == job' = [job EXCEPT ![call[p].job].status = s]

May(op) == op \in site.operations
Spend(kind) == spent' = [spent EXCEPT ![kind] = @ + 1]
Fault(kind) == /\ kind \in site.faults /\ spent.faults < site.faultLimit
               /\ Spend("faults")

Init ==
  /\ site \in Sites
  /\ status = [e \in Episodes |-> IF e \in site.episodes THEN "draft" ELSE "none"]
  /\ summarised \in SUBSET site.episodes
  /\ script = IF site.written
              THEN <<[episode |-> 1, version |-> 1, status |-> "ready",
                      copies |-> 1, active |-> TRUE, born |-> 0, shared |-> FALSE]>>
              ELSE <<>>
  /\ job = <<>>
  /\ call = [p \in Processes |-> NoCall]
  /\ torn = {} /\ deserted = {}
  /\ spent = [faults |-> 0, retries |-> 0, manuals |-> 0]

-----------------------------------------------------------------------------
(* Row locks.                                                              *)

\* A manual script saves its episode first; a generation only when it has a
\* title or a summary for it.
HoldsEpisode(p, e) ==
  /\ call[p].episode = e
  /\ \/ p \in Operators /\ AtWork(p)
     \/ p \in Workers /\ call[p].early
EpisodeFree(p, e) == \A q \in Processes \ {p} : ~HoldsEpisode(q, e)

\* The rows of scripts, and of their metadata, a transaction has changed.
Held(p) ==
  IF call[p].pc \in {"activate", "commit"}
  THEN call[p].cleared \cup ({call[p].script} \ {0})
  ELSE {}
ScriptsFree(p, S) == \A q \in Processes \ {p} : Held(q) \cap S = {}

\* What the next statement of a transaction has to wait for.
SavesEpisode(p) ==
  p \in Workers /\ call[p].pc = "commit" /\ call[p].seen = "generating_script"
Wants(p) == CASE call[p].pc = "save"     -> {call[p].script}
              [] call[p].pc = "activate" -> Active(call[p].episode)
              [] OTHER                   -> {}
BlockedBy(p, q) ==
  /\ p # q
  /\ \/ Wants(p) \cap Held(q) # {}
     \/ SavesEpisode(p) /\ HoldsEpisode(q, call[p].episode)

NeverDeadlocked(p) == FALSE   \* mutant of Deadlocked
Deadlocked(p) ==
  \E S \in SUBSET Processes :
    /\ p \in S
    /\ \A q \in S : (\E r \in S : BlockedBy(q, r)) /\ (\E r \in S : BlockedBy(r, q))

-----------------------------------------------------------------------------
(* Requests.  How jobs are dispatched and delivered is JobLifecycle's.     *)

Dispatch(e, s) ==
  /\ Len(job) < site.jobs
  /\ job' = Append(job, [status |-> "queued", episode |-> e, script |-> s,
                         waiting |-> TRUE])

\* queue_script_generation: refused while a script job is active, ...
QueueScript(o) ==
  /\ May("queue") /\ call[o].pc = "idle" /\ Len(job) < site.jobs
  /\ \A j \in DOMAIN job : job[j].status \notin ActiveJobStatuses
  /\ NewEpisodes # {}
  /\ Goto(o, [NoCall EXCEPT !.pc = "queue"])
  /\ UNCHANGED <<site, status, summarised, script, job, torn, deserted, spent>>

\* ... then a new episode, and a job for it.
QueueNewEpisode(o) ==
  /\ call[o].pc = "queue"
  /\ NewEpisodes # {}
  /\ LET e == Min(NewEpisodes)
     IN status' = [status EXCEPT ![e] = "draft"] /\ Dispatch(e, 0)
  /\ Leave(o)
  /\ UNCHANGED <<site, summarised, script, torn, deserted, spent>>

\* The admin and the API ask for a script of an episode, or for a script again.
Ask ==
  /\ \/ May("generate") /\ \E e \in Existing : Dispatch(e, 0)
     \/ May("regenerate") /\ \E s \in DOMAIN script : Dispatch(script[s].episode, s)
  /\ UNCHANGED <<site, status, summarised, script, call, torn, deserted, spent>>

RetryJob ==
  /\ May("retry") /\ spent.retries < site.retries
  /\ \E j \in DOMAIN job :
       /\ job[j].status = "failed"
       /\ job' = [job EXCEPT ![j].status = "queued", ![j].waiting = TRUE]
  /\ Spend("retries")
  /\ UNCHANGED <<site, status, summarised, script, call, torn, deserted>>

\* abort_script_generation: the newest active job, even when it is running.
Abort ==
  /\ May("abort")
  /\ LET active == {j \in DOMAIN job : job[j].status \in ActiveJobStatuses}
     IN active # {} /\ job' = [job EXCEPT ![Max(active)].status = "cancelled"]
  /\ UNCHANGED <<site, status, summarised, script, call, torn, deserted, spent>>

-----------------------------------------------------------------------------
(* ScriptGenerationService.generate.                                       *)

\* JobTaskRunner.run.
Take(w) ==
  /\ call[w].pc = "idle"
  /\ \E j \in DOMAIN job :
       /\ job[j].waiting
       /\ \/ /\ job[j].status = "cancelled"
             /\ job' = [job EXCEPT ![j].waiting = FALSE]
             /\ UNCHANGED call
          \/ /\ job[j].status # "cancelled"
             /\ job' = [job EXCEPT ![j].waiting = FALSE, ![j].status = "running"]
             /\ Goto(w, [NoCall EXCEPT !.pc = "begin", !.job = j,
                                       !.episode = job[j].episode])
  /\ UNCHANGED <<site, status, summarised, script, torn, deserted, spent>>

NoArticles(w) ==
  /\ call[w].pc = "begin"
  /\ SetJob(w, "failed") /\ Leave(w)
  /\ UNCHANGED <<site, status, summarised, script, torn, deserted, spent>>

Begin(w) ==
  /\ call[w].pc = "begin" /\ EpisodeFree(w, call[w].episode)
  /\ status' = [status EXCEPT ![call[w].episode] = "generating_script"]
  /\ deserted' = deserted \ {call[w].episode}
  /\ Goto(w, [call[w] EXCEPT !.pc = "find"])
  /\ UNCHANGED <<site, summarised, script, job, torn, spent>>

\* The script a job without one works on: the first unfinished one that was
\* created since the job was, if nothing has been written to it.
Legacy(j, e) ==
  LET unfinished == {s \in ScriptsOf(e) : /\ script[s].status \in Reusable
                                          /\ script[s].born >= j}
      first == CHOOSE s \in unfinished :
                 \A t \in unfinished : script[s].version <= script[t].version
  IN IF unfinished # {} /\ script[first].copies = 0 THEN first ELSE 0

NamedScript(j, e) == IF job[j].script # 0 THEN job[j].script ELSE Legacy(j, e)

\* _resolve_or_create_script up to the write: reuse the job's script, or
\* number a new one.
FindScript(w) ==
  LET c == call[w]
      named == NamedScript(c.job, c.episode)
      usable == /\ named \in ScriptsOf(c.episode)
                /\ script[named].status \in Reusable
      met == \E x \in Workers \ {w} : AtWork(x) /\ call[x].script = named
  IN /\ c.pc = "find"
     /\ job' = [job EXCEPT ![c.job].script = named]
     /\ IF usable
        THEN /\ Goto(w, [c EXCEPT !.pc = "reset", !.script = named])
             /\ script' = [script EXCEPT ![named].shared = @ \/ met]
        ELSE Goto(w, [c EXCEPT !.pc = "number"]) /\ UNCHANGED script
     /\ UNCHANGED <<site, status, summarised, torn, deserted, spent>>

\* reset_placeholder_for_retry, one transaction.
Reset(w) ==
  /\ call[w].pc = "reset" /\ ScriptsFree(w, {call[w].script})
  /\ script' = [script EXCEPT ![call[w].script].status = "generating",
                              ![call[w].script].copies = 0]
  /\ Goto(w, [call[w] EXCEPT !.pc = "write"])
  /\ UNCHANGED <<site, status, summarised, job, torn, deserted, spent>>

\* create_version_placeholder, and ManualScriptService: the number is read, ...
Number(p) ==
  /\ call[p].pc = "number"
  /\ Goto(p, [call[p] EXCEPT !.pc = "insert", !.version = NextVersion(call[p].episode)])
  /\ UNCHANGED <<site, status, summarised, script, job, torn, deserted, spent>>

Taken(p) == call[p].version \in Versions(call[p].episode)

\* A number that a manual script not yet committed has is waited for.
Contested(w) ==
  \E o \in Operators : /\ call[o].pc \in {"activate", "commit"}
                       /\ call[o].episode = call[w].episode
                       /\ call[o].version = call[w].version

NewScript(c) ==
  [episode |-> c.episode, version |-> c.version, status |-> "generating",
   copies |-> 0, active |-> FALSE, born |-> Len(job), shared |-> FALSE]

\* Mutant of CreatePlaceholder: the script that was the last one before.
CreatePlaceholderUnlinked(w) ==
  /\ call[w].pc = "insert" /\ ~Taken(w) /\ ~Contested(w)
  /\ script' = Append(script, NewScript(call[w]))
  /\ job' = [job EXCEPT ![call[w].job].script = Len(script)]
  /\ Goto(w, [call[w] EXCEPT !.pc = "write", !.script = Len(script)])
  /\ UNCHANGED <<site, status, summarised, torn, deserted, spent>>

\* ... then used.  The id of the new script is merged into the payload.
CreatePlaceholder(w) ==
  /\ call[w].pc = "insert" /\ ~Taken(w) /\ ~Contested(w)
  /\ script' = Append(script, NewScript(call[w]))
  /\ job' = [job EXCEPT ![call[w].job].script = Len(script) + 1]
  /\ Goto(w, [call[w] EXCEPT !.pc = "write", !.script = Len(script) + 1])
  /\ UNCHANGED <<site, status, summarised, torn, deserted, spent>>

\* The unique constraint refuses a number that was used in between.  generate
\* does not catch that.
VersionConflict(w) ==
  /\ call[w].pc = "insert" /\ Taken(w)
  /\ SetJob(w, "failed") /\ Leave(w)
  /\ UNCHANGED <<site, status, summarised, script, torn, deserted, spent>>

\* The LLM, its critics or the validation give up.
WritingFails(w) ==
  /\ call[w].pc = "write"
  /\ Goto(w, [call[w] EXCEPT !.pc = "failing"])
  /\ UNCHANGED <<site, status, summarised, script, job, torn, deserted, spent>>

-----------------------------------------------------------------------------
(* _persist_script and create: a transaction each.                         *)

\* script.episode is loaded; a title or a summary it lacks is saved at once.
LoadEpisode(w) ==
  /\ call[w].pc = "write"
  /\ \/ Goto(w, [call[w] EXCEPT !.pc = "save", !.seen = status[call[w].episode]])
     \/ /\ call[w].episode \notin summarised /\ EpisodeFree(w, call[w].episode)
        /\ Goto(w, [call[w] EXCEPT !.pc = "save", !.seen = status[call[w].episode],
                                   !.early = TRUE])
  /\ UNCHANGED <<site, status, summarised, script, job, torn, deserted, spent>>

SaveScript(w) ==
  /\ call[w].pc = "save" /\ ScriptsFree(w, {call[w].script})
  /\ Goto(w, [call[w] EXCEPT !.pc = "activate"])
  /\ UNCHANGED <<site, status, summarised, script, job, torn, deserted, spent>>

\* ManualScriptService.create: an episode that is given, or the newest draft,
\* or a new episode when there is no draft.
NewManualScript(o) ==
  /\ May("manual") /\ spent.manuals < site.manuals /\ call[o].pc = "idle"
  /\ \E e \in Episodes :
       /\ \/ e \in Existing
          \/ e \in NewEpisodes /\ \A d \in Existing : status[d] # "draft"
       /\ EpisodeFree(o, e)
       /\ Goto(o, [NoCall EXCEPT !.pc = "number", !.episode = e])
  /\ Spend("manuals")
  /\ UNCHANGED <<site, status, summarised, script, job, torn, deserted>>

InsertManualScript(o) ==
  /\ call[o].pc = "insert"
  /\ IF Taken(o) THEN Leave(o) ELSE Goto(o, [call[o] EXCEPT !.pc = "activate"])
  /\ UNCHANGED <<site, status, summarised, script, job, torn, deserted, spent>>

\* activate_script clears every active version, ...
ClearActive(p) ==
  /\ call[p].pc = "activate"
  /\ ScriptsFree(p, Active(call[p].episode))
  /\ Goto(p, [call[p] EXCEPT !.pc = "commit", !.cleared = Active(call[p].episode)])
  /\ UNCHANGED <<site, status, summarised, script, job, torn, deserted, spent>>

\* Mutant of Activated: the versions before stay active.
ActivatedToo(table, s, cleared) == [table EXCEPT ![s].active = TRUE]

\* ... then sets its own.
Activated(table, s, cleared) ==
  [t \in DOMAIN table |->
     [table[t] EXCEPT !.active = t = s \/ (@ /\ t \notin cleared)]]

\* What a commit does to the other calls and to the observations.
Committed(p, c) ==
  /\ call' = [q \in Processes |->
       IF q = p THEN c
       ELSE [call[q] EXCEPT !.late = @ \/ (/\ call[q].pc = "commit"
                                           /\ call[q].episode = call[p].episode)]]
  /\ torn' = IF call[p].late THEN torn \cup {call[p].episode}
                             ELSE torn \ {call[p].episode}

\* Mutant of Written: the segments of an earlier attempt stay.
WrittenToo(s) == [script EXCEPT ![s].status = "ready", ![s].copies = @ + 1]

Written(s) == [script EXCEPT ![s].status = "ready", ![s].copies = 1]

\* sync_episode_idle_status looks at script.episode, and the transaction of
\* the generation commits.
CommitScript(w) ==
  LET c == call[w]
  IN /\ c.pc = "commit"
     /\ SavesEpisode(w) => EpisodeFree(w, c.episode)
     /\ script' = Activated(Written(c.script), c.script, c.cleared)
     /\ status' = IF SavesEpisode(w) THEN [status EXCEPT ![c.episode] = "draft"]
                                     ELSE status
     /\ deserted' = IF SavesEpisode(w) THEN deserted \ {c.episode} ELSE deserted
     /\ summarised' = IF c.early THEN summarised \cup {c.episode} ELSE summarised
     /\ Committed(w, [NoCall EXCEPT !.pc = "finish", !.job = c.job,
                                    !.episode = c.episode, !.script = c.script])
     /\ UNCHANGED <<site, job, spent>>

CommitManualScript(o) ==
  LET c == call[o]
      table == Append(script, [NewScript(c) EXCEPT !.status = "ready", !.copies = 1])
  IN /\ o \in Operators /\ c.pc = "commit"
     /\ script' = Activated(table, Len(table), c.cleared)
     /\ status' = [status EXCEPT ![c.episode] = "draft"]
     /\ deserted' = deserted \ {c.episode}
     /\ Committed(o, NoCall)
     /\ UNCHANGED <<site, summarised, job, spent>>

Finish(w) ==
  /\ call[w].pc = "finish"
  /\ SetJob(w, "succeeded") /\ Leave(w)
  /\ UNCHANGED <<site, status, summarised, script, torn, deserted, spent>>

-----------------------------------------------------------------------------
(* Failures.                                                               *)

\* The transaction is rolled back; a request ends, a generation goes on in
\* _mark_failed with the script.episode it has in memory, on which
\* sync_episode_idle_status has set DRAFT if it was reached.
RollBack(p) ==
  IF p \in Operators THEN Leave(p)
  ELSE Goto(p, [call[p] EXCEPT
         !.pc = "failing", !.cleared = {}, !.early = FALSE, !.late = FALSE,
         !.seen = IF SavesEpisode(p) THEN "draft" ELSE @])

Victim(p) ==
  /\ Deadlocked(p)
  /\ RollBack(p)
  /\ UNCHANGED <<site, status, summarised, script, job, torn, deserted, spent>>

CommitFails(w) ==
  /\ w \in Workers /\ call[w].pc = "commit"
  /\ SavesEpisode(w) => EpisodeFree(w, call[w].episode)
  /\ Fault("article")
  /\ RollBack(w)
  /\ deserted' = deserted \cup {call[w].episode}
  /\ UNCHANGED <<site, status, summarised, script, job, torn>>

\* _mark_failed saves the script, ...
MarkFailed(w) ==
  /\ call[w].pc = "failing" /\ ScriptsFree(w, {call[w].script})
  /\ script' = [script EXCEPT ![call[w].script].status = "failed"]
  /\ Goto(w, [call[w] EXCEPT !.pc = "sync"])
  /\ UNCHANGED <<site, status, summarised, job, torn, deserted, spent>>

\* Mutant of Seen: script.episode is never loaded.
SeenNow(w) == IF call[w].seen = "unread" THEN "draft" ELSE call[w].seen
Seen(w) ==
  IF call[w].seen = "unread" THEN status[call[w].episode] ELSE call[w].seen

\* ... then its episode, and the runner marks the job.
SyncIdle(w) ==
  /\ call[w].pc = "sync"
  /\ \/ Seen(w) # "generating_script" /\ UNCHANGED <<status, deserted>>
     \/ /\ Seen(w) = "generating_script" /\ EpisodeFree(w, call[w].episode)
        /\ status' = [status EXCEPT ![call[w].episode] = "draft"]
        /\ deserted' = deserted \ {call[w].episode}
  /\ SetJob(w, "failed") /\ Leave(w)
  /\ UNCHANGED <<site, summarised, script, torn, spent>>

\* A worker dies; the database rolls its transaction back.
Crash(w) ==
  /\ AtWork(w) /\ Fault("crash")
  /\ Leave(w)
  /\ deserted' = deserted \cup {call[w].episode}
  /\ UNCHANGED <<site, status, summarised, script, job, torn>>

-----------------------------------------------------------------------------
Generate(w) ==
  \/ NoArticles(w) \/ Begin(w) \/ FindScript(w) \/ Reset(w) \/ Number(w)
  \/ CreatePlaceholder(w) \/ VersionConflict(w)
  \/ WritingFails(w) \/ LoadEpisode(w) \/ SaveScript(w) \/ ClearActive(w)
  \/ CommitScript(w) \/ Finish(w) \/ Victim(w) \/ MarkFailed(w) \/ SyncIdle(w)
Paste(o) ==
  \/ Number(o) \/ InsertManualScript(o) \/ ClearActive(o)
  \/ CommitManualScript(o) \/ Victim(o)

Next ==
  \/ Ask \/ RetryJob \/ Abort
  \/ \E w \in Workers \cap site.processes :
       Take(w) \/ Generate(w) \/ CommitFails(w) \/ Crash(w)
  \/ \E o \in Operators \cap site.processes :
       QueueScript(o) \/ QueueNewEpisode(o) \/ NewManualScript(o) \/ Paste(o)

Spec == Init /\ [][Next]_vars

\* Celery hands waiting jobs to idle workers, a process that has begun goes
\* on, and the database breaks deadlocks.
FairSpec ==
  /\ Spec
  /\ \A w \in Workers : WF_vars(Take(w) /\ w \in site.processes) /\ WF_vars(Generate(w))
  /\ \A o \in Operators : WF_vars(QueueNewEpisode(o) \/ Paste(o))

-----------------------------------------------------------------------------
(* Properties.                                                             *)

\* The type invariant: a call that works on a script has one.
TypeOK ==
  /\ site \in Sites
  /\ status \in [Episodes -> EpisodeStatus]
  /\ summarised \subseteq Episodes /\ torn \subseteq Episodes /\ deserted \subseteq Episodes
  /\ script \in Seq(Script)
  /\ job \in Seq(Job)
  /\ call \in [Processes -> Call]
  /\ \A w \in Workers :
       call[w].pc \in {"reset", "write", "save", "activate", "commit", "finish",
                       "failing", "sync"} => call[w].script \in DOMAIN script
  /\ spent \in [{"faults", "retries", "manuals"} -> Nat]

\* A ready script has its dialogue once: never half of it, none of it, or what
\* an earlier attempt or another generation of the same script had written.
ReadyIsWhole ==
  \A s \in DOMAIN script :
    /\ script[s].status = "ready" => script[s].copies = 1
    /\ script[s].status = "generating" => script[s].copies = 0

\* get_active_script has one answer: an episode with a ready script has one
\* active version, as long as its last activations did not overlap.
OneActive ==
  \A e \in Episodes \ torn :
    /\ Cardinality(Active(e)) <= 1
    /\ (\E s \in ScriptsOf(e) : script[s].status = "ready") => Active(e) # {}

\* What a generation has finished stays usable: the active version, and the
\* script of a job that succeeded, are ready, unless two generations have worked on
\* it at the same time.
ReadyIsKept ==
  /\ \A s \in DOMAIN script :
       script[s].active /\ ~script[s].shared => script[s].status = "ready"
  /\ \A j \in DOMAIN job :
       job[j].status = "succeeded" =>
         /\ job[j].script \in DOMAIN script
         /\ ~script[job[j].script].shared => script[job[j].script].status = "ready"

\* sync_episode_idle_status: an episode nobody generates a script for is not
\* GENERATING_SCRIPT, whatever numbers collided and whatever deadlocks were
\* broken, unless a worker of its own has died or a commit of its own has
\* failed since its status was last written: that nothing repairs until
\* somebody asks for another script.
IdleIsDraft ==
  \A e \in Episodes \ deserted :
    status[e] = "generating_script" => \E p \in Processes : AtWork(p) /\ call[p].episode = e

\* The rows of scripts, versions and episodes agree with each other and with
\* whoever is at work, in every interleaving of generations, people and faults.
VersionsAgree == TypeOK /\ ReadyIsWhole /\ OneActive /\ ReadyIsKept /\ IdleIsDraft

\* A job that is run again goes on with its version; it makes another one only
\* when its script is ready or is another episode's.
RetriesKeepVersion ==
  [][\A w \in Workers :
       Len(script') > Len(script) /\ call[w].pc = "insert" /\ call'[w].pc = "write" =>
         LET s == job[call[w].job].script
         IN s # 0 => script[s].status = "ready" \/ script[s].shared]_vars

Queued(j) == j \in DOMAIN job /\ job[j].status = "queued"
Settled(j) == j \in DOMAIN job /\ job[j].status \in SettledStatuses

\* Every job that was asked for is settled, unless its worker dies.
JobsSettle ==
  \A j \in 1..Max({s.jobs : s \in Sites}) :
    Queued(j) ~> Settled(j) \/ spent.faults > 0

=============================================================================

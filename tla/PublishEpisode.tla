--------------------------- MODULE PublishEpisode ---------------------------
(***************************************************************************)
(* PublishService: worker and web processes publish episodes on platforms, *)
(* on request, by the daily sweep or to retry a failed publish job, while  *)
(* operators cancel publish jobs.                                          *)
(*                                                                         *)
(* A call works through its platforms one after the other.  Each one is a  *)
(* publish job, a side effect on the platform, a row of the publication    *)
(* history and, for rss, the feed file written anew from that history.     *)
(* Nothing is locked and no transaction spans two of these: one action is  *)
(* one round trip to the database, the platform or the disk.               *)
(***************************************************************************)
EXTENDS Naturals, Sequences, FiniteSets, Folds, Functions

CONSTANTS
  NumEpisodes,  \* episodes, numbered from the newest              (bound)
  Enabled,      \* settings.enabled_platforms(), in their order
  FeedLimit,    \* rows the feed shows; 100 in the code
  MaxRetries,   \* settings.task_max_retries
  Workers,      \* processes that call publish_episode
  Operators,    \* processes that cancel publish jobs
  Sites         \* the surroundings to consider

\* "down": health_check is false.  "refuse": the publisher's own validation
\* fails.  "upload": YouTube rejects the upload.  "feed": the feed cannot be
\* generated.  "disk": it cannot be written.  "crash": a worker dies.
FaultKinds == {"down", "refuse", "upload", "feed", "disk", "crash"}

Episodes == 1..NumEpisodes
Platforms == {"rss", "youtube"}

\* The audio of an episode: usable, a READY row without its file (or an
\* episode that is not fit to publish for another reason), or no READY row.
Audio == {"ready", "unfit", "none"}

\* A site is what does not change: the processes at work, the faults that may
\* occur, the audio of each episode, the lists of platforms people ask for
\* (<<>>: those enabled), whether administrators use "Republish", and how many
\* requests and retries are made (bound).
ASSUME PublishAssumption ==
  /\ NumEpisodes \in Nat \ {0}
  /\ Enabled \in Seq(Platforms) /\ Enabled # <<>> /\ IsInjective(Enabled)
  /\ FeedLimit \in Nat \ {0}
  /\ MaxRetries \in Nat
  /\ IsFiniteSet(Workers)
  /\ \A s \in Sites :
       /\ s.workers \subseteq Workers /\ s.operators \subseteq Operators
       /\ s.faults \subseteq FaultKinds
       /\ s.audio \in [Episodes -> Audio]
       /\ \A t \in s.targets : t \in Seq(Platforms)
       /\ s.republish \in BOOLEAN
       /\ s.requests \in Nat

VARIABLES
  site,     \* the surroundings, chosen at the start
  status,   \* episode -> its status
  shelf,    \* episode -> Episode.publish = 1: listeners see it
  jobs,     \* the rows of table publish_publishjob, in creation order
  history,  \* the rows of publish_publishedepisode, in published_at order
  uploads,  \* episode -> videos of it on YouTube
  feed,     \* the rows of the history that the feed file shows
  requests, \* episode -> requests and retries made for it
  call,     \* worker -> the call it has under way
  stop      \* operator -> the publish job it is about to cancel, or 0

vars == <<site, status, shelf, jobs, history, uploads, feed, requests, call, stop>>

-----------------------------------------------------------------------------
(* The data.                                                               *)

EpisodeStatus == {"completed", "publishing", "failed"}
Ready == {"completed", "publishing"}

Kind == {"request", "retry", "sweep", "republish"}

\* The Celery handler turned "['rss']", the string that _json_safe_payload
\* made of a list, into a tuple of characters: none of them is a platform.
Garbled == <<"[">>

\* Where a call is: before the statement of that name.
CallPc == {"idle", "sweep", "reset", "load", "begin", "next", "check",
           "publish", "mark", "record", "rows", "write", "failed", "again"}

PublishJobStatus == {"pending", "in_progress", "completed", "failed"}
PublishJob == [episode : Episodes, platform : Platforms,
               status : PublishJobStatus]
PublishedEpisode == [episode : Episodes, platform : Platforms]
Names == Platforms \cup {Garbled[1]}

\* targets: the platforms to publish on.  todo: those that are left, the
\* current one first.  job: its publish job.  failed, done: how many failed,
\* and whether one succeeded.  batch: the episodes the sweep still has.
\* attempt: Celery's.  rows: what write_feed has loaded.  then: what follows
\* the failure of a platform.
Call == [pc : CallPc, kind : Kind, episode : Episodes, targets : Seq(Names),
         todo : Seq(Names), job : Nat, failed : Nat, done : BOOLEAN,
         batch : SUBSET Episodes, attempt : 0..MaxRetries, rows : SUBSET Nat,
         then : {"next", "transient", "permanent"}]

NoCall == [pc |-> "idle", kind |-> "request", episode |-> 1,
           targets |-> <<>>, todo |-> <<>>, job |-> 0, failed |-> 0,
           done |-> FALSE, batch |-> {}, attempt |-> 0, rows |-> {},
           then |-> "next"]

\* Where a call works on the first platform of its list, with a publish job.
OnPlatform == {"check", "publish", "mark", "record", "rows", "write", "failed"}

\* The type invariant: a call that works on a platform has a publish job,
\* and the failures it counts are no more than the platforms behind it.
TypeOK ==
  /\ site \in Sites
  /\ status \in [Episodes -> EpisodeStatus]
  /\ shelf \in [Episodes -> BOOLEAN]
  /\ jobs \in Seq(PublishJob)
  /\ history \in Seq(PublishedEpisode)
  /\ uploads \in [Episodes -> Nat]
  /\ feed \subseteq DOMAIN history
  /\ requests \in [Episodes -> Nat]
  /\ call \in [Workers -> Call]
  /\ \A w \in Workers :
       /\ call[w].pc \in OnPlatform
            => call[w].job \in DOMAIN jobs /\ call[w].todo # <<>>
       /\ call[w].failed + Len(call[w].todo) <= Len(call[w].targets)
       /\ call[w].rows \subseteq DOMAIN history
  /\ stop \in [Operators -> {0} \cup DOMAIN jobs]

\* Episodes whose production is over and that nobody has published.
Init ==
  /\ site \in Sites
  /\ status = [e \in Episodes |-> "completed"]
  /\ shelf = [e \in Episodes |-> FALSE]
  /\ jobs = <<>> /\ history = <<>> /\ feed = {}
  /\ uploads = [e \in Episodes |-> 0]
  /\ requests = [e \in Episodes |-> 0]
  /\ call = [w \in Workers |-> NoCall]
  /\ stop = [o \in Operators |-> 0]

Completed == {e \in Episodes : status[e] = "completed"}

IsEnabled(p) == \E i \in DOMAIN Enabled : Enabled[i] = p

Published(e) == \E i \in DOMAIN history : history[i].episode = e

\* _load_published_episodes: the newest rows of the history that are on rss.
FeedItems ==
  LET items == {i \in DOMAIN history : history[i].platform = "rss"} IN
  {i \in items : Cardinality({k \in items : k > i}) < FeedLimit}

-----------------------------------------------------------------------------
(* How calls move and end.                                                 *)

At(w, pc) == call[w].pc = pc
Become(w, c) == call' = [call EXCEPT ![w] = c]
Goto(w, pc) == Become(w, [call[w] EXCEPT !.pc = pc])
Fault(f) == f \in site.faults

\* publish_episode returns: the sweep goes on to its next episode.
Returned(c) ==
  IF c.kind = "sweep"
  THEN [NoCall EXCEPT !.pc = "sweep", !.kind = "sweep",
                      !.batch = c.batch, !.attempt = c.attempt]
  ELSE NoCall
Return(w) == Become(w, Returned(call[w]))

\* An exception leaves the call, and a sweep with it.  The Celery task of a
\* transient one runs again; a web request answers with an error.
Raised(c, transient) ==
  IF transient /\ c.kind # "retry" /\ c.attempt < MaxRetries
  THEN [NoCall EXCEPT !.pc = "again", !.kind = c.kind, !.episode = c.episode,
                      !.targets = c.targets, !.attempt = c.attempt + 1]
  ELSE NoCall
Raise(w, transient) == Become(w, Raised(call[w], transient))

\* What the platforms and their records are.
Rows == <<jobs, history, uploads, feed>>

SetJob(w, to) == jobs' = [jobs EXCEPT ![call[w].job].status = to]

-----------------------------------------------------------------------------
(* What starts a call.                                                     *)

\* Somebody asks for a call; site.requests bounds all requests together.
Ask(w, e, record) ==
  /\ w \in site.workers /\ At(w, "idle")
  /\ FoldFunction(+, 0, requests) < site.requests
  /\ requests' = [requests EXCEPT ![e] = @ + 1]
  /\ Become(w, record)
  /\ UNCHANGED <<site, status, shelf, jobs, history, uploads, feed, stop>>

\* The handler of a publish_episode job, for one episode.
Request(w, e, targets) ==
  LET resolved == IF targets = <<>> THEN Enabled ELSE targets IN
  Ask(w, e, [NoCall EXCEPT !.pc = "load", !.kind = "request",
                           !.episode = e, !.targets = resolved])

\* The same from the action "Republish" on a publish job.
Republish(w, j) ==
  /\ site.republish
  /\ Ask(w, jobs[j].episode,
         [NoCall EXCEPT !.pc = "load", !.kind = "republish",
                        !.episode = jobs[j].episode, !.targets = Garbled])

\* retry_publish_job: the job and its episode are read in one query.
RetryPublishJob(w, j) ==
  /\ jobs[j].status = "failed"
  /\ Ask(w, jobs[j].episode,
         [NoCall EXCEPT
            !.pc = IF status[jobs[j].episode] = "failed" THEN "reset" ELSE "load",
            !.kind = "retry", !.episode = jobs[j].episode,
            !.targets = <<jobs[j].platform>>])

\* publish_ready_episodes: one query for the completed episodes.
StartSweep(w) ==
  /\ w \in site.workers /\ At(w, "idle")
  /\ Become(w, [NoCall EXCEPT !.pc = "sweep", !.kind = "sweep",
                              !.batch = Completed])
  /\ UNCHANGED <<site, status, shelf, jobs, history, uploads, feed, requests, stop>>

\* Celery delivers the task of a transient failure again.
Rerun(w) ==
  /\ At(w, "again")
  /\ Become(w, IF call[w].kind = "sweep"
               THEN [call[w] EXCEPT !.pc = "sweep", !.batch = Completed]
               ELSE [call[w] EXCEPT !.pc = "load"])
  /\ UNCHANGED <<site, status, shelf, jobs, history, uploads, feed, requests, stop>>

-----------------------------------------------------------------------------
(* The sweep.                                                              *)

\* Mutant: any completed episode with audio is taken.
PassOverSilent(e) == site.audio[e] = "none"

\* An episode without final audio, or with any history, is passed over.
PassOver(e) == site.audio[e] = "none" \/ Published(e)

\* The sweep's episodes come newest first.
Newest(batch) == {e \in batch : \A f \in batch : e <= f}

\* Mutant: an episode that is passed over ends the sweep.
SweepNextOrStop(w) ==
  /\ At(w, "sweep")
  /\ \E e \in Newest(call[w].batch) :
       Become(w, IF PassOver(e) THEN NoCall
                 ELSE [call[w] EXCEPT !.batch = @ \ {e}, !.pc = "load",
                                      !.episode = e, !.targets = Enabled])
  /\ UNCHANGED <<site, status, shelf, requests, stop>> /\ UNCHANGED Rows

SweepNext(w) ==
  /\ At(w, "sweep")
  /\ \E e \in Newest(call[w].batch) :
       Become(w, IF PassOver(e)
                 THEN [call[w] EXCEPT !.batch = @ \ {e}]
                 ELSE [call[w] EXCEPT !.batch = @ \ {e}, !.pc = "load",
                                      !.episode = e, !.targets = Enabled])
  /\ UNCHANGED <<site, status, shelf, requests, stop>> /\ UNCHANGED Rows

SweepDone(w) ==
  /\ At(w, "sweep") /\ call[w].batch = {}
  /\ Become(w, NoCall)
  /\ UNCHANGED <<site, status, shelf, requests, stop>> /\ UNCHANGED Rows

-----------------------------------------------------------------------------
(* publish_episode.                                                        *)

SetStatus(w, to) == status' = [status EXCEPT ![call[w].episode] = to]

\* retry_publish_job opens a failed episode again before it publishes it.
ResetEpisode(w) ==
  /\ At(w, "reset")
  /\ SetStatus(w, "completed")
  /\ Goto(w, "load")
  /\ UNCHANGED <<site, shelf, requests, stop>> /\ UNCHANGED Rows

\* The episode is loaded and validated: its status and its final audio.
Load(w) ==
  LET e == call[w].episode IN
  /\ At(w, "load")
  /\ IF status[e] \in Ready /\ site.audio[e] = "ready"
     THEN Goto(w, "begin")
     ELSE Raise(w, FALSE)
  /\ UNCHANGED <<site, status, shelf, requests, stop>> /\ UNCHANGED Rows

Begin(w) ==
  /\ At(w, "begin")
  /\ SetStatus(w, "publishing")
  /\ Become(w, [call[w] EXCEPT !.pc = "next", !.todo = call[w].targets])
  /\ UNCHANGED <<site, shelf, requests, stop>> /\ UNCHANGED Rows

\* _create_publish_job, outside the try: a platform that is unknown or
\* disabled raises out of publish_episode.
CreateJob(w) ==
  LET p == Head(call[w].todo) IN
  /\ At(w, "next") /\ call[w].todo # <<>>
  /\ IF IsEnabled(p)
     THEN /\ jobs' = Append(jobs, [episode |-> call[w].episode,
                                   platform |-> p, status |-> "pending"])
          /\ Become(w, [call[w] EXCEPT !.pc = "check", !.job = Len(jobs) + 1])
     ELSE Raise(w, FALSE) /\ UNCHANGED jobs
  /\ UNCHANGED <<site, status, shelf, history, uploads, feed, requests, stop>>

Platform(w) == jobs[call[w].job].platform

\* The platform is checked, and its job marked IN_PROGRESS whatever an
\* operator has made of it.
MarkRunning(w) ==
  /\ At(w, "check")
  /\ SetJob(w, "in_progress")
  /\ Goto(w, "publish")
  /\ UNCHANGED <<site, status, shelf, history, uploads, feed, requests, stop>>

\* An exception of the platform: the handler will mark the job failed, and
\* then go on with the next platform or raise.
Except(w, then) ==
  /\ Become(w, [call[w] EXCEPT !.pc = "failed", !.then = then])
  /\ UNCHANGED <<site, status, shelf, requests, stop>> /\ UNCHANGED Rows

\* PublishValidationError, before or by publisher.publish.
Refused(w) ==
  /\ Fault("refuse") /\ call[w].pc \in {"check", "publish"}
  /\ Except(w, "next")

\* PublisherUnavailableError.
Unavailable(w) == Fault("down") /\ At(w, "check") /\ Except(w, "transient")

\* YouTubePublishError: no video has been made.
UploadFails(w) ==
  /\ Fault("upload") /\ At(w, "publish") /\ Platform(w) = "youtube"
  /\ Except(w, "permanent")

\* publisher.publish.  For rss it only prepares the item of the feed.
Publish(w) ==
  /\ At(w, "publish")
  /\ uploads' = IF Platform(w) = "youtube"
                THEN [uploads EXCEPT ![call[w].episode] = @ + 1] ELSE uploads
  /\ Goto(w, "mark")
  /\ UNCHANGED <<site, status, shelf, jobs, history, feed, requests, stop>>

\* Mutant: a job that was cancelled meanwhile is left alone.
MarkSucceededUnlessCancelled(w) ==
  /\ At(w, "mark")
  /\ IF jobs[call[w].job].status = "failed"
     THEN Become(w, [call[w] EXCEPT !.pc = "next", !.todo = Tail(@)])
          /\ UNCHANGED jobs
     ELSE SetJob(w, "completed") /\ Goto(w, "record")
  /\ UNCHANGED <<site, status, shelf, history, uploads, feed, requests, stop>>

MarkSucceeded(w) ==
  /\ At(w, "mark")
  /\ SetJob(w, "completed")
  /\ Goto(w, "record")
  /\ UNCHANGED <<site, status, shelf, history, uploads, feed, requests, stop>>

\* The next platform.
Succeed(c) == [c EXCEPT !.pc = "next", !.todo = Tail(@), !.done = TRUE,
                        !.job = 0, !.rows = {}]

\* Mutant: a retry does not write the feed.
RecordQuietRetry(w) ==
  /\ At(w, "record")
  /\ history' = Append(history, [episode |-> call[w].episode,
                                 platform |-> Platform(w)])
  /\ Become(w, IF Platform(w) = "rss" /\ call[w].kind # "retry"
               THEN [call[w] EXCEPT !.pc = "rows"] ELSE Succeed(call[w]))
  /\ UNCHANGED <<site, status, shelf, jobs, uploads, feed, requests, stop>>

\* _create_published_episode.
Record(w) ==
  /\ At(w, "record")
  /\ history' = Append(history, [episode |-> call[w].episode,
                                 platform |-> Platform(w)])
  /\ Become(w, IF Platform(w) = "rss"
               THEN [call[w] EXCEPT !.pc = "rows"] ELSE Succeed(call[w]))
  /\ UNCHANGED <<site, status, shelf, jobs, uploads, feed, requests, stop>>

\* write_feed reads the history, builds the text and writes the file.
LoadRows(w) ==
  /\ At(w, "rows")
  /\ Become(w, [call[w] EXCEPT !.pc = "write", !.rows = FeedItems])
  /\ UNCHANGED <<site, status, shelf, requests, stop>> /\ UNCHANGED Rows

\* FeedGenerationError, a PublishError, for a job that has just completed.
FeedFails(w) == Fault("feed") /\ At(w, "rows") /\ Except(w, "permanent")

WriteFeed(w) ==
  /\ At(w, "write")
  /\ feed' = call[w].rows
  /\ Become(w, Succeed(call[w]))
  /\ UNCHANGED <<site, status, shelf, jobs, history, uploads, requests, stop>>

\* OSError: nothing here catches it.
DiskFails(w) ==
  /\ Fault("disk") /\ At(w, "write")
  /\ Raise(w, FALSE)
  /\ UNCHANGED <<site, status, shelf, requests, stop>> /\ UNCHANGED Rows

\* Mutant: the failure is counted and the platform tried once more.
MarkFailedAgain(w) ==
  /\ At(w, "failed")
  /\ SetJob(w, "failed")
  /\ IF call[w].then = "next"
     THEN Become(w, [call[w] EXCEPT !.pc = "next", !.failed = @ + 1,
                                    !.job = 0])
     ELSE Raise(w, call[w].then = "transient")
  /\ UNCHANGED <<site, status, shelf, history, uploads, feed, requests, stop>>

\* Mutant: only a job that was running is marked failed.
MarkFailedIfRunning(w) ==
  /\ At(w, "failed")
  /\ IF jobs[call[w].job].status = "in_progress"
     THEN SetJob(w, "failed") ELSE UNCHANGED jobs
  /\ IF call[w].then = "next"
     THEN Become(w, [call[w] EXCEPT !.pc = "next", !.todo = Tail(@),
                                    !.failed = @ + 1, !.job = 0])
     ELSE Raise(w, call[w].then = "transient")
  /\ UNCHANGED <<site, status, shelf, history, uploads, feed, requests, stop>>

\* The except clauses: mark the job failed, and go on or raise.
MarkFailed(w) ==
  /\ At(w, "failed")
  /\ SetJob(w, "failed")
  /\ IF call[w].then = "next"
     THEN Become(w, [call[w] EXCEPT !.pc = "next", !.todo = Tail(@),
                                    !.failed = @ + 1, !.job = 0])
     ELSE Raise(w, call[w].then = "transient")
  /\ UNCHANGED <<site, status, shelf, history, uploads, feed, requests, stop>>

\* Mutant: the shelf does not look at what has failed.
FinishOnShelf(w) ==
  LET c == call[w] IN
  /\ At(w, "next") /\ c.todo = <<>>
  /\ shelf' = [shelf EXCEPT ![c.episode] = TRUE]
  /\ \/ c.failed = Len(c.targets) /\ SetStatus(w, "failed") /\ Raise(w, FALSE)
     \/ c.failed = 0 /\ SetStatus(w, "completed") /\ Return(w)
     \/ c.failed \in 1..Len(c.targets) - 1 /\ UNCHANGED status /\ Return(w)
  /\ UNCHANGED <<site, requests, stop>> /\ UNCHANGED Rows

\* After the last platform: all, none or some of them failed.
Finish(w) ==
  LET c == call[w]
      e == c.episode
  IN
  /\ At(w, "next") /\ c.todo = <<>>
  /\ \/ /\ c.failed = Len(c.targets)
        /\ SetStatus(w, "failed") /\ UNCHANGED shelf
        /\ Raise(w, FALSE)
     \/ /\ c.failed = 0
        /\ SetStatus(w, "completed")
        /\ shelf' = [shelf EXCEPT ![e] = TRUE]
        /\ Return(w)
     \/ /\ c.failed \in 1..Len(c.targets) - 1 /\ c.done
        /\ UNCHANGED status
        /\ shelf' = [shelf EXCEPT ![e] = TRUE]
        /\ Return(w)
  /\ UNCHANGED <<site, requests, stop>> /\ UNCHANGED Rows

Crash(w) ==
  /\ Fault("crash") /\ ~At(w, "idle")
  /\ Become(w, NoCall)
  /\ UNCHANGED <<site, status, shelf, requests, stop>> /\ UNCHANGED Rows

-----------------------------------------------------------------------------
(* cancel_publish_job.                                                     *)

CancelLoad(o, j) ==
  /\ o \in site.operators /\ stop[o] = 0
  /\ jobs[j].status \in {"pending", "in_progress"}
  /\ stop' = [stop EXCEPT ![o] = j]
  /\ UNCHANGED <<site, status, shelf, requests, call>> /\ UNCHANGED Rows

CancelSave(o) ==
  /\ stop[o] # 0
  /\ jobs' = [jobs EXCEPT ![stop[o]].status = "failed"]
  /\ stop' = [stop EXCEPT ![o] = 0]
  /\ UNCHANGED <<site, status, shelf, history, uploads, feed, requests, call>>

-----------------------------------------------------------------------------

Advance(w) ==
  \/ SweepNext(w) \/ SweepDone(w) \/ ResetEpisode(w) \/ Load(w) \/ Begin(w)
  \/ CreateJob(w) \/ MarkRunning(w) \/ Refused(w) \/ Unavailable(w)
  \/ UploadFails(w) \/ Publish(w) \/ MarkSucceeded(w) \/ Record(w)
  \/ LoadRows(w) \/ FeedFails(w) \/ WriteFeed(w) \/ DiskFails(w)
  \/ MarkFailed(w) \/ Finish(w) \/ Rerun(w)

Start(w) ==
  \/ \E e \in Episodes, targets \in site.targets : Request(w, e, targets)
  \/ \E j \in DOMAIN jobs : Republish(w, j) \/ RetryPublishJob(w, j)

Cancel(o) == CancelSave(o) \/ \E j \in DOMAIN jobs : CancelLoad(o, j)

Next ==
  \/ \E w \in Workers : Start(w) \/ StartSweep(w) \/ Advance(w) \/ Crash(w)
  \/ \E o \in Operators : Cancel(o)

Spec == Init /\ [][Next]_vars

\* A call goes on until it ends, a transient failure is delivered again, and
\* the beat has the sweep made every day.
FairSpec ==
  /\ Spec
  /\ \A w \in Workers : WF_vars(Advance(w)) /\ WF_vars(StartSweep(w))
  /\ \A o \in Operators : WF_vars(CancelSave(o))

-----------------------------------------------------------------------------
(* Properties.                                                             *)

Quiet == /\ \A w \in Workers : At(w, "idle")
         /\ \A o \in Operators : stop[o] = 0

OneWorker == \E w \in Workers : site.workers = {w}

\* What people ask for: platforms that are enabled, and each one once.
AsksForEnabled == \A t \in site.targets : \A i \in DOMAIN t : IsEnabled(t[i])
AsksForEachOnce == \A t \in site.targets : IsInjective(t)

Count(e, p) == Cardinality({i \in DOMAIN history :
  history[i] = [episode |-> e, platform |-> p]})

\* Listeners are shown an episode only if it is on some platform
\* (service.py:116), whatever crashed, was cancelled or overtaken.
ShelfIsTruthful == \A e \in Episodes : shelf[e] => Published(e)

\* Unless a worker died between them, the three records of a publication
\* agree at rest: every video has a history row and every row its video, and
\* no publish job is COMPLETED without a row, also when it was cancelled.
BooksAgree ==
  ~Fault("crash") /\ Quiet =>
    \A e \in Episodes :
      /\ uploads[e] = Count(e, "youtube")
      /\ \A p \in Platforms :
           Cardinality({j \in DOMAIN jobs : /\ jobs[j].episode = e
                                            /\ jobs[j].platform = p
                                            /\ jobs[j].status = "completed"})
             <= Count(e, p)

\* An episode that publishing left PUBLISHING or FAILED has a failed publish
\* job, the only thing from which retry_publish_job can start again; unless
\* people asked for a platform that is not enabled.
Recoverable ==
  /\ site.faults \cap {"crash", "disk"} = {} /\ ~site.republish
  /\ AsksForEnabled
  /\ Quiet
  => \A e \in Episodes : status[e] # "completed" =>
       \E j \in DOMAIN jobs : jobs[j].episode = e /\ jobs[j].status = "failed"

\* With one worker, and a feed that can be generated and written, the file
\* shows the newest publications: cancellations, retries and failures of
\* other platforms never leave it behind the history.
FeedIsCurrent ==
  /\ OneWorker
  /\ site.faults \cap {"crash", "disk", "feed"} = {}
  /\ Quiet
  => feed = FeedItems

\* The sweep publishes an episode at most once; everything beyond that was
\* asked for, and one request publishes at most once per attempt, if its
\* list names a platform once.
BoundedDuplicates ==
  OneWorker /\ AsksForEachOnce =>
    \A e \in Episodes, p \in Platforms :
      Count(e, p) <= 1 + requests[e] * (MaxRetries + 1)

\* At rest the books are right, whatever they show unfinished can be retried,
\* the feed shows what they say, and nobody has published more than was asked.
BooksAreRight == BooksAgree /\ Recoverable /\ FeedIsCurrent /\ BoundedDuplicates

\* "Publish completed episodes with final audio and no publish history"
\* (service.py:140): with workers that do not die, every ready episode is
\* taken up, whatever happens to the episodes before it in the sweep.
ReadyIsTakenUp ==
  \A e \in Episodes :
    /\ ~Fault("crash") /\ site.audio[e] = "ready"
    /\ status[e] = "completed" /\ ~Published(e)
    ~> ~(status[e] = "completed" /\ ~Published(e))

=============================================================================

---------------------------- MODULE EpisodeAudio ----------------------------
(***************************************************************************)
(* From a ready script to the audio of its episode: AudioGenerationService *)
(* speaks the script line by line, AudioPipelineService stitches what is   *)
(* spoken into the final MP3 and one MP3 per article.                      *)
(*                                                                         *)
(* The rows of table audio_audioasset are transactional: those of a        *)
(* pipeline run appear together, when it commits.  The files are not: a    *)
(* file has its content as soon as it is written, whatever becomes of the  *)
(* transaction, and every take of a line, every run of the pipeline writes *)
(* to the same path.                                                       *)
(***************************************************************************)
EXTENDS Integers, SequencesExt, Arranging

CONSTANTS
  NumEpisodes,  \* episodes                                        (bound)
  MaxLines,     \* lines of a script                               (bound)
  Articles,     \* what lines are about
  Workers,      \* Celery workers of the queues tts and audio
  Sites         \* the surroundings to consider

Episodes == 1..NumEpisodes

\* "outage": the TTS provider is down.  "tts": it fails on a line.  "ffmpeg":
\* stitching fails.  "crash": a worker dies.  "upload": the listeners' shelf
\* cannot be reached.
FaultKinds == {"outage", "tts", "ffmpeg", "crash", "upload"}

\* The article of a line that is about none: intro, outro, manual scripts.
NoArticle == 0

\* A site: the scripts that will be written, in the order of their creation,
\* each with its episode and the articles of its lines, the processes at work,
\* what may fail and how often, and how often people ask for audio (bounds).
ASSUME AudioAssumption ==
  /\ NumEpisodes \in Nat \ {0}
  /\ MaxLines \in Nat \ {0}
  /\ NoArticle \notin Articles /\ IsFiniteSet(Articles)
  /\ \A s \in Sites :
       /\ s.scripts \in Seq([episode : Episodes,
                             lines : Seq(Articles \cup {NoArticle})])
       /\ \A n \in DOMAIN s.scripts : Len(s.scripts[n].lines) \in 1..MaxLines
       /\ s.workers \subseteq Workers
       /\ s.faults \subseteq FaultKinds
       /\ s.faultLimit \in Nat /\ s.requests \in Nat

VARIABLES
  site,      \* the surroundings, chosen at the start
  ready,     \* the scripts that are READY or APPROVED
  status,    \* episode -> its status
  rows,      \* the READY rows of table audio_audioasset, in creation order
  disk,      \* file -> what is heard when it is played; <<>>: no such file
  call,      \* worker -> the job it executes
  faults,    \* faults so far
  requests   \* requests so far

audioVars == <<site, ready, status, rows, disk, call, faults, requests>>

-----------------------------------------------------------------------------
(* Scripts, rows and files.                                                *)

EpisodeStatus == {"draft", "generating_audio", "completed", "failed"}

Scripts == DOMAIN site.scripts
EpisodeOf(s) == site.scripts[s].episode
ArticleOf(s, n) == site.scripts[s].lines[n]

\* What is heard: lines of scripts, and what ffmpeg leaves when it fails.
Lines(s) == [n \in DOMAIN site.scripts[s].lines |-> <<s, n>>]
Noise == <<0, 0>>

\* One row: the take of a line, the final MP3, or the MP3 of an article.
AudioKind == {"segment", "final", "chapter"}
AudioAsset == [kind : AudioKind, episode : Episodes, script : Nat,
               pos : Nat, article : Articles \cup {NoArticle}]
SegmentRow(s, n) == [kind |-> "segment", episode |-> EpisodeOf(s),
                     script |-> s, pos |-> n, article |-> ArticleOf(s, n)]
FinalRow(e) == [kind |-> "final", episode |-> e, script |-> 0, pos |-> 0,
                article |-> NoArticle]
ChapterRow(e, n, a) == [kind |-> "chapter", episode |-> e, script |-> 0,
                        pos |-> n, article |-> a]

\* segment_<pos>.wav, episode_final.mp3 and chapter_<pos>.mp3 of an episode.
Files == Episodes \X ({<<"final", 0>>} \cup ({"segment"} \X (1..MaxLines))
                      \cup ({"chapter"} \X (1..Cardinality(Articles))))
File(row) == <<row.episode, <<row.kind, row.pos>>>>

\* The rows of a kind by sequence or path (which are in the same order up to
\* chapter_99.mp3).  The database leaves the order of equal ones open: in the
\* order of their creation, or the other way round.
RowsOf(kind, e) == {i \in DOMAIN rows : rows[i].kind = kind /\ rows[i].episode = e}
OldestFirst(i, j) == rows[i].pos < rows[j].pos \/ (rows[i].pos = rows[j].pos /\ i < j)
NewestFirst(i, j) == rows[i].pos < rows[j].pos \/ (rows[i].pos = rows[j].pos /\ i > j)
InOrder(kind, e) ==
  LET ids == RowsOf(kind, e)
  IN {Arranged(ids, R) : R \in {{p \in ids \X ids : OldestFirst(p[1], p[2])},
                                {p \in ids \X ids : NewestFirst(p[1], p[2])}}}

\* The takes of an episode's lines.
OrdersOfTakes(e) ==
  {[k \in DOMAIN ids |-> rows[ids[k]]] : ids \in InOrder("segment", e)}

Sound(takes) == FlattenSeq([i \in DOMAIN takes |-> disk[File(takes[i])]])

\* The articles of the takes in the order in which they are first heard, and
\* what is heard of one of them.
AllTakes(takes, a) == takes   \* mutant of About
About(takes, a) == Kept(takes, {k \in DOMAIN takes : takes[k].article = a})
Chapters(takes) ==
  LET articles == [k \in DOMAIN takes |-> takes[k].article]
  IN Kept(articles, {k \in DOMAIN articles :
                       /\ articles[k] # NoArticle
                       /\ \A j \in 1..(k - 1) : articles[j] # articles[k]})

HasFinal(e) == \E i \in DOMAIN rows : rows[i] = FinalRow(e)
Awaiting == {s \in ready : ~HasFinal(EpisodeOf(s))}
Newest(S) == CHOOSE s \in S : \A t \in S : t <= s

-----------------------------------------------------------------------------
(* Jobs.                                                                   *)

Op == {"generate", "scheduled", "pipeline"}
CallPc == {"idle", "again", "health", "speak", "save", "load", "stitch",
           "chapters", "chapter", "commit"}

\* next: the line or chapter at hand.  takes: the rows loaded.  made: the rows
\* the transaction has created.  alone: no other job has worked on the episode
\* since this one began (observation only).
Call == [pc : CallPc, op : Op, script : Nat, episode : Episodes, next : Nat,
         takes : Seq(AudioAsset), made : Seq(AudioAsset), alone : BOOLEAN]
NoCall == [pc |-> "idle", op |-> "generate", script |-> 0, episode |-> 1,
           next |-> 0, takes |-> <<>>, made |-> <<>>, alone |-> TRUE]

AtWork(w) == call[w].pc \notin {"idle", "again"}

Enter(w, c) ==
  LET met == {x \in Workers \ {w} : AtWork(x) /\ call[x].episode = c.episode}
  IN call' = [x \in Workers |-> CASE x = w -> [c EXCEPT !.alone = (met = {})]
                                  [] x \in met -> [call[x] EXCEPT !.alone = FALSE]
                                  [] OTHER -> call[x]]
Goto(w, c) == call' = [call EXCEPT ![w] = c]
Leave(w) == Goto(w, NoCall)

MayFail(kind) == kind \in site.faults /\ faults < site.faultLimit
Fault(kind) == MayFail(kind) /\ faults' = faults + 1

AudioInit ==
  /\ site \in Sites
  /\ ready = {}
  /\ status = [e \in Episodes |-> "draft"]
  /\ rows = <<>>
  /\ disk = [f \in Files |-> <<>>]
  /\ call = [w \in Workers |-> NoCall]
  /\ faults = 0
  /\ requests = 0

\* A script is generated or entered by hand; its episode is idle again.
ScriptReady(s) ==
  /\ ready' = ready \cup {s}
  /\ status' = [status EXCEPT ![EpisodeOf(s)] = "draft"]
  /\ UNCHANGED <<site, rows, disk, call, faults, requests>>

-----------------------------------------------------------------------------
(* GenerateAudioHandler: which script, and whether it can start.           *)

\* generate_for_script up to the health check.
Begin(w, op, s) ==
  /\ status' = [status EXCEPT ![EpisodeOf(s)] = "generating_audio"]
  /\ Enter(w, [NoCall EXCEPT !.pc = "health", !.op = op, !.script = s,
                             !.episode = EpisodeOf(s)])
  /\ UNCHANGED <<site, ready, rows, disk, faults>>

\* People choose a ready script, or an episode, whose active or newest ready
\* script is taken: any ready script.
Generate(w) ==
  /\ call[w].pc = "idle" /\ requests < site.requests
  /\ \E s \in ready : Begin(w, "generate", s)
  /\ requests' = requests + 1

\* Every day: the newest ready script whose episode has no final audio.
Scheduled(w) ==
  /\ call[w].pc = "idle" /\ Awaiting # {}
  /\ Begin(w, "scheduled", Newest(Awaiting))
  /\ UNCHANGED requests

\* Celery runs a job again after an outage: its script is resolved anew.
Rerun(w) ==
  /\ call[w].pc = "again"
  /\ \/ /\ call[w].op = "generate"
        /\ \E s \in ready : /\ EpisodeOf(s) = call[w].episode
                            /\ Begin(w, "generate", s)
     \/ /\ call[w].op = "scheduled" /\ Awaiting # {}
        /\ Begin(w, "scheduled", Newest(Awaiting))
     \/ /\ call[w].op = "scheduled" /\ Awaiting = {}
        /\ Leave(w)
        /\ UNCHANGED <<site, ready, status, rows, disk, faults>>
  /\ UNCHANGED requests

\* ProviderUnavailableException: the job is run again, until its attempts are
\* used up.  The episode keeps its status.
Unavailable(w) ==
  /\ call[w].pc = "health"
  /\ Fault("outage")
  /\ \/ Goto(w, [call[w] EXCEPT !.pc = "again"])
     \/ Leave(w)
  /\ UNCHANGED <<site, ready, status, rows, disk, requests>>

Healthy(w) ==
  /\ call[w].pc = "health"
  /\ Goto(w, [call[w] EXCEPT !.pc = "speak", !.next = 1])
  /\ UNCHANGED <<site, ready, status, rows, disk, faults, requests>>

-----------------------------------------------------------------------------
(* _generate_segment: one transaction per line.                            *)

ThisLine(w) == SegmentRow(call[w].script, call[w].next)
AllButLast(w) == call[w].next < Len(Lines(call[w].script))   \* mutant of LinesLeft
LinesLeft(w) == call[w].next <= Len(Lines(call[w].script))

\* The provider speaks the line and save_segment copies its file.
Speak(w) ==
  /\ call[w].pc = "speak" /\ LinesLeft(w)
  /\ disk' = [disk EXCEPT ![File(ThisLine(w))] = <<Lines(call[w].script)[call[w].next]>>]
  /\ Goto(w, [call[w] EXCEPT !.pc = "save"])
  /\ UNCHANGED <<site, ready, status, rows, faults, requests>>

\* The transaction of the line commits.
Save(w) ==
  /\ call[w].pc = "save"
  /\ rows' = Append(rows, ThisLine(w))
  /\ Goto(w, [call[w] EXCEPT !.pc = "speak", !.next = @ + 1])
  /\ UNCHANGED <<site, ready, status, disk, faults, requests>>

\* AudioGenerationException ends the job; it takes the row, FAILED by now,
\* with it.  The lines before stay, and the episode is left as it is.
SpeakFails(w) ==
  /\ call[w].pc = "speak" /\ LinesLeft(w)
  /\ Fault("tts")
  /\ Leave(w)
  /\ UNCHANGED <<site, ready, status, rows, disk, requests>>

\* sync_episode_idle_status looks at its own copy of the episode.  Scheduled
\* jobs go on with the pipeline.
EndSpeech(w) ==
  /\ call[w].pc = "speak" /\ ~LinesLeft(w)
  /\ status' = [status EXCEPT ![call[w].episode] = "draft"]
  /\ IF call[w].op = "scheduled" THEN Goto(w, [call[w] EXCEPT !.pc = "load"])
                                 ELSE Leave(w)
  /\ UNCHANGED <<site, ready, rows, disk, faults, requests>>

-----------------------------------------------------------------------------
(* process_episode: one transaction, and files.                            *)

\* RunAudioPipelineHandler, for any episode at any time.
RunPipeline(w) ==
  /\ call[w].pc = "idle" /\ requests < site.requests
  /\ requests' = requests + 1
  /\ \E e \in Episodes :
       Enter(w, [NoCall EXCEPT !.pc = "load", !.op = "pipeline", !.episode = e])
  /\ UNCHANGED <<site, ready, status, rows, disk, faults>>

\* Mutant of Load: no takes are as good as any.
LoadAnything(w) ==
  /\ call[w].pc = "load"
  /\ \E takes \in OrdersOfTakes(call[w].episode) :
       Goto(w, [call[w] EXCEPT !.pc = "stitch", !.takes = takes])
  /\ UNCHANGED <<site, ready, status, rows, disk, faults, requests>>

Load(w) ==
  /\ call[w].pc = "load"
  /\ \E takes \in OrdersOfTakes(call[w].episode) :
       /\ takes # <<>>
       /\ Goto(w, [call[w] EXCEPT !.pc = "stitch", !.takes = takes])
  /\ UNCHANGED <<site, ready, status, rows, disk, faults, requests>>

\* The rollback leaves the rows, not the files, and the episode is FAILED.
Fail(w) ==
  /\ status' = [status EXCEPT ![call[w].episode] = "failed"]
  /\ Leave(w)
  /\ UNCHANGED <<site, ready, rows, requests>>

NothingToStitch(w) ==
  /\ call[w].pc = "load"
  /\ RowsOf("segment", call[w].episode) = {}
  /\ Fail(w)
  /\ UNCHANGED <<disk, faults>>

\* Normalization, concatenation, export, create_final_asset.
Stitch(w) ==
  /\ call[w].pc = "stitch"
  /\ LET final == FinalRow(call[w].episode)
     IN /\ disk' = [disk EXCEPT ![File(final)] = Sound(call[w].takes)]
        /\ Goto(w, [call[w] EXCEPT !.pc = "chapters", !.made = <<final>>])
  /\ UNCHANGED <<site, ready, status, rows, faults, requests>>

\* build_chapters loads the takes once more.
BuildChapters(w) ==
  /\ call[w].pc = "chapters"
  /\ \E takes \in OrdersOfTakes(call[w].episode) :
       Goto(w, [call[w] EXCEPT
                  !.pc = IF Chapters(takes) = <<>> THEN "commit" ELSE "chapter",
                  !.takes = takes, !.next = 1])
  /\ UNCHANGED <<site, ready, status, rows, disk, faults, requests>>

ThisChapter(w) ==
  ChapterRow(call[w].episode, call[w].next, Chapters(call[w].takes)[call[w].next])

\* A chapter's MP3 is written to the file of row, and then its own row is made.
MakeChapter(w, chapter, row) ==
  /\ disk' = [disk EXCEPT ![File(row)] = Sound(About(call[w].takes, chapter.article))]
  /\ Goto(w, [call[w] EXCEPT
                !.pc = IF call[w].next = Len(Chapters(call[w].takes)) THEN "commit" ELSE @,
                !.next = @ + 1,
                !.made = Append(@, chapter)])
  /\ UNCHANGED <<site, ready, status, rows, faults, requests>>

\* Mutant of BuildChapter: the file of every chapter is chapter_1.mp3.
BuildFirstChapter(w) ==
  /\ call[w].pc = "chapter"
  /\ \E chapter \in {ThisChapter(w)} : MakeChapter(w, chapter, [chapter EXCEPT !.pos = 1])

BuildChapter(w) ==
  /\ call[w].pc = "chapter"
  /\ \E chapter \in {ThisChapter(w)} : MakeChapter(w, chapter, chapter)

\* ffmpeg fails: the file it was writing may be spoilt.
StitchFails(w) ==
  /\ \/ /\ call[w].pc = "stitch"
        /\ disk' = [disk EXCEPT ![File(FinalRow(call[w].episode))] = <<Noise>>]
     \/ /\ call[w].pc = "chapter"
        /\ disk' = [disk EXCEPT ![File(ThisChapter(w))] = <<Noise>>]
     \/ call[w].pc \in {"stitch", "chapter"} /\ UNCHANGED disk
  /\ Fault("ffmpeg")
  /\ Fail(w)

Commit(w) ==
  /\ call[w].pc = "commit"
  /\ rows' = rows \o call[w].made
  /\ status' = [status EXCEPT ![call[w].episode] = "completed"]
  /\ Leave(w)
  /\ UNCHANGED <<site, ready, disk, faults, requests>>

\* The worker dies: its transaction is rolled back, nobody sets a status.
Crash(w) ==
  /\ AtWork(w)
  /\ Fault("crash")
  /\ Leave(w)
  /\ UNCHANGED <<site, ready, status, rows, disk, requests>>

-----------------------------------------------------------------------------
\* What a worker does of its own accord.
Work(w) ==
  \/ Scheduled(w) \/ Rerun(w) \/ Healthy(w)
  \/ Speak(w) \/ Save(w) \/ EndSpeech(w)
  \/ Load(w) \/ NothingToStitch(w) \/ Stitch(w) \/ BuildChapters(w)
  \/ BuildChapter(w) \/ Commit(w)

Worker(w) ==
  \/ Work(w) \/ Generate(w) \/ RunPipeline(w)
  \/ Unavailable(w) \/ SpeakFails(w) \/ StitchFails(w) \/ Crash(w)

AudioNext ==
  \/ \E s \in Scripts \ ready : ScriptReady(s)
  \/ \E w \in site.workers : Worker(w)

AudioSpec == AudioInit /\ [][AudioNext]_audioVars

-----------------------------------------------------------------------------
(* Properties.                                                             *)

\* The type invariant: a transaction that has rows to commit has loaded takes,
\* and a row that is not yet committed belongs to the episode of its job.
AudioTypeOK ==
  /\ site \in Sites
  /\ ready \subseteq Scripts
  /\ status \in [Episodes -> EpisodeStatus]
  /\ rows \in Seq(AudioAsset)
  /\ disk \in [Files -> Seq((Scripts \cup {0}) \X (0..MaxLines))]
  /\ call \in [Workers -> Call]
  /\ \A w \in Workers :
       /\ call[w].pc \in {"stitch", "chapter"} => call[w].takes # <<>>
       /\ \A i \in DOMAIN call[w].made : call[w].made[i].episode = call[w].episode
  /\ faults \in Nat
  /\ requests \in Nat

\* A row that the database shows has its file, whatever crashed or was rolled
\* back: the publishers look for the file of every READY row.
RowsHaveFiles == \A i \in DOMAIN rows : disk[File(rows[i])] # <<>>

\* q is heard in h, from beginning to end but perhaps with other things between.
HeardIn(q, h) ==
  \E at \in [DOMAIN q -> DOMAIN h] :
    /\ \A i \in DOMAIN q : h[at[i]] = q[i]
    /\ \A i, j \in DOMAIN q : i < j => at[i] < at[j]

\* The MP3s that a run over these takes owes to script s: each line once, and
\* one chapter per article, with the lines about it.
Exact(s, final, chapters) ==
  LET about(a) == Kept(Lines(s), {n \in DOMAIN Lines(s) : ArticleOf(s, n) = a})
      articles == {ArticleOf(s, n) : n \in DOMAIN Lines(s)} \ {NoArticle}
  IN /\ disk[File(final)] = Lines(s)
     /\ {c.article : c \in ToSet(chapters)} = articles
     /\ Len(chapters) = Cardinality(articles)
     /\ \A c \in ToSet(chapters) : disk[File(c)] = about(c.article)

\* The daily job delivers the whole script, in order, when no other job has
\* worked on the episode meanwhile, also after failed attempts; and if every
\* line was taken once it delivers exactly the script and its chapters.
ScheduledIsWhole ==
  \A w \in Workers :
    LET c == call[w]
    IN c.pc = "commit" /\ c.op = "scheduled" /\ c.alone =>
         /\ HeardIn(Lines(c.script), disk[File(Head(c.made))])
         /\ Cardinality(RowsOf("segment", c.episode)) = Len(Lines(c.script)) =>
              Exact(c.script, Head(c.made), Tail(c.made))

=============================================================================

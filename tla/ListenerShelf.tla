---------------------------- MODULE ListenerShelf ----------------------------
(***************************************************************************)
(* The listeners' shelf: SupabasePublisher copies the episodes that have a *)
(* final MP3 to the tables and the bucket of the listener application,     *)
(* while jobs of EpisodeAudio write the rows and files it reads.           *)
(*                                                                         *)
(* Every HTTP request is a step of its own; the batch ends at the first    *)
(* one that fails.  Tags and the columns of an episode are left out: they  *)
(* are requests that can fail like the others.                             *)
(***************************************************************************)
EXTENDS EpisodeAudio

CONSTANT Publishers   \* processes that run the batch

VARIABLES
  listed,    \* the episodes in table episodes of the shelf
  chapters,  \* episode -> its rows in table chapters
  bucket,    \* object path -> what is heard when it is played
  batch      \* publisher -> its batch

shelfVars == <<listed, chapters, bucket, batch>>
vars == <<audioVars, shelfVars>>

-----------------------------------------------------------------------------
(* A chapter of the shelf has the id of its audio asset.                   *)

ShelfChapter == [asset : Nat, position : Nat]
ArticleHeard(c) == rows[c.asset].article
ObjectPath(c) == File(rows[c.asset])

BatchPc == {"idle", "pick", "upload", "upsert", "clear", "chapter", "insert"}

\* todo: the episodes still to come.  assets: the chapter rows loaded for
\* this one.  next: the chapter at hand.
Batch == [pc : BatchPc, todo : SUBSET Episodes, episode : Episodes,
          assets : Seq(Nat), next : Nat]
NoBatch == [pc |-> "idle", todo |-> {}, episode |-> 1, assets |-> <<>>,
            next |-> 0]

Init ==
  /\ AudioInit
  /\ listed = {}
  /\ chapters = [e \in Episodes |-> {}]
  /\ bucket = [f \in Files |-> <<>>]
  /\ batch = [p \in Publishers |-> NoBatch]

Set(p, b) == batch' = [batch EXCEPT ![p] = b]

\* Mutant of StartBatch: episodes that are listed are done with.
StartBatchOfNew(p) ==
  /\ batch[p].pc = "idle"
  /\ \E e \in Episodes : HasFinal(e)
  /\ Set(p, [NoBatch EXCEPT !.pc = "pick",
                            !.todo = {e \in Episodes : HasFinal(e)} \ listed])
  /\ UNCHANGED <<listed, chapters, bucket>>

\* publishable_episodes.
StartBatch(p) ==
  /\ batch[p].pc = "idle"
  /\ \E e \in Episodes : HasFinal(e)
  /\ Set(p, [NoBatch EXCEPT !.pc = "pick", !.todo = {e \in Episodes : HasFinal(e)}])
  /\ UNCHANGED <<listed, chapters, bucket>>

PickEpisode(p) ==
  /\ batch[p].pc = "pick"
  /\ \/ \E e \in batch[p].todo :
          Set(p, [NoBatch EXCEPT !.pc = "upload", !.todo = batch[p].todo \ {e},
                                 !.episode = e])
     \/ batch[p].todo = {} /\ Set(p, NoBatch)
  /\ UNCHANGED <<listed, chapters, bucket>>

UploadFinal(p) ==
  /\ batch[p].pc = "upload"
  /\ LET f == File(FinalRow(batch[p].episode))
     IN bucket' = [bucket EXCEPT ![f] = disk[f]]
  /\ Set(p, [batch[p] EXCEPT !.pc = "upsert"])
  /\ UNCHANGED <<listed, chapters>>

UpsertEpisode(p) ==
  /\ batch[p].pc = "upsert"
  /\ listed' = listed \cup {batch[p].episode}
  /\ Set(p, [batch[p] EXCEPT !.pc = "clear"])
  /\ UNCHANGED <<chapters, bucket>>

\* _replace_chapters: the rows go before the files come.
ClearChapters(p) ==
  /\ batch[p].pc = "clear"
  /\ chapters' = [chapters EXCEPT ![batch[p].episode] = {}]
  /\ \E assets \in InOrder("chapter", batch[p].episode) :
       Set(p, [batch[p] EXCEPT !.pc = IF assets = <<>> THEN "pick" ELSE "chapter",
                               !.assets = assets, !.next = 1])
  /\ UNCHANGED <<listed, bucket>>

UploadChapter(p) ==
  /\ batch[p].pc = "chapter"
  /\ LET f == File(rows[batch[p].assets[batch[p].next]])
     IN bucket' = [bucket EXCEPT ![f] = disk[f]]
  /\ Set(p, [batch[p] EXCEPT
               !.pc = IF batch[p].next = Len(batch[p].assets) THEN "insert" ELSE @,
               !.next = @ + 1])
  /\ UNCHANGED <<listed, chapters>>

\* An upsert by id.
InsertChapters(p) ==
  /\ batch[p].pc = "insert"
  /\ LET new == {[asset |-> batch[p].assets[i], position |-> i] :
                   i \in DOMAIN batch[p].assets}
         kept == {c \in chapters[batch[p].episode] :
                    c.asset \notin ToSet(batch[p].assets)}
     IN chapters' = [chapters EXCEPT ![batch[p].episode] = kept \cup new]
  /\ Set(p, [batch[p] EXCEPT !.pc = "pick"])
  /\ UNCHANGED <<listed, bucket>>

\* A request fails or the publisher dies: the batch is over.
BatchFails(p) ==
  /\ batch[p].pc \notin {"idle", "pick"}
  /\ Fault("upload")
  /\ Set(p, NoBatch)
  /\ UNCHANGED <<listed, chapters, bucket>>

PublishBatch(p) ==
  \/ StartBatch(p) \/ PickEpisode(p) \/ UploadFinal(p) \/ UpsertEpisode(p)
  \/ ClearChapters(p) \/ UploadChapter(p) \/ InsertChapters(p)

-----------------------------------------------------------------------------
Next ==
  \/ AudioNext /\ UNCHANGED shelfVars
  \/ \E p \in Publishers :
       \/ PublishBatch(p) /\ UNCHANGED audioVars
       \/ BatchFails(p) /\ UNCHANGED <<site, ready, status, rows, disk, call, requests>>

Spec == Init /\ [][Next]_vars

\* Beat starts the jobs of the day every day, and one of the workers and one
\* of the publishers goes on with its job.  Nobody has to ask for audio, and
\* nothing has to fail.
Fairness ==
  /\ WF_vars(\E w \in site.workers : Work(w) /\ UNCHANGED shelfVars)
  /\ WF_vars(\E p \in Publishers : PublishBatch(p) /\ UNCHANGED audioVars)

FairSpec == Spec /\ Fairness

-----------------------------------------------------------------------------
(* Properties.                                                             *)

OneVersion(e) == Cardinality({s \in Scripts : EpisodeOf(s) = e}) = 1

TypeOK ==
  /\ AudioTypeOK
  /\ listed \subseteq Episodes
  /\ chapters \in [Episodes -> SUBSET ShelfChapter]
  /\ bucket \in [Files -> Seq((Scripts \cup {0}) \X (0..MaxLines))]
  /\ batch \in [Publishers -> Batch]

\* Rows, files and scripts agree, in the rows people read and in the MP3s a
\* daily job is about to deliver.
AudioIsWhole == TypeOK /\ RowsHaveFiles /\ ScheduledIsWhole

\* What listeners can choose can be played, and a chapter plays its own
\* article (or what a failed ffmpeg left of it), as long as the episode has
\* had one version of its script: a batch reads files that jobs overwrite.
ChaptersPlayTheirArticle ==
  /\ \A e \in listed : bucket[File(FinalRow(e))] # <<>>
  /\ \A e \in Episodes : \A c \in chapters[e] :
       /\ bucket[ObjectPath(c)] # <<>>
       /\ OneVersion(e) =>
            \A i \in DOMAIN bucket[ObjectPath(c)] :
              LET line == bucket[ObjectPath(c)][i]
              IN line # Noise => ArticleOf(line[1], line[2]) = ArticleHeard(c)

\* The shelf shows what the rows and the files say.
ShelfAgrees(e) ==
  /\ e \in listed
  /\ bucket[File(FinalRow(e))] = disk[File(FinalRow(e))]
  /\ {c.asset : c \in chapters[e]} = RowsOf("chapter", e)
  /\ \A c \in chapters[e] : bucket[ObjectPath(c)] = disk[ObjectPath(c)]

\* Once the faults have ended: every episode with a ready script gets its final
\* MP3, and again and again the shelf agrees with it, whatever batch failed
\* half-way or ran while the files changed.
ReadyIsHeard ==
  []<>(\A e \in Episodes : (\E s \in ready : EpisodeOf(s) = e) =>
         HasFinal(e) /\ ShelfAgrees(e))

=============================================================================

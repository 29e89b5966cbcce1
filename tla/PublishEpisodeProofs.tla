------------------------ MODULE PublishEpisodeProofs ------------------------
(***************************************************************************)
(* What holds of PublishEpisode for every number of episodes, workers and  *)
(* operators, every site and every retry limit: its types, that listeners  *)
(* are shown only what has been published, and that the books are right.   *)
(***************************************************************************)
EXTENDS PublishEpisode, FiniteSetTheorems, TLAPS

USE DEF Episodes, Platforms, At, Become, Goto

\* A call that has not saved PUBLISHING yet, or is over.
Unbegun == {"idle", "sweep", "reset", "load", "begin", "again"}

\* What is known of a call c when the publish jobs are js and the history is
\* hs.  It counts no failure before it begins; a call that has neither
\* failed nor succeeded on a platform still has all its platforms, and it
\* has some: so when it is through without a failure it succeeded somewhere.
\* A success is a row of the history.
Sound(c, js, hs) ==
  /\ c.pc \in OnPlatform => c.job \in 1..Len(js) /\ c.todo # <<>>
  /\ c.failed + Len(c.todo) <= Len(c.targets)
  /\ \A i \in c.rows : i \in 1..Len(hs)
  /\ c.pc \in {"idle", "sweep"} \/ c.targets # <<>>
  /\ c.pc \in Unbegun => c.failed = 0 /\ ~c.done /\ c.todo = <<>>
  /\ c.pc \notin Unbegun /\ c.failed = 0 /\ ~c.done => c.todo = c.targets
  /\ c.done \/ c.pc \in {"rows", "write"} =>
       \E i \in 1..Len(hs) : hs[i].episode = c.episode

\* The inductive invariant.
IInv ==
  /\ TypeOK
  /\ \A w \in Workers : Sound(call[w], jobs, history)
  /\ ShelfIsTruthful

\* The publish jobs and the history only grow; rows of the history stay.
Grown(js, hs, js2, hs2) ==
  /\ js2 \in Seq(PublishJob) /\ hs2 \in Seq(PublishedEpisode)
  /\ Len(js) <= Len(js2) /\ Len(hs) <= Len(hs2)
  /\ \A i \in 1..Len(hs) : hs2[i] = hs[i]

\* A worker that has no call is well typed and sound.
LEMMA NoCallSound ==
  ASSUME NEW js, NEW hs
  PROVE  NoCall \in Call /\ Sound(NoCall, js, hs)
<1>1. 1 \in Episodes /\ 0 \in 0..MaxRetries BY PublishAssumption
<1>2. <<>> \in Seq(Names) /\ Len(<<>>) = 0
  OBVIOUS
<1>3. NoCall \in Call BY <1>1, <1>2 DEF NoCall, Call, CallPc, Kind
<1>4. QED BY <1>2, <1>3 DEF NoCall, Sound, OnPlatform, Unbegun

\* What is known of a call stays known when the tables grow.
LEMMA SoundStays ==
  ASSUME NEW js \in Seq(PublishJob), NEW hs \in Seq(PublishedEpisode),
         NEW js2, NEW hs2, Grown(js, hs, js2, hs2),
         NEW c \in Call, Sound(c, js, hs)
  PROVE  Sound(c, js2, hs2)
<1>1. \A i \in 1..Len(js) : i \in 1..Len(js2) BY DEF Grown
<1>2. \A i \in 1..Len(hs) : i \in 1..Len(hs2) /\ hs2[i] = hs[i] BY DEF Grown
<1>3. c.pc \in OnPlatform => c.job \in 1..Len(js2) /\ c.todo # <<>> BY <1>1 DEF Sound
<1>4. \A i \in c.rows : i \in 1..Len(hs2) BY <1>2 DEF Sound
<1>5. c.done \/ c.pc \in {"rows", "write"} =>
        \E i \in 1..Len(hs2) : hs2[i].episode = c.episode
  BY <1>2 DEF Sound
<1>6. QED BY <1>3, <1>4, <1>5 DEF Sound

\* One call moves to c; the rest of the state keeps its types.
LEMMA CallMoves ==
  ASSUME IInv, NEW w \in Workers, NEW c \in Call, Become(w, c),
         Grown(jobs, history, jobs', history'), Sound(c, jobs', history'),
         site' = site, status' \in [Episodes -> EpisodeStatus],
         shelf' \in [Episodes -> BOOLEAN],
         uploads' \in [Episodes -> Nat], feed' \subseteq 1..Len(history'),
         requests' \in [Episodes -> Nat], stop' = stop,
         \A e \in Episodes : shelf'[e] => shelf[e] \/ Published(e)'
  PROVE  IInv'
<1>1. /\ jobs \in Seq(PublishJob) /\ history \in Seq(PublishedEpisode)
      /\ call \in [Workers -> Call]
      /\ \A v \in Workers : Sound(call[v], jobs, history)
  BY DEF IInv, TypeOK
<1>2. /\ jobs' \in Seq(PublishJob) /\ history' \in Seq(PublishedEpisode)
      /\ DOMAIN jobs' = 1..Len(jobs') /\ DOMAIN history' = 1..Len(history')
  BY DEF Grown
<1>3. call' \in [Workers -> Call] BY <1>1
<1>4. ASSUME NEW v \in Workers PROVE Sound(call'[v], jobs', history')
  <2>1. CASE v = w BY <1>1, <2>1
  <2>2. CASE v # w
    <3>1. call'[v] = call[v] /\ call[v] \in Call BY <1>1, <2>2
    <3>2. QED BY <1>1, <3>1, SoundStays
  <2>3. QED BY <2>1, <2>2
<1>5. ASSUME NEW e \in Episodes, shelf'[e] PROVE Published(e)'
  <2>1. CASE shelf[e]
    <3>1. PICK i \in 1..Len(history) : history[i].episode = e
      BY <2>1, <1>1 DEF IInv, ShelfIsTruthful, Published
    <3>2. i \in DOMAIN history' /\ history'[i].episode = e BY <3>1, <1>1, <1>2 DEF Grown
    <3>3. QED BY <3>2 DEF Published
  <2>2. QED BY <1>5, <2>1
<1>6. stop' \in [Operators -> {0} \cup DOMAIN jobs']
  <2>1. DOMAIN jobs \subseteq DOMAIN jobs' BY <1>1, <1>2 DEF Grown
  <2>2. QED BY <2>1 DEF IInv, TypeOK
<1>7. \A v \in Workers :
        /\ call'[v].pc \in OnPlatform
             => call'[v].job \in DOMAIN jobs' /\ call'[v].todo # <<>>
        /\ call'[v].failed + Len(call'[v].todo) <= Len(call'[v].targets)
        /\ call'[v].rows \subseteq DOMAIN history'
  BY <1>2, <1>4 DEF Sound
<1>8. TypeOK' BY <1>2, <1>3, <1>6, <1>7 DEF TypeOK, IInv
<1>9. QED BY <1>4, <1>5, <1>8 DEF IInv, ShelfIsTruthful

\* A call moves and nothing is written but, perhaps, a status.
LEMMA CallMovesOnly ==
  ASSUME IInv, NEW w \in Workers, NEW c \in Call, Become(w, c),
         Sound(c, jobs, history), UNCHANGED Rows, UNCHANGED <<site, shelf, stop>>,
         status' \in [Episodes -> EpisodeStatus],
         requests' \in [Episodes -> Nat]
  PROVE  IInv'
<1>1. /\ jobs' = jobs /\ history' = history /\ uploads' = uploads
      /\ feed' = feed /\ site' = site /\ shelf' = shelf /\ stop' = stop
  BY DEF Rows
<1>2. /\ jobs \in Seq(PublishJob) /\ history \in Seq(PublishedEpisode)
      /\ uploads \in [Episodes -> Nat] /\ feed \subseteq 1..Len(history)
      /\ shelf \in [Episodes -> BOOLEAN]
  BY DEF IInv, TypeOK
<1>3. Grown(jobs, history, jobs', history') BY <1>1, <1>2 DEF Grown
<1>4. QED BY <1>1, <1>2, <1>3, CallMoves

\* The facts about a call that the steps use.
LEMMA CallFacts ==
  ASSUME IInv, NEW w \in Workers
  PROVE  /\ call[w] \in Call /\ Sound(call[w], jobs, history)
         /\ call[w].episode \in Episodes
         /\ status \in [Episodes -> EpisodeStatus]
         /\ requests \in [Episodes -> Nat]
         /\ jobs \in Seq(PublishJob) /\ history \in Seq(PublishedEpisode)
         /\ uploads \in [Episodes -> Nat] /\ feed \subseteq 1..Len(history)
         /\ shelf \in [Episodes -> BOOLEAN]
<1>1. TypeOK /\ Sound(call[w], jobs, history) BY DEF IInv
<1>2. QED BY <1>1 DEF TypeOK, Call

\* What a call becomes when it returns or raises.
LEMMA ReturnedSound ==
  ASSUME NEW c \in Call, NEW js, NEW hs
  PROVE  Returned(c) \in Call /\ Sound(Returned(c), js, hs)
<1>1. NoCall \in Call /\ Sound(NoCall, js, hs) BY NoCallSound
<1>2. CASE c.kind = "sweep"
  <2> DEFINE d == [NoCall EXCEPT !.pc = "sweep", !.kind = "sweep",
                                 !.batch = c.batch, !.attempt = c.attempt]
  <2>1. c.batch \in SUBSET Episodes /\ c.attempt \in 0..MaxRetries BY DEF Call
  <2>2. d \in Call BY <1>1, <2>1 DEF Call, CallPc, Kind
  <2>3. Sound(d, js, hs) BY <1>1 DEF Sound, NoCall, OnPlatform, Unbegun
  <2>4. Returned(c) = d BY <1>2 DEF Returned
  <2>5. QED BY <2>2, <2>3, <2>4
<1>3. CASE c.kind # "sweep" BY <1>1, <1>3 DEF Returned
<1>4. QED BY <1>2, <1>3

\* A call that raised is over or waits to be made again, and is sound.
LEMMA RaisedSound ==
  ASSUME NEW c \in Call, NEW transient \in BOOLEAN, c.targets # <<>>,
         NEW js, NEW hs
  PROVE  Raised(c, transient) \in Call /\ Sound(Raised(c, transient), js, hs)
<1>1. NoCall \in Call /\ Sound(NoCall, js, hs) BY NoCallSound
<1>2. CASE transient /\ c.kind # "retry" /\ c.attempt < MaxRetries
  <2> DEFINE d == [NoCall EXCEPT !.pc = "again", !.kind = c.kind,
                                 !.episode = c.episode, !.targets = c.targets,
                                 !.attempt = c.attempt + 1]
  <2>1. /\ c.kind \in Kind /\ c.episode \in Episodes /\ c.targets \in Seq(Names)
        /\ c.attempt \in 0..MaxRetries
    BY DEF Call
  <2>2. c.attempt + 1 \in 0..MaxRetries BY <1>2, <2>1, PublishAssumption
  <2>3. d \in Call BY <1>1, <2>1, <2>2 DEF Call, CallPc
  <2>4. Sound(d, js, hs) BY <1>1, <2>1 DEF Sound, NoCall, OnPlatform, Unbegun
  <2>5. Raised(c, transient) = d BY <1>2 DEF Raised
  <2>6. QED BY <2>3, <2>4, <2>5
<1>3. CASE ~(transient /\ c.kind # "retry" /\ c.attempt < MaxRetries) BY <1>1, <1>3 DEF Raised
<1>4. QED BY <1>2, <1>3

\* A new call that has its targets and has not begun.
LEMMA FreshSound ==
  ASSUME NEW pc \in {"reset", "load"}, NEW kind \in Kind, NEW e \in Episodes,
         NEW targets \in Seq(Names), targets # <<>>, NEW js, NEW hs
  PROVE  LET c == [NoCall EXCEPT !.pc = pc, !.kind = kind, !.episode = e,
                                 !.targets = targets]
         IN  c \in Call /\ Sound(c, js, hs)
<1> DEFINE c == [NoCall EXCEPT !.pc = pc, !.kind = kind, !.episode = e,
                               !.targets = targets]
<1>1. NoCall \in Call BY NoCallSound
<1>2. c \in Call BY <1>1 DEF Call, CallPc
<1>3. Sound(c, js, hs) BY DEF Sound, NoCall, OnPlatform, Unbegun
<1>4. QED BY <1>2, <1>3

-----------------------------------------------------------------------------
(* Calls that start.                                                       *)

\* A call that somebody asks for keeps the invariant, if it starts sound.
LEMMA AskInv ==
  ASSUME IInv, NEW w \in Workers, NEW e \in Episodes, NEW c \in Call,
         Ask(w, e, c), Sound(c, jobs, history)
  PROVE  IInv'
<1>1. requests' \in [Episodes -> Nat]
  <2>1. requests \in [Episodes -> Nat] BY CallFacts
  <2>2. requests' = [requests EXCEPT ![e] = @ + 1] BY DEF Ask
  <2>3. QED BY <2>1, <2>2
<1>2. UNCHANGED Rows /\ UNCHANGED <<site, shelf, stop>> /\ status' = status BY DEF Ask, Rows
<1>3. QED BY <1>1, <1>2, CallFacts, CallMovesOnly DEF Ask

\* Requests, Republish and retried publish jobs keep the invariant.
LEMMA StartInv ==
  ASSUME IInv, NEW w \in Workers, Start(w)
  PROVE  IInv'
<1>1. \A i \in DOMAIN jobs :
        /\ jobs[i].episode \in Episodes /\ <<jobs[i].platform>> \in Seq(Names)
        /\ <<jobs[i].platform>> # <<>>
  <2>1. \A i \in DOMAIN jobs : jobs[i] \in PublishJob BY CallFacts
  <2>2. QED BY <2>1 DEF PublishJob, Names
<1>2. ASSUME NEW e \in Episodes, NEW targets \in site.targets,
             Request(w, e, targets)
      PROVE  IInv'
  <2> DEFINE resolved == IF targets = <<>> THEN Enabled ELSE targets
  <2>1. targets \in Seq(Platforms) /\ Enabled \in Seq(Platforms) /\ Enabled # <<>>
    BY PublishAssumption DEF IInv, TypeOK
  <2>2. resolved \in Seq(Names) /\ resolved # <<>> BY <2>1 DEF Names
  <2>3. "request" \in Kind BY DEF Kind
  <2> DEFINE c == [NoCall EXCEPT !.pc = "load", !.kind = "request",
                                 !.episode = e, !.targets = resolved]
  <2>4. c \in Call /\ Sound(c, jobs, history) BY <2>2, <2>3, FreshSound
  <2>5. Ask(w, e, c) BY <1>2 DEF Request
  <2> HIDE DEF c
  <2>6. QED BY <2>4, <2>5, AskInv
<1>3. ASSUME NEW j \in DOMAIN jobs, Republish(w, j) PROVE IInv'
  <2> DEFINE c == [NoCall EXCEPT !.pc = "load", !.kind = "republish",
                     !.episode = jobs[j].episode, !.targets = Garbled]
  <2>1. Garbled \in Seq(Names) /\ Garbled # <<>> BY DEF Garbled, Names
  <2>2. "republish" \in Kind BY DEF Kind
  <2>3. c \in Call /\ Sound(c, jobs, history) BY <1>1, <2>1, <2>2, FreshSound
  <2>4. Ask(w, jobs[j].episode, c) BY <1>3 DEF Republish
  <2> HIDE DEF c
  <2>5. QED BY <1>1, <2>3, <2>4, AskInv
<1>4. ASSUME NEW j \in DOMAIN jobs, RetryPublishJob(w, j) PROVE IInv'
  <2> DEFINE pc == IF status[jobs[j].episode] = "failed" THEN "reset" ELSE "load"
             c == [NoCall EXCEPT !.pc = pc, !.kind = "retry",
                     !.episode = jobs[j].episode, !.targets = <<jobs[j].platform>>]
  <2>1. pc \in {"reset", "load"} /\ "retry" \in Kind BY DEF Kind
  <2>2. c \in Call /\ Sound(c, jobs, history)
    <3> HIDE DEF pc
    <3>1. QED BY <1>1, <2>1, FreshSound
  <2>3. Ask(w, jobs[j].episode, c) BY <1>4 DEF RetryPublishJob
  <2> HIDE DEF c
  <2>4. QED BY <1>1, <2>2, <2>3, AskInv
<1>5. QED BY <1>2, <1>3, <1>4 DEF Start

\* The steps of the sweep, and a call that is made again, keep the invariant.
LEMMA SweepsInv ==
  ASSUME IInv, NEW w \in Workers,
         StartSweep(w) \/ SweepNext(w) \/ SweepDone(w) \/ Rerun(w)
  PROVE  IInv'
<1> DEFINE c == call[w]
<1>1. /\ c \in Call /\ Sound(c, jobs, history)
      /\ status' = status /\ status' \in [Episodes -> EpisodeStatus]
      /\ requests' \in [Episodes -> Nat]
      /\ UNCHANGED Rows /\ UNCHANGED <<site, shelf, stop>>
  BY CallFacts DEF StartSweep, SweepNext, SweepDone, Rerun, Rows
<1>2. NoCall \in Call /\ Sound(NoCall, jobs, history) BY NoCallSound
<1>3. Completed \subseteq Episodes BY DEF Completed
<1>4. CASE StartSweep(w)
  <2> DEFINE d == [NoCall EXCEPT !.pc = "sweep", !.kind = "sweep",
                                 !.batch = Completed]
  <2>1. d \in Call BY <1>2, <1>3 DEF Call, CallPc, Kind
  <2>2. Sound(d, jobs, history) BY DEF Sound, NoCall, OnPlatform, Unbegun
  <2>3. QED BY <1>1, <1>4, <2>1, <2>2, CallMovesOnly DEF StartSweep
<1>5. CASE SweepNext(w)
  <2>1. PICK e \in Newest(c.batch) :
          Become(w, IF PassOver(e)
                    THEN [c EXCEPT !.batch = @ \ {e}]
                    ELSE [c EXCEPT !.batch = @ \ {e}, !.pc = "load",
                                   !.episode = e, !.targets = Enabled])
    BY <1>5 DEF SweepNext
  <2> DEFINE d1 == [c EXCEPT !.batch = @ \ {e}]
             d2 == [c EXCEPT !.batch = @ \ {e}, !.pc = "load", !.episode = e,
                             !.targets = Enabled]
  <2>2. c.batch \subseteq Episodes /\ c.pc = "sweep" /\ e \in Episodes
    BY <1>1, <1>5 DEF Call, SweepNext, Newest
  <2>3. Enabled \in Seq(Names) /\ Enabled # <<>> BY PublishAssumption DEF Names
  <2>4. d1 \in Call /\ d2 \in Call BY <1>1, <2>2, <2>3 DEF Call, CallPc
  <2>5. c.failed = 0 /\ ~c.done /\ c.todo = <<>> BY <1>1, <2>2 DEF Sound, Unbegun
  <2>6. Sound(d1, jobs, history) BY <1>1, <2>2, <2>5 DEF Sound, OnPlatform, Unbegun, Call
  <2>7. Sound(d2, jobs, history) BY <1>1, <2>2, <2>3, <2>5 DEF Sound, OnPlatform, Unbegun, Call
  <2>8. call' = [call EXCEPT ![w] = d1] \/ call' = [call EXCEPT ![w] = d2] BY <2>1
  <2> HIDE DEF d1, d2
  <2>9. QED BY <1>1, <2>4, <2>6, <2>7, <2>8, CallMovesOnly
<1>6. CASE SweepDone(w) BY <1>1, <1>2, <1>6, CallMovesOnly DEF SweepDone
<1>7. CASE Rerun(w)
  <2> DEFINE d1 == [c EXCEPT !.pc = "sweep", !.batch = Completed]
             d2 == [c EXCEPT !.pc = "load"]
  <2>1. c.pc = "again" BY <1>7 DEF Rerun
  <2>2. d1 \in Call /\ d2 \in Call BY <1>1, <1>3 DEF Call, CallPc
  <2>3. Sound(d1, jobs, history) /\ Sound(d2, jobs, history)
    BY <1>1, <2>1 DEF Sound, OnPlatform, Unbegun, Call
  <2>4. call' = [call EXCEPT ![w] = d1] \/ call' = [call EXCEPT ![w] = d2] BY <1>7 DEF Rerun
  <2> HIDE DEF d1, d2
  <2>5. QED BY <1>1, <2>2, <2>3, <2>4, CallMovesOnly
<1>8. QED BY <1>4, <1>5, <1>6, <1>7

-----------------------------------------------------------------------------
(* publish_episode, before and after its platforms.                        *)

\* Loading the episode and saving PUBLISHING keep the invariant.
LEMMA BeginningInv ==
  ASSUME IInv, NEW w \in Workers, ResetEpisode(w) \/ Load(w) \/ Begin(w)
  PROVE  IInv'
<1> DEFINE c == call[w]
<1>1. /\ c \in Call /\ Sound(c, jobs, history) /\ c.episode \in Episodes
      /\ status \in [Episodes -> EpisodeStatus]
      /\ requests' \in [Episodes -> Nat]
      /\ UNCHANGED Rows /\ UNCHANGED <<site, shelf, stop>>
  BY CallFacts DEF ResetEpisode, Load, Begin, Rows
<1>2. c.pc \in {"reset", "load", "begin"} BY DEF ResetEpisode, Load, Begin
<1>3. c.targets # <<>> /\ c.failed = 0 /\ ~c.done /\ c.todo = <<>> BY <1>1, <1>2 DEF Sound, Unbegun
<1>4. status' \in [Episodes -> EpisodeStatus]
  BY <1>1 DEF ResetEpisode, Load, Begin, SetStatus, EpisodeStatus
<1>5. ASSUME NEW pc \in {"load", "begin"}, Goto(w, pc) PROVE IInv'
  <2> DEFINE d == [c EXCEPT !.pc = pc]
  <2>1. d \in Call BY <1>1 DEF Call, CallPc
  <2>2. Sound(d, jobs, history) BY <1>1, <1>2, <1>3 DEF Sound, OnPlatform, Unbegun, Call
  <2>3. Become(w, d) BY <1>5
  <2> HIDE DEF d
  <2>4. QED BY <1>1, <1>4, <2>1, <2>2, <2>3, CallMovesOnly
<1>6. CASE Raise(w, FALSE)
  <2> DEFINE d == Raised(c, FALSE)
  <2>1. d \in Call /\ Sound(d, jobs, history) BY <1>1, <1>3, RaisedSound
  <2>2. Become(w, d) BY <1>6 DEF Raise
  <2> HIDE DEF d
  <2>3. QED BY <1>1, <1>4, <2>1, <2>2, CallMovesOnly
<1>7. CASE Begin(w)
  <2> DEFINE d == [c EXCEPT !.pc = "next", !.todo = c.targets]
  <2>1. d \in Call BY <1>1 DEF Call, CallPc
  <2>2. Sound(d, jobs, history) BY <1>1, <1>2, <1>3 DEF Sound, OnPlatform, Unbegun, Call
  <2>3. Become(w, d) BY <1>7 DEF Begin
  <2> HIDE DEF d
  <2>4. QED BY <1>1, <1>4, <2>1, <2>2, <2>3, CallMovesOnly
<1>8. QED BY <1>5, <1>6, <1>7 DEF ResetEpisode, Load

\* The end of a call keeps the invariant: an episode that is shown was
\* published.
LEMMA FinishInv ==
  ASSUME IInv, NEW w \in Workers, Finish(w)
  PROVE  IInv'
<1> DEFINE c == call[w]
<1>1. /\ c \in Call /\ Sound(c, jobs, history) /\ c.episode \in Episodes
      /\ status \in [Episodes -> EpisodeStatus]
      /\ shelf \in [Episodes -> BOOLEAN]
      /\ requests' \in [Episodes -> Nat]
      /\ jobs \in Seq(PublishJob) /\ history \in Seq(PublishedEpisode)
      /\ uploads \in [Episodes -> Nat] /\ feed \subseteq 1..Len(history)
      /\ jobs' = jobs /\ history' = history /\ uploads' = uploads /\ feed' = feed
      /\ site' = site /\ stop' = stop
  BY CallFacts DEF Finish, Rows
<1>2. c.pc = "next" /\ c.todo = <<>> BY DEF Finish
<1>3. c.targets # <<>> BY <1>1, <1>2 DEF Sound
<1>4. c.failed = 0 => c.done BY <1>1, <1>2, <1>3 DEF Sound, Unbegun
<1>5. ASSUME NEW e \in Episodes, e = c.episode, c.done PROVE Published(e)'
  <2>1. PICK i \in 1..Len(history) : history[i].episode = e BY <1>1, <1>5 DEF Sound
  <2>2. i \in DOMAIN history' /\ history'[i].episode = e BY <1>1, <2>1
  <2>3. QED BY <2>2 DEF Published
<1>6. status' \in [Episodes -> EpisodeStatus] BY <1>1 DEF Finish, SetStatus, EpisodeStatus
<1>7. \/ shelf' = shelf
      \/ c.done /\ shelf' = [shelf EXCEPT ![c.episode] = TRUE]
  BY <1>4 DEF Finish
<1>8. /\ shelf' \in [Episodes -> BOOLEAN]
      /\ \A e \in Episodes : shelf'[e] => shelf[e] \/ Published(e)'
  BY <1>1, <1>5, <1>7
<1>9. PICK d : Become(w, d) /\ (d = Returned(c) \/ d = Raised(c, FALSE))
  BY DEF Finish, Return, Raise
<1>10. d \in Call /\ Sound(d, jobs', history') BY <1>1, <1>3, <1>9, ReturnedSound, RaisedSound
<1>11. Grown(jobs, history, jobs', history') BY <1>1 DEF Grown
<1>12. QED BY <1>1, <1>6, <1>8, <1>9, <1>10, <1>11, CallMoves

-----------------------------------------------------------------------------
(* publish_episode on a platform.                                          *)

\* A call that works on a platform.
LEMMA PlatformFacts ==
  ASSUME IInv, NEW w \in Workers, call[w].pc \in OnPlatform
  PROVE  /\ call[w].job \in 1..Len(jobs) /\ call[w].todo # <<>>
         /\ call[w].targets # <<>>
         /\ jobs[call[w].job] \in PublishJob
<1>1. Sound(call[w], jobs, history) /\ jobs \in Seq(PublishJob) BY CallFacts
<1>2. call[w].job \in 1..Len(jobs) /\ call[w].todo # <<>> /\ call[w].targets # <<>>
  BY <1>1 DEF Sound, OnPlatform
<1>3. QED BY <1>1, <1>2

\* Marking its publish job adds none and takes none away.
LEMMA SetJobGrows ==
  ASSUME IInv, NEW w \in Workers, call[w].pc \in OnPlatform,
         NEW to \in PublishJobStatus, SetJob(w, to), history' = history
  PROVE  Grown(jobs, history, jobs', history') /\ Len(jobs') = Len(jobs)
<1>1. /\ jobs \in Seq(PublishJob) /\ history \in Seq(PublishedEpisode)
      /\ call[w].job \in 1..Len(jobs) /\ jobs[call[w].job] \in PublishJob
  BY CallFacts, PlatformFacts
<1>2. [jobs[call[w].job] EXCEPT !.status = to] \in PublishJob BY <1>1 DEF PublishJob
<1>3. jobs' = [jobs EXCEPT ![call[w].job] = [jobs[call[w].job] EXCEPT !.status = to]] BY DEF SetJob
<1>4. jobs' \in Seq(PublishJob) /\ Len(jobs') = Len(jobs) BY <1>1, <1>2, <1>3
<1>5. QED BY <1>1, <1>4 DEF Grown

\* Going from one statement of a platform to another.
LEMMA GotoSound ==
  ASSUME NEW c \in Call, NEW js, NEW hs, Sound(c, js, hs), c.pc \in OnPlatform,
         NEW pc \in OnPlatform, NEW then \in {"next", "transient", "permanent"},
         pc \in {"rows", "write"} => c.pc \in {"rows", "write"}
  PROVE  LET d == [c EXCEPT !.pc = pc, !.then = then]
         IN  d \in Call /\ Sound(d, js, hs)
<1> DEFINE d == [c EXCEPT !.pc = pc, !.then = then]
<1>1. d \in Call BY DEF Call, CallPc, OnPlatform
<1>2. Sound(d, js, hs) BY DEF Sound, OnPlatform, Unbegun, Call
<1>3. QED BY <1>1, <1>2

\* Steps on a platform that write none of the tables keep the invariant.
LEMMA WritesNothingInv ==
  ASSUME IInv, NEW w \in Workers,
         Refused(w) \/ Unavailable(w) \/ UploadFails(w) \/ FeedFails(w) \/ LoadRows(w)
           \/ DiskFails(w)
  PROVE  IInv'
<1> DEFINE c == call[w]
<1>1. /\ c \in Call /\ Sound(c, jobs, history)
      /\ status' \in [Episodes -> EpisodeStatus]
      /\ requests' \in [Episodes -> Nat]
      /\ UNCHANGED Rows /\ UNCHANGED <<site, shelf, stop>>
  BY CallFacts DEF Refused, Unavailable, UploadFails, FeedFails, LoadRows, DiskFails, Except, Rows
<1>2. c.pc \in OnPlatform /\ c.pc \notin {"mark", "record", "failed"}
  BY DEF Refused, Unavailable, UploadFails, FeedFails, LoadRows, DiskFails, OnPlatform
<1>3. ASSUME NEW then \in {"next", "transient", "permanent"}, Except(w, then)
      PROVE  IInv'
  <2> DEFINE d == [c EXCEPT !.pc = "failed", !.then = then]
  <2>1. "failed" \in OnPlatform BY DEF OnPlatform
  <2>2. d \in Call /\ Sound(d, jobs, history) BY <1>1, <1>2, <2>1, GotoSound
  <2>3. Become(w, d) BY <1>3 DEF Except
  <2> HIDE DEF d
  <2>4. QED BY <1>1, <2>2, <2>3, CallMovesOnly
<1>4. CASE LoadRows(w)
  <2> DEFINE d == [c EXCEPT !.pc = "write", !.rows = FeedItems]
  <2>1. \A i \in FeedItems : i \in 1..Len(history) BY CallFacts DEF FeedItems
  <2>2. d \in Call
    <3>1. FeedItems \in SUBSET Nat BY <2>1
    <3>2. QED BY <1>1, <3>1 DEF Call, CallPc
  <2>3. c.pc = "rows" BY <1>4 DEF LoadRows
  <2>4. Sound(d, jobs, history) BY <1>1, <2>1, <2>3 DEF Sound, OnPlatform, Unbegun, Call
  <2>5. Become(w, d) BY <1>4 DEF LoadRows
  <2> HIDE DEF d
  <2>6. QED BY <1>1, <2>2, <2>4, <2>5, CallMovesOnly
<1>5. CASE DiskFails(w)
  <2> DEFINE d == Raised(c, FALSE)
  <2>1. d \in Call /\ Sound(d, jobs, history) BY <1>1, <1>2, PlatformFacts, RaisedSound
  <2>2. Become(w, d) BY <1>5 DEF DiskFails, Raise
  <2> HIDE DEF d
  <2>3. QED BY <1>1, <2>1, <2>2, CallMovesOnly
<1>6. QED BY <1>3, <1>4, <1>5 DEF Refused, Unavailable, UploadFails, FeedFails

\* A new publish job keeps the invariant.
LEMMA CreateJobInv ==
  ASSUME IInv, NEW w \in Workers, CreateJob(w)
  PROVE  IInv'
<1> DEFINE c == call[w]
           p == Head(c.todo)
<1>1. /\ c \in Call /\ Sound(c, jobs, history) /\ c.episode \in Episodes
      /\ status' \in [Episodes -> EpisodeStatus]
      /\ shelf \in [Episodes -> BOOLEAN] /\ shelf' = shelf
      /\ requests' \in [Episodes -> Nat]
      /\ jobs \in Seq(PublishJob) /\ history \in Seq(PublishedEpisode)
      /\ uploads' \in [Episodes -> Nat] /\ feed' \subseteq 1..Len(history)
      /\ history' = history /\ site' = site /\ stop' = stop
  BY CallFacts DEF CreateJob
<1>2. c.pc = "next" /\ c.todo # <<>> /\ c.targets # <<>> BY <1>1 DEF CreateJob, Sound
<1>3. CASE IsEnabled(p)
  <2> DEFINE j == [episode |-> c.episode, platform |-> p, status |-> "pending"]
             d == [c EXCEPT !.pc = "check", !.job = Len(jobs) + 1]
  <2>1. p \in Platforms BY <1>3, PublishAssumption DEF IsEnabled
  <2>2. j \in PublishJob BY <1>1, <2>1 DEF PublishJob, PublishJobStatus
  <2>3. jobs' = Append(jobs, j) /\ Become(w, d) BY <1>3 DEF CreateJob
  <2>4. Grown(jobs, history, jobs', history') /\ Len(jobs') = Len(jobs) + 1
    <3> HIDE DEF j
    <3>1. QED BY <1>1, <2>2, <2>3 DEF Grown
  <2>5. d \in Call
    <3>1. Len(jobs) + 1 \in Nat BY <1>1
    <3>2. QED BY <1>1, <3>1 DEF Call, CallPc
  <2>6. Len(jobs) + 1 \in 1..Len(jobs') BY <1>1, <2>4
  <2>7. Sound(d, jobs', history') BY <1>1, <1>2, <2>6 DEF Sound, OnPlatform, Unbegun, Call
  <2> HIDE DEF d
  <2>8. QED BY <1>1, <2>3, <2>4, <2>5, <2>7, CallMoves
<1>4. CASE ~IsEnabled(p)
  <2> DEFINE d == Raised(c, FALSE)
  <2>1. jobs' = jobs /\ Become(w, d) BY <1>4 DEF CreateJob, Raise
  <2>2. d \in Call /\ Sound(d, jobs', history') BY <1>1, <1>2, RaisedSound
  <2>3. Grown(jobs, history, jobs', history') BY <1>1, <2>1 DEF Grown
  <2> HIDE DEF d
  <2>4. QED BY <1>1, <2>1, <2>2, <2>3, CallMoves
<1>5. QED BY <1>3, <1>4

\* The steps that save the status of a publish job keep the invariant.
LEMMA MarksInv ==
  ASSUME IInv, NEW w \in Workers, MarkRunning(w) \/ MarkSucceeded(w) \/ MarkFailed(w)
  PROVE  IInv'
<1> DEFINE c == call[w]
<1>1. /\ c \in Call /\ Sound(c, jobs, history)
      /\ status' \in [Episodes -> EpisodeStatus]
      /\ shelf \in [Episodes -> BOOLEAN] /\ shelf' = shelf
      /\ requests' \in [Episodes -> Nat]
      /\ jobs \in Seq(PublishJob) /\ history \in Seq(PublishedEpisode)
      /\ uploads' \in [Episodes -> Nat] /\ feed' \subseteq 1..Len(history)
      /\ history' = history /\ site' = site /\ stop' = stop
  BY CallFacts DEF MarkRunning, MarkSucceeded, MarkFailed
<1>2. c.pc \in {"check", "mark", "failed"} /\ c.pc \in OnPlatform
  BY DEF MarkRunning, MarkSucceeded, MarkFailed, OnPlatform
<1>3. Grown(jobs, history, jobs', history') /\ Len(jobs') = Len(jobs)
  <2>1. \E to \in PublishJobStatus : SetJob(w, to)
    BY DEF MarkRunning, MarkSucceeded, MarkFailed, PublishJobStatus
  <2>2. QED BY <1>1, <1>2, <2>1, SetJobGrows
<1>4. Sound(c, jobs', history') BY <1>1, <1>3, SoundStays
<1>5. ASSUME NEW d \in Call, Sound(d, jobs', history'), Become(w, d) PROVE IInv'
  BY <1>1, <1>3, <1>5, CallMoves
<1>6. ASSUME NEW pc \in {"publish", "record"}, Goto(w, pc) PROVE IInv'
  <2> DEFINE d == [c EXCEPT !.pc = pc]
  <2>1. d \in Call BY <1>1 DEF Call, CallPc
  <2>2. Sound(d, jobs', history') BY <1>1, <1>2, <1>4 DEF Sound, OnPlatform, Unbegun, Call
  <2>3. Become(w, d) BY <1>6
  <2> HIDE DEF d
  <2>4. QED BY <1>5, <2>1, <2>2, <2>3
<1>7. ASSUME MarkFailed(w), c.then = "next" PROVE IInv'
  <2> DEFINE d == [c EXCEPT !.pc = "next", !.todo = Tail(@),
                            !.failed = @ + 1, !.job = 0]
  <2>1. c.todo # <<>> /\ c.todo \in Seq(Names) /\ c.failed \in Nat BY <1>1, <1>2 DEF Sound, Call
  <2>2. Tail(c.todo) \in Seq(Names) /\ Len(Tail(c.todo)) = Len(c.todo) - 1 BY <2>1
  <2>3. d \in Call
    <3>1. c.failed + 1 \in Nat /\ 0 \in Nat BY <2>1
    <3>2. QED BY <1>1, <2>2, <3>1 DEF Call, CallPc
  <2>4. c.pc = "failed" /\ c.targets \in Seq(Names) BY <1>1, <1>7 DEF MarkFailed, Call
  <2>5. Len(c.todo) \in Nat /\ Len(c.targets) \in Nat BY <2>1, <2>4
  <2>6. c.failed + 1 + Len(Tail(c.todo)) <= Len(c.targets) BY <1>4, <2>1, <2>2, <2>5 DEF Sound
  <2>7. Sound(d, jobs', history')
    BY <1>1, <1>2, <1>4, <2>1, <2>4, <2>6 DEF Sound, OnPlatform, Unbegun, Call
  <2>8. Become(w, d) BY <1>7 DEF MarkFailed
  <2> HIDE DEF d
  <2>9. QED BY <1>5, <2>3, <2>7, <2>8
<1>8. ASSUME MarkFailed(w), c.then # "next" PROVE IInv'
  <2> DEFINE d == Raised(c, c.then = "transient")
  <2>1. d \in Call /\ Sound(d, jobs', history') BY <1>1, <1>2, PlatformFacts, RaisedSound
  <2>2. Become(w, d) BY <1>8 DEF MarkFailed, Raise
  <2> HIDE DEF d
  <2>3. QED BY <1>5, <2>1, <2>2
<1>9. QED BY <1>6, <1>7, <1>8 DEF MarkRunning, MarkSucceeded

\* An upload keeps the invariant.
LEMMA PublishInv ==
  ASSUME IInv, NEW w \in Workers, Publish(w)
  PROVE  IInv'
<1> DEFINE c == call[w]
           d == [c EXCEPT !.pc = "mark"]
<1>1. /\ c \in Call /\ Sound(c, jobs, history) /\ c.episode \in Episodes
      /\ status' \in [Episodes -> EpisodeStatus]
      /\ shelf \in [Episodes -> BOOLEAN] /\ shelf' = shelf
      /\ requests' \in [Episodes -> Nat]
      /\ jobs \in Seq(PublishJob) /\ history \in Seq(PublishedEpisode)
      /\ jobs' = jobs /\ feed' \subseteq 1..Len(history')
      /\ history' = history /\ site' = site /\ stop' = stop
      /\ uploads \in [Episodes -> Nat]
  BY CallFacts DEF Publish
<1>2. c.pc = "publish" BY DEF Publish
<1>3. uploads' \in [Episodes -> Nat]
  <2>1. CASE uploads' = [uploads EXCEPT ![c.episode] = @ + 1] BY <1>1, <2>1
  <2>2. CASE uploads' = uploads BY <1>1, <2>2
  <2>3. QED BY <2>1, <2>2 DEF Publish
<1>4. d \in Call BY <1>1 DEF Call, CallPc
<1>5. Sound(d, jobs', history') BY <1>1, <1>2 DEF Sound, OnPlatform, Unbegun, Call
<1>6. Grown(jobs, history, jobs', history') BY <1>1 DEF Grown
<1>7. Become(w, d) BY DEF Publish
<1> HIDE DEF d
<1>8. QED BY <1>1, <1>3, <1>4, <1>5, <1>6, <1>7, CallMoves

\* A call that has published on a platform goes on to the next one.
LEMMA SucceedSound ==
  ASSUME NEW c \in Call, NEW js, NEW hs, Sound(c, js, hs), c.pc \in OnPlatform,
         \E i \in 1..Len(hs) : hs[i].episode = c.episode
  PROVE  Succeed(c) \in Call /\ Sound(Succeed(c), js, hs)
<1>1. c.todo # <<>> /\ c.todo \in Seq(Names) /\ c.targets \in Seq(Names)
      /\ c.failed \in Nat
  BY DEF Sound, Call
<1>2. Tail(c.todo) \in Seq(Names) /\ Len(Tail(c.todo)) = Len(c.todo) - 1
      /\ Len(c.todo) \in Nat /\ Len(c.targets) \in Nat
  BY <1>1
<1>3. c.failed + Len(Tail(c.todo)) <= Len(c.targets) BY <1>1, <1>2 DEF Sound
<1>4. 0 \in Nat
  OBVIOUS
<1>5. Succeed(c) \in Call BY <1>2, <1>4 DEF Succeed, Call, CallPc
<1>6. c.pc \notin {"idle", "sweep"} /\ c.targets # <<>> BY DEF OnPlatform, Sound
<1>7. Sound(Succeed(c), js, hs) BY <1>3, <1>6 DEF Sound, Succeed, OnPlatform, Unbegun, Call
<1>8. QED BY <1>5, <1>7

\* The history row of a publication keeps the invariant.
LEMMA RecordInv ==
  ASSUME IInv, NEW w \in Workers, Record(w)
  PROVE  IInv'
<1> DEFINE c == call[w]
           r == [episode |-> c.episode, platform |-> Platform(w)]
           d == [c EXCEPT !.pc = "rows"]
<1>1. /\ c \in Call /\ Sound(c, jobs, history) /\ c.episode \in Episodes
      /\ status' \in [Episodes -> EpisodeStatus]
      /\ shelf \in [Episodes -> BOOLEAN] /\ shelf' = shelf
      /\ requests' \in [Episodes -> Nat]
      /\ jobs \in Seq(PublishJob) /\ history \in Seq(PublishedEpisode)
      /\ jobs' = jobs /\ uploads' \in [Episodes -> Nat]
      /\ feed \subseteq 1..Len(history) /\ feed' = feed
      /\ site' = site /\ stop' = stop
  BY CallFacts DEF Record
<1>2. c.pc = "record" /\ c.pc \in OnPlatform BY DEF Record, OnPlatform
<1>3. r \in PublishedEpisode /\ r.episode = c.episode
  BY <1>1, <1>2, PlatformFacts DEF PublishedEpisode, PublishJob, Platform
<1>4. history' = Append(history, r) BY DEF Record
<1> HIDE DEF r
<1>5. /\ history' \in Seq(PublishedEpisode)
      /\ Len(history') = Len(history) + 1
      /\ \A i \in 1..Len(history) : history'[i] = history[i]
      /\ history'[Len(history) + 1] = r
  BY <1>1, <1>3, <1>4
<1>6. Grown(jobs, history, jobs', history') BY <1>1, <1>5 DEF Grown
<1>7. feed' \subseteq 1..Len(history') BY <1>1, <1>5
<1>8. Sound(c, jobs', history') BY <1>1, <1>6, SoundStays
<1>9. Len(history) + 1 \in 1..Len(history') BY <1>1, <1>5
<1>10. \E i \in 1..Len(history') : history'[i].episode = c.episode BY <1>3, <1>5, <1>9
<1>11. d \in Call BY <1>1 DEF Call, CallPc
<1>12. Sound(d, jobs', history') BY <1>1, <1>2, <1>8, <1>10 DEF Sound, OnPlatform, Unbegun, Call
<1>13. Succeed(c) \in Call /\ Sound(Succeed(c), jobs', history')
  BY <1>1, <1>2, <1>8, <1>10, SucceedSound
<1>14. Become(w, d) \/ Become(w, Succeed(c)) BY DEF Record
<1> HIDE DEF d
<1>15. QED BY <1>1, <1>6, <1>7, <1>11, <1>12, <1>13, <1>14, CallMoves

\* Writing the feed keeps the invariant.
LEMMA WriteFeedInv ==
  ASSUME IInv, NEW w \in Workers, WriteFeed(w)
  PROVE  IInv'
<1> DEFINE c == call[w]
<1>1. /\ c \in Call /\ Sound(c, jobs, history)
      /\ status' \in [Episodes -> EpisodeStatus]
      /\ shelf \in [Episodes -> BOOLEAN] /\ shelf' = shelf
      /\ requests' \in [Episodes -> Nat]
      /\ jobs \in Seq(PublishJob) /\ history \in Seq(PublishedEpisode)
      /\ jobs' = jobs /\ history' = history /\ uploads' \in [Episodes -> Nat]
      /\ site' = site /\ stop' = stop
  BY CallFacts DEF WriteFeed
<1>2. c.pc = "write" /\ c.pc \in OnPlatform BY DEF WriteFeed, OnPlatform
<1>3. feed' \subseteq 1..Len(history') BY <1>1 DEF WriteFeed, Sound
<1>4. \E i \in 1..Len(history) : history[i].episode = c.episode BY <1>1, <1>2 DEF Sound
<1>5. Succeed(c) \in Call /\ Sound(Succeed(c), jobs', history') BY <1>1, <1>2, <1>4, SucceedSound
<1>6. Grown(jobs, history, jobs', history') BY <1>1 DEF Grown
<1>7. Become(w, Succeed(c)) BY DEF WriteFeed
<1>8. QED BY <1>1, <1>3, <1>5, <1>6, <1>7, CallMoves

-----------------------------------------------------------------------------
(* Crashes and cancellations.                                              *)

\* A worker that dies keeps the invariant.
LEMMA CrashInv ==
  ASSUME IInv, NEW w \in Workers, Crash(w)
  PROVE  IInv'
<1>1. NoCall \in Call /\ Sound(NoCall, jobs, history) BY NoCallSound
<1>2. /\ status' \in [Episodes -> EpisodeStatus] /\ requests' \in [Episodes -> Nat]
      /\ UNCHANGED Rows /\ UNCHANGED <<site, shelf, stop>> /\ Become(w, NoCall)
  BY CallFacts DEF Crash
<1>3. QED BY <1>1, <1>2, CallMovesOnly

\* An operator moves, and perhaps the status of a job.
LEMMA OperatorMoves ==
  ASSUME IInv, UNCHANGED <<site, status, shelf, history, uploads, feed, requests, call>>,
         jobs' \in Seq(PublishJob), Len(jobs') = Len(jobs),
         stop' \in [Operators -> {0} \cup 1..Len(jobs')]
  PROVE  IInv'
<1>1. DOMAIN jobs' = 1..Len(jobs') /\ DOMAIN jobs = 1..Len(jobs) BY DEF IInv, TypeOK
<1>2. TypeOK' BY <1>1 DEF IInv, TypeOK
<1>3. \A v \in Workers : Sound(call'[v], jobs', history') BY DEF IInv, Sound
<1>4. ShelfIsTruthful' BY DEF IInv, ShelfIsTruthful, Published
<1>5. QED BY <1>2, <1>3, <1>4 DEF IInv

\* An operator who cancels keeps the invariant.
LEMMA CancelInv ==
  ASSUME IInv, NEW o \in Operators, Cancel(o)
  PROVE  IInv'
<1>1. /\ jobs \in Seq(PublishJob) /\ DOMAIN jobs = 1..Len(jobs)
      /\ stop \in [Operators -> {0} \cup 1..Len(jobs)]
  BY DEF IInv, TypeOK
<1>2. ASSUME NEW j \in DOMAIN jobs, CancelLoad(o, j) PROVE IInv'
  <2>1. jobs' = jobs /\ stop' \in [Operators -> {0} \cup 1..Len(jobs)]
    BY <1>1, <1>2 DEF CancelLoad, Rows
  <2>2. UNCHANGED <<site, status, shelf, history, uploads, feed, requests, call>>
    BY <1>2 DEF CancelLoad, Rows
  <2>3. QED BY <1>1, <2>1, <2>2, OperatorMoves
<1>3. ASSUME CancelSave(o) PROVE IInv'
  <2> DEFINE job == [jobs[stop[o]] EXCEPT !.status = "failed"]
  <2>1. stop[o] \in 1..Len(jobs) /\ jobs[stop[o]] \in PublishJob BY <1>1, <1>3 DEF CancelSave
  <2>2. job \in PublishJob BY <2>1 DEF PublishJob, PublishJobStatus
  <2>3. jobs' = [jobs EXCEPT ![stop[o]] = job] BY <1>3 DEF CancelSave
  <2>4. jobs' \in Seq(PublishJob) /\ Len(jobs') = Len(jobs) BY <1>1, <2>1, <2>2, <2>3
  <2>5. stop' \in [Operators -> {0} \cup 1..Len(jobs')] BY <1>1, <1>3, <2>4 DEF CancelSave
  <2>6. UNCHANGED <<site, status, shelf, history, uploads, feed, requests, call>>
    BY <1>3 DEF CancelSave
  <2>7. QED BY <2>4, <2>5, <2>6, OperatorMoves
<1>4. QED BY <1>2, <1>3 DEF Cancel

-----------------------------------------------------------------------------

\* The invariant holds at the start.
LEMMA InitInv == Init => IInv
<1> SUFFICES ASSUME Init PROVE IInv
  OBVIOUS
<1>1. NoCall \in Call /\ Sound(NoCall, jobs, history) BY NoCallSound
<1>2. \A w \in Workers : call[w] = NoCall BY DEF Init
<1>3. Len(<<>>) = 0 /\ DOMAIN history = {} BY DEF Init
<1>4. TypeOK BY <1>1, <1>2, <1>3 DEF Init, TypeOK, EpisodeStatus, NoCall, OnPlatform
<1>5. ShelfIsTruthful BY DEF Init, ShelfIsTruthful
<1>6. QED BY <1>1, <1>2, <1>4, <1>5 DEF IInv

\* Every step keeps the invariant.
LEMMA NextInv == IInv /\ [Next]_vars => IInv'
<1> SUFFICES ASSUME IInv, [Next]_vars PROVE IInv'
  OBVIOUS
<1>1. ASSUME NEW w \in Workers, Advance(w) PROVE IInv'
  BY <1>1, SweepsInv, BeginningInv, FinishInv, WritesNothingInv, CreateJobInv, MarksInv, PublishInv,
     RecordInv, WriteFeedInv DEF Advance
<1>2. ASSUME NEW w \in Workers, Start(w) \/ StartSweep(w) \/ Crash(w) PROVE IInv'
  BY <1>2, StartInv, SweepsInv, CrashInv
<1>3. ASSUME NEW o \in Operators, Cancel(o) PROVE IInv' BY <1>3, CancelInv
<1>4. CASE UNCHANGED vars BY <1>4 DEF vars, IInv, TypeOK, ShelfIsTruthful, Published, Sound
<1>5. QED BY <1>1, <1>2, <1>3, <1>4 DEF Next

\* Whatever the number of episodes, workers and operators and whatever
\* fails: every record keeps its type, a call that works on a platform has a
\* publish job, and it never counts more failures than it had platforms.
THEOREM PublishTypes == Spec => []TypeOK
<1>1. IInv => TypeOK BY DEF IInv
<1>2. QED BY InitInv, NextInv, <1>1, PTL DEF Spec

\* Whatever crashes, is cancelled, retried or overtaken by another worker:
\* an episode that listeners see has been published on some platform.
THEOREM ShownIsPublished == Spec => []ShelfIsTruthful
<1>1. IInv => ShelfIsTruthful BY DEF IInv
<1>2. QED BY InitInv, NextInv, <1>1, PTL DEF Spec

-----------------------------------------------------------------------------
(* The books: what calls and publish jobs have to do with each other.      *)

OnIt(w) == call[w].pc \in OnPlatform

\* Only workers of the site have calls; a call that works on a platform has a
\* publish job of its own, for its episode and that platform, and there are
\* publish jobs only for platforms that are enabled.
Linked ==
  /\ \A w \in Workers : call[w].pc # "idle" => w \in site.workers
  /\ \A w \in Workers : call[w].pc = "sweep" => call[w].kind = "sweep"
  /\ \A w \in Workers : OnIt(w) =>
       /\ jobs[call[w].job].episode = call[w].episode
       /\ jobs[call[w].job].platform = Head(call[w].todo)
  /\ \A v, w \in Workers : OnIt(v) /\ OnIt(w) /\ call[v].job = call[w].job => v = w
  /\ \A j \in 1..Len(jobs) : IsEnabled(jobs[j].platform)

\* What is asked for properly is worked through properly.
Proper(list) ==
  /\ AsksForEnabled /\ ~site.republish => \A i \in 1..Len(list) : IsEnabled(list[i])
  /\ AsksForEachOnce => \A i, k \in 1..Len(list) : list[i] = list[k] => i = k

ListsProper == \A w \in Workers : Proper(call[w].targets) /\ Proper(call[w].todo)

\* A failed publish job that nobody works on stays a failed one.
Loose(j) == jobs[j].status = "failed" /\ \A w \in Workers : OnIt(w) => call[w].job # j

\* A call that counts a failure has left such a job behind.
FailuresShow ==
  \A w \in Workers : call[w].failed > 0 =>
    \E j \in 1..Len(jobs) : jobs[j].episode = call[w].episode /\ Loose(j)

Bookkeeping == Linked /\ ListsProper /\ FailuresShow

\* The lists that a call can start with.
StartsWith(list) ==
  \/ list = <<>> \/ list = Enabled \/ list \in site.targets
  \/ site.republish /\ list = Garbled
  \/ \E j \in 1..Len(jobs) : list = <<jobs[j].platform>>

\* Publish jobs keep their episode and platform.
JobsKept ==
  /\ jobs' \in Seq(PublishJob) /\ Len(jobs) <= Len(jobs')
  /\ \A j \in 1..Len(jobs) :
       jobs'[j].episode = jobs[j].episode /\ jobs'[j].platform = jobs[j].platform

\* What a step of worker w does to its call and to the publish jobs.
Tidy(w) ==
  /\ call' = [call EXCEPT ![w] = call'[w]]
  /\ site' = site /\ stop' = stop
  /\ JobsKept
  /\ \A j \in 1..Len(jobs') : j > Len(jobs) => IsEnabled(jobs'[j].platform)
  /\ \A j \in 1..Len(jobs) :
       jobs'[j] = jobs[j] \/ (OnIt(w) /\ call[w].job = j)
  /\ call'[w].pc # "idle" => w \in site.workers
  /\ call'[w].pc = "sweep" => call'[w].kind = "sweep"
  /\ call'[w].pc \in OnPlatform =>
       \/ /\ OnIt(w) /\ call'[w].job = call[w].job
          /\ call'[w].todo = call[w].todo /\ call'[w].episode = call[w].episode
       \/ /\ call'[w].job = Len(jobs) + 1 /\ call'[w].job \in 1..Len(jobs')
          /\ jobs'[call'[w].job].episode = call'[w].episode
          /\ jobs'[call'[w].job].platform = Head(call'[w].todo)
  /\ call'[w].targets = call[w].targets \/ StartsWith(call'[w].targets)
  /\ \/ call'[w].todo \in {<<>>, call[w].todo, call[w].targets}
     \/ call[w].todo # <<>> /\ call'[w].todo = Tail(call[w].todo)
  /\ call'[w].failed > 0 =>
       /\ call'[w].episode = call[w].episode
       /\ \/ call[w].failed > 0
          \/ /\ OnIt(w) /\ call'[w].pc \notin OnPlatform
             /\ jobs'[call[w].job].status = "failed"

\* The facts about the state that the steps use.
LEMMA StateFacts ==
  ASSUME IInv
  PROVE  /\ jobs \in Seq(PublishJob) /\ DOMAIN jobs = 1..Len(jobs) /\ Len(jobs) \in Nat
         /\ history \in Seq(PublishedEpisode) /\ DOMAIN history = 1..Len(history)
         /\ Len(history) \in Nat
         /\ call \in [Workers -> Call]
         /\ \A w \in Workers :
              /\ call[w] \in Call /\ Sound(call[w], jobs, history)
              /\ call[w].episode \in Episodes /\ call[w].failed \in Nat
              /\ call[w].todo \in Seq(Names) /\ call[w].targets \in Seq(Names)
              /\ call[w].attempt \in 0..MaxRetries /\ call[w].kind \in Kind
         /\ \A j \in 1..Len(jobs) : jobs[j] \in PublishJob
         /\ site \in Sites
<1>1. TypeOK /\ \A w \in Workers : Sound(call[w], jobs, history) BY DEF IInv
<1>2. jobs \in Seq(PublishJob) /\ history \in Seq(PublishedEpisode)
      /\ call \in [Workers -> Call] /\ site \in Sites
  BY <1>1 DEF TypeOK
<1>3. \A w \in Workers :
        /\ call[w] \in Call
        /\ call[w].episode \in Episodes /\ call[w].failed \in Nat
        /\ call[w].todo \in Seq(Names) /\ call[w].targets \in Seq(Names)
        /\ call[w].attempt \in 0..MaxRetries /\ call[w].kind \in Kind
  BY <1>2 DEF Call
<1>4. QED BY <1>1, <1>2, <1>3

\* What a call ends as: it has no platforms left and counts no failures.
Ended(c, d) ==
  /\ d.pc \in {"idle", "sweep", "again"} /\ d.failed = 0 /\ d.todo = <<>>
  /\ d.pc = "sweep" => d.kind = "sweep"
  /\ d.pc # "again" => d.targets = <<>>
  /\ d.pc = "again" => /\ d.targets = c.targets /\ d.kind = c.kind
                       /\ d.episode = c.episode /\ d.attempt = c.attempt + 1

LEMMA EndFacts ==
  ASSUME NEW c
  PROVE  /\ Ended(c, NoCall) /\ Ended(c, Returned(c))
         /\ Ended(c, Raised(c, FALSE))
         /\ \A t \in BOOLEAN : Ended(c, Raised(c, t))
<1>1. Ended(c, NoCall) BY DEF NoCall, Ended
<1>2. Ended(c, [NoCall EXCEPT !.pc = "sweep", !.kind = "sweep",
                      !.batch = c.batch, !.attempt = c.attempt])
  BY DEF NoCall, Ended
<1>3. Ended(c, [NoCall EXCEPT !.pc = "again", !.kind = c.kind, !.episode = c.episode,
                      !.targets = c.targets, !.attempt = c.attempt + 1])
  BY DEF NoCall, Ended
<1>4. ASSUME NEW t \in BOOLEAN PROVE Ended(c, Raised(c, t)) BY <1>1, <1>3 DEF Raised
<1>5. QED BY <1>1, <1>2, <1>4 DEF Returned

\* A step that leaves the publish jobs alone.
LEMMA SameJobsTidy ==
  ASSUME IInv, NEW w \in Workers, NEW d, Become(w, d), jobs' = jobs,
         site' = site, stop' = stop,
         d.pc # "idle" => w \in site.workers,
         d.pc = "sweep" => d.kind = "sweep",
         d.pc \in OnPlatform => /\ OnIt(w) /\ d.job = call[w].job
                                /\ d.todo = call[w].todo /\ d.episode = call[w].episode,
         d.targets = call[w].targets \/ StartsWith(d.targets),
         \/ d.todo \in {<<>>, call[w].todo, call[w].targets}
         \/ call[w].todo # <<>> /\ d.todo = Tail(call[w].todo),
         d.failed = 0 \/ (d.failed = call[w].failed /\ d.episode = call[w].episode)
  PROVE  Tidy(w)
<1>1. /\ call \in [Workers -> Call] /\ jobs \in Seq(PublishJob) /\ Len(jobs) \in Nat
      /\ call[w].failed \in Nat
  BY StateFacts
<1>2. call'[w] = d /\ call' = [call EXCEPT ![w] = d] BY <1>1
<1>3. JobsKept BY <1>1 DEF JobsKept
<1>4. QED BY <1>1, <1>2, <1>3 DEF Tidy, OnIt

LEMMA StartTidy ==
  ASSUME IInv, Linked, NEW w \in Workers, Start(w) \/ StartSweep(w)
  PROVE  Tidy(w)
<1>0. DOMAIN jobs = 1..Len(jobs) /\ call[w].pc = "idle" /\ w \in site.workers
      /\ jobs' = jobs /\ site' = site /\ stop' = stop
  BY StateFacts DEF Start, StartSweep, Request, Republish, RetryPublishJob, Ask
<1> DEFINE Begins(d) ==
      /\ Become(w, d) /\ d.pc \in {"load", "reset", "sweep"}
      /\ d.pc = "sweep" => d.kind = "sweep"
      /\ d.todo = <<>> /\ d.failed = 0 /\ StartsWith(d.targets)
<1>1. \E d : Begins(d)
  <2>1. ASSUME NEW pc \in {"load", "reset"}, NEW kind, NEW e, NEW list, StartsWith(list),
               Become(w, [NoCall EXCEPT !.pc = pc, !.kind = kind, !.episode = e,
                                        !.targets = list])
        PROVE  \E d : Begins(d)
    <3> DEFINE d == [NoCall EXCEPT !.pc = pc, !.kind = kind, !.episode = e,
                                   !.targets = list]
    <3>1. d.pc = pc /\ d.todo = <<>> /\ d.failed = 0 /\ d.targets = list BY DEF NoCall
    <3>2. Begins(d) BY <2>1, <3>1
    <3>3. QED BY <3>2
  <2>2. CASE StartSweep(w)
    <3> DEFINE d == [NoCall EXCEPT !.pc = "sweep", !.kind = "sweep",
                                   !.batch = Completed]
    <3>1. /\ d.pc = "sweep" /\ d.kind = "sweep" /\ d.todo = <<>> /\ d.failed = 0
          /\ d.targets = <<>>
      BY DEF NoCall
    <3>2. Begins(d) BY <2>2, <3>1 DEF StartSweep, StartsWith
    <3>3. QED BY <3>2
  <2> HIDE DEF Begins
  <2>3. ASSUME NEW e \in Episodes, NEW targets \in site.targets, Request(w, e, targets)
        PROVE  \E d : Begins(d)
    <3> DEFINE list == IF targets = <<>> THEN Enabled ELSE targets
    <3>1. StartsWith(list) BY DEF StartsWith
    <3>2. Become(w, [NoCall EXCEPT !.pc = "load", !.kind = "request", !.episode = e,
                                   !.targets = list])
      BY <2>3 DEF Request, Ask
    <3> HIDE DEF list
    <3>3. QED BY <2>1, <3>1, <3>2
  <2>4. ASSUME NEW j \in DOMAIN jobs, Republish(w, j)
        PROVE  \E d : Begins(d)
    <3>1. StartsWith(Garbled) BY <2>4 DEF StartsWith, Republish
    <3>2. Become(w, [NoCall EXCEPT !.pc = "load", !.kind = "republish",
                       !.episode = jobs[j].episode, !.targets = Garbled])
      BY <2>4 DEF Republish, Ask
    <3>3. QED BY <2>1, <3>1, <3>2
  <2>5. ASSUME NEW j \in DOMAIN jobs, RetryPublishJob(w, j)
        PROVE  \E d : Begins(d)
    <3> DEFINE pc == IF status[jobs[j].episode] = "failed" THEN "reset" ELSE "load"
               list == <<jobs[j].platform>>
    <3>1. StartsWith(list) /\ pc \in {"load", "reset"} BY <1>0, <2>5 DEF StartsWith
    <3>2. Become(w, [NoCall EXCEPT !.pc = pc, !.kind = "retry",
                       !.episode = jobs[j].episode, !.targets = list])
      BY <2>5 DEF RetryPublishJob, Ask
    <3> HIDE DEF list, pc
    <3>3. QED BY <2>1, <3>1, <3>2
  <2>6. QED BY <2>2, <2>3, <2>4, <2>5 DEF Start
<1>2. QED BY <1>0, <1>1, SameJobsTidy DEF OnPlatform

\* The steps of a sweep, and those that only move the call on.
LEMMA MovesTidy ==
  ASSUME IInv, Linked, NEW w \in Workers,
         \/ SweepNext(w) \/ SweepDone(w) \/ ResetEpisode(w) \/ Load(w) \/ Begin(w)
         \/ Rerun(w) \/ Finish(w) \/ DiskFails(w) \/ Crash(w)
  PROVE  Tidy(w)
<1> DEFINE c == call[w]
<1>1. /\ c.pc # "idle" /\ w \in site.workers
      /\ jobs' = jobs /\ site' = site /\ stop' = stop
  BY DEF Linked, SweepNext, SweepDone, ResetEpisode, Load, Begin, Rerun, Finish, DiskFails, Crash,
     Rows
<1>2. c.pc \in Unbegun => c.todo = <<>> /\ c.failed = 0 BY StateFacts DEF Sound
<1>3. ASSUME NEW d, Ended(c, d), Become(w, d) PROVE Tidy(w)
  BY <1>1, <1>3, SameJobsTidy DEF Ended, OnPlatform, StartsWith
<1>4. CASE \/ SweepDone(w) \/ Finish(w) \/ DiskFails(w) \/ Crash(w) \/ (Load(w) /\ Raise(w, FALSE))
  BY <1>3, <1>4, EndFacts DEF SweepDone, Finish, DiskFails, Crash, Raise, Return
<1>5. ASSUME NEW pc \in {"load", "begin"}, c.pc \in Unbegun, Goto(w, pc) PROVE Tidy(w)
  <2> DEFINE d == [c EXCEPT !.pc = pc]
  <2>1. /\ d.pc = pc /\ d.todo = c.todo /\ d.targets = c.targets /\ d.failed = c.failed
        /\ d.episode = c.episode
    BY StateFacts DEF Call
  <2>2. Become(w, d) BY <1>5
  <2> HIDE DEF d
  <2>3. QED BY <1>1, <1>2, <2>1, <2>2, SameJobsTidy DEF OnPlatform
<1>6. CASE Begin(w)
  <2> DEFINE d == [c EXCEPT !.pc = "next", !.todo = c.targets]
  <2>1. /\ d.pc = "next" /\ d.todo = c.targets /\ d.targets = c.targets
        /\ d.failed = c.failed /\ d.episode = c.episode
    BY StateFacts DEF Call
  <2>2. Become(w, d) BY <1>6 DEF Begin
  <2> HIDE DEF d
  <2>3. QED BY <1>1, <2>1, <2>2, SameJobsTidy DEF OnPlatform
<1>7. CASE SweepNext(w)
  <2>1. c.pc = "sweep" /\ c.pc \in Unbegun /\ c.kind = "sweep"
    BY <1>7 DEF SweepNext, Unbegun, Linked
  <2>2. PICK e : Become(w, IF PassOver(e)
                    THEN [c EXCEPT !.batch = @ \ {e}]
                    ELSE [c EXCEPT !.batch = @ \ {e}, !.pc = "load",
                                   !.episode = e, !.targets = Enabled])
    BY <1>7 DEF SweepNext
  <2> DEFINE d1 == [c EXCEPT !.batch = @ \ {e}]
             d2 == [c EXCEPT !.batch = @ \ {e}, !.pc = "load", !.episode = e,
                             !.targets = Enabled]
  <2>3. /\ d1.pc = "sweep" /\ d1.kind = "sweep" /\ d1.todo = c.todo /\ d1.failed = c.failed
        /\ d1.targets = c.targets
        /\ d2.pc = "load" /\ d2.todo = c.todo /\ d2.failed = c.failed
        /\ d2.targets = Enabled
    BY <2>1, StateFacts DEF Call
  <2>4. Become(w, d1) \/ Become(w, d2) BY <2>2
  <2> HIDE DEF d1, d2
  <2>5. QED BY <1>1, <1>2, <2>1, <2>3, <2>4, SameJobsTidy DEF OnPlatform, StartsWith
<1>8. CASE Rerun(w)
  <2>1. c.pc = "again" /\ c.pc \in Unbegun BY <1>8 DEF Rerun, Unbegun
  <2> DEFINE d1 == [c EXCEPT !.pc = "sweep", !.batch = Completed]
             d2 == [c EXCEPT !.pc = "load"]
  <2>2. /\ d1.pc = "sweep" /\ d1.kind = c.kind /\ d1.todo = c.todo /\ d1.failed = c.failed
        /\ d1.targets = c.targets
        /\ d2.pc = "load" /\ d2.todo = c.todo /\ d2.failed = c.failed
        /\ d2.targets = c.targets
    BY StateFacts DEF Call
  <2>3. (Become(w, d1) /\ c.kind = "sweep") \/ Become(w, d2) BY <1>8 DEF Rerun
  <2> HIDE DEF d1, d2
  <2>4. QED BY <1>1, <1>2, <2>1, <2>2, <2>3, SameJobsTidy DEF OnPlatform
<1>9. QED BY <1>4, <1>5, <1>6, <1>7, <1>8 DEF ResetEpisode, Load, Unbegun

\* d is c at another statement of the same platform.
SamePlatform(c, d) ==
  /\ d.job = c.job /\ d.todo = c.todo /\ d.targets = c.targets /\ d.episode = c.episode
  /\ d.failed = c.failed /\ d.kind = c.kind /\ d.attempt = c.attempt

\* The steps on a platform that go on with it.
LEMMA StaysOn ==
  ASSUME IInv, NEW w \in Workers,
         \/ MarkRunning(w) \/ Refused(w) \/ Unavailable(w) \/ UploadFails(w) \/ Publish(w)
         \/ MarkSucceeded(w) \/ LoadRows(w) \/ FeedFails(w)
         \/ (Record(w) /\ Platform(w) = "rss")
  PROVE  /\ OnIt(w) /\ SamePlatform(call[w], call'[w])
         /\ call' = [call EXCEPT ![w] = call'[w]]
         /\ MarkRunning(w) => call'[w].pc = "publish"
         /\ Refused(w) \/ Unavailable(w) \/ UploadFails(w) \/ FeedFails(w)
              => call'[w].pc = "failed"
         /\ Publish(w) => call'[w].pc = "mark"
         /\ MarkSucceeded(w) => call'[w].pc = "record"
         /\ Record(w) => call'[w].pc = "rows"
         /\ LoadRows(w) => call'[w].pc = "write" /\ call'[w].rows = FeedItems
<1> DEFINE c == call[w]
<1>1. c \in Call /\ call \in [Workers -> Call] BY StateFacts
<1>2. OnIt(w)
  BY DEF OnIt, OnPlatform, MarkRunning, Refused, Unavailable, UploadFails, Publish, MarkSucceeded,
     LoadRows, FeedFails, Record
<1>3. ASSUME NEW pc, Goto(w, pc)
      PROVE  /\ SamePlatform(c, call'[w]) /\ call'[w].pc = pc
             /\ call' = [call EXCEPT ![w] = call'[w]]
  <2> DEFINE d == [c EXCEPT !.pc = pc]
  <2>1. SamePlatform(c, d) /\ d.pc = pc BY <1>1 DEF Call, SamePlatform
  <2>2. call' = [call EXCEPT ![w] = d] BY <1>3
  <2> HIDE DEF d
  <2>3. QED BY <1>1, <2>1, <2>2
<1>4. ASSUME NEW then, Except(w, then)
      PROVE  /\ SamePlatform(c, call'[w]) /\ call'[w].pc = "failed"
             /\ call' = [call EXCEPT ![w] = call'[w]]
  <2> DEFINE d == [c EXCEPT !.pc = "failed", !.then = then]
  <2>1. SamePlatform(c, d) /\ d.pc = "failed" BY <1>1 DEF Call, SamePlatform
  <2>2. call' = [call EXCEPT ![w] = d] BY <1>4 DEF Except
  <2> HIDE DEF d
  <2>3. QED BY <1>1, <2>1, <2>2
<1>5. ASSUME LoadRows(w)
      PROVE  /\ SamePlatform(c, call'[w]) /\ call' = [call EXCEPT ![w] = call'[w]]
             /\ call'[w].pc = "write" /\ call'[w].rows = FeedItems
  <2> DEFINE d == [c EXCEPT !.pc = "write", !.rows = FeedItems]
  <2>1. SamePlatform(c, d) /\ d.pc = "write" /\ d.rows = FeedItems BY <1>1 DEF Call, SamePlatform
  <2>2. call' = [call EXCEPT ![w] = d] BY <1>5 DEF LoadRows
  <2> HIDE DEF d
  <2>3. QED BY <1>1, <2>1, <2>2
<1>6. /\ MarkRunning(w) => Goto(w, "publish")
      /\ Publish(w) => Goto(w, "mark")
      /\ MarkSucceeded(w) => Goto(w, "record")
      /\ Record(w) /\ Platform(w) = "rss" => Goto(w, "rows")
      /\ Refused(w) => Except(w, "next")
      /\ Unavailable(w) => Except(w, "transient")
      /\ UploadFails(w) \/ FeedFails(w) => Except(w, "permanent")
      /\ Record(w) => call[w].pc = "record"
  BY DEF MarkRunning, Publish, MarkSucceeded, Record, Refused, Unavailable, UploadFails, FeedFails
<1>7. Record(w) => Platform(w) = "rss"
  BY DEF Record, MarkRunning, Refused, Unavailable, UploadFails, Publish, MarkSucceeded, LoadRows,
     FeedFails
<1> HIDE DEF Goto
<1>8. QED BY <1>2, <1>3, <1>4, <1>5, <1>6, <1>7

\* Going on to the next platform.
NextPlatform(c, d) ==
  /\ d.pc = "next" /\ d.todo = Tail(c.todo) /\ d.targets = c.targets
  /\ d.episode = c.episode /\ d.kind = c.kind /\ d.attempt = c.attempt

LEMMA SucceedFacts ==
  ASSUME IInv, NEW w \in Workers,
         WriteFeed(w) \/ (Record(w) /\ Platform(w) # "rss")
  PROVE  /\ OnIt(w) /\ NextPlatform(call[w], call'[w])
         /\ call' = [call EXCEPT ![w] = call'[w]]
         /\ call'[w].failed = call[w].failed
<1> DEFINE c == call[w]
           d == Succeed(c)
<1>1. c \in Call /\ call \in [Workers -> Call] BY StateFacts
<1>2. OnIt(w) BY DEF OnIt, OnPlatform, WriteFeed, Record
<1>3. NextPlatform(c, d) /\ d.failed = c.failed BY <1>1 DEF Call, Succeed, NextPlatform
<1>4. call' = [call EXCEPT ![w] = d] BY DEF WriteFeed, Record
<1> HIDE DEF d
<1>5. QED BY <1>1, <1>2, <1>3, <1>4

\* The job a call works on is saved.
LEMMA SetJobFacts ==
  ASSUME IInv, NEW w \in Workers, OnIt(w), NEW to \in PublishJobStatus, SetJob(w, to)
  PROVE  /\ jobs' \in Seq(PublishJob) /\ Len(jobs') = Len(jobs)
         /\ call[w].job \in 1..Len(jobs)
         /\ jobs'[call[w].job].status = to
         /\ JobsKept
         /\ \A j \in 1..Len(jobs) : j # call[w].job => jobs'[j] = jobs[j]
<1> DEFINE k == call[w].job
           job == [jobs[k] EXCEPT !.status = to]
<1>1. /\ jobs \in Seq(PublishJob) /\ Len(jobs) \in Nat
      /\ k \in 1..Len(jobs) /\ jobs[k] \in PublishJob
  BY StateFacts, PlatformFacts DEF OnIt
<1>2. /\ job \in PublishJob /\ job.status = to /\ job.episode = jobs[k].episode
      /\ job.platform = jobs[k].platform
  BY <1>1 DEF PublishJob
<1>3. jobs' = [jobs EXCEPT ![k] = job] BY DEF SetJob
<1> HIDE DEF job
<1>4. /\ jobs' \in Seq(PublishJob) /\ Len(jobs') = Len(jobs)
      /\ jobs'[k] = job
      /\ \A j \in 1..Len(jobs) : j # k => jobs'[j] = jobs[j]
  BY <1>1, <1>2, <1>3
<1>5. JobsKept BY <1>1, <1>2, <1>4 DEF JobsKept
<1>6. QED BY <1>1, <1>2, <1>4, <1>5

\* A failure is marked: the call goes on, or ends.
LEMMA MarkFailedFacts ==
  ASSUME IInv, NEW w \in Workers, MarkFailed(w)
  PROVE  /\ OnIt(w) /\ call' = [call EXCEPT ![w] = call'[w]]
         /\ SetJob(w, "failed")
         /\ NextPlatform(call[w], call'[w]) \/ Ended(call[w], call'[w])
<1> DEFINE c == call[w]
<1>1. c \in Call /\ call \in [Workers -> Call] BY StateFacts
<1>2. OnIt(w) /\ SetJob(w, "failed") BY DEF OnIt, OnPlatform, MarkFailed
<1>3. CASE c.then = "next"
  <2> DEFINE d == [c EXCEPT !.pc = "next", !.todo = Tail(@), !.failed = @ + 1, !.job = 0]
  <2>1. NextPlatform(c, d) BY <1>1 DEF Call, NextPlatform
  <2>2. call' = [call EXCEPT ![w] = d] BY <1>3 DEF MarkFailed
  <2> HIDE DEF d
  <2>3. QED BY <1>1, <1>2, <2>1, <2>2
<1>4. CASE c.then # "next"
  <2> DEFINE d == Raised(c, c.then = "transient")
  <2>1. Ended(c, d) BY EndFacts
  <2>2. call' = [call EXCEPT ![w] = d] BY <1>4 DEF MarkFailed, Raise
  <2> HIDE DEF d
  <2>3. QED BY <1>1, <1>2, <2>1, <2>2
<1>5. QED BY <1>3, <1>4

\* The step that creates a job.
LEMMA CreateJobFacts ==
  ASSUME IInv, NEW w \in Workers, CreateJob(w)
  PROVE  LET c == call[w]  d == call'[w] IN
         /\ c.pc = "next" /\ c.todo # <<>>
         /\ call' = [call EXCEPT ![w] = call'[w]]
         /\ \/ /\ IsEnabled(Head(c.todo))
               /\ d.pc = "check" /\ d.job = Len(jobs) + 1 /\ d.todo = c.todo
               /\ d.targets = c.targets /\ d.episode = c.episode
               /\ d.failed = c.failed /\ d.kind = c.kind /\ d.attempt = c.attempt
               /\ jobs' \in Seq(PublishJob) /\ Len(jobs') = Len(jobs) + 1
               /\ \A j \in 1..Len(jobs) : jobs'[j] = jobs[j]
               /\ jobs'[Len(jobs) + 1] = [episode |-> c.episode, platform |-> Head(c.todo),
                                          status |-> "pending"]
            \/ /\ ~IsEnabled(Head(c.todo))
               /\ Ended(c, d) /\ d.pc # "again" /\ jobs' = jobs
<1> DEFINE c == call[w]
           p == Head(c.todo)
<1>1. /\ c \in Call /\ call \in [Workers -> Call] /\ jobs \in Seq(PublishJob)
      /\ c.episode \in Episodes /\ Len(jobs) \in Nat
  BY StateFacts
<1>2. c.pc = "next" /\ c.todo # <<>> BY DEF CreateJob
<1>3. CASE IsEnabled(p)
  <2> DEFINE j == [episode |-> c.episode, platform |-> p, status |-> "pending"]
             d == [c EXCEPT !.pc = "check", !.job = Len(jobs) + 1]
  <2>1. p \in Platforms BY <1>3, PublishAssumption DEF IsEnabled
  <2>2. j \in PublishJob BY <1>1, <2>1 DEF PublishJob, PublishJobStatus
  <2>3. jobs' = Append(jobs, j) /\ call' = [call EXCEPT ![w] = d] BY <1>3 DEF CreateJob
  <2>4. /\ d.pc = "check" /\ d.job = Len(jobs) + 1 /\ d.todo = c.todo
        /\ d.targets = c.targets /\ d.episode = c.episode
        /\ d.failed = c.failed /\ d.kind = c.kind /\ d.attempt = c.attempt
    BY <1>1 DEF Call
  <2> HIDE DEF j
  <2>5. /\ jobs' \in Seq(PublishJob) /\ Len(jobs') = Len(jobs) + 1
        /\ \A i \in 1..Len(jobs) : jobs'[i] = jobs[i]
        /\ jobs'[Len(jobs) + 1] = j
    BY <1>1, <2>2, <2>3
  <2> HIDE DEF d
  <2>6. call'[w] = d BY <1>1, <2>3
  <2>7. QED BY <1>2, <1>3, <2>3, <2>4, <2>5, <2>6 DEF j
<1>4. CASE ~IsEnabled(p)
  <2> DEFINE d == Raised(c, FALSE)
  <2>1. Ended(c, d) /\ d.pc # "again" BY EndFacts DEF Raised, NoCall
  <2>2. jobs' = jobs /\ call' = [call EXCEPT ![w] = d] BY <1>4 DEF CreateJob, Raise
  <2> HIDE DEF d
  <2>3. QED BY <1>1, <1>2, <1>4, <2>1, <2>2
<1>5. QED BY <1>3, <1>4

\* The steps on a platform are tidy.
LEMMA PlatformTidy ==
  ASSUME IInv, IInv', Linked, NEW w \in Workers,
         \/ CreateJob(w) \/ MarkRunning(w) \/ Refused(w) \/ Unavailable(w)
         \/ UploadFails(w) \/ Publish(w) \/ MarkSucceeded(w) \/ Record(w)
         \/ LoadRows(w) \/ FeedFails(w) \/ WriteFeed(w) \/ MarkFailed(w)
  PROVE  Tidy(w)
<1> DEFINE c == call[w]
           d == call'[w]
<1>1. /\ jobs \in Seq(PublishJob) /\ Len(jobs) \in Nat /\ c.failed \in Nat
      /\ site' = site /\ stop' = stop
  BY StateFacts DEF CreateJob, MarkRunning, Refused, Unavailable, UploadFails, Publish,
     MarkSucceeded, Record, LoadRows, FeedFails, WriteFeed, MarkFailed, Except, Rows
<1>2. c.pc # "idle" /\ w \in site.workers
  BY DEF Linked, CreateJob, MarkRunning, Refused, Unavailable, UploadFails, Publish, MarkSucceeded,
     Record, LoadRows, FeedFails, WriteFeed, MarkFailed
<1>3. OnIt(w) => c.todo # <<>> BY PlatformFacts DEF OnIt
<1>4. ASSUME jobs' = jobs
      PROVE  /\ JobsKept
             /\ \A j \in 1..Len(jobs') : j > Len(jobs) => IsEnabled(jobs'[j].platform)
             /\ \A j \in 1..Len(jobs) : jobs'[j] = jobs[j] \/ (OnIt(w) /\ call[w].job = j)
  BY <1>1, <1>4 DEF JobsKept
<1>5. ASSUME NEW to \in PublishJobStatus, OnIt(w), SetJob(w, to)
      PROVE  /\ JobsKept
             /\ \A j \in 1..Len(jobs') : j > Len(jobs) => IsEnabled(jobs'[j].platform)
             /\ \A j \in 1..Len(jobs) : jobs'[j] = jobs[j] \/ (OnIt(w) /\ call[w].job = j)
  BY <1>1, <1>5, SetJobFacts
<1>6. CASE \/ MarkRunning(w) \/ Refused(w) \/ Unavailable(w) \/ UploadFails(w) \/ Publish(w)
           \/ MarkSucceeded(w) \/ LoadRows(w) \/ FeedFails(w)
           \/ (Record(w) /\ Platform(w) = "rss")
  <2>1. /\ OnIt(w) /\ SamePlatform(c, d) /\ call' = [call EXCEPT ![w] = d]
        /\ d.pc \notin {"idle", "sweep"}
    BY <1>6, StaysOn
  <2>2. jobs' = jobs \/ (\E to \in PublishJobStatus : SetJob(w, to))
    BY <1>6 DEF MarkRunning, Refused, Unavailable, UploadFails, Publish, MarkSucceeded, Record,
       LoadRows, FeedFails, Except, Rows, PublishJobStatus
  <2>3. QED BY <1>1, <1>2, <1>4, <1>5, <2>1, <2>2 DEF Tidy, SamePlatform
<1>7. CASE WriteFeed(w) \/ (Record(w) /\ Platform(w) # "rss")
  <2>1. /\ OnIt(w) /\ NextPlatform(c, d) /\ call' = [call EXCEPT ![w] = d]
        /\ d.failed = c.failed
    BY <1>7, SucceedFacts
  <2>2. jobs' = jobs BY <1>7 DEF WriteFeed, Record
  <2>3. QED BY <1>1, <1>2, <1>3, <1>4, <2>1, <2>2 DEF Tidy, NextPlatform, OnPlatform
<1>8. CASE MarkFailed(w)
  <2>1. /\ OnIt(w) /\ call' = [call EXCEPT ![w] = d] /\ SetJob(w, "failed")
        /\ NextPlatform(c, d) \/ Ended(c, d)
    BY <1>8, MarkFailedFacts
  <2>2. "failed" \in PublishJobStatus BY DEF PublishJobStatus
  <2>3. jobs'[c.job].status = "failed" BY <2>1, <2>2, SetJobFacts
  <2>4. CASE NextPlatform(c, d)
    BY <1>1, <1>2, <1>3, <1>5, <2>1, <2>2, <2>3, <2>4 DEF Tidy, NextPlatform, OnPlatform
  <2>5. CASE Ended(c, d)
    BY <1>1, <1>2, <1>5, <2>1, <2>2, <2>5 DEF Tidy, Ended, OnPlatform, StartsWith
  <2>6. QED BY <2>1, <2>4, <2>5
<1>9. CASE CreateJob(w)
  <2>1. CASE IsEnabled(Head(c.todo))
    <3>1. /\ c.pc = "next" /\ c.todo # <<>>
          /\ call' = [call EXCEPT ![w] = d]
          /\ d.pc = "check" /\ d.job = Len(jobs) + 1 /\ d.todo = c.todo
          /\ d.targets = c.targets /\ d.episode = c.episode /\ d.failed = c.failed
          /\ jobs' \in Seq(PublishJob) /\ Len(jobs') = Len(jobs) + 1
          /\ \A j \in 1..Len(jobs) : jobs'[j] = jobs[j]
          /\ jobs'[Len(jobs) + 1] = [episode |-> c.episode, platform |-> Head(c.todo),
                                     status |-> "pending"]
      BY <1>9, <2>1, CreateJobFacts
    <3>2. JobsKept BY <1>1, <3>1 DEF JobsKept
    <3>3. \A j \in 1..Len(jobs') : j > Len(jobs) => IsEnabled(jobs'[j].platform) BY <1>1, <2>1, <3>1
    <3>4. d.job \in 1..Len(jobs') /\ jobs'[d.job].episode = d.episode
          /\ jobs'[d.job].platform = Head(d.todo)
      BY <1>1, <3>1
    <3>5. QED BY <1>1, <1>2, <3>1, <3>2, <3>3, <3>4 DEF Tidy
  <2>2. CASE ~IsEnabled(Head(c.todo))
    <3>1. call' = [call EXCEPT ![w] = d] /\ Ended(c, d) /\ jobs' = jobs
      BY <1>9, <2>2, CreateJobFacts
    <3>2. QED BY <1>1, <1>2, <1>4, <3>1 DEF Tidy, Ended, OnPlatform, StartsWith
  <2>3. QED BY <2>1, <2>2
<1>10. QED BY <1>6, <1>7, <1>8, <1>9

\* Every step of a worker is tidy.
LEMMA WorkerTidy ==
  ASSUME IInv, IInv', Linked, NEW w \in Workers,
         Start(w) \/ StartSweep(w) \/ Advance(w) \/ Crash(w)
  PROVE  Tidy(w)
BY StartTidy, MovesTidy, PlatformTidy DEF Advance

\* A list that a call can start with is proper if people ask properly.
LEMMA StartsProper ==
  ASSUME IInv, Linked, NEW list, StartsWith(list)
  PROVE  Proper(list)
<1>1. site \in Sites /\ (\A j \in 1..Len(jobs) : IsEnabled(jobs[j].platform))
  BY StateFacts DEF Linked
<1>2. CASE list = <<>> BY <1>2 DEF Proper
<1>3. CASE list = Enabled BY <1>3, PublishAssumption DEF Proper, IsEnabled, IsInjective
<1>4. CASE list \in site.targets
  <2>1. list \in Seq(Platforms) /\ DOMAIN list = 1..Len(list) BY <1>1, <1>4, PublishAssumption
  <2>2. QED BY <1>4, <2>1 DEF Proper, AsksForEnabled, AsksForEachOnce, IsInjective
<1>5. CASE site.republish /\ list = Garbled BY <1>5 DEF Proper, Garbled
<1>6. CASE \E j \in 1..Len(jobs) : list = <<jobs[j].platform>> BY <1>1, <1>6 DEF Proper
<1>7. QED BY <1>2, <1>3, <1>4, <1>5, <1>6 DEF StartsWith

\* The rest of a proper list is proper.
LEMMA TailProper ==
  ASSUME NEW list \in Seq(Names), list # <<>>, Proper(list)
  PROVE  /\ Proper(Tail(list))
         /\ AsksForEachOnce => \A i \in 1..Len(Tail(list)) : Tail(list)[i] # Head(list)
<1>1. /\ Len(Tail(list)) = Len(list) - 1 /\ Len(list) \in Nat \ {0}
      /\ \A i \in 1..Len(Tail(list)) : Tail(list)[i] = list[i + 1] /\ i + 1 \in 1..Len(list)
      /\ Head(list) = list[1] /\ 1 \in 1..Len(list)
  OBVIOUS
<1>2. QED BY <1>1 DEF Proper

\* A tidy step keeps the books in order.
LEMMA TidyKeeps ==
  ASSUME IInv, IInv', Bookkeeping, NEW w \in Workers, Tidy(w)
  PROVE  Bookkeeping'
<1>1. /\ \A v \in Workers : v # w => call'[v] = call[v]
      /\ Len(jobs) \in Nat /\ Len(jobs') \in Nat
      /\ \A v \in Workers : OnIt(v) => call[v].job \in 1..Len(jobs)
  BY StateFacts, PlatformFacts DEF Tidy, OnIt, JobsKept
<1>2. Linked'
  <2>1. \A v \in Workers : call'[v].pc # "idle" => v \in site'.workers
    BY <1>1 DEF Bookkeeping, Linked, Tidy
  <2>2. \A v \in Workers : call'[v].pc = "sweep" => call'[v].kind = "sweep"
    BY <1>1 DEF Bookkeeping, Linked, Tidy
  <2>3. \A v \in Workers : OnIt(v)' =>
          /\ jobs'[call'[v].job].episode = call'[v].episode
          /\ jobs'[call'[v].job].platform = Head(call'[v].todo)
    <3>1. ASSUME NEW v \in Workers, OnIt(v)
          PROVE  /\ jobs'[call[v].job].episode = call[v].episode
                 /\ jobs'[call[v].job].platform = Head(call[v].todo)
      BY <1>1, <3>1 DEF Bookkeeping, Linked, Tidy, JobsKept
    <3>2. ASSUME NEW v \in Workers, v # w, OnIt(v)'
          PROVE  /\ jobs'[call'[v].job].episode = call'[v].episode
                 /\ jobs'[call'[v].job].platform = Head(call'[v].todo)
      BY <1>1, <3>1, <3>2 DEF OnIt
    <3>3. ASSUME OnIt(w)'
          PROVE  /\ jobs'[call'[w].job].episode = call'[w].episode
                 /\ jobs'[call'[w].job].platform = Head(call'[w].todo)
      BY <3>1, <3>3 DEF OnIt, Tidy
    <3>4. QED BY <3>2, <3>3
  <2>4. \A u, v \in Workers : OnIt(u)' /\ OnIt(v)' /\ call'[u].job = call'[v].job => u = v
    BY <1>1 DEF Bookkeeping, Linked, Tidy, OnIt
  <2>5. \A j \in 1..Len(jobs') : IsEnabled(jobs'[j].platform)
    BY <1>1 DEF Bookkeeping, Linked, Tidy, JobsKept
  <2>6. QED BY <2>1, <2>2, <2>3, <2>4, <2>5 DEF Linked
<1>3. ListsProper'
  <2>1. AsksForEnabled' = AsksForEnabled /\ AsksForEachOnce' = AsksForEachOnce
        /\ site' = site
    BY DEF Tidy, AsksForEnabled, AsksForEachOnce
  <2>2. ASSUME NEW v \in Workers PROVE Proper(call'[v].targets) /\ Proper(call'[v].todo)
    <3>1. CASE v # w BY <1>1, <3>1 DEF Bookkeeping, ListsProper
    <3>2. CASE v = w
      <4>1. Proper(call[w].targets) /\ Proper(call[w].todo) /\ call[w].todo \in Seq(Names)
        BY StateFacts DEF Bookkeeping, ListsProper
      <4>2. Proper(call'[w].targets) BY <4>1, StartsProper DEF Tidy, Bookkeeping
      <4>3. Proper(<<>>) BY DEF Proper
      <4>4. Proper(call'[w].todo) BY <4>1, <4>3, TailProper DEF Tidy
      <4>5. QED BY <3>2, <4>2, <4>4
    <3>3. QED BY <3>1, <3>2
  <2>3. QED BY <2>1, <2>2 DEF ListsProper, Proper
<1>4. ASSUME NEW v \in Workers, call'[v].failed > 0
      PROVE  \E j \in 1..Len(jobs') : jobs'[j].episode = call'[v].episode /\ Loose(j)'
  <2>1. ASSUME NEW j \in 1..Len(jobs), Loose(j)
        PROVE  j \in 1..Len(jobs') /\ jobs'[j].episode = jobs[j].episode /\ Loose(j)'
    <3>1. jobs'[j] = jobs[j] /\ j \in 1..Len(jobs') BY <1>1, <2>1 DEF Loose, Tidy, JobsKept
    <3>2. \A u \in Workers : OnIt(u)' => call'[u].job # j BY <1>1, <2>1 DEF Loose, Tidy, OnIt
    <3>3. QED BY <2>1, <3>1, <3>2 DEF Loose
  <2>2. CASE call[v].failed > 0 /\ call'[v].episode = call[v].episode
    <3>1. PICK j \in 1..Len(jobs) : jobs[j].episode = call[v].episode /\ Loose(j)
      BY <2>2 DEF Bookkeeping, FailuresShow
    <3>2. QED BY <2>1, <2>2, <3>1
  <2>3. CASE v = w /\ OnIt(w) /\ call'[w].pc \notin OnPlatform
               /\ call'[w].episode = call[w].episode /\ jobs'[call[w].job].status = "failed"
    <3> DEFINE j == call[w].job
    <3>1. j \in 1..Len(jobs) /\ j \in 1..Len(jobs') BY <1>1, <2>3 DEF Tidy, JobsKept
    <3>2. jobs'[j].episode = call'[w].episode BY <2>3, <3>1 DEF Tidy, JobsKept, Bookkeeping, Linked
    <3>3. \A u \in Workers : OnIt(u)' => call'[u].job # j
      BY <1>1, <2>3, <3>1 DEF OnIt, Bookkeeping, Linked
    <3>4. QED BY <2>3, <3>1, <3>2, <3>3 DEF Loose
  <2>4. QED BY <1>1, <1>4, <2>2, <2>3 DEF Tidy
<1>5. QED BY <1>2, <1>3, <1>4 DEF Bookkeeping, FailuresShow

\* An operator's step: a job may fail, and no call moves.
LEMMA CancelFacts ==
  ASSUME IInv, NEW o \in Operators, Cancel(o)
  PROVE  /\ JobsKept /\ Len(jobs') = Len(jobs)
         /\ \A j \in 1..Len(jobs) : jobs'[j] = jobs[j] \/ jobs'[j].status = "failed"
         /\ UNCHANGED <<site, status, shelf, history, uploads, feed, requests, call>>
<1>1. /\ jobs \in Seq(PublishJob) /\ Len(jobs) \in Nat /\ DOMAIN jobs = 1..Len(jobs)
      /\ stop \in [Operators -> {0} \cup 1..Len(jobs)]
  BY StateFacts DEF IInv, TypeOK
<1>2. CASE \E j \in DOMAIN jobs : CancelLoad(o, j) BY <1>1, <1>2 DEF CancelLoad, Rows, JobsKept
<1>3. CASE CancelSave(o)
  <2> DEFINE k == stop[o]
             job == [jobs[k] EXCEPT !.status = "failed"]
  <2>1. k \in 1..Len(jobs) /\ jobs[k] \in PublishJob BY <1>1, <1>3 DEF CancelSave
  <2>2. /\ job \in PublishJob /\ job.status = "failed" /\ job.episode = jobs[k].episode
        /\ job.platform = jobs[k].platform
    BY <2>1 DEF PublishJob, PublishJobStatus
  <2>3. jobs' = [jobs EXCEPT ![k] = job] BY <1>3 DEF CancelSave
  <2>4. UNCHANGED <<site, status, shelf, history, uploads, feed, requests, call>>
    BY <1>3 DEF CancelSave
  <2> HIDE DEF job, k
  <2>5. /\ jobs' \in Seq(PublishJob) /\ Len(jobs') = Len(jobs)
        /\ \A j \in 1..Len(jobs) : jobs'[j] = IF j = k THEN job ELSE jobs[j]
    BY <1>1, <2>1, <2>2, <2>3
  <2>6. QED BY <1>1, <2>1, <2>2, <2>4, <2>5 DEF JobsKept
<1>4. QED BY <1>2, <1>3 DEF Cancel

\* A cancellation keeps the books in order.
LEMMA CancelKeeps ==
  ASSUME IInv, Bookkeeping, NEW o \in Operators, Cancel(o)
  PROVE  Bookkeeping'
<1>1. /\ JobsKept /\ Len(jobs') = Len(jobs) /\ call' = call /\ site' = site
      /\ \A j \in 1..Len(jobs) : jobs'[j] = jobs[j] \/ jobs'[j].status = "failed"
  BY CancelFacts
<1>2. \A v \in Workers : OnIt(v) => call[v].job \in 1..Len(jobs) BY PlatformFacts DEF OnIt
<1>3. Linked'
  <2>1. \A v \in Workers : OnIt(v)' =>
          /\ jobs'[call'[v].job].episode = call'[v].episode
          /\ jobs'[call'[v].job].platform = Head(call'[v].todo)
    BY <1>1, <1>2 DEF Bookkeeping, Linked, OnIt, JobsKept
  <2>2. \A j \in 1..Len(jobs') : IsEnabled(jobs'[j].platform)
    BY <1>1 DEF Bookkeeping, Linked, JobsKept
  <2>3. QED BY <1>1, <2>1, <2>2 DEF Bookkeeping, Linked, OnIt
<1>4. ListsProper' BY <1>1 DEF Bookkeeping, ListsProper, Proper, AsksForEnabled, AsksForEachOnce
<1>5. FailuresShow'
  <2>1. \A j \in 1..Len(jobs) : Loose(j) =>
          jobs'[j].episode = jobs[j].episode /\ Loose(j)'
    BY <1>1 DEF Loose, OnIt, JobsKept
  <2>2. QED BY <1>1, <2>1 DEF Bookkeeping, FailuresShow
<1>6. QED BY <1>3, <1>4, <1>5 DEF Bookkeeping

-----------------------------------------------------------------------------
(* Videos, publish jobs and history rows.                                  *)

\* Workers that have published an episode and not recorded it, ...
Uploading(e) == {w \in Workers : /\ call[w].pc \in {"mark", "record"}
                                 /\ call[w].episode = e /\ Platform(w) = "youtube"}
\* ... that have completed the publish job, ...
Recording(e, p) == {w \in Workers : /\ call[w].pc = "record"
                                    /\ call[w].episode = e /\ Platform(w) = p}
\* ... and the publish jobs that are completed.
Finished(e, p) == {j \in DOMAIN jobs : /\ jobs[j].episode = e
                                       /\ jobs[j].platform = p
                                       /\ jobs[j].status = "completed"}

\* Unless workers die, what the history lacks is what workers still owe it.
Balanced ==
  ~Fault("crash") =>
    \A e \in Episodes :
      /\ uploads[e] = Count(e, "youtube") + Cardinality(Uploading(e))
      /\ \A p \in Platforms :
           Cardinality(Finished(e, p)) <= Count(e, p) + Cardinality(Recording(e, p))

\* The sets that are counted are finite.
LEMMA SetsFinite ==
  ASSUME IInv, NEW e, NEW p
  PROVE  /\ IsFiniteSet(Uploading(e)) /\ Cardinality(Uploading(e)) \in Nat
         /\ IsFiniteSet(Recording(e, p)) /\ Cardinality(Recording(e, p)) \in Nat
         /\ IsFiniteSet(Finished(e, p)) /\ Cardinality(Finished(e, p)) \in Nat
         /\ Count(e, p) \in Nat
<1>1. IsFiniteSet(Workers) /\ Uploading(e) \in SUBSET Workers
      /\ Recording(e, p) \in SUBSET Workers
  BY PublishAssumption DEF Uploading, Recording
<1>2. IsFiniteSet(1..Len(jobs)) /\ IsFiniteSet(1..Len(history)) BY StateFacts, FS_Interval
<1>3. Finished(e, p) \in SUBSET (1..Len(jobs)) BY StateFacts DEF Finished
<1> DEFINE S == {i \in DOMAIN history : history[i] = [episode |-> e, platform |-> p]}
<1>4. S \in SUBSET (1..Len(history)) BY StateFacts
<1>5. IsFiniteSet(S) /\ Count(e, p) = Cardinality(S) BY <1>2, <1>4, FS_Subset DEF Count
<1>6. QED BY <1>1, <1>2, <1>3, <1>5, FS_Subset, FS_CardinalityType

\* One more row of the history is one more to count.
LEMMA CountAppend ==
  ASSUME IInv, NEW e, NEW p, NEW r, history' = Append(history, r)
  PROVE  Count(e, p)' = IF r = [episode |-> e, platform |-> p]
                        THEN Count(e, p) + 1 ELSE Count(e, p)
<1> DEFINE x == [episode |-> e, platform |-> p]
           n == Len(history)
           S == {i \in 1..n : history[i] = x}
           T == {i \in 1..n + 1 : history'[i] = x}
<1>1. n \in Nat /\ DOMAIN history = 1..n /\ DOMAIN history' = 1..n + 1
      /\ history'[n + 1] = r /\ (\A i \in 1..n : history'[i] = history[i])
  BY StateFacts
<1>2. Count(e, p) = Cardinality(S) /\ Count(e, p)' = Cardinality(T) BY <1>1 DEF Count
<1>3. IsFiniteSet(S)
  <2>1. S \in SUBSET (1..n)
    OBVIOUS
  <2>2. IsFiniteSet(1..n) BY <1>1, FS_Interval
  <2>3. QED BY <2>1, <2>2, FS_Subset
<1>4. CASE r = x
  <2>1. T = S \cup {n + 1} /\ n + 1 \notin S BY <1>1, <1>4
  <2>2. QED BY <1>2, <1>3, <1>4, <2>1, FS_AddElement
<1>5. CASE r # x
  <2>1. T = S BY <1>1, <1>5
  <2>2. QED BY <1>2, <1>5, <2>1
<1>6. QED BY <1>4, <1>5

\* The other workers owe what they owed.
LEMMA OthersOwe ==
  ASSUME IInv, NEW w \in Workers, Tidy(w)
  PROVE  \A v \in Workers : v # w =>
           /\ call'[v] = call[v]
           /\ OnIt(v) => Platform(v)' = Platform(v)
<1>1. \A v \in Workers : OnIt(v) => call[v].job \in 1..Len(jobs) BY PlatformFacts DEF OnIt
<1>2. QED BY <1>1, StateFacts DEF Tidy, JobsKept, Platform

\* A step that publishes and records nothing and completes no job.
LEMMA QuietBalance ==
  ASSUME IInv, IInv', Bookkeeping, Balanced, NEW w \in Workers, Tidy(w),
         history' = history, uploads' = uploads,
         call[w].pc \notin {"mark", "record"}, call'[w].pc \notin {"mark", "record"},
         \A j \in 1..Len(jobs') : jobs'[j].status = "completed" =>
           j \in 1..Len(jobs) /\ jobs[j].status = "completed"
  PROVE  Balanced'
<1>1. ASSUME NEW e \in Episodes PROVE Uploading(e)' = Uploading(e)
  BY OthersOwe DEF Uploading, OnIt, OnPlatform
<1>2. ASSUME NEW e \in Episodes, NEW p \in Platforms
      PROVE  Recording(e, p)' = Recording(e, p)
  BY OthersOwe DEF Recording, OnIt, OnPlatform
<1>3. ASSUME NEW e \in Episodes, NEW p \in Platforms
      PROVE  Cardinality(Finished(e, p)') <= Cardinality(Finished(e, p))
  <2>1. DOMAIN jobs = 1..Len(jobs) /\ DOMAIN jobs' = 1..Len(jobs') BY StateFacts DEF Tidy, JobsKept
  <2>2. Finished(e, p)' \in SUBSET Finished(e, p) BY <2>1 DEF Finished, Tidy, JobsKept
  <2>3. QED BY <2>2, SetsFinite, FS_Subset
<1>4. \A e \in Episodes, p \in Platforms : Count(e, p)' = Count(e, p) BY DEF Count
<1>5. site' = site BY DEF Tidy
<1>6. ASSUME ~Fault("crash"), NEW e \in Episodes
      PROVE  /\ uploads'[e] = Count(e, "youtube")' + Cardinality(Uploading(e)')
             /\ \A p \in Platforms :
                  Cardinality(Finished(e, p)') <= Count(e, p)' + Cardinality(Recording(e, p)')
  <2>1. uploads'[e] = Count(e, "youtube")' + Cardinality(Uploading(e)')
    BY <1>1, <1>4, <1>6 DEF Balanced
  <2>2. ASSUME NEW p \in Platforms
        PROVE  Cardinality(Finished(e, p)') <= Count(e, p)' + Cardinality(Recording(e, p)')
    <3>1. Cardinality(Finished(e, p)) <= Count(e, p) + Cardinality(Recording(e, p))
      BY <1>6 DEF Balanced
    <3>2. /\ Cardinality(Finished(e, p)) \in Nat /\ Cardinality(Recording(e, p)) \in Nat
          /\ Count(e, p) \in Nat
      BY SetsFinite
    <3>3. Cardinality(Finished(e, p)') \in Nat
      <4>1. Finished(e, p)' \in SUBSET (1..Len(jobs')) BY DEF Finished, Tidy, JobsKept
      <4>2. IsFiniteSet(1..Len(jobs')) BY FS_Interval DEF Tidy, JobsKept
      <4>3. QED BY <4>1, <4>2, FS_Subset, FS_CardinalityType
    <3>4. QED BY <1>2, <1>3, <1>4, <3>1, <3>2, <3>3
  <2>3. QED BY <2>1, <2>2
<1>7. QED BY <1>5, <1>6 DEF Balanced, Fault

\* A video is uploaded, or the item of the feed is prepared.
LEMMA PublishBalance ==
  ASSUME IInv, IInv', Bookkeeping, Balanced, NEW w \in Workers, Tidy(w), Publish(w)
  PROVE  Balanced'
<1> DEFINE c == call[w]
           q == Platform(w)
<1>1. /\ OnIt(w) /\ SamePlatform(c, call'[w]) /\ c.pc = "publish" /\ call'[w].pc = "mark"
      /\ jobs' = jobs /\ history' = history /\ site' = site
      /\ uploads' = IF q = "youtube" THEN [uploads EXCEPT ![c.episode] = @ + 1] ELSE uploads
      /\ uploads \in [Episodes -> Nat] /\ Platform(w)' = q
  BY StaysOn DEF Publish, IInv, TypeOK, SamePlatform, Platform
<1>2. ASSUME NEW e \in Episodes, NEW p \in Platforms
      PROVE  /\ Recording(e, p)' = Recording(e, p) /\ Finished(e, p)' = Finished(e, p)
             /\ Count(e, p)' = Count(e, p)
  BY <1>1, OthersOwe DEF Recording, Finished, Count, OnIt, OnPlatform
<1>3. ASSUME NEW e \in Episodes
      PROVE  Uploading(e)' = IF e = c.episode /\ q = "youtube"
                             THEN Uploading(e) \cup {w} ELSE Uploading(e)
  BY <1>1, OthersOwe DEF Uploading, SamePlatform, OnIt, OnPlatform
<1>4. \A e : w \notin Uploading(e) BY <1>1 DEF Uploading
<1>5. ASSUME ~Fault("crash"), NEW e \in Episodes
      PROVE  uploads'[e] = Count(e, "youtube")' + Cardinality(Uploading(e)')
  <2>1. /\ uploads[e] = Count(e, "youtube") + Cardinality(Uploading(e))
        /\ Count(e, "youtube") \in Nat /\ Cardinality(Uploading(e)) \in Nat
        /\ IsFiniteSet(Uploading(e)) /\ Count(e, "youtube")' = Count(e, "youtube")
    BY <1>2, <1>5, SetsFinite DEF Balanced
  <2>2. CASE e = c.episode /\ q = "youtube"
    <3>1. Cardinality(Uploading(e)') = Cardinality(Uploading(e)) + 1
      BY <1>3, <1>4, <2>1, <2>2, FS_AddElement
    <3>2. uploads'[e] = uploads[e] + 1 BY <1>1, <2>2
    <3>3. QED BY <2>1, <3>1, <3>2
  <2>3. CASE ~(e = c.episode /\ q = "youtube")
    <3>1. uploads'[e] = uploads[e] BY <1>1, <2>3
    <3>2. Uploading(e)' = Uploading(e) BY <1>3, <2>3
    <3>3. QED BY <2>1, <3>1, <3>2
  <2>4. QED BY <2>2, <2>3
<1>6. QED BY <1>1, <1>2, <1>5 DEF Balanced, Fault

\* A publish job is completed.
LEMMA MarkBalance ==
  ASSUME IInv, IInv', Bookkeeping, Balanced, NEW w \in Workers, Tidy(w), MarkSucceeded(w)
  PROVE  Balanced'
<1> DEFINE c == call[w]
           q == Platform(w)
           k == c.job
<1>1. /\ OnIt(w) /\ SamePlatform(c, call'[w]) /\ c.pc = "mark" /\ call'[w].pc = "record"
      /\ history' = history /\ uploads' = uploads /\ site' = site
  BY StaysOn DEF MarkSucceeded
<1>2. /\ Len(jobs') = Len(jobs) /\ k \in 1..Len(jobs) /\ JobsKept
      /\ DOMAIN jobs = 1..Len(jobs) /\ DOMAIN jobs' = 1..Len(jobs)
      /\ \A j \in 1..Len(jobs) : j # k => jobs'[j] = jobs[j]
      /\ jobs[k].episode = c.episode
  <2>1. "completed" \in PublishJobStatus /\ SetJob(w, "completed")
    BY DEF PublishJobStatus, MarkSucceeded
  <2>2. QED BY <1>1, <2>1, SetJobFacts, StateFacts DEF JobsKept, Bookkeeping, Linked
<1>3. Platform(w)' = q BY <1>1, <1>2 DEF Platform, JobsKept, SamePlatform
<1>4. ASSUME NEW e \in Episodes, NEW p \in Platforms
      PROVE  Count(e, p)' = Count(e, p) /\ Uploading(e)' = Uploading(e)
  <2>1. Count(e, p)' = Count(e, p) BY <1>1 DEF Count
  <2>2. Uploading(e)' = Uploading(e)
    BY <1>1, <1>3, OthersOwe DEF Uploading, SamePlatform, OnIt, OnPlatform
  <2>3. QED BY <2>1, <2>2
<1>5. ASSUME NEW e \in Episodes, NEW p \in Platforms
      PROVE  /\ w \notin Recording(e, p)
             /\ Recording(e, p)' = IF e = c.episode /\ p = q
                                   THEN Recording(e, p) \cup {w} ELSE Recording(e, p)
  BY <1>1, <1>3, OthersOwe DEF Recording, SamePlatform, OnIt, OnPlatform
<1>6. ASSUME NEW e \in Episodes, NEW p \in Platforms
      PROVE  /\ e = c.episode /\ p = q => Finished(e, p)' \subseteq Finished(e, p) \cup {k}
             /\ ~(e = c.episode /\ p = q) => Finished(e, p)' = Finished(e, p)
  BY <1>2 DEF Finished, JobsKept, Platform
<1>7. ASSUME ~Fault("crash"), NEW e \in Episodes, NEW p \in Platforms
      PROVE  Cardinality(Finished(e, p)') <= Count(e, p)' + Cardinality(Recording(e, p)')
  <2>1. /\ Cardinality(Finished(e, p)) <= Count(e, p) + Cardinality(Recording(e, p))
        /\ Cardinality(Finished(e, p)) \in Nat /\ Cardinality(Recording(e, p)) \in Nat
        /\ Count(e, p) \in Nat /\ Count(e, p)' = Count(e, p)
        /\ IsFiniteSet(Finished(e, p)) /\ IsFiniteSet(Recording(e, p))
    BY <1>4, <1>7, SetsFinite DEF Balanced
  <2>2. CASE e = c.episode /\ p = q
    <3>1. Cardinality(Recording(e, p)') = Cardinality(Recording(e, p)) + 1
      BY <1>5, <2>1, <2>2, FS_AddElement
    <3>2. /\ IsFiniteSet(Finished(e, p) \cup {k})
          /\ Cardinality(Finished(e, p) \cup {k}) <= Cardinality(Finished(e, p)) + 1
          /\ Cardinality(Finished(e, p) \cup {k}) \in Nat
      BY <2>1, FS_AddElement
    <3>3. /\ Cardinality(Finished(e, p)') <= Cardinality(Finished(e, p) \cup {k})
          /\ Cardinality(Finished(e, p)') \in Nat
      BY <1>6, <2>2, <3>2, FS_Subset, FS_CardinalityType
    <3>4. QED BY <2>1, <3>1, <3>2, <3>3
  <2>3. CASE ~(e = c.episode /\ p = q)
    <3>1. Recording(e, p)' = Recording(e, p) /\ Finished(e, p)' = Finished(e, p) BY <1>5, <1>6, <2>3
    <3>2. QED BY <2>1, <3>1
  <2>4. QED BY <2>2, <2>3
<1>8. QED BY <1>1, <1>4, <1>7 DEF Balanced, Fault

\* The publication is recorded.
LEMMA RecordBalance ==
  ASSUME IInv, IInv', Bookkeeping, Balanced, NEW w \in Workers, Tidy(w), Record(w)
  PROVE  Balanced'
<1> DEFINE c == call[w]
           q == Platform(w)
<1>1. /\ c.pc = "record" /\ OnIt(w) /\ call'[w].pc \in {"rows", "next"}
      /\ jobs' = jobs /\ uploads' = uploads /\ site' = site
      /\ history' = Append(history, [episode |-> c.episode, platform |-> q])
  BY StaysOn, SucceedFacts DEF Record, OnIt, OnPlatform, NextPlatform
<1>2. ASSUME NEW e \in Episodes, NEW p \in Platforms
      PROVE  Count(e, p)' = IF e = c.episode /\ p = q THEN Count(e, p) + 1 ELSE Count(e, p)
  BY <1>1, CountAppend
<1>3. ASSUME NEW e \in Episodes, NEW p \in Platforms
      PROVE  Finished(e, p)' = Finished(e, p)
  BY <1>1 DEF Finished
<1>4. ASSUME NEW e \in Episodes
      PROVE  /\ (e = c.episode /\ q = "youtube") <=> w \in Uploading(e)
             /\ Uploading(e)' = Uploading(e) \ {w}
  BY <1>1, OthersOwe DEF Uploading, OnIt, OnPlatform
<1>5. ASSUME NEW e \in Episodes, NEW p \in Platforms
      PROVE  /\ (e = c.episode /\ q = p) <=> w \in Recording(e, p)
             /\ Recording(e, p)' = Recording(e, p) \ {w}
  BY <1>1, OthersOwe DEF Recording, OnIt, OnPlatform
<1>6. ASSUME ~Fault("crash"), NEW e \in Episodes
      PROVE  uploads'[e] = Count(e, "youtube")' + Cardinality(Uploading(e)')
  <2>1. /\ uploads[e] = Count(e, "youtube") + Cardinality(Uploading(e))
        /\ IsFiniteSet(Uploading(e)) /\ Cardinality(Uploading(e)) \in Nat
        /\ Count(e, "youtube") \in Nat
    BY <1>6, SetsFinite DEF Balanced
  <2>2. Cardinality(Uploading(e)') = IF w \in Uploading(e) THEN Cardinality(Uploading(e)) - 1
                                     ELSE Cardinality(Uploading(e))
    BY <1>4, <2>1, FS_RemoveElement
  <2>3. QED BY <1>1, <1>2, <1>4, <2>1, <2>2
<1>7. ASSUME ~Fault("crash"), NEW e \in Episodes, NEW p \in Platforms
      PROVE  Cardinality(Finished(e, p)') <= Count(e, p)' + Cardinality(Recording(e, p)')
  <2>1. /\ Cardinality(Finished(e, p)) <= Count(e, p) + Cardinality(Recording(e, p))
        /\ Cardinality(Finished(e, p)) \in Nat /\ Cardinality(Recording(e, p)) \in Nat
        /\ Count(e, p) \in Nat /\ IsFiniteSet(Recording(e, p))
    BY <1>7, SetsFinite DEF Balanced
  <2>2. Cardinality(Recording(e, p)') = IF w \in Recording(e, p)
                                        THEN Cardinality(Recording(e, p)) - 1
                                        ELSE Cardinality(Recording(e, p))
    BY <1>5, <2>1, FS_RemoveElement
  <2>3. QED BY <1>2, <1>3, <1>5, <2>1, <2>2
<1>8. QED BY <1>1, <1>6, <1>7 DEF Balanced, Fault

\* Every step of a worker keeps the balance.
LEMMA WorkerBalance ==
  ASSUME IInv, IInv', Bookkeeping, Balanced, NEW w \in Workers, Tidy(w),
         Start(w) \/ StartSweep(w) \/ Advance(w) \/ Crash(w)
  PROVE  Balanced'
<1> DEFINE NoneCompleted ==
      \A j \in 1..Len(jobs') : jobs'[j].status = "completed" =>
        j \in 1..Len(jobs) /\ jobs[j].status = "completed"
<1>1. jobs' = jobs => NoneCompleted
  OBVIOUS
<1>2. CASE Publish(w) \/ MarkSucceeded(w) \/ Record(w)
  BY <1>2, PublishBalance, MarkBalance, RecordBalance
<1>3. CASE Crash(w) BY <1>3 DEF Crash, Balanced, Fault, Tidy
<1>4. CASE \/ Start(w) \/ StartSweep(w)
           \/ SweepNext(w) \/ SweepDone(w) \/ ResetEpisode(w) \/ Load(w) \/ Begin(w)
           \/ Rerun(w) \/ Finish(w) \/ DiskFails(w) \/ WriteFeed(w)
  <2>1. /\ history' = history /\ uploads' = uploads /\ jobs' = jobs
        /\ call[w].pc \notin {"mark", "record"}
    BY <1>4 DEF Start, Request, Republish, RetryPublishJob, Ask, StartSweep, SweepNext, SweepDone,
       ResetEpisode, Load, Begin, Rerun, Finish, DiskFails, WriteFeed, Rows
  <2>2. call'[w].pc \notin {"mark", "record"}
    <3>1. CASE WriteFeed(w) BY <3>1, SucceedFacts DEF NextPlatform
    <3>2. CASE DiskFails(w)
      <4>1. Become(w, Raised(call[w], FALSE)) /\ call \in [Workers -> Call]
        BY <3>2, StateFacts DEF DiskFails, Raise
      <4>2. QED BY <4>1, EndFacts DEF Ended
    <3>3. CASE ~WriteFeed(w) /\ ~DiskFails(w)
      <4>1. ~OnIt(w)
        BY <1>4, <3>3 DEF OnIt, OnPlatform, Start, Request, Republish, RetryPublishJob, Ask,
           StartSweep, SweepNext, SweepDone, ResetEpisode, Load, Begin, Rerun, Finish
      <4>2. QED BY <2>1, <4>1, StateFacts DEF Tidy, OnPlatform
    <3>4. QED BY <3>1, <3>2, <3>3
  <2>3. QED BY <1>1, <2>1, <2>2, QuietBalance
<1>5. CASE \/ MarkRunning(w) \/ Refused(w) \/ Unavailable(w) \/ UploadFails(w) \/ LoadRows(w)
           \/ FeedFails(w)
  <2>1. /\ history' = history /\ uploads' = uploads
        /\ call[w].pc \notin {"mark", "record"}
    BY <1>5 DEF MarkRunning, Refused, Unavailable, UploadFails, LoadRows, FeedFails, Except, Rows
  <2>2. call'[w].pc \notin {"mark", "record"} BY <1>5, <2>1, StaysOn DEF Publish, MarkSucceeded
  <2>3. NoneCompleted
    <3>1. CASE MarkRunning(w)
      <4>1. OnIt(w) /\ SetJob(w, "in_progress") /\ "in_progress" \in PublishJobStatus
        BY <3>1 DEF MarkRunning, OnIt, OnPlatform, PublishJobStatus
      <4>2. QED BY <4>1, SetJobFacts
    <3>2. QED BY <1>1, <1>5, <3>1 DEF Refused, Unavailable, UploadFails, LoadRows, FeedFails,
        Except, Rows
  <2>4. QED BY <2>1, <2>2, <2>3, QuietBalance
<1>6. CASE MarkFailed(w)
  <2>1. /\ history' = history /\ uploads' = uploads
        /\ call[w].pc \notin {"mark", "record"}
    BY <1>6 DEF MarkFailed
  <2>2. /\ OnIt(w) /\ SetJob(w, "failed") /\ call'[w].pc \notin {"mark", "record"}
        /\ "failed" \in PublishJobStatus
    BY <1>6, MarkFailedFacts DEF NextPlatform, Ended, PublishJobStatus
  <2>3. NoneCompleted BY <2>2, SetJobFacts
  <2>4. QED BY <2>1, <2>2, <2>3, QuietBalance
<1>7. CASE CreateJob(w)
  <2>1. /\ history' = history /\ uploads' = uploads
        /\ call[w].pc \notin {"mark", "record"}
    BY <1>7 DEF CreateJob
  <2>2. call'[w].pc \notin {"mark", "record"} BY <1>7, CreateJobFacts DEF Ended
  <2>3. NoneCompleted
    <3>1. CASE IsEnabled(Head(call[w].todo))
      <4>1. /\ Len(jobs') = Len(jobs) + 1
            /\ \A j \in 1..Len(jobs) : jobs'[j] = jobs[j]
            /\ jobs'[Len(jobs) + 1] = [episode |-> call[w].episode,
                                       platform |-> Head(call[w].todo), status |-> "pending"]
            /\ Len(jobs) \in Nat
        <5>1. Len(jobs) \in Nat BY StateFacts
        <5>2. QED BY <1>7, <3>1, <5>1, CreateJobFacts
      <4>2. QED BY <4>1
    <3>2. CASE ~IsEnabled(Head(call[w].todo)) BY <1>1, <1>7, <3>2, CreateJobFacts
    <3>3. QED BY <3>1, <3>2
  <2>4. QED BY <2>1, <2>2, <2>3, QuietBalance
<1>8. QED BY <1>2, <1>3, <1>4, <1>5, <1>6, <1>7 DEF Advance

\* So does a cancellation.
LEMMA CancelBalance ==
  ASSUME IInv, IInv', Balanced, NEW o \in Operators, Cancel(o)
  PROVE  Balanced'
<1>1. /\ JobsKept /\ Len(jobs') = Len(jobs)
      /\ \A j \in 1..Len(jobs) : jobs'[j] = jobs[j] \/ jobs'[j].status = "failed"
      /\ site' = site /\ history' = history /\ uploads' = uploads /\ call' = call
      /\ DOMAIN jobs = 1..Len(jobs) /\ DOMAIN jobs' = 1..Len(jobs)
  BY CancelFacts, StateFacts DEF JobsKept
<1>2. \A v \in Workers : OnIt(v) => call[v].job \in 1..Len(jobs) BY PlatformFacts DEF OnIt
<1>3. ASSUME NEW e \in Episodes, NEW p \in Platforms
      PROVE  /\ Recording(e, p)' = Recording(e, p) /\ Uploading(e)' = Uploading(e)
             /\ Count(e, p)' = Count(e, p)
             /\ Cardinality(Finished(e, p)') <= Cardinality(Finished(e, p))
             /\ Cardinality(Finished(e, p)') \in Nat
  <2>1. Recording(e, p)' = Recording(e, p) /\ Uploading(e)' = Uploading(e)
    BY <1>1, <1>2 DEF Recording, Uploading, Platform, JobsKept, OnIt, OnPlatform
  <2>2. Count(e, p)' = Count(e, p) BY <1>1 DEF Count
  <2>3. Finished(e, p)' \in SUBSET Finished(e, p) BY <1>1 DEF Finished, JobsKept
  <2>4. QED BY <2>1, <2>2, <2>3, SetsFinite, FS_Subset, FS_CardinalityType
<1>4. ASSUME ~Fault("crash"), NEW e \in Episodes, NEW p \in Platforms
      PROVE  Cardinality(Finished(e, p)') <= Count(e, p)' + Cardinality(Recording(e, p)')
  BY <1>3, <1>4, SetsFinite DEF Balanced
<1>5. QED BY <1>1, <1>3, <1>4 DEF Balanced, Fault

-----------------------------------------------------------------------------
(* What publishing left unfinished can be retried.                         *)

\* A worker between the save of PUBLISHING and the end of a call for e.
Working(w, e) == call[w].pc \notin Unbegun /\ call[w].episode = e

HasFailedJob(e) == \E j \in 1..Len(jobs) : jobs[j].episode = e /\ jobs[j].status = "failed"

Retriable ==
  /\ site.faults \cap {"crash", "disk"} = {} /\ ~site.republish /\ AsksForEnabled
  => \A e \in Episodes : status[e] # "completed" =>
       HasFailedJob(e) \/ \E w \in Workers : Working(w, e)

\* A failed job of e stays one, or the worker that has it in hand works on.
LEMMA FailedJobStays ==
  ASSUME IInv, Bookkeeping, NEW w \in Workers, Tidy(w), NEW e, HasFailedJob(e)
  PROVE  \/ HasFailedJob(e)'
         \/ /\ OnIt(w) /\ call[w].episode = e
            /\ jobs'[call[w].job] # jobs[call[w].job]
<1>1. PICK j \in 1..Len(jobs) : jobs[j].episode = e /\ jobs[j].status = "failed" BY DEF HasFailedJob
<1>2. CASE jobs'[j] = jobs[j] BY <1>1, <1>2, StateFacts DEF HasFailedJob, Tidy, JobsKept
<1>3. CASE jobs'[j] # jobs[j] BY <1>1, <1>3 DEF Tidy, Bookkeeping, Linked
<1>4. QED BY <1>2, <1>3

\* A step after which the worker still works on e, or which takes no
\* worker from it, keeps what was unfinished retriable.
LEMMA RetriableStays ==
  ASSUME IInv, IInv', Bookkeeping, Retriable, NEW w \in Workers, Tidy(w),
         \A e \in Episodes : status'[e] # "completed" =>
           \/ status[e] # "completed" \/ HasFailedJob(e)' \/ Working(w, e)',
         \A e \in Episodes : Working(w, e) => HasFailedJob(e)' \/ Working(w, e)' 
                                              \/ status'[e] = "completed",
         \A e \in Episodes :
           /\ OnIt(w) /\ call[w].episode = e /\ jobs'[call[w].job] # jobs[call[w].job]
           => HasFailedJob(e)' \/ Working(w, e)'
  PROVE  Retriable'
<1>1. site' = site /\ AsksForEnabled' = AsksForEnabled BY DEF Tidy, AsksForEnabled
<1>2. ASSUME site.faults \cap {"crash", "disk"} = {}, ~site.republish, AsksForEnabled,
             NEW e \in Episodes, status'[e] # "completed"
      PROVE  HasFailedJob(e)' \/ \E v \in Workers : Working(v, e)'
  <2>1. CASE HasFailedJob(e)
    <3>1. \/ HasFailedJob(e)'
          \/ /\ OnIt(w) /\ call[w].episode = e
             /\ jobs'[call[w].job] # jobs[call[w].job]
      BY <2>1, FailedJobStays
    <3>2. QED BY <3>1
  <2>2. CASE \E v \in Workers : Working(v, e)
    <3>1. PICK v \in Workers : Working(v, e) BY <2>2
    <3>2. CASE v = w BY <1>2, <3>1, <3>2
    <3>3. CASE v # w
      <4>1. Working(v, e)' BY <3>1, <3>3, StateFacts DEF Tidy, Working
      <4>2. QED BY <4>1
    <3>4. QED BY <3>2, <3>3
  <2>3. CASE HasFailedJob(e)' \/ Working(w, e)' BY <2>3
  <2>4. CASE status[e] # "completed" BY <1>2, <2>1, <2>2, <2>4 DEF Retriable
  <2>5. QED BY <1>2, <2>3, <2>4
<1>3. QED BY <1>1, <1>2 DEF Retriable

\* A call that has failed on some platform left a failed job.
LEMMA FailureHasJob ==
  ASSUME IInv, Bookkeeping, NEW w \in Workers, call[w].failed > 0
  PROVE  HasFailedJob(call[w].episode)
BY DEF Bookkeeping, FailuresShow, HasFailedJob, Loose

\* Every step of a worker keeps it retriable.
LEMMA WorkerRetriable ==
  ASSUME IInv, IInv', Bookkeeping, Retriable, NEW w \in Workers, Tidy(w),
         Start(w) \/ StartSweep(w) \/ Advance(w) \/ Crash(w)
  PROVE  Retriable'
<1> DEFINE c == call[w]
           d == call'[w]
<1>0. /\ status \in [Episodes -> EpisodeStatus] /\ c.episode \in Episodes
      /\ site' = site
      /\ call \in [Workers -> Call]
  BY CallFacts, StateFacts DEF Tidy
<1>ep. PICK ep \in Episodes : ep = c.episode BY <1>0
<1>1. CASE Crash(w) \/ DiskFails(w) BY <1>0, <1>1 DEF Crash, DiskFails, Fault, Retriable
<1>2. CASE Start(w) \/ StartSweep(w) \/ SweepNext(w) \/ SweepDone(w) \/ ResetEpisode(w)
           \/ Load(w) \/ Rerun(w)
  <2>1. /\ c.pc \in Unbegun /\ ~OnIt(w)
        /\ \A e \in Episodes : status'[e] # "completed" => status[e] # "completed"
    BY <1>0, <1>2 DEF Start, Request, Republish, RetryPublishJob, Ask, StartSweep, SweepNext,
       SweepDone, ResetEpisode, Load, Rerun, SetStatus, Unbegun, OnIt, OnPlatform
  <2>2. QED BY <2>1, RetriableStays DEF Working
<1>3. CASE Begin(w)
  <2>1. /\ d.pc = "next" /\ d.episode = c.episode
    <3> DEFINE x == [c EXCEPT !.pc = "next", !.todo = c.targets]
    <3>1. x.pc = "next" /\ x.episode = c.episode BY StateFacts DEF Call
    <3>2. call' = [call EXCEPT ![w] = x] BY <1>3 DEF Begin
    <3> HIDE DEF x
    <3>3. QED BY <1>0, <3>1, <3>2
  <2>2. Working(w, ep)' /\ ~OnIt(w) /\ c.pc \in Unbegun
    BY <1>3, <1>ep, <2>1 DEF Working, Unbegun, Begin, OnIt, OnPlatform
  <2>3. \A e \in Episodes : e # ep => status'[e] = status[e]
    BY <1>0, <1>3, <1>ep DEF Begin, SetStatus
  <2>4. QED BY <1>ep, <2>2, <2>3, RetriableStays DEF Working
<1>4. ASSUME status' = status, d.pc \notin Unbegun, d.episode = c.episode
      PROVE  Retriable'
  <2>1. \A e : Working(w, e) => Working(w, e)' BY <1>4, <1>ep DEF Working
  <2>2. Working(w, ep)' BY <1>4, <1>ep DEF Working
  <2>3. QED BY <1>4, <1>ep, <2>1, <2>2, RetriableStays
<1>5. CASE \/ MarkRunning(w) \/ Refused(w) \/ Unavailable(w) \/ UploadFails(w) \/ Publish(w)
           \/ MarkSucceeded(w) \/ LoadRows(w) \/ FeedFails(w)
           \/ (Record(w) /\ Platform(w) = "rss")
  <2>1. status' = status
    BY <1>5 DEF MarkRunning, Refused, Unavailable, UploadFails, Publish, MarkSucceeded, LoadRows,
       FeedFails, Record, Except
  <2>2. d.pc \in OnPlatform /\ d.episode = c.episode BY <1>5, StaysOn DEF SamePlatform, OnPlatform
  <2>3. QED BY <1>4, <2>1, <2>2 DEF OnPlatform, Unbegun
<1>6. CASE WriteFeed(w) \/ (Record(w) /\ Platform(w) # "rss")
  BY <1>4, <1>6, SucceedFacts DEF WriteFeed, Record, NextPlatform, Unbegun
<1>7. CASE MarkFailed(w)
  <2>1. /\ OnIt(w) /\ SetJob(w, "failed") /\ status' = status
        /\ "failed" \in PublishJobStatus
    BY <1>7, MarkFailedFacts DEF MarkFailed, PublishJobStatus
  <2>2. HasFailedJob(ep)'
    BY <2>1, <1>ep, SetJobFacts DEF HasFailedJob, JobsKept, Bookkeeping, Linked
  <2>3. \A e : Working(w, e) => e = ep BY <1>ep DEF Working
  <2>4. QED BY <1>ep, <2>1, <2>2, <2>3, RetriableStays
<1>8. CASE CreateJob(w)
  <2>1. CASE IsEnabled(Head(c.todo))
    <3>1. d.pc = "check" /\ d.episode = c.episode BY <1>8, <2>1, CreateJobFacts
    <3>2. QED BY <1>4, <1>8, <3>1 DEF CreateJob, Unbegun
  <2>2. CASE ~IsEnabled(Head(c.todo))
    <3>1. c.todo # <<>> /\ c.todo \in Seq(Names) /\ Proper(c.todo)
      BY <1>8, StateFacts DEF CreateJob, Bookkeeping, ListsProper
    <3>2. ~(AsksForEnabled /\ ~site.republish) BY <2>2, <3>1 DEF Proper
    <3>3. AsksForEnabled' = AsksForEnabled BY <1>0 DEF AsksForEnabled
    <3>4. QED BY <1>0, <3>2, <3>3 DEF Retriable
  <2>3. QED BY <2>1, <2>2
<1>9. CASE Finish(w)
  <2>1. /\ c.pc = "next" /\ ~OnIt(w) /\ c.failed \in Nat /\ jobs' = jobs
        /\ c.targets # <<>> /\ c.targets \in Seq(Names)
    <3>1. Sound(c, jobs, history) /\ c.failed \in Nat /\ c.targets \in Seq(Names) BY StateFacts
    <3>2. c.pc = "next" /\ jobs' = jobs BY <1>9 DEF Finish, Rows
    <3>3. QED BY <3>1, <3>2 DEF Sound, OnIt, OnPlatform
  <2>2. /\ \A e \in Episodes : e # ep => status'[e] = status[e]
        /\ c.failed = 0 => status'[ep] = "completed"
    <3>1. Len(c.targets) > 0 BY <2>1
    <3>2. \/ c.failed = Len(c.targets) /\ status' = [status EXCEPT ![ep] = "failed"]
          \/ status' = [status EXCEPT ![ep] = "completed"]
          \/ c.failed \in 1..Len(c.targets) - 1 /\ status' = status
      BY <1>9, <1>ep DEF Finish, SetStatus
    <3>3. \A e \in Episodes : e # ep => status'[e] = status[e] BY <1>0, <3>2
    <3>4. c.failed = 0 => status'[ep] = "completed"
      <4>1. Len(c.targets) \in Nat BY <2>1
      <4>2. c.failed = 0 => status' = [status EXCEPT ![ep] = "completed"] BY <3>1, <3>2, <4>1
      <4>3. QED BY <1>0, <4>2
    <3>5. QED BY <1>ep, <3>3, <3>4
  <2>3. c.failed > 0 => HasFailedJob(ep)' BY <2>1, <1>ep, FailureHasJob DEF HasFailedJob
  <2>4. \A e : Working(w, e) => e = ep BY <1>ep DEF Working
  <2>5. QED BY <1>ep, <2>1, <2>2, <2>3, <2>4, RetriableStays
<1>10. QED BY <1>1, <1>2, <1>3, <1>5, <1>6, <1>7, <1>8, <1>9 DEF Advance

\* So does a cancellation.
LEMMA CancelRetriable ==
  ASSUME IInv, Retriable, NEW o \in Operators, Cancel(o)
  PROVE  Retriable'
<1>1. /\ JobsKept /\ Len(jobs') = Len(jobs)
      /\ \A j \in 1..Len(jobs) : jobs'[j] = jobs[j] \/ jobs'[j].status = "failed"
      /\ site' = site /\ status' = status /\ call' = call
  BY CancelFacts
<1>2. \A e : HasFailedJob(e) => HasFailedJob(e)' BY <1>1 DEF HasFailedJob, JobsKept
<1>3. \A v \in Workers : \A e : Working(v, e) => Working(v, e)' BY <1>1 DEF Working
<1>4. QED BY <1>1, <1>2, <1>3 DEF Retriable, AsksForEnabled

-----------------------------------------------------------------------------
(* The feed, with one worker.                                              *)

\* Between a publication on rss and the writing of the feed the file is
\* behind, and what is to be written is current.
FeedFollows ==
  /\ OneWorker
  /\ site.faults \cap {"crash", "disk", "feed"} = {}
  => \A w \in site.workers :
       /\ call[w].pc \notin {"rows", "write"} => feed = FeedItems
       /\ call[w].pc = "write" => call[w].rows = FeedItems

\* A row that is not on rss changes nothing in the feed.
LEMMA OtherRows ==
  ASSUME IInv, NEW r, history' = Append(history, r), r.platform # "rss"
  PROVE  FeedItems' = FeedItems
<1> DEFINE S == {i \in DOMAIN history : history[i].platform = "rss"}
           T == {i \in DOMAIN history' : history'[i].platform = "rss"}
<1>1. S = T
  <2>1. /\ DOMAIN history = 1..Len(history) /\ DOMAIN history' = 1..Len(history) + 1
        /\ \A i \in 1..Len(history) : history'[i] = history[i]
        /\ history'[Len(history) + 1] = r /\ Len(history) \in Nat
    BY StateFacts
  <2>2. QED BY <2>1
<1>2. FeedItems = {i \in S : Cardinality({k \in S : k > i}) < FeedLimit} BY DEF FeedItems
<1>3. FeedItems' = {i \in T : Cardinality({k \in T : k > i}) < FeedLimit} BY DEF FeedItems
<1> HIDE DEF S, T
<1>4. QED BY <1>1, <1>2, <1>3

\* A step that writes neither the history nor the feed.
LEMMA FeedRests ==
  ASSUME IInv, FeedFollows, NEW w \in Workers, Tidy(w), w \in site.workers,
         history' = history, feed' = feed,
         call[w].pc \notin {"rows", "write"}, call'[w].pc \notin {"rows", "write"}
  PROVE  FeedFollows'
<1>1. FeedItems' = FeedItems /\ site' = site BY DEF FeedItems, Tidy
<1>2. QED BY <1>1, StateFacts DEF FeedFollows, OneWorker, Tidy

\* Every step of a worker keeps the feed up.
LEMMA WorkerFeeds ==
  ASSUME IInv, IInv', Bookkeeping, Bookkeeping', FeedFollows, NEW w \in Workers, Tidy(w),
         Start(w) \/ StartSweep(w) \/ Advance(w) \/ Crash(w)
  PROVE  FeedFollows'
<1> DEFINE c == call[w]
           d == call'[w]
<1>0. /\ site' = site /\ c \in Call /\ call \in [Workers -> Call] 
      /\ call' = [call EXCEPT ![w] = d] /\ d.pc # "idle" => w \in site.workers
      /\ c.pc # "idle" => w \in site.workers
  BY StateFacts DEF Tidy, Bookkeeping, Linked
<1>1. CASE Crash(w) \/ DiskFails(w) \/ FeedFails(w)
  BY <1>0, <1>1 DEF Crash, DiskFails, FeedFails, Fault, FeedFollows
<1>2. CASE Start(w) \/ StartSweep(w) \/ SweepNext(w) \/ SweepDone(w) \/ ResetEpisode(w)
           \/ Load(w) \/ Rerun(w) \/ Begin(w) \/ Finish(w)
  <2>1. /\ ~OnIt(w) /\ jobs' = jobs /\ history' = history /\ feed' = feed
        /\ w \in site.workers
    BY <1>0, <1>2 DEF Start, Request, Republish, RetryPublishJob, Ask, StartSweep, SweepNext,
       SweepDone, ResetEpisode, Load, Rerun, Begin, Finish, OnIt, OnPlatform, Rows
  <2>2. d.pc \notin OnPlatform BY <2>1, StateFacts DEF Tidy
  <2>3. QED BY <2>1, <2>2, FeedRests DEF OnIt, OnPlatform
<1>3. CASE CreateJob(w)
  <2>1. /\ history' = history /\ feed' = feed /\ c.pc = "next" BY <1>3 DEF CreateJob
  <2>2. d.pc \in {"check", "idle", "sweep", "again"} BY <1>3, CreateJobFacts DEF Ended
  <2>3. QED BY <1>0, <2>1, <2>2, FeedRests
<1>4. CASE MarkFailed(w)
  <2>1. /\ history' = history /\ feed' = feed /\ c.pc = "failed" BY <1>4 DEF MarkFailed
  <2>2. d.pc \in {"next", "idle", "sweep", "again"} BY <1>4, MarkFailedFacts DEF Ended, NextPlatform
  <2>3. QED BY <1>0, <2>1, <2>2, FeedRests
<1>5. CASE MarkRunning(w) \/ Refused(w) \/ Unavailable(w) \/ UploadFails(w) \/ Publish(w)
           \/ MarkSucceeded(w)
  <2>1. /\ history' = history /\ feed' = feed /\ c.pc \in {"check", "publish", "mark"}
    BY <1>5 DEF MarkRunning, Refused, Unavailable, UploadFails, Publish, MarkSucceeded, Except, Rows
  <2>2. d.pc \in {"publish", "failed", "mark", "record"} BY <1>5, StaysOn
  <2>3. QED BY <1>0, <2>1, <2>2, FeedRests
<1>6. CASE Record(w) /\ Platform(w) = "rss"
  <2>1. d.pc = "rows" BY <1>6, StaysOn
  <2>2. c.pc = "record" BY <1>6 DEF Record
  <2>3. QED BY <1>0, <2>1, <2>2 DEF FeedFollows, OneWorker
<1>7. CASE Record(w) /\ Platform(w) # "rss"
  <2>1. d.pc = "next" BY <1>7, SucceedFacts DEF NextPlatform
  <2>2. c.pc = "record" /\ feed' = feed BY <1>7 DEF Record
  <2>3. FeedItems' = FeedItems BY <1>7, OtherRows DEF Record
  <2>4. QED BY <1>0, <2>1, <2>2, <2>3 DEF FeedFollows, OneWorker
<1>8. CASE LoadRows(w)
  <2>1. d.pc = "write" /\ d.rows = FeedItems BY <1>8, StaysOn
  <2>2. FeedItems' = FeedItems /\ c.pc = "rows" BY <1>8 DEF LoadRows, Rows, FeedItems
  <2>3. QED BY <1>0, <2>1, <2>2 DEF FeedFollows, OneWorker
<1>9. CASE WriteFeed(w)
  <2>1. d.pc = "next" BY <1>9, SucceedFacts DEF NextPlatform
  <2>2. FeedItems' = FeedItems /\ c.pc = "write" /\ feed' = c.rows BY <1>9 DEF WriteFeed, FeedItems
  <2>3. QED BY <1>0, <2>1, <2>2 DEF FeedFollows, OneWorker
<1>10. QED BY <1>1, <1>2, <1>3, <1>4, <1>5, <1>6, <1>7, <1>8, <1>9 DEF Advance

-----------------------------------------------------------------------------
(* How often one worker publishes.                                         *)

\* The platforms of its list that a call has not published on yet.
Rest(c) == IF c.pc \in {"rows", "write", "failed"} THEN Tail(c.todo) ELSE c.todo

\* The call, in this attempt, may still publish on p.
MayPublish(c, p) ==
  \/ c.pc \in {"reset", "load", "begin", "again"}
  \/ \E i \in 1..Len(Rest(c)) : Rest(c)[i] = p

\* No call, or a sweep that has no episode in hand.
Unassigned(c) == c.pc \in {"idle", "sweep"} \/ (c.kind = "sweep" /\ c.pc = "again")

\* How often the call may still publish e on p: a sweep only in this attempt.
Due(c, e, p) ==
  IF Unassigned(c) \/ c.episode # e THEN 0
  ELSE (IF c.kind = "sweep" THEN 0 ELSE MaxRetries - c.attempt)
         + (IF MayPublish(c, p) THEN 1 ELSE 0)

\* What is published and what may still be add up to what was asked for.
Rationed ==
  OneWorker /\ AsksForEachOnce =>
    \A w \in site.workers : \A e \in Episodes, p \in Platforms :
      Count(e, p) + Due(call[w], e, p) <= 1 + requests[e] * (MaxRetries + 1)

LEMMA DueIsNat ==
  ASSUME NEW c \in Call, NEW e, NEW p
  PROVE  Due(c, e, p) \in Nat
<1>1. c.attempt \in 0..MaxRetries /\ MaxRetries \in Nat BY PublishAssumption DEF Call
<1>2. MaxRetries - c.attempt \in Nat BY <1>1
<1>3. QED BY <1>2 DEF Due

\* A call that goes on with what it had is due no more than before.
LEMMA DueShrinks ==
  ASSUME NEW c \in Call, NEW d \in Call, ~Unassigned(c),
         d.episode = c.episode, d.kind = c.kind, d.attempt = c.attempt,
         NEW e, NEW p, MayPublish(d, p) => MayPublish(c, p)
  PROVE  Due(d, e, p) <= Due(c, e, p)
<1>1. c.attempt \in 0..MaxRetries /\ MaxRetries \in Nat /\ MaxRetries - c.attempt \in Nat
  BY PublishAssumption DEF Call
<1>2. QED BY <1>1 DEF Due

\* A call that ends is due no more than the attempts it has left.
LEMMA DueEnds ==
  ASSUME NEW c \in Call, NEW d \in Call, ~Unassigned(c), Ended(c, d), NEW e, NEW p
  PROVE  Due(d, e, p) <= Due(c, e, p)
<1>1. c.attempt \in 0..MaxRetries /\ MaxRetries \in Nat /\ MaxRetries - c.attempt \in Nat
  BY PublishAssumption DEF Call
<1>2. CASE d.pc \in {"idle", "sweep"} BY <1>1, <1>2 DEF Due, Unassigned
<1>3. CASE d.pc = "again"
  <2>1. d.kind = c.kind /\ d.episode = c.episode /\ d.attempt = c.attempt + 1 BY <1>3 DEF Ended
  <2>2. QED BY <1>1, <1>3, <2>1 DEF Due, Unassigned
<1>4. QED BY <1>2, <1>3 DEF Ended

\* Elements of the tail of a list are elements of the list.
LEMMA TailElements ==
  ASSUME NEW list \in Seq(Names), list # <<>>, NEW p,
         \E i \in 1..Len(Tail(list)) : Tail(list)[i] = p
  PROVE  \E i \in 1..Len(list) : list[i] = p
<1>1. PICK i \in 1..Len(Tail(list)) : Tail(list)[i] = p
  OBVIOUS
<1>2. /\ Len(Tail(list)) = Len(list) - 1 /\ Len(list) \in Nat \ {0}
      /\ Tail(list)[i] = list[i + 1] /\ i + 1 \in 1..Len(list)
  BY <1>1
<1>3. QED BY <1>1, <1>2

\* A worker's call is due no more than before, and publishes nothing.
LEMMA RationStays ==
  ASSUME IInv, IInv', Rationed, NEW w \in Workers, Tidy(w), w \in site.workers,
         history' = history, requests' = requests,
         \A e \in Episodes, p \in Platforms : Due(call'[w], e, p) <= Due(call[w], e, p)
  PROVE  Rationed'
<1>1. site' = site /\ AsksForEachOnce' = AsksForEachOnce BY DEF Tidy, AsksForEachOnce
<1>2. ASSUME OneWorker, AsksForEachOnce, NEW e \in Episodes, NEW p \in Platforms
      PROVE  Count(e, p)' + Due(call'[w], e, p) <= 1 + requests'[e] * (MaxRetries + 1)
  <2>1. Count(e, p)' = Count(e, p) /\ Count(e, p) \in Nat BY SetsFinite DEF Count
  <2>2. Count(e, p) + Due(call[w], e, p) <= 1 + requests[e] * (MaxRetries + 1) BY <1>2 DEF Rationed
  <2>3. call[w] \in Call /\ call'[w] \in Call BY StateFacts DEF IInv, TypeOK
  <2>4. Due(call[w], e, p) \in Nat /\ Due(call'[w], e, p) \in Nat BY <2>3, DueIsNat
  <2>5. Due(call'[w], e, p) <= Due(call[w], e, p)
    OBVIOUS
  <2>6. requests[e] \in Nat /\ MaxRetries \in Nat BY PublishAssumption DEF IInv, TypeOK
  <2> DEFINE bound == requests[e] * (MaxRetries + 1)
  <2>7. bound \in Nat BY <2>6
  <2>8. 1 + requests'[e] * (MaxRetries + 1) = 1 + bound
    OBVIOUS
  <2> HIDE DEF bound
  <2>9. QED BY <2>1, <2>2, <2>4, <2>5, <2>7, <2>8 DEF bound
<1>3. QED BY <1>1, <1>2 DEF Rationed, OneWorker

\* Somebody asks for e: one more attempt, and its retries.
LEMMA AskRation ==
  ASSUME IInv, IInv', Rationed, NEW w \in Workers, Tidy(w), Start(w)
  PROVE  Rationed'
<1>1. /\ w \in site.workers /\ site' = site /\ history' = history /\ call[w].pc = "idle"
      /\ requests \in [Episodes -> Nat] /\ MaxRetries \in Nat
      /\ AsksForEachOnce' = AsksForEachOnce
  BY PublishAssumption DEF Start, Request, Republish, RetryPublishJob, Ask, IInv, TypeOK,
     AsksForEachOnce
<1>2. PICK x \in Episodes : /\ requests' = [requests EXCEPT ![x] = @ + 1]
                            /\ call'[w].episode = x
  <2>1. \A x, record : Ask(w, x, record) => call'[w] = record BY StateFacts DEF Ask
  <2>2. \A pc, kind, x, list :
          [NoCall EXCEPT !.pc = pc, !.kind = kind, !.episode = x, !.targets = list].episode = x
    BY DEF NoCall
  <2>3. \A j \in DOMAIN jobs : jobs[j].episode \in Episodes BY StateFacts DEF PublishJob
  <2>4. ASSUME NEW e \in Episodes, NEW targets, Request(w, e, targets)
        PROVE  \E x \in Episodes : /\ requests' = [requests EXCEPT ![x] = @ + 1]
                                   /\ call'[w].episode = x
    <3> DEFINE list == IF targets = <<>> THEN Enabled ELSE targets
               c == [NoCall EXCEPT !.pc = "load", !.kind = "request", !.episode = e,
                                   !.targets = list]
    <3>1. Ask(w, e, c) BY <2>4 DEF Request
    <3>2. c.episode = e BY <2>2
    <3> HIDE DEF c
    <3>3. QED BY <2>1, <3>1, <3>2 DEF Ask
  <2>5. ASSUME NEW j \in DOMAIN jobs, Republish(w, j)
        PROVE  \E x \in Episodes : /\ requests' = [requests EXCEPT ![x] = @ + 1]
                                   /\ call'[w].episode = x
    <3> DEFINE e == jobs[j].episode
               c == [NoCall EXCEPT !.pc = "load", !.kind = "republish", !.episode = e,
                                   !.targets = Garbled]
    <3>1. Ask(w, e, c) BY <2>5 DEF Republish
    <3>2. c.episode = e /\ e \in Episodes BY <2>2, <2>3
    <3> HIDE DEF c, e
    <3>3. QED BY <2>1, <3>1, <3>2 DEF Ask
  <2>6. ASSUME NEW j \in DOMAIN jobs, RetryPublishJob(w, j)
        PROVE  \E x \in Episodes : /\ requests' = [requests EXCEPT ![x] = @ + 1]
                                   /\ call'[w].episode = x
    <3> DEFINE e == jobs[j].episode
               pc == IF status[e] = "failed" THEN "reset" ELSE "load"
               c == [NoCall EXCEPT !.pc = pc, !.kind = "retry", !.episode = e,
                                   !.targets = <<jobs[j].platform>>]
    <3>1. Ask(w, e, c) BY <2>6 DEF RetryPublishJob
    <3>2. c.episode = e /\ e \in Episodes BY <2>2, <2>3
    <3> HIDE DEF c, e, pc
    <3>3. QED BY <2>1, <3>1, <3>2 DEF Ask
  <2>7. QED BY <2>4, <2>5, <2>6 DEF Start
<1>3. ASSUME OneWorker, AsksForEachOnce, NEW e \in Episodes, NEW p \in Platforms
      PROVE  Count(e, p)' + Due(call'[w], e, p) <= 1 + requests'[e] * (MaxRetries + 1)
  <2>1. Count(e, p)' = Count(e, p) /\ Count(e, p) \in Nat BY <1>1, SetsFinite DEF Count
  <2>2. Count(e, p) <= 1 + requests[e] * (MaxRetries + 1)
    <3>1. Due(call[w], e, p) = 0 BY <1>1 DEF Due, Unassigned
    <3>2. Count(e, p) + Due(call[w], e, p) <= 1 + requests[e] * (MaxRetries + 1)
      BY <1>1, <1>3 DEF Rationed
    <3>3. QED BY <2>1, <3>1, <3>2
  <2>3. call'[w] \in Call BY DEF IInv, TypeOK
  <2>4. CASE e = x
    <3>1. Due(call'[w], e, p) \in Nat /\ Due(call'[w], e, p) <= MaxRetries + 1
      <4>1. call'[w].attempt \in 0..MaxRetries BY <2>3 DEF Call
      <4>2. MaxRetries - call'[w].attempt \in 0..MaxRetries BY <1>1, <4>1
      <4>3. QED BY <1>1, <2>3, <4>2, DueIsNat DEF Due
    <3>2. requests'[e] = requests[e] + 1 /\ requests[e] \in Nat BY <1>1, <1>2, <2>4
    <3>3. (requests[e] + 1) * (MaxRetries + 1) = requests[e] * (MaxRetries + 1) + (MaxRetries + 1)
      BY <1>1, <3>2
    <3>4. requests[e] * (MaxRetries + 1) \in Nat BY <1>1, <3>2
    <3>5. \A a, b, m, n \in Nat : a <= 1 + b /\ m <= n => a + m <= 1 + (b + n)
      OBVIOUS
    <3>6. MaxRetries + 1 \in Nat BY <1>1
    <3>7. QED BY <2>1, <2>2, <3>1, <3>2, <3>3, <3>4, <3>5, <3>6
  <2>5. CASE e # x
    <3>1. Due(call'[w], e, p) = 0 BY <1>2, <2>5 DEF Due
    <3>2. requests'[e] = requests[e] BY <1>1, <1>2, <2>5
    <3>3. QED BY <2>1, <2>2, <3>1, <3>2
  <2>6. QED BY <2>4, <2>5
<1>4. QED BY <1>1, <1>3 DEF Rationed, OneWorker

\* The steps of a sweep, and those before and after the platforms.
LEMMA MovesRation ==
  ASSUME IInv, IInv', Bookkeeping, Rationed, NEW w \in Workers, Tidy(w),
         \/ StartSweep(w) \/ SweepDone(w) \/ ResetEpisode(w) \/ Load(w) \/ Begin(w)
         \/ Rerun(w) \/ Finish(w) \/ DiskFails(w) \/ Crash(w)
  PROVE  Rationed'
<1> DEFINE c == call[w]
           d == call'[w]
<1>1. /\ c \in Call /\ d \in Call /\ call \in [Workers -> Call] /\ w \in site.workers
      /\ history' = history /\ requests' = requests
  <2>1. c \in Call /\ d \in Call /\ call \in [Workers -> Call] BY StateFacts DEF IInv, TypeOK
  <2>2. QED BY <2>1 DEF Bookkeeping, Linked, StartSweep, SweepDone, ResetEpisode, Load, Begin,
      Rerun, Finish, DiskFails, Crash, Rows
<1>2. ASSUME d.pc \in {"idle", "sweep"} PROVE Rationed'
  <2>1. \A e \in Episodes, p \in Platforms : Due(d, e, p) = 0 /\ Due(c, e, p) \in Nat
    BY <1>1, <1>2, DueIsNat DEF Due, Unassigned
  <2>2. QED BY <1>1, <2>1, RationStays
<1>3. ASSUME ~Unassigned(c), d.episode = c.episode, d.kind = c.kind, d.attempt = c.attempt,
             \A p : MayPublish(d, p) => MayPublish(c, p)
      PROVE  Rationed'
  <2>1. \A e \in Episodes, p \in Platforms : Due(d, e, p) <= Due(c, e, p) BY <1>1, <1>3, DueShrinks
  <2>2. QED BY <1>1, <2>1, RationStays
<1>4. CASE StartSweep(w)
  <2> DEFINE x == [NoCall EXCEPT !.pc = "sweep", !.kind = "sweep", !.batch = Completed]
  <2>1. x.pc = "sweep" /\ call' = [call EXCEPT ![w] = x] BY <1>4 DEF NoCall, StartSweep
  <2> HIDE DEF x
  <2>2. QED BY <1>1, <1>2, <2>1
<1>5. ASSUME NEW x, Become(w, x), x \in {NoCall, Returned(c), Raised(c, FALSE)}
      PROVE  Rationed'
  <2>1. Ended(c, x) /\ x.pc # "again"
    <3>1. NoCall.pc # "again" /\ Returned(c).pc # "again" /\ Raised(c, FALSE).pc # "again"
      BY DEF NoCall, Returned, Raised
    <3>2. QED BY <1>5, <3>1, EndFacts
  <2>2. QED BY <1>1, <1>2, <1>5, <2>1 DEF Ended
<1>6. CASE SweepDone(w) \/ Finish(w) \/ DiskFails(w) \/ Crash(w) \/ (Load(w) /\ Raise(w, FALSE))
  BY <1>5, <1>6 DEF SweepDone, Finish, DiskFails, Crash, Raise, Return
<1>7. ASSUME NEW pc \in {"load", "begin"}, c.pc \in {"reset", "load", "again"}, ~Unassigned(c),
             Goto(w, pc)
      PROVE  Rationed'
  <2> DEFINE x == [c EXCEPT !.pc = pc]
  <2>1. x.episode = c.episode /\ x.kind = c.kind /\ x.attempt = c.attempt BY <1>1 DEF Call
  <2>2. call' = [call EXCEPT ![w] = x] BY <1>7
  <2> HIDE DEF x
  <2>3. \A p : MayPublish(c, p) BY <1>7 DEF MayPublish
  <2>4. QED BY <1>1, <1>3, <1>7, <2>1, <2>2, <2>3
<1>8. CASE ResetEpisode(w) \/ (Load(w) /\ ~Raise(w, FALSE))
  BY <1>7, <1>8 DEF ResetEpisode, Load, Unassigned
<1>9. CASE Begin(w)
  <2> DEFINE x == [c EXCEPT !.pc = "next", !.todo = c.targets]
  <2>1. x.episode = c.episode /\ x.kind = c.kind /\ x.attempt = c.attempt BY <1>1 DEF Call
  <2>2. call' = [call EXCEPT ![w] = x] /\ c.pc = "begin" BY <1>9 DEF Begin
  <2> HIDE DEF x
  <2>3. (\A p : MayPublish(c, p)) /\ ~Unassigned(c) BY <2>2 DEF MayPublish, Unassigned
  <2>4. QED BY <1>1, <1>3, <2>1, <2>2, <2>3
<1>10. CASE Rerun(w) /\ c.kind = "sweep"
  <2> DEFINE x == [c EXCEPT !.pc = "sweep", !.batch = Completed]
  <2>1. x.pc = "sweep" BY <1>1 DEF Call
  <2>2. call' = [call EXCEPT ![w] = x] BY <1>10 DEF Rerun
  <2> HIDE DEF x
  <2>3. QED BY <1>1, <1>2, <2>1, <2>2
<1>11. CASE Rerun(w) /\ c.kind # "sweep" BY <1>7, <1>11 DEF Rerun, Unassigned
<1>12. QED BY <1>4, <1>6, <1>8, <1>9, <1>10, <1>11

\* The sweep takes an episode only if it was published nowhere.
LEMMA SweepRation ==
  ASSUME IInv, IInv', Bookkeeping, Rationed, NEW w \in Workers, Tidy(w), SweepNext(w)
  PROVE  Rationed'
<1> DEFINE c == call[w]
           d == call'[w]
<1>1. /\ c \in Call /\ d \in Call /\ call \in [Workers -> Call]
      /\ requests \in [Episodes -> Nat] /\ MaxRetries \in Nat
  BY StateFacts, PublishAssumption DEF IInv, TypeOK
<1>2. /\ c.pc = "sweep" /\ c.kind = "sweep" /\ w \in site.workers /\ site' = site
      /\ history' = history /\ requests' = requests
      /\ AsksForEachOnce' = AsksForEachOnce
  BY DEF SweepNext, Bookkeeping, Linked, Rows, AsksForEachOnce
<1>3. PICK x \in Newest(c.batch) :
        Become(w, IF PassOver(x)
                  THEN [c EXCEPT !.batch = @ \ {x}]
                  ELSE [c EXCEPT !.batch = @ \ {x}, !.pc = "load",
                                 !.episode = x, !.targets = Enabled])
  BY DEF SweepNext
<1>4. CASE PassOver(x)
  <2> DEFINE y == [c EXCEPT !.batch = @ \ {x}]
  <2>1. y.pc = "sweep" BY <1>1, <1>2 DEF Call
  <2>2. call' = [call EXCEPT ![w] = y] BY <1>3, <1>4
  <2> HIDE DEF y
  <2>3. \A e \in Episodes, p \in Platforms : Due(d, e, p) = 0 /\ Due(c, e, p) \in Nat
    BY <1>1, <2>1, <2>2, DueIsNat DEF Due, Unassigned
  <2>4. QED BY <1>2, <2>3, RationStays
<1>5. CASE ~PassOver(x)
  <2> DEFINE y == [c EXCEPT !.batch = @ \ {x}, !.pc = "load",
                            !.episode = x, !.targets = Enabled]
  <2>1. y.pc = "load" /\ y.kind = "sweep" /\ y.episode = x BY <1>1, <1>2 DEF Call
  <2>2. call' = [call EXCEPT ![w] = y] BY <1>3, <1>5
  <2> HIDE DEF y
  <2>3. d.pc = "load" /\ d.kind = "sweep" /\ d.episode = x BY <1>1, <2>1, <2>2
  <2>4. ASSUME OneWorker, AsksForEachOnce, NEW e \in Episodes, NEW p \in Platforms
        PROVE  Count(e, p)' + Due(d, e, p) <= 1 + requests'[e] * (MaxRetries + 1)
    <3>1. requests[e] \in Nat /\ requests[e] * (MaxRetries + 1) \in Nat BY <1>1
    <3>2. CASE e = x
      <4>1. ~Published(e) BY <1>5, <3>2 DEF PassOver
      <4>2. {i \in DOMAIN history : history[i] = [episode |-> e, platform |-> p]} = {}
        BY <4>1 DEF Published
      <4>3. Count(e, p)' = 0 BY <1>2, <4>2, FS_EmptySet DEF Count
      <4>4. Due(d, e, p) \in {0, 1} BY <2>3, <3>2 DEF Due
      <4>5. QED BY <1>2, <3>1, <4>3, <4>4
    <3>3. CASE e # x
      <4>1. Due(d, e, p) = 0 /\ Due(c, e, p) = 0 BY <1>2, <2>3, <3>3 DEF Due, Unassigned
      <4>2. Count(e, p)' = Count(e, p) BY <1>2 DEF Count
      <4>3. Count(e, p) + Due(c, e, p) <= 1 + requests[e] * (MaxRetries + 1)
        BY <1>2, <2>4 DEF Rationed
      <4>4. QED BY <1>2, <4>1, <4>2, <4>3
    <3>4. QED BY <3>2, <3>3
  <2>5. QED BY <1>2, <2>4 DEF Rationed, OneWorker
<1>6. QED BY <1>4, <1>5

\* A publication is one less that is due.
LEMMA RecordRation ==
  ASSUME IInv, IInv', Bookkeeping, Rationed, NEW w \in Workers, Tidy(w), Record(w)
  PROVE  Rationed'
<1> DEFINE c == call[w]
           d == call'[w]
<1>1. /\ c \in Call /\ d \in Call /\ OnIt(w) /\ c.pc = "record" /\ w \in site.workers
      /\ c.todo \in Seq(Names) /\ c.todo # <<>> /\ Proper(c.todo)
      /\ Platform(w) = Head(c.todo)
      /\ site' = site /\ requests' = requests /\ AsksForEachOnce' = AsksForEachOnce
      /\ requests \in [Episodes -> Nat] /\ MaxRetries \in Nat
  <2>1. c \in Call /\ d \in Call /\ requests \in [Episodes -> Nat] /\ MaxRetries \in Nat
    BY StateFacts, PublishAssumption DEF IInv, TypeOK
  <2>2. /\ OnIt(w) /\ c.pc = "record" /\ site' = site /\ requests' = requests
        /\ AsksForEachOnce' = AsksForEachOnce
    BY DEF Record, OnIt, OnPlatform, AsksForEachOnce
  <2>3. QED BY <2>1, <2>2, StateFacts, PlatformFacts DEF OnIt, Bookkeeping, Linked, ListsProper,
      Platform
<1>2. /\ d.episode = c.episode /\ d.kind = c.kind /\ d.attempt = c.attempt
      /\ Rest(d) = Tail(c.todo) /\ d.pc \in {"rows", "next"}
  <2>1. CASE Platform(w) = "rss" BY <2>1, StaysOn DEF SamePlatform, Rest
  <2>2. CASE Platform(w) # "rss" BY <2>2, SucceedFacts DEF NextPlatform, Rest
  <2>3. QED BY <2>1, <2>2
<1>3. Rest(c) = c.todo /\ ~Unassigned(c) /\ ~Unassigned(d) BY <1>1, <1>2 DEF Rest, Unassigned
<1>4. ASSUME OneWorker, AsksForEachOnce, NEW e \in Episodes, NEW p \in Platforms
      PROVE  Count(e, p)' + Due(d, e, p) <= 1 + requests'[e] * (MaxRetries + 1)
  <2>1. Count(e, p)' = IF e = c.episode /\ p = Platform(w)
                       THEN Count(e, p) + 1 ELSE Count(e, p)
    BY CountAppend DEF Record
  <2>2. Count(e, p) + Due(c, e, p) <= 1 + requests[e] * (MaxRetries + 1) BY <1>1, <1>4 DEF Rationed
  <2>3. Count(e, p) \in Nat /\ Due(c, e, p) \in Nat /\ Due(d, e, p) \in Nat
    BY <1>1, SetsFinite, DueIsNat
  <2>4. requests[e] * (MaxRetries + 1) \in Nat BY <1>1
  <2>5. CASE e = c.episode /\ p = Platform(w)
    <3>1. MayPublish(c, p)
      <4>1. 1 \in 1..Len(c.todo) /\ c.todo[1] = p BY <1>1, <2>5
      <4>2. QED BY <1>3, <4>1 DEF MayPublish
    <3>2. ~MayPublish(d, p)
      <4>1. \A i \in 1..Len(Tail(c.todo)) : Tail(c.todo)[i] # p BY <1>1, <1>4, <2>5, TailProper
      <4>2. QED BY <1>2, <4>1 DEF MayPublish
    <3>3. MaxRetries - c.attempt \in Int BY <1>1 DEF Call
    <3>4. Due(c, e, p) = Due(d, e, p) + 1 BY <1>2, <1>3, <2>5, <3>1, <3>2, <3>3 DEF Due
    <3>5. QED BY <1>1, <2>1, <2>2, <2>3, <2>4, <2>5, <3>4
  <2>6. CASE ~(e = c.episode /\ p = Platform(w))
    <3>1. MayPublish(d, p) => MayPublish(c, p) BY <1>1, <1>2, <1>3, TailElements DEF MayPublish
    <3>2. Due(d, e, p) <= Due(c, e, p) BY <1>1, <1>2, <1>3, <3>1, DueShrinks
    <3>3. QED BY <1>1, <2>1, <2>2, <2>3, <2>4, <2>6, <3>2
  <2>7. QED BY <2>5, <2>6
<1>5. QED BY <1>1, <1>4 DEF Rationed, OneWorker

\* The other steps on a platform.
LEMMA PlatformRation ==
  ASSUME IInv, IInv', Bookkeeping, Rationed, NEW w \in Workers, Tidy(w),
         \/ CreateJob(w) \/ MarkRunning(w) \/ Refused(w) \/ Unavailable(w)
         \/ UploadFails(w) \/ Publish(w) \/ MarkSucceeded(w)
         \/ LoadRows(w) \/ FeedFails(w) \/ WriteFeed(w) \/ MarkFailed(w)
  PROVE  Rationed'
<1> DEFINE c == call[w]
           d == call'[w]
<1>1. /\ c \in Call /\ d \in Call /\ c.todo \in Seq(Names)
      /\ OnIt(w) => c.todo # <<>>
  BY StateFacts, PlatformFacts DEF IInv, TypeOK, OnIt
<1>2. /\ history' = history /\ requests' = requests /\ w \in site.workers
      /\ c.pc \in {"next", "check", "publish", "mark", "rows", "write", "failed"}
      /\ ~Unassigned(c)
  BY DEF CreateJob, MarkRunning, Refused, Unavailable, UploadFails, Publish, MarkSucceeded,
     LoadRows, FeedFails, WriteFeed, MarkFailed, Except, Rows, Bookkeeping, Linked, Unassigned
<1>3. ASSUME d.episode = c.episode, d.kind = c.kind, d.attempt = c.attempt,
             \A p : MayPublish(d, p) => MayPublish(c, p)
      PROVE  Rationed'
  <2>1. \A e \in Episodes, p \in Platforms : Due(d, e, p) <= Due(c, e, p)
    BY <1>1, <1>2, <1>3, DueShrinks
  <2>2. QED BY <1>2, <2>1, RationStays
<1>4. ASSUME Ended(c, d) PROVE Rationed'
  <2>1. \A e \in Episodes, p \in Platforms : Due(d, e, p) <= Due(c, e, p)
    BY <1>1, <1>2, <1>4, DueEnds
  <2>2. QED BY <1>2, <2>1, RationStays
<1>5. CASE \/ MarkRunning(w) \/ Refused(w) \/ Unavailable(w) \/ UploadFails(w) \/ Publish(w)
           \/ MarkSucceeded(w) \/ LoadRows(w) \/ FeedFails(w)
  <2>1. OnIt(w) /\ SamePlatform(c, d) BY <1>5, StaysOn
  <2>2. \/ c.pc \in {"check", "publish", "mark"} /\ d.pc \in {"publish", "mark", "record", "failed"}
        \/ c.pc = "rows" /\ d.pc \in {"write", "failed"}
    BY <1>5, StaysOn DEF MarkRunning, Refused, Unavailable, UploadFails, Publish, MarkSucceeded,
       LoadRows, FeedFails
  <2>3. \A p : MayPublish(d, p) => MayPublish(c, p)
    <3>1. Rest(d) = Rest(c) \/ (Rest(c) = c.todo /\ Rest(d) = Tail(c.todo))
      BY <2>1, <2>2 DEF Rest, SamePlatform
    <3>2. d.pc \notin {"reset", "load", "begin", "again"} BY <2>2
    <3>3. QED BY <1>1, <2>1, <3>1, <3>2, TailElements DEF MayPublish
  <2>4. QED BY <1>3, <2>1, <2>3 DEF SamePlatform
<1>6. CASE WriteFeed(w)
  <2>1. NextPlatform(c, d) /\ c.pc = "write" BY <1>6, SucceedFacts DEF WriteFeed
  <2>2. \A p : MayPublish(d, p) => MayPublish(c, p) BY <2>1 DEF MayPublish, NextPlatform, Rest
  <2>3. QED BY <1>3, <2>1, <2>2 DEF NextPlatform
<1>7. CASE MarkFailed(w)
  <2>1. c.pc = "failed" /\ (NextPlatform(c, d) \/ Ended(c, d))
    BY <1>7, MarkFailedFacts DEF MarkFailed
  <2>2. NextPlatform(c, d) => \A p : MayPublish(d, p) => MayPublish(c, p)
    BY <2>1 DEF MayPublish, NextPlatform, Rest
  <2>3. QED BY <1>3, <1>4, <2>1, <2>2 DEF NextPlatform
<1>8. CASE CreateJob(w)
  <2>1. CASE IsEnabled(Head(c.todo))
    <3>1. /\ c.pc = "next" /\ d.pc = "check" /\ d.todo = c.todo /\ d.episode = c.episode
          /\ d.kind = c.kind /\ d.attempt = c.attempt
      BY <1>8, <2>1, CreateJobFacts
    <3>2. \A p : MayPublish(d, p) => MayPublish(c, p) BY <3>1 DEF MayPublish, Rest
    <3>3. QED BY <1>3, <3>1, <3>2
  <2>2. CASE ~IsEnabled(Head(c.todo)) BY <1>4, <1>8, <2>2, CreateJobFacts
  <2>3. QED BY <2>1, <2>2
<1>9. QED BY <1>5, <1>6, <1>7, <1>8

-----------------------------------------------------------------------------

\* The books, with what they need.
BooksInv == IInv /\ Bookkeeping /\ Balanced /\ Retriable /\ FeedFollows /\ Rationed

\* The books are in order at the start.
LEMMA InitBooks == Init => BooksInv
<1> SUFFICES ASSUME Init PROVE BooksInv
  OBVIOUS
<1>1. IInv BY InitInv
<1>2. \A w \in Workers : call[w] = NoCall BY DEF Init
<1>3. NoCall.pc = "idle" /\ NoCall.failed = 0 /\ NoCall.todo = <<>> /\ NoCall.targets = <<>>
  BY DEF NoCall
<1>4. jobs = <<>> /\ history = <<>> /\ Len(<<>>) = 0 /\ DOMAIN jobs = {} /\ DOMAIN history = {}
  BY DEF Init
<1>5. Proper(<<>>) BY DEF Proper
<1>6. Bookkeeping
  BY <1>2, <1>3, <1>4, <1>5 DEF Bookkeeping, Linked, ListsProper, FailuresShow, OnIt, OnPlatform
<1>7. \A e, p : Count(e, p) = 0
  <2>1. \A e, p : {i \in DOMAIN history : history[i] = [episode |-> e, platform |-> p]} = {} BY <1>4
  <2>2. QED BY <2>1, FS_EmptySet DEF Count
<1>8. Balanced
  <2>1. \A e, p : Uploading(e) = {} /\ Recording(e, p) = {} /\ Finished(e, p) = {}
    BY <1>2, <1>3, <1>4 DEF Uploading, Recording, Finished
  <2>2. \A e \in Episodes : uploads[e] = 0 BY DEF Init
  <2>3. QED BY <1>7, <2>1, <2>2, FS_EmptySet DEF Balanced
<1>9. Retriable BY DEF Retriable, Init
<1>10. FeedFollows
  <2>1. FeedItems = {} BY <1>4 DEF FeedItems
  <2>2. feed = {} /\ site.workers \subseteq Workers BY PublishAssumption DEF Init
  <2>3. QED BY <1>2, <1>3, <2>1, <2>2 DEF FeedFollows
<1>11. Rationed
  <2>1. \A e, p : Due(NoCall, e, p) = 0 BY <1>3 DEF Due, Unassigned
  <2>2. site.workers \subseteq Workers /\ MaxRetries \in Nat
        /\ \A e \in Episodes : requests[e] = 0
    BY PublishAssumption DEF Init
  <2>3. QED BY <1>2, <1>7, <2>1, <2>2 DEF Rationed
<1>12. QED BY <1>1, <1>6, <1>8, <1>9, <1>10, <1>11 DEF BooksInv

\* Every step leaves them in order.
LEMMA NextBooks == BooksInv /\ [Next]_vars => BooksInv'
<1> SUFFICES ASSUME BooksInv, [Next]_vars PROVE BooksInv'
  OBVIOUS
<1>1. IInv' BY NextInv DEF BooksInv
<1>2. ASSUME NEW w \in Workers, Start(w) \/ StartSweep(w) \/ Advance(w) \/ Crash(w)
      PROVE  BooksInv'
  <2>1. Tidy(w) BY <1>1, <1>2, WorkerTidy DEF BooksInv, Bookkeeping
  <2>2. Bookkeeping' BY <1>1, <2>1, TidyKeeps DEF BooksInv
  <2>3. Balanced' BY <1>1, <1>2, <2>1, WorkerBalance DEF BooksInv
  <2>4. Retriable' BY <1>1, <1>2, <2>1, WorkerRetriable DEF BooksInv
  <2>5. FeedFollows' BY <1>1, <1>2, <2>1, <2>2, WorkerFeeds DEF BooksInv
  <2>6. Rationed'
    BY <1>1, <1>2, <2>1, AskRation, MovesRation, SweepRation, RecordRation, PlatformRation DEF
       BooksInv, Advance
  <2>7. QED BY <1>1, <2>2, <2>3, <2>4, <2>5, <2>6 DEF BooksInv
<1>3. ASSUME NEW o \in Operators, Cancel(o) PROVE BooksInv'
  <2>1. UNCHANGED <<site, status, shelf, history, uploads, feed, requests, call>>
    BY <1>3, CancelFacts DEF BooksInv
  <2>2. FeedFollows' BY <2>1 DEF BooksInv, FeedFollows, OneWorker, FeedItems
  <2>3. Rationed'
    <3>1. \A e, p : Count(e, p)' = Count(e, p) BY <2>1 DEF Count
    <3>2. (OneWorker' <=> OneWorker) /\ (AsksForEachOnce' <=> AsksForEachOnce)
      BY <2>1 DEF OneWorker, AsksForEachOnce
    <3>3. QED BY <2>1, <3>1, <3>2 DEF BooksInv, Rationed
  <2>4. QED BY <1>1, <1>3, <2>2, <2>3, CancelKeeps, CancelBalance, CancelRetriable DEF BooksInv
<1>4. CASE UNCHANGED vars
  <2>1. /\ site' = site /\ status' = status /\ jobs' = jobs /\ history' = history
        /\ uploads' = uploads /\ feed' = feed /\ requests' = requests /\ call' = call
    BY <1>4 DEF vars
  <2>2. Bookkeeping'
    BY <2>1 DEF BooksInv, Bookkeeping, Linked, ListsProper, FailuresShow, Loose, OnIt, Proper,
       AsksForEnabled, AsksForEachOnce
  <2>3. Balanced' /\ Retriable'
    <3>1. \A e, p : /\ Uploading(e)' = Uploading(e) /\ Recording(e, p)' = Recording(e, p)
                    /\ Finished(e, p)' = Finished(e, p) /\ Count(e, p)' = Count(e, p)
      BY <2>1 DEF Uploading, Recording, Finished, Count, Platform
    <3>2. Balanced' BY <2>1, <3>1 DEF BooksInv, Balanced, Fault
    <3>3. Retriable' BY <2>1 DEF BooksInv, Retriable, HasFailedJob, Working, AsksForEnabled
    <3>4. QED BY <3>2, <3>3
  <2>4. FeedFollows' /\ Rationed'
    <3>1. FeedItems' = FeedItems /\ (\A e, p : Count(e, p)' = Count(e, p))
      BY <2>1 DEF FeedItems, Count
    <3>2. (OneWorker' <=> OneWorker) /\ (AsksForEachOnce' <=> AsksForEachOnce)
      BY <2>1 DEF OneWorker, AsksForEachOnce
    <3>3. FeedFollows' BY <2>1, <3>1, <3>2 DEF BooksInv, FeedFollows
    <3>4. Rationed' BY <2>1, <3>1, <3>2 DEF BooksInv, Rationed
    <3>5. QED BY <3>3, <3>4
  <2>5. QED BY <1>1, <2>2, <2>3, <2>4 DEF BooksInv
<1>5. QED BY <1>2, <1>3, <1>4 DEF Next

\* At rest nothing is owed, and the books are right.
LEMMA RestIsRight == BooksInv => BooksAreRight
<1> SUFFICES ASSUME BooksInv PROVE BooksAreRight
  OBVIOUS
<1>0. IInv /\ DOMAIN jobs = 1..Len(jobs) BY StateFacts DEF BooksInv
<1>1. BooksAgree
  <2>1. ASSUME Quiet, NEW e \in Episodes, NEW p \in Platforms
        PROVE  Uploading(e) = {} /\ Recording(e, p) = {}
    BY <2>1 DEF Quiet, Uploading, Recording
  <2>2. \A e \in Episodes, p \in Platforms : Count(e, p) \in Nat BY <1>0, SetsFinite
  <2>3. ASSUME ~Fault("crash"), Quiet, NEW e \in Episodes
        PROVE  uploads[e] = Count(e, "youtube")
    <3>1. uploads[e] = Count(e, "youtube") + Cardinality({}) BY <2>1, <2>3 DEF BooksInv, Balanced
    <3>2. QED BY <2>2, <3>1, FS_EmptySet
  <2>4. ASSUME ~Fault("crash"), Quiet, NEW e \in Episodes, NEW p \in Platforms
        PROVE  Cardinality(Finished(e, p)) <= Count(e, p)
    <3>1. Cardinality(Finished(e, p)) <= Count(e, p) + Cardinality({})
      BY <2>1, <2>4 DEF BooksInv, Balanced
    <3>2. QED BY <2>2, <3>1, FS_EmptySet
  <2>5. QED BY <2>3, <2>4 DEF BooksAgree, Finished
<1>2. Recoverable
  BY <1>0 DEF BooksInv, Retriable, Recoverable, HasFailedJob, Working, Quiet, Unbegun
<1>3. FeedIsCurrent BY DEF BooksInv, FeedFollows, FeedIsCurrent, Quiet, OneWorker
<1>4. BoundedDuplicates
  <2>1. ASSUME OneWorker, AsksForEachOnce, NEW e \in Episodes, NEW p \in Platforms
        PROVE  Count(e, p) <= 1 + requests[e] * (MaxRetries + 1)
    <3>1. PICK w \in Workers : site.workers = {w} BY <2>1 DEF OneWorker
    <3>2. Count(e, p) + Due(call[w], e, p) <= 1 + requests[e] * (MaxRetries + 1)
      BY <2>1, <3>1 DEF BooksInv, Rationed
    <3>3. Count(e, p) \in Nat /\ Due(call[w], e, p) \in Nat
      BY <1>0, SetsFinite, StateFacts, DueIsNat
    <3>4. requests[e] * (MaxRetries + 1) \in Nat BY <1>0, PublishAssumption DEF IInv, TypeOK
    <3>5. QED BY <3>2, <3>3, <3>4
  <2>2. QED BY <2>1 DEF BoundedDuplicates
<1>5. QED BY <1>1, <1>2, <1>3, <1>4 DEF BooksAreRight

\* For every number of episodes, workers, operators and retries.  Unless
\* workers die, videos, publish jobs and history rows agree at rest, also
\* after cancellations and with several workers; unless the disk fails too,
\* what is left unfinished has a failed job to retry it from.  With one worker
\* the feed shows the newest publications, and an episode is published on a
\* platform at most once, plus once for every attempt that was asked for.
THEOREM BooksHold == Spec => []BooksAreRight
<1>1. QED BY InitBooks, NextBooks, RestIsRight, PTL DEF Spec

=============================================================================

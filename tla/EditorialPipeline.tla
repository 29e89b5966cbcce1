------------------------- MODULE EditorialPipeline -------------------------
(***************************************************************************)
(* From feeds to planned episodes: NewsImportService stores what the       *)
(* sources offer, the intelligence services analyse articles, and          *)
(* EpisodePlanningPipeline chooses today's articles for an episode.        *)
(*                                                                         *)
(* Jobs run side by side on several workers, and people at the admin pages *)
(* and the API work on the same rows.  A job reads articles into objects   *)
(* and writes single columns of them back after slow calls of the language *)
(* model.  One action is one round trip to the database, a feed or the     *)
(* language model.  All of it happens on one day.                          *)
(***************************************************************************)
EXTENDS Selection, SequencesExt

CONSTANTS
  Workers,      \* Celery workers
  Operators,    \* people at the admin pages and the API
  Sources,      \* names of news sources
  Items,        \* what a feed can offer
  MaxArticles,  \* MAX_EPISODE_ARTICLES
  Sites         \* the surroundings to consider

Processes == Workers \cup Operators

\* "feed": a source cannot be read.  "save": an article cannot be stored.
\* "llm": the language model fails.  "crash": a worker dies, or an exception
\* that nothing catches ends its job.
FaultKinds == {"feed", "save", "llm", "crash"}
Operations == {"import", "plan", "summarize", "classify", "enter", "post", "rescore",
               "add", "toggle", "delete", "create", "rename", "change"}

\* An item: its identity (title, url, hash of the content), its date (0: none),
\* what else the algorithms look at, what the feed calls its topic (section,
\* terms) and what the language model does (label, keywords).
\* A site: the sources that are there, their providers, limits and successive
\* feeds, articles stored before, articles entered by hand, what happens every
\* day and what only on request, and bounds.
ASSUME EditorialAssumption ==
  /\ MaxArticles \in Nat \ {0}
  /\ Workers \cap Operators = {} /\ IsFiniteSet(Sources)
  /\ \A i \in Items :
       /\ i.at \in Nat /\ i.today \in BOOLEAN /\ i.future \in BOOLEAN
       /\ {i.section, i.label} \subseteq Labels /\ IsFiniteSet(i.words)
       /\ i.terms \in Seq(Labels \cup AllowedTags) /\ i.keywords \in Seq(STRING)
  /\ \A s \in Sites :
       /\ s.sources \subseteq Sources /\ s.processes \subseteq Processes
       /\ \A n \in Sources : /\ s.provider[n] \in {"rss", "gmail", "html"}
                             /\ s.limit[n] \in Nat
                             /\ s.feeds[n] \in Seq(Seq(Items)) /\ s.feeds[n] # <<>>
       /\ s.stored \in Seq(Items) /\ s.byHand \subseteq Items
       /\ s.daily \subseteq {"import"}
       /\ s.operations \subseteq Operations /\ s.faults \subseteq FaultKinds
       /\ s.requestLimit \in Nat /\ s.faultLimit \in Nat

VARIABLES
  site,     \* the surroundings, chosen at the start
  source,   \* name -> how many sources have it (2: several), and enabled
  feed,     \* name -> which of its feeds it offers now
  article,  \* the rows of articles_article, in creation order
  episode,  \* the episodes: the articles planned for it and added later
  call,     \* process -> the job or request it has under way
  excused,  \* articles that two jobs worked on at once (observation)
  spent     \* how often what is bounded has happened

vars == <<site, source, feed, article, episode, call, excused, spent>>

-----------------------------------------------------------------------------
(* The data.                                                               *)

ArticleStatus == {"pending", "collected", "processed", "selected"}
NoScore == 0 - 1

\* origin: the name of its source.  late: no check for its URL saw the other
\* article that has it (observation).
Article == [item : Items, origin : Sources \cup {"manual"}, status : ArticleStatus,
            summarised : BOOLEAN, classified : BOOLEAN, category : Labels \cup AllowedTags,
            keyworded : BOOLEAN, tags : SUBSET AllowedTags,
            score : {NoScore} \cup 0..100, late : BOOLEAN]
\* The first term of an entry is its category, or else what its feed is about.
Section(i) == IF i.terms = <<>> THEN i.section ELSE Head(i.terms)
SourceTags(i) == Canonical(i.terms)
NewArticle(i, origin, late) ==
  [item |-> i, origin |-> origin, status |-> "collected", summarised |-> FALSE,
   classified |-> FALSE, category |-> Section(i), keyworded |-> FALSE,
   tags |-> SourceTags(i), score |-> NoScore, late |-> late]

ImportPc == {"collect", "check", "source", "insert"}
AnalysisPc == {"summarize", "classify", "extract", "tag", "score"}
PlanPc == {"choose", "describe", "create"}

\* sources, items: left to do.  create: its source was not found.  list: the
\* articles it has loaded, each [id, row as it was read].  errors: exceptions
\* caught.  failed: a call for an article has failed (observation).
Call == [kind : {"idle", "import", "plan", "summarize", "classify", "enter", "post"},
         pc : {"idle"} \cup ImportPc \cup AnalysisPc \cup PlanPc,
         sources : Seq(Sources), items : Seq(Items), late : BOOLEAN, create : BOOLEAN,
         list : Seq([id : Nat, row : Article]), at : Nat, chosen : Seq(Nat),
         errors : Nat, failed : BOOLEAN]
NoCall == [kind |-> "idle", pc |-> "idle", sources |-> <<>>, items |-> <<>>,
           late |-> FALSE, create |-> FALSE, list |-> <<>>, at |-> 0,
           chosen |-> <<>>, errors |-> 0, failed |-> FALSE]

Idle(p) == p \in site.processes /\ call[p].pc = "idle"
At(p, pc) == call[p].pc = pc
Goto(p, c) == call' = [call EXCEPT ![p] = c]
Leave(p) == Goto(p, NoCall)

May(op) == op \in site.operations \cup site.daily
Spend(kind) == spent' = [spent EXCEPT ![kind] = @ + 1]
\* What only people ask for is bounded.
Asked(op) == IF op \in site.daily THEN UNCHANGED spent
             ELSE /\ op \in site.operations
                  /\ spent.requests < site.requestLimit /\ Spend("requests")
Fault(kind) == /\ kind \in site.faults /\ spent.faults < site.faultLimit
               /\ Spend("faults")

Init ==
  /\ site \in Sites
  /\ source = [n \in Sources |-> [rows |-> IF n \in site.sources THEN 1 ELSE 0,
                                  enabled |-> TRUE]]
  /\ feed = [n \in Sources |-> 1]
  /\ article = [k \in DOMAIN site.stored |->
                  NewArticle(site.stored[k], "manual",
                             \E j \in 1..(k - 1) : site.stored[j].url = site.stored[k].url)]
  /\ episode = <<>>
  /\ call = [p \in Processes |-> NoCall]
  /\ excused = {}
  /\ spent = [requests |-> 0, faults |-> 0]

-----------------------------------------------------------------------------
(* Import: a job of type import_news, or a workflow's first step.          *)

Enabled == {n \in Sources : source[n].rows > 0 /\ source[n].enabled}
FirstFew(list, limit) == IF limit = 0 \/ limit >= Len(list) THEN list
                         ELSE SubSeq(list, 1, limit)

Blank(i) == i.title = "" /\ i.url = ""
\* A date that cannot be read is none.
Dated(i) == i.at # 0
Valid(i) == i.title # "" /\ i.url # "" /\ ~(Dated(i) /\ i.future)

\* RSS leaves out entries with neither title nor link, then limits.
RssItems(entries, limit) ==
  FirstFew(Kept(entries, {k \in DOMAIN entries : ~Blank(entries[k])}), limit)
\* Gmail limits its query, then leaves out invalid messages.
GmailItems(messages, limit) ==
  LET found == FirstFew(messages, limit)
  IN Kept(found, {k \in DOMAIN found : Valid(found[k])})
\* What a source's provider makes of its feed now.  Crawling is not implemented
\* and fails.
Window(n) ==
  LET entries == site.feeds[n][feed[n]]
  IN CASE site.provider[n] = "rss" -> RssItems(entries, site.limit[n])
       [] site.provider[n] = "gmail" -> GmailItems(entries, site.limit[n])
       [] site.provider[n] = "html" -> <<>>

ImportOf(names) ==
  [NoCall EXCEPT !.kind = "import", !.pc = "collect", !.sources = SetToSeq(names)]
StartImport(p, names) ==
  /\ p \in Workers /\ Idle(p) /\ May("import") /\ names # {}
  /\ Goto(p, ImportOf(names)) /\ Asked("import")
  /\ UNCHANGED <<site, source, feed, article, episode, excused>>

\* A request names its source, enabled or not.
ImportRequested(p, n) ==
  "import" \notin site.daily /\ source[n].rows > 0 /\ StartImport(p, {n})
ImportScheduled(p) == StartImport(p, Enabled)

\* The call after the rest of this source, and after this item.
NextSource(c) ==
  IF Len(c.sources) > 1
  THEN [c EXCEPT !.sources = Tail(@), !.items = <<>>, !.pc = "collect"]
  ELSE NoCall
\* mutant of NextItem: after one item the source is done
OnlyFirstItem(c) == NextSource(c)
NextItem(c) ==
  IF Len(c.items) > 1
  THEN [c EXCEPT !.items = Tail(@), !.pc = "check", !.late = FALSE, !.create = FALSE]
  ELSE NextSource(c)

\* A source that cannot be read is noted, and the others go on.
Collect(p) ==
  /\ At(p, "collect")
  /\ LET items == Window(Head(call[p].sources))
     IN \/ /\ Goto(p, IF items = <<>> THEN NextSource(call[p])
                      ELSE [call[p] EXCEPT !.items = items, !.pc = "check",
                                           !.late = FALSE, !.create = FALSE])
           /\ UNCHANGED spent
        \/ Fault("feed") /\ Goto(p, NextSource(call[p]))
  /\ UNCHANGED <<site, source, feed, article, episode, excused>>

Item(p) == Head(call[p].items)
HashTaken(i) == \E a \in DOMAIN article : article[a].item.hash = i.hash
UrlTaken(i) == \E a \in DOMAIN article : article[a].item.url = i.url

\* mutant of IsDuplicate: the URL is not compared
HashIsDuplicate(i) == HashTaken(i)
IsDuplicate(i) == HashTaken(i) \/ UrlTaken(i)

Check(p) ==
  /\ At(p, "check")
  /\ Goto(p, IF ~Valid(Item(p)) \/ IsDuplicate(Item(p)) THEN NextItem(call[p])
             ELSE [call[p] EXCEPT !.pc = "source"])
  /\ UNCHANGED <<site, source, feed, article, episode, excused, spent>>

\* get_or_create by name, which is not unique; it cannot choose among several.
FindSource(p) ==
  LET rows == source[Head(call[p].sources)].rows
  IN /\ At(p, "source")
     /\ Goto(p, IF rows > 1 THEN NextItem(call[p])
                ELSE [call[p] EXCEPT !.pc = "insert", !.create = (rows = 0)])
     /\ UNCHANGED <<site, source, feed, article, episode, excused, spent>>

\* Whoever is past its check has not seen the new article's URL.
Overlooked(i) ==
  [q \in Processes |->
     IF call[q].pc \in {"source", "insert"} /\ Item(q).url = i.url
     THEN [call[q] EXCEPT !.late = TRUE] ELSE call[q]]

\* The hash is unique, and an article needs its source.
Stores(p) ==
  /\ call[p].create \/ source[Head(call[p].sources)].rows > 0
  /\ ~HashTaken(Item(p))

\* The transaction of _process_article.  A failure is noted and skips the item.
Insert(p) ==
  LET n == Head(call[p].sources)
      i == Item(p)
  IN /\ At(p, "insert") /\ call[p].kind = "import"
     /\ \/ /\ Stores(p)
           /\ article' = Append(article, NewArticle(i, n, call[p].late))
           /\ source' = IF call[p].create
                        THEN [source EXCEPT ![n] = [rows |-> Min({2, @.rows + 1}),
                                                    enabled |-> TRUE]]
                        ELSE source
           /\ call' = [Overlooked(i) EXCEPT ![p] = NextItem(@)]
           /\ UNCHANGED spent
        \/ /\ IF Stores(p) THEN Fault("save") ELSE UNCHANGED spent
           /\ Goto(p, NextItem(call[p]))
           /\ UNCHANGED <<article, source>>
     /\ UNCHANGED <<site, feed, episode, excused>>


-----------------------------------------------------------------------------
(* Analysis.  "plan": all of today's articles, then an episode; "summarize"  *)
(* and "classify": one article on request, or all of today's in a workflow.  *)

\* mutant of Eligible: planned articles are taken again
EligibleOrSelected(a) == a.item.today
Eligible(a) == a.item.today /\ a.status \in {"collected", "processed"}

\* By publication, then by storing, newest first.
Newer(x, y) ==
  \/ article[x].item.at > article[y].item.at
  \/ article[x].item.at = article[y].item.at /\ x > y
Newest(ids) == Arranged(ids, {p \in ids \X ids : Newer(p[1], p[2])})
Loaded(ids) ==
  LET order == Newest(ids)
  IN [k \in DOMAIN order |-> [id |-> order[k], row |-> article[order[k]]]]

FirstStep(kind) == IF kind = "classify" THEN "classify" ELSE "summarize"

AnalysisOf(kind, ids) ==
  [NoCall EXCEPT !.kind = kind, !.pc = FirstStep(kind), !.at = 1, !.list = Loaded(ids)]
StartAnalysis(p, kind, ids) ==
  /\ p \in Workers /\ Idle(p) /\ ids # {}
  /\ Goto(p, AnalysisOf(kind, ids)) /\ Asked(kind)
  /\ UNCHANGED <<site, source, feed, article, episode, excused>>

Todays == {a \in DOMAIN article : Eligible(article[a])}
Plan(p) == StartAnalysis(p, "plan", Todays)
SummarizeTodays(p) == StartAnalysis(p, "summarize", Todays)
ClassifyTodays(p) == StartAnalysis(p, "classify", Todays)
SummarizeOne(p, a) == StartAnalysis(p, "summarize", {a})
ClassifyOne(p, a) == StartAnalysis(p, "classify", {a})

\* The article at hand, as the job has it.
Copy(p) == call[p].list[call[p].at]

\* mutant of Advance: one article too many
AdvanceTooFar(c) ==
  IF c.at <= Len(c.list) THEN [c EXCEPT !.at = @ + 1, !.pc = FirstStep(c.kind)]
  ELSE IF c.kind = "plan" THEN [c EXCEPT !.pc = "choose"] ELSE NoCall
Advance(c) ==
  IF c.at < Len(c.list) THEN [c EXCEPT !.at = @ + 1, !.pc = FirstStep(c.kind)]
  ELSE IF c.kind = "plan" THEN [c EXCEPT !.pc = "choose"] ELSE NoCall

\* A plan goes on to its next step, other jobs to their next article.
After(c, pc) == IF c.kind = "plan" THEN [c EXCEPT !.pc = pc] ELSE Advance(c)
WithCopy(c, row) == [c EXCEPT !.list[c.at].row = row]

\* The language model fails: a plan notes it and leaves the article, other
\* jobs end.
ModelFails(p) ==
  /\ Fault("llm")
  /\ Goto(p, IF call[p].kind = "plan"
             THEN Advance([call[p] EXCEPT !.errors = @ + 1, !.failed = TRUE])
             ELSE NoCall)
  /\ UNCHANGED <<article, excused>>

\* What was there when the article was read is not made again.
Skip(p, next) == Goto(p, After(call[p], next)) /\ UNCHANGED <<article, excused, spent>>

\* The summary is saved with the status the copy has.
Summarize(p) ==
  LET row == [Copy(p).row EXCEPT !.summarised = TRUE,
                                 !.status = IF @ = "collected" THEN "processed" ELSE @]
      a == Copy(p).id
  IN /\ At(p, "summarize")
     /\ \/ Copy(p).row.summarised /\ Skip(p, "classify")
        \/ /\ ~Copy(p).row.summarised
           /\ article' = [article EXCEPT ![a].summarised = TRUE, ![a].status = row.status]
           /\ excused' = IF article[a].status = "selected" /\ row.status # "selected"
                         THEN excused \cup {a} ELSE excused
           /\ Goto(p, After(WithCopy(call[p], row), "classify"))
           /\ UNCHANGED spent
        \/ ~Copy(p).row.summarised /\ ModelFails(p)
     /\ UNCHANGED <<site, source, feed, episode>>

Classify(p) ==
  LET a == Copy(p).id
      Classified(row) == [row EXCEPT !.classified = TRUE, !.category = FromLabel(row.item.label)]
  IN /\ At(p, "classify")
     /\ \/ Copy(p).row.classified /\ Skip(p, "extract")
        \/ /\ ~Copy(p).row.classified
           /\ article' = [article EXCEPT ![a] = Classified(@)]
           /\ Goto(p, After(WithCopy(call[p], Classified(Copy(p).row)), "extract"))
           /\ UNCHANGED <<excused, spent>>
        \/ ~Copy(p).row.classified /\ ModelFails(p)
     /\ UNCHANGED <<site, source, feed, episode>>

\* _save_keywords drops the tags and stores the extracted ones.
Extract(p) ==
  /\ At(p, "extract")
  /\ \/ Copy(p).row.keyworded /\ Skip(p, "score")
     \/ /\ ~Copy(p).row.keyworded
        /\ article' = [article EXCEPT ![Copy(p).id].tags = {}]
        /\ Goto(p, [call[p] EXCEPT !.pc = "tag"])
        /\ UNCHANGED <<excused, spent>>
     \/ ~Copy(p).row.keyworded /\ ModelFails(p)
  /\ UNCHANGED <<site, source, feed, episode>>

KeywordTags(i) == Canonical(i.keywords)
Tag(p) ==
  LET a == Copy(p).id
  IN /\ At(p, "tag")
     /\ article' = [article EXCEPT ![a].tags = KeywordTags(article[a].item), ![a].keyworded = TRUE]
     /\ Goto(p, [call[p] EXCEPT !.pc = "score"])
     /\ UNCHANGED <<site, source, feed, episode, excused, spent>>

\* The score is saved; then its result cannot be built (ScoreDTO lacks two
\* values), so the article counts as failed.  Whether count() asks the database
\* or the tags loaded with the article depends on the version of Django.
Score(p) ==
  LET a == Copy(p).id
  IN /\ At(p, "score")
     /\ \E tags \in {Copy(p).row.tags, article[a].tags} :
          article' = [article EXCEPT ![a].score =
            ImportanceScore(article[a].item.at, Copy(p).row.category, Cardinality(tags))]
     /\ Goto(p, Advance([call[p] EXCEPT !.errors = @ + 1]))
     /\ UNCHANGED <<site, source, feed, episode, excused, spent>>

-----------------------------------------------------------------------------
(* Planning.                                                               *)

\* The articles of a plan as they are now, in the order of the rows' table.
Views(p) ==
  LET order == Newest({call[p].list[k].id : k \in DOMAIN call[p].list})
  IN [k \in DOMAIN order |->
        LET a == article[order[k]]
        IN [id |-> order[k], title |-> a.item.title, words |-> a.item.words,
            tags |-> a.tags, at |-> a.item.at,
            score |-> IF a.score = NoScore THEN 0 ELSE a.score]]

Choose(p) ==
  /\ At(p, "choose")
  /\ \E views \in {Views(p)} :
       LET chosen == Chosen(views, MaxArticles)
       IN Goto(p, [call[p] EXCEPT !.pc = "describe",
                                  !.chosen = [k \in DOMAIN chosen |-> chosen[k].id]])
  /\ UNCHANGED <<site, source, feed, article, episode, excused, spent>>

\* Title and summary.  Their failure ends the job.
Describe(p) ==
  /\ At(p, "describe")
  /\ \/ Goto(p, [call[p] EXCEPT !.pc = "create"]) /\ UNCHANGED spent
     \/ Fault("llm") /\ Leave(p)
  /\ UNCHANGED <<site, source, feed, article, episode, excused>>

InList(p) == {call[p].list[k].id : k \in DOMAIN call[p].list}

\* The transaction of plan_episode.
CreateEpisode(p) ==
  LET planned == {call[p].chosen[k] : k \in DOMAIN call[p].chosen}
      others == {q \in Processes \ {p} : call[q].kind = "plan"}
  IN /\ At(p, "create")
     /\ episode' = Append(episode, [planned |-> planned, added |-> {}])
     /\ article' = [a \in DOMAIN article |->
                      IF a \in planned THEN [article[a] EXCEPT !.status = "selected"]
                      ELSE article[a]]
     /\ excused' = excused \cup (planned \cap UNION {InList(q) : q \in others})
     /\ Leave(p)
     /\ UNCHANGED <<site, source, feed, spent>>

-----------------------------------------------------------------------------
(* People.                                                                 *)

\* The content must be new when it is checked; the URL is not compared.  The
\* API stores the status it is given, "pending" by default.
Submit(p, i, kind) ==
  /\ p \in Operators /\ Idle(p) /\ i \in site.byHand /\ ~HashTaken(i)
  /\ Goto(p, [NoCall EXCEPT !.kind = kind, !.pc = "insert", !.items = <<i>>,
                            !.late = UrlTaken(i)])
  /\ Asked(kind)
  /\ UNCHANGED <<site, source, feed, article, episode, excused>>
Enter(p, i) == Submit(p, i, "enter")
Post(p, i) == Submit(p, i, "post")

StoreEntered(p) ==
  LET i == Item(p)
      row == [NewArticle(i, "manual", call[p].late) EXCEPT
                !.status = IF call[p].kind = "post" THEN "pending" ELSE "collected",
                !.category = "", !.tags = {}]
  IN /\ At(p, "insert") /\ call[p].kind \in {"enter", "post"}
     /\ IF HashTaken(i) THEN Leave(p) /\ UNCHANGED article
        ELSE /\ article' = Append(article, row)
             /\ call' = [Overlooked(i) EXCEPT ![p] = NoCall]
     /\ UNCHANGED <<site, source, feed, episode, excused, spent>>

\* rescore_articles scores the first article and fails.
Rescore(a) ==
  /\ Asked("rescore")
  /\ article' = [article EXCEPT ![a].score =
       ImportanceScore(article[a].item.at, article[a].category, Cardinality(article[a].tags))]
  /\ UNCHANGED <<site, source, feed, episode, call, excused>>

\* add_articles_to_draft_episode leaves the status of the article alone.
AddToDraft(e, a) ==
  /\ Asked("add")
  /\ a \notin episode[e].planned \cup episode[e].added
  /\ episode' = [episode EXCEPT ![e].added = @ \cup {a}]
  /\ UNCHANGED <<site, source, feed, article, call, excused>>

ToggleSource(n) ==
  /\ Asked("toggle") /\ source[n].rows = 1
  /\ source' = [source EXCEPT ![n].enabled = ~@]
  /\ UNCHANGED <<site, feed, article, episode, call, excused>>

\* Articles protect their source.
DeleteSource(n) ==
  /\ Asked("delete") /\ source[n].rows = 1
  /\ \A a \in DOMAIN article : article[a].origin # n
  /\ source' = [source EXCEPT ![n].rows = 0]
  /\ UNCHANGED <<site, feed, article, episode, call, excused>>

CreateSource(n) ==
  /\ Asked("create")
  /\ source' = [source EXCEPT ![n] = [rows |-> Min({2, @.rows + 1}), enabled |-> TRUE]]
  /\ UNCHANGED <<site, feed, article, episode, call, excused>>

\* update_rss_source; the articles stay with their row.
RenameSource(n, m) ==
  /\ Asked("rename") /\ source[n].rows = 1 /\ n # m
  /\ source' = [source EXCEPT
       ![n].rows = 0,
       ![m] = [rows |-> Min({2, @.rows + 1}), enabled |-> source[n].enabled]]
  /\ article' = [a \in DOMAIN article |->
                   IF article[a].origin = n THEN [article[a] EXCEPT !.origin = m] ELSE article[a]]
  /\ UNCHANGED <<site, feed, episode, call, excused>>

FeedChanges(n) ==
  /\ Asked("change") /\ feed[n] < Len(site.feeds[n])
  /\ feed' = [feed EXCEPT ![n] = @ + 1]
  /\ UNCHANGED <<site, source, article, episode, call, excused>>

Crash(p) ==
  /\ call[p].pc # "idle" /\ Fault("crash") /\ Leave(p)
  /\ UNCHANGED <<site, source, feed, article, episode, excused>>

-----------------------------------------------------------------------------

Work(p) ==
  \/ Collect(p) \/ Check(p) \/ FindSource(p) \/ Insert(p)
  \/ Summarize(p) \/ Classify(p) \/ Extract(p) \/ Tag(p) \/ Score(p)
  \/ Choose(p) \/ Describe(p) \/ CreateEpisode(p) \/ StoreEntered(p)
\* Nobody asks for anything.
Quiet == (\A p \in Processes : call[p].pc = "idle") /\ UNCHANGED vars
DailyImport == \E p \in Workers : ImportScheduled(p)

Next ==
  \/ DailyImport
  \/ \E p \in Workers :
       \/ \E n \in Sources : ImportRequested(p, n)
       \/ Plan(p) \/ SummarizeTodays(p) \/ ClassifyTodays(p)
       \/ \E a \in DOMAIN article : SummarizeOne(p, a) \/ ClassifyOne(p, a)
  \/ \E p \in Operators, i \in site.byHand : Enter(p, i) \/ Post(p, i)
  \/ \E p \in Processes : Work(p) \/ Crash(p)
  \/ \E a \in DOMAIN article : Rescore(a) \/ \E e \in DOMAIN episode : AddToDraft(e, a)
  \/ \E n \in Sources :
       ToggleSource(n) \/ DeleteSource(n) \/ CreateSource(n) \/ FeedChanges(n)
       \/ \E m \in Sources : RenameSource(n, m)
  \/ Quiet

\* Whoever is at work goes on, and beat starts the import every day.
FairSpec == /\ Init /\ [][Next]_vars
            /\ \A p \in Processes : WF_vars(Work(p))
            /\ WF_vars("import" \in site.daily /\ DailyImport)

-----------------------------------------------------------------------------
(* Properties.                                                             *)

\* Rows and calls keep their types, whatever the jobs do to each other.
TypeOK ==
  /\ site \in Sites
  /\ source \in [Sources -> [rows : 0..2, enabled : BOOLEAN]]
  /\ feed \in [Sources -> Nat] /\ \A n \in Sources : feed[n] \in DOMAIN site.feeds[n]
  /\ article \in Seq(Article)
  /\ episode \in Seq([planned : SUBSET DOMAIN article, added : SUBSET DOMAIN article])
  /\ call \in [Processes -> Call]
  /\ \A p \in Processes : /\ call[p].at \in 0..Len(call[p].list)
                          /\ call[p].errors <= Len(call[p].list)
  /\ excused \subseteq DOMAIN article
  /\ spent \in [requests : 0..site.requestLimit, faults : 0..site.faultLimit]

\* No two articles have one URL, unless the later one's check for it could not
\* see the other: two imports at once, or an article entered by hand, whose URL
\* nobody compares.
OneRowPerUrl ==
  \A a, b \in DOMAIN article :
    a < b /\ article[a].item.url = article[b].item.url => article[b].late

\* Rows are well-typed and distinct, whatever the jobs do to each other.
RowsAreDistinct == TypeOK /\ OneRowPerUrl

\* An article is selected if and only if exactly one episode was planned with
\* it.  The exceptions are articles that two plans had loaded at once, and
\* those a summary was saved for by a job that had read them before they were
\* selected: their status is set back.
PlannedOnce ==
  \A a \in DOMAIN article \ excused :
    Cardinality({e \in DOMAIN episode : a \in episode[e].planned})
      = IF article[a].status = "selected" THEN 1 ELSE 0

\* A plan chooses at least one and at most MaxArticles articles, no two of one
\* story; whatever it leaves out gave way to better articles: one of the same
\* story, or a full episode of them.
SelectionIsBest ==
  [][\A p \in Workers : At(p, "choose") /\ call'[p].pc = "describe" =>
       LET views == Views(p)
           ids == call'[p].chosen
           in == {v \in Range(views) : \E k \in DOMAIN ids : ids[k] = v.id}
       IN /\ Len(ids) = Cardinality(in) /\ Len(ids) \in 1..MaxArticles
          /\ \A v, w \in in : v # w => ~SameStory(views, v, w)
          /\ \A v \in Range(views) \ in :
               \/ \E w \in in : Better(w, v) /\ SameStory(views, v, w)
               \/ Len(ids) = MaxArticles /\ \A w \in in : Better(w, v)]_vars

\* Again and again, every valid item within what an enabled source's import
\* takes is an article, or one with its text or URL is there: what goes wrong
\* once is made up for by a later import.
NothingIsMissing ==
  \A n \in Enabled : source[n].rows = 1 =>
    \A i \in Range(Window(n)) : Valid(i) => IsDuplicate(i)
FeedIsImported == []<>("import" \in site.daily => NothingIsMissing)

=============================================================================

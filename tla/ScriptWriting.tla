---------------------------- MODULE ScriptWriting ----------------------------
(***************************************************************************)
(* How a podcast script is written: ScriptGenerationService._call_llm asks *)
(* the language model for a brief of every article, an outline, then every *)
(* chapter, which a critic reviews and the model rewrites a bounded number *)
(* of times, and for a last polish of the whole, after which the chapters  *)
(* may be reviewed once more.  ScriptValidationService has the last word.  *)
(*                                                                         *)
(* A request is under way between any two steps; whatever the model or the *)
(* network may answer is a choice.  ScriptVersions keeps what comes of it. *)
(***************************************************************************)
EXTENDS Integers, Sequences, FiniteSets, FiniteSetsExt, SequencesExt

CONSTANTS
  Articles,  \* articles of the episode
  Sites      \* the surroundings to consider

\* What may come back instead of an answer: the connection is refused, the
\* request times out, and what arrives is no JSON or has no message; a prompt
\* longer than the service allows.
WritingFaults == {"refused", "timeout", "not_json", "no_content", "too_large"}
Speakers == {"expert", "beginner", "narration", "intro", "outro"}
DialogueSpeakers == {"expert", "beginner"}

\* A sequence of whatever it lists.
Itemised(seq) == seq \in Seq(ToSet(seq))

\* A site: what the articles say, sentence by sentence and character by
\* character; the settings of the pipeline; what the model may answer at each
\* stage; what may go wrong; bounds.  No generation starts for an episode without
\* articles, and no draft is without segments.
ASSUME WritingAssumption ==
  /\ IsFiniteSet(Articles) /\ Articles # {}
  /\ \A s \in Sites :
    /\ \A a \in Articles : s.content[a] \in Seq(Seq({"cjk", "latin"}) \ {<<>>})
    /\ {s.sourceMax, s.threshold, s.retries, s.minSegments, s.maxSegments, s.maxDuration,
        s.added, s.lengthy, s.faultLimit} \subseteq Nat
    /\ {s.tries, s.wpm} \subseteq Nat \ {0} /\ s.postCritic \in BOOLEAN
    /\ \A outline \in s.outlines :
         /\ Itemised(outline.order) /\ Itemised(outline.chapters)
         /\ \A k \in DOMAIN outline.chapters : Itemised(outline.chapters[k].facts)
    /\ s.drafts \subseteq Seq([speaker : Speakers, says : Nat, words : Nat]) \ {<<>>}
    /\ s.faults \subseteq WritingFaults

VARIABLES
  site,     \* the surroundings, chosen at the start
  work,     \* the generation
  prompt,   \* what the request under way tells the model
  attempts, \* attempts at that request
  judged,   \* the chapters the critic has seen, with its verdicts (observation)
  spent     \* how often what is bounded has happened

writingVars == <<site, work, prompt, attempts, judged, spent>>

-----------------------------------------------------------------------------
(* The source text of an article.                                          *)

Count(text, c) == Cardinality({i \in DOMAIN text : text[i] = c})
EstimateTokens(text) == Count(text, "cjk") + (Count(text, "latin") + 3) \div 4

\* Sentences with the blanks between them.
Joined(units) ==
  LET joined[n \in 0..Len(units)] ==
        IF n = 0 THEN <<>>
        ELSE IF n = 1 THEN units[1] ELSE joined[n - 1] \o <<"latin">> \o units[n]
  IN joined[Len(units)]

\* What the first n sentences use up, counted one by one.
Used(units) ==
  LET used[n \in 0..Len(units)] ==
        IF n = 0 THEN 0 ELSE used[n - 1] + EstimateTokens(units[n])
  IN used

\* Mutant: a sentence that fills the budget is left out.
FittingWithRoom(units, budget) == Max({n \in 0..Len(units) : n = 0 \/ Used(units)[n] < budget})

\* How many sentences fit into the budget: up to the first that does not.
Fitting(units, budget) == Max({n \in 0..Len(units) : Used(units)[n] <= budget})

\* The longest beginning of a text that fits, by bisection: its length lies
\* between low and high, and no later than after as many halvings as the text has
\* characters these meet.
Ranges(text) == [low : 0..Len(text), high : 0..Len(text)]
Halved(text, budget) ==
  [range \in Ranges(text) |->
     LET middle == (range.low + range.high + 1) \div 2
     IN IF range.low >= range.high THEN range
        ELSE IF EstimateTokens(SubSeq(text, 1, middle)) <= budget THEN [range EXCEPT !.low = middle]
        ELSE [range EXCEPT !.high = middle - 1]]
Bisect(text, budget) ==
  LET range[n \in 0..Len(text)] ==
        IF n = 0 THEN [low |-> 0, high |-> Len(text)] ELSE Halved(text, budget)[range[n - 1]]
  IN range[Len(text)].low

FitToTokenBudget(units, budget) ==
  LET whole == Joined(units)
      kept == Fitting(units, budget)
  IN IF budget <= 0 THEN <<>>
     ELSE IF EstimateTokens(whole) <= budget THEN whole
     ELSE IF kept > 0 THEN Joined(SubSeq(units, 1, kept))
     ELSE SubSeq(whole, 1, Bisect(whole, budget))

TooLong(a) == EstimateTokens(Joined(site.content[a])) > site.sourceMax
Source(a) == FitToTokenBudget(site.content[a], site.sourceMax)

-----------------------------------------------------------------------------
(* What the model is told and what it answers.                             *)

\* A text is known by its article, its place, the answer it came with, and
\* whether the last pass has polished it.  A segment belongs to no article
\* until its chapter is accepted.
Text(a, place, take) == [of |-> a, place |-> place, take |-> take, polished |-> FALSE]
Segment(speaker, text, words, article) ==
  [speaker |-> speaker, text |-> text, words |-> words, article |-> article]
Texts(segments) == [i \in DOMAIN segments |-> segments[i].text]
Spoken(segments) == [i \in DOMAIN segments |-> <<segments[i].speaker, segments[i].text>>]

\* The segments of an answered draft: a draft lists who speaks, how many words,
\* and which place's text is said (its own, or an earlier one again).
Written(draft, a, take) ==
  [i \in DOMAIN draft |-> Segment(draft[i].speaker, Text(a, draft[i].says, take), draft[i].words, "none")]

Claim(a) == <<"claim", a>>
NoVerdict == [passed |-> FALSE, score |-> 0, unsupported |-> FALSE, editorial |-> FALSE, language |-> TRUE]
NoPlan == [order |-> <<>>, chapters |-> <<>>]
NoPrompt == [stage |-> "none"]
FirstSummary == "None; this is the first chapter."

\* briefs: articles briefed so far.  rag: the articles passages were retrieved
\* for.  plan: the outline.  pass, k: the chapter at hand, in the first round or
\* in the one after the polish.  chapter, critic, retries: its review.  covered,
\* previous, lines: what the next prompt is told of the chapters before.
\* merged, lengths, critics, coherent: what is collected.
Work == [pc |-> "brief", briefs |-> <<>>, rag |-> {}, plan |-> NoPlan, pass |-> 1, k |-> 1,
         chapter |-> <<>>, critic |-> NoVerdict, retries |-> 0, covered |-> <<>>,
         previous |-> FirstSummary, lines |-> <<>>, merged |-> <<>>, lengths |-> <<>>,
         critics |-> <<>>, coherent |-> <<>>, takes |-> 0]

\* The articles in the order of the episode.
InOrder == SetToSeq(Articles)
Subject(w) == w.plan.order[w.k]
Chapter(w) == w.plan.chapters[w.k]
HasChapters(w) == w.k <= Len(w.plan.order)

\* A chapter of several must fit its share of the whole.
ChapterLimits(n) ==
  IF n = 1 THEN [min |-> site.minSegments, max |-> site.maxSegments]
  ELSE LET target == Max({site.minSegments, Min({site.maxSegments, 48})})
           per == Max({5, Min({14, target \div n})})
       IN [min |-> Max({4, per - 1}), max |-> per + 2]

Position(k, n) == IF k = 1 THEN "first" ELSE IF k = n THEN "last" ELSE "middle"
Hook(w) == IF Chapter(w).hook = "" THEN "Close the episode naturally." ELSE Chapter(w).hook

StoryBriefPrompt(a) == [stage |-> "brief", article |-> a, source |-> Source(a)]
OutlinePrompt(w) == [stage |-> "outline", briefs |-> w.briefs]
ChapterPrompt(w) ==
  [stage |-> "chapter", article |-> Subject(w), position |-> Position(w.k, Len(w.plan.order)),
   source |-> Source(Subject(w)), rag |-> w.rag \cap {Subject(w)}, facts |-> Chapter(w).facts,
   covered |-> w.covered, previous |-> w.previous, lines |-> w.lines, hook |-> Hook(w),
   limits |-> ChapterLimits(Len(w.plan.order))]
CriticPrompt(w) ==
  [stage |-> "critic", article |-> Subject(w), facts |-> Chapter(w).facts, covered |-> w.covered,
   chapter |-> w.chapter]
RewritePrompt(w) ==
  [stage |-> "rewrite", article |-> Subject(w), source |-> Source(Subject(w)),
   rag |-> w.rag \cap {Subject(w)}, facts |-> Chapter(w).facts, covered |-> w.covered,
   previous |-> w.previous, lines |-> w.lines, hook |-> Hook(w), chapter |-> w.chapter,
   critic |-> w.critic]
CoherencePrompt(w) ==
  [stage |-> "coherence", briefs |-> w.briefs,
   script |-> [i \in DOMAIN w.merged |-> [index |-> i - 1, segment |-> w.merged[i]]]]

Prompt(w) ==
  CASE w.pc = "brief"     -> StoryBriefPrompt(InOrder[w.k])
    [] w.pc = "outline"   -> OutlinePrompt(w)
    [] w.pc = "chapter"   -> ChapterPrompt(w)
    [] w.pc = "critic"    -> CriticPrompt(w)
    [] w.pc = "rewrite"   -> RewritePrompt(w)
    [] w.pc = "coherence" -> CoherencePrompt(w)
    [] OTHER              -> NoPrompt

\* The generation goes on with w and asks what comes next.
Goto(w) ==
  /\ work' = w
  /\ prompt' = Prompt(w)
  /\ attempts' = 1
  /\ spent' = [spent EXCEPT !.requests = IF w.pc \in {"ready", "failed", "validate"} THEN @ ELSE @ + 1]
  /\ UNCHANGED site

Fail == Goto([work EXCEPT !.pc = "failed"])
At(stage) == work.pc = stage

WritingInit ==
  /\ site \in Sites
  /\ work = Work
  /\ prompt = StoryBriefPrompt(InOrder[1])
  /\ attempts = 1
  /\ judged = {}
  /\ spent = [requests |-> 1, faults |-> 0]

-----------------------------------------------------------------------------
(* The request.                                                            *)

\* OllamaProvider._post: what the provider makes of a broken exchange.
Raised(fault) ==
  CASE fault = "timeout" -> "Timeout"
    [] fault = "refused" -> "ProviderUnavailable"
    [] fault \in {"not_json", "no_content"} -> "InvalidResponse"
    [] fault = "too_large" -> "PromptTooLarge"

Again(fault) == Raised(fault) \in {"ProviderUnavailable", "Timeout"} /\ attempts < site.tries

\* LLMService._execute_with_retry: only an absent or slow provider is asked
\* again, with the same prompt; any other error ends the generation.
RequestFails(fault) ==
  /\ prompt # NoPrompt
  /\ fault \in site.faults /\ spent.faults < site.faultLimit
  /\ fault = "too_large" => attempts = 1
  /\ IF Again(fault)
     THEN /\ attempts' = attempts + 1
          /\ spent' = [requests |-> spent.requests + 1, faults |-> spent.faults + 1]
          /\ UNCHANGED <<site, work, prompt, judged>>
     ELSE /\ work' = [work EXCEPT !.pc = "failed"] /\ prompt' = NoPrompt /\ attempts' = 1
          /\ spent' = [spent EXCEPT !.faults = @ + 1]
          /\ UNCHANGED <<site, judged>>

\* What arrives is not what the schema demands.
SchemaInvalid ==
  /\ prompt # NoPrompt /\ site.nonsense
  /\ Fail /\ UNCHANGED judged

-----------------------------------------------------------------------------
(* Briefs and the outline.                                                 *)

\* A brief names its article, and one whose source had to be cut short is given
\* passages of the knowledge base, if there are any.
StoryBrief ==
  \E named \in site.briefed, found \in BOOLEAN :
    LET a == InOrder[work.k]
        next == [work EXCEPT !.k = @ + 1, !.briefs = Append(@, a),
                             !.rag = IF TooLong(a) /\ found THEN @ \cup {a} ELSE @]
    IN /\ At("brief")
       /\ TooLong(a) \/ ~found
       /\ IF named # "its own" /\ named # a THEN Fail
          ELSE Goto(IF next.k <= Len(InOrder) THEN next
                    ELSE [next EXCEPT !.pc = "outline", !.k = 1])
       /\ UNCHANGED judged

\* EpisodeOutlineSchema: nothing twice, and chapters as ordered.
OrderMatchesChapters(outline) ==
  /\ IsInjective(outline.order)
  /\ [k \in DOMAIN outline.chapters |-> outline.chapters[k].article] = outline.order

EpisodeOutline ==
  \E outline \in site.outlines :
    /\ At("outline")
    /\ IF ~OrderMatchesChapters(outline) \/ ToSet(outline.order) # Articles THEN Fail
       ELSE Goto([work EXCEPT !.pc = "chapter", !.plan = outline])
    /\ UNCHANGED judged

-----------------------------------------------------------------------------
(* A chapter and its reviews.                                              *)

Draft ==
  \E draft \in site.drafts :
    /\ At("chapter")
    /\ Goto([work EXCEPT !.pc = "critic", !.takes = @ + 1, !.retries = 0,
                         !.chapter = Written(draft, Subject(work), work.takes + 1)])
    /\ UNCHANGED judged

CriticPasses(c) ==
  c.passed /\ c.score >= site.threshold /\ ~c.unsupported /\ ~c.editorial /\ c.language

CriticIsGrounded(c) == ~c.unsupported /\ c.language

\* A chapter is accepted: its segments are the article's, and the next chapter
\* is told what has been covered and what was said last.
LastLines(segments) == Texts(SubSeq(segments, Max({1, Len(segments) - 1}), Len(segments)))

Owned(segments, a) == [i \in DOMAIN segments |-> [segments[i] EXCEPT !.article = a]]

Accepted(w, verdict) ==
  [w EXCEPT !.merged = @ \o Owned(w.chapter, Subject(w)),
            !.lengths = IF w.pass = 1 THEN Append(@, Len(w.chapter)) ELSE @,
            !.critics = Append(@, verdict),
            !.previous = w.chapter[1].text.take,
            !.lines = LastLines(w.chapter),
            !.covered = @ \o Append(Chapter(w).facts, Claim(Subject(w))),
            !.k = @ + 1, !.chapter = <<>>, !.critic = NoVerdict]

\* The slice of the polished script that the chapter at hand was.
Slice(w) ==
  LET offset[k \in 1..w.k] == IF k = 1 THEN 0 ELSE offset[k - 1] + w.lengths[k - 1]
  IN SubSeq(w.coherent, offset[w.k] + 1, offset[w.k] + w.lengths[w.k])

\* After a chapter: the next one, drafted or sliced; or what follows the last.
Onward(w) ==
  CASE HasChapters(w) /\ w.pass = 1 -> [w EXCEPT !.pc = "chapter"]
    [] HasChapters(w) /\ w.pass = 2 -> [w EXCEPT !.pc = "critic", !.chapter = Slice(w), !.retries = 0]
    [] ~HasChapters(w) /\ w.pass = 1 -> [w EXCEPT !.pc = "coherence"]
    [] ~HasChapters(w) /\ w.pass = 2 -> [w EXCEPT !.pc = "validate"]

\* The critic's verdict: on to the next chapter, a rewrite, a chapter accepted
\* with warnings at the limit, or the end.
Critique ==
  \E verdict \in site.verdicts :
    LET exhausted == work.retries >= site.retries
    IN /\ At("critic")
       /\ judged' = judged \cup {<<Spoken(work.chapter), verdict>>}
       /\ IF CriticPasses(verdict) \/ (exhausted /\ CriticIsGrounded(verdict))
          THEN Goto(Onward(Accepted(work, verdict)))
          ELSE IF exhausted THEN Fail
          ELSE Goto([work EXCEPT !.pc = "rewrite", !.critic = verdict])

\* mutant of Rewritten: the attempt is not counted
RewrittenUncounted(w, draft) ==
  [w EXCEPT !.pc = "critic", !.takes = @ + 1, !.chapter = Written(draft, Subject(w), w.takes + 1)]

Rewritten(w, draft) == [RewrittenUncounted(w, draft) EXCEPT !.retries = @ + 1]

Rewrite ==
  \E draft \in site.drafts :
    /\ At("rewrite")
    /\ Goto(Rewritten(work, draft))
    /\ UNCHANGED judged

-----------------------------------------------------------------------------
(* The polish of the whole.                                                *)

\* An answer lists segments by the index it was given, polished; it may leave
\* some out, change their order or let somebody else speak.
Polished(segment) ==
  [segment EXCEPT !.text.polished = TRUE, !.words = @ + site.added, !.article = "none"]
Answered(order, drifts) ==
  [i \in DOMAIN order |->
     [index |-> order[i] - 1,
      segment |-> [Polished(work.merged[order[i]])
                     EXCEPT !.speaker = IF drifts THEN "narration" ELSE @]]]
Answers == {Answered(order, drifts) :
              order \in {[i \in DOMAIN work.merged |-> i],
                         Reverse([i \in DOMAIN work.merged |-> i]),
                         [i \in 1..(Len(work.merged) - 1) |-> i]} \ {<<>>},
              drifts \in BOOLEAN}

\* mutant of SameIdentity: only their number counts
SameLength(answer, original) == Len(answer) = Len(original)

\* The same segments in the same order, by their indices.
SameIdentity(answer, original) ==
  /\ Len(answer) = Len(original)
  /\ \A i \in DOMAIN answer : answer[i].index = i - 1

\* Whose turn and whose article it is comes from the original.
AcceptCoherenceResult(answer, original) ==
  [i \in DOMAIN original |->
     [answer[i].segment EXCEPT !.speaker = original[i].speaker, !.article = original[i].article]]

\* mutant of Fresh: the second round still knows what the first one covered
Stale(w) ==
  [w EXCEPT !.pass = 2, !.k = 1, !.merged = <<>>, !.critics = <<>>,
            !.previous = FirstSummary, !.lines = <<>>]

\* A second round begins with nothing covered.
Fresh(w) == [Stale(w) EXCEPT !.covered = <<>>]

Coherence ==
  \E answer \in Answers :
    LET coherent == AcceptCoherenceResult(answer, work.merged)
    IN /\ At("coherence")
       /\ IF ~SameIdentity(answer, work.merged) THEN Fail
          ELSE IF ~site.postCritic
          THEN Goto([work EXCEPT !.pc = "validate", !.coherent = coherent, !.merged = coherent])
          ELSE Goto(Onward(Fresh([work EXCEPT !.coherent = coherent])))
       /\ UNCHANGED judged

-----------------------------------------------------------------------------
(* Validation.                                                             *)

\* To the nearest second, halves to the even one.
Rounded(n, d) ==
  LET below == n \div d
      twice == 2 * (n % d)
  IN IF twice > d \/ (twice = d /\ below % 2 = 1) THEN below + 1 ELSE below

SegmentDuration(segment) == Max({1, Rounded(segment.words * 60, site.wpm)})
Duration(script) == FoldSeq(LAMBDA segment, n : n + SegmentDuration(segment), 0, script)

\* A text long enough to be recognised, said twice.
Repeats(script) ==
  \E i, j \in DOMAIN script :
    i < j /\ script[i].text = script[j].text /\ script[i].words >= site.lengthy

ContentQuality(critics, script) ==
  /\ \A k \in DOMAIN critics : CriticIsGrounded(critics[k])
  /\ ~Repeats(script)

Valid(script) ==
  /\ Len(script) \in site.minSegments..site.maxSegments
  /\ \A speaker \in DialogueSpeakers : \E i \in DOMAIN script : script[i].speaker = speaker
  /\ ContentQuality(work.critics, script)
  /\ Duration(script) <= site.maxDuration

Validate ==
  /\ At("validate")
  /\ Goto([work EXCEPT !.pc = IF Valid(work.merged) THEN "ready" ELSE "failed"])
  /\ UNCHANGED judged

Ended == work.pc \in {"ready", "failed"}
Over == Ended /\ UNCHANGED writingVars

Answer == StoryBrief \/ EpisodeOutline \/ Draft \/ Critique \/ Rewrite \/ Coherence \/ Validate
WritingNext == Answer \/ SchemaInvalid \/ (\E fault \in WritingFaults : RequestFails(fault)) \/ Over

WritingSpec == WritingInit /\ [][WritingNext]_writingVars

\* Every request is answered or fails: they have a timeout.
WritingFairSpec == WritingSpec /\ WF_writingVars(WritingNext)

-----------------------------------------------------------------------------
(* What holds of it.                                                       *)

\* The verdicts that count: of the last review a chapter had.
Unpolished(spoken) == [i \in DOMAIN spoken |-> <<spoken[i][1], [spoken[i][2] EXCEPT !.polished = FALSE]>>]
ChapterOf(a) ==
  LET places == {i \in DOMAIN work.merged : work.merged[i].article = a}
  IN IF places = {} THEN <<>> ELSE SubSeq(work.merged, Min(places), Max(places))
GroundedAs(spoken) ==
  \E review \in judged :
    review[1] = spoken /\ ~review[2].unsupported /\ review[2].language

\* A script that is kept tells every story of the episode once, in the order of
\* the outline, each in one piece, its segments marked with the article they
\* were written about: the audio cuts its chapters by those marks.  And every
\* chapter is what a critic found grounded and in the episode's language, word
\* for word when the chapters are reviewed after the polish, and up to the
\* polish, by the same speakers, when they are not.
KeptIsReviewed ==
  work.pc = "ready" =>
    /\ FlattenSeq([k \in DOMAIN work.plan.order |-> ChapterOf(work.plan.order[k])]) = work.merged
    /\ IsInjective(work.plan.order) /\ ToSet(work.plan.order) = Articles
    /\ \A a \in Articles :
         /\ ChapterOf(a) # <<>>
         /\ \A i \in DOMAIN ChapterOf(a) : ChapterOf(a)[i].article = a /\ ChapterOf(a)[i].text.of = a
         /\ GroundedAs(IF site.postCritic THEN Spoken(ChapterOf(a)) ELSE Unpolished(Spoken(ChapterOf(a))))

\* All of the content when that fits; or its first sentences, as many as fit
\* counted one by one and no fewer, and on top of the budget no more than the
\* blanks between them cost; or the beginning of a first sentence that is itself
\* too long, up to where one more character is too much.
AsMuchAsFits(source, content, budget) ==
  LET fits(n) == EstimateTokens(Joined(SubSeq(content, 1, n))) <= budget
  IN IF fits(Len(content)) THEN source = Joined(content)
     ELSE IF fits(1)
     THEN /\ \E n \in DOMAIN content :
               /\ source = Joined(SubSeq(content, 1, n))
               /\ Used(content)[n] <= budget
               /\ n < Len(content) => Used(content)[n + 1] > budget
          /\ EstimateTokens(source) <= budget + Len(content) \div 4 + 1
     ELSE /\ IsPrefix(source, content[1])
          /\ EstimateTokens(source) <= budget
          /\ EstimateTokens(Append(source, "cjk")) > budget

\* What the model is told is of this moment: of the chapters of this round
\* before this one, all their facts and claims and of nothing else, and the two
\* lines that the last of them ends with (or its only one) as accepted; passages only of this article, and only when its source
\* had to be cut; of the source as much as fits; and a critic or a rewrite sees
\* the chapter at hand.
PromptsAreCurrent ==
  /\ prompt.stage \in {"chapter", "critic", "rewrite"} =>
       /\ prompt.article = work.plan.order[work.k]
       /\ ToSet(prompt.covered) =
            UNION {{Claim(work.plan.order[j])} \cup ToSet(work.plan.chapters[j].facts) : j \in 1..(work.k - 1)}
  /\ prompt.stage \in {"chapter", "rewrite"} =>
       /\ IF work.k = 1 THEN prompt.lines = <<>>
          ELSE LET said == Texts(ChapterOf(work.plan.order[work.k - 1]))
               IN IsSuffix(prompt.lines, said) /\ Len(prompt.lines) = Min({2, Len(said)})
       /\ prompt.rag \subseteq {a \in {prompt.article} : TooLong(a)}
  /\ prompt.stage \in {"critic", "rewrite"} => prompt.chapter = work.chapter
  /\ prompt.stage \in {"brief", "chapter", "rewrite"} =>
       AsMuchAsFits(prompt.source, site.content[prompt.article], site.sourceMax)

\* A generation ends, ready or failed, whatever the model answers, and asks for
\* no more than its articles, rewrites and attempts allow: nothing that fails
\* or dissatisfies is tried without end.
RequestLimit ==
  LET n == Len(InOrder)
      reviews == 1 + 2 * site.retries
      rounds == IF site.postCritic THEN 2 ELSE 1
  IN 2 * n + 2 + rounds * n * reviews + spent.faults
GenerationEnds == <>Ended /\ [](spent.requests <= RequestLimit /\ attempts <= site.tries)

=============================================================================

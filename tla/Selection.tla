----------------------------- MODULE Selection -----------------------------
(***************************************************************************)
(* What episode planning computes between two readings of the database:    *)
(* the score of an article, the clusters of articles about one story, the  *)
(* ranking, and the choice for an episode.  Pure operators, no state.      *)
(*                                                                         *)
(* An article is a record [id, title, words, tags, score, at].  Titles are *)
(* equal when they are equal after normalisation; words are those of the   *)
(* title that are no stopwords; at is the order of publication.            *)
(***************************************************************************)
EXTENDS Integers, FiniteSetsExt, Arranging

\* Parts of a score, in hundredths.
CategoryBoost ==
  [AI |-> 100, Security |-> 95, Cloud |-> 90, Programming |-> 85, Other |-> 70]
Categories == DOMAIN CategoryBoost
\* What a feed or the language model calls the topic; any other name is Other.
Labels == Categories \cup {"", "News"}
FromLabel(label) == IF label \in Categories THEN label ELSE "Other"
CategoryScore(label) == CategoryBoost[FromLabel(label)]

\* The taxonomy of tags (some of them), of which an article gets at most three.
AllowedTags == {"LLM", "Security", "Cloud", "Hardware"}
MaxKeywords == 3
Canonical(terms) ==
  LET known == {k \in DOMAIN terms : terms[k] \in AllowedTags}
      first == {k \in known : Cardinality({j \in known : j < k}) < MaxKeywords}
  IN {terms[k] : k \in first}
KeywordScore(count) == CASE count >= 10 -> 100
                         [] count \in 5..9 -> 80
                         [] count \in 1..4 -> 60
                         [] count = 0 -> 30
\* 100: published in the last 24 hours.  40: no date.
FreshnessScore(at) == IF at = 0 THEN 40 ELSE 100

\* round() takes a half to the even side.
Rounded(hundredths) ==
  LET low == hundredths \div 100
      rest == hundredths % 100
  IN IF rest > 50 \/ (rest = 50 /\ low % 2 = 1) THEN low + 1 ELSE low
ImportanceScore(at, label, tagCount) ==
  Rounded(50 * FreshnessScore(at) + 25 * CategoryScore(label)
          + 25 * KeywordScore(tagCount))

-----------------------------------------------------------------------------
(* Clusters.  A cluster's signals grow with every article that joins it.   *)

Signals(a) == a.words \cup a.tags

\* Jaccard overlap of at least 0.3.
Similar(s, t) == /\ s # {} /\ t # {}
                 /\ 10 * Cardinality(s \cap t) >= 3 * Cardinality(s \cup t)

\* Articles join the first cluster that they resemble or found one.  The cluster
\* of each article, named by the place of the article that founded it.
Founder(articles) ==
  LET founder[k \in DOMAIN articles] ==
        LET Members(c) == {j \in 1..(k - 1) : founder[j] = c}
            Collected(c) == UNION {Signals(articles[j]) : j \in Members(c)}
            resembled == {c \in 1..(k - 1) : Similar(Signals(articles[k]), Collected(c))}
        IN IF resembled = {} THEN k ELSE Min(resembled)
  IN founder
ClusterOf(articles, a) ==
  Founder(articles)[CHOOSE k \in DOMAIN articles : articles[k].id = a.id]

-----------------------------------------------------------------------------
(* Ranking and choice.                                                     *)

\* By score, then by date.  sorted() is stable also in reverse, and the articles
\* come newest first: later ids before earlier ones of the same time.
Better(a, b) ==
  \/ a.score > b.score
  \/ a.score = b.score /\ (a.at > b.at \/ (a.at = b.at /\ a.id > b.id))
Ranked(articles) ==
  LET all == {articles[k] : k \in DOMAIN articles}
  IN Arranged(all, {p \in all \X all : Better(p[1], p[2])})

SameStory(articles, a, b) ==
  a.title = b.title \/ ClusterOf(articles, a) = ClusterOf(articles, b)

\* Best first, up to max, skipping every article that repeats one taken before.
TakeBest(best, max, repeats) ==
  LET taken[k \in DOMAIN best] ==
        LET before == {j \in 1..(k - 1) : taken[j]}
        IN Cardinality(before) < max /\ \A j \in before : <<j, k>> \notin repeats
  IN Kept(best, {k \in DOMAIN best : taken[k]})
Pairs(best) == {p \in (1..Len(best)) \X (1..Len(best)) : p[1] < p[2]}

\* mutant of Chosen: the clusters of what was taken are not remembered
ChosenByTitle(articles, max) ==
  LET best == Ranked(articles)
  IN TakeBest(best, max, {p \in Pairs(best) : best[p[1]].title = best[p[2]].title})
Chosen(articles, max) ==
  LET best == Ranked(articles)
  IN TakeBest(best, max, {p \in Pairs(best) : SameStory(articles, best[p[1]], best[p[2]])})

=============================================================================

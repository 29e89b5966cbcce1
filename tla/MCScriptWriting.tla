--------------------------- MODULE MCScriptWriting ---------------------------
(* Small instances of ScriptWriting for TLC.                               *)
EXTENDS ScriptWriting, TLC

\* Texts of so many characters, in sentences.
Latin(n) == [i \in 1..n |-> "latin"]
Cjk(n) == [i \in 1..n |-> "cjk"]

Says(speaker, place, words) == [speaker |-> speaker, says |-> place, words |-> words]
Pair == <<Says("expert", 1, 5), Says("beginner", 2, 5)>>
Triple == <<Says("intro", 1, 3), Says("beginner", 2, 5), Says("expert", 3, 12)>>
Echo == <<Says("expert", 1, 5), Says("beginner", 1, 5)>>
Nods == <<Says("expert", 1, 2), Says("beginner", 1, 2)>>
Monologue == <<Says("expert", 1, 1)>>

Passing == [passed |-> TRUE, score |-> 80, unsupported |-> FALSE, editorial |-> FALSE, language |-> TRUE]
LowScore == [Passing EXCEPT !.score = 60]
Editorial == [Passing EXCEPT !.passed = FALSE, !.editorial = TRUE]
Unsupported == [Passing EXCEPT !.unsupported = TRUE]
Foreign == [Passing EXCEPT !.language = FALSE]

Part(a, facts, hook) == [article |-> a, facts |-> facts, hook |-> hook]
Outline(order, listed) ==
  [order |-> order, chapters |-> [k \in DOMAIN listed |-> Part(listed[k], <<<<"fact", listed[k]>>>>,
                                                               IF k = 1 THEN "and now" ELSE "")]]
Forth == Outline(<<"a1", "a2">>, <<"a1", "a2">>)
Back == Outline(<<"a2", "a1">>, <<"a2", "a1">>)
Crossed == Outline(<<"a1", "a2">>, <<"a2", "a1">>)
Doubled == Outline(<<"a1", "a2", "a1">>, <<"a1", "a2", "a1">>)
Missing == Outline(<<"a1">>, <<"a1">>)

Base == [content |-> [a \in Articles |-> <<Latin(4), Cjk(2)>>], sourceMax |-> 4,
         threshold |-> 75, retries |-> 1, postCritic |-> FALSE, tries |-> 2, wpm |-> 120,
         minSegments |-> 2, maxSegments |-> 8, maxDuration |-> 60, added |-> 1, lengthy |-> 4,
         briefed |-> {"its own"}, outlines |-> {Forth}, drafts |-> {Pair}, nonsense |-> FALSE,
         verdicts |-> {Passing, Unsupported}, faults |-> {}, faultLimit |-> 0]

\* Every kind of verdict, as often as there may be reviews.
Reviewed == [Base EXCEPT !.verdicts = {Passing, LowScore, Editorial, Unsupported, Foreign},
                         !.drafts = {Pair, Triple}]
\* Chapters reviewed again after the polish.
Twice == [Reviewed EXCEPT !.postCritic = TRUE, !.verdicts = {Passing, Editorial, Foreign},
                          !.outlines = {Back}]
\* Outlines of every sort, briefs of somebody else's article, nonsense.
Outlined == [Base EXCEPT !.outlines = {Forth, Back, Crossed, Doubled, Missing},
                         !.briefed = {"its own", "a2"}, !.nonsense = TRUE, !.verdicts = {Passing}]
\* A provider that fails in every way, and refuses twice in a row.
Failing == [Base EXCEPT !.faults = WritingFaults, !.faultLimit = 2]
\* Sources whose sentences fill the budget to the last character and exceed it by
\* the blanks, and that begin with a sentence longer than all of it.
Sourced ==
  [Base EXCEPT !.content = [a \in Articles |->
                              IF a = "a1" THEN <<Latin(4), Latin(12), Cjk(2), Latin(1)>>
                              ELSE <<Cjk(3) \o Latin(9), Latin(4)>>],
               !.verdicts = {Passing}]
\* Scripts too short, too long, said twice or by one alone.
Measured == [Base EXCEPT !.drafts = {Pair, Triple, Echo, Nods, Monologue}, !.verdicts = {Passing},
                         !.minSegments = 3, !.maxSegments = 5, !.maxDuration = 15]

CheckedSites == {Reviewed, Twice, Outlined, Failing, Sourced, Measured}

=============================================================================

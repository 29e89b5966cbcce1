-------------------------- MODULE MCKnowledgeIndex --------------------------
(* Small instances of KnowledgeIndex for TLC.                              *)
EXTENDS KnowledgeIndex, TLC

\* Characters from first to last; the same text twice in one article.
Run(first, last) == [k \in 1..(last - first + 1) |-> first + k - 1]
Short == <<<<Run(1, 2)>>, <<>>, <<Run(3, 5)>>>>
Summarised == <<<<Run(1, 2)>>, <<Run(6, 8)>>, <<Run(3, 5)>>>>
Long == <<<<Run(1, 2)>>, <<>>, <<Run(3, 11)>>>>
Spaced == <<<<Run(1, 2)>>, <<>>, <<<<3, 4, 0, 5, 6>>, <<3, 4, 0, 5, 6>>, <<7>>>>>>
Gaping == <<<<Run(1, 2)>>, <<>>, <<<<3, 4, 0, 0, 0, 0, 0, 0, 5>>>>>>

Base == [editions |-> [a \in Articles |-> <<Short>>],
         size |-> 3, overlap |-> 1, batch |-> 2, tries |-> 2,
         topK |-> 2, threshold |-> 2, budget |-> 2, scores |-> {1, 2, 3}, enabled |-> TRUE,
         faults |-> {}, requestLimit |-> 0, deleteLimit |-> 0, faultLimit |-> 0]

\* Workers that index two editions of the same article, and people who delete.
Contended ==
  [Base EXCEPT !.editions["a1"] = <<Short, Summarised>>, !.requestLimit = 2, !.deleteLimit = 1,
               !.scores = {3}]
\* Whatever can fail, in a long and a short article.
Failing ==
  [Base EXCEPT !.editions["a1"] = <<Long>>, !.faults = FaultKinds, !.faultLimit = 2,
               !.requestLimit = 1, !.scores = {3}]
\* Passages to choose from: texts of several lengths, repeated, and too long.
Chosen == [Base EXCEPT !.editions["a1"] = <<Spaced>>, !.size = 5, !.overlap = 0, !.requestLimit = 1]
Wide == [Chosen EXCEPT !.overlap = 7, !.budget = 1]
Tight == [Base EXCEPT !.editions["a1"] = <<Long>>, !.topK = 3, !.size = 4, !.overlap = 2,
                      !.requestLimit = 1, !.scores = {1, 3}, !.budget = 3]
Uneven == [Base EXCEPT !.editions["a1"] = <<<<<<Run(1, 9)>>, <<>>, <<<<10, 0, 11, 0, 12, 0, 13>>, <<14>>>>>>>>,
                       !.size = 9, !.overlap = 3, !.topK = 3, !.budget = 5, !.requestLimit = 1]
\* A body with a gap as long as a chunk, and a site without retrieval.
Blanks == [Base EXCEPT !.editions["a1"] = <<Gaping>>, !.requestLimit = 1]
Disabled == [Base EXCEPT !.enabled = FALSE, !.requestLimit = 1]

CheckedSites == {Contended, Failing, Chosen, Wide, Tight, Uneven, Blanks, Disabled}

=============================================================================

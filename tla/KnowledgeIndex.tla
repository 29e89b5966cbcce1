--------------------------- MODULE KnowledgeIndex ---------------------------
(***************************************************************************)
(* The knowledge base: IndexingService keeps one document per article, cut *)
(* into chunks with their embeddings; RetrievalService and ContextBuilder  *)
(* find the passages a script is grounded in.                              *)
(*                                                                         *)
(* Imports, script generations and the workflow's last step index the same *)
(* articles on several workers, from copies they loaded earlier.  One      *)
(* action is one statement, one embedded batch or one commit.              *)
(***************************************************************************)
EXTENDS TextChunks, Arranging

CONSTANTS
  Articles,  \* ids of articles
  Workers,   \* processes that index and retrieve
  Sites      \* the surroundings to consider

\* "embed": a request to the embedding model fails.  "insert": a vector cannot
\* be stored.  "query": retrieval fails.  "crash": a worker dies.
FaultKinds == {"embed", "insert", "query", "crash"}

\* KnowledgeSettings: chunk size and overlap, batch size and retry count of the
\* embeddings, top_k, threshold, token budget, and whether retrieval is enabled.
Settings(s) == /\ {s.size, s.batch, s.tries, s.topK, s.budget} \subseteq Nat \ {0}
               /\ s.overlap \in Int /\ s.threshold \in Int /\ s.enabled \in BOOLEAN

\* A site: the successive editions of every article, each a title, a summary
\* and a body; the settings of the knowledge base; how near a text can be to a
\* query; what may go wrong; bounds.
ASSUME KnowledgeAssumption ==
  /\ IsFiniteSet(Articles) /\ "nobody" \notin Workers
  /\ \A s \in Sites :
       /\ \A a \in Articles : /\ s.editions[a] \in Seq(Seq(Seq(Seq(Nat)))) /\ s.editions[a] # <<>>
                              /\ \A e \in DOMAIN s.editions[a] :
                                   \A k \in DOMAIN s.editions[a][e] :
                                     \A n \in DOMAIN s.editions[a][e][k] :
                                       IsParagraph(s.editions[a][e][k][n])
       /\ Settings(s) /\ s.scores \subseteq Int /\ s.faults \subseteq FaultKinds
       /\ {s.requestLimit, s.deleteLimit, s.faultLimit} \subseteq Nat

VARIABLES
  site,      \* the surroundings, chosen at the start
  stored,    \* article -> the edition its row holds (0: no such row)
  document,  \* article -> its committed document and chunks, or NoDocument
  writer,    \* article -> the worker whose transaction holds its document
  call,      \* worker -> what it is at
  gap,       \* articles an indexing of which was lost to a fault (observation)
  spent      \* how often what is bounded has happened

vars == <<site, stored, document, writer, call, gap, spent>>

-----------------------------------------------------------------------------
(* The data.                                                               *)

\* DocumentNormalizer: the sections in order; a blank one has no paragraph.
\* Cut: the chunks of every text there can be.
FromArticle(edition) == FlattenSeq(edition)
Texts == UNION {{<<FromArticle(s.editions[a][e]), s.size, s.overlap>> : e \in DOMAIN s.editions[a]}
                : s \in Sites, a \in Articles}
Cut == [t \in Texts |-> ChunkDocument(t[1], t[2], t[3])]
Content(a, e) == FromArticle(site.editions[a][e])
Drafts(content) == Cut[<<content, site.size, site.overlap>>]

EmbeddingStatus == {"pending", "processing", "completed", "failed"}
KnowledgeChunk == [text : Seq(Nat), tokens : Nat, status : EmbeddingStatus, vector : Seq(Nat)]
NoVector == <<Blank>>
PendingChunk(draft) ==
  [text |-> draft.text, tokens |-> draft.tokens, status |-> "pending", vector |-> NoVector]
Embedded(chunk) == [chunk EXCEPT !.status = "completed", !.vector = chunk.text]

\* What the checksum of a document stands for is its content.
KnowledgeDocument == [id : Nat, content : Seq(Seq(Nat)), chunks : Seq(KnowledgeChunk)]
NoDocument == [id |-> 0, content |-> <<>>, chunks |-> <<>>]

RetrievedChunk == [text : Seq(Nat), tokens : Nat, score : Int]

\* todo: articles left to do, each with the edition the worker has read.
\* existing: the document it found.  chunks: of its open transaction.  next: the
\* first chunk of the next batch.  found, context: what retrieval returned.
Call == [kind : {"idle", "import", "script", "workflow"},
         pc : {"idle", "look", "create", "reindex", "embed", "search", "build", "done"},
         todo : Seq([article : Articles, edition : Nat]),
         existing : Nat, chunks : Seq(KnowledgeChunk), next : Nat, attempts : Nat,
         found : Seq(RetrievedChunk), context : Seq(RetrievedChunk)]
NoCall == [kind |-> "idle", pc |-> "idle", todo |-> <<>>, existing |-> 0, chunks |-> <<>>,
           next |-> 1, attempts |-> 0, found |-> <<>>, context |-> <<>>]

At(p, pc) == call[p].pc = pc
Subject(p) == Head(call[p].todo).article
Copy(p) == Content(Subject(p), Head(call[p].todo).edition)
Goto(p, c) == call' = [call EXCEPT ![p] = c]
Spend(kind) == spent' = [spent EXCEPT ![kind] = @ + 1]
Fault(kind) == kind \in site.faults /\ spent.faults < site.faultLimit /\ Spend("faults")
Asked == spent.requests < site.requestLimit /\ Spend("requests")

Init ==
  /\ site \in Sites
  /\ stored = [a \in Articles |-> 0]
  /\ document = [a \in Articles |-> NoDocument]
  /\ writer = [a \in Articles |-> "nobody"]
  /\ call = [p \in Workers |-> NoCall]
  /\ gap = {}
  /\ spent = [requests |-> 0, deletions |-> 0, faults |-> 0, documents |-> 0]

-----------------------------------------------------------------------------
(* Who asks for an index.                                                  *)

Begin(p, kind, todo) ==
  Goto(p, [NoCall EXCEPT !.kind = kind, !.pc = "look", !.todo = todo])

\* An import has committed an article and indexes it, if retrieval is enabled.
ImportArticle(p, a) ==
  /\ At(p, "idle") /\ stored[a] = 0
  /\ stored' = [stored EXCEPT ![a] = 1]
  /\ IF site.enabled THEN Begin(p, "import", <<[article |-> a, edition |-> 1]>>)
     ELSE UNCHANGED call
  /\ UNCHANGED <<site, document, writer, gap, spent>>

\* A summary or an edit gives an article another text.
Revise(a) ==
  /\ stored[a] \in 1..(Len(site.editions[a]) - 1)
  /\ stored' = [stored EXCEPT ![a] = @ + 1]
  /\ UNCHANGED <<site, document, writer, call, gap, spent>>

\* A generation asks for passages of an article too long to quote as a whole.
EnrichArticle(p, a) ==
  /\ At(p, "idle") /\ stored[a] > 0 /\ site.enabled /\ Asked
  /\ Begin(p, "script", <<[article |-> a, edition |-> stored[a]]>>)
  /\ UNCHANGED <<site, stored, document, writer, gap>>

\* The workflow's last step indexes today's articles, enabled or not.
IndexKnowledge(p) ==
  /\ At(p, "idle") /\ Asked
  /\ LET todays == SetToSeq({a \in Articles : stored[a] > 0})
     IN /\ todays # <<>>
        /\ Begin(p, "workflow", [k \in DOMAIN todays |->
                                   [article |-> todays[k], edition |-> stored[todays[k]]]])
  /\ UNCHANGED <<site, stored, document, writer, gap>>

\* A document is deleted at its admin page, chunks and all.
DeleteDocument(a) ==
  /\ document[a] # NoDocument /\ writer[a] = "nobody"
  /\ spent.deletions < site.deleteLimit /\ Spend("deletions")
  /\ document' = [document EXCEPT ![a] = NoDocument]
  /\ gap' = gap \cup {a}
  /\ UNCHANGED <<site, stored, writer, call>>

-----------------------------------------------------------------------------
(* index_document.                                                         *)

\* Script generations go on to retrieve; best-effort callers go on whatever
\* happened; the workflow's step ends with the first article that fails.
\* mutant of Settled: a caller tries until an indexing succeeds
TriedAgain(p, indexed) == IF indexed THEN Goto(p, NoCall)
                          ELSE Begin(p, call[p].kind, call[p].todo)
Settled(p, indexed) ==
  LET c == call[p]
  IN IF c.kind = "script"
     THEN Goto(p, [NoCall EXCEPT !.kind = c.kind, !.pc = "search", !.todo = c.todo])
     ELSE IF indexed /\ Len(c.todo) > 1 THEN Begin(p, c.kind, Tail(c.todo))
     ELSE Goto(p, NoCall)

Release(p) == writer' = [a \in Articles |-> IF writer[a] = p THEN "nobody" ELSE writer[a]]
\* An exception undoes the whole transaction.
Rollback(p) == Release(p) /\ Settled(p, FALSE) /\ UNCHANGED <<site, stored, document>>

\* The search for the document, before any transaction.
Look(p) ==
  /\ At(p, "look")
  /\ LET existing == document[Subject(p)]
     IN IF existing # NoDocument /\ existing.content = Copy(p)
        THEN Settled(p, TRUE)
        ELSE Goto(p, [call[p] EXCEPT !.existing = existing.id,
                        !.pc = IF existing = NoDocument THEN "create" ELSE "reindex"])
  /\ UNCHANGED <<site, stored, document, writer, gap, spent>>

OpenTransaction(p) ==
  /\ writer' = [writer EXCEPT ![Subject(p)] = p]
  /\ \E drafts \in {Drafts(Copy(p))} :
       Goto(p, [call[p] EXCEPT !.pc = "embed",
                  !.chunks = [k \in DOMAIN drafts |-> PendingChunk(drafts[k])]])

\* The insert waits for another transaction that inserts or rewrites the same
\* document; a document committed meanwhile violates the unique constraint.
CreateAndIndex(p) ==
  /\ At(p, "create") /\ writer[Subject(p)] = "nobody"
  /\ \/ /\ document[Subject(p)] = NoDocument /\ OpenTransaction(p)
        /\ UNCHANGED <<site, stored, document>>
     \/ document[Subject(p)] # NoDocument /\ Rollback(p)
  /\ UNCHANGED <<gap, spent>>

\* The row it found is rewritten, its chunks deleted and created again; when it
\* has been deleted meanwhile, the save fails.
Reindex(p) ==
  /\ At(p, "reindex") /\ writer[Subject(p)] = "nobody"
  /\ \/ /\ document[Subject(p)].id = call[p].existing /\ OpenTransaction(p)
        /\ UNCHANGED <<site, stored, document>>
     \/ document[Subject(p)].id # call[p].existing /\ Rollback(p)
  /\ UNCHANGED <<gap, spent>>

Batch(p) == call[p].next..Min({call[p].next + site.batch - 1, Len(call[p].chunks)})
\* The embedding model refuses a text without a character.
Refused(p) == \E k \in Batch(p) : call[p].chunks[k].text = <<>>

\* A vector that cannot be stored breaks the transaction: that the chunk is
\* FAILED cannot be saved either.
Lost(p) == gap' = gap \cup {Subject(p)} /\ Rollback(p)
\* mutant of BreakTransaction: a failed insert is noted and the others go on
NoteFailure(p) ==
  /\ gap' = gap \cup {Subject(p)}
  /\ Goto(p, [call[p] EXCEPT !.next = @ + site.batch,
       !.chunks = [k \in DOMAIN @ |-> IF k \in Batch(p) THEN [@[k] EXCEPT !.status = "failed"]
                                      ELSE @[k]]])
  /\ UNCHANGED <<site, stored, document, writer>>
BreakTransaction(p) == Lost(p)

BatchFails(p) == Fault("embed") \/ (Refused(p) /\ UNCHANGED spent)
EmbedBatch(p) ==
  /\ At(p, "embed") /\ call[p].next <= Len(call[p].chunks)
  /\ \/ /\ ~Refused(p)
        /\ Goto(p, [call[p] EXCEPT !.next = @ + site.batch, !.attempts = 0,
             !.chunks = [k \in DOMAIN @ |-> IF k \in Batch(p) THEN Embedded(@[k]) ELSE @[k]]])
        /\ UNCHANGED <<site, stored, document, writer, gap, spent>>
     \/ /\ call[p].attempts + 1 < site.tries /\ BatchFails(p)
        /\ Goto(p, [call[p] EXCEPT !.attempts = @ + 1])
        /\ UNCHANGED <<site, stored, document, writer, gap>>
     \/ call[p].attempts + 1 >= site.tries /\ BatchFails(p) /\ Lost(p)
     \/ ~Refused(p) /\ Fault("insert") /\ BreakTransaction(p)

Commit(p) ==
  /\ At(p, "embed") /\ call[p].next > Len(call[p].chunks)
  /\ LET new == call[p].existing = 0
     IN /\ document' = [document EXCEPT ![Subject(p)] =
             [id |-> IF new THEN spent.documents + 1 ELSE call[p].existing,
              content |-> Copy(p), chunks |-> call[p].chunks]]
        /\ spent' = [spent EXCEPT !.documents = IF new THEN @ + 1 ELSE @]
  /\ Release(p) /\ Settled(p, TRUE)
  /\ UNCHANGED <<site, stored, gap>>

Crash(p) ==
  /\ ~At(p, "idle") /\ Fault("crash")
  /\ gap' = gap \cup {call[p].todo[k].article : k \in DOMAIN call[p].todo}
  /\ Release(p) /\ Goto(p, NoCall)
  /\ UNCHANGED <<site, stored, document>>

-----------------------------------------------------------------------------
(* Retrieval and the context of a prompt.                                  *)

\* Committed chunks of the article that have a vector.
Searchable(a) ==
  LET chunks == document[a].chunks
  IN Kept(chunks, {k \in DOMAIN chunks :
                     chunks[k].status = "completed" /\ chunks[k].vector # NoVector})
Descending(seq) == \A i, j \in DOMAIN seq : i < j => seq[i].score >= seq[j].score

\* Sorted by score, equal ones as they came or the other way round.
ByScore(rows, way) ==
  LET Before(j, k) == \/ rows[j].score > rows[k].score
                      \/ rows[j].score = rows[k].score /\ way * j < way * k
  IN [n \in DOMAIN rows |->
        rows[CHOOSE k \in DOMAIN rows : Cardinality({j \in DOMAIN rows : Before(j, k)}) = n - 1]]
\* The nearest come first; the database promises no order of equal distances.
Ordered(rows, similarity, way) ==
  ByScore([k \in DOMAIN rows |-> [text |-> rows[k].text, tokens |-> rows[k].tokens,
                                  score |-> similarity[rows[k].vector]]], way)
\* Of twice top_k rows the first top_k above the threshold.
Search(rows) ==
  LET window == SubSeq(rows, 1, Min({Len(rows), 2 * site.topK}))
      near == Kept(window, {k \in DOMAIN window : window[k].score >= site.threshold})
  IN SubSeq(near, 1, Min({Len(near), site.topK}))
\* Scores are stretched to 0..100; equal ones all become 100.
NormalizedScores(rows) ==
  LET scores == {rows[k].score : k \in DOMAIN rows}
  IN [k \in DOMAIN rows |->
        [rows[k] EXCEPT !.score = IF Cardinality(scores) = 1 THEN 100
           ELSE ((@ - Min(scores)) * 100) \div (Max(scores) - Min(scores))]]
RankChunks(rows) == ByScore(rows, 1)
DeduplicateChunks(rows) ==
  Kept(rows, {k \in DOMAIN rows : \A j \in 1..(k - 1) : rows[j].text # rows[k].text})
Tokens(rows) ==
  LET sum[n \in 0..Len(rows)] == IF n = 0 THEN 0 ELSE sum[n - 1] + rows[n].tokens
  IN sum[Len(rows)]
\* A chunk that does not fit is passed over, a smaller one may follow.
\* mutant of Assemble: the first chunk that does not fit ends it
AssemblePrefix(rows) ==
  LET fitting == {n \in 0..Len(rows) : Tokens(SubSeq(rows, 1, n)) <= site.budget}
  IN SubSeq(rows, 1, Max(fitting))
AddFitting(taken, c) ==
  IF Tokens(taken) + c.tokens > site.budget THEN taken ELSE Append(taken, c)
Assemble(rows) ==
  LET taken[n \in 0..Len(rows)] == IF n = 0 THEN <<>> ELSE AddFitting(taken[n - 1], rows[n])
  IN taken[Len(rows)]

\* The texts are as near to the query as they are; equal texts equally near.
Retrieve(p) ==
  /\ At(p, "search")
  /\ \/ \E rows \in {Searchable(Subject(p))} :
          \E similarity \in [{rows[k].vector : k \in DOMAIN rows} -> site.scores], way \in {1, 0 - 1} :
             /\ Goto(p, [call[p] EXCEPT !.pc = "build", !.found = Ordered(rows, similarity, way)])
             /\ UNCHANGED spent
     \/ Fault("query") /\ Goto(p, [call[p] EXCEPT !.pc = "done"])
  /\ UNCHANGED <<site, stored, document, writer, gap>>

BuildContext(p) ==
  /\ At(p, "build")
  /\ \E chunks \in {NormalizedScores(Search(call[p].found))} :
       Goto(p, [call[p] EXCEPT !.pc = "done",
                  !.context = Assemble(DeduplicateChunks(RankChunks(chunks)))])
  /\ UNCHANGED <<site, stored, document, writer, gap, spent>>

UseContext(p) ==
  /\ At(p, "done") /\ Goto(p, NoCall)
  /\ UNCHANGED <<site, stored, document, writer, gap, spent>>

Work(p) == \/ Look(p) \/ CreateAndIndex(p) \/ Reindex(p) \/ EmbedBatch(p) \/ Commit(p)
           \/ Retrieve(p) \/ BuildContext(p) \/ UseContext(p)
Imports == \E p \in Workers, a \in Articles : ImportArticle(p, a)
Revisions == \E a \in Articles : Revise(a)
Enrichments == \E p \in Workers, a \in Articles : EnrichArticle(p, a)
WorkflowSteps == \E p \in Workers : IndexKnowledge(p)
Deletions == \E a \in Articles : DeleteDocument(a)
Crashes == \E p \in Workers : Crash(p)
AllWork == \E p \in Workers : Work(p)
Quiet == (\A p \in Workers : At(p, "idle")) /\ UNCHANGED vars

Next == Imports \/ Revisions \/ Enrichments \/ WorkflowSteps \/ Deletions \/ Crashes
        \/ AllWork \/ Quiet
Spec == Init /\ [][Next]_vars
\* A worker goes on with what it has begun; nothing else has to happen.
FairSpec == Spec /\ \A p \in Workers : WF_vars(Work(p))

-----------------------------------------------------------------------------
(* Properties.                                                             *)

\* No passage is lost to the cuts: every passage of an indexed text that is
\* not longer than the overlap can be read whole in one of its chunks.
PassagesSurvive ==
  \A a \in Articles : document[a] # NoDocument =>
    PassagesKept(document[a].chunks, document[a].content, site.size, site.overlap)

\* Every document has exactly the chunks of the text its checksum is of, each
\* with the embedding of its own text; and it has been a text of its article.
DocumentsAreWhole ==
  \A a \in Articles : document[a] # NoDocument =>
    LET d == document[a]
        drafts == Drafts(d.content)
    IN /\ \E e \in 1..stored[a] : d.content = Content(a, e)
       /\ d.chunks = [k \in DOMAIN drafts |-> Embedded(PendingChunk(drafts[k]))]
       /\ \A b \in Articles \ {a} : document[b].id # d.id

\* What is in the knowledge base is whole, however many workers index, and
\* whatever fails.  In particular no chunk is ever left FAILED, which nothing
\* would try again, and no passage is lost to a cut.
IndexIsWhole == DocumentsAreWhole /\ PassagesSurvive

\* What calls and documents hold.
TypeOK == call \in [Workers -> Call] /\ document \in [Articles -> KnowledgeDocument]

TextsOf(rows) == {rows[k].text : k \in DOMAIN rows}
\* Where a text is first found.
Place(found, text) == Min({k \in DOMAIN found : found[k].text = text})
\* What was taken of what was found: it keeps within the budget, best first and
\* nothing twice; what was left out was too far away, behind top_k better ones,
\* the same as one taken, or too long to be added to those before it.
Best(taken, found) ==
  /\ Tokens(taken) <= site.budget /\ Descending(taken)
  /\ \A i, j \in DOMAIN taken : taken[i].text = taken[j].text => i = j
  /\ \A k \in DOMAIN found :
       \/ found[k].score < site.threshold \/ k > site.topK
       \/ found[k].text \in TextsOf(taken)
       \/ LET before == {i \in DOMAIN taken : Place(found, taken[i].text) < k}
          IN Tokens(Kept(taken, before)) + found[k].tokens > site.budget

\* A script's context is the best there is in what was found, and all of it is
\* from one edition of its article.
ContextIsBest ==
  TypeOK /\ \A p \in Workers : At(p, "done") =>
    /\ Best(call[p].context, call[p].found)
    /\ \E e \in 1..stored[Subject(p)] :
         TextsOf(call[p].context) \subseteq TextsOf(Drafts(Content(Subject(p), e)))

\* An article that was imported ends in the knowledge base, unless an indexing
\* of it was lost to a fault, a person or a chunk that is all blanks; and
\* whoever indexes ends, although workers wait for each other's transactions.
ImportedIsIndexed ==
  []<>(/\ \A p \in Workers : At(p, "idle")
       /\ \A a \in Articles : \/ stored[a] = 0 \/ document[a] # NoDocument
                              \/ ~site.enabled \/ a \in gap)

=============================================================================

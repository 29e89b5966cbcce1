----------------------------- MODULE TextChunks -----------------------------
(***************************************************************************)
(* ChunkingService: a text is cut into chunks small enough to embed.  A    *)
(* text is a sequence of paragraphs, a paragraph a sequence of characters; *)
(* Blank stands for every white space.                                     *)
(***************************************************************************)
EXTENDS Integers, Sequences, FiniteSets, FiniteSetsExt, SequencesExt

Blank == 0
IsParagraph(t) == t # <<>> /\ Head(t) # Blank /\ Last(t) # Blank

Strip(t) == LET ink == {i \in DOMAIN t : t[i] # Blank}
            IN IF ink = {} THEN <<>> ELSE SubSeq(t, Min(ink), Max(ink))

\* Words or a quarter of the characters, whatever is more.
EstimateTokens(t) ==
  LET text == Strip(t)
      words == {i \in DOMAIN text : text[i] # Blank /\ (i = 1 \/ text[i - 1] = Blank)}
  IN IF text = <<>> THEN 0 ELSE Max({Cardinality(words), 1, Len(text) \div 4})
MakeChunk(t) == [text |-> Strip(t), tokens |-> EstimateTokens(t)]

\* A paragraph too long for a chunk is cut into pieces of the full size, each
\* beginning with the tail of the one before; what is left fits.
\* mutant of Stride: the overlap is forgotten
StrideWithoutOverlap(size, overlap) == size
Stride(size, overlap) == size - Max({0, Min({overlap, size - 1})})
Cuts(t, size, stride) ==
  IF Len(t) <= size THEN 0 ELSE (Len(t) - size + stride - 1) \div stride
Pieces(t, size, stride) ==
  [k \in 1..Cuts(t, size, stride) |-> SubSeq(t, (k - 1) * stride + 1, (k - 1) * stride + size)]
Remainder(t, size, stride) == SubSeq(t, Cuts(t, size, stride) * stride + 1, Len(t))

\* Paragraphs are collected as long as they fit in one chunk together; one that
\* does not fit is cut, and what is left of it begins the next chunk.
Collected(buffer, t) ==
  IF buffer = <<>> THEN t ELSE Strip(buffer \o <<Blank, Blank>> \o t)
Flushed(buffer) == IF buffer = <<>> THEN <<>> ELSE <<buffer>>
Take(before, t, size, stride) ==
  IF Len(Collected(before.buffer, t)) <= size
  THEN [before EXCEPT !.buffer = Collected(@, t)]
  ELSE [texts |-> before.texts \o Flushed(before.buffer) \o Pieces(t, size, stride),
        buffer |-> Remainder(t, size, stride)]
Taken(paragraphs, size, stride) ==
  LET taken[n \in 0..Len(paragraphs)] ==
        IF n = 0 THEN [texts |-> <<>>, buffer |-> <<>>]
        ELSE Take(taken[n - 1], paragraphs[n], size, stride)
  IN taken[Len(paragraphs)]
ChunkDocument(paragraphs, size, overlap) ==
  LET last == Taken(paragraphs, size, Stride(size, overlap))
      texts == last.texts \o Flushed(last.buffer)
  IN [k \in DOMAIN texts |-> MakeChunk(texts[k])]

-----------------------------------------------------------------------------
\* What chunks are for: they are small enough, and every passage of a
\* paragraph that is no longer than the overlap and one character more can be
\* read in one of them.
PassagesKept(chunks, paragraphs, size, overlap) ==
  /\ \A k \in DOMAIN chunks : Len(chunks[k].text) <= size
  /\ \A n \in DOMAIN paragraphs :
       LET t == paragraphs[n]
           width == Min({Len(t), 1 + Max({0, Min({overlap, size - 1})})})
       IN \A i \in 1..(Len(t) - width + 1) :
            \E k \in DOMAIN chunks :
              \E j \in 0..Len(chunks[k].text) :
                 LET passage == Strip(SubSeq(t, i, i + width - 1))
                 IN /\ j + Len(passage) <= Len(chunks[k].text)
                    /\ SubSeq(chunks[k].text, j + 1, j + Len(passage)) = passage

=============================================================================

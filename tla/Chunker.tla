------------------------------ MODULE Chunker ------------------------------
(***************************************************************************)
(* How a document is cut into overlapping chunks for embedding: page by    *)
(* page and sentence by sentence.  A text is a sequence of pages, a page   *)
(* the sizes of its sentences in tokens; what they say does not matter     *)
(* here.  Code: services/rag/chunker.py.                                   *)
(***************************************************************************)
EXTENDS Naturals, Sequences, SequencesExt

CONSTANTS
  ChunkSize, \* settings.rag_chunk_size
  Overlap    \* settings.rag_chunk_overlap

ASSUME ChunkerAssumption == ChunkSize \in Nat \ {0} /\ Overlap \in Nat

Tokens(sentences) ==
  LET sum[i \in 0 .. Len(sentences)] == IF i = 0 THEN 0 ELSE sum[i - 1] + sentences[i].size
  IN  sum[Len(sentences)]
Sentences(text, p) == [i \in DOMAIN text[p] |-> [page |-> p, at |-> i, size |-> text[p][i]]]

\* The longest tail of the current chunk within the overlap
Carry(cur) ==
  IF cur = << >> \/ Tokens(cur) <= Overlap THEN cur
  ELSE CHOOSE tail \in {SubSeq(cur, i, Len(cur)) : i \in 2 .. Len(cur) + 1} :
         /\ Tokens(tail) <= Overlap
         /\ Tokens(SubSeq(cur, Len(cur) - Len(tail), Len(cur))) > Overlap

\* A chunk is numbered over the whole document.
Appended(chunks, sentences) ==
  IF sentences = << >> THEN chunks
  ELSE Append(chunks, [index |-> Len(chunks), sentences |-> sentences])

\* _flush: the chunks with what has been collected
Flushed(state) == Appended(state.chunks, state.cur)

\* An oversized sentence is a chunk of its own, and the carry waits behind it;
\* one that does not fit any more starts a chunk behind the carry.
Take(state, s) ==
  IF s.size >= ChunkSize
    THEN [chunks |-> Appended(Flushed(state), <<s>>), cur |-> Carry(state.cur)]
  ELSE IF Tokens(state.cur) + s.size > ChunkSize
    THEN [chunks |-> Flushed(state), cur |-> Append(Carry(state.cur), s)]
  ELSE [state EXCEPT !.cur = Append(@, s)]

\* _chunk_text: a page is flushed at its end; chunks do not reach over pages.
ChunkText(chunks, sentences) ==
  LET after[i \in 0 .. Len(sentences)] ==
        IF i = 0 THEN [chunks |-> chunks, cur |-> << >>] ELSE Take(after[i - 1], sentences[i])
  IN  Flushed(after[Len(sentences)])

ChunkDocument(text) ==
  LET upto[p \in 0 .. Len(text)] ==
        IF p = 0 THEN << >> ELSE ChunkText(upto[p - 1], Sentences(text, p))
  IN  upto[Len(text)]

-----------------------------------------------------------------------------
(* Properties                                                              *)

\* Every sentence of the document is in a chunk, whatever mix of short and
\* oversized sentences comes before and after it; a chunk holds sentences of
\* one page in their order, each once, so that the page it is cited with is the
\* page of all it says; the chunks are numbered from 0 over the document; and a
\* chunk of several sentences exceeds the configured size by less than the
\* overlap, although the carry is not counted against the sentence after it.
ChunksHoldTheDocument(text) ==
  LET chunks == ChunkDocument(text) IN
  /\ \A p \in DOMAIN text : \A s \in ToSet(Sentences(text, p)) :
       \E n \in DOMAIN chunks : s \in ToSet(chunks[n].sentences)
  /\ \A n \in DOMAIN chunks :
       /\ chunks[n].index = n - 1
       /\ \A i, j \in DOMAIN chunks[n].sentences :
            LET s == chunks[n].sentences[i] t == chunks[n].sentences[j] IN
            s.page = t.page /\ (i < j => s.at < t.at)
       /\ Len(chunks[n].sentences) > 1 =>
            Tokens(chunks[n].sentences) < ChunkSize + Max({Overlap, 1})
=============================================================================

------------------------------ MODULE Answering ------------------------------
(* From a stored document to an answer that cites it: extraction, embedding,    *)
(* retrieval, the context the model is given, and the sources shown. Code:      *)
(* services/rag/extractor.py, embedder.py, retriever.py, qa_chain.py,           *)
(* vector_store.py, routers/v1/rag.py, services/agent/tools/rag_tool.py.        *)
(* A chunk is stored with its distance to the question at hand, in hundredths.  *)
EXTENDS Values, Integers, Sequences, SequencesExt, FiniteSetsExt, TLC

CONSTANTS MaxDistance,   \* the distance beyond which a chunk is not relevant
          ContextSize,   \* the characters of context the model is given
          DefaultTopK, Dimension

(* ------------------------------- extraction --------------------------------- *)

(* _clean: a line is its words; runs of blank lines become one, none at the ends. *)
Clean(lines) ==
  LET kept == SelectSeq([i \in DOMAIN lines |-> i],
                LAMBDA i : lines[i] # "" \/ (i > 1 => lines[i - 1] # ""))
      all == [k \in DOMAIN kept |-> lines[kept[k]]]
      head == IF all # <<>> /\ all[1] = "" THEN Tail(all) ELSE all
  IN  IF head # <<>> /\ Last(head) = "" THEN Front(head) ELSE head

(* _extract_pdf keeps the number of every page, an unreadable one as empty; the   *)
(* other types are one page, or none when there is no text.                     *)
PdfPages(pages) ==
  [i \in DOMAIN pages |-> [page |-> i, text |-> IF pages[i] = Fails THEN <<>> ELSE Clean(pages[i])]]
OnePage(pages) ==
  IF Clean(pages[1]) = <<>> THEN <<>> ELSE <<[page |-> 1, text |-> Clean(pages[1])]>>

ExtractDocument(file) ==
  IF ~file.exists \/ ~file.opens THEN Fails
  ELSE CASE file.type = "pdf" -> PdfPages(file.pages)
         [] file.type \in {"docx", "txt", "md"} -> OnePage(file.pages)
         [] OTHER -> Fails

(* ------------------------------- embedding ---------------------------------- *)

(* embed_texts: whatever the provider raises becomes an EmbeddingError, and so    *)
(* does a first vector of another dimension than the column's; embed_query takes *)
(* the first vector.                                                            *)
EmbedTexts(texts, provider) ==
  IF texts = <<>> THEN <<>>
  ELSE IF provider.raises \/ provider.name \notin {"local", "openai", "voyage"} THEN Fails
  ELSE IF provider.dimension # Dimension THEN Fails
  ELSE [i \in DOMAIN texts |-> provider.dimension]
EmbedQuery(provider) == EmbedTexts(<<"question">>, provider)

(* ------------------------------- retrieval ---------------------------------- *)

(* Mutant: the nearest chunks of every dataset. *)
SearchEverywhere(stored, dataset, limit) ==
  LET near == SortSeq(stored, LAMBDA a, b : a.distance < b.distance)
  IN  SubSeq(near, 1, IF Len(near) > limit THEN limit ELSE Len(near))

SimilaritySearch(stored, dataset, limit) ==
  LET near == SortSeq(SelectSeq(stored, LAMBDA c : c.dataset = dataset),
                      LAMBDA a, b : a.distance < b.distance)
  IN  SubSeq(near, 1, IF Len(near) > limit THEN limit ELSE Len(near))

(* retrieve: twice as many as asked for are read, the distant ones dropped. A     *)
(* count that is negative reaches the query as it is, and fails there. The        *)
(* document may have gone between the two reads.                                *)
Retrieve(in) ==
  LET k == IF in.topK \in {None, 0} THEN DefaultTopK ELSE in.topK
      vector == EmbedQuery(in.provider)
      limit == IF k * 2 > k THEN k * 2 ELSE k
      near == SelectSeq(SimilaritySearch(in.now, in.dataset, limit), LAMBDA c : c.distance <= MaxDistance)
      some == \E i \in DOMAIN in.before : in.before[i].dataset = in.dataset
  IN  IF ~in.storeUp THEN Fails
      ELSE IF ~some THEN [documents |-> FALSE, chunks |-> <<>>]
      ELSE IF vector = Fails \/ k < 0 THEN Fails
      ELSE [documents |-> TRUE, chunks |-> SubSeq(near, 1, IF Len(near) > k THEN k ELSE Len(near))]

(* format_context: the chunks in order, up to the first that does not fit. *)
FormatContext(chunks) ==
  LET Upto(n) == FoldLeft(LAMBDA sum, c : sum + c.size, 0, SubSeq(chunks, 1, n))
      fit == {n \in 0..Len(chunks) : \A m \in 1..n : Upto(m) <= ContextSize}
  IN  SubSeq(chunks, 1, Max(fit))

(* sources_from_chunks: one source for each page of each document. *)
SourcesFromChunks(chunks) ==
  LET Key(c) == <<c.document, c.page>>
      heads == SelectSeq([i \in DOMAIN chunks |-> i],
                 LAMBDA i : \A j \in 1..i - 1 : Key(chunks[j]) # Key(chunks[i]))
  IN  [k \in DOMAIN heads |-> chunks[heads[k]]]

(* answer_question: the model's answer, or the passages themselves when there is  *)
(* none; both count as grounded, whatever the model says.                       *)
AnswerQuestion(in) ==
  LET Answer(from, sources, used, given) ==
        [from |-> from, grounded |-> from \in {"model", "passages"}, sources |-> sources,
         used |-> used, context |-> given]
      AnswerFrom(found) ==
        IF found = Fails THEN Fails
        ELSE IF ~found.documents THEN Answer("no documents", <<>>, 0, <<>>)
        ELSE IF found.chunks = <<>> THEN Answer("no match", <<>>, 0, <<>>)
        ELSE Answer(IF in.reply \in {None, Fails} THEN "passages" ELSE "model",
                    SourcesFromChunks(found.chunks), Len(found.chunks), FormatContext(found.chunks))
  IN  IF in.question = "" THEN Answer("prompt", <<>>, 0, <<>>) ELSE AnswerFrom(Retrieve(in))

(* query_documents, and search_documents on top of it. *)
QueryDocuments(in) ==
  LET Sent(answer) == IF answer = Fails THEN [status |-> 503] ELSE [status |-> 200, answer |-> answer]
  IN  IF in.question = "" THEN [status |-> 400] ELSE Sent(AnswerQuestion(in))

SearchDocuments(in) ==
  LET Told(reply) == IF reply.status # 200 THEN [ok |-> FALSE]
                     ELSE IF ~reply.answer.grounded \/ reply.answer.used = 0 THEN [ok |-> FALSE]
                     ELSE [ok |-> TRUE, answer |-> reply.answer]
  IN  Told(QueryDocuments(in))

-----------------------------------------------------------------------------
LOCAL Keeps(out, file) ==
  LET Said(lines) == SelectSeq(lines, LAMBDA l : l # "")
  IN  out # Fails =>
        /\ \A k \in DOMAIN out : file.pages[out[k].page] # Fails =>
             Said(out[k].text) = Said(file.pages[out[k].page])
        /\ \A i \in DOMAIN file.pages : file.pages[i] # Fails /\ Said(file.pages[i]) # <<>> =>
             \E k \in DOMAIN out : out[k].page = i

(* A page is cited by the number it has in the file: an unreadable page moves no   *)
(* other, and cleaning loses no line of text (extractor.extract_document).        *)
PagesKeepTheirNumbers(file) == Keeps(ExtractDocument(file), file)

LOCAL Rests(out, mine, in) ==
  LET whole == MapThenSumSet(LAMBDA c : c.size, mine) <= ContextSize
      asked == IF in.topK \in {None, 0} THEN DefaultTopK ELSE in.topK
  IN  /\ out.ok =>
           /\ \A s \in ToSet(out.answer.sources) : s \in mine
           /\ \A c \in mine : Cardinality(mine) <= asked =>
                \E s \in ToSet(out.answer.sources) : s.document = c.document /\ s.page = c.page
           /\ \A c \in mine : \A s \in ToSet(out.answer.sources) :
                (c.distance < s.distance) =>
                  \E t \in ToSet(out.answer.sources) : t.document = c.document /\ t.page = c.page
           /\ out.answer.used <= asked
           /\ whole => Len(out.answer.context) = out.answer.used
           /\ (\A c \in mine : c.size <= ContextSize) => out.answer.context # <<>>
           /\ FoldLeft(LAMBDA sum, c : sum + c.size, 0, out.answer.context) <= ContextSize
           /\ \A c \in ToSet(out.answer.context) :
                \E s \in ToSet(out.answer.sources) : s.document = c.document /\ s.page = c.page
      /\ mine = {} => ~out.ok

(* What the copilot is told documents say rests on this dataset's own documents:   *)
(* every source is of the dataset and near enough, none left out is nearer, and    *)
(* the chunks counted are the ones searched. What the model is given fits the      *)
(* context and is among the sources; it is all that was searched when all of it    *)
(* fits, and something when each piece would. Nothing is told when nothing was     *)
(* found (rag_tool.search_documents, qa_chain.answer_question).                   *)
AnswersRestOnTheDataset(in) ==
  Rests(SearchDocuments(in),
        {c \in ToSet(in.now) : c.dataset = in.dataset /\ c.distance <= MaxDistance}, in)
=============================================================================

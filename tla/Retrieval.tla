----------------------------- MODULE Retrieval -----------------------------
(***************************************************************************)
(* The tenant's document corpus: POST /v1/retrieval/documents and /upload  *)
(* (src/app/control_plane/retrieval.py), which chunk a text, have the      *)
(* chunks embedded in one call (embeddings.py), store document and chunks  *)
(* in one transaction and tell the caller's feed.                          *)
(*                                                                         *)
(* A text is the sequence of its words' lengths.  The vector of a text is  *)
(* the text it was computed from: what matters is whether a chunk is       *)
(* stored with the vector of its own words.  Ranking is pgvector's; a      *)
(* query returns any TopK chunks of the tenant.                            *)
(***************************************************************************)
EXTENDS Integers, Sequences, FiniteSets, TLC, SequencesExt

CONSTANTS
  Docs,        \* document ids (uuid4) the handlers may draw
  Owners,      \* callers: (tenant, user)
  Texts,       \* what may be posted, sequences of word lengths
  ChunkChars,  \* _CHUNK_CHARS
  MaxChunks    \* _MAX_CHUNKS_PER_DOCUMENT

ASSUME ChunkAssumption == ChunkChars \in Nat /\ MaxChunks \in Nat /\ Texts \subseteq Seq(Nat)

VARIABLES
  index,   \* document -> its index request: stage, owner, text, vectors and whether
           \* the backend numbered them (history), original in S3
  chunks,  \* table document_chunks
  notices  \* published indexing_complete events: (owner, document)

retVars == <<index, chunks, notices>>

NoOwner == [tenant |-> "none", user |-> "none"]
NoIndex == [stage |-> "free", owner |-> NoOwner, text |-> <<>>, vectors |-> <<>>, numbered |-> FALSE,
            key |-> FALSE]

----------------------------------------------------------------------------
\* chunk_text, one turn of its loop.
PackWord(st, w) ==
  LET added == w + (IF st.current # <<>> THEN 1 ELSE 0)
  IN IF st.current # <<>> /\ st.length + added > ChunkChars
     THEN [chunks |-> Append(st.chunks, st.current), current |-> <<w>>, length |-> w]
     ELSE [chunks |-> st.chunks, current |-> Append(st.current, w), length |-> st.length + added]

Unpacked == [chunks |-> <<>>, current |-> <<>>, length |-> 0]

ChunkText(words) ==
  LET packed[i \in 0..Len(words)] == IF i = 0 THEN Unpacked ELSE PackWord(packed[i - 1], words[i])
      end == packed[Len(words)]
  IN IF end.current # <<>> THEN Append(end.chunks, end.current) ELSE end.chunks

\* What embed lets pass: one item per text.  An index may be missing (0) or
\* repeated, for nothing looks; any others than these order no differently.
Replies(texts) == [DOMAIN texts -> [index : 0..Len(texts), vector : Range(texts)]]

\* The backend numbers its items as the texts, or leaves the numbers out and
\* answers in order.
Numbered(items, texts) ==
  \/ /\ IsInjective([i \in DOMAIN items |-> items[i].index])
     /\ \A i \in DOMAIN items :
          items[i].index \in DOMAIN texts /\ items[i].vector = texts[items[i].index]
  \/ \A i \in DOMAIN items : items[i].index = 0 /\ items[i].vector = texts[i]

\* sorted is stable.
Before(items, i, j) ==
  \/ items[i].index < items[j].index
  \/ items[i].index = items[j].index /\ i < j

\* Mutant: the items are taken as they come.
EmbeddedAsSent(items) == {[i \in DOMAIN items |-> items[i].vector]}

\* InferenceEmbeddingClient.embed: the vectors in the order of the index field,
\* the one element of this set.
Embedded(items) ==
  {[i \in DOMAIN items |-> items[p[i]].vector] :
     p \in {q \in [DOMAIN items -> DOMAIN items] :
             \A i, j \in DOMAIN items : i < j => Before(items, q[i], q[j])}}

ChunkRows(d) ==
  LET ix == index[d]
  IN {[doc |-> d, pos |-> i, tenant |-> ix.owner.tenant,
       text |-> ChunkText(ix.text)[i], vector |-> ix.vectors[i]] :
        i \in 1..Len(ix.vectors)}

----------------------------------------------------------------------------
\* build_index_document_response up to the embedding call; a blank text and one
\* of too many chunks are refused.
BeginIndex(d, o, text, stored) ==
  /\ index[d].stage = "free"
  /\ text # <<>>
  /\ index' = [index EXCEPT ![d] =
       [stage |-> IF Len(ChunkText(text)) > MaxChunks THEN "refused" ELSE "embed",
        owner |-> o, text |-> text, vectors |-> <<>>, numbered |-> FALSE, key |-> stored]]
  /\ UNCHANGED <<chunks, notices>>

\* build_retrieval_upload_response: the original goes to S3 first, best effort,
\* whatever becomes of the index.
Upload(d, o, text) == \E put \in BOOLEAN : BeginIndex(d, o, text, put)

\* embed raises: HTTP error, time-out, wrong count, shape or dimension.
EmbedFails(d) ==
  /\ index[d].stage = "embed"
  /\ index' = [index EXCEPT ![d].stage = "refused"]
  /\ UNCHANGED <<chunks, notices>>

EmbedAnswers(d) ==
  /\ index[d].stage = "embed"
  /\ LET texts == ChunkText(index[d].text) IN
     \E items \in Replies(texts) : \E vectors \in Embedded(items) :
       index' = [index EXCEPT ![d].vectors = vectors, ![d].numbered = Numbered(items, texts),
                              ![d].stage = "store"]
  /\ UNCHANGED <<chunks, notices>>

\* store.index_document, one transaction, then the event, best effort.
StoreDocument(d) ==
  /\ index[d].stage = "store"
  /\ chunks' = chunks \cup ChunkRows(d)
  /\ index' = [index EXCEPT ![d].stage = "stored"]
  /\ notices' \in {notices, notices \cup {<<index[d].owner, d>>}}

\* The transaction raises, before the commit or without hearing of it.
StoreFails(d) ==
  /\ index[d].stage = "store"
  /\ chunks' \in {chunks, chunks \cup ChunkRows(d)}
  /\ index' = [index EXCEPT ![d].stage = "refused"]
  /\ UNCHANGED notices

\* PostgresRetrievalStore.query looks at these chunks only.
Corpus(t) == {<<c.doc, c.pos>> : c \in {x \in chunks : x.tenant = t}}

\* Its answer: the best k, best first.
QueryAnswers(t, k) ==
  {s \in SeqOf(Corpus(t), k) :
     IsInjective(s) /\ Len(s) = (IF Cardinality(Corpus(t)) < k THEN Cardinality(Corpus(t)) ELSE k)}

RetInit ==
  /\ index = [d \in Docs |-> NoIndex]
  /\ chunks = {} /\ notices = {}

RetNext ==
  \E d \in Docs :
    \/ \E o \in Owners, text \in Texts : BeginIndex(d, o, text, FALSE) \/ Upload(d, o, text)
    \/ EmbedFails(d) \/ EmbedAnswers(d) \/ StoreDocument(d) \/ StoreFails(d)

----------------------------------------------------------------------------
\* Properties.

ChunksOf(d) == {c \in chunks : c.doc = d}
ChunkAt(d, i) == CHOOSE c \in ChunksOf(d) : c.pos = i
Joined(words) ==
  LET length[i \in 0..Len(words)] == IF i = 0 THEN 0 ELSE length[i - 1] + words[i]
  IN length[Len(words)] + Len(words) - 1

\* Chunking loses and reorders no word of a document, keeps to the size unless
\* one word is longer, and packs greedily; a document is never stored in part.
ChunksAreTheText ==
  \A d \in Docs : ChunksOf(d) # {} =>
    LET n == Cardinality(ChunksOf(d))
        parts == [i \in 1..n |-> ChunkAt(d, i).text]
    IN /\ FlattenSeq(parts) = index[d].text
       /\ \A i \in 1..n : Len(parts[i]) > 1 => Joined(parts[i]) <= ChunkChars
       /\ \A i \in 1..(n - 1) : Joined(parts[i]) + 1 + parts[i + 1][1] > ChunkChars

\* In whatever order a backend answers that numbers its items, or that leaves the
\* numbers out and keeps the order, a chunk is found by the vector of its own words.
VectorsMatch == \A c \in chunks : index[c.doc].numbered => c.vector = c.text

\* An indexing_complete event names a document its reader's tenant can query.
NoticesResolve ==
  \A n \in notices : \E c \in chunks : c.doc = n[2] /\ c.tenant = n[1].tenant

\* What is in the corpus, and what the feed says is in it, is the text that was
\* sent: whole documents in order, each chunk under its own vector if the backend
\* numbered them.
CorpusIsTheText == ChunksAreTheText /\ VectorsMatch /\ NoticesResolve
============================================================================

------------------------------ MODULE DocumentStore ------------------------------
(***************************************************************************)
(* memory_store_document: a document is cut into chunks, each is embedded  *)
(* while no transaction is open, and one transaction stores the document   *)
(* and the memories of its chunks.  Callers who lost an answer repeat the  *)
(* call with its idempotency key.  One client, namespace and key is        *)
(* modelled; a content is the sequence of the sizes of its paragraphs.     *)
(***************************************************************************)
EXTENDS Integers, Sequences, FiniteSets, SequencesExt

CONSTANTS
  Calls,         \* callers, each with one call at a time
  Contents,      \* sequences of sizes
  MaxChunk,      \* MAX_DOCUMENT_CHUNK_BYTES
  MaxChunks,     \* MAX_DOCUMENT_CHUNKS
  None,
  MaxDocuments, MaxFailures   \* bounds of the model

VARIABLES
  documents,   \* rows of documents, in the order of their commits
  calls,
  misled,      \* history: a success named a document of another content
  failures

dvars == <<documents, calls, misled, failures>>

Document == [content : Contents, keyed : BOOLEAN, pieces : Seq(1..MaxChunk),
             chunk_count : Nat,
             chunks : Seq({"active", "tombstone", "purged"})]   \* its memories

Idle == [stage |-> "idle", content |-> None, keyed |-> FALSE, embedded |-> 0]

Init ==
  /\ documents = <<>>
  /\ calls = [c \in Calls |-> Idle]
  /\ misled = FALSE
  /\ failures = 0

Total(sizes) == FoldLeft(LAMBDA n, size : n + size, 0, sizes)

\* Pieces of the largest size, and the rest, of a paragraph that is too large.
HardSplit(size) ==
  [i \in 1..((size - 1) \div MaxChunk + 1) |->
     IF i * MaxChunk <= size THEN MaxChunk ELSE size % MaxChunk]

\* Faulty: the full pieces of a large paragraph are lost.
LastPieceOnly(chunks, size) ==
  IF chunks # <<>> /\ Last(chunks) + size <= MaxChunk
  THEN Front(chunks) \o <<Last(chunks) + size>>
  ELSE Append(chunks, Last(HardSplit(size)))

\* A paragraph joins the current chunk if it fits; else that chunk is closed, and the last
\* piece of the paragraph is the current one.  The current chunk is the last of the sequence.
WithParagraph(chunks, size) ==
  IF chunks # <<>> /\ Last(chunks) + size <= MaxChunk
  THEN Front(chunks) \o <<Last(chunks) + size>>
  ELSE chunks \o HardSplit(size)

Chunked(content) == FoldLeft(WithParagraph, <<>>, content)

-------------------------------------------------------------------------------
\* The document of the key, if one was committed.
Existing == {d \in DOMAIN documents : documents[d].keyed}

\* A document is refused that has too many chunks.
Start(c, content, keyed) ==
  /\ calls[c].stage = "idle"
  /\ Len(Chunked(content)) <= MaxChunks
  /\ calls' = [calls EXCEPT ![c] = [stage |-> IF keyed THEN "looking" ELSE "embedding",
                                    content |-> content, keyed |-> keyed, embedded |-> 0]]
  /\ UNCHANGED <<documents, misled, failures>>

Count(d, state) == Cardinality({i \in DOMAIN documents[d].chunks : documents[d].chunks[i] = state})

\* Faulty: the key alone identifies the request.
SameKey(c, d) == Count(d, "active") = documents[d].chunk_count

\* The request is the one that was stored, and all its chunks are there and active.  A
\* forgotten, purged or different document is a conflict.
Replayable(c, d) ==
  /\ documents[d].content = calls[c].content
  /\ Count(d, "active") = documents[d].chunk_count /\ Count(d, "tombstone") = 0

\* The caller may be gone, and call again.
Answer(c, d) ==
  /\ calls' = [calls EXCEPT ![c] = Idle]
  /\ misled' = (misled \/ documents'[d].content # calls[c].content)

Refuse(c) == calls' = [calls EXCEPT ![c] = Idle] /\ UNCHANGED misled

CompleteExisting(c, d) == IF Replayable(c, d) THEN Answer(c, d) ELSE Refuse(c)

Look(c) ==
  /\ calls[c].stage = "looking"
  /\ UNCHANGED <<documents, failures>>
  /\ \/ \E d \in Existing : CompleteExisting(c, d)
     \/ /\ Existing = {}
        /\ calls' = [calls EXCEPT ![c].stage = "embedding"]
        /\ UNCHANGED misled

EmbedChunk(c) ==
  /\ calls[c].stage = "embedding"
  /\ calls[c].embedded < Len(Chunked(calls[c].content))
  /\ calls' = [calls EXCEPT ![c].embedded = @ + 1]
  /\ UNCHANGED <<documents, misled, failures>>

Stored(content, keyed) ==
  [content |-> content, keyed |-> keyed, pieces |-> Chunked(content),
   chunk_count |-> Len(Chunked(content)), chunks |-> [i \in 1..Len(Chunked(content)) |-> "active"]]

\* Faulty: what the first look saw still holds.
InsertedBlindly(c) == Existing # Existing

\* ON CONFLICT DO NOTHING, on the unique index of client, namespace and key: a concurrent
\* insertion of the key is waited for.
KeyTaken(c) == calls[c].keyed /\ Existing # {}

\* The document, the memories of its chunks and their count, in one transaction.
CommitDocument(c) ==
  /\ calls[c].stage = "embedding"
  /\ calls[c].embedded = Len(Chunked(calls[c].content))
  /\ \/ /\ KeyTaken(c)
        /\ UNCHANGED documents
        /\ \E d \in Existing : CompleteExisting(c, d)
     \/ /\ ~KeyTaken(c)
        /\ Len(documents) < MaxDocuments
        /\ documents' = Append(documents, Stored(calls[c].content, calls[c].keyed))
        /\ Answer(c, Len(documents) + 1)
  /\ UNCHANGED failures

\* The provider fails, its vector is invalid, a statement fails, or the caller is gone.
FailCall(c) ==
  /\ calls[c].stage # "idle"
  /\ failures < MaxFailures
  /\ failures' = failures + 1
  /\ Refuse(c)
  /\ UNCHANGED documents

\* memory_forget of a chunk, and the purge of its tombstone.
ForgetChunk(d, i) ==
  /\ documents[d].chunks[i] = "active"
  /\ documents' = [documents EXCEPT ![d].chunks[i] = "tombstone"]
  /\ UNCHANGED <<calls, misled, failures>>

PurgeChunk(d, i) ==
  /\ documents[d].chunks[i] = "tombstone"
  /\ documents' = [documents EXCEPT ![d].chunks[i] = "purged"]
  /\ UNCHANGED <<calls, misled, failures>>

Next ==
  \/ \E c \in Calls : \/ \E s \in Contents, keyed \in BOOLEAN : Start(c, s, keyed)
                      \/ Look(c) \/ EmbedChunk(c) \/ CommitDocument(c) \/ FailCall(c)
  \/ \E d \in DOMAIN documents : \E i \in DOMAIN documents[d].chunks :
       ForgetChunk(d, i) \/ PurgeChunk(d, i)

Spec == Init /\ [][Next]_dvars

-------------------------------------------------------------------------------
TypeOK ==
  /\ documents \in Seq(Document) /\ Len(documents) <= MaxDocuments
  /\ \A c \in Calls :
       /\ calls[c].stage \in {"idle", "looking", "embedding"}
       /\ calls[c].content \in Contents \cup {None}
       /\ calls[c].embedded \in 0..MaxChunks
  /\ misled \in BOOLEAN
  /\ failures \in 0..MaxFailures

\* Repeated and concurrent calls store the document of a key once; a success names a
\* document of the content that was sent; and the chunks, each small enough to embed, are
\* all of the content.
DocumentStoredOnce ==
  /\ Cardinality(Existing) <= 1
  /\ ~misled
  /\ \A d \in DOMAIN documents : Total(documents[d].pieces) = Total(documents[d].content)
=============================================================================

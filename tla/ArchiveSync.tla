------------------------------ MODULE ArchiveSync ------------------------------
(***************************************************************************)
(* The copy of the My Life archive.  A receiver writes the records of a    *)
(* snapshot batch by batch, records that the verified snapshot is to be    *)
(* finalized, tombstones what the snapshot no longer has, batch by batch,  *)
(* and commits it.  Each batch is a transaction; the process may die or    *)
(* its stream end between any two.  A worker embeds the stored records,    *)
(* and the keys that may read the archive edit, retire and forget them     *)
(* like other memories.                                                    *)
(*                                                                         *)
(* A snapshot is its place in the order of as_of, a record is its place in *)
(* the order of row ids, and a batch is one record.                        *)
(***************************************************************************)
EXTENDS Integers, FiniteSets, FiniteSetsExt

CONSTANTS
  LastRecord,
  LastSnapshot,   \* bound of the model
  Says,           \* what snapshot s says of record r, None when it lacks it
  None,
  Receivers,      \* processes of the receive and finalize commands
  Poison,         \* texts the embedding provider rejects
  GuardedSize,    \* below this many records a shrinking snapshot is let through
  MaxResets,      \* bound of the model: retry-failed commands
  MaxChanges,     \* bound of the model: what others do to the records
  MaxBreaks       \* bound of the model: truncated streams, crashes, failed embeddings

VARIABLES
  rows,       \* the memory of each record
  sync,       \* the synchronization state row
  lock,       \* the holder of the advisory lock of the archive
  receivers,  \* what each process is doing
  embedder,   \* the record the embedding worker has sent to the provider
  resets,
  changes,
  breaks

yvars == <<rows, sync, lock, receivers, embedder, resets, changes, breaks>>

Records == 1..LastRecord
Snapshots == 1..LastSnapshot
Texts == {Says[s][r] : s \in Snapshots, r \in Records} \ {None}

\* removed is my_life.removed_by_sync, flagged is my_life.embedding_failure, and snapshot is 0
\* when the metadata has no my_life any more.  A settled row is superseded; one folded into a
\* consolidation or expired is treated alike everywhere, and no code makes a synced row so.
\* touched is a ghost: somebody else changed the row since the copy last wrote it.
Levels == {"normal", "sensitive", "secret"}
Row == [here : BOOLEAN, text : Texts \cup {None}, snapshot : 0..LastSnapshot, deleted : BOOLEAN,
        removed : BOOLEAN, settled : BOOLEAN, access : Levels, vector : Texts \cup {None},
        flagged : BOOLEAN, touched : BOOLEAN]
NoRow == [here |-> FALSE, text |-> None, snapshot |-> 0, deleted |-> FALSE, removed |-> FALSE,
          settled |-> FALSE, access |-> "sensitive", vector |-> None, flagged |-> FALSE,
          touched |-> FALSE]

\* 0 stands for no manifest.  pending is pending_finalization and its cursor.
SyncState == [started : 0..LastSnapshot, done : 0..LastSnapshot, copying : BOOLEAN,
              pending : 0..LastSnapshot, cursor : 0..LastRecord]

Receiver == [stage : {"idle", "copying", "verified", "finishing", "committing"},
             snapshot : 0..LastSnapshot, sent : 0..LastRecord, shrink : BOOLEAN]
Waiting == [stage |-> "idle", snapshot |-> 0, sent |-> 0, shrink |-> FALSE]

Job == [record : Records \cup {0}, text : Texts \cup {None}]
NoJob == [record |-> 0, text |-> None]

Init ==
  /\ rows = [r \in Records |-> NoRow]
  /\ sync = [started |-> 0, done |-> 0, copying |-> FALSE, pending |-> 0, cursor |-> 0]
  /\ lock = None
  /\ receivers = [c \in Receivers |-> Waiting]
  /\ embedder = NoJob
  /\ resets = 0
  /\ changes = 0
  /\ breaks = 0

Live(r) == rows[r].here /\ ~rows[r].deleted
Current(r) == Live(r) /\ ~rows[r].settled

\* Faulty: what is superseded counts like any other.
LiveWithin(r) == Live(r) /\ rows[r].access = "sensitive"

\* A row that the prune and the embedding worker attend to.
Within(r) == Current(r) /\ rows[r].access = "sensitive"

Leave(c) == /\ receivers' = [receivers EXCEPT ![c] = Waiting]
            /\ lock' = IF lock = c THEN None ELSE lock

At(c, stage) == receivers[c].stage = stage

-------------------------------------------------------------------------------
Newest(s) == s >= sync.started

\* receiveArchive up to the manifest.  An unfinished finalization and a snapshot older
\* than the last one started are refused.
Receive(c, s, shrink) ==
  /\ At(c, "idle")
  /\ lock = None
  /\ sync.pending = 0
  /\ Newest(s)
  /\ lock' = c
  /\ sync' = [sync EXCEPT !.started = s, !.copying = TRUE]
  /\ receivers' = [receivers EXCEPT ![c] = [stage |-> "copying", snapshot |-> s, sent |-> 0,
                                            shrink |-> shrink]]
  /\ UNCHANGED <<rows, embedder, resets, changes, breaks>>

Stored(r, s, vector) ==
  [here |-> TRUE, text |-> Says[s][r], snapshot |-> s, deleted |-> FALSE, removed |-> FALSE,
   settled |-> FALSE, access |-> "sensitive", vector |-> vector, flagged |-> FALSE,
   touched |-> FALSE]

\* Faulty: an embedding that is there is kept.
RefreshedKeepingVector(r, s) == Stored(r, s, rows[r].vector)

Refreshed(r, s) == Stored(r, s, IF rows[r].text = Says[s][r] THEN rows[r].vector ELSE None)

\* A record that others settled, raised above the clearance of the copy or forgot stays as it
\* is; one that the copy itself had removed comes back.
Protected(r) == \/ rows[r].settled
                \/ rows[r].access = "secret"
                \/ rows[r].deleted /\ ~rows[r].removed

Unsent(c) == {r \in Records : r > receivers[c].sent /\ Says[receivers[c].snapshot][r] # None}

\* ingestBatch
Ingest(c) ==
  LET r == Min(Unsent(c)) IN
  /\ At(c, "copying")
  /\ Unsent(c) # {}
  /\ receivers' = [receivers EXCEPT ![c].sent = r]
  /\ rows' = IF Protected(r) THEN rows
             ELSE [rows EXCEPT ![r] = Refreshed(r, receivers[c].snapshot)]
  /\ UNCHANGED <<sync, lock, embedder, resets, changes, breaks>>

Size(s) == Cardinality({r \in Records : Says[s][r] # None})

\* assertSnapshotSize, against the snapshot last committed.
Shrinks(s) == sync.done # 0 /\ Size(sync.done) >= GuardedSize /\ 10 * Size(s) < 9 * Size(sync.done)

\* The whole stream has come and its hash is right.
Verify(c) ==
  /\ At(c, "copying")
  /\ Unsent(c) = {}
  /\ IF Shrinks(receivers[c].snapshot) /\ ~receivers[c].shrink
     THEN Leave(c)
     ELSE receivers' = [receivers EXCEPT ![c].stage = "verified"] /\ UNCHANGED lock
  /\ UNCHANGED <<rows, sync, embedder, resets, changes, breaks>>

PlanFinalization(c) ==
  /\ At(c, "verified")
  /\ sync' = [sync EXCEPT !.pending = receivers[c].snapshot, !.cursor = 0]
  /\ receivers' = [receivers EXCEPT ![c].stage = "finishing"]
  /\ UNCHANGED <<rows, lock, embedder, resets, changes, breaks>>

\* The finalize command.
Finalize(c) ==
  /\ At(c, "idle")
  /\ lock = None
  /\ sync.pending # 0
  /\ lock' = c
  /\ receivers' = [receivers EXCEPT ![c].stage = "finishing"]
  /\ UNCHANGED <<rows, sync, embedder, resets, changes, breaks>>

Obsolete ==
  {r \in Records : Within(r) /\ r > sync.cursor /\ rows[r].snapshot \notin {0, sync.pending}}

\* Faulty: the last batch already commits the snapshot.
PrunedAtOnce(c) == "committing"

Pruned(c) == "finishing"

\* A batch of finishSnapshot, its cursor with it.
Prune(c) ==
  /\ At(c, "finishing")
  /\ IF Obsolete = {}
     THEN receivers' = [receivers EXCEPT ![c].stage = "committing"] /\ UNCHANGED <<rows, sync>>
     ELSE /\ rows' = [rows EXCEPT
                          ![Min(Obsolete)] = [@ EXCEPT
                            !.deleted = TRUE, !.removed = TRUE]]
          /\ sync' = [sync EXCEPT !.cursor = Min(Obsolete)]
          /\ receivers' = [receivers EXCEPT ![c].stage = Pruned(c)]
  /\ UNCHANGED <<lock, embedder, resets, changes, breaks>>

CommitSnapshot(c) ==
  /\ At(c, "committing")
  /\ sync' = [started |-> sync.pending, done |-> sync.pending, copying |-> FALSE,
              pending |-> 0, cursor |-> 0]
  /\ Leave(c)
  /\ UNCHANGED <<rows, embedder, resets, changes, breaks>>

\* The stream ends early or does not match its hash, a transaction fails, the process dies.
Break(c) ==
  /\ ~At(c, "idle")
  /\ breaks < MaxBreaks
  /\ breaks' = breaks + 1
  /\ Leave(c)
  /\ UNCHANGED <<rows, sync, embedder, resets, changes>>

-------------------------------------------------------------------------------
Unembedded(r) == Within(r) /\ rows[r].vector = None /\ ~rows[r].flagged

\* embedArchiveBatch.  The one worker that holds the embedding lock starts after a completed
\* copy and goes on while the next one is received.  Without its my_life a record has no digest
\* to be compared with later, so that the text sent is not that of any row.
SelectForEmbedding(r) ==
  /\ embedder = NoJob
  /\ sync.done # 0
  /\ Unembedded(r)
  /\ embedder' = [record |-> r, text |-> IF rows[r].snapshot = 0 THEN None ELSE rows[r].text]
  /\ UNCHANGED <<rows, sync, lock, receivers, resets, changes, breaks>>

\* The content is the one that was sent and nobody has embedded it.
Same == /\ Within(embedder.record)
        /\ rows[embedder.record].snapshot # 0
        /\ rows[embedder.record].text = embedder.text
        /\ rows[embedder.record].vector = None

Embedded ==
  LET r == embedder.record IN
  /\ embedder # NoJob
  /\ rows' = IF ~Same THEN rows
             ELSE IF embedder.text \in Poison THEN [rows EXCEPT ![r].flagged = TRUE]
             ELSE [rows EXCEPT ![r].vector = embedder.text]
  /\ embedder' = NoJob
  /\ UNCHANGED <<sync, lock, receivers, resets, changes, breaks>>

\* The provider is down, or the worker dies.
EmbeddingFails ==
  /\ embedder # NoJob
  /\ breaks < MaxBreaks
  /\ breaks' = breaks + 1
  /\ embedder' = NoJob
  /\ UNCHANGED <<rows, sync, lock, receivers, resets, changes>>

Failed(r) == Within(r) /\ rows[r].vector = None /\ rows[r].flagged

\* retryArchiveFailures
RetryFailures ==
  /\ embedder = NoJob
  /\ resets < MaxResets
  /\ \E r \in Records : Failed(r)
  /\ resets' = resets + 1
  /\ rows' = [r \in Records |-> IF Failed(r) THEN [rows[r] EXCEPT !.flagged = FALSE] ELSE rows[r]]
  /\ UNCHANGED <<sync, lock, receivers, embedder, changes, breaks>>

Change(r, row) ==
  /\ changes < MaxChanges
  /\ changes' = changes + 1
  /\ rows' = [rows EXCEPT ![r] = [row EXCEPT !.touched = TRUE]]
  /\ UNCHANGED <<sync, lock, receivers, embedder, resets, breaks>>

\* memory_forget
ForgetRecord(r) ==
  /\ Live(r)
  /\ Change(r, [rows[r] EXCEPT !.deleted = TRUE])

\* memory_update with another text, which comes with its embedding.
EditRecord(r, text) ==
  /\ Current(r)
  /\ text # rows[r].text
  /\ Change(r, [rows[r] EXCEPT !.text = text, !.vector = text])

\* memory_update with other metadata, which replaces all there is.
ReplaceMetadata(r) ==
  /\ Current(r)
  /\ Change(r, [rows[r] EXCEPT !.snapshot = 0, !.flagged = FALSE])

\* memory_update of another memory, which supersedes this one.
SupersedeRecord(r) ==
  /\ Current(r)
  /\ Change(r, [rows[r] EXCEPT !.settled = TRUE])

\* An operator classifies the record anew.
Reclassify(r, level) ==
  /\ rows[r].here
  /\ level # rows[r].access
  /\ Change(r, [rows[r] EXCEPT !.access = level])

-------------------------------------------------------------------------------
Step(c) == Ingest(c) \/ Verify(c) \/ PlanFinalization(c) \/ Prune(c) \/ CommitSnapshot(c)

Next ==
  \/ \E c \in Receivers : Step(c) \/ Finalize(c) \/ Break(c)
  \/ \E c \in Receivers, s \in Snapshots, shrink \in BOOLEAN : Receive(c, s, shrink)
  \/ \E r \in Records :
       SelectForEmbedding(r) \/ ForgetRecord(r) \/ ReplaceMetadata(r) \/ SupersedeRecord(r)
  \/ \E r \in Records, text \in Texts : EditRecord(r, text)
  \/ \E r \in Records, level \in Levels : Reclassify(r, level)
  \/ Embedded \/ EmbeddingFails \/ RetryFailures

Spec == Init /\ [][Next]_yvars

-------------------------------------------------------------------------------
TypeOK ==
  /\ rows \in [Records -> Row]
  /\ sync \in SyncState
  /\ lock \in Receivers \cup {None}
  /\ receivers \in [Receivers -> Receiver]
  /\ embedder \in Job
  /\ resets \in 0..MaxResets /\ changes \in 0..MaxChanges /\ breaks \in 0..MaxBreaks

\* A snapshot that is reported complete is what the store holds, whichever copies broke off
\* before: all of its records as it says them and no others, but for the rows that somebody
\* else edited, settled, forgot or reclassified after the copy last wrote them.
CopyMirrorsSnapshot ==
  sync.done # 0 /\ sync.started = sync.done /\ ~sync.copying =>
    \A r \in Records :
      \/ rows[r].touched
      \/ IF Says[sync.done][r] = None THEN ~Live(r)
         ELSE Live(r) /\ rows[r].text = Says[sync.done][r]

\* What others settled, raised or forgot, no batch of the copy, of the prune or of the
\* embedding worker changes.
ProtectedKept ==
  [][\A r \in Records : Protected(r) /\ changes' = changes => rows'[r] = rows[r]]_yvars

\* A record's embedding is that of the text it has now.
VectorOfText == \A r \in Records : rows[r].vector \in {None, rows[r].text}
=============================================================================

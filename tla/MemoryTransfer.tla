---------------------------- MODULE MemoryTransfer ----------------------------
(***************************************************************************)
(* The memory feed: an export lists the memories page by page, and imports *)
(* write them to a destination batch by batch, from the line a checkpoint  *)
(* names.  The destination is another instance or the one the feed came    *)
(* from.                                                                   *)
(*                                                                         *)
(* A memory is its id, and an instant is a number of ticks: the database   *)
(* keeps ticks, and a timestamp that passes through the program keeps      *)
(* whole milliseconds of TicksPerMs.                                       *)
(***************************************************************************)
EXTENDS Integers, Sequences, FiniteSets, FiniteSetsExt, SequencesExt

CONSTANTS
  LastRow,        \* bound of the model: memories at the source
  Created,        \* created_at of each
  TicksPerMs,
  Keyless,        \* memories without a source_key
  Denied,         \* memories that the importing key may not write or see
  PageSize,       \* limit
  BatchSize,      \* MAX_TRANSFER_BATCH_RECORDS
  MaxPages,       \* bound of the model: pages an export reads
  Imports,        \* requests of the import command
  MaxWrites,      \* bound of the model: keyed writes by other clients, removals
  MaxCuts         \* bound of the model: requests that fail or are cut off

VARIABLES
  home,        \* the destination is the source instance
  feed,        \* the records exported, in order
  export,      \* the cursor, pages read so far and whether the export goes on
  original,    \* source rows that are still there
  copies,      \* the row under the portable key: "none", "same", "other"
  imports,     \* what each request is doing
  checkpoint,  \* records committed, as the checkpoint file says
  writes,
  cuts

tvars == <<home, feed, export, original, copies, imports, checkpoint, writes, cuts>>

Rows == 1..LastRow
Request == [stage : {"idle", "reading", "embedding"}, dry : BOOLEAN, from : Nat, done : Nat,
            pending : SUBSET Rows]
Unsent == [stage |-> "idle", dry |-> FALSE, from |-> 0, done |-> 0, pending |-> {}]

Init ==
  /\ home \in BOOLEAN
  /\ feed = <<>>
  /\ export = [at |-> -1, id |-> 0, pages |-> 0, open |-> TRUE]
  /\ original = Rows
  /\ copies = [r \in Rows |-> "none"]
  /\ imports = [i \in Imports |-> Unsent]
  /\ checkpoint = 0
  /\ writes = 0
  /\ cuts = 0

-------------------------------------------------------------------------------
Before(r, s) == Created[r] < Created[s] \/ (Created[r] = Created[s] /\ r < s)

\* (created_at, id) > cursor
After(r) == Created[r] > export.at \/ (Created[r] = export.at /\ r > export.id)

\* instant(): a Date has no more than milliseconds.
Instant(t) == (t \div TicksPerMs) * TicksPerMs

\* exportMemoryPage
ExportPage ==
  LET left == {r \in original : After(r)}
      page == {r \in left : Cardinality({s \in left : Before(s, r)}) < PageSize}
      last == CHOOSE r \in page : \A s \in page : ~Before(r, s)
  IN /\ export.open
     /\ export.pages < MaxPages
     /\ \E listed \in SetToSeqs(page) :
          /\ \A k, l \in DOMAIN listed : k < l => Before(listed[k], listed[l])
          /\ feed' = feed \o listed
     /\ export' = IF page = left THEN [export EXCEPT !.open = FALSE, !.pages = @ + 1]
                  ELSE [at |-> Instant(Created[last]), id |-> last, pages |-> export.pages + 1,
                        open |-> TRUE]
     /\ UNCHANGED <<home, original, copies, imports, checkpoint, writes, cuts>>

\* The response is cut off, and the file ends with what was written.
ExportBreaks ==
  /\ export.open
  /\ cuts < MaxCuts
  /\ cuts' = cuts + 1
  /\ export' = [export EXCEPT !.open = FALSE]
  /\ UNCHANGED <<home, feed, original, copies, imports, checkpoint, writes>>

-------------------------------------------------------------------------------
\* The command sends the manifest and the lines after the checkpoint.
Send(i, dry) ==
  /\ imports[i].stage = "idle"
  /\ ~export.open /\ feed # <<>>
  /\ imports' = [imports EXCEPT ![i] = [Unsent EXCEPT !.stage = "reading", !.dry = dry,
                                                      !.from = checkpoint, !.done = checkpoint]]
  /\ UNCHANGED <<home, feed, export, original, copies, checkpoint, writes, cuts>>

BatchEnd(i) == IF imports[i].done + BatchSize < Len(feed) THEN imports[i].done + BatchSize
                                                          ELSE Len(feed)
Lines(from, to) == {feed[k] : k \in (from + 1)..to}

\* A source_key that this request has already read.
Repeats(i) == \E k, l \in (imports[i].from + 1)..BatchEnd(i) : k < l /\ feed[k] = feed[l]

\* Faulty: a feed that comes home is matched by source_key only.
KnownByKeyOnly(r) == copies[r] # "none" \/ (home /\ r \in original /\ r \notin Keyless)

\* app_transfer_source_key_access: the row under the key, or the original itself.
Known(r) == copies[r] # "none" \/ (home /\ r \in original)

\* Source keys locked by batches between their classification and their commit.
Locked == UNION {imports[i].pending : i \in Imports}

Closed(i) == imports' = [imports EXCEPT ![i] = Unsent]

\* Faulty: the line the server was reading is reported.
ReadSoFar(i) == IF imports[i].stage = "embedding" THEN BatchEnd(i) ELSE imports[i].done

CommittedSoFar(i) == imports[i].done

\* What the response says is committed; a dry run and a request that committed nothing say
\* nothing, and the command goes on from where it was.
Report(i) == checkpoint' = IF imports[i].dry \/ CommittedSoFar(i) = imports[i].from
                           THEN checkpoint ELSE CommittedSoFar(i)

\* The next batch: records are classified under the locks of their keys.  Existing rows are
\* skipped or counted as conflicts.
Classify(i) ==
  LET batch == Lines(imports[i].done, BatchEnd(i)) \ Denied
      new == {r \in batch : ~Known(r)}
  IN /\ imports[i].stage = "reading"
     /\ imports[i].done < Len(feed)
     /\ IF Repeats(i) THEN Report(i) /\ Closed(i)
        ELSE /\ batch \cap Locked = {}
             /\ imports' = [imports EXCEPT
                                ![i] = [@ EXCEPT
                                  !.stage = "embedding",
                                  !.pending = IF imports[i].dry THEN {} ELSE new]]
             /\ UNCHANGED checkpoint
     /\ UNCHANGED <<home, feed, export, original, copies, writes, cuts>>

\* Faulty: a key that was taken meanwhile is overwritten.
TakenNever(i) == FALSE

\* Somebody took a key between its classification and the insert.
Taken(i) == \E r \in imports[i].pending : copies[r] # "none"

\* The inserts of the batch, all or none.
CommitBatch(i) ==
  /\ imports[i].stage = "embedding"
  /\ IF Taken(i) THEN Report(i) /\ Closed(i) /\ UNCHANGED copies
     ELSE /\ copies' = [r \in Rows |-> IF r \in imports[i].pending THEN "same" ELSE copies[r]]
          /\ imports' = [imports EXCEPT
                             ![i] = [@ EXCEPT
                               !.stage = "reading", !.pending = {}, !.done = BatchEnd(i)]]
          /\ UNCHANGED checkpoint
  /\ UNCHANGED <<home, feed, export, original, writes, cuts>>

EndImport(i) ==
  /\ imports[i].stage = "reading"
  /\ imports[i].done = Len(feed)
  /\ Report(i)
  /\ Closed(i)
  /\ UNCHANGED <<home, feed, export, original, copies, writes, cuts>>

\* The batch under way fails (its embedding, its transaction) or the connection breaks, and
\* the response is received or not.
Cut(i, answered) ==
  /\ imports[i].stage # "idle"
  /\ cuts < MaxCuts
  /\ cuts' = cuts + 1
  /\ Closed(i)
  /\ IF answered THEN Report(i) ELSE UNCHANGED checkpoint
  /\ UNCHANGED <<home, feed, export, original, copies, writes>>

\* A keyed memory_store of another program, which does not take the locks of the import.
WriteUnderKey(r) ==
  /\ writes < MaxWrites
  /\ ~home
  /\ copies[r] = "same" \/ (copies[r] = "none" /\ r \notin Keyless)
  /\ writes' = writes + 1
  /\ copies' = [copies EXCEPT ![r] = "other"]
  /\ UNCHANGED <<home, feed, export, original, imports, checkpoint, cuts>>

\* The source purges a row.
RemoveOriginal(r) ==
  /\ writes < MaxWrites
  /\ r \in original
  /\ writes' = writes + 1
  /\ original' = original \ {r}
  /\ UNCHANGED <<home, feed, export, copies, imports, checkpoint, cuts>>

-------------------------------------------------------------------------------
Next ==
  \/ ExportPage \/ ExportBreaks
  \/ \E i \in Imports : Classify(i) \/ CommitBatch(i) \/ EndImport(i)
  \/ \E i \in Imports, b \in BOOLEAN : Send(i, b) \/ Cut(i, b)
  \/ \E r \in Rows : WriteUnderKey(r) \/ RemoveOriginal(r)

Spec == Init /\ [][Next]_tvars

-------------------------------------------------------------------------------
TypeOK ==
  /\ home \in BOOLEAN
  /\ feed \in Seq(Rows)
  /\ original \subseteq Rows
  /\ copies \in [Rows -> {"none", "same", "other"}]
  /\ imports \in [Imports -> Request]
  /\ checkpoint \in 0..Len(feed)
  /\ writes \in 0..MaxWrites /\ cuts \in 0..MaxCuts

\* Resuming loses nothing: every record up to the checkpoint is at the destination, unless
\* it was denied or its original was removed there later.
CheckpointCovers ==
  \A k \in 1..checkpoint :
    feed[k] \in Denied \/ copies[feed[k]] # "none" \/ home

\* A feed that comes home makes no second row of a memory that is still there.
NoSecondCopy ==
  [][\A r \in original : home /\ copies[r] = "none" => copies'[r] = "none"]_tvars

\* A row that differs from the feed is not overwritten, whoever wrote it and whenever.
DivergentKept == [][\A r \in Rows : copies[r] = "other" => copies'[r] = "other"]_tvars

\* README, "Memory-only export and import feed": export uses stable keyset traversal.
FeedListsRowsOnce == IsInjective(feed)
=============================================================================

-------------------------------- MODULE Exchange --------------------------------
(***************************************************************************)
(* The components that exchange data with the outside, spend money or keep *)
(* a record of progress: reflection, the archive copy, the memory feed,    *)
(* API keys, a media service of one account, documents, and the migrations *)
(* of the database.  They share no state, so that a behaviour is one of    *)
(* one component, and the variables of the others keep their initial       *)
(* values.                                                                 *)
(***************************************************************************)
EXTENDS Integers, Sequences, FiniteSets

CONSTANTS
  Processes,     \* worker processes, requests, runs of a command
  None,
  Evidence, Insights, MaxGenerations, MaxRunCalls, MonthlyCalls, LastSeason,
  MaxRevision, MaxDisruptions,                                              \* Reflection
  LastRecord, LastSnapshot, Says, Poison, GuardedSize, MaxResets, MaxChanges,
  MaxBreaks,                                                                \* ArchiveSync
  LastRow, Created, TicksPerMs, Keyless, Denied, FeedPage, FeedBatch, MaxPages,
  MaxWrites, MaxCuts,                                                       \* MemoryTransfer
  Keys, PerMinute, PerDay, MinutesPerDay, RetentionDays, Graces, LastMinute, \* KeyAccess
  Accounts, LastPlay, PlayPage, Window, MaxOutages,                         \* MediaSync
  Contents, MaxChunk, MaxChunks, MaxDocuments, MaxFailures,                 \* DocumentStore
  Checkouts, LastMigration, Compatible, Granting, Reviewed, OldLedger, MaxMishaps \* MigrationRunner

VARIABLES
  component,
  season, evidence, reflections, insights, reflectors, disruptions, published, late,\* Reflection
  rows, sync, lock, receivers, embedder, resets, changes, breaks,                   \* ArchiveSync
  home, feed, export, original, copies, imports, checkpoint, writes, cuts,          \* MemoryTransfer
  minute, keys, minuteUsage, dayUsage, operations, admins, overtaken,               \* KeyAccess
  played, rolledOff, events, cursors, stored, mediaLock, jobs, outages,             \* MediaSync
  documents, calls, misled, failures,                                               \* DocumentStore
  table, ledger, schema, holder, runners, mishaps                                   \* MigrationRunner

fvars == <<season, evidence, reflections, insights, reflectors, disruptions, published, late>>
yvars == <<rows, sync, lock, receivers, embedder, resets, changes, breaks>>
tvars == <<home, feed, export, original, copies, imports, checkpoint, writes, cuts>>
kvars == <<minute, keys, minuteUsage, dayUsage, operations, admins, overtaken>>
mvars == <<played, rolledOff, events, cursors, stored, mediaLock, jobs, outages>>
dvars == <<documents, calls, misled, failures>>
gvars == <<table, ledger, schema, holder, runners, mishaps>>
vars == <<component, fvars, yvars, tvars, kvars, mvars, dvars, gvars>>

F == INSTANCE Reflection WITH Reflectors <- Processes
Y == INSTANCE ArchiveSync WITH Receivers <- Processes
T == INSTANCE MemoryTransfer WITH
       PageSize <- FeedPage, BatchSize <- FeedBatch, Imports <- Processes
K == INSTANCE KeyAccess WITH Operations <- Processes, Admins <- Processes
M == INSTANCE MediaSync WITH
       Feeds <- Accounts, Recent <- TRUE, Foreign <- {}, Jobs <- Processes,
       PageSize <- PlayPage, lock <- mediaLock
D == INSTANCE DocumentStore WITH Calls <- Processes
G == INSTANCE MigrationRunner WITH Runners <- Processes

ASSUME NoneAssumption == None \notin Processes \cup Accounts
ASSUME ReflectionAssumption ==
  /\ MaxGenerations \in Nat /\ MaxRunCalls \in Nat /\ MonthlyCalls \in Nat /\ LastSeason \in Nat \ {0}
  /\ MaxRevision \in Nat /\ MaxDisruptions \in Nat
  /\ None \notin F!ReflectionRun
ASSUME ArchiveAssumption ==
  /\ LastRecord \in Nat /\ LastSnapshot \in Nat
  /\ MaxResets \in Nat /\ MaxChanges \in Nat /\ MaxBreaks \in Nat
ASSUME DocumentAssumption ==
  /\ Contents \subseteq Seq(Nat \ {0}) /\ MaxChunk \in Nat \ {0} /\ MaxChunks \in Nat
  /\ MaxDocuments \in Nat /\ MaxFailures \in Nat
ASSUME TransferAssumption ==
  LastRow \in Nat /\ FeedBatch \in Nat /\ MaxWrites \in Nat /\ MaxCuts \in Nat
\* Files do not change after their distribution, and a release that ships what the old
\* deployment had recorded ships what it had executed; its record has a gap.
ASSUME MigrationAssumption ==
  /\ LastMigration \in Nat /\ MaxMishaps \in Nat
  /\ \A c \in Checkouts : DOMAIN c \subseteq G!Migrations /\ c \in [DOMAIN c -> G!Checksums]
  /\ Reviewed \subseteq G!Migrations /\ OldLedger \subseteq Reviewed
  /\ \E v \in Reviewed \ OldLedger, w \in OldLedger : v < w
  /\ \A c \in Checkouts : OldLedger \subseteq DOMAIN c => Reviewed \subseteq DOMAIN c
ASSUME MediaAssumption ==
  /\ LastPlay \in [Accounts -> Nat]
  /\ PlayPage \in Nat \ {0} /\ Window \in Nat /\ MaxOutages \in Nat
ASSUME KeyAssumption ==
  /\ PerMinute \in Nat /\ PerDay \in Nat /\ LastMinute \in Nat \ {0} /\ Graces \subseteq Nat
  /\ MinutesPerDay \in Nat \ {0} /\ RetentionDays \in Nat \ {0}

Init ==
  /\ component \in {"reflection", "archive", "transfer", "keys", "media", "documents", "migrations"}
  /\ F!Init /\ Y!Init /\ T!Init /\ K!Init /\ M!Init /\ D!Init /\ G!Init

Reflection(A) == component = "reflection" /\ A /\ UNCHANGED <<component, yvars, tvars, kvars, mvars, dvars, gvars>>
Archive(A) == component = "archive" /\ A /\ UNCHANGED <<component, fvars, tvars, kvars, mvars, dvars, gvars>>
Transfer(A) == component = "transfer" /\ A /\ UNCHANGED <<component, fvars, yvars, kvars, mvars, dvars, gvars>>
Access(A) == component = "keys" /\ A /\ UNCHANGED <<component, fvars, yvars, tvars, mvars, dvars, gvars>>
Media(A) == component = "media" /\ A /\ UNCHANGED <<component, fvars, yvars, tvars, kvars, dvars, gvars>>
Documents(A) == component = "documents" /\ A /\ UNCHANGED <<component, fvars, yvars, tvars, kvars, mvars, gvars>>
Migration(A) == component = "migrations" /\ A /\ UNCHANGED <<component, fvars, yvars, tvars, kvars, mvars, dvars>>

Next ==
  \/ Reflection(F!Next)
  \/ Archive(Y!Next)
  \/ Transfer(T!Next)
  \/ Access(K!Next)
  \/ Media(M!Next)
  \/ Documents(D!Next)
  \/ Migration(G!Next)

Spec == Init /\ [][Next]_vars

-------------------------------------------------------------------------------
\* The type invariants of the components.
TypeOK == F!TypeOK /\ Y!TypeOK /\ T!TypeOK /\ K!TypeOK /\ M!TypeOK /\ D!TypeOK /\ G!TypeOK

\* Insights of a generation are stored once, whichever process resumes it, and so is the
\* document of an idempotency key, whole and of the content that was sent.
StoredOnce == F!PublishedOnce /\ D!DocumentStoredOnce

\* Insights are stored only while the memories they cite say what the model read.
EvidenceIsWhatWasRead == F!EvidenceIsWhatWasRead

\* Concurrent processes keep the cap over the runs started in a month, and exceed it with
\* carried runs by no more than these runs' own caps; they keep the quotas of keys.
BudgetsKept == F!SeasonCapKept /\ K!QuotaKept

\* The code does not keep this one: what a run carried over from an earlier month reserves is
\* in no month's sum.
ReflectionMonthCapKept == F!MonthCapKept

\* A complete archive copy mirrors its snapshot, but for what others changed since, with
\* embeddings of what its rows say.
CopyIsFaithful == Y!CopyMirrorsSnapshot /\ Y!VectorOfText

\* What the destination has is kept: an import neither doubles a memory that comes home nor
\* overwrites one that differs, and the copy of the archive leaves alone what was settled,
\* raised or forgotten there.
DestinationKept == T!NoSecondCopy /\ T!DivergentKept /\ Y!ProtectedKept

\* What is recorded of progress is what was done: checkpoints and cursors stay behind what
\* was stored, and the ledger of migrations is what was executed, in order and on top of
\* the history of the checkout.
ProgressIsTrue == T!CheckpointCovers /\ M!CursorCoversEvents
                  /\ G!LedgerMirrorsSchema /\ G!HistoryIsRecognised

\* Creations and rotations leave one live key of a name.
NameUnambiguous == K!NameUnambiguous

\* README, "Memory-only export and import feed": export uses stable keyset traversal.
FeedListsRowsOnce == T!FeedListsRowsOnce
=============================================================================

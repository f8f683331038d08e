# total-recall in TLA+

total-recall is a memory service for AI agents: a TypeScript server over one
PostgreSQL database, a set of scheduled commands, a file watcher and a webhook
worker.  Nearly every hard question about it is a question about rows that
several processes read in one transaction and change in a later one, with an
embedding call, a generation call, a DNS lookup or an operator's approval in
between.  This directory models those protocols in TLA+, checks them with TLC on
small instances and proves their safety properties with TLAPS.

## 1. Inventory

State lives in PostgreSQL tables unless said otherwise.

| Component | State it keeps | Operations | Talks to |
|---|---|---|---|
| store, update, forget (`src/tools`, `src/memory-lifecycle.ts`) | `memories` | `memory_store` (deduplicated or keyed), `memory_update`, `memory_forget` | embeddings, belief revision, webhook trigger |
| belief revision (`src/contradictions.ts`) | `memories`; in memory: classification budget, shadow queue | candidate search, classification, `commitAutomaticRevision`; shadow scheduler, shutdown | generation model |
| consolidation (`src/consolidation.ts`) | `memories`, `memory_consolidation_memberships`, runs, checkpoints | load, generate, apply cluster; preview and apply deconsolidation | generation model, an operator |
| maintenance (`src/maintenance.ts`) | `memories` | decay of relevance, TTL purge | cron |
| tombstone purge (`scripts/purge-deleted.ts`) | `memories` | preview, approved apply | an operator |
| source-key writers, taste profile (`src/memories.ts`, `src/taste-profile.ts`) | `memories` | monthly upsert with supersession | rollups, generation |
| subscriptions and webhooks (`src/subscriptions.ts`, `scripts/webhook-delivery.ts`, migration 029) | `memory_subscriptions`, `webhook_deliveries` | create, disable, enqueue trigger, claim, load, recheck, post, mark | receivers over HTTPS |
| file watcher (`src/watcher.ts`, `src/watcher/`) | `memories` of client `file-sync`, `sync_state`; in memory: one state per path | enqueue, debounce, prepare, commit if current, delete, shutdown | file system, embeddings |
| contradiction runtime (`src/contradictions.ts`, `src/server.ts`, `src/db.ts`) | in memory: budget, scheduler and its queue, number of classifications; the pool | classify before or after the insertion, drain, end the pool, exit | stores, generation model |
| document store (`src/tools/store-document.ts`) | `documents`, chunks in `memories` | idempotent creation, chunking by paragraphs and bytes | embeddings |
| browser connector (`src/connectors/base.ts`, `connectors/browser`) | `connector_sync_state`, `activity_events` | source lock, read cursor, fetch a page, commit page and cursor, retry | the browser's profile |
| media connectors (`src/connectors/plex`, `connectors/spotify`, `src/media.ts`) | `connector_sync_state`, `media_events` | discover, list servers page by page, commit events and cursors | Plex, Spotify |
| rollups, taste profile (`src/rollup.ts`, `src/media.ts`, `src/taste-profile.ts`) | `media_events.memory_id`, `memories` | roll up and link, forget, purge; compare, generate, write | connectors, generation |
| archive sync (`src/archive`) | archive rows in `memories`, synchronization state | receive, verify, plan, prune, commit; embed, retry failures | an external archive |
| entity queue (`src/entities.ts`, migration 028) | `entity_enrichment_queue`, `memory_entities` | enqueue triggers, claim, load, extract, replace links, fail; backfill; traverse | generation model |
| reflection (`src/reflection.ts`) | runs, insights, evidence | select, materialize, claim or resume, reserve, generate, publish, fail | generation model |
| session distillation (`src/session-distillation.ts`) | session documents, distillation runs, facts | store, claim, sweep, load, reserve, generate, publish, defer | generation model |
| transfer (`src/transfer`, `scripts/memory-import.ts`) | checkpoint file; rows of the destination | export page by page; import batch by batch, resume | files, HTTP |
| API keys and quotas (`src/auth.ts`, `src/security.ts`, `scripts/create-key.ts`, `rotate-key.ts`) | `api_keys`, usage of minutes and days | authenticate, charge, clean up, create, rotate, revoke | every request |
| migrations (`scripts/migrate.ts`, `reconcile-legacy-ledger.ts`) | `schema_migrations`, the schema | lock, inspect, baseline, execute and record, repair | an operator |
| re-embedding (`scripts/reembed-all.ts`, `label-embeddings.ts`) | vectors in `memories` and their identity | select, embed, guarded write, verify, label | embeddings |
| search, recall, archive reading | none | read-only queries | embeddings |

What makes each component correct, in a sentence:

- *Memories*: a belief has one version at any instant and a history without gaps;
  nothing rewrites what was superseded, forgotten or folded, but for the months of
  the taste profile; a row stays hidden behind a canonical only as long as it says
  what the canonical was generated from; rows disappear only by expiry or by an
  approved purge.
- *Webhooks*: every event ends, in one final way, delivered only if the receiver
  has it; an unsubscribe wins over what is not yet on the wire; the secret a client
  was told is the one that signs.
- *File watcher*: once files stop changing, the rows are those of the files; no
  reader sees a mixture of two contents; what was forgotten stays forgotten.
- *Contradiction runtime*: the budget is never exceeded; a process that was seen
  drained classifies nothing any more, and it does end.
- *Documents*: one per idempotency key, of the content that was sent, whole.
- *Connectors, archive*: a cursor never passes an item that was not stored; a
  complete copy is its snapshot, whichever copies broke off before, but for the records
  that others changed; what they superseded, made secret or forgot is left alone.
- *Rollups*: an event is rolled up once, and forgetting that memory is final.
- *Queues with leases* (entities, distillation, reflection): a result is written
  once, for the text it was computed from; what the runs of a month reserve stays
  within its money for any number of workers, and what is carried over from an
  earlier month exceeds it by a bounded amount; every job ends.
- *Transfer, migrations, re-embedding*: an interrupted run continues where it was
  and repeats nothing that has an effect; what is recorded is what was done.
- *Keys*: a key's quota holds for concurrent requests; a name has one live key.

**Hard behaviours.** *Interleaving*: every writer of `memories` against every
other, with READ COMMITTED transactions that re-evaluate predicates on locked
rows.  *Stale state*: content embedded, clusters generated, evidence read and manifests
approved in an earlier transaction.  *Crash and retry*: workers that die between claiming
and marking; copies and imports that break off; clients that lose an answer.  *Ordering*: file
events against slow embeddings; months of the taste profile; pages of a feed.  *Timeouts*: lease
expiry against a slow worker, shutdown against running work.  *Liveness*: expired
rows must be erased, notifications must end, the last version of a file must be
indexed.  `PROJECT.json` lists each one under `hazards` with its line.


## 2. Plan

| Module | Composes or refines | State |
|---|---|---|
| `MemoryLifecycle` | refines `BeliefLedger` | checked; ten theorems, one of them the refinement (`MemoryLifecycleProofs`) |
| `WebhookDelivery` | refines `NotificationPromise` | checked; four theorems, one of them the refinement (`WebhookDeliveryProofs`) |
| `FileWatcher` | – | checked; four theorems (`FileWatcherProofs`) |
| `EntityEnrichment`, `SourceConnector`, `MediaSync`, `MediaRollup`, `EmbeddingMigration`, `ServerRuntime` | composed in `Pipelines` | checked; five theorems (`PipelinesProofs`) |
| `SessionDistillation` | – | checked; four theorems (`SessionDistillationProofs`) |
| `Reflection`, `ArchiveSync`, `MemoryTransfer`, `KeyAccess`, `MediaSync`, `DocumentStore`, `MigrationRunner` | composed in `Exchange` | checked; eight theorems (`ExchangeProofs`) |

Every safety invariant, action property and refinement that a run checks is proved;
section 5 says from which assumptions.  Two modules hold what several proofs need:
`FiniteSetFacts` (sums over finite sets, least elements, induction over an interval)
and `MediaSyncProofs` (the invariant of `MediaSync`, which both compositions
instantiate).  Two ways to go on are open: a model of the HTTP sessions of the server
beside its shutdown, and an abstract specification that the leased runs of
`EntityEnrichment`, `Reflection` and `SessionDistillation` have in common.  No module
has a `RECURSIVE` operator, so that all of them can be proved about.

## 3. Modules and code

Every definition that stands for code is in `PROJECT.json` under `map` with its
lines.  What follows is how to read them.

### MemoryLifecycle

`mem` is `public.memories`, one record per UUID; `memberships` is
`memory_consolidation_memberships`; `work` is what a client carries between two
transactions; `now` is `statement_timestamp()`.

- A transaction that decides on rows it has locked `FOR UPDATE` is one step.
  PostgreSQL runs these at READ COMMITTED and re-evaluates the predicate of a
  statement on the locked version of a row, so what the transaction acts on is what
  is committed at that moment.  Clocks are read after the locks are taken.
- What is read in one transaction and used in a later one is a step of its own:
  `UpdateRead`/`UpdateCommit` around an embedding, `StoreReview`/`ReviseCommit`
  around a classification, `MergeLoad`/`MergeApply` around a generation,
  `RestorePreview`/`RestoreApply` and `PurgePreview`/`PurgeApply` around an
  operator's approval.  `Abandon` is the client that fails or dies in between.
- `superseded_at` and `valid_to` are one field, because
  `memories_validity_supersession_check` keeps them equal.  `vec` is the content
  the embedding was computed from.  Tags and metadata are only the revision they
  bump.
- A batch of the TTL purge is one statement and a tombstone purge one transaction, so
  it erases its batch or nothing; foreign keys are checked at its end.  A TTL batch
  is any set of expired rows up to the limit, since `SKIP LOCKED` passes over rows
  that others hold.
- `TasteUpsert` is the writer of the monthly series.  It rewrites the row of its month
  whether or not a later month has superseded it (`Rewrite`).
- Deduplication compares by equality, since two bodies of the model are by
  definition not similar.  Classification and clustering may pick anything that the
  code's SQL lets them see: the models behind them are arbitrary.
- Left out: row-level security and the choice of namespace (one namespace, one
  access level), search, the limit of 100 on the depth of a chain, fallbacks for
  partly migrated schemas, the branch of `applyCluster` for a source-key conflict
  (unreachable, the key is derived from the run), manifests of several canonicals.

`BeliefLedger` says the same without clients, revisions and keys: a belief is
absent, shown, past, folded, forgotten or gone, and moves along a few arrows.  Only
the periods of a profile (`profile`) may be computed again once they are past
(`Recompute`).

### WebhookDelivery

`subs` and `rows` are `memory_subscriptions` and `webhook_deliveries`; `jobs` is
what each slot of `Promise.all` in a worker process holds; `matched` is what the
insert trigger wrote in a transaction that has not committed; `clients` are calls
of `agent_subscribe`.  `told`, `received`,
`lapsed` and `stalled` are history variables.

- Slots are independent, which allows more than batches that wait for their
  slowest job.  Claims come in any order, which allows more than `ORDER BY`.
- Time is two actions: `ComesDue` (a retry's `next_attempt_at`) and `LeaseEnds`
  (`locked_at` older than five minutes).  They may happen while a worker is busy
  with the row only if `Stalls`, and each such event is a fault: `db.ts` sets no
  statement timeout, so a wait for a connection or a lock has no bound, while the
  DNS, connect and response deadlines alone are far below a lease.
- `Match` takes any set of active subscriptions of enabled keys: the similarity
  threshold and the cap of 100 only restrict it.  Like the trigger, it asks neither
  for the permission to read (`readable`) nor for the validity or the expiry of the
  new row, both of which a load does ask for (`Authorized`).  So `StoreCommit` commits
  rows that a reader may see, and rows that are historical or expired from the
  start, which an import inserts; their deliveries are announced and cancelled later.
- `ToggleKey` and `ToggleMemory` are the rest of the system, which hides, shows and
  disables what deliveries refer to.
- `Receive` before `Crash` or before an `Answer` that is not a success is the lost
  answer; `Claim` of an overdue row is the takeover.
- `RevocationBeforeConnectWins` speaks of revocations committed before the host
  name was resolved.  Between the second check and the request no code can help.

`NotificationPromise` is what a subscriber is promised: announced once, ends once
and for ever, `delivered` only if received, `cancelled` only if the receiver had no
right to it at some time since its announcement, or never had.  The refinement counts a worker that outlived its lease as a lapse;
`webhook_at_least_once_claim` shows why it has to.

### FileWatcher

`disk` is the workspace; `notice` is what chokidar has yet to report; `jobs` is
the `PathState` of each path with the local variables of `processFile`; `rows` are
the `file-sync` rows under each heading; `hash` is `sync_state`.  `excused` is a
history variable: the paths whose last work failed or died with the process, and
those deleted while nobody watched.

- A worker's step lies between two awaits.  The model allows some interleavings
  more, because `Debounce` and `Read` are one synchronous step in the code.
- Generations are compared for equality with the generation an attempt began with,
  so one bit, `fresh`, stands for the comparison.
- A content is a function from headings to texts.  How Markdown is split, keys and
  occurrence counts are not modelled; `assertUniqueSourceKeys` makes them a
  function.
- `Commit` is one transaction: upserts that skip tombstoned and superseded rows,
  the delete of stale rows, the fingerprint.  A stale row that some successor's
  `supersedes_id` refers to makes the delete fail and all of it roll back.
- `Forget`, `Purge`, `Edit`, `Supersede` and `Unlink` are the operations of
  `MemoryLifecycle` as far as they touch watcher rows.
- `DrainTimeout` may come whenever the drain is not over; `Crash` at any time.

### Background pipelines

`EntityEnrichment`: `queue` is `entity_enrichment_queue` and `sources` what its
triggers look at.  A worker's claim, its load, the model call and the write of the
links are steps of their own; the write compares the revision with the one read
under a lock.  `passed` notes rows that were closed because their memory was hidden:
if it is restored, nothing enqueues it again, and it is reported as indexed without
links.

`ServerRuntime` is one process between awaits: a store classifies before its
insertion in mutation mode and after it, in the background, in shadow mode; `Signal`
closes the gate, `Drained`, `EndPool` and `Exit` are the handler.  A store whose
classification ends at the drain may find the pool ended and fails; that is the
code.

`SourceConnector` and `MediaSync` are the two kinds of connector: one cursor that
moves page by page, and cursors of all servers of a service that move together at
the end.  `late` and `rolledOff` note what no cursor can recover: a visit that
arrives below the cursor, and plays that left the provider's window (more than 50
between two syncs at Spotify).  The comparison that gives up an overtaken page is
there because the code has it; while the lock is held it finds nothing.

`MediaRollup`: passes embed outside transactions and link in one; the guard
`memory_id IS NULL` of the linking statement decides between two of them
(`src/src/media.ts:772`).  `profile` is the aggregate a month's
profile was written from.

`EmbeddingMigration`: a pass selects rows that no one has locked, embeds their texts
and writes each vector only to a row that is as selected; `Settled` relies on a pass
that exits nonzero being repeated.

### Leased runs and money

`SessionDistillation` and `Reflection` both claim a run, read the material, reserve
money, call the model and publish if the material is what they read.  Months advance
while a run waits or works.  A distillation that does not fit into the month is put off to
the next; a reflection run that looks abandoned is resumed by another process while
the first may still come back.  The code sums by the month in which a run was created
or started (`Spent`, `SpentIn`), not by the month in which it reserves.  The history
variables `spent` and `late` say what was really reserved in a month, so that
`MonthlyCapKept` and `SeasonCapKept` can bound both: the runs of the month by its cap,
and those that were carried over by what they may reserve each.  `ToggleOwner`,
`ReplacePolicy`, `UpdateChunk` and `ForgetChunk` are what the operator and the memory
tools do meanwhile.  The policies of the model name one provider and model; the code
keeps a sum for each of them.  `MediaRollup` has the third such budget, of calls.

### Exchange

`ArchiveSync`: `sync` is the state row with the snapshot that is being received, the
planned finalization and its progress; a batch is one record.  A snapshot that
lost more than a tenth of the last one needs the operator's word, unless the last one
is small.  Others edit records, replace their metadata, supersede, reclassify and forget
them: `Protected` is what a batch then leaves alone (`src/src/archive/sync-store.ts:90`),
`Within` what the prune and the embedding worker attend to (`:129`, `:231`).  `touched`
notes that somebody else changed a row since the copy last wrote it.  `settled` stands for
superseded; rows folded into a canonical or expired are treated alike by every one of
these statements, and no code makes a synced row so.

`MemoryTransfer`: `Created` are the instants of rows in ticks, and a cursor keeps
whole milliseconds, as the code does; `original` and `copies` are the rows of the
destination under a row's own id and under its portable key.

`KeyAccess`: authentication, the look at both windows and their charge are separate steps.
Two advisory locks and a row lock order the operators' commands; `rotate-key` does
not take the lock of the name that `create-key` takes.  `overtaken` notes a rotation
committed after its key had expired, which may leave a second key of the name.

`MigrationRunner`: `ledger` is what `schema_migrations` says and `schema` what was
executed; a checkout is its files.  Initial databases are empty, of a runner without
checksums, the deployment that `reconcile-legacy-ledger` repairs, and one with the
file of before the sanitization.

`DocumentStore`: chunking is a function of the paragraphs' sizes; the look for the
key before the embeddings and the conflict inside the transaction are both there.

### Composition

`Pipelines` and `Exchange` instantiate components that share no rows; `MCPipelines`
and `MCExchange` give them values. Init chooses one in `component`, the others keep
their initial values; so a run is as large as the sum of its components and not as
their product. Where components do share rows (`memories`), the operations of the
others are actions of the module itself: edits, retirements, restorations, expiry and
purges.

## 4. Runs

| Run | Instance | What it shows |
|---|---|---|
| `memory_history` | 3 ids, 2 contents, a key, 2 months, 1 editor, 1 automatic revision, 3 instants | histories are contiguous and have one version at any instant; vectors are of the contents beside them; settled rows stay settled, and only months of the profile are reworded |
| `memory_purge` | 3 ids, 2 contents, TTL 1, an editor, a merger, an operator, a purger, 2 instants | links and memberships agree; forgetting and editing are safe against stale clusters; expiry and purge erase only what they may; every operation is a step of the ledger |
| `webhook_outbox` | 2 creates, 1 memory, shown or historical, a key that may read or not, 2 workers, 2 attempts, 2 faults, stalls | the outbox keeps `NotificationPromise`; the secret told is the one that signs; unsubscribing wins; every delivery ends |
| `file_sync` | 1 path, 2 headings, 2 contents, 2 changes, 1 failure, 1 stop | rows and fingerprint agree; forgotten chunks stay forgotten; no change goes unnoticed and the rows catch up |
| `pipelines` | 2 processes; 1 memory and 2 attempts; 3 visits in pages of 1; 2 servers; 2 events; 2 rows; 3 stores of which the budget pays for one large or two | graph and vectors are of the current texts; no cursor skips; one memory per event; a drained server stays drained; all accepted work gets done |
| `sessions` | 2 sessions of cost 2, cap 3, 2 requests, 2 workers, 2 attempts, 2 months, 1 upset | a session identity is one transcript; the month's cap, beside what was carried over; facts come from the transcript that is stored; every run ends |
| `exchange` | 2 processes; 2 evidences, 2 generations, 2 months; 3 records, 3 snapshots, 1 change by others; 4 rows, 2 in one millisecond; 2 keys, 4 minutes; 4 plays in a window of 2; 3 contents; 4 migrations, 3 checkouts | stored once; budgets and quotas; the copy is the snapshot but for what others changed, and spares what they settled; checkpoints, cursors and the ledger tell what was done; one live key of a name |

The bounds are the least at which the interesting cases meet.  Three ids make a
chain with a middle row, or a canonical with two members.  A chain of three needs
strictly increasing instants, hence three; expiry after one instant needs two.  An
editor against an automatic revision, a keyed store, the profile or a merger makes
every race of two writers of different kinds; `MemoryEdits.cfg` has two editors.  Two attempts make a
retry and a final one, two workers one takeover, two faults a takeover that is
itself overtaken.  Deliveries share nothing but the workers and their subscription,
and paths of the watcher nothing but the process, so one of each is enough there;
two headings are needed for one chunk to fail the transaction of the other.

In the pipelines two processes overlap in every way two can, and a third is a retry
of one of them.  Pages and batches of one item put a boundary, and with it a crash,
between any two items.  Two revisions of a text tell a current result from a stale
one.  One large cost and small ones that fit together make a budget that one more
would break.  Three snapshots, the second of them shorter and the third with a text
that the provider rejects, make a shrinking copy, an older one that comes late, and
a resumed one.  The three checkouts are a whole release, one that lacks a number
and an older one whose file was edited.

State constraints keep the two memory runs small, and are bounds like the constants.
In `memory_history` the rows together have two revisions (`TwoRevisions`); three rows
say the same and two rows may differ (`TextsOrRows`); beside a keyed row the clock
stands and one client is between two transactions (`KeyedEarly`), beside a month of the
profile there are two instants and one such client (`MonthsEarly`).  In `memory_purge`
two clients are between two transactions at a time (`TwoAtWork`), and one beside a row
with a lifetime (`LimitedApart`).  Direct operations, of which a client does all in one
transaction, run beside them without a bound.  The theorems have none of these
constraints.

`SYMMETRY` permutes ids and contents in the memory runs, and processes, evidence and
keys in `exchange`: nothing orders them, the constants that name them are whole sets,
and these runs check no liveness.
`CHECK_DEADLOCK FALSE` stands where the bounds exhaust ids, time or changes and the
system then rests, or, in `pipelines`, where a process has ended; the webhook run
checks deadlock.

Runs that are expected to fail show a disagreement between the code and its
documentation; `PROJECT.json` quotes both sides under `findings`.

| Run | What goes wrong |
|---|---|
| `memory_provenance_claim` | a purge after a deconsolidation takes the membership history with it |
| `memory_ttl_cleanup_claim` | a row that supersedes an expiring one blocks the whole TTL cleanup |
| `taste_history_claim` | regenerating an older month of the taste profile rewrites its superseded row |
| `webhook_at_least_once_claim` | a stalled worker gets a delivery cancelled that nobody revoked |
| `feed_repeats_claim` | a page of the feed lists again a row of the page before |

Six more configurations are not among the runs and can be started by hand.
`MemoryEdits.cfg` is a larger instance of `VectorMatchesBody` (two editors, two
revisions).  The others end in a counterexample:

- `RestorationClaim.cfg`: a canonical left with one member by expiry cannot be
  deconsolidated (`SPEC.md:326`).
- `CompleteReadClaim.cfg`: a superseded chunk whose section is removed blocks its
  file for good (`README.md:473`).
- `ExhaustedClaim.cfg`: a distillation whose last attempt was deferred, or failed by
  a worker that outlived its lease, stays in `retry` with no attempt left
  (`src/src/session-distillation.ts:464`, `571`, against
  `docs/session-distillation.md:82`); `EveryRunEnds` excuses it as `Stranded`.
- `DistillationMonthClaim.cfg`: a month's reservations exceed its cap.  A run that was
  put off, or that comes late, is charged in a month whose sum leaves it out, because
  the sum goes by `created_at` (`src/src/session-distillation.ts:461-468` against the
  "calendar-month spend" of the comment at `:431` and the "database-serialized
  calendar-month reservation" of `docs/session-distillation.md:67`).
- `ReflectionMonthClaim.cfg`: the same of reflections.  A run started in the last month
  and resumed in this one reserves beside the whole cap of this month, because the sum
  goes by `started_at` (`src/src/reflection.ts:480-485`).

**Fairness.**  `webhook_outbox` assumes that
some worker process keeps polling, that each call of a job returns (all network
calls have deadlines) and that time passes.  `file_sync` assumes that chokidar
reports changes, timers fire, calls return, and the service manager starts a
process that ended; a drain that hangs is not assumed to time out.
`pipelines` and `sessions` assume that a process at work goes on, that workers poll,
that leases nobody works under run out, retries come due and months pass.  Commands
that a scheduler repeats and that give up when they find their lock held are strongly
fair: the lock is free again and again, and one attempt meets it free.  The repetition
of a re-embedding is the operator's, whom its exit status tells to repeat it; a
transaction of the server that holds a row's lock ends.  No other fairness
is assumed of clients, operators, owners, failures or crashes.

## 5. Proofs

The theorems hold for every value of the constants: any number of memories,
clients, workers, paths, sessions, records, attempts and bounds.  They assume what
the modules assume by name, and TLC evaluates these assumptions in every run:

- distinct kinds of values are distinct (`NoneAssumption`, `KeysAssumption`,
  `ValuesAssumption`), the numeric parameters are naturals, and those that divide or
  count pages, months and attempts are positive (`BoundsAssumption` and the like);
- a file's contents are functions from headings to texts (`ContentsAssumption`),
  lifetimes are positive (`TtlsAssumption`), months have an order
  (`MonthsAssumption`);
- the ids, sessions and stores of a behaviour are finitely many (`IdsAssumption`,
  `SessionsAssumption`, `ServerAssumption`), because sizes and sums are taken of them;
- usage is kept for a day at least (`KeyAssumption`), as `src/src/security.ts:161`
  enforces;
- files of migrations do not change after their distribution, so that a checkout with
  the numbers of the old ledger has all that the old deployment executed; and that
  ledger has a gap (`MigrationAssumption`, after `src/README.md:605`, "Migration files are
  immutable after distribution", and `src/scripts/reconcile-legacy-ledger.ts`).

No theorem assumes fairness.

| Theorem | States | Argument |
|---|---|---|
| `MemoryLifecycleProofs!TypeCorrect` | `[]TypeOK` | inductive as it stands, one lemma per group of operations |
| `MemoryLifecycleProofs!HistoryIsContiguous` | `[]ContiguousHistory` | `HistoryInv` |
| `MemoryLifecycleProofs!OneVersionValid` | `[]OneVersionAtAnyInstant` | from `HistoryInv`, by intervals |
| `MemoryLifecycleProofs!ErasureIsExpiredOrApproved` | `OnlyExpiredOrApprovedErased` | by what may become of one row (`Moves`) |
| `MemoryLifecycleProofs!EmbeddingsMatchContents` | `[]VectorMatchesBody` | `VectorInv` |
| `MemoryLifecycleProofs!SettledRowsStay` | `SettledRowsNeverRewritten` | by `Moves` |
| `MemoryLifecycleProofs!LinksAreMemberships` | `[]LinkMirrorsMembership` | `LinkInv` |
| `MemoryLifecycleProofs!ForgettingHidesClaims` | `[]ForgottenClaimHidden` | `LinkInv` |
| `MemoryLifecycleProofs!CanonicalsReflectMembers` | `[]CanonicalReflectsMembers` | `LinkInv` |
| `MemoryLifecycleProofs!RowsImplementLedger` | `ImplementsLedger` | step simulation under `LinkInv` and `LedgerInv` |
| `WebhookDeliveryProofs!TypeCorrect` | `[]TypeOK` | `Typed` |
| `WebhookDeliveryProofs!SecretsSign` | `[]SecretToldSigns` | `SecretsInv` |
| `WebhookDeliveryProofs!RevocationWins` | `[]RevocationBeforeConnectWins` | `RevocationInv` |
| `WebhookDeliveryProofs!PromiseKept` | `ImplementsPromise` | step simulation under `RightsInv` and `HoldInv` |
| `FileWatcherProofs!TypeCorrect` | `[]TypeOK` | `Typed` |
| `FileWatcherProofs!RowsMatchFingerprint` | `[]FingerprintMatchesRows` | `RowsAgree` |
| `FileWatcherProofs!ForgottenStays` | `ForgottenStaysForgotten` | action by action, under `Typed` |
| `FileWatcherProofs!LagNoticed` | `[]LagIsNoticed` | `LagInv` |
| `SessionDistillationProofs!TypeCorrect` | `[]TypeOK` | `Typed` |
| `SessionDistillationProofs!IdentityHolds` | `[]SessionIdentityHolds` | by what a step does to a session |
| `SessionDistillationProofs!PublishedFromStored` | `PublishedFromStoredTranscript` | only `Apply` writes facts, and it reads the chunks again |
| `SessionDistillationProofs!CapKept` | `[]MonthlyCapKept` | by what a step does to the sum of a month (`StepRuns`) |
| `PipelinesProofs!TypeCorrect` | `[]TypeOK` | the invariants of the six components |
| `PipelinesProofs!DerivedStaysCurrent` | `[]DerivedIsCurrent` | `EntityInv`, `VectorsInv` |
| `PipelinesProofs!SkipsNothing` | `[]NothingSkipped` | `VisitInv`, `MediaSyncProofs!PlayInv` |
| `PipelinesProofs!RolledOnce` | `[]RolledUpOnce` | `RollupInv` |
| `PipelinesProofs!DrainKept` | `[]DrainedStaysDrained` | `ServerInv` |
| `ExchangeProofs!TypeCorrect` | `[]TypeOK` | the invariants of the seven components |
| `ExchangeProofs!EvidenceStaysRead` | `EvidenceIsWhatWasRead` | only `Apply` adds evidence, and it looks again (`EvidenceStep`) |
| `ExchangeProofs!BudgetsHold` | `[]BudgetsKept` | `ReflectionInv`, `QuotaInv` |
| `ExchangeProofs!NameStaysUnambiguous` | `[]NameUnambiguous` | `NameInv` |
| `ExchangeProofs!StoresOnce` | `[]StoredOnce` | `ReflectionInv`, `DocumentInv` |
| `ExchangeProofs!CopyStaysFaithful` | `[]CopyIsFaithful` | `ArchiveInv` |
| `ExchangeProofs!DestinationStaysKept` | `DestinationKept` | `TransferInv`; for the archive, by the guards of its writers |
| `ExchangeProofs!ProgressStaysTrue` | `[]ProgressIsTrue` | `TransferInv`, `MediaSyncProofs!PlayInv`, `MigrationInv` |

The components of `Pipelines` and `Exchange` share no variable, so that a step of
one is a stutter of every other; one lemma says so (`StepsOfComponents`), and each
component has an invariant of its own.

Where a property is not inductive, this is what it lacks.

*Memories*

- *Contiguous history.*  Erasing a row must not break a link to it, and a new link
  must not give a row a second successor.  `HistoryInv` adds that a row has one
  successor (`SingleSuccessor`) and that a row that is not there has no link
  (`BareRowsUnlinked`).
- *One version at any instant.*  Chains have no bound, and induction over their
  length is out of the provers' reach.  The proof takes the ancestors of a row as
  the least set of ids closed under `supersedes_id`: the rows that ended before the
  given one began form such a set, so all ancestors are among them.
- *One row at a time.*  Many operations write rows in a few ways, so the proofs
  about single rows go through `Moves(i)`: a row begins, as an ordinary one or as a
  canonical, is replaced, patched, retagged or closed, is tombstoned, is hidden behind
  a canonical or shown again, or is erased.  `StepMoves` is proved once, action by action.
- *Embeddings.*  `VectorInv` adds `EditsFresh`: an editor whose revision still is the
  row's has embedded the content it is about to write.
- *Settled rows.*  That no superseded row is reworded is false: regenerating an older
  month of the taste profile does it (`taste_history_claim`).  So the property says of
  the months only that they keep their place in history, and of all other rows that they
  keep their contents too.  The ledger has an action for the months (`Recompute`).
- *Links and memberships.*  The three properties need each other: a forgotten member
  takes its canonical with it only if every hidden row has an open membership, and a
  canonical's members stay as they were only if nothing that writes by key can reach
  a hidden row.  `LinkInv` adds `BareRowsFree` (a row that is not there hides behind
  nothing), `HiddenRowsPlain` (only unkeyed ordinary rows are ever hidden),
  `CanonicalsPermanent` (a canonical does not expire, and its key is its run's) and
  `MembershipsNamed` (both ends of a membership exist, the canonical of one that has
  ended is a tombstone).
- *The ledger.*  A step that folds must fold two rows or more (`MergesLarge`), a
  manifest must list every open member of its canonical (`ManifestsCover`; a canonical
  gains no member after its birth), and rows that are there say something
  (`WordedRows`).

*Webhooks and watcher*

- *Webhook types.*  A secret is told from a row, so a subscription that exists must
  have one (`KeysTyped`), and a call must carry its request (`CallsTyped`).
- *Secrets.*  What was told belongs to a subscription that exists; it is never
  created again, so its secret is final.
- *Revocation.*  A worker that saw the subscription disabled must still find it
  disabled at the second check (`RevokedIsDisabled`), for no path leads back.
- *The promise.*  `RightsInv`: rows exist only for memories that were stored, and
  a delivery to which its receiver has no right is noted, whether the right was lost
  before the commit of the insert, later, or was never there.  `HoldInv`: a row some worker holds is
  being processed, unless there is an excuse; two workers hold one row only with an
  excuse; an outcome that claims a receipt or a revocation tells the truth.  The
  mapping turns `pending`, `processing` and `retry` into `open`; every action is
  then an announcement, a receipt, an end, a lapse, or leaves the promise alone.
- *Watcher types.*  A worker never holds the content of an excluded file, or it
  might be stored.
- *Rows and fingerprint.*  A row that never was is empty and has no successor, so
  that unlinking a successor cannot touch it.
- *Lag.*  While the process is up, a running worker sees its file as it is, is
  stale and will go round again, or is about to be told; a path at rest is in step,
  waits, has an event to come or is excused.  While it is down, nothing is pending,
  and a file that is gone is in step or excused; that is what the next start needs.

*Pipelines and sessions*

- *Links.*  What a worker has read is the text of its memory as long as the revision
  is the one it read (`Knows`), the triggers keep the queue at the memory's revision
  and level (`Follows`), so the comparison before the write is enough (`Linked`).  That
  two workers may hold one row after a lost lease plays no part.
- *Vectors.*  The type already says that a batch is of texts; the guarded write
  compares with the row, so `TargetVectorsFit` is inductive with the type.
- *Visits.*  What precedes the cursor a process read is stored, and the page it fetched
  is all the profile had from there to the end of the page, but for late visits
  (`Pages`).  That is about the process alone, so it does not matter what others stored
  in between.
- *Plays.*  A feed that was not listed to its end, or failed, stands where its cursor
  was, and every cursor a job has read covers stored plays only (`Tracks`), so that the
  cursors it saves cover what it read and what it stores with them.
- *Rollups.*  An event that got a memory keeps it, for the row is never erased as long
  as the event refers to it (`MadeOnce`), so that no later pass selects it.
- *Draining.*  `Quiet` alone is not inductive: a waiting shadow could start.  `Lanes`
  says that one waits only while all slots are taken and none waits behind a closed
  gate, `Gated` that a handler has closed it; a drained process has free slots and
  therefore an empty queue.
- *The month's cap.*  The sum of a month changes by one session's cost or not at all,
  and what is reserved in a month is what its own runs and the carried ones reserved
  (`Money`); none is charged before it was created (`CreatedByNow`).  Sums are
  `SumFunctionOnSet` of the community modules; that they are additive
  (`FiniteSetFacts`) is shown by the least set for which they are not.

*Exchange*

- *Reflection.*  A generation that stored its insights is completed by the same
  transaction and stays so (`PublishedIsCompleted`), although two processes may hold
  its run.  Generations are opened one after the other and none in a month to come, so
  a new month starts with an empty sum.  What carried runs reserve in a month is at most
  the calls they have made (`LateIsCarried`), each of which has a cap (`SumBounded`).
- *Quotas.*  An operation that has counted is the only one of its key to have done so
  (`Counts`), and the minutes of a day add up to the day's table from today on
  (`TablesAgree`); what the cleanup removes is older, which needs the retention to be
  a day or more.
- *Names.*  A rotation holds a key that still has the name, and no other rotation holds
  it; a creation has found the name free (`Holds`).  Together they keep a creation and
  a rotation apart without a common lock, until a key expires in between.
- *Archive.*  A receiver has stored what it has sent (`Receiving`), the planned
  finalization stands for that when the receiver dies (`Pending`), every row that others
  have not touched since says what the snapshot it is stamped with says (`Kept`), and
  `Mirrors` is what the run checks.
- *Documents.*  The chunks are a fold over the paragraphs.  The proof takes the
  prefixes of a content, shows that each paragraph adds its size and leaves every chunk
  within the limit (`ParagraphKeeps`), and reaches the whole by `IntervalInduction`,
  which is about sets of numbers and needs no operator parameter.
- *Transfer.*  What a request has done of the feed is at the destination, and what it
  holds for embedding is the rest of its batch (`Imports`); the feed is closed before
  anyone imports, so line numbers stay what they were.
- *Migrations.*  Between its inspection and the end of its work a runner holds the
  lock; the ledger then is what it read and what it has added in ascending order
  (`Running`), and all that it lacks lies beyond all it has (`FollowsOn`).  `Running`
  also says that this is not the ledger of the old deployment: the runner refuses its
  gap (`GapIsSeen`), and a ledger that grew from it would not tell what was executed.

Two readings of TLA+ by the proof system differ from TLC's, and the modules avoid both.
Where one `EXCEPT` updates the same argument of a function twice, it asserts both
updates; nested records are written instead, and the two places that update two
arguments (`Finished` of `ServerRuntime`, `RotateKey` of `KeyAccess`) are proved to
have distinct ones.  And it reads `SUBSET A \cup B` as the subsets of the union, so
such terms are in parentheses.

Only model-checked: all liveness (`EveryDeliveryEnds`, `ChangesReachTheIndex`,
`WorkIsFinished`, `EveryRunEnds`), and with it everything about fairness and `ENABLED`, which the proof system does not treat.


## 6. Not modelled

- *Search, recall, listing, archive reading*: read-only; what they may return is the
  `Visible` predicate of `MemoryLifecycle`.
- *The server's interface, dashboard, activity and audit records*: routing, parsing
  and append-only records, without a protocol over shared rows.
- *Embedding and generation providers*: external; their answers are arbitrary
  values that arrive late or not at all.
- *Evaluation, seeding, repair, provisioning and online index scripts*: offline, or
  run by hand on a quiet database.
- *Inside modelled components*: decay of relevance scores, clustering by similarity
  and consolidation checkpoints; how Markdown is split into chunks, the choice of
  watched paths, and metadata edits that make a row no longer belong to its file;
  the similarity match of a subscription; signing, address checks and the wire
  format of webhooks; names and relations of entities; parsing of provider answers,
  `BaseConnector.backfill`, the YouTube Music helper; dry runs of the re-embedding,
  the second footprint that `reconcile-legacy-ledger` recognises; row-level security;
  the purge of tombstones of the archive copy, and the forgetting of the row that holds
  its state, which stops the copy (`archive_sync.state_protected`).

Limits of the code that the models show and no property claims away:

- The cap of a month is exceeded by the reservations of runs that were created or started
  in an earlier one: by one reservation for each such distillation, and by what is left of
  the caps of such reflections (`MonthlyCapKept`, `BudgetsKept`, and the two
  configurations that show it).
- A row that is historical or expired when it is inserted, as an import does, and a
  subscription whose key may not read, still get a delivery, which is cancelled when it is
  loaded; `docs/subscriptions.md:3` says that historical rows do not create events.
- An operator who relabels a record of the archive from `secret` to `sensitive` between its
  batch and the prune has it removed, since no batch stamped it (`touched` excuses it).
- That an expired row is erased in the end is not claimed: a reference to it stops every
  batch that takes it (`memory_ttl_cleanup_claim`).
- A browser visit that arrives below the cursor is never read (`late`); Spotify plays
  beyond the provider's window are lost (`rolledOff`); YouTube Music has labels and
  no instants, and lists an item again as its label ages
  (`docs/connectors/ytmusic.md:165`).
- A rollup pass runs only after a sync that stored something
  (`src/scripts/plex-sync.ts:73`), so that events of a failed pass wait for the next.
- A file deleted while no watcher runs keeps its rows; `README.md:476` says so.
- An expiring member's content survives its expiry inside a permanent canonical
  (`src/src/consolidation.ts:199`).
- A member that is restored after a re-embedding has the vector of the retired
  profile (`restored`).
- The lock of the taste-profile command is on a connection of its own; when that is
  lost, two runs may write, and the later one wins (`LoseGuard`).
- A rotation moves the expiry of its predecessor, also forward, and the replacement
  starts with counters of its own.
- A refused run of the migrations has already added the column `checksum`
  (`src/scripts/migrate.ts:343`), after which the legacy repair refuses the table.

A keyed store may give a lifetime to a row that already stands in a history, which
`memory_update` refuses for its own links (`src/src/tools/update.ts:168`).  The
model allows it, and it is one of the ways to the state that
`memory_ttl_cleanup_claim` shows.

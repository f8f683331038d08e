------------------------------ MODULE FileWatcher ------------------------------
(***************************************************************************)
(* The file watcher: change events, the queue that debounces and           *)
(* serializes work per path, the worker that prepares a file's chunks and  *)
(* commits them if the file is still the one it read, graceful shutdown,   *)
(* crash and restart, and the other writers of the rows it owns.           *)
(*                                                                         *)
(* A worker takes at most one step between two awaits.  Generation numbers *)
(* are compared for equality only, with the generation the worker started  *)
(* on: fresh says that they are still equal.  A running worker is dirty    *)
(* exactly when it is not fresh.                                           *)
(***************************************************************************)
EXTENDS Integers, FiniteSets

CONSTANTS
  Paths,
  Headings,     \* the source keys of one file's chunks
  Texts,        \* chunk contents
  Contents,     \* what a file may hold: a text, or none, under each heading
  None,         \* no chunk under a heading; no stored fingerprint
  Missing,      \* the file does not exist
  Excluded,     \* the file is too large to be synced
  MaxChanges,   \* bound of the model: changes of files
  MaxFailures,  \* bound of the model: failing reads, embeddings and transactions
  MaxStops      \* bound of the model: crashes and shutdowns

ASSUME ContentsAssumption == Contents \subseteq [Headings -> Texts \cup {None}]
ASSUME ValuesAssumption ==
  /\ None \notin Texts \cup Contents
  /\ Missing \notin Contents
  /\ Excluded \notin Contents
  /\ None # Missing /\ None # Excluded /\ Missing # Excluded
ASSUME BoundsAssumption == MaxChanges \in Nat /\ MaxFailures \in Nat /\ MaxStops \in Nat

VARIABLES
  disk,      \* what each path holds
  notice,    \* paths with a change that the watcher has not been told of yet
  mode,      \* the process: up, closing its event source, draining, down
  jobs,      \* the queue's state of each path and its worker
  rows,      \* the rows of client file-sync
  hash,      \* sync_state: the fingerprint of the content last committed
  excused,   \* history: paths whose last work failed or died with the process
  changes, failures, stops

vars == <<disk, notice, mode, jobs, rows, hash, excused, changes, failures, stops>>

Files == Contents \cup {Missing, Excluded}

\* past: superseded_at is set.  linked: a successor's supersedes_id refers to it.
\* edited: memory_update changed it since the watcher wrote it.
Row == [life : {"none", "live", "forgotten", "purged"}, past : BOOLEAN, linked : BOOLEAN,
        edited : BOOLEAN, text : Texts \cup {None}]
NoRow == [life |-> "none", past |-> FALSE, linked |-> FALSE, edited |-> FALSE, text |-> None]

Phases == {"idle", "waiting", "reading", "lookup", "embed", "recheck", "decide", "commit"}
Job == [phase : Phases, fresh : BOOLEAN, content : Files, seen : Files]

\* No state for the path; a debounce timer; a worker that begins an attempt.
Idle == [phase |-> "idle", fresh |-> TRUE, content |-> Missing, seen |-> Missing]
Waiting == [Idle EXCEPT !.phase = "waiting"]
Started == [Idle EXCEPT !.phase = "reading"]

Running(p) == jobs[p].phase \notin {"idle", "waiting"}

Init ==
  /\ disk \in [Paths -> Files]
  /\ notice = {p \in Paths : disk[p] # Missing}
  /\ mode = "up"
  /\ jobs = [p \in Paths |-> Idle]
  /\ rows = [p \in Paths |-> [h \in Headings |-> NoRow]]
  /\ hash = [p \in Paths |-> None]
  /\ excused = {}
  /\ changes = 0
  /\ failures = 0
  /\ stops = 0

(***************************************************************************)
(* Events.  chokidar reports a change some time after it happened, once    *)
(* for several changes if they follow closely.                             *)
(***************************************************************************)
store == <<rows, hash>>

Change(p, file) ==
  /\ changes < MaxChanges
  /\ changes' = changes + 1
  /\ disk[p] # file
  /\ disk' = [disk EXCEPT ![p] = file]
  /\ IF mode = "down"
     THEN /\ excused' = IF file = Missing THEN excused \cup {p} ELSE excused
          /\ UNCHANGED notice
     ELSE notice' = notice \cup {p} /\ UNCHANGED excused
  /\ UNCHANGED <<mode, jobs, store, failures, stops>>

\* Faulty: an event for a path whose worker runs is taken to be covered by that worker.
EnqueuedUnlessRunning(job) == IF job.phase \in {"idle", "waiting"} THEN Waiting ELSE job

Enqueued(job) == IF job.phase \in {"idle", "waiting"} THEN Waiting ELSE [job EXCEPT !.fresh = FALSE]

\* The queue refuses events once the shutdown has begun.
Notify(p) ==
  /\ p \in notice
  /\ mode \in {"up", "closing"}
  /\ notice' = notice \ {p}
  /\ IF mode = "up"
     THEN jobs' = [jobs EXCEPT ![p] = Enqueued(@)] /\ excused' = excused \ {p}
     ELSE UNCHANGED <<jobs, excused>>
  /\ UNCHANGED <<disk, mode, store, changes, failures, stops>>

Debounce(p) ==
  /\ mode # "down"
  /\ jobs[p].phase = "waiting"
  /\ jobs' = [jobs EXCEPT ![p] = Started]
  /\ UNCHANGED <<disk, notice, mode, store, excused, changes, failures, stops>>

(***************************************************************************)
(* The worker of a path.  When an attempt ends, a worker that is no longer *)
(* fresh begins again at once.                                             *)
(***************************************************************************)
world == <<disk, notice, mode, changes, stops>>

Moves(p, phase) == jobs' = [jobs EXCEPT ![p] = [@ EXCEPT !.phase = phase]]
Ends(p) == jobs' = [jobs EXCEPT ![p] = IF @.fresh THEN Idle ELSE Started]

\* After an error the path is left alone until its next event.
Errs(p) ==
  /\ Ends(p)
  /\ excused' = IF jobs[p].fresh THEN excused \cup {p} ELSE excused

Read(p) ==
  /\ jobs[p].phase = "reading"
  /\ \/ /\ disk[p] = Excluded
        /\ Ends(p)
     \/ /\ disk[p] = Missing
        /\ jobs' = [jobs EXCEPT ![p] = [@ EXCEPT !.phase = "recheck", !.content = Missing]]
     \/ /\ disk[p] \in Contents
        /\ jobs' = [jobs EXCEPT ![p] = [@ EXCEPT !.phase = "lookup", !.content = disk[p]]]
  /\ UNCHANGED <<world, store, excused, failures>>

Lookup(p) ==
  /\ jobs[p].phase = "lookup"
  /\ IF hash[p] = jobs[p].content THEN Ends(p) ELSE Moves(p, "embed")
  /\ UNCHANGED <<world, store, excused, failures>>

Embed(p) ==
  /\ jobs[p].phase = "embed"
  /\ Moves(p, "recheck")
  /\ UNCHANGED <<world, store, excused, failures>>

Recheck(p) ==
  /\ jobs[p].phase = "recheck"
  /\ IF jobs[p].fresh
     THEN jobs' = [jobs EXCEPT ![p] = [@ EXCEPT !.phase = "decide", !.seen = disk[p]]]
     ELSE Ends(p)
  /\ UNCHANGED <<world, store, excused, failures>>

\* Faulty: the attempt is given up without another one.
RetryDropped(p) == jobs' = [jobs EXCEPT ![p] = Idle]

Retry(p) == jobs' = [jobs EXCEPT ![p] = Started]

Decide(p) ==
  /\ jobs[p].phase = "decide"
  /\ IF jobs[p].fresh /\ jobs[p].seen = jobs[p].content THEN Moves(p, "commit") ELSE Retry(p)
  /\ UNCHANGED <<world, store, excused, failures>>

(***************************************************************************)
(* The transaction that makes the rows of a path those of one content.     *)
(***************************************************************************)

\* Faulty: the upsert does not ask whether the row is a tombstone.
WritableThoughForgotten(r) == ~r.past

Writable(r) == r.life # "forgotten" /\ ~r.past

Upserted(r, text) ==
  IF Writable(r) THEN [r EXCEPT !.life = "live", !.text = text, !.edited = FALSE] ELSE r

Wants(content, h) == content # Missing /\ content[h] # None
Stale(p, content) == {h \in Headings : ~Wants(content, h) /\ rows[p][h].life = "live"}

\* Faulty: rows whose chunk is gone are left behind.
ReconciledKeepingStale(p, content) ==
  [h \in Headings |-> IF Wants(content, h) THEN Upserted(rows[p][h], content[h]) ELSE rows[p][h]]

Reconciled(p, content) ==
  [h \in Headings |->
     IF Wants(content, h) THEN Upserted(rows[p][h], content[h])
     ELSE IF h \in Stale(p, content) THEN NoRow
     ELSE rows[p][h]]

\* Deleting a row that a successor refers to fails, and the whole transaction with it.
Blocked(p, content) == \E h \in Stale(p, content) : rows[p][h].linked

\* Faulty: a file that is gone gets a sync state like any other.
StoredAnyhow(content) == content

\* The sync state of a file that is gone is deleted.
Stored(content) == IF content = Missing THEN None ELSE content

Commit(p) ==
  /\ jobs[p].phase = "commit"
  /\ \/ /\ ~Blocked(p, jobs[p].content)
        /\ rows' = [rows EXCEPT ![p] = Reconciled(p, jobs[p].content)]
        /\ hash' = [hash EXCEPT ![p] = Stored(jobs[p].content)]
        /\ Ends(p)
        /\ UNCHANGED excused
     \/ /\ Blocked(p, jobs[p].content)
        /\ Errs(p)
        /\ UNCHANGED store
  /\ UNCHANGED <<world, failures>>

Fail(p) ==
  /\ jobs[p].phase \in {"reading", "lookup", "embed", "recheck", "commit"}
  /\ failures < MaxFailures
  /\ failures' = failures + 1
  /\ Errs(p)
  /\ UNCHANGED <<world, store>>

Work(p) == Read(p) \/ Lookup(p) \/ Embed(p) \/ Recheck(p) \/ Decide(p) \/ Commit(p)

(***************************************************************************)
(* The other writers of these rows: memory_forget, the tombstone purge,    *)
(* and memory_update, of a chunk or of a successor that supersedes it.     *)
(***************************************************************************)
Rewrites(p, h, r) == rows' = [rows EXCEPT ![p][h] = r]

Forget(p, h) ==
  /\ rows[p][h].life = "live"
  /\ Rewrites(p, h, [rows[p][h] EXCEPT !.life = "forgotten"])

Purge(p, h) ==
  /\ rows[p][h].life = "forgotten"
  /\ ~rows[p][h].linked
  /\ Rewrites(p, h, [NoRow EXCEPT !.life = "purged"])

Edit(p, h, text) ==
  /\ rows[p][h].life = "live"
  /\ ~rows[p][h].past
  /\ rows[p][h].text # text
  /\ Rewrites(p, h, [rows[p][h] EXCEPT !.text = text, !.edited = TRUE])

Supersede(p, h) ==
  /\ rows[p][h].life = "live"
  /\ ~rows[p][h].past
  /\ Rewrites(p, h, [rows[p][h] EXCEPT !.past = TRUE, !.linked = TRUE])

\* The successor itself is forgotten and purged.
Unlink(p, h) ==
  /\ rows[p][h].linked
  /\ Rewrites(p, h, [rows[p][h] EXCEPT !.linked = FALSE])

Others(p, h) ==
  /\ \/ Forget(p, h)
     \/ Purge(p, h)
     \/ Supersede(p, h)
     \/ Unlink(p, h)
     \/ \E text \in Texts : Edit(p, h, text)
  /\ UNCHANGED <<world, jobs, hash, excused, failures>>

(***************************************************************************)
(* Shutdown, crash and restart.                                            *)
(***************************************************************************)
Shutdown ==
  /\ mode = "up"
  /\ stops < MaxStops
  /\ stops' = stops + 1
  /\ mode' = "closing"
  /\ UNCHANGED <<disk, notice, jobs, store, excused, changes, failures>>

\* The event source is closed; every pending debounce becomes immediate work.
Flush ==
  /\ mode = "closing"
  /\ mode' = "draining"
  /\ notice' = {}
  /\ jobs' = [p \in Paths |-> IF jobs[p].phase = "waiting" THEN Started ELSE jobs[p]]
  /\ UNCHANGED <<disk, store, excused, changes, failures, stops>>

\* What is gone from the disk when the process ends is not found by the next start.
Dies ==
  /\ mode' = "down"
  /\ notice' = {}
  /\ jobs' = [p \in Paths |-> Idle]
  /\ excused' = excused \cup {p \in Paths : disk[p] = Missing}

Drained ==
  /\ mode = "draining"
  /\ \A p \in Paths : jobs[p].phase = "idle"
  /\ Dies
  /\ UNCHANGED <<disk, store, changes, failures, stops>>

DrainTimeout ==
  /\ mode = "draining"
  /\ \E p \in Paths : jobs[p].phase # "idle"
  /\ Dies
  /\ UNCHANGED <<disk, store, changes, failures, stops>>

Crash ==
  /\ mode # "down"
  /\ stops < MaxStops
  /\ stops' = stops + 1
  /\ Dies
  /\ UNCHANGED <<disk, store, changes, failures>>

\* The initial scan reports every file that exists.
Restart ==
  /\ mode = "down"
  /\ mode' = "up"
  /\ notice' = {p \in Paths : disk[p] # Missing}
  /\ UNCHANGED <<disk, jobs, store, excused, changes, failures, stops>>

Next ==
  \/ \E p \in Paths :
       \/ \E file \in Files : Change(p, file)
       \/ Notify(p)
       \/ Debounce(p)
       \/ Work(p)
       \/ Fail(p)
       \/ \E h \in Headings : Others(p, h)
  \/ Shutdown \/ Flush \/ Drained \/ DrainTimeout \/ Crash \/ Restart

Spec == Init /\ [][Next]_vars

\* Events arrive, timers fire, every call of a worker returns, and the
\* service manager starts the process again.
Fairness ==
  /\ \A p \in Paths : WF_vars(Notify(p)) /\ WF_vars(Debounce(p)) /\ WF_vars(Work(p))
  /\ WF_vars(Flush) /\ WF_vars(Drained) /\ WF_vars(Restart)

LiveSpec == Spec /\ Fairness

(***************************************************************************)
(* Properties.                                                             *)
(***************************************************************************)

\* Every variable has the shape the queue and the tables give it.
TypeOK ==
  /\ disk \in [Paths -> Files]
  /\ notice \subseteq Paths
  /\ mode \in {"up", "closing", "draining", "down"}
  /\ jobs \in [Paths -> Job]
  /\ rows \in [Paths -> [Headings -> Row]]
  /\ hash \in [Paths -> Contents \cup {None}]
  /\ excused \subseteq Paths
  /\ changes \in Nat /\ failures \in Nat /\ stops \in Nat

\* The stored fingerprint is that of the rows: under every heading that
\* nobody forgot, superseded or edited since, a reader finds the chunk of
\* the content it names and no other, and none of a file without one.
Untouched(r) == r.life \in {"none", "live"} /\ ~r.past /\ ~r.edited

FingerprintMatchesRows ==
  \A p \in Paths, h \in Headings :
    Untouched(rows[p][h]) => rows[p][h].text = IF hash[p] = None THEN None ELSE hash[p][h]

\* A chunk that was forgotten stays forgotten, whatever happens to its file,
\* until its tombstone is purged.
ForgottenStaysForgotten ==
  [][\A p \in Paths, h \in Headings :
       rows[p][h].life = "forgotten" => rows'[p][h].life \in {"forgotten", "purged"}]_vars

\* While the watcher is up, a path whose rows lag behind its file has an
\* event, a timer or an attempt to come that will see the file.
Synced(p) ==
  \/ disk[p] = Excluded
  \/ disk[p] = Missing /\ hash[p] = None
  \/ disk[p] = hash[p]

WillSee(p) ==
  \/ p \in notice
  \/ jobs[p].phase \in {"waiting", "reading"}
  \/ Running(p) /\ (~jobs[p].fresh \/ jobs[p].content = disk[p])

LagIsNoticed == mode = "up" => \A p \in Paths : Synced(p) \/ WillSee(p) \/ p \in excused

\* Once the files stop changing, the rows of every path are those of its
\* file, through failures of other paths, shutdowns and crashes, unless the
\* last attempt failed or the file vanished while nobody watched.
ChangesReachTheIndex == <>[](\A p \in Paths : Synced(p) \/ p \in excused)

\* README.md: a successful read is the complete desired set of a path, and
\* rows that are stale are deleted.
CompleteReadIsApplied == <>[](\A p \in Paths : Synced(p))
=============================================================================

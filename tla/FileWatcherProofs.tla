--------------------------- MODULE FileWatcherProofs ---------------------------
(***************************************************************************)
(* Theorems about FileWatcher, for every value of its constants.           *)
(***************************************************************************)
EXTENDS FileWatcher, TLAPS

(***************************************************************************)
(* The states of a path's work and what ends them.                         *)
(***************************************************************************)
LEMMA JobTypes ==
  /\ Idle \in Job /\ Waiting \in Job /\ Started \in Job
  /\ Idle.phase = "idle" /\ Waiting.phase = "waiting" /\ Started.phase = "reading"
  /\ Idle.fresh /\ Waiting.fresh /\ Started.fresh
BY DEF Idle, Waiting, Started, Job, Phases, Files

LEMMA JobEdits ==
  ASSUME NEW j \in Job
  PROVE  /\ j.phase \in Phases /\ j.fresh \in BOOLEAN /\ j.content \in Files
         /\ \A phase \in Phases : [j EXCEPT !.phase = phase] \in Job
         /\ [j EXCEPT !.fresh = FALSE] \in Job
         /\ \A phase \in Phases, f \in Files :
              /\ [j EXCEPT !.phase = phase, !.content = f] \in Job
              /\ [j EXCEPT !.phase = phase, !.seen = f] \in Job
BY DEF Job

\* A step of one path's job leaves the others alone.
LEMMA OneJob ==
  ASSUME TypeOK, NEW p \in Paths, NEW j \in Job, jobs' = [jobs EXCEPT ![p] = j]
  PROVE  /\ jobs' \in [Paths -> Job]
         /\ jobs'[p] = j
         /\ \A q \in Paths \ {p} : jobs'[q] = jobs[q]
BY DEF TypeOK

LEMMA JobOf ==
  ASSUME TypeOK, NEW p \in Paths
  PROVE  jobs[p] \in Job
BY DEF TypeOK

\* An attempt ends in rest or in another attempt.
LEMMA EndsSteps ==
  ASSUME TypeOK, NEW p \in Paths, Ends(p)
  PROVE  /\ jobs' \in [Paths -> Job]
         /\ jobs'[p] = IF jobs[p].fresh THEN Idle ELSE Started
         /\ \A q \in Paths \ {p} : jobs'[q] = jobs[q]
<1>1. PICK j \in Job : j = IF jobs[p].fresh THEN Idle ELSE Started
  BY JobTypes
<1>2. jobs' = [jobs EXCEPT ![p] = j]
  BY <1>1 DEF Ends
<1> QED
  BY <1>1, <1>2, OneJob

LEMMA MovesSteps ==
  ASSUME TypeOK, NEW p \in Paths, NEW phase \in Phases, Moves(p, phase)
  PROVE  /\ jobs' \in [Paths -> Job]
         /\ jobs'[p] = [jobs[p] EXCEPT !.phase = phase]
         /\ \A q \in Paths \ {p} : jobs'[q] = jobs[q]
<1>1. PICK j \in Job : j = [jobs[p] EXCEPT !.phase = phase]
  BY JobEdits, JobOf
<1>2. jobs' = [jobs EXCEPT ![p] = j]
  BY <1>1 DEF Moves
<1> QED
  BY <1>1, <1>2, OneJob

(***************************************************************************)
(* Rows.                                                                   *)
(***************************************************************************)
LEMMA RowTypes ==
  /\ NoRow \in Row
  /\ \A r \in Row, text \in Texts : Upserted(r, text) \in Row
<1>1. NoRow \in Row
  BY DEF NoRow, Row
<1>2. ASSUME NEW r \in Row, NEW text \in Texts
      PROVE  Upserted(r, text) \in Row
  BY DEF Upserted, Row
<1> QED
  BY <1>1, <1>2

LEMMA RowEdits ==
  ASSUME NEW r \in Row
  PROVE  /\ [r EXCEPT !.life = "forgotten"] \in Row
         /\ [NoRow EXCEPT !.life = "purged"] \in Row
         /\ [r EXCEPT !.past = TRUE, !.linked = TRUE] \in Row
         /\ [r EXCEPT !.linked = FALSE] \in Row
         /\ \A text \in Texts : [r EXCEPT !.text = text, !.edited = TRUE] \in Row
BY DEF Row, NoRow

LEMMA ReconciledType ==
  ASSUME TypeOK, NEW p \in Paths, NEW content \in Contents \cup {Missing}
  PROVE  Reconciled(p, content) \in [Headings -> Row]
<1>1. ASSUME NEW h \in Headings
      PROVE  Reconciled(p, content)[h] \in Row
  <2>1. rows[p][h] \in Row
    BY DEF TypeOK
  <2>2. Wants(content, h) => content[h] \in Texts
    BY ContentsAssumption DEF Wants
  <2> QED
    BY <2>1, <2>2, RowTypes DEF Reconciled
<1>2. Reconciled(p, content) = [h \in Headings |-> Reconciled(p, content)[h]]
  BY DEF Reconciled
<1> QED
  BY <1>1, <1>2

(***************************************************************************)
(* Type correctness.  A worker never holds the content of a file that is   *)
(* excluded, for it does not read one; else it could be stored.            *)
(***************************************************************************)
Typed == TypeOK /\ \A p \in Paths : jobs[p].content # Excluded

LEMMA InitTyped == Init => Typed
<1> SUFFICES ASSUME Init PROVE Typed
  OBVIOUS
<1>1. jobs \in [Paths -> Job] /\ \A p \in Paths : jobs[p].content # Excluded
  BY JobTypes, ValuesAssumption DEF Init, Idle
<1>2. rows \in [Paths -> [Headings -> Row]]
  BY RowTypes DEF Init
<1> QED
  BY <1>1, <1>2 DEF Init, Typed, TypeOK

\* What a step may do to the jobs without breaking their type.
LEMMA JobsTyped ==
  ASSUME Typed, NEW p \in Paths, NEW j \in Job, j.content # Excluded, jobs' = [jobs EXCEPT ![p] = j]
  PROVE  jobs' \in [Paths -> Job] /\ \A q \in Paths : jobs'[q].content # Excluded
BY OneJob DEF Typed

LEMMA EndsTyped ==
  ASSUME Typed, NEW p \in Paths, Ends(p)
  PROVE  jobs' \in [Paths -> Job] /\ \A q \in Paths : jobs'[q].content # Excluded
BY EndsSteps, ValuesAssumption DEF Typed, Idle, Started

LEMMA MovesTyped ==
  ASSUME Typed, NEW p \in Paths, NEW phase \in Phases, Moves(p, phase)
  PROVE  jobs' \in [Paths -> Job] /\ \A q \in Paths : jobs'[q].content # Excluded
<1>1. [jobs[p] EXCEPT !.phase = phase].content = jobs[p].content
  BY JobOf DEF Typed, Job
<1> QED
  BY <1>1, MovesSteps DEF Typed

LEMMA WorkTyped ==
  ASSUME Typed, NEW p \in Paths, Work(p) \/ Fail(p)
  PROVE  Typed'
<1> USE ValuesAssumption DEF Typed
<1> DEFINE JobsOK == jobs' \in [Paths -> Job] /\ \A q \in Paths : jobs'[q].content # Excluded
<1> SUFFICES JobsOK /\ TypeOK'
  OBVIOUS
<1>1. CASE Read(p)
  <2>1. JobsOK
    <3>1. CASE Ends(p)
      BY <3>1, EndsTyped
    <3>2. ASSUME NEW phase \in Phases, NEW f \in Contents \cup {Missing},
                 jobs' = [jobs EXCEPT ![p] = [@ EXCEPT !.phase = phase, !.content = f]]
          PROVE  JobsOK
      <4>1. PICK j \in Job : j = [jobs[p] EXCEPT !.phase = phase, !.content = f]
        BY JobEdits, JobOf DEF Files
      <4>2. j.content = f
        BY <4>1 DEF Job
      <4> QED
        BY <3>2, <4>1, <4>2, JobsTyped
    <3> QED
      BY <1>1, <3>1, <3>2 DEF Read, Phases
  <2> QED
    BY <1>1, <2>1 DEF Read, world, store, TypeOK
<1>2. CASE Lookup(p)
  <2>1. JobsOK
    BY <1>2, EndsTyped, MovesTyped DEF Lookup, Phases
  <2> QED
    BY <1>2, <2>1 DEF Lookup, world, store, TypeOK
<1>3. CASE Embed(p)
  <2>1. JobsOK
    BY <1>3, MovesTyped DEF Embed, Phases
  <2> QED
    BY <1>3, <2>1 DEF Embed, world, store, TypeOK
<1>4. CASE Recheck(p)
  <2>1. JobsOK
    <3>1. CASE Ends(p)
      BY <3>1, EndsTyped
    <3>2. CASE jobs' = [jobs EXCEPT ![p] = [@ EXCEPT !.phase = "decide", !.seen = disk[p]]]
      <4>1. PICK j \in Job : j = [jobs[p] EXCEPT !.phase = "decide", !.seen = disk[p]]
        BY JobEdits, JobOf DEF TypeOK, Phases
      <4>2. j.content = jobs[p].content
        BY <4>1 DEF Job
      <4> QED
        BY <3>2, <4>1, <4>2, JobsTyped
    <3> QED
      BY <1>4, <3>1, <3>2 DEF Recheck
  <2> QED
    BY <1>4, <2>1 DEF Recheck, world, store, TypeOK
<1>5. CASE Decide(p)
  <2>1. JobsOK
    <3>1. CASE Retry(p)
      BY <3>1, JobsTyped, JobTypes DEF Retry, Started, Idle
    <3> QED
      BY <1>5, <3>1, MovesTyped DEF Decide, Phases
  <2> QED
    BY <1>5, <2>1 DEF Decide, world, store, TypeOK
<1>6. CASE Commit(p)
  <2>1. JobsOK
    BY <1>6, EndsTyped DEF Commit, Errs
  <2>2. jobs[p].content \in Contents \cup {Missing}
    BY JobOf, JobEdits DEF Files
  <2>3. rows' \in [Paths -> [Headings -> Row]]
    <3>1. PICK f \in [Headings -> Row] : f = Reconciled(p, jobs[p].content)
      BY <2>2, ReconciledType
    <3>2. rows' = rows \/ rows' = [rows EXCEPT ![p] = f]
      BY <1>6, <3>1 DEF Commit, store
    <3> QED
      BY <3>2 DEF TypeOK
  <2>4. hash' \in [Paths -> Contents \cup {None}]
    BY <1>6, <2>2 DEF Commit, TypeOK, store, Stored
  <2>5. excused' \subseteq Paths
    BY <1>6 DEF Commit, Errs, TypeOK
  <2> QED
    BY <1>6, <2>1, <2>3, <2>4, <2>5 DEF Commit, world, TypeOK
<1>7. CASE Fail(p)
  <2>1. JobsOK
    BY <1>7, EndsTyped DEF Fail, Errs
  <2>2. excused' \subseteq Paths
    BY <1>7 DEF Fail, Errs, TypeOK
  <2>3. failures' \in Nat
    BY <1>7 DEF Fail, TypeOK
  <2>4. UNCHANGED <<world, store>>
    BY <1>7 DEF Fail
  <2> QED
    BY <2>1, <2>2, <2>3, <2>4 DEF world, store, TypeOK
<1> QED
  BY <1>1, <1>2, <1>3, <1>4, <1>5, <1>6, <1>7 DEF Work

LEMMA EventsTyped ==
  ASSUME Typed, NEW p \in Paths, Notify(p) \/ Debounce(p) \/ \E file \in Files : Change(p, file)
  PROVE  Typed'
<1> USE ValuesAssumption DEF Typed
<1>1. CASE \E file \in Files : Change(p, file)
  BY <1>1 DEF Change, store, TypeOK
<1>2. CASE Notify(p)
  <2>1. CASE mode = "up"
    <3>1. PICK j \in Job : j = Enqueued(jobs[p]) /\ j.content # Excluded
      <4>1. Enqueued(jobs[p]) \in Job
        BY JobOf, JobTypes, JobEdits DEF Enqueued
      <4>2. Enqueued(jobs[p]).content # Excluded
        BY JobOf DEF Enqueued, Waiting, Idle, Job
      <4> QED
        BY <4>1, <4>2
    <3>2. jobs' \in [Paths -> Job] /\ \A q \in Paths : jobs'[q].content # Excluded
      BY <1>2, <2>1, <3>1, JobsTyped DEF Notify
    <3> QED
      BY <1>2, <2>1, <3>2 DEF Notify, store, TypeOK
  <2>2. CASE mode # "up"
    BY <1>2, <2>2 DEF Notify, store, TypeOK
  <2> QED
    BY <2>1, <2>2
<1>3. CASE Debounce(p)
  <2>1. jobs' \in [Paths -> Job] /\ \A q \in Paths : jobs'[q].content # Excluded
    BY <1>3, JobsTyped, JobTypes DEF Debounce, Started, Idle
  <2> QED
    BY <1>3, <2>1 DEF Debounce, store, TypeOK
<1> QED
  BY <1>1, <1>2, <1>3

LEMMA OthersTyped ==
  ASSUME Typed, NEW p \in Paths, NEW h \in Headings, Others(p, h)
  PROVE  Typed'
<1>1. rows[p][h] \in Row
  BY DEF Typed, TypeOK
<1>2. PICK r \in Row : Rewrites(p, h, r)
  BY <1>1, RowEdits DEF Others, Forget, Purge, Supersede, Unlink, Edit
<1>3. rows' \in [Paths -> [Headings -> Row]]
  BY <1>2 DEF Rewrites, Typed, TypeOK
<1> QED
  BY <1>3 DEF Others, world, Typed, TypeOK

LEMMA ProcessTyped ==
  ASSUME Typed, Shutdown \/ Flush \/ Drained \/ DrainTimeout \/ Crash \/ Restart
  PROVE  Typed'
<1> USE JobTypes, ValuesAssumption DEF Typed
<1>1. CASE Shutdown
  BY <1>1 DEF Shutdown, store, TypeOK
<1>2. CASE Flush
  <2>1. jobs' \in [Paths -> Job] /\ \A q \in Paths : jobs'[q].content # Excluded
    BY <1>2 DEF Flush, TypeOK, Started, Idle
  <2> QED
    BY <1>2, <2>1 DEF Flush, store, TypeOK
<1>3. CASE Dies
  <2>1. jobs' \in [Paths -> Job] /\ \A q \in Paths : jobs'[q].content # Excluded
    BY <1>3 DEF Dies, Idle
  <2>2. notice' \subseteq Paths /\ excused' \subseteq Paths /\ mode' = "down"
    BY <1>3 DEF Dies, TypeOK
  <2>3. UNCHANGED <<disk, rows, hash, changes, failures>> /\ stops' \in Nat => TypeOK'
    BY <2>1, <2>2 DEF TypeOK
  <2>4. CASE Drained \/ DrainTimeout
    BY <2>1, <2>3, <2>4 DEF Drained, DrainTimeout, store, TypeOK
  <2>5. CASE Crash
    BY <2>1, <2>3, <2>5 DEF Crash, store, TypeOK
  <2>6. CASE Shutdown \/ Flush \/ Restart
    BY <1>3, <2>6 DEF Dies, Shutdown, Flush, Restart
  <2> QED
    BY <2>4, <2>5, <2>6
<1>4. CASE Restart
  BY <1>4 DEF Restart, store, TypeOK
<1> QED
  BY <1>1, <1>2, <1>3, <1>4 DEF Drained, DrainTimeout, Crash

LEMMA NextTyped == Typed /\ [Next]_vars => Typed'
<1> SUFFICES ASSUME Typed, [Next]_vars PROVE Typed'
  OBVIOUS
<1>1. CASE UNCHANGED vars
  BY <1>1 DEF vars, Typed, TypeOK
<1>2. CASE Next
  BY <1>2, EventsTyped, WorkTyped, OthersTyped, ProcessTyped DEF Next
<1> QED
  BY <1>1, <1>2

\* In every reachable state the watcher's queue, its workers and the rows
\* they own are well typed; a sync state is never that of a file that is
\* missing or excluded.
THEOREM TypeCorrect == Spec => []TypeOK
<1>1. Typed => TypeOK
  BY DEF Typed
<1> QED
  BY <1>1, InitTyped, NextTyped, PTL DEF Spec

(***************************************************************************)
(* The rows and the fingerprint.  What was never written is empty, which   *)
(* makes the agreement of the two inductive.                               *)
(***************************************************************************)
EmptyIfAbsent(r) == r.life = "none" => r.text = None /\ ~r.linked

AbsentIsEmpty == \A p \in Paths, h \in Headings : EmptyIfAbsent(rows[p][h])

RowsAgree == FingerprintMatchesRows /\ AbsentIsEmpty

\* One heading of one path after a commit of content.
LEMMA ReconciledAgrees ==
  ASSUME Typed, RowsAgree, NEW p \in Paths, NEW h \in Headings,
         NEW content \in Contents \cup {Missing}
  PROVE  LET r == Reconciled(p, content)[h]
             f == Stored(content)
         IN  /\ Untouched(r) => r.text = IF f = None THEN None ELSE f[h]
             /\ EmptyIfAbsent(r)
<1> DEFINE r == Reconciled(p, content)[h]
           f == Stored(content)
<1>1. rows[p][h] \in Row
  BY DEF Typed, TypeOK
<1>2. Stored(content) = None <=> content = Missing
  BY ValuesAssumption DEF Stored
<1>3. CASE Wants(content, h)
  <2>1. r = Upserted(rows[p][h], content[h])
    BY <1>3 DEF Reconciled
  <2>2. f # None /\ f[h] = content[h]
    BY <1>2, <1>3 DEF Wants, Stored
  <2>3. CASE Writable(rows[p][h])
    <3>1. r.life = "live" /\ r.text = content[h]
      BY <1>1, <2>1, <2>3 DEF Upserted, Row
    <3> QED
      BY <2>2, <3>1 DEF EmptyIfAbsent
  <2>4. CASE ~Writable(rows[p][h])
    <3>1. r = rows[p][h]
      BY <2>1, <2>4 DEF Upserted
    <3>2. ~Untouched(r)
      BY <1>1, <2>4, <3>1 DEF Writable, Untouched, Row
    <3>3. EmptyIfAbsent(r)
      BY <3>1 DEF RowsAgree, AbsentIsEmpty
    <3> QED
      BY <3>2, <3>3
  <2> QED
    BY <2>3, <2>4
<1>4. CASE ~Wants(content, h)
  <2>1. f = None \/ f[h] = None
    BY <1>2, <1>4 DEF Wants, Stored
  <2>2. CASE rows[p][h].life = "live"
    <3>1. r = NoRow
      BY <1>4, <2>2 DEF Reconciled, Stale
    <3> QED
      BY <2>1, <3>1 DEF NoRow, EmptyIfAbsent
  <2>3. CASE rows[p][h].life # "live"
    <3>1. r = rows[p][h]
      BY <1>4, <2>3 DEF Reconciled, Stale
    <3> QED
      BY <2>1, <2>3, <3>1 DEF Untouched, RowsAgree, AbsentIsEmpty, EmptyIfAbsent
  <2> QED
    BY <2>2, <2>3
<1> QED
  BY <1>3, <1>4

LEMMA CommitAgrees ==
  ASSUME Typed, RowsAgree, NEW p \in Paths, Commit(p)
  PROVE  RowsAgree'
<1>1. CASE UNCHANGED store
  BY <1>1 DEF store, RowsAgree, FingerprintMatchesRows, AbsentIsEmpty
<1>2. CASE ~UNCHANGED store
  <2>1. jobs[p].content \in Contents \cup {Missing}
    BY JobOf, JobEdits DEF Typed, Files
  <2>2. PICK c \in Contents \cup {Missing} : c = jobs[p].content
    BY <2>1
  <2>3. rows' = [rows EXCEPT ![p] = Reconciled(p, c)] /\ hash' = [hash EXCEPT ![p] = Stored(c)]
    BY <1>2, <2>2 DEF Commit
  <2>4. rows'[p] = Reconciled(p, c) /\ hash'[p] = Stored(c)
    BY <2>3 DEF Typed, TypeOK
  <2>5. \A q \in Paths \ {p} : rows'[q] = rows[q] /\ hash'[q] = hash[q]
    BY <2>3 DEF Typed, TypeOK
  <2>6. ASSUME NEW h \in Headings
        PROVE  /\ Untouched(rows'[p][h]) =>
                    rows'[p][h].text = IF hash'[p] = None THEN None ELSE hash'[p][h]
               /\ EmptyIfAbsent(rows'[p][h])
    BY <2>4, ReconciledAgrees
  <2> QED
    BY <2>5, <2>6 DEF RowsAgree, FingerprintMatchesRows, AbsentIsEmpty, EmptyIfAbsent, Untouched
<1> QED
  BY <1>1, <1>2

\* A change made by another writer marks the row, or leaves its content.
LEMMA OthersAgree ==
  ASSUME Typed, RowsAgree, NEW p \in Paths, NEW h \in Headings, Others(p, h)
  PROVE  RowsAgree'
<1>1. rows[p][h] \in Row
  BY DEF Typed, TypeOK
<1>2. PICK r \in Row :
        /\ Rewrites(p, h, r)
        /\ Untouched(r) => Untouched(rows[p][h]) /\ r.text = rows[p][h].text
        /\ r.life # "none"
  <2>1. CASE Forget(p, h)
    <3> DEFINE r == [rows[p][h] EXCEPT !.life = "forgotten"]
    <3>1. r \in Row /\ r.life = "forgotten"
      BY <1>1 DEF Row
    <3> QED
      BY <2>1, <3>1 DEF Forget, Untouched
  <2>2. CASE Purge(p, h)
    <3> DEFINE r == [NoRow EXCEPT !.life = "purged"]
    <3>1. r \in Row /\ r.life = "purged"
      BY DEF Row, NoRow
    <3> QED
      BY <2>2, <3>1 DEF Purge, Untouched
  <2>3. CASE Supersede(p, h)
    <3> DEFINE r == [rows[p][h] EXCEPT !.past = TRUE, !.linked = TRUE]
    <3>1. r \in Row /\ r.past /\ r.life = rows[p][h].life
      BY <1>1 DEF Row
    <3> QED
      BY <2>3, <3>1 DEF Supersede, Untouched
  <2>4. CASE Unlink(p, h)
    <3> DEFINE r == [rows[p][h] EXCEPT !.linked = FALSE]
    <3>1. /\ r \in Row /\ r.past = rows[p][h].past /\ r.life = rows[p][h].life
          /\ r.edited = rows[p][h].edited /\ r.text = rows[p][h].text
      BY <1>1 DEF Row
    <3>2. rows[p][h].life # "none"
      BY <2>4 DEF Unlink, RowsAgree, AbsentIsEmpty, EmptyIfAbsent
    <3> QED
      BY <2>4, <3>1, <3>2 DEF Unlink, Untouched
  <2>5. CASE \E text \in Texts : Edit(p, h, text)
    <3>1. PICK text \in Texts : Edit(p, h, text)
      BY <2>5
    <3> DEFINE r == [rows[p][h] EXCEPT !.text = text, !.edited = TRUE]
    <3>2. r \in Row /\ r.edited /\ r.life = rows[p][h].life
      BY <1>1 DEF Row
    <3> QED
      BY <3>1, <3>2 DEF Edit, Untouched
  <2> QED
    BY <2>1, <2>2, <2>3, <2>4, <2>5 DEF Others
<1>3. /\ rows'[p][h] = r
      /\ \A q \in Paths, g \in Headings : q # p \/ g # h => rows'[q][g] = rows[q][g]
  BY <1>2 DEF Rewrites, Typed, TypeOK
<1>4. hash' = hash
  BY DEF Others
<1>5. ASSUME NEW q \in Paths, NEW g \in Headings
      PROVE  /\ Untouched(rows'[q][g]) =>
                  rows'[q][g].text = IF hash'[q] = None THEN None ELSE hash'[q][g]
             /\ EmptyIfAbsent(rows'[q][g])
  <2>1. CASE q = p /\ g = h
    BY <1>2, <1>3, <1>4, <2>1 DEF RowsAgree, FingerprintMatchesRows, EmptyIfAbsent
  <2>2. CASE ~(q = p /\ g = h)
    BY <1>3, <1>4, <2>2 DEF RowsAgree, FingerprintMatchesRows, AbsentIsEmpty
  <2> QED
    BY <2>1, <2>2
<1> QED
  BY <1>5 DEF RowsAgree, FingerprintMatchesRows, AbsentIsEmpty, EmptyIfAbsent, Untouched

\* Everything else leaves the rows and the fingerprints alone.
LEMMA StoreKept ==
  ASSUME [Next]_vars
  PROVE  \/ UNCHANGED store
         \/ \E p \in Paths : Commit(p)
         \/ \E p \in Paths, h \in Headings : Others(p, h)
BY DEF Next, vars, store, Change, Notify, Debounce, Work, Read, Lookup, Embed, Recheck, Decide,
       Fail, Shutdown, Flush, Drained, DrainTimeout, Crash, Restart

LEMMA InitAgrees == Init => RowsAgree
BY DEF Init, RowsAgree, FingerprintMatchesRows, AbsentIsEmpty, EmptyIfAbsent, NoRow

LEMMA NextAgrees == Typed /\ RowsAgree /\ [Next]_vars => RowsAgree'
<1> SUFFICES ASSUME Typed, RowsAgree, [Next]_vars PROVE RowsAgree'
  OBVIOUS
<1>1. CASE UNCHANGED store
  BY <1>1 DEF store, RowsAgree, FingerprintMatchesRows, AbsentIsEmpty
<1> QED
  BY <1>1, StoreKept, CommitAgrees, OthersAgree

\* Whatever interleaving of changes, workers, other writers, failures and
\* crashes, the rows that nobody else touched are those of the content whose
\* fingerprint is stored: reconciliation is never half done.
THEOREM RowsMatchFingerprint == Spec => []FingerprintMatchesRows
<1>1. RowsAgree => FingerprintMatchesRows
  BY DEF RowsAgree
<1> QED
  BY <1>1, InitTyped, NextTyped, InitAgrees, NextAgrees, PTL DEF Spec

(***************************************************************************)
(* What was forgotten.                                                     *)
(***************************************************************************)
LEMMA NextKeepsForgotten ==
  ASSUME Typed, [Next]_vars, NEW p \in Paths, NEW h \in Headings, rows[p][h].life = "forgotten"
  PROVE  rows'[p][h].life \in {"forgotten", "purged"}
<1>1. CASE UNCHANGED store
  BY <1>1 DEF store
<1>2. ASSUME NEW q \in Paths, Commit(q)
      PROVE  rows'[p][h].life = "forgotten"
  <2>1. CASE q = p /\ rows' = [rows EXCEPT ![q] = Reconciled(q, jobs[q].content)]
    <3>1. rows'[p][h] = Reconciled(p, jobs[p].content)[h]
      BY <2>1 DEF Typed, TypeOK
    <3>2. Reconciled(p, jobs[p].content)[h] = rows[p][h]
      BY DEF Reconciled, Upserted, Writable, Stale
    <3> QED
      BY <3>1, <3>2
  <2>2. CASE q # p \/ UNCHANGED store
    BY <1>2, <2>2 DEF Commit, Typed, TypeOK, store
  <2> QED
    BY <1>2, <2>1, <2>2 DEF Commit
<1>3. ASSUME NEW q \in Paths, NEW g \in Headings, Others(q, g)
      PROVE  rows'[p][h].life \in {"forgotten", "purged"}
  <2>1. rows[p][h] \in Row
    BY DEF Typed, TypeOK
  <2>2. PICK r \in Row :
          Rewrites(q, g, r) /\ (rows[q][g].life = "forgotten" => r.life \in {"forgotten", "purged"})
    <3>1. rows[q][g] \in Row
      BY DEF Typed, TypeOK
    <3>2. CASE Purge(q, g)
      <4> DEFINE r == [NoRow EXCEPT !.life = "purged"]
      <4>1. r \in Row /\ r.life = "purged"
        BY DEF Row, NoRow
      <4> QED
        BY <3>2, <4>1 DEF Purge
    <3>3. CASE Unlink(q, g)
      <4> DEFINE r == [rows[q][g] EXCEPT !.linked = FALSE]
      <4>1. r \in Row /\ r.life = rows[q][g].life
        BY <3>1 DEF Row
      <4> QED
        BY <3>3, <4>1 DEF Unlink
    <3>4. CASE Forget(q, g) \/ Supersede(q, g) \/ \E text \in Texts : Edit(q, g, text)
      <4>1. rows[q][g].life = "live"
        BY <3>4 DEF Forget, Supersede, Edit
      <4>2. \E r \in Row : Rewrites(q, g, r)
        BY <3>1, <3>4, RowEdits DEF Forget, Supersede, Edit
      <4> QED
        BY <4>1, <4>2
    <3> QED
      BY <1>3, <3>2, <3>3, <3>4 DEF Others
  <2> QED
    BY <2>2 DEF Rewrites, Typed, TypeOK
<1> QED
  BY <1>1, <1>2, <1>3, StoreKept

\* No later content of its file, no retry and no restart brings a chunk back
\* that was forgotten by hand.
THEOREM ForgottenStays == Spec => ForgottenStaysForgotten
<1>1. Typed /\ [Next]_vars =>
        [\A p \in Paths, h \in Headings :
           rows[p][h].life = "forgotten" => rows'[p][h].life \in {"forgotten", "purged"}]_vars
  BY NextKeepsForgotten
<1> QED
  BY <1>1, InitTyped, NextTyped, PTL DEF Spec, ForgottenStaysForgotten

(***************************************************************************)
(* No lag goes unnoticed.  A worker sees the file as it is, or is going to *)
(* be told; a path at rest is in step with its file, or has an event or a  *)
(* timer to come.  While the process is down, nothing is pending, and only *)
(* the files that exist are found again.                                   *)
(***************************************************************************)
SeesFile(p) ==
  \/ p \in notice
  \/ jobs[p].phase = "reading"
  \/ ~jobs[p].fresh
  \/ jobs[p].content = disk[p]

RestsKnown(p) ==
  \/ p \in notice
  \/ jobs[p].phase = "waiting"
  \/ Synced(p)
  \/ p \in excused

Known(p) == IF Running(p) THEN SeesFile(p) ELSE RestsKnown(p)

FoundAtStart(p) ==
  /\ jobs[p].phase = "idle"
  /\ disk[p] = Missing => Synced(p) \/ p \in excused

LagInv ==
  /\ mode = "up" => \A p \in Paths : Known(p)
  /\ mode = "down" => \A p \in Paths : FoundAtStart(p)

\* What a step leaves alone it leaves known.
Undisturbed(q) ==
  /\ jobs'[q] = jobs[q] /\ disk'[q] = disk[q] /\ hash'[q] = hash[q]
  /\ q \in notice => q \in notice'
  /\ q \in excused => q \in excused'

LEMMA UndisturbedKnown ==
  ASSUME NEW q \in Paths, Undisturbed(q)
  PROVE  /\ Known(q) => Known(q)'
         /\ FoundAtStart(q) => FoundAtStart(q)'
BY DEF Undisturbed, Known, Running, SeesFile, RestsKnown, Synced, FoundAtStart

\* An attempt ends in step with the file, excused, or to begin again.
LEMMA EndsKnown ==
  ASSUME Typed, NEW p \in Paths, Ends(p),
         jobs[p].fresh => p \in notice' \/ Synced(p)' \/ p \in excused'
  PROVE  Known(p)'
<1>1. jobs'[p] = IF jobs[p].fresh THEN Idle ELSE Started
  BY EndsSteps DEF Typed
<1>2. CASE jobs[p].fresh
  BY <1>1, <1>2, JobTypes DEF Known, Running, RestsKnown
<1>3. CASE ~jobs[p].fresh
  BY <1>1, <1>3, JobTypes DEF Known, Running, SeesFile
<1> QED
  BY <1>2, <1>3

LEMMA MovesKnown ==
  ASSUME Typed, NEW p \in Paths, NEW phase \in Phases \ {"idle", "waiting"}, Moves(p, phase),
         SeesFile(p), jobs[p].phase # "reading", UNCHANGED world
  PROVE  Known(p)'
<1>1. /\ jobs'[p].phase = phase
      /\ jobs'[p].fresh = jobs[p].fresh
      /\ jobs'[p].content = jobs[p].content
  <2>1. jobs'[p] = [jobs[p] EXCEPT !.phase = phase]
    BY MovesSteps DEF Typed
  <2>2. jobs[p] \in Job
    BY JobOf DEF Typed
  <2> QED
    BY <2>1, <2>2 DEF Job
<1> QED
  BY <1>1 DEF Known, Running, SeesFile, world

LEMMA WorkKnown ==
  ASSUME Typed, NEW p \in Paths, Known(p), Work(p) \/ Fail(p)
  PROVE  Known(p)'
<1>1. Running(p) /\ SeesFile(p)
  BY DEF Work, Fail, Read, Lookup, Embed, Recheck, Decide, Commit, Known, Running
<1>2. UNCHANGED world
  BY DEF Work, Fail, Read, Lookup, Embed, Recheck, Decide, Commit
<1>3. jobs[p] \in Job /\ disk[p] \in Files /\ jobs[p].fresh \in BOOLEAN
  BY JobOf, JobEdits DEF Typed, TypeOK
<1>4. CASE Read(p)
  <2>1. CASE disk[p] = Excluded /\ Ends(p)
    BY <1>2, <2>1, EndsKnown DEF Synced, world
  <2>2. ASSUME NEW phase \in Phases \ {"idle", "waiting"},
               jobs' = [jobs EXCEPT ![p] = [@ EXCEPT !.phase = phase, !.content = disk[p]]]
        PROVE  Known(p)'
    <3>1. jobs'[p] = [jobs[p] EXCEPT !.phase = phase, !.content = disk[p]]
      BY <2>2 DEF Typed, TypeOK
    <3>2. jobs'[p].phase = phase /\ jobs'[p].content = disk[p]
      BY <1>3, <3>1 DEF Job
    <3> QED
      BY <1>2, <3>2 DEF Known, Running, SeesFile, world
  <2> QED
    BY <1>4, <2>1, <2>2 DEF Read, Phases
<1>5. CASE Lookup(p)
  <2>1. CASE hash[p] = jobs[p].content /\ Ends(p)
    <3>1. jobs[p].fresh => p \in notice' \/ Synced(p)'
      BY <1>1, <1>2, <1>5, <2>1 DEF SeesFile, Synced, Lookup, world, store
    <3> QED
      BY <2>1, <3>1, EndsKnown
  <2>2. CASE Moves(p, "embed")
    BY <1>1, <1>2, <1>5, <2>2, MovesKnown DEF Lookup, Phases
  <2> QED
    BY <1>5, <2>1, <2>2 DEF Lookup
<1>6. CASE Embed(p)
  BY <1>1, <1>2, <1>6, MovesKnown DEF Embed, Phases
<1>7. CASE Recheck(p)
  <2>1. CASE ~jobs[p].fresh /\ Ends(p)
    BY <2>1, EndsKnown
  <2>2. CASE jobs' = [jobs EXCEPT ![p] = [@ EXCEPT !.phase = "decide", !.seen = disk[p]]]
    <3>1. jobs'[p] = [jobs[p] EXCEPT !.phase = "decide", !.seen = disk[p]]
      BY <2>2 DEF Typed, TypeOK
    <3>2. /\ jobs'[p].phase = "decide"
          /\ jobs'[p].fresh = jobs[p].fresh /\ jobs'[p].content = jobs[p].content
      BY <1>3, <3>1 DEF Job
    <3> QED
      BY <1>1, <1>2, <1>7, <3>2 DEF Recheck, Known, Running, SeesFile, world
  <2> QED
    BY <1>7, <2>1, <2>2 DEF Recheck
<1>8. CASE Decide(p)
  <2>1. CASE Retry(p)
    <3>1. jobs'[p] = Started
      BY <2>1 DEF Retry, Typed, TypeOK
    <3> QED
      BY <3>1, JobTypes DEF Known, Running, SeesFile
  <2>2. CASE Moves(p, "commit")
    BY <1>1, <1>2, <1>8, <2>2, MovesKnown DEF Decide, Phases
  <2> QED
    BY <1>8, <2>1, <2>2 DEF Decide
<1>9. CASE Commit(p)
  <2>1. CASE Errs(p)
    BY <2>1, EndsKnown DEF Errs
  <2>2. CASE hash' = [hash EXCEPT ![p] = Stored(jobs[p].content)] /\ Ends(p)
    <3>1. hash'[p] = Stored(jobs[p].content)
      BY <2>2 DEF Typed, TypeOK
    <3>2. jobs[p].fresh => p \in notice' \/ Synced(p)'
      BY <1>1, <1>2, <1>9, <3>1 DEF SeesFile, Synced, Stored, Commit, world
    <3> QED
      BY <2>2, <3>2, EndsKnown
  <2> QED
    BY <1>9, <2>1, <2>2 DEF Commit
<1>10. CASE Fail(p)
  BY <1>10, EndsKnown DEF Fail, Errs
<1> QED
  BY <1>4, <1>5, <1>6, <1>7, <1>8, <1>9, <1>10 DEF Work

\* The work of one path disturbs no other.
LEMMA WorkIsLocal ==
  ASSUME Typed, NEW p \in Paths, Work(p) \/ Fail(p), NEW q \in Paths \ {p}
  PROVE  Undisturbed(q)
<1>1. UNCHANGED world
  BY DEF Work, Fail, Read, Lookup, Embed, Recheck, Decide, Commit
<1>2. jobs'[q] = jobs[q]
  BY DEF Work, Fail, Read, Lookup, Embed, Recheck, Decide, Commit, Errs, Ends, Moves, Retry, Typed,
         TypeOK
<1>3. hash'[q] = hash[q] /\ (q \in excused => q \in excused')
  BY DEF Work, Fail, Read, Lookup, Embed, Recheck, Decide, Commit, Errs, store, Typed, TypeOK
<1> QED
  BY <1>1, <1>2, <1>3 DEF Undisturbed, world

LEMMA WorkKeepsLag ==
  ASSUME Typed, LagInv, NEW p \in Paths, Work(p) \/ Fail(p)
  PROVE  LagInv'
<1>1. mode' = mode
  BY DEF Work, Fail, Read, Lookup, Embed, Recheck, Decide, Commit, world
<1>2. mode # "down"
  BY DEF Work, Fail, Read, Lookup, Embed, Recheck, Decide, Commit, LagInv, FoundAtStart
<1>3. ASSUME mode = "up", NEW q \in Paths
      PROVE  Known(q)'
  BY <1>3, WorkKnown, WorkIsLocal, UndisturbedKnown DEF LagInv
<1> QED
  BY <1>1, <1>2, <1>3 DEF LagInv

LEMMA EventsKeepLag ==
  ASSUME Typed, LagInv, NEW p \in Paths, Notify(p) \/ Debounce(p) \/ \E file \in Files : Change(p, file)
  PROVE  LagInv'
<1>1. mode' = mode
  BY DEF Notify, Debounce, Change
<1>2. ASSUME NEW q \in Paths \ {p}
      PROVE  Undisturbed(q)
  BY DEF Notify, Debounce, Change, store, Undisturbed, Typed, TypeOK
<1>3. CASE \E file \in Files : Change(p, file)
  <2>1. PICK file \in Files : Change(p, file)
    BY <1>3
  <2>2. disk'[p] = file
    BY <2>1 DEF Change, Typed, TypeOK
  <2>3. mode = "up" => Known(p)'
    BY <2>1 DEF Change, Known, SeesFile, RestsKnown
  <2>4. mode = "down" => FoundAtStart(p)'
    BY <2>1, <2>2 DEF Change, FoundAtStart, LagInv
  <2> QED
    BY <1>1, <1>2, <2>3, <2>4, UndisturbedKnown DEF LagInv
<1>4. CASE Notify(p)
  <2>1. CASE mode = "up"
    <3>1. jobs'[p] = Enqueued(jobs[p])
      BY <1>4, <2>1 DEF Notify, Typed, TypeOK
    <3>2. jobs'[p].phase = "waiting" \/ ~jobs'[p].fresh
      BY <3>1, JobOf, JobTypes DEF Enqueued, Typed, Job
    <3>3. Known(p)'
      BY <3>1, <3>2, JobOf, JobTypes DEF Enqueued, Known, Running, SeesFile, RestsKnown, Typed, Job
    <3> QED
      BY <1>1, <1>2, <2>1, <3>3, UndisturbedKnown DEF LagInv
  <2>2. CASE mode # "up"
    BY <1>1, <1>4, <2>2 DEF Notify, LagInv
  <2> QED
    BY <2>1, <2>2
<1>5. CASE Debounce(p)
  <2>1. jobs'[p] = Started
    BY <1>5 DEF Debounce, Typed, TypeOK
  <2>2. Known(p)'
    BY <2>1, JobTypes DEF Known, Running, SeesFile
  <2> QED
    BY <1>1, <1>2, <1>5, <2>2, UndisturbedKnown DEF Debounce, LagInv
<1> QED
  BY <1>3, <1>4, <1>5

LEMMA ProcessKeepsLag ==
  ASSUME Typed, LagInv, Shutdown \/ Flush \/ Drained \/ DrainTimeout \/ Crash \/ Restart
  PROVE  LagInv'
<1>1. CASE Shutdown \/ Flush
  BY <1>1 DEF Shutdown, Flush, LagInv
<1>2. CASE Drained \/ DrainTimeout \/ Crash
  <2>1. mode' = "down"
    BY <1>2 DEF Drained, DrainTimeout, Crash, Dies
  <2>2. ASSUME NEW p \in Paths
        PROVE  FoundAtStart(p)'
    BY <1>2, JobTypes DEF Drained, DrainTimeout, Crash, Dies, FoundAtStart
  <2> QED
    BY <2>1, <2>2 DEF LagInv
<1>3. CASE Restart
  <2>1. ASSUME NEW p \in Paths
        PROVE  Known(p)'
    BY <1>3 DEF Restart, LagInv, FoundAtStart, Known, Running, RestsKnown, Synced, store
  <2> QED
    BY <1>3, <2>1 DEF Restart, LagInv
<1> QED
  BY <1>1, <1>2, <1>3

LEMMA InitLag == Init => LagInv
<1> SUFFICES ASSUME Init PROVE LagInv
  OBVIOUS
<1>1. ASSUME NEW p \in Paths
      PROVE  Known(p)
  BY JobTypes DEF Init, Known, Running, RestsKnown, Synced
<1> QED
  BY <1>1 DEF Init, LagInv

LEMMA NextKeepsLag == Typed /\ LagInv /\ [Next]_vars => LagInv'
<1> SUFFICES ASSUME Typed, LagInv, [Next]_vars PROVE LagInv'
  OBVIOUS
<1>1. CASE UNCHANGED <<disk, notice, mode, jobs, hash, excused>>
  <2>1. \A p \in Paths : Undisturbed(p)
    BY <1>1 DEF Undisturbed
  <2> QED
    BY <1>1, <2>1, UndisturbedKnown DEF LagInv
<1>2. CASE UNCHANGED vars
  BY <1>1, <1>2 DEF vars
<1>3. CASE \E p \in Paths, h \in Headings : Others(p, h)
  BY <1>1, <1>3 DEF Others, world
<1>4. CASE Next
  BY <1>3, <1>4, WorkKeepsLag, EventsKeepLag, ProcessKeepsLag DEF Next
<1> QED
  BY <1>2, <1>4

\* While the watcher is up, no path's rows lag behind its file with nobody
\* about to look: no order of events, attempts and commits loses a change.
THEOREM LagNoticed == Spec => []LagIsNoticed
<1>1. Typed /\ LagInv => LagIsNoticed
  BY DEF Typed, LagInv, LagIsNoticed, WillSee, Known, SeesFile, RestsKnown
<1> QED
  BY <1>1, InitTyped, NextTyped, InitLag, NextKeepsLag, PTL DEF Spec
=============================================================================

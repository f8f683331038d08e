---------------------------- MODULE SourceConnector ----------------------------
(***************************************************************************)
(* The paged connector of browser history.  A run takes the lock of its    *)
(* source, reads the cursor, fetches one page outside any transaction and  *)
(* commits the page's events with the new cursor, page after page.         *)
(*                                                                         *)
(* A visit is its position in the order (time, id) in which the helper     *)
(* lists the profile.  Visits of private hosts are read and not stored.    *)
(***************************************************************************)
EXTENDS Integers, FiniteSets, FiniteSetsExt

CONSTANTS
  LastVisit,      \* bound of the model: positions in the profile
  Private,        \* visits that sanitizeBrowserUrl rejects
  Syncs,          \* processes of the sync command
  NoSync,
  PageSize,
  MaxPages,       \* maxPagesPerSource
  MaxTries,       \* attempts of retryConnectorOperation
  MaxLate,        \* bound of the model: visits that arrive out of order
  MaxTroubles     \* bound of the model: failed fetches, crashes and cancellations

VARIABLES
  profile,    \* visits in the browser's database
  late,       \* history: visits that arrived below a later one
  activity,   \* activity_events: visits stored
  cursor,     \* connector_sync_state: 0 when there is no row
  session,    \* the holder of the advisory lock of the source
  syncs,      \* what each process is doing
  troubles    \* failures so far

cvars == <<profile, late, activity, cursor, session, syncs, troubles>>

Visits == 1..LastVisit
Cursors == 0..LastVisit

Sync == [stage : {"idle", "paging", "reading", "fetching", "fetched"}, dry : BOOLEAN,
         before : Cursors, page : SUBSET Visits, pages : 0..MaxPages, tries : 0..MaxTries]
AtRest == [stage |-> "idle", dry |-> FALSE, before |-> 0, page |-> {}, pages |-> 0, tries |-> 0]

Init ==
  /\ profile = {}
  /\ late = {}
  /\ activity = {}
  /\ cursor = 0
  /\ session = NoSync
  /\ syncs = [s \in Syncs |-> AtRest]
  /\ troubles = 0

\* A visit; one that another device or an import brings in may be older than the last.
Browse(v) ==
  /\ v \notin profile
  /\ profile' = profile \cup {v}
  /\ late' = IF \E u \in profile : u > v THEN late \cup {v} ELSE late
  /\ Cardinality(late') <= MaxLate
  /\ UNCHANGED <<activity, cursor, session, syncs, troubles>>

Begin(s, dry) ==
  /\ syncs[s].stage = "idle"
  /\ syncs' = [syncs EXCEPT ![s] = [AtRest EXCEPT !.stage = IF dry THEN "fetching" ELSE "paging",
                                                  !.dry = dry, !.before = IF dry THEN cursor ELSE 0]]
  /\ UNCHANGED <<profile, late, activity, cursor, session, troubles>>

SessionOpen == session = NoSync

Stop(s) == syncs' = [syncs EXCEPT ![s] = AtRest]

\* A busy source fails the run.
TakeSession(s) ==
  /\ syncs[s].stage = "paging"
  /\ IF SessionOpen
     THEN /\ session' = s
          /\ syncs' = [syncs EXCEPT ![s].stage = "reading"]
     ELSE Stop(s) /\ UNCHANGED session
  /\ UNCHANGED <<profile, late, activity, cursor, troubles>>

ReadCursor(s) ==
  /\ syncs[s].stage = "reading"
  /\ syncs' = [syncs EXCEPT
                   ![s] = [@ EXCEPT
                     !.stage = "fetching", !.before = cursor, !.tries = 0]]
  /\ UNCHANGED <<profile, late, activity, cursor, session, troubles>>

Beyond(c) == {v \in profile : v > c}

\* Faulty: the helper lists the newest visits of those it is asked for.
NewestPage(c) == {v \in Beyond(c) : Cardinality({u \in Beyond(c) : u > v}) < PageSize}

\* The first PageSize visits beyond the cursor.
Page(c) == {v \in Beyond(c) : Cardinality({u \in Beyond(c) : u < v}) < PageSize}

Fetch(s) ==
  /\ syncs[s].stage = "fetching"
  /\ syncs' = [syncs EXCEPT
                   ![s] = [syncs[s] EXCEPT
                     !.stage = "fetched", !.page = Page(syncs[s].before), !.tries = @ + 1]]
  /\ UNCHANGED <<profile, late, activity, cursor, session, troubles>>

Released(s) == session' = IF session = s THEN NoSync ELSE session

\* A transient error is retried while attempts remain; another one ends the run.
FetchFails(s, transient) ==
  /\ syncs[s].stage = "fetching"
  /\ troubles < MaxTroubles
  /\ troubles' = troubles + 1
  /\ IF transient /\ syncs[s].tries + 1 < MaxTries
     THEN syncs' = [syncs EXCEPT ![s].tries = @ + 1] /\ UNCHANGED session
     ELSE Stop(s) /\ Released(s)
  /\ UNCHANGED <<profile, late, activity, cursor>>

PageEnd(s) == IF syncs[s].page = {} THEN syncs[s].before ELSE Max(syncs[s].page)

Final(s) == Cardinality(syncs[s].page) < PageSize

\* The run ends with its last page, and at its page cap.
Continued(s) ==
  IF Final(s) \/ syncs[s].pages + 1 >= MaxPages THEN Stop(s)
  ELSE syncs' = [syncs EXCEPT ![s] = [AtRest EXCEPT
         !.stage = IF syncs[s].dry THEN "fetching" ELSE "paging", !.dry = syncs[s].dry,
         !.before = IF syncs[s].dry THEN PageEnd(s) ELSE 0, !.pages = syncs[s].pages + 1]]

\* The events of a page: what sanitizeBrowserUrl lets through.
Stored(page) == page \ Private

\* Somebody else has written the row since it was read, if there was a row.
Overtaken(s) == syncs[s].before # 0 /\ cursor # syncs[s].before

Upsert(visits) == activity' = activity \cup visits

AdvanceState(c) == cursor' = c

\* Events and cursor in one transaction, then the lock is released.
CommitPage(s) ==
  /\ syncs[s].stage = "fetched"
  /\ ~syncs[s].dry
  /\ IF Overtaken(s)
     THEN Stop(s) /\ UNCHANGED <<activity, cursor>>
     ELSE Upsert(Stored(syncs[s].page)) /\ AdvanceState(PageEnd(s)) /\ Continued(s)
  /\ Released(s)
  /\ UNCHANGED <<profile, late, troubles>>

SkipPage(s) ==
  /\ syncs[s].stage = "fetched"
  /\ syncs[s].dry
  /\ Continued(s)
  /\ UNCHANGED <<profile, late, activity, cursor, session, troubles>>

\* A crash, a cancellation or a failed commit: the page and the cursor are left as they were.
Abort(s) ==
  /\ syncs[s].stage # "idle"
  /\ troubles < MaxTroubles
  /\ troubles' = troubles + 1
  /\ Stop(s)
  /\ Released(s)
  /\ UNCHANGED <<profile, late, activity, cursor>>

Step(s) == TakeSession(s) \/ ReadCursor(s) \/ Fetch(s) \/ CommitPage(s) \/ SkipPage(s)

Next ==
  \/ \E v \in Visits : Browse(v)
  \/ \E s \in Syncs : Step(s) \/ Abort(s)
  \/ \E s \in Syncs, d \in BOOLEAN : Begin(s, d) \/ FetchFails(s, d)

\* The command is scheduled again and again, however many dry runs are made in between,
\* and a process at work goes on.
Fairness == \A s \in Syncs : SF_cvars(Begin(s, FALSE)) /\ WF_cvars(Step(s))

Spec == Init /\ [][Next]_cvars /\ Fairness

-------------------------------------------------------------------------------
TypeOK ==
  /\ profile \subseteq Visits /\ late \subseteq profile /\ activity \subseteq profile
  /\ cursor \in Cursors
  /\ session \in Syncs \cup {NoSync}
  /\ syncs \in [Syncs -> Sync]
  /\ troubles \in 0..MaxTroubles

\* Nothing is skipped: whatever runs overlap, fail or crash, every public visit up to the
\* cursor is stored, but for those that arrived late.
NothingSkipped ==
  \A v \in profile : v <= cursor => v \in activity \cup late \cup Private

\* Every public visit that arrives in order is stored in the end, page cap or not.
Settled == profile \ Private \subseteq activity \cup late
=============================================================================

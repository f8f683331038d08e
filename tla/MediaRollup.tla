------------------------------ MODULE MediaRollup ------------------------------
(***************************************************************************)
(* What is derived from media_events: one memory for each event, written   *)
(* by rollup passes that may overlap, and the taste profile of one month,  *)
(* written by apply runs of the taste-profile command.                     *)
(*                                                                         *)
(* An event is its place in the order of played_at.  The aggregate of the  *)
(* month, and its hash, is the number of its events.                       *)
(***************************************************************************)
EXTENDS Integers, FiniteSets, FiniteSetsExt

CONSTANTS
  LastEvent,      \* bound of the model: events
  Passes,         \* processes that roll up, or that build the profile
  NoPass,
  Batch,          \* events a rollup pass takes
  MinimumEvents,  \* policy.aggregation.minimumEvents
  MaxCalls,       \* policy.budget.maxCallsPerRun
  MaxFailures     \* bound of the model: failed embeddings and generations, crashes

VARIABLES
  events,     \* events ingested
  memoryOf,   \* the memory of each event: "none", "shown", "forgotten"
  made,       \* history: memories ever made of each event
  profile,    \* aggregate hash of the month's profile, 0 when there is none
  guard,      \* the holder of the advisory lock of the command
  passes,     \* what each process is doing
  failures

uvars == <<events, memoryOf, made, profile, guard, passes, failures>>

Events == 1..LastEvent

Pass == [stage : {"idle", "rolling", "linking", "counted", "generating", "generated"},
         todo : SUBSET Events, seen : 0..LastEvent, calls : 0..MaxCalls]
Free == [stage |-> "idle", todo |-> {}, seen |-> 0, calls |-> 0]

Init ==
  /\ events = {}
  /\ memoryOf = [e \in Events |-> "none"]
  /\ made = [e \in Events |-> 0]
  /\ profile = 0
  /\ guard = NoPass
  /\ passes = [p \in Passes |-> Free]
  /\ failures = 0

\* A sync or a client of the REST endpoint stores an event.
Ingest(e) ==
  /\ e \notin events
  /\ events' = events \cup {e}
  /\ UNCHANGED <<memoryOf, made, profile, guard, passes, failures>>

Release(p) == guard' = IF guard = p THEN NoPass ELSE guard

End(p) == passes' = [passes EXCEPT ![p] = Free] /\ Release(p)

-------------------------------------------------------------------------------
Pending == {e \in events : memoryOf[e] = "none"}
Oldest == {e \in Pending : Cardinality({d \in Pending : d < e}) < Batch}

StartRollup(p) ==
  /\ passes[p].stage = "idle"
  /\ passes' = [passes EXCEPT ![p] = [@ EXCEPT !.stage = "rolling", !.todo = Oldest]]
  /\ UNCHANGED <<events, memoryOf, made, profile, guard, failures>>

Rolling(p) == passes[p].stage \in {"rolling", "linking"} /\ passes[p].todo # {}

\* The next event of the pass is embedded, outside any transaction.
EmbedEvent(p) ==
  /\ Rolling(p) /\ passes[p].stage = "rolling"
  /\ passes' = [passes EXCEPT ![p].stage = "linking"]
  /\ UNCHANGED <<events, memoryOf, made, profile, guard, failures>>

NextEvent(p) == [passes EXCEPT ![p] = [passes[p] EXCEPT !.stage = "rolling", !.todo = @ \ {Min(@)}]]

\* Faulty: linkEventToMemory replaces the link that is there.
LinkableAnyhow(e) == TRUE

Linkable(e) == memoryOf[e] = "none"

\* Memory and link in one transaction; when the event has a memory by now, neither.
InsertAndLink(p) ==
  LET e == Min(passes[p].todo) IN
  /\ Rolling(p) /\ passes[p].stage = "linking"
  /\ IF Linkable(e)
     THEN /\ memoryOf' = [memoryOf EXCEPT ![e] = "shown"]
          /\ made' = [made EXCEPT ![e] = @ + 1]
     ELSE UNCHANGED <<memoryOf, made>>
  /\ passes' = NextEvent(p)
  /\ UNCHANGED <<events, profile, guard, failures>>

\* An event that fails does not end the pass.
EventFails(p) ==
  /\ Rolling(p)
  /\ failures < MaxFailures
  /\ failures' = failures + 1
  /\ passes' = NextEvent(p)
  /\ UNCHANGED <<events, memoryOf, made, profile, guard>>

EndRollup(p) ==
  /\ passes[p].stage = "rolling" /\ passes[p].todo = {}
  /\ End(p)
  /\ UNCHANGED <<events, memoryOf, made, profile, failures>>

ForgetRollup(e) ==
  /\ memoryOf[e] = "shown"
  /\ memoryOf' = [memoryOf EXCEPT ![e] = "forgotten"]
  /\ UNCHANGED <<events, made, profile, guard, passes, failures>>

\* A row some column of another table refers to is not purged.
Referenced(e) == e \in events

\* purge-deleted.  Erasing the row would clear the event's link to it.
PurgeRollup(e) ==
  /\ memoryOf[e] = "forgotten"
  /\ memoryOf' = [memoryOf EXCEPT ![e] = IF Referenced(e) THEN @ ELSE "none"]
  /\ UNCHANGED <<events, made, profile, guard, passes, failures>>

-------------------------------------------------------------------------------
Aggregate == Cardinality(events)

\* The command takes its lock or fails.
StartProfile(p) ==
  /\ passes[p].stage = "idle"
  /\ guard = NoPass
  /\ guard' = p
  /\ passes' = [passes EXCEPT ![p] = [@ EXCEPT !.stage = "counted", !.seen = Aggregate]]
  /\ UNCHANGED <<events, memoryOf, made, profile, failures>>

\* Faulty: a profile of the period counts as up to date.
UpToDateOnceWritten(p) == profile # 0

UpToDate(p) == profile = passes[p].seen

\* Not enough evidence, or the stored profile is of the same aggregate.
NothingToWrite(p) == passes[p].seen < MinimumEvents \/ UpToDate(p)

Compare(p) ==
  /\ passes[p].stage = "counted"
  /\ IF NothingToWrite(p) THEN End(p)
     ELSE passes' = [passes EXCEPT ![p].stage = "generating"] /\ UNCHANGED guard
  /\ UNCHANGED <<events, memoryOf, made, profile, failures>>

\* A generation; an output that does not validate is asked for again.
Generate(p, valid) ==
  /\ passes[p].stage = "generating"
  /\ valid \/ failures < MaxFailures
  /\ failures' = IF valid THEN failures ELSE failures + 1
  /\ IF valid
     THEN passes' = [passes EXCEPT ![p].stage = "generated"] /\ UNCHANGED guard
     ELSE IF passes[p].calls + 1 < MaxCalls
     THEN passes' = [passes EXCEPT ![p].calls = @ + 1] /\ UNCHANGED guard
     ELSE End(p)
  /\ UNCHANGED <<events, memoryOf, made, profile>>

\* The embedding, and upsertSourceKeyMemoryRevision.
WriteProfile(p) ==
  /\ passes[p].stage = "generated"
  /\ profile' = passes[p].seen
  /\ End(p)
  /\ UNCHANGED <<events, memoryOf, made, failures>>

\* The connection that holds the lock is lost; the work goes on on others.
LoseGuard(p) ==
  /\ guard = p
  /\ failures < MaxFailures
  /\ failures' = failures + 1
  /\ guard' = NoPass
  /\ UNCHANGED <<events, memoryOf, made, profile, passes>>

Crash(p) ==
  /\ passes[p].stage # "idle"
  /\ failures < MaxFailures
  /\ failures' = failures + 1
  /\ End(p)
  /\ UNCHANGED <<events, memoryOf, made, profile>>

-------------------------------------------------------------------------------
Step(p) == \/ EmbedEvent(p) \/ InsertAndLink(p) \/ EndRollup(p)
           \/ Compare(p) \/ Generate(p, TRUE) \/ WriteProfile(p)

Next ==
  \/ \E e \in Events : Ingest(e) \/ ForgetRollup(e) \/ PurgeRollup(e)
  \/ \E p \in Passes : \/ StartRollup(p) \/ StartProfile(p) \/ Step(p)
                       \/ EventFails(p) \/ Generate(p, FALSE) \/ LoseGuard(p) \/ Crash(p)

\* The profile is scheduled again and again, and a process at work goes on.
Fairness == \A p \in Passes : SF_uvars(StartProfile(p)) /\ WF_uvars(Step(p))

Spec == Init /\ [][Next]_uvars /\ Fairness

-------------------------------------------------------------------------------
TypeOK ==
  /\ events \subseteq Events
  /\ memoryOf \in [Events -> {"none", "shown", "forgotten"}]
  /\ made \in [Events -> Nat]
  /\ profile \in 0..LastEvent
  /\ guard \in Passes \cup {NoPass}
  /\ passes \in [Passes -> Pass]
  /\ failures \in 0..MaxFailures

\* An event is rolled up once: passes that overlap make one memory of it, and one that
\* was forgotten does not come back under another id, purged or not.
RolledUpOnce == \A e \in Events : made[e] <= 1

\* The profile settles on the events of the month, in whatever order runs that read
\* earlier aggregates are overtaken.
Settled == Aggregate < MinimumEvents \/ profile = Aggregate
=============================================================================

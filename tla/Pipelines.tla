-------------------------------- MODULE Pipelines --------------------------------
(***************************************************************************)
(* The components that run in the background of a store: the extraction of *)
(* entities, the two kinds of connector, what is derived from media        *)
(* events, the change of the embedding model, and the server process.      *)
(* They share no state, so that a behaviour is one of one component, and   *)
(* the variables of the others keep their initial values.                  *)
(***************************************************************************)
EXTENDS Integers, Sequences, FiniteSets

CONSTANTS
  Processes,    \* worker processes, runs of a command, deliveries of a signal
  None,
  Texts,
  Mems, MaxAttempts, EntityCalls, MaxRevision, MaxHides, EntityFaults,     \* EntityEnrichment
  LastVisit, Private, VisitPage, MaxPages, MaxTries, MaxLate, MaxTroubles, \* SourceConnector
  Feeds, Recent, Foreign, LastPlay, PlayPage, Window, MaxOutages,          \* MediaSync
  LastEvent, Batch, MinimumEvents, ProfileCalls, MaxFailures,              \* MediaRollup
  LastRow, Repairs, BatchSize, MaxWrites, RepassFaults,                    \* EmbeddingMigration
  Stores, MaxInFlight, MaxQueued, Estimate, Limit                          \* ServerRuntime

ASSUME NoneAssumption == None \notin Texts \cup Mems \cup Feeds
ASSUME EntityAssumption ==
  EntityCalls \in Nat /\ MaxRevision \in Nat /\ MaxHides \in Nat /\ EntityFaults \in Nat
ASSUME VisitAssumption ==
  /\ LastVisit \in Nat /\ VisitPage \in Nat \ {0} /\ MaxPages \in Nat
  /\ MaxTries \in Nat \ {0} /\ MaxTroubles \in Nat
ASSUME PlayAssumption ==
  /\ LastPlay \in [Feeds -> Nat] /\ Recent \in BOOLEAN
  /\ PlayPage \in Nat \ {0} /\ Window \in Nat /\ MaxOutages \in Nat
ASSUME RollupAssumption ==
  LastEvent \in Nat /\ Batch \in Nat \ {0} /\ ProfileCalls \in Nat /\ MaxFailures \in Nat
ASSUME RowAssumption ==
  LastRow \in Nat /\ BatchSize \in Nat \ {0} /\ MaxWrites \in Nat /\ RepassFaults \in Nat
ASSUME ServerAssumption ==
  /\ IsFiniteSet(Stores) /\ Estimate \in [Stores -> Nat] /\ Limit \in Nat
  /\ MaxInFlight \in Nat \ {0} /\ MaxQueued \in Nat

VARIABLES
  component,
  sources, queue, links, extractors, passed, mishaps,               \* EntityEnrichment
  profile, late, activity, cursor, session, syncs, troubles,        \* SourceConnector
  played, rolledOff, events, cursors, stored, lock, jobs, outages, \* MediaSync
  mediaEvents, memoryOf, made, taste, guard, passes, failures,      \* MediaRollup
  memories, busy, repasses, clean, restored, writes, faults,        \* EmbeddingMigration
  mutation, accepting, calls, shadows, waiting, reserved, handlers, pool, process \* ServerRuntime

evars == <<sources, queue, links, extractors, passed, mishaps>>
cvars == <<profile, late, activity, cursor, session, syncs, troubles>>
mvars == <<played, rolledOff, events, cursors, stored, lock, jobs, outages>>
uvars == <<mediaEvents, memoryOf, made, taste, guard, passes, failures>>
xvars == <<memories, busy, repasses, clean, restored, writes, faults>>
rvars == <<mutation, accepting, calls, shadows, waiting, reserved, handlers, pool, process>>
vars == <<component, evars, cvars, mvars, uvars, xvars, rvars>>

E == INSTANCE EntityEnrichment WITH
       Workers <- Processes, MaxCalls <- EntityCalls, MaxFaults <- EntityFaults
C == INSTANCE SourceConnector WITH Syncs <- Processes, NoSync <- None, PageSize <- VisitPage
M == INSTANCE MediaSync WITH Jobs <- Processes, PageSize <- PlayPage
U == INSTANCE MediaRollup WITH
       Passes <- Processes, NoPass <- None, MaxCalls <- ProfileCalls,
       events <- mediaEvents, profile <- taste
X == INSTANCE EmbeddingMigration WITH
       Passes <- Processes, MaxFaults <- RepassFaults,
       rows <- memories, locked <- busy, passes <- repasses
R == INSTANCE ServerRuntime WITH Signals <- Processes

Init ==
  /\ component \in {"entities", "browser", "plex", "rollup", "embedding", "server"}
  /\ E!Init /\ C!Init /\ M!Init /\ U!Init /\ X!Init /\ R!Init

Entities(A) == component = "entities" /\ A /\ UNCHANGED <<component, cvars, mvars, uvars, xvars, rvars>>
Browser(A) == component = "browser" /\ A /\ UNCHANGED <<component, evars, mvars, uvars, xvars, rvars>>
Plex(A) == component = "plex" /\ A /\ UNCHANGED <<component, evars, cvars, uvars, xvars, rvars>>
Rollup(A) == component = "rollup" /\ A /\ UNCHANGED <<component, evars, cvars, mvars, xvars, rvars>>
Embedding(A) == component = "embedding" /\ A /\ UNCHANGED <<component, evars, cvars, mvars, uvars, rvars>>
Server(A) == component = "server" /\ A /\ UNCHANGED <<component, evars, cvars, mvars, uvars, xvars>>

Next ==
  \/ Entities(E!Next)
  \/ Browser(C!Next)
  \/ Plex(M!Next)
  \/ Rollup(U!Next)
  \/ Embedding(X!Next)
  \/ Server(R!Next)

(***************************************************************************)
(* The fairness of the components, one condition for each process, queue   *)
(* item or timer: only those of the chosen component are ever enabled.     *)
(***************************************************************************)

\* A process at work goes on.
Work(p) == \/ Entities(E!Step(p)) \/ Browser(C!Step(p)) \/ Plex(M!Step(p)) \/ Rollup(U!Step(p))
           \/ Embedding(X!Step(p)) \/ Server(process = "up" /\ R!HandlerStep(p))

\* Workers poll, and sync jobs are scheduled.
TakeUp(p) == Entities(\E m \in Mems : E!Claim(p, m)) \/ Plex(M!Launch(p))

\* A command that fails, or finds its lock held, is run again and again.
Again(p) == Browser(C!Begin(p, FALSE)) \/ Rollup(U!StartProfile(p)) \/ Embedding(X!Begin(p))

Fairness ==
  /\ \A p \in Processes : WF_vars(Work(p)) /\ WF_vars(TakeUp(p)) /\ SF_vars(Again(p))
  /\ \A m \in Mems : /\ WF_vars(Entities(E!ComesDue(m)))
                     /\ WF_vars(Entities(~E!Held(m) /\ E!LeaseEnds(m)))
  /\ WF_vars(\E t \in Texts : Embedding(X!Edit(t)))
  /\ \A j \in Stores : /\ WF_vars(Server(process = "up" /\ R!StoreStep(j)))
                       /\ WF_vars(Server(process = "up" /\ R!ShadowStep(j)))

Spec == Init /\ [][Next]_vars /\ Fairness

-------------------------------------------------------------------------------
\* The type invariants of the components.
TypeOK == E!TypeOK /\ C!TypeOK /\ M!TypeOK /\ U!TypeOK /\ X!TypeOK /\ R!TypeOK

\* The graph shows what memories say now, and calls indexed only what it has links of; a
\* vector of the new model is one of the text the memory has now.
DerivedIsCurrent == E!LinksSayCurrentContent /\ E!IndexedIsTraversed /\ X!TargetVectorsFit

\* No cursor is ahead of the stored data, whatever overlaps, fails or crashes.
NothingSkipped == C!NothingSkipped /\ M!CursorCoversEvents

\* Overlapping passes, forgetting and purging leave an event with one memory.
RolledUpOnce == U!RolledUpOnce

\* A process that was seen drained calls no provider any more, and its budget holds.
DrainedStaysDrained == R!DrainedStaysDrained /\ R!BudgetKept

\* What was accepted is worked off: extraction jobs, visits and plays, the profile of the
\* month, the change of the embedding model, shadows and shutdowns.
WorkIsFinished == []<>(E!Settled /\ C!Settled /\ M!Settled /\ U!Settled /\ R!Settled
                       /\ (component = "embedding" => X!Settled))
=============================================================================

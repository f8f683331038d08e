--------------------------- MODULE EntityEnrichment ---------------------------
(***************************************************************************)
(* The queue that extracts entities from memories: triggers that reset a   *)
(* row when its memory changes, workers that claim a row, call a model     *)
(* outside any transaction and write the links if the memory is still the  *)
(* one they read, and the backfill of memories older than the queue.       *)
(*                                                                         *)
(* A memory's namespace does not change here; its content and its access   *)
(* level do, and each change raises its entity_source_revision, of which   *)
(* the stored content hash and access level are functions.                 *)
(***************************************************************************)
EXTENDS Integers, FiniteSets

CONSTANTS
  Mems,
  Texts,         \* contents of memories
  Workers,       \* worker processes
  None,
  MaxAttempts,   \* ENTITY_JOB_MAX_ATTEMPTS
  MaxCalls,      \* maxCallsPerInvocation of the policy
  MaxRevision,   \* bound of the model: changes of one memory
  MaxHides,      \* bound of the model: retirements of one memory
  MaxFaults      \* bound of the model: crashes and stalls of workers

VARIABLES
  sources,     \* memories, as far as the queue looks at them
  queue,       \* entity_enrichment_queue
  links,       \* memory_entities: the content a memory's links were extracted from
  extractors,  \* what each worker process is doing
  passed,      \* history: rows closed because their memory was hidden at that moment
  mishaps      \* crashes and stalls so far

evars == <<sources, queue, links, extractors, passed, mishaps>>

Source == [life : {"none", "shown", "hidden", "gone"}, text : Texts \cup {None},
           level : {"normal", "sensitive"}, rev : 0..MaxRevision, hides : 0..MaxHides]
NoSource == [life |-> "none", text |-> None, level |-> "normal", rev |-> 0, hides |-> 0]

QueueRow == [status : {"none", "pending", "processing", "retry", "done", "dead"},
             rev : 0..MaxRevision, level : {"normal", "sensitive"}, attempts : Nat,
             due : BOOLEAN,       \* next_attempt_at has passed
             overdue : BOOLEAN]   \* locked_at is older than five minutes
NoQueueRow == [status |-> "none", rev |-> 0, level |-> "normal", attempts |-> 0,
               due |-> FALSE, overdue |-> FALSE]

Stages == {"idle", "barred", "claimed", "missing", "refused", "extracting",
           "extracted", "failing", "ended"}
Extractor == [stage : Stages, mem : Mems \cup {None}, rev : 0..MaxRevision,
              text : Texts \cup {None}, calls : 0..MaxCalls]
Free == [stage |-> "idle", mem |-> None, rev |-> 0, text |-> None, calls |-> 0]

Init ==
  /\ sources \in [Mems -> {NoSource} \cup
                   {[NoSource EXCEPT !.life = "shown", !.text = t] : t \in Texts}]
  /\ queue = [m \in Mems |-> NoQueueRow]
  /\ links = [m \in Mems |-> None]
  /\ extractors = [w \in Workers |-> Free]
  /\ passed = {}
  /\ mishaps = 0

(***************************************************************************)
(* Memories and the two triggers.                                          *)
(***************************************************************************)

\* The row as a trigger leaves it: a fresh job for the revision.
Enqueued(source) ==
  [NoQueueRow EXCEPT !.status = "pending", !.rev = source.rev, !.level = source.level,
                     !.due = TRUE]

StoreSource(m, t) ==
  /\ sources[m].life = "none"
  /\ sources' = [sources EXCEPT ![m] = [@ EXCEPT !.life = "shown", !.text = t]]
  /\ queue' = [queue EXCEPT ![m] = Enqueued(sources'[m])]
  /\ UNCHANGED <<links, extractors, passed, mishaps>>

LinksDropped(m) == links' = [links EXCEPT ![m] = None]

\* A change of content or access level, whoever makes it.
ChangeSource(m, t, level) ==
  /\ sources[m].life = "shown"
  /\ sources[m].rev < MaxRevision
  /\ <<t, level>> # <<sources[m].text, sources[m].level>>
  /\ sources' = [sources EXCEPT ![m] = [sources[m] EXCEPT !.text = t, !.level = level, !.rev = @ + 1]]
  /\ queue' = [queue EXCEPT ![m] = Enqueued(sources'[m])]
  /\ passed' = passed \ {m}
  /\ LinksDropped(m)
  /\ UNCHANGED <<extractors, mishaps>>

\* Supersession, forgetting, folding and expiry leave the queue and the links alone.
HideSource(m) ==
  /\ sources[m].life = "shown"
  /\ sources[m].hides < MaxHides
  /\ sources' = [sources EXCEPT ![m] = [sources[m] EXCEPT !.life = "hidden", !.hides = @ + 1]]
  /\ UNCHANGED <<queue, links, extractors, passed, mishaps>>

\* Deconsolidation shows a folded memory again.
RestoreSource(m) ==
  /\ sources[m].life = "hidden"
  /\ sources' = [sources EXCEPT ![m].life = "shown"]
  /\ UNCHANGED <<queue, links, extractors, passed, mishaps>>

EraseSource(m) ==
  /\ sources[m].life = "hidden"
  /\ sources' = [sources EXCEPT ![m].life = "gone"]
  /\ queue' = [queue EXCEPT ![m] = NoQueueRow]
  /\ links' = [links EXCEPT ![m] = None]
  /\ UNCHANGED <<extractors, passed, mishaps>>

Backfill(m) ==
  /\ sources[m].life = "shown"
  /\ sources[m].level = "normal"
  /\ queue[m].status = "none"
  /\ queue' = [queue EXCEPT ![m] = Enqueued(sources[m])]
  /\ UNCHANGED <<sources, links, extractors, passed, mishaps>>

(***************************************************************************)
(* A worker.  It holds a copy of the row it claimed; the row itself may be *)
(* reset or claimed again while the worker is away.                        *)
(***************************************************************************)

\* Faulty: a row whose worker died is never taken over.
ClaimableWaiting(row) == row.status \in {"pending", "retry"} /\ row.due

Claimable(row) ==
  \/ row.status \in {"pending", "retry"} /\ row.due
  \/ row.status = "processing" /\ row.overdue

Claim(w, m) ==
  /\ extractors[w].stage = "idle"
  /\ Claimable(queue[m])
  /\ queue' = [queue EXCEPT
                   ![m] = [queue[m] EXCEPT
                     !.status = "processing", !.attempts = @ + 1, !.overdue = FALSE]]
  /\ extractors' = [extractors EXCEPT
                        ![w] = [@ EXCEPT
                          !.stage = IF queue[m].level = "normal" THEN "claimed" ELSE "barred",
                          !.mem = m, !.rev = queue[m].rev]]
  /\ UNCHANGED <<sources, links, passed, mishaps>>

Eligible(source) == source.life = "shown" /\ source.level = "normal"

\* Faulty: the job is taken to be fresh as long as somebody is processing it.
FreshWhileProcessed(m, rev) == queue[m].status = "processing"

Fresh(m, rev) ==
  /\ queue[m].status = "processing"
  /\ queue[m].rev = rev
  /\ sources[m].rev = rev

Loaded(w) == [extractors EXCEPT
                  ![w] = [extractors[w] EXCEPT
                    !.stage = "extracting", !.calls = @ + 1,
                    !.text = sources[extractors[w].mem].text]]

\* loadEntityJobContent, then the budget of this invocation.
Load(w) ==
  LET m == extractors[w].mem IN
  /\ extractors[w].stage = "claimed"
  /\ extractors' =
       IF ~(Fresh(m, extractors[w].rev) /\ Eligible(sources[m]))
       THEN [extractors EXCEPT ![w].stage = "missing"]
       ELSE IF extractors[w].calls < MaxCalls THEN Loaded(w)
       ELSE [extractors EXCEPT ![w].stage = "refused"]
  /\ UNCHANGED <<sources, queue, links, passed, mishaps>>

Extract(w) ==
  /\ extractors[w].stage = "extracting"
  /\ \E outcome \in {"extracted", "failing"} :
       extractors' = [extractors EXCEPT ![w].stage = outcome]
  /\ UNCHANGED <<sources, queue, links, passed, mishaps>>

Released(w, stage) ==
  extractors' = [extractors EXCEPT ![w] = [Free EXCEPT !.stage = stage, !.calls = extractors[w].calls]]

\* Faulty: a worker that finds the row changed closes it all the same.
ClosableAnyhow(m, rev) == queue[m].status # "none"

Closable(m, rev) == Fresh(m, rev)

\* replaceMemoryEntityLinks: with no entities after a failed load, with the extracted
\* ones otherwise.  A stale job changes nothing.
Replace(w) ==
  LET m == extractors[w].mem IN
  /\ extractors[w].stage \in {"missing", "extracted"}
  /\ IF Closable(m, extractors[w].rev)
     THEN /\ links' = [links EXCEPT ![m] = IF Eligible(sources[m]) THEN extractors[w].text ELSE None]
          /\ queue' = [queue EXCEPT ![m].status = "done"]
          /\ passed' = IF Eligible(sources[m]) /\ extractors[w].stage = "extracted"
                       THEN passed \ {m} ELSE passed \cup {m}
     ELSE UNCHANGED <<links, queue, passed>>
  /\ Released(w, "idle")
  /\ UNCHANGED <<sources, mishaps>>

\* removeEntityLinksForIneligibleJob.
RemoveLinks(w) ==
  LET m == extractors[w].mem IN
  /\ extractors[w].stage = "barred"
  /\ IF Fresh(m, extractors[w].rev) /\ ~Eligible(sources[m])
     THEN /\ links' = [links EXCEPT ![m] = None]
          /\ queue' = [queue EXCEPT ![m].status = "done"]
     ELSE UNCHANGED <<links, queue>>
  /\ Released(w, "idle")
  /\ UNCHANGED <<sources, passed, mishaps>>

\* markEntityJobFailed compares the revision, not the claim: it may fail a job that
\* another worker has claimed since.
Failed(row) ==
  [row EXCEPT !.status = IF row.attempts >= MaxAttempts THEN "dead" ELSE "retry",
              !.due = FALSE, !.overdue = FALSE]

\* A worker without budget stops.
FailJob(w) ==
  LET m == extractors[w].mem IN
  /\ extractors[w].stage \in {"refused", "failing"}
  /\ queue' = IF queue[m].status = "processing" /\ queue[m].rev = extractors[w].rev
              THEN [queue EXCEPT ![m] = Failed(queue[m])] ELSE queue
  /\ Released(w, IF extractors[w].stage = "refused" THEN "ended" ELSE "idle")
  /\ UNCHANGED <<sources, links, passed, mishaps>>

\* The command is scheduled again, with a new budget.
Start(w) ==
  /\ extractors[w].stage = "ended"
  /\ extractors' = [extractors EXCEPT ![w] = Free]
  /\ UNCHANGED <<sources, queue, links, passed, mishaps>>

Crash(w) ==
  /\ extractors[w].stage \notin {"idle", "ended"}
  /\ mishaps < MaxFaults
  /\ mishaps' = mishaps + 1
  /\ extractors' = [extractors EXCEPT ![w] = [Free EXCEPT !.stage = "ended"]]
  /\ UNCHANGED <<sources, queue, links, passed>>

ComesDue(m) ==
  /\ queue[m].status = "retry"
  /\ ~queue[m].due
  /\ queue' = [queue EXCEPT ![m].due = TRUE]
  /\ UNCHANGED <<sources, links, extractors, passed, mishaps>>

Held(m) == \E w \in Workers :
  extractors[w].mem = m /\ extractors[w].rev = queue[m].rev /\ extractors[w].stage # "ended"

\* Five minutes pass.  While the holder is at work this is a stall.
LeaseEnds(m) ==
  /\ queue[m].status = "processing"
  /\ ~queue[m].overdue
  /\ Held(m) => mishaps < MaxFaults
  /\ mishaps' = IF Held(m) THEN mishaps + 1 ELSE mishaps
  /\ queue' = [queue EXCEPT ![m].overdue = TRUE]
  /\ UNCHANGED <<sources, links, extractors, passed>>

Step(w) == Load(w) \/ Extract(w) \/ Replace(w) \/ RemoveLinks(w) \/ FailJob(w) \/ Start(w)

Next ==
  \/ \E m \in Mems, t \in Texts : StoreSource(m, t)
  \/ \E m \in Mems, t \in Texts, l \in {"normal", "sensitive"} : ChangeSource(m, t, l)
  \/ \E m \in Mems : HideSource(m) \/ RestoreSource(m) \/ EraseSource(m) \/ Backfill(m)
  \/ \E m \in Mems : ComesDue(m) \/ LeaseEnds(m)
  \/ \E w \in Workers, m \in Mems : Claim(w, m)
  \/ \E w \in Workers : Step(w) \/ Crash(w)

\* A worker at work goes on, the command is scheduled again and again, and time passes.
Fairness ==
  /\ \A w \in Workers : WF_evars(Step(w)) /\ WF_evars(\E m \in Mems : Claim(w, m))
  /\ \A m \in Mems : WF_evars(ComesDue(m)) /\ WF_evars(~Held(m) /\ LeaseEnds(m))

Spec == Init /\ [][Next]_evars /\ Fairness

-------------------------------------------------------------------------------
TypeOK ==
  /\ sources \in [Mems -> Source]
  /\ queue \in [Mems -> QueueRow]
  /\ links \in [Mems -> Texts \cup {None}]
  /\ extractors \in [Workers -> Extractor]
  /\ passed \subseteq Mems
  /\ mishaps \in 0..MaxFaults

\* The graph never shows what a memory used to say: links are those of the content the
\* memory has now, and a memory above the normal access level has none.
LinksSayCurrentContent ==
  \A m \in Mems : links[m] # None => links[m] = sources[m].text /\ sources[m].level = "normal"

\* graphIndexingStatus: the memories of the response that are not indexed.
Unindexed == {m \in Mems : /\ Eligible(sources[m])
                           /\ \/ queue[m].status # "done"
                              \/ queue[m].rev # sources[m].rev}

\* traverseMemoryGraph: every join on the way from an entity to another goes through an
\* active memory of the caller's access level that has links.
Traversed == {m \in Mems : Eligible(sources[m]) /\ links[m] # None}

\* A memory the graph reports as indexed is found through its entities, but for one whose
\* job was closed while it was hidden: nothing enqueues it again when it is restored.
IndexedIsTraversed ==
  \A m \in Mems : Eligible(sources[m]) => m \in Traversed \cup Unindexed \cup passed

\* Every job ends, done or dead, whatever happens to its worker.
Settled == \A m \in Mems : queue[m].status \in {"none", "done", "dead"}
=============================================================================

----------------------------- MODULE PipelinesProofs -----------------------------
(***************************************************************************)
(* Proofs about the components that Pipelines composes.                    *)
(***************************************************************************)
EXTENDS Pipelines, FiniteSetFacts

(***************************************************************************)
(* The queue of entity extraction.                                         *)
(***************************************************************************)

\* The stages in which a worker has the text of the memory it holds.
Reading == {"extracting", "extracted", "failing"}

\* What a worker knows of its memory: the revision it claimed is one the memory has had, and
\* if it is the memory's still, so are the text that was loaded and the level that barred it.
Knows(w) ==
  LET x == extractors[w]
      m == x.mem
  IN /\ x.stage \in Reading <=> x.text # None
     /\ x.stage \notin {"idle", "ended"} =>
          /\ m \in Mems
          /\ sources[m].life # "none"
          /\ x.rev <= sources[m].rev
          /\ x.rev = sources[m].rev /\ x.stage \in Reading => x.text = sources[m].text
          /\ x.rev = sources[m].rev /\ x.stage = "barred" => sources[m].level # "normal"

\* The triggers keep a row at the revision and the level of its memory.
Follows(m) ==
  /\ sources[m].life \in {"shown", "hidden"} => sources[m].text # None
  /\ queue[m].status # "none" =>
       /\ sources[m].life # "none"
       /\ queue[m].rev = sources[m].rev /\ queue[m].level = sources[m].level

\* The links are of the text of the memory, and a row that is done has links or was passed.
Linked(m) ==
  /\ links[m] # None => /\ links[m] = sources[m].text /\ sources[m].level = "normal"
                        /\ sources[m].life # "none"
  /\ queue[m].status = "done" /\ sources[m].level = "normal" => links[m] # None \/ m \in passed

EntityInv ==
  /\ E!TypeOK
  /\ \A w \in Processes : Knows(w)
  /\ \A m \in Mems : Follows(m) /\ Linked(m)

USE NoneAssumption, EntityAssumption

LEMMA EntityRecords ==
  /\ E!Free \in E!Extractor /\ E!NoQueueRow \in E!QueueRow /\ E!NoSource \in E!Source
  /\ \A x \in E!Source : E!Enqueued(x) \in E!QueueRow
  /\ \A x \in E!QueueRow : E!Failed(x) \in E!QueueRow
<1>1. E!Free \in E!Extractor
  BY DEF E!Free, E!Extractor, E!Stages
<1>2. E!NoQueueRow \in E!QueueRow /\ E!NoSource \in E!Source
  BY DEF E!NoQueueRow, E!QueueRow, E!NoSource, E!Source
<1>3. \A x \in E!Source : E!Enqueued(x) \in E!QueueRow
  BY DEF E!NoQueueRow, E!QueueRow, E!Source, E!Enqueued
<1>4. \A x \in E!QueueRow : E!Failed(x) \in E!QueueRow
  BY DEF E!QueueRow, E!Failed
<1> QED
  BY <1>1, <1>2, <1>3, <1>4

\* What is left to a worker that lets its job go.
LEMMA EntityReleased ==
  ASSUME extractors \in [Processes -> E!Extractor], NEW w \in Processes, NEW stage \in {"idle", "ended"},
         E!Released(w, stage)
  PROVE  /\ extractors' \in [Processes -> E!Extractor]
         /\ \A v \in Processes \ {w} : extractors'[v] = extractors[v]
         /\ extractors'[w].stage = stage /\ extractors'[w].text = None
<1> DEFINE x == [E!Free EXCEPT !.stage = stage, !.calls = extractors[w].calls]
<1>1. x \in E!Extractor /\ x.stage = stage /\ x.text = None
  <2>1. extractors[w].calls \in 0..EntityCalls
    BY DEF E!Extractor
  <2>2. E!Free \in E!Extractor /\ stage \in E!Stages /\ E!Free.text = None
    BY EntityRecords DEF E!Stages, E!Free
  <2> QED
    BY <2>1, <2>2 DEF E!Extractor
<1>2. extractors' = [extractors EXCEPT ![w] = x]
  BY DEF E!Released
<1> HIDE DEF x
<1> QED
  BY <1>1, <1>2

\* The actions on memories: a change of text or level raises the revision, and what is
\* hidden, restored or erased keeps all three.
OneSource(m) == /\ sources' \in [Mems -> E!Source]
                /\ \A n \in Mems \ {m} : sources'[n] = sources[n]

LEMMA OneSourceSet ==
  ASSUME EntityInv, NEW m \in Mems, NEW row \in E!Source, sources' = [sources EXCEPT ![m] = row]
  PROVE  OneSource(m) /\ sources'[m] = row
BY DEF EntityInv, E!TypeOK, OneSource

LEMMA EntityStored ==
  ASSUME EntityInv, NEW m \in Mems, NEW t \in Texts, E!StoreSource(m, t)
  PROVE  /\ OneSource(m)
         /\ sources[m].life = "none" /\ sources'[m].life = "shown" /\ sources'[m].text = t
<1> DEFINE row == [sources[m] EXCEPT !.life = "shown", !.text = t]
<1>1. row \in E!Source /\ row.life = "shown" /\ row.text = t
  <2>1. sources[m] \in E!Source
    BY DEF EntityInv, E!TypeOK
  <2> QED
    BY <2>1 DEF E!Source
<1>2. sources' = [sources EXCEPT ![m] = row] /\ sources[m].life = "none"
  BY DEF E!StoreSource
<1> HIDE DEF row
<1> QED
  BY <1>1, <1>2, OneSourceSet

LEMMA EntityChanged ==
  ASSUME EntityInv, NEW m \in Mems, NEW t \in Texts, NEW l \in {"normal", "sensitive"},
         E!ChangeSource(m, t, l)
  PROVE  /\ OneSource(m)
         /\ sources[m].life = "shown" /\ sources'[m].life = "shown"
         /\ sources'[m].text = t /\ sources'[m].level = l /\ sources'[m].rev = sources[m].rev + 1
<1> DEFINE row == [sources[m] EXCEPT !.text = t, !.level = l, !.rev = sources[m].rev + 1]
<1>1. sources[m] \in E!Source /\ sources[m].life = "shown" /\ sources[m].rev < MaxRevision
  BY DEF EntityInv, E!TypeOK, E!ChangeSource
<1>2. sources[m].rev + 1 \in 0..MaxRevision
  BY <1>1 DEF E!Source
<1>3. /\ row \in E!Source /\ row.life = "shown" /\ row.text = t /\ row.level = l
      /\ row.rev = sources[m].rev + 1
  BY <1>1, <1>2 DEF E!Source
<1>4. sources' = [sources EXCEPT ![m] = row]
  BY DEF E!ChangeSource
<1> HIDE DEF row
<1> QED
  BY <1>1, <1>3, <1>4, OneSourceSet

LEMMA EntityRetired ==
  ASSUME EntityInv, NEW m \in Mems, E!HideSource(m) \/ E!RestoreSource(m) \/ E!EraseSource(m)
  PROVE  /\ OneSource(m)
         /\ sources[m].life \in {"shown", "hidden"}
         /\ sources'[m].life = IF E!EraseSource(m) THEN "gone"
                               ELSE IF E!RestoreSource(m) THEN "shown" ELSE "hidden"
         /\ sources'[m].text = sources[m].text /\ sources'[m].level = sources[m].level
         /\ sources'[m].rev = sources[m].rev
<1> DEFINE Like(row, life) == /\ row \in E!Source /\ row.life = life
                              /\ row.text = sources[m].text /\ row.level = sources[m].level
                              /\ row.rev = sources[m].rev
<1>1. sources[m] \in E!Source
  BY DEF EntityInv, E!TypeOK
<1>2. CASE E!HideSource(m)
  <2> DEFINE row == [sources[m] EXCEPT !.life = "hidden", !.hides = sources[m].hides + 1]
  <2>1. sources[m].hides + 1 \in 0..MaxHides
    BY <1>1, <1>2 DEF E!HideSource, E!Source
  <2>2. Like(row, "hidden")
    BY <1>1, <2>1 DEF E!Source
  <2>3. sources' = [sources EXCEPT ![m] = row] /\ sources[m].life = "shown"
    BY <1>2 DEF E!HideSource
  <2>4. ~E!EraseSource(m) /\ ~E!RestoreSource(m)
    BY <2>3 DEF E!EraseSource, E!RestoreSource
  <2> HIDE DEF row
  <2> QED
    BY <2>2, <2>3, <2>4, OneSourceSet
<1>3. ASSUME NEW life \in {"shown", "gone"}, sources' = [sources EXCEPT ![m].life = life]
      PROVE  OneSource(m) /\ Like(sources'[m], life)
  <2> DEFINE row == [sources[m] EXCEPT !.life = life]
  <2>1. Like(row, life)
    BY <1>1 DEF E!Source
  <2>2. sources' = [sources EXCEPT ![m] = row]
    BY <1>3
  <2> HIDE DEF row
  <2> QED
    BY <2>1, <2>2, OneSourceSet
<1>4. CASE E!EraseSource(m)
  <2>1. sources' = [sources EXCEPT ![m].life = "gone"] /\ sources[m].life = "hidden"
    BY <1>4 DEF E!EraseSource
  <2> QED
    BY <1>3, <1>4, <2>1
<1>5. CASE E!RestoreSource(m) /\ ~E!EraseSource(m)
  <2>1. sources' = [sources EXCEPT ![m].life = "shown"] /\ sources[m].life = "hidden"
    BY <1>5 DEF E!RestoreSource
  <2> QED
    BY <1>3, <1>5, <2>1
<1> QED
  BY <1>2, <1>4, <1>5

LEMMA EntitySourcesTyped ==
  ASSUME EntityInv, [E!Next]_evars
  PROVE  sources' \in [Mems -> E!Source]
<1>1. sources \in [Mems -> E!Source]
  BY DEF EntityInv, E!TypeOK
<1> QED
  BY <1>1, EntityStored, EntityChanged, EntityRetired DEF OneSource, E!Next, E!Step, evars, E!Backfill, E!ComesDue, E!LeaseEnds, E!Claim, E!Load, E!Extract,
     E!Replace, E!RemoveLinks, E!FailJob, E!Start, E!Crash

LEMMA EntityQueueTyped ==
  ASSUME EntityInv, [E!Next]_evars
  PROVE  queue' \in [Mems -> E!QueueRow]
<1>1. sources' \in [Mems -> E!Source] /\ queue \in [Mems -> E!QueueRow]
  BY EntitySourcesTyped DEF EntityInv, E!TypeOK
<1>2. ASSUME NEW m \in Mems,
             \/ queue' = [queue EXCEPT ![m] = E!Enqueued(sources'[m])]
             \/ queue' = [queue EXCEPT ![m] = E!NoQueueRow]
             \/ queue' = [queue EXCEPT ![m] = E!Failed(queue[m])]
      PROVE  queue' \in [Mems -> E!QueueRow]
  BY <1>1, <1>2, EntityRecords
<1>3. ASSUME NEW m \in Mems,
             \/ queue' = [queue EXCEPT ![m].status = "done"]
             \/ queue' = [queue EXCEPT ![m].due = TRUE]
             \/ queue' = [queue EXCEPT ![m].overdue = TRUE]
      PROVE  queue' \in [Mems -> E!QueueRow]
  <2>1. queue[m] \in E!QueueRow
    BY <1>1
  <2>2. /\ [queue[m] EXCEPT !.status = "done"] \in E!QueueRow
        /\ [queue[m] EXCEPT !.due = TRUE] \in E!QueueRow
        /\ [queue[m] EXCEPT !.overdue = TRUE] \in E!QueueRow
    BY <2>1 DEF E!QueueRow
  <2> QED
    BY <1>1, <1>3, <2>2
<1>4. ASSUME NEW m \in Mems, NEW t \in Texts,
             E!StoreSource(m, t) \/ \E l \in {"normal", "sensitive"} : E!ChangeSource(m, t, l)
      PROVE  queue' \in [Mems -> E!QueueRow]
  BY <1>2, <1>4 DEF E!StoreSource, E!ChangeSource
<1>5. ASSUME NEW m \in Mems, E!EraseSource(m) \/ E!Backfill(m) \/ E!ComesDue(m) \/ E!LeaseEnds(m)
      PROVE  queue' \in [Mems -> E!QueueRow]
  BY <1>1, <1>2, <1>3, <1>5 DEF E!EraseSource, E!Backfill, E!ComesDue, E!LeaseEnds
<1>6. ASSUME NEW w \in Processes, E!Replace(w) \/ E!RemoveLinks(w) \/ E!FailJob(w)
      PROVE  queue' \in [Mems -> E!QueueRow]
  BY <1>1, <1>2, <1>3, <1>6 DEF E!Replace, E!RemoveLinks, E!FailJob, EntityInv, Knows
<1>7. ASSUME NEW w \in Processes, NEW m \in Mems, E!Claim(w, m)
      PROVE  queue' \in [Mems -> E!QueueRow]
  <2> DEFINE row == [queue[m] EXCEPT !.status = "processing", !.attempts = @ + 1, !.overdue = FALSE]
  <2>1. row \in E!QueueRow
    <3>1. queue[m] \in E!QueueRow /\ queue[m].attempts + 1 \in Nat
      BY <1>1 DEF E!QueueRow
    <3> QED
      BY <3>1 DEF E!QueueRow
  <2>2. queue' = [queue EXCEPT ![m] = row]
    BY <1>7 DEF E!Claim
  <2> HIDE DEF row
  <2> QED
    BY <1>1, <2>1, <2>2
<1> QED
  BY <1>1, <1>4, <1>5, <1>6, <1>7 DEF E!Next, E!Step, evars, E!HideSource, E!RestoreSource, E!Load, E!Extract, E!Start, E!Crash

(***************************************************************************)
(* What the workers know.                                                  *)
(***************************************************************************)
LEMMA EntityWorkers ==
  ASSUME EntityInv, [E!Next]_evars
  PROVE  extractors' \in [Processes -> E!Extractor] /\ \A w \in Processes : Knows(w)'
<1> DEFINE Kept == extractors' \in [Processes -> E!Extractor] /\ \A w \in Processes : Knows(w)'
<1>1. /\ extractors \in [Processes -> E!Extractor] /\ \A w \in Processes : Knows(w)
      /\ sources \in [Mems -> E!Source] /\ sources' \in [Mems -> E!Source]
      /\ queue \in [Mems -> E!QueueRow]
  BY EntitySourcesTyped DEF EntityInv, E!TypeOK
<1>2. ASSUME NEW m \in Mems, NEW t \in Texts, E!StoreSource(m, t)
      PROVE  Kept
  <2>1. UNCHANGED extractors
    BY <1>2 DEF E!StoreSource
  <2> QED
    BY <1>1, <1>2, <2>1, EntityStored DEF Knows, OneSource
<1>3. ASSUME NEW m \in Mems, NEW t \in Texts, NEW l \in {"normal", "sensitive"}, E!ChangeSource(m, t, l)
      PROVE  Kept
  <2>1. UNCHANGED extractors
    BY <1>3 DEF E!ChangeSource
  <2>2. \A w \in Processes : extractors[w].rev \in Int
    BY <1>1 DEF E!Extractor
  <2>3. sources[m].rev \in Int
    BY <1>1 DEF E!Source
  <2> QED
    BY <1>1, <1>3, <2>1, <2>2, <2>3, EntityChanged DEF Knows, OneSource
<1>4. ASSUME NEW m \in Mems, E!HideSource(m) \/ E!RestoreSource(m) \/ E!EraseSource(m)
      PROVE  Kept
  <2>1. UNCHANGED extractors
    BY <1>4 DEF E!HideSource, E!RestoreSource, E!EraseSource
  <2> QED
    BY <1>1, <1>4, <2>1, EntityRetired DEF Knows, OneSource
<1>5. ASSUME UNCHANGED <<sources, extractors>>
      PROVE  Kept
  BY <1>1, <1>5 DEF Knows
<1>6. ASSUME NEW w \in Processes, NEW x \in E!Extractor, extractors' = [extractors EXCEPT ![w] = x],
             UNCHANGED sources, Knows(w)'
      PROVE  Kept
  BY <1>1, <1>6 DEF Knows
<1>7. ASSUME NEW w \in Processes, NEW m \in Mems, E!Claim(w, m)
      PROVE  Kept
  <2> DEFINE x == [extractors[w] EXCEPT
                     !.stage = IF queue[m].level = "normal" THEN "claimed" ELSE "barred",
                     !.mem = m, !.rev = queue[m].rev]
  <2>1. extractors' = [extractors EXCEPT ![w] = x] /\ UNCHANGED sources
    BY <1>1, <1>7 DEF E!Claim
  <2>2. queue[m].status # "none" /\ extractors[w].stage = "idle"
    BY <1>7 DEF E!Claim, E!Claimable
  <2>3. /\ sources[m].life # "none"
        /\ queue[m].rev = sources[m].rev /\ queue[m].level = sources[m].level
    BY <2>2 DEF EntityInv, Follows
  <2>4. x \in E!Extractor
    <3>1. queue[m].rev \in 0..MaxRevision /\ extractors[w] \in E!Extractor
      BY <1>1 DEF E!QueueRow
    <3> QED
      BY <3>1 DEF E!Extractor, E!Stages
  <2>5. /\ x.stage = (IF queue[m].level = "normal" THEN "claimed" ELSE "barred")
        /\ x.mem = m /\ x.rev = queue[m].rev /\ x.text = extractors[w].text
    BY <1>1 DEF E!Extractor
  <2>6. extractors[w].text = None
    BY <1>1, <2>2 DEF Knows, Reading
  <2>7. sources[m].rev \in Int
    BY <1>1 DEF E!Source
  <2> HIDE DEF x
  <2>8. Knows(w)'
    BY <1>1, <2>1, <2>3, <2>5, <2>6, <2>7 DEF Knows, Reading
  <2> QED
    BY <1>6, <2>1, <2>4, <2>8
<1>8. ASSUME NEW w \in Processes, E!Load(w)
      PROVE  Kept
  <2> DEFINE m == extractors[w].mem
  <2>1. extractors[w] \in E!Extractor /\ extractors[w].stage = "claimed" /\ m \in Mems
        /\ UNCHANGED sources
    BY <1>1, <1>8 DEF E!Load, Knows
  <2>2. ASSUME NEW stage \in {"missing", "refused"},
               extractors' = [extractors EXCEPT ![w].stage = stage]
        PROVE  Kept
    <3> DEFINE x == [extractors[w] EXCEPT !.stage = stage]
    <3>1. x \in E!Extractor
      BY <2>1 DEF E!Extractor, E!Stages
    <3>2. /\ x.stage = stage /\ x.mem = extractors[w].mem /\ x.rev = extractors[w].rev
          /\ x.text = extractors[w].text
      BY <2>1 DEF E!Extractor
    <3>3. extractors' = [extractors EXCEPT ![w] = x]
      BY <2>2
    <3> HIDE DEF x
    <3>4. Knows(w)'
      BY <1>1, <2>1, <3>2, <3>3 DEF Knows, Reading
    <3> QED
      BY <1>6, <2>1, <3>1, <3>3, <3>4
  <2>3. ASSUME E!Eligible(sources[m]), extractors[w].calls < EntityCalls, extractors' = E!Loaded(w)
        PROVE  Kept
    <3> DEFINE x == [extractors[w] EXCEPT !.stage = "extracting", !.calls = @ + 1, !.text = sources[m].text]
    <3>1. sources[m].text \in Texts
      <4>1. sources[m].text # None
        BY <2>1, <2>3 DEF EntityInv, Follows, E!Eligible
      <4> QED
        BY <1>1, <2>1, <4>1 DEF E!Source
    <3>2. x \in E!Extractor
      <4>1. extractors[w].calls + 1 \in 0..EntityCalls
        BY <2>1, <2>3 DEF E!Extractor
      <4> QED
        BY <2>1, <3>1, <4>1 DEF E!Extractor, E!Stages
    <3>3. /\ x.stage = "extracting" /\ x.mem = m /\ x.rev = extractors[w].rev
          /\ x.text = sources[m].text
      BY <2>1 DEF E!Extractor
    <3>4. extractors' = [extractors EXCEPT ![w] = x]
      BY <2>3 DEF E!Loaded
    <3> HIDE DEF x
    <3>5. Knows(w)'
      BY <1>1, <2>1, <3>1, <3>3, <3>4 DEF Knows, Reading
    <3> QED
      BY <1>6, <2>1, <3>2, <3>4, <3>5
  <2> QED
    BY <1>8, <2>2, <2>3 DEF E!Load
<1>9. ASSUME NEW w \in Processes, E!Extract(w)
      PROVE  Kept
  <2>1. PICK outcome \in {"extracted", "failing"} : extractors' = [extractors EXCEPT ![w].stage = outcome]
    BY <1>9 DEF E!Extract
  <2> DEFINE x == [extractors[w] EXCEPT !.stage = outcome]
  <2>2. extractors[w] \in E!Extractor /\ extractors[w].stage = "extracting" /\ UNCHANGED sources
    BY <1>1, <1>9 DEF E!Extract
  <2>3. x \in E!Extractor
    BY <2>2 DEF E!Extractor, E!Stages
  <2>4. /\ x.stage = outcome /\ x.mem = extractors[w].mem /\ x.rev = extractors[w].rev
        /\ x.text = extractors[w].text
    BY <2>2 DEF E!Extractor
  <2>5. extractors' = [extractors EXCEPT ![w] = x]
    BY <2>1
  <2> HIDE DEF x
  <2>6. Knows(w)'
    BY <1>1, <2>2, <2>4, <2>5 DEF Knows, Reading
  <2> QED
    BY <1>6, <2>2, <2>3, <2>5, <2>6
<1>10. ASSUME NEW w \in Processes, NEW stage \in {"idle", "ended"}, E!Released(w, stage), UNCHANGED sources
       PROVE  Kept
  BY <1>1, <1>10, EntityReleased DEF Knows, Reading
<1>11. ASSUME NEW w \in Processes, E!Start(w) \/ E!Crash(w)
       PROVE  Kept
  <2>1. PICK x \in {E!Free, [E!Free EXCEPT !.stage = "ended"]} : extractors' = [extractors EXCEPT ![w] = x]
    BY <1>11 DEF E!Start, E!Crash
  <2>2. x \in E!Extractor /\ x.stage \in {"idle", "ended"} /\ x.text = None
    BY EntityRecords DEF E!Extractor, E!Stages, E!Free
  <2>3. UNCHANGED sources
    BY <1>11 DEF E!Start, E!Crash
  <2>4. Knows(w)'
    BY <1>1, <2>1, <2>2, <2>3 DEF Knows, Reading
  <2> QED
    BY <1>6, <2>1, <2>2, <2>3, <2>4
<1>12. ASSUME NEW w \in Processes, E!Replace(w) \/ E!RemoveLinks(w) \/ E!FailJob(w)
       PROVE  Kept
  BY <1>10, <1>12 DEF E!Replace, E!RemoveLinks, E!FailJob
<1>13. ASSUME NEW m \in Mems, E!Backfill(m) \/ E!ComesDue(m) \/ E!LeaseEnds(m)
       PROVE  Kept
  BY <1>5, <1>13 DEF E!Backfill, E!ComesDue, E!LeaseEnds
<1> HIDE DEF Kept
<1>14. Kept
  BY <1>2, <1>3, <1>4, <1>5, <1>7, <1>8, <1>9, <1>11, <1>12, <1>13 DEF E!Next, E!Step, evars
<1> QED
  BY <1>14 DEF Kept

(***************************************************************************)
(* Rows and links.  What a worker writes is for the revision it claimed.   *)
(***************************************************************************)
LEMMA EntityRows ==
  ASSUME EntityInv, [E!Next]_evars
  PROVE  /\ links' \in [Mems -> Texts \cup {None}] /\ passed' \subseteq Mems
         /\ \A m \in Mems : Follows(m)' /\ Linked(m)'
<1> DEFINE Kept == /\ links' \in [Mems -> Texts \cup {None}] /\ passed' \subseteq Mems
                   /\ \A m \in Mems : Follows(m)' /\ Linked(m)'
           Rest(m) == \A n \in Mems \ {m} :
                        /\ sources'[n] = sources[n] /\ queue'[n] = queue[n] /\ links'[n] = links[n]
                        /\ n \in passed => n \in passed'
<1>1. /\ sources \in [Mems -> E!Source] /\ queue \in [Mems -> E!QueueRow]
      /\ links \in [Mems -> Texts \cup {None}] /\ passed \subseteq Mems
      /\ \A m \in Mems : Follows(m) /\ Linked(m)
  BY DEF EntityInv, E!TypeOK
<1>2. sources' \in [Mems -> E!Source] /\ queue' \in [Mems -> E!QueueRow]
  BY EntitySourcesTyped, EntityQueueTyped
<1>3. ASSUME NEW m \in Mems, Rest(m), Follows(m)', Linked(m)',
             links' \in [Mems -> Texts \cup {None}], passed' \subseteq Mems
      PROVE  Kept
  BY <1>1, <1>3 DEF Follows, Linked
<1>4. \A x \in E!Source : /\ E!Enqueued(x).status = "pending"
                          /\ E!Enqueued(x).rev = x.rev /\ E!Enqueued(x).level = x.level
  BY DEF E!Enqueued, E!NoQueueRow
<1>5. ASSUME NEW m \in Mems, NEW t \in Texts, E!StoreSource(m, t)
      PROVE  Kept
  <2>1. /\ queue' = [queue EXCEPT ![m] = E!Enqueued(sources'[m])]
        /\ UNCHANGED <<links, passed>>
    BY <1>5 DEF E!StoreSource
  <2>2. sources'[m].life = "shown" /\ sources'[m].text = t /\ links[m] = None /\ OneSource(m)
    BY <1>1, <1>5, EntityStored DEF Linked
  <2>3. queue'[m] = E!Enqueued(sources'[m]) /\ \A n \in Mems \ {m} : queue'[n] = queue[n]
    BY <1>1, <2>1
  <2>4. Follows(m)' /\ Linked(m)'
    BY <1>2, <1>4, <2>1, <2>2, <2>3 DEF Follows, Linked
  <2> QED
    BY <1>1, <1>3, <2>1, <2>2, <2>3, <2>4 DEF OneSource
<1>6. ASSUME NEW m \in Mems, NEW t \in Texts, NEW l \in {"normal", "sensitive"}, E!ChangeSource(m, t, l)
      PROVE  Kept
  <2>1. /\ queue' = [queue EXCEPT ![m] = E!Enqueued(sources'[m])]
        /\ passed' = passed \ {m} /\ links' = [links EXCEPT ![m] = None]
    BY <1>6 DEF E!ChangeSource, E!LinksDropped
  <2>2. sources'[m].life = "shown" /\ sources'[m].text = t /\ OneSource(m)
    BY <1>6, EntityChanged
  <2>3. queue'[m] = E!Enqueued(sources'[m]) /\ \A n \in Mems \ {m} : queue'[n] = queue[n]
    BY <1>1, <2>1
  <2>4. Follows(m)' /\ Linked(m)'
    BY <1>1, <1>2, <1>4, <2>1, <2>2, <2>3 DEF Follows, Linked
  <2> QED
    BY <1>1, <1>3, <2>1, <2>2, <2>3, <2>4 DEF OneSource
<1>7. ASSUME NEW m \in Mems, E!HideSource(m) \/ E!RestoreSource(m)
      PROVE  Kept
  <2>1. UNCHANGED <<queue, links, passed>>
    BY <1>7 DEF E!HideSource, E!RestoreSource
  <2>2. sources'[m].life # "none"
    BY <1>7, EntityRetired
  <2> QED
    BY <1>1, <1>3, <1>7, <2>1, <2>2, EntityRetired DEF Follows, Linked, OneSource
<1>8. ASSUME NEW m \in Mems, E!EraseSource(m)
      PROVE  Kept
  <2>1. /\ queue' = [queue EXCEPT ![m] = E!NoQueueRow]
        /\ links' = [links EXCEPT ![m] = None] /\ UNCHANGED passed
    BY <1>8 DEF E!EraseSource
  <2>2. queue'[m].status = "none" /\ links'[m] = None
    BY <1>1, <2>1 DEF E!NoQueueRow
  <2> QED
    BY <1>1, <1>3, <1>8, <2>1, <2>2, EntityRetired DEF Follows, Linked, OneSource
<1>9. ASSUME NEW m \in Mems, UNCHANGED <<sources, links>>, passed \subseteq passed', passed' \subseteq Mems,
             \A n \in Mems \ {m} : queue'[n] = queue[n],
             queue'[m].status # "none" =>
               /\ queue[m].status # "none" \/ sources[m].life = "shown"
               /\ queue'[m].rev = sources[m].rev /\ queue'[m].level = sources[m].level,
             queue'[m].status = "done" => queue[m].status = "done"
      PROVE  Kept
  BY <1>1, <1>3, <1>9 DEF Follows, Linked
<1>10. ASSUME NEW m \in Mems, E!Backfill(m)
       PROVE  Kept
  <2>1. queue' = [queue EXCEPT ![m] = E!Enqueued(sources[m])] /\ UNCHANGED <<sources, links, passed>>
    BY <1>10 DEF E!Backfill
  <2>2. queue'[m] = E!Enqueued(sources[m]) /\ \A n \in Mems \ {m} : queue'[n] = queue[n]
    BY <1>1, <2>1
  <2>3. sources[m].life = "shown"
    BY <1>10 DEF E!Backfill
  <2> QED
    BY <1>1, <1>4, <1>9, <2>1, <2>2, <2>3
<1>11. ASSUME NEW m \in Mems, NEW row, row.rev = queue[m].rev, row.level = queue[m].level,
              row.status \notin {"none", "done"}, queue[m].status # "none",
              queue' = [queue EXCEPT ![m] = row], UNCHANGED <<sources, links, passed>>
       PROVE  Kept
  <2>1. queue'[m] = row /\ \A n \in Mems \ {m} : queue'[n] = queue[n]
    BY <1>1, <1>11
  <2> QED
    BY <1>1, <1>9, <1>11, <2>1 DEF Follows
<1>12. ASSUME NEW m \in Mems, E!ComesDue(m) \/ E!LeaseEnds(m)
       PROVE  Kept
  <2>1. PICK row \in {[queue[m] EXCEPT !.due = TRUE], [queue[m] EXCEPT !.overdue = TRUE]} :
          queue' = [queue EXCEPT ![m] = row]
    BY <1>12 DEF E!ComesDue, E!LeaseEnds
  <2>2. queue[m].status \in {"retry", "processing"} /\ UNCHANGED <<sources, links, passed>>
    BY <1>12 DEF E!ComesDue, E!LeaseEnds
  <2>3. row.rev = queue[m].rev /\ row.level = queue[m].level /\ row.status = queue[m].status
    BY <1>1 DEF E!QueueRow
  <2> QED
    BY <1>11, <2>1, <2>2, <2>3
<1>13. ASSUME NEW w \in Processes, NEW m \in Mems, E!Claim(w, m)
       PROVE  Kept
  <2> DEFINE row == [queue[m] EXCEPT !.status = "processing", !.attempts = @ + 1, !.overdue = FALSE]
  <2>1. /\ queue' = [queue EXCEPT ![m] = row] /\ UNCHANGED <<sources, links, passed>>
        /\ queue[m].status # "none"
    BY <1>13 DEF E!Claim, E!Claimable
  <2>2. row.rev = queue[m].rev /\ row.level = queue[m].level /\ row.status = "processing"
    BY <1>1 DEF E!QueueRow
  <2> HIDE DEF row
  <2> QED
    BY <1>11, <2>1, <2>2
<1>14. ASSUME UNCHANGED <<sources, queue, links, passed>>
       PROVE  Kept
  BY <1>1, <1>14 DEF Follows, Linked
<1>15. ASSUME NEW w \in Processes, E!FailJob(w)
       PROVE  Kept
  <2> DEFINE m == extractors[w].mem
  <2>1. CASE queue[m].status = "processing" /\ queue[m].rev = extractors[w].rev
    <3>1. m \in Mems /\ queue' = [queue EXCEPT ![m] = E!Failed(queue[m])]
          /\ UNCHANGED <<sources, links, passed>>
      BY <1>15, <2>1 DEF E!FailJob, EntityInv, Knows
    <3>2. /\ E!Failed(queue[m]).rev = queue[m].rev /\ E!Failed(queue[m]).level = queue[m].level
          /\ E!Failed(queue[m]).status \in {"dead", "retry"}
      BY <1>1, <3>1 DEF E!QueueRow, E!Failed
    <3> QED
      BY <1>11, <2>1, <3>1, <3>2
  <2> QED
    BY <1>14, <1>15, <2>1 DEF E!FailJob
<1>16. ASSUME NEW m \in Mems, sources[m].life # "none", NEW link \in Texts \cup {None},
              link # None => link = sources[m].text /\ sources[m].level = "normal",
              sources[m].level = "normal" => link # None \/ m \in passed',
              \A n \in Mems \ {m} : n \in passed => n \in passed', passed' \subseteq Mems,
              links' = [links EXCEPT ![m] = link], queue' = [queue EXCEPT ![m].status = "done"],
              UNCHANGED sources, queue[m].status # "none"
       PROVE  Kept
  <2>1. [queue[m] EXCEPT !.status = "done"].rev = queue[m].rev
        /\ [queue[m] EXCEPT !.status = "done"].level = queue[m].level
    BY <1>1 DEF E!QueueRow
  <2>2. /\ queue'[m].rev = queue[m].rev /\ queue'[m].level = queue[m].level
        /\ \A n \in Mems \ {m} : queue'[n] = queue[n]
    BY <1>1, <1>16, <2>1
  <2>3. links' \in [Mems -> Texts \cup {None}] /\ links'[m] = link
        /\ \A n \in Mems \ {m} : links'[n] = links[n]
    BY <1>1, <1>16
  <2>4. Follows(m)' /\ Linked(m)'
    BY <1>1, <1>16, <2>2, <2>3 DEF Follows, Linked
  <2> QED
    BY <1>3, <1>16, <2>2, <2>3, <2>4
<1>17. ASSUME NEW w \in Processes, E!Replace(w)
       PROVE  Kept
  <2> DEFINE m == extractors[w].mem
  <2>1. CASE E!Closable(m, extractors[w].rev)
    <3>1. /\ m \in Mems /\ sources[m].life # "none" /\ queue[m].status = "processing"
          /\ sources[m].rev = extractors[w].rev /\ extractors[w] \in E!Extractor
      BY <1>17, <2>1 DEF E!Replace, E!Closable, E!Fresh, EntityInv, E!TypeOK, Knows
    <3>2. /\ links' = [links EXCEPT ![m] = IF E!Eligible(sources[m]) THEN extractors[w].text ELSE None]
          /\ queue' = [queue EXCEPT ![m].status = "done"] /\ UNCHANGED sources
          /\ passed' = IF E!Eligible(sources[m]) /\ extractors[w].stage = "extracted"
                       THEN passed \ {m} ELSE passed \cup {m}
      BY <1>17, <2>1 DEF E!Replace
    <3>3. PICK link \in Texts \cup {None} :
            link = IF E!Eligible(sources[m]) THEN extractors[w].text ELSE None
      BY <3>1 DEF E!Extractor
    <3>4. extractors[w].stage = "extracted" => extractors[w].text # None /\ extractors[w].text = sources[m].text
      BY <1>17, <3>1 DEF EntityInv, Knows, Reading
    <3>5. extractors[w].stage # "extracted" => extractors[w].text = None
      BY <1>17, <3>1 DEF E!Replace, EntityInv, Knows, Reading
    <3>6. link # None => link = sources[m].text /\ sources[m].level = "normal"
      BY <3>3, <3>4, <3>5 DEF E!Eligible
    <3>7. sources[m].level = "normal" => link # None \/ m \in passed'
      BY <3>2, <3>3, <3>4
    <3> QED
      BY <1>1, <1>16, <3>1, <3>2, <3>3, <3>6, <3>7
  <2> QED
    BY <1>14, <1>17, <2>1 DEF E!Replace
<1>18. ASSUME NEW w \in Processes, E!RemoveLinks(w)
       PROVE  Kept
  <2> DEFINE m == extractors[w].mem
  <2>1. CASE E!Fresh(m, extractors[w].rev) /\ ~E!Eligible(sources[m])
    <3>1. /\ m \in Mems /\ sources[m].life # "none" /\ queue[m].status = "processing"
          /\ sources[m].level # "normal"
      BY <1>18, <2>1 DEF E!RemoveLinks, E!Fresh, EntityInv, Knows
    <3>2. /\ links' = [links EXCEPT ![m] = None]
          /\ queue' = [queue EXCEPT ![m].status = "done"] /\ UNCHANGED <<sources, passed>>
      BY <1>18, <2>1 DEF E!RemoveLinks
    <3> QED
      BY <1>1, <1>16, <3>1, <3>2
  <2> QED
    BY <1>14, <1>18, <2>1 DEF E!RemoveLinks
<1>19. ASSUME NEW w \in Processes, E!Load(w) \/ E!Extract(w) \/ E!Start(w) \/ E!Crash(w)
       PROVE  Kept
  BY <1>14, <1>19 DEF E!Load, E!Extract, E!Start, E!Crash
<1> HIDE DEF Kept
<1>20. Kept
  BY <1>5, <1>6, <1>7, <1>8, <1>10, <1>12, <1>13, <1>14, <1>15, <1>17, <1>18, <1>19 DEF E!Next, E!Step, evars
<1> QED
  BY <1>20 DEF Kept

(***************************************************************************)
(* The queue as a whole.                                                   *)
(***************************************************************************)
LEMMA EntityInit ==
  ASSUME E!Init
  PROVE  EntityInv
<1> DEFINE Fresh == {E!NoSource} \cup {[E!NoSource EXCEPT !.life = "shown", !.text = t] : t \in Texts}
<1>1. \A x \in Fresh : x \in E!Source /\ (x.life = "none" \/ x.text # None)
  <2>1. \A t \in Texts : [E!NoSource EXCEPT !.life = "shown", !.text = t] \in E!Source
    BY EntityRecords DEF E!NoSource, E!Source
  <2>2. \A t \in Texts : [E!NoSource EXCEPT !.life = "shown", !.text = t].text = t
    BY DEF E!NoSource
  <2>3. E!NoSource.life = "none"
    BY DEF E!NoSource
  <2> QED
    BY <2>1, <2>2, <2>3, EntityRecords
<1>2. sources \in [Mems -> Fresh]
  BY DEF E!Init
<1> HIDE DEF Fresh
<1>3. E!TypeOK
  <2>1. sources \in [Mems -> E!Source]
    BY <1>1, <1>2
  <2>2. /\ queue \in [Mems -> E!QueueRow] /\ links \in [Mems -> Texts \cup {None}]
        /\ extractors \in [Processes -> E!Extractor] /\ passed \subseteq Mems
    BY EntityRecords DEF E!Init
  <2>3. mishaps \in 0..EntityFaults
    <3>1. mishaps = 0
      BY DEF E!Init
    <3> QED
      BY <3>1
  <2> QED
    BY <2>1, <2>2, <2>3 DEF E!TypeOK
<1>4. \A w \in Processes : Knows(w)
  BY DEF E!Init, Knows, Reading, E!Free
<1>5. ASSUME NEW m \in Mems
      PROVE  Follows(m) /\ Linked(m)
  <2>1. sources[m].life \in {"shown", "hidden"} => sources[m].text # None
    BY <1>1, <1>2
  <2>2. queue[m].status = "none" /\ links[m] = None
    BY <1>5 DEF E!Init, E!NoQueueRow
  <2> QED
    BY <2>1, <2>2 DEF Follows, Linked
<1> QED
  BY <1>3, <1>4, <1>5 DEF EntityInv

LEMMA EntityMishaps ==
  ASSUME EntityInv, [E!Next]_evars
  PROVE  mishaps' \in 0..EntityFaults
<1>1. mishaps \in 0..EntityFaults
  BY DEF EntityInv, E!TypeOK
<1>2. ASSUME NEW m \in Mems, E!LeaseEnds(m)
      PROVE  mishaps' \in 0..EntityFaults
  <2>1. mishaps' = mishaps \/ (mishaps < EntityFaults /\ mishaps' = mishaps + 1)
    BY <1>2 DEF E!LeaseEnds
  <2> QED
    BY <1>1, <2>1
<1>3. ASSUME NEW w \in Processes, E!Crash(w)
      PROVE  mishaps' \in 0..EntityFaults
  BY <1>1, <1>3 DEF E!Crash
<1> QED
  BY <1>1, <1>2, <1>3 DEF E!Next, E!Step, evars, E!StoreSource, E!ChangeSource, E!HideSource, E!RestoreSource,
     E!EraseSource, E!Backfill, E!ComesDue, E!Claim, E!Load, E!Extract, E!Replace, E!RemoveLinks,
     E!FailJob, E!Start

LEMMA EntityStep ==
  ASSUME EntityInv, [E!Next]_evars
  PROVE  EntityInv'
<1>1. E!TypeOK'
  BY EntitySourcesTyped, EntityQueueTyped, EntityWorkers, EntityRows, EntityMishaps DEF E!TypeOK
<1> QED
  BY <1>1, EntityWorkers, EntityRows DEF EntityInv

LEMMA EntityAlways == Spec => []EntityInv
<1>1. Init => EntityInv
  BY EntityInit DEF Init
<1>2. EntityInv /\ [Next]_vars => EntityInv'
  <2> SUFFICES ASSUME EntityInv, [Next]_vars PROVE [E!Next]_evars
    BY EntityStep
  <2> QED
    BY DEF Next, vars, Entities, Browser, Plex, Rollup, Embedding, Server, evars, E!evars
<1> QED
  BY <1>1, <1>2, PTL DEF Spec

\* The links of a memory are those of its text, and one that counts as indexed has some.
LEMMA EntityCurrent ==
  EntityInv => E!TypeOK /\ E!LinksSayCurrentContent /\ E!IndexedIsTraversed
<1> SUFFICES ASSUME EntityInv PROVE E!TypeOK /\ E!LinksSayCurrentContent /\ E!IndexedIsTraversed
  OBVIOUS
<1>1. E!LinksSayCurrentContent
  BY DEF EntityInv, Linked, E!LinksSayCurrentContent
<1>2. E!IndexedIsTraversed
  BY DEF EntityInv, Linked, Follows, E!IndexedIsTraversed, E!Traversed, E!Unindexed, E!Eligible
<1> QED
  BY <1>1, <1>2 DEF EntityInv

(***************************************************************************)
(* The connector of browser history.                                       *)
(***************************************************************************)
Seen(c) == \A v \in profile : v <= c => v \in activity \cup late \cup Private

\* What a process knows: what precedes the cursor it read is stored or private, and a page is
\* all the profile had beyond it, up to the end of the page, when it was fetched.
Pages(x) ==
  /\ x.before \in profile \cup {0}
  /\ x.page \subseteq profile
  /\ ~x.dry => Seen(x.before)
  /\ x.stage = "fetching" => x.tries < MaxTries
  /\ x.stage = "fetched" /\ ~x.dry =>
       \A u \in x.page, v \in profile : x.before < v /\ v <= u => v \in x.page \cup late

VisitInv ==
  /\ C!TypeOK
  /\ cursor \in profile \cup {0}
  /\ Seen(cursor)
  /\ \A s \in Processes : Pages(syncs[s])

USE VisitAssumption

LEMMA VisitOperators ==
  /\ \A S : C!Cardinality(S) = Cardinality(S)
  /\ \A S : C!Max(S) = Max(S)
<1>1. \A S : C!Cardinality(S) = Cardinality(S)
  BY Zenon DEF C!Cardinality, Cardinality
<1>2. \A S : C!Max(S) = Max(S)
  BY DEF C!Max, Max
<1> QED
  BY <1>1, <1>2

LEMMA VisitTypes ==
  ASSUME VisitInv
  PROVE  /\ profile \subseteq Int /\ \A v \in profile : v > 0
         /\ cursor \in Int /\ IsFiniteSet(profile)
         /\ \A s \in Processes : syncs[s] \in C!Sync /\ syncs[s].before \in Int
         /\ syncs \in [Processes -> C!Sync]
         /\ activity \subseteq profile /\ late \subseteq profile
         /\ \A c \in profile \cup {0} : c \in C!Cursors
         /\ 0 \in 0..MaxTries /\ 0 \in 0..MaxPages
<1>1. C!Visits = 1..LastVisit /\ C!Cursors = 0..LastVisit
  BY DEF C!Visits, C!Cursors
<1>2. IsFiniteSet(profile)
  <2>1. IsFiniteSet(1..LastVisit)
    BY FS_Interval
  <2>2. profile \subseteq 1..LastVisit
    BY <1>1 DEF VisitInv, C!TypeOK
  <2> QED
    BY ONLY <2>1, <2>2, FS_Subset
<1>3. syncs \in [Processes -> C!Sync]
  BY DEF VisitInv, C!TypeOK
<1>4. \A x \in C!Sync : x.before \in Int
  BY <1>1 DEF C!Sync
<1>5. \A v \in profile : v \in 1..LastVisit
  BY <1>1 DEF VisitInv, C!TypeOK
<1>6. \A c \in profile \cup {0} : c \in C!Cursors
  BY <1>1, <1>5
<1>7. 0 \in 0..MaxTries /\ 0 \in 0..MaxPages
  OBVIOUS
<1>8. profile \subseteq Int /\ \A v \in profile : v > 0
  BY <1>5
<1>9. cursor \in Int
  BY <1>1 DEF VisitInv, C!TypeOK
<1> QED
  BY <1>2, <1>3, <1>4, <1>6, <1>7, <1>8, <1>9 DEF VisitInv, C!TypeOK

\* A step of one process, or of none: what it does to the rest of the state.
LEMMA VisitSync ==
  ASSUME VisitInv, NEW s \in Processes, NEW x \in C!Sync, syncs' = [syncs EXCEPT ![s] = x],
         Pages(syncs[s])', UNCHANGED <<profile, late>>,
         activity \subseteq activity', activity' \subseteq profile,
         cursor' \in profile \cup {0}, Seen(cursor)',
         session' \in {session, s, None}, troubles' \in 0..MaxTroubles
  PROVE  VisitInv'
<1>1. /\ syncs' \in [Processes -> C!Sync] /\ syncs'[s] = x
      /\ \A r \in Processes \ {s} : syncs'[r] = syncs[r]
  BY VisitTypes
<1>2. C!TypeOK'
  <2>1. cursor' \in C!Cursors
    BY DEF VisitInv, C!TypeOK, C!Cursors, C!Visits
  <2> QED
    BY <1>1, <2>1 DEF VisitInv, C!TypeOK
<1>3. ASSUME NEW r \in Processes PROVE Pages(syncs[r])'
  BY <1>1 DEF VisitInv, Pages, Seen
<1> QED
  BY <1>2, <1>3 DEF VisitInv

\* A process that stops.
LEMMA VisitStops ==
  ASSUME VisitInv, NEW s \in Processes, C!Stop(s), UNCHANGED <<profile, late>>,
         activity \subseteq activity', activity' \subseteq profile,
         cursor' \in profile \cup {0}, Seen(cursor)',
         session' \in {session, s, None}, troubles' \in 0..MaxTroubles
  PROVE  VisitInv'
<1>1. C!AtRest \in C!Sync
  BY DEF C!AtRest, C!Sync, C!Cursors, C!Visits
<1>2. syncs' = [syncs EXCEPT ![s] = C!AtRest] /\ syncs'[s] = C!AtRest
  BY VisitTypes DEF C!Stop
<1>3. Pages(syncs[s])'
  BY <1>2, VisitTypes DEF C!AtRest, Pages, Seen
<1> QED
  BY <1>1, <1>2, <1>3, VisitSync

LEMMA VisitBrowse ==
  ASSUME VisitInv, NEW v \in C!Visits, C!Browse(v)
  PROVE  VisitInv'
<1>1. /\ v \in Int /\ v > 0 /\ v \notin profile /\ profile' = profile \cup {v}
      /\ late' = IF \E u \in profile : u > v THEN late \cup {v} ELSE late
      /\ UNCHANGED <<activity, cursor, session, syncs, troubles>>
  BY DEF C!Browse, C!Visits
<1>2. C!TypeOK'
  BY <1>1 DEF VisitInv, C!TypeOK
<1>3. ASSUME NEW c \in profile \cup {0}, Seen(c)
      PROVE  Seen(c)'
  BY <1>1, <1>3, VisitTypes DEF Seen
<1>4. ASSUME NEW s \in Processes
      PROVE  Pages(syncs[s])'
  <2>1. ~syncs[s].dry => Seen(syncs[s].before)'
    BY <1>3, <1>1 DEF VisitInv, Pages, Seen
  <2>2. ASSUME syncs[s].stage = "fetched", ~syncs[s].dry, NEW u \in syncs[s].page, NEW w \in profile',
               syncs[s].before < w, w <= u
        PROVE  w \in syncs[s].page \cup late'
    BY <1>1, <2>2, VisitTypes DEF VisitInv, Pages
  <2> QED
    BY <1>1, <2>1, <2>2 DEF VisitInv, Pages, Seen
<1>5. Seen(cursor)'
  BY <1>1, <1>3 DEF VisitInv, Seen
<1> QED
  BY <1>1, <1>2, <1>4, <1>5 DEF VisitInv

\* A page holds all that the profile has beyond the cursor up to its end.
LEMMA VisitPages ==
  ASSUME VisitInv, NEW c \in profile \cup {0}
  PROVE  /\ C!Page(c) \subseteq profile
         /\ \A u \in C!Page(c), v \in profile : c < v /\ v <= u => v \in C!Page(c)
<1> DEFINE Before(v) == {w \in C!Beyond(c) : w < v}
<1>1. c \in Int /\ profile \subseteq Int /\ IsFiniteSet(profile)
  BY VisitTypes
<1>2. C!Beyond(c) \subseteq profile /\ C!Page(c) \subseteq profile
  BY DEF C!Beyond, C!Page
<1>3. ASSUME NEW u \in C!Page(c), NEW v \in profile, c < v, v <= u
      PROVE  v \in C!Page(c)
  <2>1. Before(v) \subseteq Before(u) /\ Before(u) \subseteq profile
    <3>1. u \in Int /\ v \in Int /\ \A w \in C!Beyond(c) : w \in Int
      BY <1>1, <1>2, <1>3
    <3>2. \A w \in C!Beyond(c) : w < v => w < u
      BY <1>3, <3>1
    <3> QED
      BY <1>2, <3>2
  <2>2. IsFiniteSet(Before(u)) /\ IsFiniteSet(Before(v))
    BY ONLY <1>1, <2>1, FS_Subset
  <2>3. Cardinality(Before(v)) <= Cardinality(Before(u))
    BY ONLY <2>1, <2>2, FS_Subset
  <2>4. Cardinality(Before(u)) < VisitPage
    BY <1>3, VisitOperators DEF C!Page
  <2>5. Cardinality(Before(u)) \in Nat /\ Cardinality(Before(v)) \in Nat
    BY ONLY <2>2, FS_CardinalityType
  <2>6. Cardinality(Before(v)) < VisitPage
    BY <2>3, <2>4, <2>5
  <2>7. v \in C!Beyond(c)
    BY <1>3 DEF C!Beyond
  <2> QED
    BY <2>6, <2>7, VisitOperators DEF C!Page
<1> QED
  BY <1>2, <1>3

\* The end of a page is the cursor it was fetched for or the last visit of the page.
LEMMA VisitPageEnd ==
  ASSUME VisitInv, NEW s \in Processes
  PROVE  /\ C!PageEnd(s) \in profile \cup {0}
         /\ syncs[s].page = {} => C!PageEnd(s) = syncs[s].before
         /\ syncs[s].page # {} =>
              C!PageEnd(s) \in syncs[s].page /\ \A u \in syncs[s].page : u <= C!PageEnd(s)
<1>1. syncs[s].page \subseteq profile /\ syncs[s].before \in profile \cup {0}
  BY DEF VisitInv, Pages
<1>2. syncs[s].page \subseteq Int /\ IsFiniteSet(syncs[s].page)
  BY <1>1, VisitTypes, FS_Subset
<1>3. CASE syncs[s].page = {}
  BY <1>1, <1>3 DEF C!PageEnd
<1>4. CASE syncs[s].page # {}
  <2>1. C!PageEnd(s) = Max(syncs[s].page)
    BY <1>4, VisitOperators DEF C!PageEnd
  <2> QED
    BY <1>1, <1>2, <1>4, <2>1, MaxIsGreatest
<1> QED
  BY <1>3, <1>4

\* After a page that was fetched, all up to its end is stored, late or private.
LEMMA VisitPageStored ==
  ASSUME VisitInv, NEW s \in Processes, syncs[s].stage = "fetched", ~syncs[s].dry,
         UNCHANGED <<profile, late>>, activity' = activity \cup (syncs[s].page \ Private)
  PROVE  \A v \in profile : v <= C!PageEnd(s) => v \in activity' \cup late \cup Private
<1>1. /\ syncs[s].page \subseteq profile /\ Seen(syncs[s].before) /\ syncs[s].before \in Int
      /\ \A u \in syncs[s].page, v \in profile :
           syncs[s].before < v /\ v <= u => v \in syncs[s].page \cup late
  BY VisitTypes DEF VisitInv, Pages
<1>2. \A v \in profile : v <= C!PageEnd(s) => v \in activity' \cup late \cup Private
  <2> SUFFICES ASSUME NEW v \in profile, v <= C!PageEnd(s)
               PROVE  v \in activity' \cup late \cup Private
    OBVIOUS
  <2>1. CASE v <= syncs[s].before
    BY <1>1, <2>1 DEF Seen
  <2>2. CASE ~(v <= syncs[s].before)
    <3>1. v \in Int /\ syncs[s].before < v
      BY <1>1, <2>2, VisitTypes
    <3>2. syncs[s].page # {}
      BY <2>2, VisitPageEnd
    <3> QED
      BY <1>1, <3>1, <3>2, VisitPageEnd
  <2> QED
    BY <2>1, <2>2
<1> QED
  BY <1>2

\* A process that goes on to its next page.
LEMMA VisitContinues ==
  ASSUME VisitInv, NEW s \in Processes, C!Continued(s), UNCHANGED <<profile, late>>,
         activity \subseteq activity', activity' \subseteq profile,
         cursor' \in profile \cup {0}, Seen(cursor)',
         session' \in {session, s, None}, troubles' \in 0..MaxTroubles
  PROVE  VisitInv'
<1>1. CASE C!Stop(s)
  BY <1>1, VisitStops
<1>2. CASE ~C!Stop(s)
  <2> DEFINE x == [C!AtRest EXCEPT
                     !.stage = IF syncs[s].dry THEN "fetching" ELSE "paging", !.dry = syncs[s].dry,
                     !.before = IF syncs[s].dry THEN C!PageEnd(s) ELSE 0, !.pages = syncs[s].pages + 1]
  <2>1. syncs' = [syncs EXCEPT ![s] = x] /\ ~(syncs[s].pages + 1 >= MaxPages)
    BY <1>2 DEF C!Continued
  <2>2. syncs[s] \in C!Sync /\ syncs[s].pages + 1 \in 0..MaxPages
    BY <2>1, VisitTypes DEF C!Sync
  <2>3. C!PageEnd(s) \in profile \cup {0} /\ C!PageEnd(s) \in C!Cursors /\ 0 \in C!Cursors
    BY VisitPageEnd, VisitTypes
  <2>4. x \in C!Sync
    BY <2>2, <2>3, VisitTypes DEF C!Sync, C!AtRest
  <2>5. /\ x.before \in profile \cup {0} /\ x.page = {} /\ x.stage \in {"fetching", "paging"}
        /\ x.tries = 0 /\ (~x.dry => x.before = 0)
    BY <2>2, <2>3 DEF C!Sync, C!AtRest
  <2> HIDE DEF x
  <2>6. Pages(syncs[s])'
    <3>1. \A v \in profile : ~(v <= 0)
      BY VisitTypes
    <3> QED
      BY <2>1, <2>5, <3>1, VisitTypes DEF Pages, Seen
  <2> QED
    BY <2>1, <2>4, <2>6, VisitSync
<1> QED
  BY <1>1, <1>2

LEMMA VisitStep ==
  ASSUME VisitInv, [C!Next]_cvars
  PROVE  VisitInv'
<1>1. CASE UNCHANGED cvars
  BY <1>1 DEF cvars, VisitInv, C!TypeOK, Pages, Seen
<1>2. /\ syncs \in [Processes -> C!Sync] /\ \A s \in Processes : syncs[s] \in C!Sync /\ Pages(syncs[s])
      /\ cursor \in profile \cup {0} /\ Seen(cursor) /\ cursor \in C!Cursors
      /\ troubles \in 0..MaxTroubles /\ activity \subseteq profile
  BY VisitTypes DEF VisitInv, C!TypeOK
<1>3. ASSUME NEW s \in Processes, NEW dry \in BOOLEAN, C!Begin(s, dry)
      PROVE  VisitInv'
  <2> DEFINE x == [C!AtRest EXCEPT !.stage = IF dry THEN "fetching" ELSE "paging",
                                   !.dry = dry, !.before = IF dry THEN cursor ELSE 0]
  <2>1. x \in C!Sync
    BY <1>2, VisitTypes DEF C!AtRest, C!Sync
  <2>2. /\ x.before \in profile \cup {0} /\ x.page = {} /\ x.stage \in {"fetching", "paging"}
        /\ x.tries = 0 /\ (~x.dry => x.before = 0)
    BY <1>2 DEF C!AtRest
  <2>3. syncs' = [syncs EXCEPT ![s] = x] /\ UNCHANGED <<profile, late, activity, cursor, session, troubles>>
    BY <1>3 DEF C!Begin
  <2> HIDE DEF x
  <2>4. Pages(syncs[s])' /\ Seen(cursor)'
    <3>1. \A v \in profile : ~(v <= 0)
      BY VisitTypes
    <3> QED
      BY <1>2, <2>2, <2>3, <3>1 DEF Pages, Seen
  <2> QED
    BY <1>2, <2>1, <2>3, <2>4, VisitSync
<1>4. ASSUME NEW s \in Processes, C!TakeSession(s)
      PROVE  VisitInv'
  <2>1. /\ UNCHANGED <<profile, late, activity, cursor, troubles>> /\ session' \in {session, s, None}
        /\ Seen(cursor)'
    BY <1>2, <1>4 DEF C!TakeSession, Seen
  <2>2. CASE C!Stop(s)
    BY <1>2, <2>1, <2>2, VisitStops
  <2>3. CASE ~C!Stop(s)
    <3> DEFINE x == [syncs[s] EXCEPT !.stage = "reading"]
    <3>1. syncs' = [syncs EXCEPT ![s] = x]
      BY <1>4, <2>3 DEF C!TakeSession
    <3>2. x \in C!Sync /\ x.stage = "reading" /\ x.before = syncs[s].before /\ x.page = syncs[s].page
          /\ x.dry = syncs[s].dry
      BY <1>2 DEF C!Sync
    <3> HIDE DEF x
    <3>3. Pages(syncs[s])'
      <4>1. syncs'[s] = x /\ Pages(syncs[s])
        BY <1>2, <3>1
      <4> QED
        BY <2>1, <3>2, <4>1 DEF Pages, Seen
    <3> QED
      BY <1>2, <2>1, <3>1, <3>2, <3>3, VisitSync
  <2> QED
    BY <2>2, <2>3
<1>5. ASSUME NEW s \in Processes, C!ReadCursor(s)
      PROVE  VisitInv'
  <2> DEFINE x == [syncs[s] EXCEPT !.stage = "fetching", !.before = cursor, !.tries = 0]
  <2>1. syncs' = [syncs EXCEPT ![s] = x] /\ UNCHANGED <<profile, late, activity, cursor, session, troubles>>
    BY <1>5 DEF C!ReadCursor
  <2>2. /\ x \in C!Sync /\ x.stage = "fetching" /\ x.before = cursor /\ x.page = syncs[s].page
        /\ x.tries = 0
    BY <1>2, VisitTypes DEF C!Sync
  <2> HIDE DEF x
  <2>3. Pages(syncs[s])' /\ Seen(cursor)'
    BY <1>2, <2>1, <2>2 DEF Pages, Seen
  <2> QED
    BY <1>2, <2>1, <2>2, <2>3, VisitSync
<1>6. ASSUME NEW s \in Processes, C!Fetch(s)
      PROVE  VisitInv'
  <2> DEFINE page == C!Page(syncs[s].before)
             x == [syncs[s] EXCEPT !.stage = "fetched", !.page = page, !.tries = syncs[s].tries + 1]
  <2>1. syncs' = [syncs EXCEPT ![s] = x] /\ UNCHANGED <<profile, late, activity, cursor, session, troubles>>
    BY <1>6 DEF C!Fetch
  <2>2. syncs[s].tries + 1 \in 0..MaxTries
    BY <1>2, <1>6 DEF C!Fetch, Pages, C!Sync
  <2>3. /\ page \subseteq profile /\ page \in SUBSET C!Visits
        /\ \A u \in page, v \in profile : syncs[s].before < v /\ v <= u => v \in page
    BY <1>2, VisitPages DEF Pages, VisitInv, C!TypeOK
  <2> HIDE DEF page
  <2>4. /\ x \in C!Sync /\ x.stage = "fetched" /\ x.before = syncs[s].before /\ x.page = page
        /\ x.dry = syncs[s].dry
    BY <1>2, <2>2, <2>3 DEF C!Sync
  <2> HIDE DEF x
  <2>5. Pages(syncs[s])' /\ Seen(cursor)'
    BY <1>2, <2>1, <2>3, <2>4 DEF Pages, Seen
  <2> QED
    BY <1>2, <2>1, <2>4, <2>5, VisitSync
<1>7. ASSUME NEW s \in Processes, NEW transient \in BOOLEAN, C!FetchFails(s, transient)
      PROVE  VisitInv'
  <2>1. /\ UNCHANGED <<profile, late, activity, cursor>> /\ session' \in {session, s, None}
        /\ Seen(cursor)' /\ troubles' \in 0..MaxTroubles
    BY <1>2, <1>7 DEF C!FetchFails, Seen, C!Released
  <2>2. CASE C!Stop(s)
    BY <1>2, <2>1, <2>2, VisitStops
  <2>3. CASE ~C!Stop(s)
    <3> DEFINE x == [syncs[s] EXCEPT !.tries = syncs[s].tries + 1]
    <3>1. syncs' = [syncs EXCEPT ![s] = x] /\ syncs[s].tries + 1 < MaxTries /\ syncs[s].stage = "fetching"
      BY <1>7, <2>3 DEF C!FetchFails
    <3>2. syncs[s].tries + 1 \in 0..MaxTries
      BY <1>2, <3>1 DEF C!Sync
    <3>3. /\ x \in C!Sync /\ x.stage = "fetching" /\ x.before = syncs[s].before /\ x.page = syncs[s].page
          /\ x.dry = syncs[s].dry /\ x.tries = syncs[s].tries + 1
      BY <1>2, <3>1, <3>2 DEF C!Sync
    <3> HIDE DEF x
    <3>4. Pages(syncs[s])'
      BY <1>2, <2>1, <3>1, <3>3 DEF Pages, Seen
    <3> QED
      BY <1>2, <2>1, <3>1, <3>3, <3>4, VisitSync
  <2> QED
    BY <2>2, <2>3
<1>8. ASSUME NEW s \in Processes, C!CommitPage(s)
      PROVE  VisitInv'
  <2>1. /\ UNCHANGED <<profile, late, troubles>> /\ session' \in {session, s, None}
        /\ syncs[s].stage = "fetched" /\ ~syncs[s].dry
    BY <1>8 DEF C!CommitPage, C!Released
  <2>2. CASE C!Overtaken(s)
    <3>1. C!Stop(s) /\ UNCHANGED <<activity, cursor>>
      BY <1>8, <2>2 DEF C!CommitPage
    <3>2. Seen(cursor)'
      BY <1>2, <2>1, <3>1 DEF Seen
    <3> QED
      BY <1>2, <2>1, <3>1, <3>2, VisitStops
  <2>3. CASE ~C!Overtaken(s)
    <3>1. /\ activity' = activity \cup (syncs[s].page \ Private) /\ cursor' = C!PageEnd(s)
          /\ C!Continued(s)
      BY <1>8, <2>3 DEF C!CommitPage, C!Upsert, C!Stored, C!AdvanceState
    <3>2. Seen(cursor)'
      BY <2>1, <3>1, VisitPageStored DEF Seen
    <3>3. cursor' \in profile \cup {0}
      BY <3>1, VisitPageEnd
    <3>4. activity' \subseteq profile
      BY <1>2, <3>1 DEF Pages
    <3> QED
      BY <1>2, <2>1, <3>1, <3>2, <3>3, <3>4, VisitContinues
  <2> QED
    BY <2>2, <2>3
<1>9. ASSUME NEW s \in Processes, C!SkipPage(s)
      PROVE  VisitInv'
  <2>1. /\ UNCHANGED <<profile, late, activity, cursor, session, troubles>> /\ C!Continued(s)
        /\ Seen(cursor)'
    BY <1>2, <1>9 DEF C!SkipPage, Seen
  <2> QED
    BY <1>2, <2>1, VisitContinues
<1>10. ASSUME NEW s \in Processes, C!Abort(s)
       PROVE  VisitInv'
  <2>1. /\ UNCHANGED <<profile, late, activity, cursor>> /\ session' \in {session, s, None}
        /\ Seen(cursor)' /\ troubles' \in 0..MaxTroubles /\ C!Stop(s)
    BY <1>2, <1>10 DEF C!Abort, Seen, C!Released
  <2> QED
    BY <1>2, <2>1, VisitStops
<1> QED
  BY <1>1, <1>3, <1>4, <1>5, <1>6, <1>7, <1>8, <1>9, <1>10, VisitBrowse DEF C!Next, C!Step

LEMMA VisitInit ==
  ASSUME C!Init
  PROVE  VisitInv
<1>1. C!AtRest \in C!Sync
  BY DEF C!AtRest, C!Sync, C!Cursors, C!Visits
<1>2. C!TypeOK
  <2>1. troubles = 0 /\ cursor = 0 /\ syncs = [s \in Processes |-> C!AtRest]
    BY DEF C!Init
  <2>2. troubles \in 0..MaxTroubles /\ cursor \in C!Cursors /\ syncs \in [Processes -> C!Sync]
    BY <1>1, <2>1 DEF C!Cursors
  <2> QED
    BY <2>2 DEF C!Init, C!TypeOK
<1>3. Seen(cursor) /\ cursor = 0
  BY DEF C!Init, Seen
<1>4. ASSUME NEW s \in Processes PROVE Pages(syncs[s])
  <2>1. syncs[s] = C!AtRest /\ profile = {}
    BY DEF C!Init
  <2> QED
    BY <2>1 DEF C!AtRest, Pages, Seen
<1> QED
  BY <1>2, <1>3, <1>4 DEF VisitInv

LEMMA VisitAlways == Spec => []VisitInv
<1>1. Init => VisitInv
  BY VisitInit DEF Init
<1>2. VisitInv /\ [Next]_vars => VisitInv'
  <2> SUFFICES ASSUME VisitInv, [Next]_vars PROVE [C!Next]_cvars
    BY VisitStep
  <2> QED
    BY DEF Next, vars, Entities, Browser, Plex, Rollup, Embedding, Server, cvars, C!cvars
<1> QED
  BY <1>1, <1>2, PTL DEF Spec

(***************************************************************************)
(* The memories and the profile that are derived from media events.        *)
(***************************************************************************)

\* An event that has a memory, or had one, keeps it: the row is never erased, as the event
\* refers to it.
MadeOnce ==
  \A e \in U!Events : /\ made[e] <= 1
                      /\ made[e] > 0 => memoryOf[e] # "none"
                      /\ memoryOf[e] # "none" => e \in mediaEvents

RollupInv ==
  /\ U!TypeOK
  /\ MadeOnce
  /\ \A p \in Processes : passes[p].todo \subseteq mediaEvents

USE RollupAssumption

LEMMA RollupOperators ==
  /\ \A S : U!Cardinality(S) = Cardinality(S)
  /\ \A S : U!Min(S) = Min(S)
<1>1. \A S : U!Cardinality(S) = Cardinality(S)
  BY Zenon DEF U!Cardinality, Cardinality
<1>2. \A S : U!Min(S) = Min(S)
  BY DEF U!Min, Min
<1> QED
  BY <1>1, <1>2

LEMMA RollupTypes ==
  ASSUME RollupInv
  PROVE  /\ mediaEvents \subseteq U!Events /\ IsFiniteSet(mediaEvents) /\ mediaEvents \subseteq Int
         /\ U!Aggregate \in 0..LastEvent
         /\ passes \in [Processes -> U!Pass]
         /\ \A p \in Processes : passes[p] \in U!Pass /\ passes[p].todo \subseteq mediaEvents
         /\ U!Free \in U!Pass /\ U!Free.todo = {}
         /\ memoryOf \in [U!Events -> {"none", "shown", "forgotten"}] /\ made \in [U!Events -> Nat]
         /\ taste \in 0..LastEvent /\ failures \in 0..MaxFailures
<1>1. U!Events = 1..LastEvent /\ mediaEvents \subseteq U!Events
  BY DEF U!Events, RollupInv, U!TypeOK
<1>2. IsFiniteSet(1..LastEvent) /\ Cardinality(1..LastEvent) = LastEvent
  BY FS_Interval
<1>3. IsFiniteSet(mediaEvents) /\ Cardinality(mediaEvents) <= LastEvent
  BY ONLY <1>1, <1>2, FS_Subset
<1>4. Cardinality(mediaEvents) \in Nat
  BY <1>3, FS_CardinalityType
<1>5. U!Aggregate \in 0..LastEvent
  BY <1>3, <1>4, RollupOperators DEF U!Aggregate
<1>6. 0 \in 0..LastEvent /\ 0 \in 0..ProfileCalls
  OBVIOUS
<1>7. U!Free \in U!Pass /\ U!Free.todo = {}
  BY <1>6 DEF U!Free, U!Pass
<1> QED
  BY <1>1, <1>3, <1>5, <1>7 DEF RollupInv, U!TypeOK

\* A step of one process: what it may do to the rest of the state.
LEMMA RollupPass ==
  ASSUME RollupInv, NEW p \in Processes, NEW x \in U!Pass, x.todo \subseteq mediaEvents,
         passes' = [passes EXCEPT ![p] = x], UNCHANGED mediaEvents,
         memoryOf' \in [U!Events -> {"none", "shown", "forgotten"}], made' \in [U!Events -> Nat],
         MadeOnce', taste' \in 0..LastEvent, guard' \in {guard, p, None},
         failures' \in 0..MaxFailures
  PROVE  RollupInv'
<1>1. /\ passes' \in [Processes -> U!Pass] /\ passes'[p] = x
      /\ \A q \in Processes \ {p} : passes'[q] = passes[q]
  BY RollupTypes
<1> QED
  BY <1>1 DEF RollupInv, U!TypeOK

LEMMA RollupEnds ==
  ASSUME RollupInv, NEW p \in Processes, U!End(p), UNCHANGED <<mediaEvents, memoryOf, made>>,
         taste' \in 0..LastEvent, failures' \in 0..MaxFailures
  PROVE  RollupInv'
<1>1. passes' = [passes EXCEPT ![p] = U!Free] /\ guard' \in {guard, p, None}
  BY DEF U!End, U!Release
<1>2. MadeOnce'
  BY DEF MadeOnce, RollupInv
<1> QED
  BY <1>1, <1>2, RollupTypes, RollupPass

\* A pass goes to another stage, or a counter of it to another value.
LEMMA RollupMoves ==
  ASSUME RollupInv, NEW p \in Processes, NEW x \in U!Pass, x.todo \subseteq mediaEvents,
         passes' = [passes EXCEPT ![p] = x], UNCHANGED <<mediaEvents, memoryOf, made, taste>>,
         guard' \in {guard, p, None}, failures' \in 0..MaxFailures
  PROVE  RollupInv'
<1>1. MadeOnce'
  BY DEF MadeOnce, RollupInv
<1> QED
  BY <1>1, RollupTypes, RollupPass

LEMMA RollupNext ==
  ASSUME RollupInv, NEW p \in Processes, U!Rolling(p)
  PROVE  /\ U!Min(passes[p].todo) \in passes[p].todo
         /\ \E x \in U!Pass : x.todo \subseteq mediaEvents /\ U!NextEvent(p) = [passes EXCEPT ![p] = x]
<1>1. /\ passes[p].todo \subseteq mediaEvents /\ passes[p].todo # {}
      /\ passes[p] \in U!Pass /\ IsFiniteSet(mediaEvents) /\ mediaEvents \subseteq Int
  BY RollupTypes DEF U!Rolling
<1>2. IsFiniteSet(passes[p].todo)
  BY ONLY <1>1, FS_Subset
<1>3. U!Min(passes[p].todo) \in passes[p].todo
  BY <1>1, <1>2, MinIsLeast, RollupOperators
<1> DEFINE x == [passes[p] EXCEPT !.stage = "rolling",
                                  !.todo = passes[p].todo \ {U!Min(passes[p].todo)}]
<1>4. x \in U!Pass /\ x.todo \subseteq mediaEvents
  BY <1>1 DEF U!Pass
<1>5. U!NextEvent(p) = [passes EXCEPT ![p] = x]
  BY DEF U!NextEvent
<1> QED
  BY <1>3, <1>4, <1>5

LEMMA RollupEvents ==
  ASSUME RollupInv, NEW e \in U!Events, U!Ingest(e) \/ U!ForgetRollup(e) \/ U!PurgeRollup(e)
  PROVE  RollupInv'
<1>1. CASE U!Ingest(e)
  BY <1>1 DEF U!Ingest, RollupInv, U!TypeOK, MadeOnce
<1>2. CASE U!ForgetRollup(e)
  <2>1. /\ memoryOf' = [memoryOf EXCEPT ![e] = "forgotten"] /\ memoryOf[e] = "shown"
        /\ UNCHANGED <<mediaEvents, made, taste, guard, passes, failures>>
    BY <1>2 DEF U!ForgetRollup
  <2>2. /\ memoryOf' \in [U!Events -> {"none", "shown", "forgotten"}]
        /\ \A d \in U!Events : memoryOf'[d] # "none" <=> memoryOf[d] # "none"
    BY <2>1, RollupTypes
  <2> QED
    BY <2>1, <2>2 DEF RollupInv, U!TypeOK, MadeOnce
<1>3. CASE U!PurgeRollup(e)
  <2>1. U!Referenced(e)
    BY <1>3 DEF U!PurgeRollup, U!Referenced, RollupInv, MadeOnce
  <2>2. /\ memoryOf' = [memoryOf EXCEPT ![e] = memoryOf[e]]
        /\ UNCHANGED <<mediaEvents, made, taste, guard, passes, failures>>
    BY <1>3, <2>1 DEF U!PurgeRollup
  <2>3. memoryOf' = memoryOf
    BY <2>2, RollupTypes
  <2> QED
    BY <2>2, <2>3 DEF RollupInv, U!TypeOK, MadeOnce
<1> QED
  BY <1>1, <1>2, <1>3

LEMMA RollupLinks ==
  ASSUME RollupInv, NEW p \in Processes, U!InsertAndLink(p)
  PROVE  RollupInv'
<1> DEFINE e == U!Min(passes[p].todo)
<1>1. U!Rolling(p) /\ passes' = U!NextEvent(p) /\ UNCHANGED <<mediaEvents, taste, guard, failures>>
  BY DEF U!InsertAndLink
<1>2. e \in mediaEvents /\ e \in U!Events
  BY <1>1, RollupNext, RollupTypes
<1>3. PICK x \in U!Pass : x.todo \subseteq mediaEvents /\ passes' = [passes EXCEPT ![p] = x]
  BY <1>1, RollupNext
<1>4. CASE U!Linkable(e)
  <2>1. /\ memoryOf' = [memoryOf EXCEPT ![e] = "shown"] /\ memoryOf[e] = "none"
        /\ made' = [made EXCEPT ![e] = @ + 1]
    BY <1>4 DEF U!InsertAndLink, U!Linkable
  <2>2. made[e] = 0
    BY <1>2, <2>1, RollupTypes DEF RollupInv, MadeOnce
  <2>3. made' = [made EXCEPT ![e] = 1]
    BY <2>1, <2>2
  <2>4. /\ memoryOf' \in [U!Events -> {"none", "shown", "forgotten"}] /\ made' \in [U!Events -> Nat]
        /\ memoryOf'[e] = "shown" /\ made'[e] = 1
        /\ \A d \in U!Events \ {e} : memoryOf'[d] = memoryOf[d] /\ made'[d] = made[d]
    BY <1>2, <2>1, <2>3, RollupTypes
  <2>5. MadeOnce'
    BY <1>1, <1>2, <2>4 DEF RollupInv, MadeOnce
  <2> QED
    BY <1>1, <1>3, <2>4, <2>5, RollupPass, RollupTypes
<1>5. CASE ~U!Linkable(e)
  <2>1. UNCHANGED <<memoryOf, made>>
    BY <1>5 DEF U!InsertAndLink
  <2> QED
    BY <1>1, <1>3, <2>1, RollupMoves, RollupTypes
<1> QED
  BY <1>4, <1>5

LEMMA RollupProfile ==
  ASSUME RollupInv, NEW p \in Processes,
         \/ U!StartProfile(p) \/ U!Compare(p) \/ U!WriteProfile(p)
         \/ \E valid \in BOOLEAN : U!Generate(p, valid)
  PROVE  RollupInv'
<1>1. passes[p] \in U!Pass /\ passes[p].todo \subseteq mediaEvents
  BY RollupTypes
<1>2. CASE U!StartProfile(p)
  <2> DEFINE x == [passes[p] EXCEPT !.stage = "counted", !.seen = U!Aggregate]
  <2>1. x \in U!Pass /\ x.todo \subseteq mediaEvents
    BY <1>1, RollupTypes DEF U!Pass
  <2>2. passes' = [passes EXCEPT ![p] = x] /\ guard' = p
        /\ UNCHANGED <<mediaEvents, memoryOf, made, taste, failures>>
    BY <1>2 DEF U!StartProfile
  <2> HIDE DEF x
  <2> QED
    BY <2>1, <2>2, RollupMoves, RollupTypes
<1>3. ASSUME NEW stage \in {"generating", "generated"}, passes' = [passes EXCEPT ![p].stage = stage],
             UNCHANGED <<mediaEvents, memoryOf, made, taste, guard, failures>>
      PROVE  RollupInv'
  <2> DEFINE x == [passes[p] EXCEPT !.stage = stage]
  <2>1. x \in U!Pass /\ x.todo \subseteq mediaEvents
    BY <1>1 DEF U!Pass
  <2>2. passes' = [passes EXCEPT ![p] = x]
    BY <1>3
  <2> HIDE DEF x
  <2> QED
    BY <1>3, <2>1, <2>2, RollupMoves, RollupTypes
<1>4. CASE U!Compare(p)
  <2>1. CASE U!NothingToWrite(p)
    BY <1>4, <2>1, RollupEnds, RollupTypes DEF U!Compare
  <2>2. CASE ~U!NothingToWrite(p)
    BY <1>3, <1>4, <2>2 DEF U!Compare
  <2> QED
    BY <2>1, <2>2
<1>5. CASE U!WriteProfile(p)
  <2>1. U!End(p) /\ UNCHANGED <<mediaEvents, memoryOf, made, failures>> /\ taste' = passes[p].seen
    BY <1>5 DEF U!WriteProfile
  <2>2. taste' \in 0..LastEvent
    BY <1>1, <2>1 DEF U!Pass
  <2> QED
    BY <2>1, <2>2, RollupEnds, RollupTypes
<1>6. ASSUME NEW valid \in BOOLEAN, U!Generate(p, valid)
      PROVE  RollupInv'
  <2>1. CASE valid
    BY <1>3, <1>6, <2>1 DEF U!Generate
  <2>2. CASE ~valid
    <3>1. /\ failures' = failures + 1 /\ failures < MaxFailures
          /\ UNCHANGED <<mediaEvents, memoryOf, made, taste>>
      BY <1>6, <2>2 DEF U!Generate
    <3>2. failures' \in 0..MaxFailures
      BY <3>1, RollupTypes
    <3>3. CASE passes[p].calls + 1 < ProfileCalls
      <4> DEFINE x == [passes[p] EXCEPT !.calls = passes[p].calls + 1]
      <4>1. passes[p].calls + 1 \in 0..ProfileCalls
        BY <1>1, <3>3 DEF U!Pass
      <4>2. x \in U!Pass /\ x.todo \subseteq mediaEvents
        BY <1>1, <4>1 DEF U!Pass
      <4>3. passes' = [passes EXCEPT ![p] = x] /\ UNCHANGED guard
        BY <1>6, <2>2, <3>3 DEF U!Generate
      <4> HIDE DEF x
      <4> QED
        BY <3>1, <3>2, <4>2, <4>3, RollupMoves
    <3>4. CASE ~(passes[p].calls + 1 < ProfileCalls)
      BY <1>6, <2>2, <3>1, <3>2, <3>4, RollupEnds, RollupTypes DEF U!Generate
    <3> QED
      BY <3>3, <3>4
  <2> QED
    BY <2>1, <2>2
<1> QED
  BY <1>2, <1>4, <1>5, <1>6

LEMMA RollupStep ==
  ASSUME RollupInv, [U!Next]_uvars
  PROVE  RollupInv'
<1>1. CASE UNCHANGED uvars
  BY <1>1 DEF uvars, RollupInv, U!TypeOK, MadeOnce
<1>2. ASSUME NEW p \in Processes, U!StartRollup(p)
      PROVE  RollupInv'
  <2> DEFINE x == [passes[p] EXCEPT !.stage = "rolling", !.todo = U!Oldest]
  <2>1. U!Oldest \subseteq mediaEvents
    BY DEF U!Oldest, U!Pending
  <2> HIDE DEF U!Oldest
  <2>2. x \in U!Pass /\ x.todo \subseteq mediaEvents
    BY <2>1, RollupTypes DEF U!Pass
  <2>3. passes' = [passes EXCEPT ![p] = x] /\ UNCHANGED <<mediaEvents, memoryOf, made, taste, guard, failures>>
    BY <1>2 DEF U!StartRollup
  <2> HIDE DEF x
  <2> QED
    BY <2>2, <2>3, RollupMoves, RollupTypes
<1>3. ASSUME NEW p \in Processes, U!EmbedEvent(p)
      PROVE  RollupInv'
  <2> DEFINE x == [passes[p] EXCEPT !.stage = "linking"]
  <2>1. x \in U!Pass /\ x.todo \subseteq mediaEvents
    BY RollupTypes DEF U!Pass
  <2>2. passes' = [passes EXCEPT ![p] = x] /\ UNCHANGED <<mediaEvents, memoryOf, made, taste, guard, failures>>
    BY <1>3 DEF U!EmbedEvent
  <2> HIDE DEF x
  <2> QED
    BY <2>1, <2>2, RollupMoves, RollupTypes
<1>4. ASSUME NEW p \in Processes, U!EventFails(p)
      PROVE  RollupInv'
  <2>1. /\ U!Rolling(p) /\ passes' = U!NextEvent(p) /\ UNCHANGED <<mediaEvents, memoryOf, made, taste, guard>>
        /\ failures' = failures + 1 /\ failures < MaxFailures
    BY <1>4 DEF U!EventFails
  <2>2. failures' \in 0..MaxFailures
    BY <2>1, RollupTypes
  <2> QED
    BY <2>1, <2>2, RollupNext, RollupMoves
<1>5. ASSUME NEW p \in Processes, U!EndRollup(p)
      PROVE  RollupInv'
  BY <1>5, RollupEnds, RollupTypes DEF U!EndRollup
<1>6. ASSUME NEW p \in Processes, U!LoseGuard(p)
      PROVE  RollupInv'
  <2>1. failures' \in 0..MaxFailures
    BY <1>6, RollupTypes DEF U!LoseGuard
  <2> QED
    BY <1>6, <2>1 DEF U!LoseGuard, RollupInv, U!TypeOK, MadeOnce
<1>7. ASSUME NEW p \in Processes, U!Crash(p)
      PROVE  RollupInv'
  <2>1. failures' \in 0..MaxFailures
    BY <1>7, RollupTypes DEF U!Crash
  <2> QED
    BY <1>7, <2>1, RollupEnds, RollupTypes DEF U!Crash
<1> QED
  BY <1>1, <1>2, <1>3, <1>4, <1>5, <1>6, <1>7, RollupEvents, RollupLinks, RollupProfile DEF U!Next, U!Step

LEMMA RollupInit ==
  ASSUME U!Init
  PROVE  RollupInv
<1>1. 0 \in 0..LastEvent /\ 0 \in 0..ProfileCalls /\ 0 \in 0..MaxFailures /\ 0 \in Nat
  OBVIOUS
<1>2. U!Free \in U!Pass /\ U!Free.todo = {}
  BY <1>1 DEF U!Free, U!Pass
<1>3. /\ mediaEvents = {} /\ memoryOf = [e \in U!Events |-> "none"] /\ made = [e \in U!Events |-> 0]
      /\ taste = 0 /\ guard = None /\ passes = [p \in Processes |-> U!Free] /\ failures = 0
  BY DEF U!Init
<1>4. U!TypeOK
  BY <1>1, <1>2, <1>3 DEF U!TypeOK
<1>5. MadeOnce
  BY <1>3 DEF MadeOnce
<1> QED
  BY <1>2, <1>3, <1>4, <1>5 DEF RollupInv

LEMMA RollupAlways == Spec => []RollupInv
<1>1. Init => RollupInv
  BY RollupInit DEF Init
<1>2. RollupInv /\ [Next]_vars => RollupInv'
  <2> SUFFICES ASSUME RollupInv, [Next]_vars PROVE [U!Next]_uvars
    BY RollupStep
  <2> QED
    BY DEF Next, vars, Entities, Browser, Plex, Rollup, Embedding, Server, uvars, U!uvars
<1> QED
  BY <1>1, <1>2, PTL DEF Spec

(***************************************************************************)
(* The connectors of media services.                                       *)
(***************************************************************************)
P == INSTANCE MediaSyncProofs WITH Jobs <- Processes, PageSize <- PlayPage

LEMMA PlayFits == P!PlayConstants
BY NoneAssumption, PlayAssumption DEF P!PlayConstants

\* The module of the proofs defines what the module of the component does.
LEMMA SamePlays ==
  /\ M!Init <=> P!Init
  /\ [M!Next]_mvars <=> [P!Next]_P!mvars
  /\ M!TypeOK <=> P!TypeOK
  /\ M!CursorCoversEvents <=> P!CursorCoversEvents
<1>1. M!Init <=> P!Init
  BY DEF M!Init, P!Init, M!Quiet, P!Quiet
<1>2. M!Next <=> P!Next
  BY DEF M!Next, P!Next, M!Step, P!Step, M!Play, P!Play, M!Finish, P!Finish, M!Launch, P!Launch,
         M!Lock, P!Lock, M!ReadState, P!ReadState, M!Listings, P!Listings, M!Discover, P!Discover,
         M!DiscoverSome, P!DiscoverSome, M!More, P!More, M!Closed, P!Closed, M!ServerPage,
         P!ServerPage, M!AccountPage, P!AccountPage, M!Asked, P!Asked, M!FetchPage, P!FetchPage,
         M!Dropped, P!Dropped, M!Unlock, P!Unlock, M!FeedFails, P!FeedFails, M!Fetched, P!Fetched,
         M!AdvancedServers, P!AdvancedServers, M!AdvancedAccount, P!AdvancedAccount, M!Advanced,
         P!Advanced, M!Overtaken, P!Overtaken, M!Upsert, P!Upsert, M!SaveCursors, P!SaveCursors,
         M!CommitSync, P!CommitSync, M!Lost, P!Lost, M!DiscoverAll, P!DiscoverAll, M!Mine, P!Mine,
         M!Quiet, P!Quiet
<1>3. (UNCHANGED mvars) <=> UNCHANGED P!mvars
  BY DEF mvars, P!mvars
<1>4. M!TypeOK <=> P!TypeOK
  BY DEF M!TypeOK, P!TypeOK, M!Plays, P!Plays, M!Mine, P!Mine, M!Job, P!Job
<1>5. M!CursorCoversEvents <=> P!CursorCoversEvents
  BY DEF M!CursorCoversEvents, P!CursorCoversEvents, M!Mine, P!Mine
<1> QED
  BY <1>1, <1>2, <1>3, <1>4, <1>5

LEMMA PlayAlways == Spec => []P!PlayInv
<1>1. Init => P!PlayInv
  BY PlayFits, SamePlays, P!PlayInit DEF Init
<1>2. P!PlayInv /\ [Next]_vars => P!PlayInv'
  <2> SUFFICES ASSUME P!PlayInv, [Next]_vars PROVE [M!Next]_mvars
    BY PlayFits, SamePlays, P!PlayStep
  <2> QED
    BY DEF Next, vars, Entities, Browser, Plex, Rollup, Embedding, Server, mvars, M!mvars
<1> QED
  BY <1>1, <1>2, PTL DEF Spec

LEMMA PlayCovered ==
  P!PlayInv => M!TypeOK /\ M!CursorCoversEvents
BY PlayFits, SamePlays, P!PlayCovered

(***************************************************************************)
(* The change of the embedding model.                                      *)
(***************************************************************************)
Batches == UNION {[S -> Texts] : S \in SUBSET X!Rows}

\* A row whose vector is what its label says.
Fitting ==
  {row \in X!Row : row.state # "none" => /\ row.vectorOf = row.text
                                         /\ row.label = "target" => row.model = "target"}

VectorsInv == X!TypeOK /\ X!TargetVectorsFit

USE RowAssumption

LEMMA BatchFacts ==
  /\ <<>> \in Batches
  /\ \A b \in Batches : /\ DOMAIN b \subseteq X!Rows
                        /\ \A r \in DOMAIN b : b[r] \in Texts
                        /\ b # <<>> => DOMAIN b # {}
  /\ \A b \in Batches : \A S : S \subseteq DOMAIN b => X!Restrict(b, S) \in Batches
  /\ \A S \in SUBSET X!Rows : \A f : (\A r \in S : f[r] \in Texts) => [r \in S |-> f[r]] \in Batches
<1>1. ASSUME NEW S \in SUBSET X!Rows, NEW b \in [S -> Texts]
      PROVE  b \in Batches
  BY DEF Batches
<1>2. ASSUME NEW b \in Batches
      PROVE  /\ DOMAIN b \subseteq X!Rows /\ b = [r \in DOMAIN b |-> b[r]]
             /\ \A r \in DOMAIN b : b[r] \in Texts
  BY DEF Batches
<1>3. <<>> = [r \in {} |-> {}]
  OBVIOUS
<1>4. <<>> \in Batches
  <2>1. <<>> \in [{} -> Texts]
    BY <1>3
  <2> QED
    BY <1>1, <2>1
<1>5. ASSUME NEW b \in Batches, b # <<>>
      PROVE  DOMAIN b # {}
  BY <1>2, <1>3, <1>5
<1>6. ASSUME NEW S \in SUBSET X!Rows, NEW f, \A r \in S : f[r] \in Texts
      PROVE  [r \in S |-> f[r]] \in Batches
  <2>1. [r \in S |-> f[r]] \in [S -> Texts]
    BY <1>6
  <2> QED
    BY <1>1, <2>1
<1>7. ASSUME NEW b \in Batches, NEW S, S \subseteq DOMAIN b
      PROVE  X!Restrict(b, S) \in Batches
  <2>1. X!Restrict(b, S) = [r \in S |-> b[r]]
    BY DEF X!Restrict
  <2>2. S \in SUBSET X!Rows /\ \A r \in S : b[r] \in Texts
    BY <1>2, <1>7
  <2> QED
    BY <1>6, <2>1, <2>2
<1> QED
  BY <1>2, <1>4, <1>5, <1>6, <1>7

LEMMA RowOperators ==
  /\ \A S : X!Cardinality(S) = Cardinality(S)
  /\ \A S : X!Max(S) = Max(S)
  /\ \A S : X!Min(S) = Min(S)
<1>1. \A S : X!Cardinality(S) = Cardinality(S)
  BY Zenon DEF X!Cardinality, Cardinality
<1>2. \A S : X!Max(S) = Max(S)
  BY DEF X!Max, Max
<1>3. \A S : X!Min(S) = Min(S)
  BY DEF X!Min, Min
<1> QED
  BY <1>1, <1>2, <1>3

LEMMA RowSets ==
  /\ IsFiniteSet(X!Rows) /\ X!Rows \subseteq Int
  /\ \A r \in X!Rows : r \in 0..LastRow /\ r # 0
  /\ \A S \in SUBSET X!Rows : IsFiniteSet(S)
<1>1. X!Rows = 1..LastRow
  BY DEF X!Rows
<1>2. IsFiniteSet(X!Rows)
  BY <1>1, FS_Interval
<1>3. \A S \in SUBSET X!Rows : IsFiniteSet(S)
  BY ONLY <1>2, FS_Subset
<1> QED
  BY <1>1, <1>2, <1>3

LEMMA RowTypes ==
  ASSUME VectorsInv
  PROVE  /\ memories \in [X!Rows -> Fitting] /\ memories \in [X!Rows -> X!Row]
         /\ repasses \in [Processes -> X!Pass]
         /\ \A p \in Processes : repasses[p] \in X!Pass /\ repasses[p].batch \in Batches
         /\ X!Idle \in X!Pass
         /\ busy \in {0} \cup X!Rows /\ clean \in BOOLEAN /\ restored \subseteq X!Rows
         /\ writes \in 0..MaxWrites /\ faults \in 0..RepassFaults
<1>1. /\ memories \in [X!Rows -> X!Row] /\ repasses \in [Processes -> X!Pass]
      /\ busy \in {0} \cup X!Rows /\ clean \in BOOLEAN /\ restored \subseteq X!Rows
      /\ writes \in 0..MaxWrites /\ faults \in 0..RepassFaults
  BY DEF VectorsInv, X!TypeOK
<1>2. \A r \in X!Rows : memories[r] \in Fitting
  BY <1>1 DEF VectorsInv, X!TargetVectorsFit, Fitting
<1>3. \A x \in X!Pass : x.batch \in Batches
  BY DEF X!Pass, Batches
<1>4. 0 \in 0..LastRow
  OBVIOUS
<1>5. X!Idle \in X!Pass
  BY <1>4, BatchFacts DEF X!Idle, X!Pass, Batches
<1> QED
  BY <1>1, <1>2, <1>3, <1>5

\* What a step may do to the variables that no other fact is about.
Counted == /\ busy' \in {0} \cup X!Rows /\ clean' \in BOOLEAN /\ restored' \subseteq X!Rows
           /\ writes' \in 0..MaxWrites /\ faults' \in 0..RepassFaults

LEMMA RowsKept ==
  ASSUME memories' \in [X!Rows -> Fitting], repasses' \in [Processes -> X!Pass], Counted
  PROVE  VectorsInv'
<1>1. memories' \in [X!Rows -> X!Row] /\ X!TargetVectorsFit'
  BY DEF Fitting, X!TargetVectorsFit
<1> QED
  BY <1>1 DEF Counted, VectorsInv, X!TypeOK

LEMMA RowSet ==
  ASSUME VectorsInv, NEW r \in X!Rows, NEW row \in Fitting, memories' = [memories EXCEPT ![r] = row]
  PROVE  memories' \in [X!Rows -> Fitting]
BY RowTypes

LEMMA PassesTouched ==
  ASSUME NEW ps \in [Processes -> X!Pass], NEW S
  PROVE  X!Touched(ps, S) \in [Processes -> X!Pass]
<1>1. ASSUME NEW x \in X!Pass
      PROVE  [x EXCEPT !.touched = x.touched \cup (S \cap DOMAIN x.batch)] \in X!Pass
  <2>1. x.batch \in Batches /\ x.touched \subseteq X!Rows
    BY DEF X!Pass, Batches
  <2>2. x.touched \cup (S \cap DOMAIN x.batch) \subseteq X!Rows
    BY <2>1, BatchFacts
  <2> QED
    BY <2>2 DEF X!Pass
<1> QED
  BY <1>1 DEF X!Touched

LEMMA PassSet ==
  ASSUME VectorsInv, NEW p \in Processes, NEW x \in X!Pass, repasses' = [repasses EXCEPT ![p] = x]
  PROVE  repasses' \in [Processes -> X!Pass]
BY RowTypes

\* The server, restorations and labels.
LEMMA RowsServed ==
  ASSUME VectorsInv,
         \/ \E r \in X!Rows : \/ \E t \in Texts : X!Insert(r, t)
                              \/ X!LockRow(r) \/ X!Hide(r) \/ X!Restore(r)
         \/ \E t \in Texts : X!Edit(t)
         \/ \E label \in {"unknown", "legacy"} : X!Label(label)
  PROVE  VectorsInv'
<1>1. \A t \in Texts : X!Written(t) \in Fitting
  BY DEF X!Written, Fitting, X!Row
<1>2. ASSUME NEW n, n \in 0..MaxWrites, n < MaxWrites PROVE n + 1 \in 0..MaxWrites
  BY <1>2
<1>3. ASSUME NEW r \in X!Rows, NEW t \in Texts, X!Insert(r, t)
      PROVE  VectorsInv'
  <2>1. memories' \in [X!Rows -> Fitting]
    BY <1>1, <1>3, RowSet DEF X!Insert
  <2> QED
    BY <1>2, <1>3, <2>1, RowTypes, RowsKept DEF X!Insert, Counted
<1>4. ASSUME NEW r \in X!Rows, X!LockRow(r)
      PROVE  VectorsInv'
  BY <1>2, <1>4, RowTypes, RowsKept DEF X!LockRow, Counted
<1>5. ASSUME NEW r \in X!Rows, NEW state \in {"hidden", "active"}, memories[r].state # "none",
             memories' = [memories EXCEPT ![r].state = state]
      PROVE  memories' \in [X!Rows -> Fitting]
  <2> DEFINE row == [memories[r] EXCEPT !.state = state]
  <2>1. row \in Fitting
    BY <1>5, RowTypes DEF Fitting, X!Row
  <2>2. memories' = [memories EXCEPT ![r] = row]
    BY <1>5
  <2> HIDE DEF row
  <2> QED
    BY <2>1, <2>2, RowSet
<1>6. ASSUME NEW r \in X!Rows, X!Hide(r) \/ X!Restore(r)
      PROVE  VectorsInv'
  <2>1. memories[r].state # "none" /\ \E state \in {"hidden", "active"} :
          memories' = [memories EXCEPT ![r].state = state]
    BY <1>6 DEF X!Hide, X!Restore, X!Active
  <2>2. repasses' = X!Touched(repasses, {r})
    BY <1>6 DEF X!Hide, X!Restore, X!Touch
  <2>3. Counted
    BY <1>2, <1>6, RowTypes DEF X!Hide, X!Restore, Counted
  <2> QED
    BY <1>5, <2>1, <2>2, <2>3, PassesTouched, RowTypes, RowsKept
<1>7. ASSUME NEW t \in Texts, X!Edit(t)
      PROVE  VectorsInv'
  <2>1. /\ busy \in X!Rows /\ repasses' = X!Touched(repasses, {busy}) /\ Counted
        /\ memories' = [memories EXCEPT ![busy] =
                          IF t = memories[busy].text THEN memories[busy] ELSE X!Written(t)]
    BY <1>7, RowTypes DEF X!Edit, X!Touch, Counted
  <2>2. (IF t = memories[busy].text THEN memories[busy] ELSE X!Written(t)) \in Fitting
    BY <1>1, <2>1, RowTypes
  <2>3. memories' \in [X!Rows -> Fitting]
    BY <2>1, <2>2, RowTypes
  <2> QED
    BY <2>1, <2>3, PassesTouched, RowTypes, RowsKept
<1>8. ASSUME NEW label \in {"unknown", "legacy"}, X!Label(label)
      PROVE  VectorsInv'
  <2>1. /\ memories' = [r \in X!Rows |-> IF X!Active(r) THEN [memories[r] EXCEPT !.label = label]
                                        ELSE memories[r]]
        /\ \E S : repasses' = X!Touched(repasses, S)
        /\ Counted
    BY <1>2, <1>8, RowTypes DEF X!Label, X!Touch, Counted
  <2>2. \A row \in Fitting : [row EXCEPT !.label = label] \in Fitting
    BY DEF Fitting, X!Row
  <2>3. memories' \in [X!Rows -> Fitting]
    BY <2>1, <2>2, RowTypes
  <2> QED
    BY <2>1, <2>3, PassesTouched, RowTypes, RowsKept
<1> QED
  BY <1>3, <1>4, <1>6, <1>7, <1>8

\* A pass takes the first rows it may embed; there is at least one.
LEMMA RowsSelected ==
  ASSUME VectorsInv, NEW p \in Processes, X!Select(p)
  PROVE  VectorsInv'
<1> DEFINE Sel == X!Selectable(p)
           Below(r) == {u \in Sel : u < r}
           batch == {r \in Sel : Cardinality(Below(r)) < BatchSize}
<1>1. Sel \subseteq X!Rows /\ Sel # {} /\ IsFiniteSet(Sel) /\ Sel \subseteq Int
  BY RowSets DEF X!Selectable, X!Select
<1>2. batch \subseteq X!Rows /\ IsFiniteSet(batch) /\ batch \subseteq Int
  BY <1>1, RowSets
<1>3. Below(Min(Sel)) = {} /\ Min(Sel) \in Sel
  BY <1>1, MinIsLeast
<1>4. batch # {}
  BY <1>3, FS_EmptySet
<1> DEFINE x == [repasses[p] EXCEPT !.last = X!Max(batch), !.stage = "embedding",
                                    !.batch = [r \in batch |-> memories[r].text]]
<1>5. batch = {r \in X!Selectable(p) : X!Cardinality({u \in X!Selectable(p) : u < r}) < BatchSize}
  BY RowOperators
<1>6. repasses' = [repasses EXCEPT ![p] = x] /\ UNCHANGED <<memories, busy, clean, restored, writes, faults>>
  BY <1>5 DEF X!Select
<1> HIDE DEF batch
<1>7. X!Max(batch) \in 0..LastRow
  <2>1. Max(batch) \in batch
    BY <1>2, <1>4, MaxIsGreatest
  <2> QED
    BY <1>2, <2>1, RowSets, RowOperators
<1>8. [r \in batch |-> memories[r].text] \in Batches
  <2>1. \A r \in batch : memories[r].text \in Texts
    BY <1>2, RowTypes DEF X!Row
  <2>2. [r \in batch |-> memories[r].text] \in [batch -> Texts]
    BY <2>1
  <2> QED
    BY <1>2, <2>2 DEF Batches
<1>9. x \in X!Pass
  BY <1>7, <1>8, RowTypes DEF X!Pass, Batches
<1> HIDE DEF x
<1> QED
  BY <1>6, <1>9, PassSet, RowTypes, RowsKept DEF Counted

LEMMA RowsEmbedded ==
  ASSUME VectorsInv, NEW p \in Processes, NEW unusable, X!Embed(p, unusable)
  PROVE  VectorsInv'
<1> DEFINE left == DOMAIN repasses[p].batch \ unusable
           x == [repasses[p] EXCEPT
                   !.stage = "writing", !.batch = X!Restrict(repasses[p].batch, left),
                   !.touched = repasses[p].touched \ unusable,
                   !.failed = repasses[p].failed \/ unusable # {},
                   !.hard = repasses[p].hard \/ unusable # {}]
<1>1. repasses' = [repasses EXCEPT ![p] = x] /\ UNCHANGED <<memories, busy, clean, restored, writes>>
  BY DEF X!Embed
<1>2. faults' \in 0..RepassFaults
  <2>1. CASE unusable = {}
    BY <2>1, RowTypes DEF X!Embed
  <2>2. CASE unusable # {}
    BY <2>2, RowTypes DEF X!Embed
  <2> QED
    BY <2>1, <2>2
<1>3. X!Restrict(repasses[p].batch, left) \in Batches
  BY BatchFacts, RowTypes
<1>4. x \in X!Pass
  BY <1>3, RowTypes DEF X!Pass, Batches
<1> HIDE DEF x
<1> QED
  BY <1>1, <1>2, <1>4, PassSet, RowTypes, RowsKept DEF Counted

\* The text of the batch is the row's own when the vector is written.
LEMMA RowsWritten ==
  ASSUME VectorsInv, NEW p \in Processes, X!WriteVector(p)
  PROVE  VectorsInv'
<1> DEFINE r == X!Min(DOMAIN repasses[p].batch)
           rest == [repasses[p] EXCEPT
                      !.batch = X!Restrict(repasses[p].batch, DOMAIN repasses[p].batch \ {r}),
                      !.touched = repasses[p].touched \ {r}]
<1>1. /\ repasses[p].batch # <<>> /\ UNCHANGED <<busy, clean, restored, writes, faults>>
      /\ IF X!Unchanged(p, r)
         THEN /\ memories' = [memories EXCEPT
                   ![r] = [memories[r] EXCEPT
                             !.vectorOf = repasses[p].batch[r], !.model = "target", !.label = "target"]]
              /\ repasses' = X!Touched([repasses EXCEPT ![p] = rest], {r})
         ELSE /\ repasses' = [repasses EXCEPT ![p] = [rest EXCEPT !.failed = TRUE]]
              /\ UNCHANGED memories
  BY DEF X!WriteVector
<1>2. r \in DOMAIN repasses[p].batch /\ r \in X!Rows
  <2>1. DOMAIN repasses[p].batch \subseteq X!Rows /\ DOMAIN repasses[p].batch # {}
    BY <1>1, BatchFacts, RowTypes
  <2>2. DOMAIN repasses[p].batch \subseteq Int /\ IsFiniteSet(DOMAIN repasses[p].batch)
    BY <2>1, RowSets
  <2> QED
    BY <2>1, <2>2, MinIsLeast, RowOperators
<1> HIDE DEF r
<1>3. rest \in X!Pass /\ [rest EXCEPT !.failed = TRUE] \in X!Pass
  <2>1. X!Restrict(repasses[p].batch, DOMAIN repasses[p].batch \ {r}) \in Batches
    BY BatchFacts, RowTypes
  <2> QED
    BY <2>1, RowTypes DEF X!Pass, Batches
<1> HIDE DEF rest
<1>4. CASE X!Unchanged(p, r)
  <2> DEFINE row == [memories[r] EXCEPT
                       !.vectorOf = memories[r].text, !.model = "target", !.label = "target"]
  <2>1. repasses[p].batch[r] = memories[r].text
    BY <1>4 DEF X!Unchanged
  <2>2. row \in Fitting
    <3>1. memories[r] \in X!Row
      BY <1>2, RowTypes
    <3> QED
      BY <3>1 DEF Fitting, X!Row
  <2>3. memories' = [memories EXCEPT ![r] = row]
    BY <1>1, <1>4, <2>1
  <2> HIDE DEF row
  <2>4. memories' \in [X!Rows -> Fitting]
    BY <1>2, <2>2, <2>3, RowSet
  <2>5. PICK ps \in [Processes -> X!Pass] : repasses' = X!Touched(ps, {r})
    <3>1. [repasses EXCEPT ![p] = rest] \in [Processes -> X!Pass]
      BY <1>3, RowTypes
    <3> QED
      BY <1>1, <1>4, <3>1
  <2>6. repasses' \in [Processes -> X!Pass]
    BY <2>5, PassesTouched
  <2> QED
    BY <1>1, <2>4, <2>6, RowTypes, RowsKept DEF Counted
<1>5. CASE ~X!Unchanged(p, r)
  BY <1>1, <1>3, <1>5, PassSet, RowTypes, RowsKept DEF Counted
<1> QED
  BY <1>4, <1>5

LEMMA RowsStep ==
  ASSUME VectorsInv, [X!Next]_xvars
  PROVE  VectorsInv'
<1>1. CASE UNCHANGED xvars
  BY <1>1 DEF xvars, VectorsInv, X!TypeOK, X!TargetVectorsFit
<1>2. ASSUME NEW p \in Processes, X!Begin(p) \/ X!EndPass(p) \/ X!Break(p)
      PROVE  VectorsInv'
  <2>1. \E x \in {X!Idle, [X!Idle EXCEPT !.stage = "selecting"]} : repasses' = [repasses EXCEPT ![p] = x]
    BY <1>2 DEF X!Begin, X!EndPass, X!Break
  <2>2. [X!Idle EXCEPT !.stage = "selecting"] \in X!Pass
    BY RowTypes DEF X!Pass
  <2>3. repasses' \in [Processes -> X!Pass]
    BY <2>1, <2>2, PassSet, RowTypes
  <2>4. UNCHANGED <<memories, busy, restored, writes>>
    BY <1>2 DEF X!Begin, X!EndPass, X!Break
  <2>5. clean' \in BOOLEAN
    BY <1>2, RowTypes DEF X!Begin, X!EndPass, X!Break, X!Verified
  <2>6. faults' \in 0..RepassFaults
    BY <1>2, RowTypes DEF X!Begin, X!EndPass, X!Break
  <2> QED
    BY <2>3, <2>4, <2>5, <2>6, RowTypes, RowsKept DEF Counted
<1>3. ASSUME NEW p \in Processes, X!EndBatch(p)
      PROVE  VectorsInv'
  <2> DEFINE x == IF repasses[p].hard THEN X!Idle ELSE [repasses[p] EXCEPT !.stage = "selecting"]
  <2>1. x \in X!Pass
    BY RowTypes DEF X!Pass
  <2>2. repasses' = [repasses EXCEPT ![p] = x] /\ UNCHANGED <<memories, busy, clean, restored, writes, faults>>
    BY <1>3 DEF X!EndBatch
  <2> HIDE DEF x
  <2> QED
    BY <2>1, <2>2, PassSet, RowTypes, RowsKept DEF Counted
<1> QED
  BY <1>1, <1>2, <1>3, RowsServed, RowsSelected, RowsEmbedded, RowsWritten DEF X!Next, X!Step

LEMMA RowsInit ==
  ASSUME X!Init
  PROVE  VectorsInv
<1>1. \A r \in X!Rows : memories[r] \in Fitting
  BY DEF X!Init, Fitting
<1>2. memories \in [X!Rows -> X!Row] /\ X!TargetVectorsFit
  BY <1>1 DEF X!Init, Fitting, X!TargetVectorsFit
<1>3. 0 \in 0..LastRow /\ 0 \in 0..MaxWrites /\ 0 \in 0..RepassFaults
  OBVIOUS
<1>4. X!Idle \in X!Pass
  BY <1>3, BatchFacts DEF X!Idle, X!Pass, Batches
<1> QED
  BY <1>2, <1>3, <1>4 DEF X!Init, VectorsInv, X!TypeOK

LEMMA RowsAlways == Spec => []VectorsInv
<1>1. Init => VectorsInv
  BY RowsInit DEF Init
<1>2. VectorsInv /\ [Next]_vars => VectorsInv'
  <2> SUFFICES ASSUME VectorsInv, [Next]_vars PROVE [X!Next]_xvars
    BY RowsStep
  <2> QED
    BY DEF Next, vars, Entities, Browser, Plex, Rollup, Embedding, Server, xvars, X!xvars
<1> QED
  BY <1>1, <1>2, PTL DEF Spec

(***************************************************************************)
(* The server process.                                                     *)
(***************************************************************************)

\* The shadows with a slot are at most as many as the slots, and one waits only when all are
\* taken.  What waits is in the queue once, and nothing waits for a gate that is closed.
Lanes ==
  /\ shadows \in [Stores -> R!ShadowStages]
  /\ waiting \in Seq(Stores) /\ Len(waiting) <= MaxQueued
  /\ Cardinality(R!Running(shadows)) <= MaxInFlight
  /\ waiting # <<>> => Cardinality(R!Running(shadows)) = MaxInFlight
  /\ accepting \/ waiting = <<>>
  /\ \A i \in 1..Len(waiting) : shadows[waiting[i]] = "queued"
  /\ \A i, k \in 1..Len(waiting) : waiting[i] = waiting[k] => i = k

\* Nothing is classified once a handler has seen the process drained.
Quiet ==
  \A h \in Processes : handlers[h] \in {"closing", "ending"} =>
    R!Running(shadows) = {} /\ \A j \in Stores : calls[j] \notin R!Classifying

\* A shadow follows a store that is done; a handler has closed the gate.
Gated ==
  /\ \A j \in Stores : shadows[j] # "none" => calls[j] = "done"
  /\ \A h \in Processes : handlers[h] # "none" => ~accepting

\* What is neither the lanes' nor the drained process's.
Ports ==
  /\ mutation \in BOOLEAN /\ accepting \in BOOLEAN
  /\ calls \in [Stores -> R!CallStages]
  /\ reserved \in Nat /\ reserved <= Limit
  /\ handlers \in [Processes -> {"none", "draining", "closing", "ending"}]
  /\ pool \in {"open", "ending"}
  /\ process \in {"up", "exited", "crashed"}

ServerInv == Ports /\ Lanes /\ Quiet /\ Gated

USE ServerAssumption

LEMMA SlotFacts ==
  /\ \A S : R!Cardinality(S) = Cardinality(S)
  /\ \A sh : IsFiniteSet(R!Running(sh)) /\ Cardinality(R!Running(sh)) \in Nat
  /\ \A S \in SUBSET Stores : IsFiniteSet(S) /\ (Cardinality(S) = 0 <=> S = {})
<1>1. \A S : R!Cardinality(S) = Cardinality(S)
  BY Zenon DEF R!Cardinality, Cardinality
<1>2. \A S \in SUBSET Stores : IsFiniteSet(S)
  BY ONLY IsFiniteSet(Stores), FS_Subset
<1>3. \A S \in SUBSET Stores : Cardinality(S) \in Nat /\ (Cardinality(S) = 0 <=> S = {})
  BY ONLY <1>2, FS_CardinalityType, FS_EmptySet
<1>4. \A sh : R!Running(sh) \in SUBSET Stores
  BY DEF R!Running
<1> QED
  BY <1>1, <1>2, <1>3, <1>4

LEMMA Queue ==
  ASSUME NEW S, NEW n \in Nat, NEW q
  PROVE  q \in R!BoundedSeq(S, n) <=> q \in Seq(S) /\ Len(q) <= n
<1>1. R!BoundedSeq(S, n) = UNION {[1..m -> S] : m \in 0..n}
  BY DEF R!BoundedSeq, R!SeqOf
<1>2. ASSUME q \in Seq(S), Len(q) <= n
      PROVE  q \in R!BoundedSeq(S, n)
  <2>1. q \in [1..Len(q) -> S] /\ Len(q) \in 0..n
    BY <1>2
  <2> QED
    BY <1>1, <2>1
<1>3. ASSUME q \in R!BoundedSeq(S, n)
      PROVE  q \in Seq(S) /\ Len(q) <= n
  <2>1. PICK m \in 0..n : q \in [1..m -> S]
    BY <1>1, <1>3
  <2>2. q \in Seq(S) /\ Len(q) = m
    BY <2>1
  <2> QED
    BY <2>1, <2>2
<1> QED
  BY <1>2, <1>3

\* What the invariant says in the words of the component.
LEMMA ServerHolds ==
  ASSUME ServerInv
  PROVE  R!TypeOK /\ R!DrainedStaysDrained /\ R!BudgetKept
<1>1. R!TypeOK
  BY Queue DEF ServerInv, Ports, Lanes, R!TypeOK
<1>2. ASSUME NEW h \in Processes, handlers[h] \in {"closing", "ending"}
      PROVE  R!Running(shadows) = {} /\ R!Classifications = 0
  <2>1. R!Running(shadows) = {} /\ \A j \in Stores : calls[j] \notin R!Classifying
    BY <1>2 DEF ServerInv, Quiet
  <2>2. {j \in Stores : calls[j] \in R!Classifying} = {}
    BY <2>1
  <2>3. {j \in Stores : shadows[j] \in R!Classifying} = {}
    <3>1. ASSUME NEW j \in Stores, shadows[j] \in R!Classifying, shadows[j] \in R!ShadowStages
          PROVE  j \in R!Running(shadows)
      BY <3>1 DEF R!Classifying, R!ShadowStages, R!Running
    <3>2. \A j \in Stores : shadows[j] \in R!ShadowStages
      BY DEF ServerInv, Lanes
    <3> QED
      BY <2>1, <3>1, <3>2
  <2>4. Cardinality({}) = 0
    BY FS_EmptySet
  <2> QED
    BY <2>1, <2>2, <2>3, <2>4, SlotFacts DEF R!Classifications
<1>3. R!DrainedStaysDrained
  BY <1>2, SlotFacts DEF R!DrainedStaysDrained, ServerInv, Lanes
<1> QED
  BY <1>1, <1>3 DEF R!BudgetKept, ServerInv, Ports

(***************************************************************************)
(* The lanes, as the scheduler moves them.                                 *)
(***************************************************************************)

InSlot == {"started", "searching", "asking"}

\* A shadow goes on in its slot.
LEMMA LaneKept ==
  ASSUME ServerInv, NEW j \in Stores, shadows[j] \in InSlot, NEW s \in InSlot,
         shadows' = [shadows EXCEPT ![j] = s], UNCHANGED <<accepting, waiting>>
  PROVE  Lanes' /\ R!Running(shadows') = R!Running(shadows)
<1>1. shadows \in [Stores -> R!ShadowStages]
  BY DEF ServerInv, Lanes
<1>2. R!Running(shadows') = R!Running(shadows)
  BY <1>1 DEF R!Running, InSlot
<1>3. shadows' \in [Stores -> R!ShadowStages]
  BY <1>1 DEF R!ShadowStages, InSlot
<1>4. \A i \in Stores : shadows[i] = "queued" => shadows'[i] = "queued"
  BY <1>1 DEF InSlot
<1>5. \A i \in 1..Len(waiting) : waiting[i] \in Stores
  BY DEF ServerInv, Lanes
<1> QED
  BY <1>2, <1>3, <1>4, <1>5 DEF ServerInv, Lanes

\* The task of j is over, and the slot is the next one's or free.
LEMMA LaneFinished ==
  ASSUME ServerInv, NEW j \in Stores, shadows[j] \in InSlot, R!Finished(j), UNCHANGED accepting
  PROVE  Lanes' /\ \A i \in Stores : shadows'[i] # "none" => shadows[i] # "none"
<1>1. /\ shadows \in [Stores -> R!ShadowStages] /\ waiting \in Seq(Stores) /\ Len(waiting) <= MaxQueued
      /\ \A i \in 1..Len(waiting) : shadows[waiting[i]] = "queued" /\ waiting[i] \in Stores
      /\ \A i, k \in 1..Len(waiting) : waiting[i] = waiting[k] => i = k
  BY DEF ServerInv, Lanes
<1>2. j \in R!Running(shadows) /\ Cardinality(R!Running(shadows)) <= MaxInFlight
  BY DEF R!Running, InSlot, ServerInv, Lanes
<1>3. /\ Cardinality(R!Running(shadows) \ {j}) = Cardinality(R!Running(shadows)) - 1
      /\ IsFiniteSet(R!Running(shadows) \ {j})
  BY <1>2, SlotFacts, FS_RemoveElement
<1>4. CASE accepting /\ waiting # <<>>
  <2> DEFINE n == Head(waiting)
  <2>1. n \in Stores /\ n = waiting[1] /\ shadows[n] = "queued" /\ 1 \in 1..Len(waiting)
    BY <1>1, <1>4
  <2>2. n # j
    BY <2>1 DEF InSlot
  <2> HIDE DEF n
  <2>3. /\ shadows' = [i \in Stores |-> IF i = j THEN "ended" ELSE IF i = n THEN "started" ELSE shadows[i]]
        /\ waiting' = Tail(waiting)
    BY <1>1, <1>4, <2>1, <2>2 DEF R!Finished, n
  <2>4. R!Running(shadows') = (R!Running(shadows) \ {j}) \cup {n} /\ n \notin R!Running(shadows)
    BY <2>1, <2>2, <2>3 DEF R!Running
  <2>5. Cardinality(R!Running(shadows')) = Cardinality(R!Running(shadows))
    <3>1. Cardinality((R!Running(shadows) \ {j}) \cup {n}) = Cardinality(R!Running(shadows) \ {j}) + 1
      BY <1>3, <2>4, FS_AddElement
    <3> QED
      BY <1>3, <2>4, <3>1, SlotFacts
  <2>6. Cardinality(R!Running(shadows)) = MaxInFlight
    BY <1>4 DEF ServerInv, Lanes
  <2>7. /\ waiting' \in Seq(Stores) /\ Len(waiting') = Len(waiting) - 1
        /\ \A i \in 1..Len(waiting') : waiting'[i] = waiting[i + 1] /\ i + 1 \in 1..Len(waiting) /\ i + 1 # 1
    BY <1>1, <1>4, <2>3
  <2>8. \A i \in 1..Len(waiting') : shadows'[waiting'[i]] = "queued"
    <3> SUFFICES ASSUME NEW i \in 1..Len(waiting')
                 PROVE  shadows'[waiting'[i]] = "queued"
      OBVIOUS
    <3>1. PICK a \in 1..Len(waiting) : waiting'[i] = waiting[a] /\ a # 1
      BY <2>7
    <3>2. waiting'[i] \in Stores /\ shadows[waiting'[i]] = "queued" /\ waiting'[i] # n
      BY <1>1, <2>1, <3>1
    <3> QED
      BY <2>2, <2>3, <3>2 DEF InSlot
  <2>9. \A i, k \in 1..Len(waiting') : waiting'[i] = waiting'[k] => i = k
    <3> SUFFICES ASSUME NEW i \in 1..Len(waiting'), NEW k \in 1..Len(waiting'), waiting'[i] = waiting'[k]
                 PROVE  i = k
      OBVIOUS
    <3>1. PICK a \in 1..Len(waiting) : waiting'[i] = waiting[a] /\ a = i + 1
      BY <2>7
    <3>2. PICK b \in 1..Len(waiting) : waiting'[k] = waiting[b] /\ b = k + 1
      BY <2>7
    <3>3. a = b
      BY <1>1, <3>1, <3>2
    <3> QED
      BY <3>1, <3>2, <3>3
  <2>10. shadows' \in [Stores -> R!ShadowStages]
    BY <1>1, <2>3 DEF R!ShadowStages
  <2>11. \A i \in Stores : shadows'[i] # "none" => shadows[i] # "none"
    BY <2>1, <2>3 DEF InSlot
  <2>12. Len(waiting') <= MaxQueued
    BY <1>1, <2>7
  <2> QED
    BY <1>4, <2>5, <2>6, <2>7, <2>8, <2>9, <2>10, <2>11, <2>12 DEF Lanes
<1>5. CASE ~(accepting /\ waiting # <<>>)
  <2>1. waiting = <<>> /\ waiting' = waiting /\ shadows' = [shadows EXCEPT ![j] = "ended"]
    BY <1>5 DEF R!Finished, ServerInv, Lanes
  <2>2. R!Running(shadows') = R!Running(shadows) \ {j}
    BY <1>1, <2>1 DEF R!Running
  <2>3. Cardinality(R!Running(shadows')) <= MaxInFlight
    BY <1>2, <1>3, <2>2, SlotFacts
  <2>4. shadows' \in [Stores -> R!ShadowStages]
    BY <1>1, <2>1 DEF R!ShadowStages
  <2>5. \A i \in Stores : shadows'[i] # "none" => shadows[i] # "none"
    BY <1>1, <2>1 DEF InSlot
  <2> QED
    BY <1>1, <2>1, <2>3, <2>4, <2>5 DEF Lanes
<1> QED
  BY <1>4, <1>5

\* A new shadow takes a slot, a place in the queue, or nothing.
LEMMA LaneScheduled ==
  ASSUME ServerInv, NEW j \in Stores, shadows[j] = "none", R!Schedule(j), UNCHANGED accepting
  PROVE  /\ Lanes'
         /\ \A i \in Stores : i # j => shadows'[i] = shadows[i]
         /\ ~accepting => R!Running(shadows') = R!Running(shadows)
<1>1. /\ shadows \in [Stores -> R!ShadowStages] /\ waiting \in Seq(Stores) /\ Len(waiting) <= MaxQueued
      /\ \A i \in 1..Len(waiting) : shadows[waiting[i]] = "queued" /\ waiting[i] \in Stores /\ waiting[i] # j
      /\ \A i, k \in 1..Len(waiting) : waiting[i] = waiting[k] => i = k
  BY DEF ServerInv, Lanes
<1>2. \A s \in R!ShadowStages : shadows' = [shadows EXCEPT ![j] = s] =>
        /\ shadows' \in [Stores -> R!ShadowStages] /\ shadows'[j] = s
        /\ \A i \in Stores : i # j => shadows'[i] = shadows[i]
        /\ s \notin InSlot => R!Running(shadows') = R!Running(shadows)
        /\ s \in InSlot => R!Running(shadows') = R!Running(shadows) \cup {j}
  BY <1>1 DEF R!Running, InSlot
<1>3. /\ Cardinality(R!Running(shadows)) \in Nat /\ Cardinality(R!Running(shadows)) <= MaxInFlight
      /\ R!Cardinality(R!Running(shadows)) = Cardinality(R!Running(shadows))
      /\ waiting # <<>> => Cardinality(R!Running(shadows)) = MaxInFlight
      /\ accepting \/ waiting = <<>>
  BY SlotFacts DEF ServerInv, Lanes
<1>4. CASE shadows' = [shadows EXCEPT ![j] = "ended"] /\ waiting' = waiting
  <2>1. /\ shadows' \in [Stores -> R!ShadowStages] /\ R!Running(shadows') = R!Running(shadows)
        /\ \A i \in Stores : i # j => shadows'[i] = shadows[i]
    BY <1>2, <1>4 DEF R!ShadowStages, InSlot
  <2>2. \A i \in 1..Len(waiting) : shadows'[waiting[i]] = "queued"
    BY <1>1, <2>1
  <2> QED
    BY <1>1, <1>3, <1>4, <2>1, <2>2 DEF Lanes
<1>5. CASE /\ accepting /\ Cardinality(R!Running(shadows)) < MaxInFlight
           /\ shadows' = [shadows EXCEPT ![j] = "started"] /\ waiting' = waiting
  <2>1. /\ shadows' \in [Stores -> R!ShadowStages] /\ R!Running(shadows') = R!Running(shadows) \cup {j}
        /\ \A i \in Stores : i # j => shadows'[i] = shadows[i]
    BY <1>2, <1>5 DEF R!ShadowStages, InSlot
  <2>2. j \notin R!Running(shadows)
    BY DEF R!Running
  <2>3. Cardinality(R!Running(shadows')) = Cardinality(R!Running(shadows)) + 1
    BY <2>1, <2>2, SlotFacts, FS_AddElement
  <2>4. Cardinality(R!Running(shadows')) <= MaxInFlight
    <3>1. \A n \in Nat : n < MaxInFlight => n + 1 <= MaxInFlight
      OBVIOUS
    <3> QED
      BY <1>3, <1>5, <2>3, <3>1
  <2>5. waiting = <<>>
    BY <1>3, <1>5
  <2> QED
    BY <1>1, <1>5, <2>1, <2>4, <2>5 DEF Lanes
<1>6. CASE /\ accepting /\ Cardinality(R!Running(shadows)) >= MaxInFlight /\ Len(waiting) < MaxQueued
           /\ shadows' = [shadows EXCEPT ![j] = "queued"] /\ waiting' = Append(waiting, j)
  <2>1. /\ shadows' \in [Stores -> R!ShadowStages] /\ R!Running(shadows') = R!Running(shadows)
        /\ shadows'[j] = "queued"
        /\ \A i \in Stores : i # j => shadows'[i] = shadows[i]
    BY <1>2, <1>6 DEF R!ShadowStages, InSlot
  <2>2. /\ waiting' \in Seq(Stores) /\ Len(waiting') = Len(waiting) + 1
        /\ waiting'[Len(waiting')] = j
        /\ \A i \in 1..Len(waiting') : i # Len(waiting') => i \in 1..Len(waiting) /\ waiting'[i] = waiting[i]
    BY <1>1, <1>6
  <2>3. Len(waiting') <= MaxQueued /\ Cardinality(R!Running(shadows')) = MaxInFlight
    BY <1>1, <1>3, <1>6, <2>1, <2>2
  <2>4. ASSUME NEW i \in 1..Len(waiting')
        PROVE  waiting'[i] = j \/ \E a \in 1..Len(waiting) : a = i /\ waiting'[i] = waiting[a]
    BY <2>2
  <2>5. ASSUME NEW i \in 1..Len(waiting')
        PROVE  shadows'[waiting'[i]] = "queued"
    <3>1. ASSUME NEW a \in 1..Len(waiting), waiting'[i] = waiting[a]
          PROVE  shadows'[waiting'[i]] = "queued"
      BY <1>1, <2>1, <3>1
    <3> QED
      BY <2>1, <2>4, <3>1
  <2>6. ASSUME NEW i \in 1..Len(waiting'), NEW k \in 1..Len(waiting'), waiting'[i] = waiting'[k]
        PROVE  i = k
    <3>1. CASE i = Len(waiting') \/ k = Len(waiting')
      <4>1. waiting'[i] = j /\ waiting'[k] = j
        BY <2>2, <2>6, <3>1
      <4>2. \A a \in 1..Len(waiting') : waiting'[a] = j => a = Len(waiting')
        BY <1>1, <2>2
      <4> QED
        BY <4>1, <4>2
    <3>2. CASE i # Len(waiting') /\ k # Len(waiting')
      <4>1. PICK a \in 1..Len(waiting) : a = i /\ waiting'[i] = waiting[a]
        BY <2>2, <3>2
      <4>2. PICK b \in 1..Len(waiting) : b = k /\ waiting'[k] = waiting[b]
        BY <2>2, <3>2
      <4> QED
        BY <1>1, <2>6, <4>1, <4>2
    <3> QED
      BY <3>1, <3>2
  <2> QED
    BY <1>1, <1>6, <2>1, <2>2, <2>3, <2>5, <2>6 DEF Lanes
<1> QED
  BY <1>1, <1>3, <1>4, <1>5, <1>6 DEF R!Schedule

\* The gate is closed: what waits is dropped.
LEMMA LaneClosed ==
  ASSUME ServerInv, NEW h \in Processes, R!Signal(h)
  PROVE  /\ Lanes' /\ R!Running(shadows') = R!Running(shadows)
         /\ \A j \in Stores : shadows'[j] # "none" => shadows[j] # "none"
<1>1. /\ shadows' = [j \in Stores |-> IF shadows[j] = "queued" THEN "ended" ELSE shadows[j]]
      /\ waiting' = <<>>
  BY DEF R!Signal
<1>2. shadows \in [Stores -> R!ShadowStages] /\ Cardinality(R!Running(shadows)) <= MaxInFlight
  BY DEF ServerInv, Lanes
<1>3. R!Running(shadows') = R!Running(shadows)
  BY <1>1 DEF R!Running
<1>4. shadows' \in [Stores -> R!ShadowStages]
  BY <1>1, <1>2 DEF R!ShadowStages
<1>5. waiting' \in Seq(Stores) /\ Len(waiting') = 0
  BY <1>1
<1>6. \A j \in Stores : shadows'[j] # "none" => shadows[j] # "none"
  BY <1>1
<1> QED
  BY <1>1, <1>2, <1>3, <1>4, <1>5, <1>6 DEF Lanes

(***************************************************************************)
(* The steps.                                                              *)
(***************************************************************************)

\* A shadow goes on or ends: then no handler has seen the process drained.
LEMMA ShadowMoves ==
  ASSUME ServerInv, NEW j \in Stores, R!ShadowStep(j)
  PROVE  ServerInv'
<1>1. shadows[j] \in InSlot
  BY DEF R!ShadowStep, R!ShadowBegin, R!ShadowSearched, R!ShadowAnswered, InSlot
<1>2. UNCHANGED <<mutation, accepting, handlers, pool, process, calls>>
  BY DEF R!ShadowStep, R!ShadowBegin, R!ShadowSearched, R!ShadowAnswered, R!shutting
<1>3. \/ R!Finished(j)
      \/ /\ \E s \in InSlot : shadows' = [shadows EXCEPT ![j] = s]
         /\ UNCHANGED waiting
  BY DEF R!ShadowStep, R!ShadowBegin, R!ShadowSearched, R!ShadowAnswered, InSlot
<1>4. reserved' \in Nat /\ reserved' <= Limit
  <2>1. reserved \in Nat /\ reserved <= Limit /\ Estimate[j] \in Nat
    BY DEF ServerInv, Ports
  <2>2. reserved' = reserved \/ (reserved + Estimate[j] <= Limit /\ reserved' = reserved + Estimate[j])
    BY DEF R!ShadowStep, R!ShadowBegin, R!ShadowSearched, R!ShadowAnswered, R!Ask, R!Affordable
  <2> QED
    BY <2>1, <2>2
<1>5. Ports'
  BY <1>2, <1>4 DEF ServerInv, Ports
<1>6. Lanes' /\ \A i \in Stores : shadows'[i] # "none" => shadows[i] # "none"
  <2>1. CASE R!Finished(j)
    BY <1>1, <1>2, <2>1, LaneFinished
  <2>2. ASSUME NEW s \in InSlot, shadows' = [shadows EXCEPT ![j] = s], UNCHANGED waiting
        PROVE  Lanes' /\ \A i \in Stores : shadows'[i] # "none" => shadows[i] # "none"
    <3>1. Lanes'
      BY <1>1, <1>2, <2>2, LaneKept
    <3>2. shadows \in [Stores -> R!ShadowStages]
      BY DEF ServerInv, Lanes
    <3> QED
      BY <1>1, <2>2, <3>1, <3>2 DEF InSlot
  <2> QED
    BY <1>3, <2>1, <2>2
<1>7. Quiet'
  <2>1. R!Running(shadows) # {}
    BY <1>1 DEF R!Running, InSlot
  <2> QED
    BY <1>2, <2>1 DEF ServerInv, Quiet
<1>8. Gated'
  BY <1>2, <1>6 DEF ServerInv, Gated
<1> QED
  BY <1>5, <1>6, <1>7, <1>8 DEF ServerInv

\* A store goes on without a shadow: it asks only while the gate is open.
LEMMA StoreMoves ==
  ASSUME ServerInv, NEW j \in Stores, NEW s \in R!CallStages, R!To(j, s),
         calls[j] # "done",
         UNCHANGED <<mutation, accepting, handlers, pool, process, shadows, waiting>>,
         reserved' \in Nat, reserved' <= Limit,
         s \in R!Classifying => accepting \/ calls[j] \in R!Classifying
  PROVE  ServerInv'
<1>1. calls \in [Stores -> R!CallStages] /\ calls' = [calls EXCEPT ![j] = s]
  BY DEF ServerInv, Ports, R!To
<1>2. calls' \in [Stores -> R!CallStages]
  BY <1>1
<1>3. Ports'
  BY <1>2 DEF ServerInv, Ports
<1>4. Lanes'
  BY DEF ServerInv, Lanes
<1>5. Quiet'
  <2> SUFFICES ASSUME NEW h \in Processes, handlers[h] \in {"closing", "ending"}, NEW i \in Stores
               PROVE  R!Running(shadows) = {} /\ calls'[i] \notin R!Classifying
    BY DEF Quiet
  <2>1. R!Running(shadows) = {} /\ \A k \in Stores : calls[k] \notin R!Classifying
    BY DEF ServerInv, Quiet
  <2>2. ~accepting
    BY DEF ServerInv, Gated
  <2> QED
    BY <1>1, <2>1, <2>2
<1>6. Gated'
  <2>1. shadows[j] = "none"
    BY DEF ServerInv, Gated
  <2> QED
    BY <1>1, <2>1 DEF ServerInv, Gated
<1> QED
  BY <1>3, <1>4, <1>5, <1>6 DEF ServerInv

\* A store is done, and in shadow mode its shadow is scheduled.
LEMMA StoreCommits ==
  ASSUME ServerInv, NEW j \in Stores, R!Commit(j)
  PROVE  ServerInv'
<1>1. /\ calls[j] = "inserting" /\ calls' = [calls EXCEPT ![j] = "done"]
      /\ UNCHANGED <<mutation, accepting, handlers, pool, process, reserved>>
      /\ IF mutation THEN UNCHANGED <<shadows, waiting>> ELSE R!Schedule(j)
  BY DEF R!Commit, R!To, R!shutting
<1>2. calls \in [Stores -> R!CallStages]
  BY DEF ServerInv, Ports
<1>3. Ports'
  BY <1>1, <1>2 DEF ServerInv, Ports, R!CallStages
<1>4. shadows[j] = "none"
  BY <1>1 DEF ServerInv, Gated
<1>5. /\ Lanes'
      /\ \A i \in Stores : i # j => shadows'[i] = shadows[i]
      /\ ~accepting => R!Running(shadows') = R!Running(shadows)
  <2>1. CASE mutation
    BY <1>1, <2>1 DEF ServerInv, Lanes
  <2>2. CASE ~mutation
    BY <1>1, <1>4, <2>2, LaneScheduled
  <2> QED
    BY <2>1, <2>2
<1>6. Quiet'
  <2> SUFFICES ASSUME NEW h \in Processes, handlers[h] \in {"closing", "ending"}
               PROVE  R!Running(shadows') = {} /\ \A i \in Stores : calls'[i] \notin R!Classifying
    BY <1>1 DEF Quiet
  <2>1. R!Running(shadows) = {} /\ \A i \in Stores : calls[i] \notin R!Classifying
    BY DEF ServerInv, Quiet
  <2>2. ~accepting
    BY DEF ServerInv, Gated
  <2> QED
    BY <1>1, <1>2, <1>5, <2>1, <2>2 DEF R!Classifying
<1>7. Gated'
  <2>1. \A i \in Stores : shadows'[i] # "none" => calls'[i] = "done"
    BY <1>1, <1>2, <1>5 DEF ServerInv, Gated
  <2> QED
    BY <1>1, <2>1 DEF ServerInv, Gated
<1> QED
  BY <1>3, <1>5, <1>6, <1>7 DEF ServerInv

LEMMA StoreSteps ==
  ASSUME ServerInv, NEW j \in Stores, R!Begin(j) \/ R!StoreStep(j)
  PROVE  ServerInv'
<1>1. reserved \in Nat /\ reserved <= Limit /\ Estimate[j] \in Nat
  BY DEF ServerInv, Ports
<1>2. CASE R!Begin(j)
  <2>1. PICK s \in {"searching", "writing"} : R!To(j, s) /\ (s = "searching" => accepting)
    BY <1>2 DEF R!Begin
  <2> QED
    BY <1>1, <1>2, <2>1, StoreMoves DEF R!Begin, R!shutting, R!CallStages, R!Classifying
<1>3. CASE R!Searched(j)
  <2>1. reserved' \in Nat /\ reserved' <= Limit
    BY <1>1, <1>3 DEF R!Searched, R!Ask, R!Affordable
  <2>2. PICK s \in {"asking", "writing"} : R!To(j, s)
    BY <1>3 DEF R!Searched
  <2> QED
    BY <1>3, <2>1, <2>2, StoreMoves DEF R!Searched, R!shutting, R!CallStages, R!Classifying
<1>4. CASE R!Answered(j) \/ R!Revised(j)
  <2>1. PICK s \in {"revising", "writing", "done"} : R!To(j, s)
    BY <1>4 DEF R!Answered, R!Revised
  <2>2. calls[j] \in R!Classifying /\ calls[j] # "done"
    BY <1>4 DEF R!Answered, R!Revised, R!Classifying
  <2>3. UNCHANGED <<mutation, accepting, handlers, pool, process, shadows, waiting, reserved>>
    BY <1>4 DEF R!Answered, R!Revised, R!shutting
  <2>4. s \in R!CallStages
    BY DEF R!CallStages
  <2> QED
    BY <1>1, <2>1, <2>2, <2>3, <2>4, StoreMoves
<1>5. CASE R!Connect(j)
  <2>1. PICK s \in {"inserting", "failed"} : R!To(j, s)
    BY <1>5 DEF R!Connect
  <2> QED
    BY <1>1, <1>5, <2>1, StoreMoves DEF R!Connect, R!shutting, R!CallStages, R!Classifying
<1> QED
  BY <1>2, <1>3, <1>4, <1>5, StoreCommits DEF R!StoreStep

\* A handler goes on when the process is idle, which the closed gate keeps it.
LEMMA HandlerSteps ==
  ASSUME ServerInv, NEW h \in Processes, R!Signal(h) \/ R!HandlerStep(h)
  PROVE  ServerInv'
<1>1. handlers \in [Processes -> {"none", "draining", "closing", "ending"}]
  BY DEF ServerInv, Ports
<1>2. CASE R!Signal(h)
  <2>1. /\ handlers' = [handlers EXCEPT ![h] = "draining"] /\ accepting' = FALSE
        /\ UNCHANGED <<mutation, calls, reserved, pool, process>>
    BY <1>2 DEF R!Signal
  <2>2. /\ Lanes' /\ R!Running(shadows') = R!Running(shadows)
        /\ \A j \in Stores : shadows'[j] # "none" => shadows[j] # "none"
    BY <1>2, LaneClosed
  <2>3. Ports'
    BY <1>1, <2>1 DEF ServerInv, Ports
  <2>4. Quiet'
    BY <1>1, <2>1, <2>2 DEF ServerInv, Quiet
  <2>5. Gated'
    BY <2>1, <2>2 DEF ServerInv, Gated
  <2> QED
    BY <2>2, <2>3, <2>4, <2>5 DEF ServerInv
<1>3. CASE R!HandlerStep(h)
  <2>1. UNCHANGED <<mutation, accepting, calls, shadows, waiting, reserved>>
    BY <1>3 DEF R!HandlerStep, R!Drained, R!EndPool, R!Exit
  <2>2. \/ R!Drained(h) /\ UNCHANGED <<pool, process>>
        \/ /\ handlers[h] \in {"closing", "ending"}
           /\ handlers' = handlers \/ handlers' = [handlers EXCEPT ![h] = "ending"]
           /\ pool' \in {pool, "ending"} /\ process' \in {process, "crashed", "exited"}
    BY <1>3 DEF R!HandlerStep, R!Drained, R!EndPool, R!Exit
  <2>3. Lanes'
    BY <2>1 DEF ServerInv, Lanes
  <2>4. CASE R!Drained(h) /\ UNCHANGED <<pool, process>>
    <3>1. handlers[h] = "draining" /\ handlers' = [handlers EXCEPT ![h] = "closing"] /\ R!Idle
      BY <2>4 DEF R!Drained
    <3>2. R!Running(shadows) = {} /\ \A j \in Stores : calls[j] \notin R!Classifying
      <4> DEFINE A == {j \in Stores : calls[j] \in R!Classifying}
                 B == {j \in Stores : shadows[j] \in R!Classifying}
      <4>1. Cardinality(A) \in Nat /\ Cardinality(B) \in Nat
        BY SlotFacts, FS_CardinalityType
      <4>2. Cardinality(A) + Cardinality(B) = 0
        BY <3>1, SlotFacts DEF R!Idle, R!Classifications
      <4>3. A = {}
        BY <4>1, <4>2, SlotFacts
      <4> QED
        BY <3>1, <4>3 DEF R!Idle
    <3>3. Ports'
      BY <1>1, <2>1, <2>4, <3>1 DEF ServerInv, Ports
    <3>4. Quiet'
      BY <2>1, <3>2 DEF Quiet
    <3>5. Gated'
      BY <1>1, <2>1, <3>1 DEF ServerInv, Gated
    <3> QED
      BY <2>3, <3>3, <3>4, <3>5 DEF ServerInv
  <2>5. CASE /\ handlers[h] \in {"closing", "ending"}
             /\ handlers' = handlers \/ handlers' = [handlers EXCEPT ![h] = "ending"]
             /\ pool' \in {pool, "ending"} /\ process' \in {process, "crashed", "exited"}
    <3>1. Ports'
      BY <1>1, <2>1, <2>5 DEF ServerInv, Ports
    <3>2. R!Running(shadows) = {} /\ \A j \in Stores : calls[j] \notin R!Classifying
      BY <2>5 DEF ServerInv, Quiet
    <3>3. Quiet'
      BY <2>1, <3>2 DEF Quiet
    <3>4. Gated'
      BY <1>1, <2>1, <2>5 DEF ServerInv, Gated
    <3> QED
      BY <2>3, <3>1, <3>3, <3>4 DEF ServerInv
  <2> QED
    BY <2>2, <2>4, <2>5
<1> QED
  BY <1>2, <1>3

LEMMA ServerStep ==
  ASSUME ServerInv, [R!Next]_rvars
  PROVE  ServerInv'
<1>1. CASE UNCHANGED rvars
  BY <1>1 DEF rvars, ServerInv, Ports, Lanes, Quiet, Gated
<1> QED
  BY <1>1, ShadowMoves, StoreSteps, HandlerSteps DEF R!Next

LEMMA ServerInit ==
  ASSUME R!Init
  PROVE  ServerInv
<1>1. Ports
  BY DEF R!Init, Ports, R!CallStages
<1>2. Lanes
  <2>1. R!Running(shadows) = {}
    BY DEF R!Init, R!Running
  <2>2. Cardinality(R!Running(shadows)) = 0
    BY <2>1, FS_EmptySet
  <2> QED
    BY <2>2 DEF R!Init, Lanes, R!ShadowStages
<1>3. Quiet /\ Gated
  BY DEF R!Init, Quiet, Gated
<1> QED
  BY <1>1, <1>2, <1>3 DEF ServerInv

LEMMA ServerAlways == Spec => []ServerInv
<1>1. Init => ServerInv
  BY ServerInit DEF Init
<1>2. ServerInv /\ [Next]_vars => ServerInv'
  <2> SUFFICES ASSUME ServerInv, [Next]_vars PROVE [R!Next]_rvars
    BY ServerStep
  <2> QED
    BY DEF Next, vars, Entities, Browser, Plex, Rollup, Embedding, Server, rvars, R!rvars
<1> QED
  BY <1>1, <1>2, PTL DEF Spec

(***************************************************************************)
(* The theorems.  Whichever component a behaviour is about, the variables  *)
(* of the others stutter, so that the invariant of each always holds.      *)
(***************************************************************************)
LEMMA AllAlways ==
  Spec => [](EntityInv /\ VisitInv /\ P!PlayInv /\ RollupInv /\ VectorsInv /\ ServerInv)
BY EntityAlways, VisitAlways, PlayAlways, RollupAlways, RowsAlways, ServerAlways, PTL

(***************************************************************************)
(* The state of every component is well typed, for any number of workers   *)
(* and for rows, visits, plays, events and stores of any number: leases,   *)
(* pages, batches and queues stay within the limits of the code.           *)
(***************************************************************************)
THEOREM TypeCorrect == Spec => []TypeOK
<1>1. EntityInv /\ VisitInv /\ P!PlayInv /\ RollupInv /\ VectorsInv /\ ServerInv => TypeOK
  BY EntityCurrent, PlayCovered, ServerHolds DEF TypeOK, VisitInv, RollupInv, VectorsInv
<1> QED
  BY <1>1, AllAlways, PTL

(***************************************************************************)
(* What is derived from a memory says what the memory says now.  A worker  *)
(* stores links only under the revision it claimed, whose text it has read *)
(* (entity-enrichment), and a pass of the re-embedding writes a vector     *)
(* only over the text it was made of (reembed), whatever edits, hides and  *)
(* restores come between the reading and the writing.                      *)
(***************************************************************************)
THEOREM DerivedStaysCurrent == Spec => []DerivedIsCurrent
<1>1. EntityInv /\ VisitInv /\ P!PlayInv /\ RollupInv /\ VectorsInv /\ ServerInv => DerivedIsCurrent
  BY EntityCurrent DEF DerivedIsCurrent, VectorsInv
<1> QED
  BY <1>1, AllAlways, PTL

(***************************************************************************)
(* A cursor passes nothing that is not stored, unless the code leaves it   *)
(* out on purpose or it arrived too late: with syncs that overlap, pages   *)
(* and feeds of any length, page caps, retries, failures and crashes       *)
(* between the storing of a page and the advance of the cursor.            *)
(***************************************************************************)
THEOREM SkipsNothing == Spec => []NothingSkipped
<1>1. VisitInv => C!NothingSkipped
  BY DEF VisitInv, Seen, C!NothingSkipped
<1>2. EntityInv /\ VisitInv /\ P!PlayInv /\ RollupInv /\ VectorsInv /\ ServerInv => NothingSkipped
  BY <1>1, PlayCovered DEF NothingSkipped
<1> QED
  BY <1>2, AllAlways, PTL

(***************************************************************************)
(* However many passes overlap, and whatever is forgotten or purged between *)
(* them, an event is given a memory at most once: the row of the memory is *)
(* never erased while the event refers to it.                              *)
(***************************************************************************)
THEOREM RolledOnce == Spec => []RolledUpOnce
<1>1. RollupInv => U!RolledUpOnce
  BY DEF RollupInv, MadeOnce, U!RolledUpOnce
<1>2. EntityInv /\ VisitInv /\ P!PlayInv /\ RollupInv /\ VectorsInv /\ ServerInv => RolledUpOnce
  BY <1>1 DEF RolledUpOnce
<1> QED
  BY <1>2, AllAlways, PTL

(***************************************************************************)
(* A process that a signal handler has seen drained classifies nothing any *)
(* more; at most MaxInFlight shadows run, and one waits only when all      *)
(* slots are taken; and what the classifications have reserved stays       *)
(* within the budget: for any number of stores and signals.                *)
(***************************************************************************)
THEOREM DrainKept == Spec => []DrainedStaysDrained
<1>1. EntityInv /\ VisitInv /\ P!PlayInv /\ RollupInv /\ VectorsInv /\ ServerInv => DrainedStaysDrained
  BY ServerHolds DEF DrainedStaysDrained
<1> QED
  BY <1>1, AllAlways, PTL
=============================================================================

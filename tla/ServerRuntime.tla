------------------------------ MODULE ServerRuntime ------------------------------
(***************************************************************************)
(* One server process: stores of new memories, the classification of       *)
(* contradictions before the insertion (mutation mode) or after it, in the *)
(* background (shadow mode), the budget and the scheduler those share, and *)
(* the signal handlers that drain the process and end it.                  *)
(*                                                                         *)
(* A step is what the process does between two awaits; other requests run  *)
(* in between.                                                             *)
(***************************************************************************)
EXTENDS Integers, Sequences, FiniteSets, SequencesExt

CONSTANTS
  Stores,        \* unkeyed memory_store calls, REST or MCP
  Signals,       \* deliveries of SIGINT or SIGTERM
  MaxInFlight,   \* shadowMaxInFlight
  MaxQueued,     \* shadowMaxQueued
  Estimate,      \* reservation of one classification
  Limit          \* limitMicroUsd of the budget

VARIABLES
  mutation,    \* mutationEnabled of the policy the process was started with
  accepting,   \* contradictionRuntimeAccepting, and accepting of the scheduler
  calls,       \* what each store call is doing
  shadows,     \* what the shadow classification of each store is doing
  waiting,     \* the scheduler's queue
  reserved,    \* reservedMicroUsd
  handlers,    \* what each signal handler is doing
  pool,        \* the database pool
  process

rvars == <<mutation, accepting, calls, shadows, waiting, reserved, handlers, pool,
           process>>

\* searching, asking and revising are a classification, between begin and finish.
CallStages == {"none", "searching", "asking", "revising", "writing", "inserting", "done", "failed"}
ShadowStages == {"none", "queued", "started", "searching", "asking", "ended"}
Classifying == {"searching", "asking", "revising"}

Init ==
  /\ mutation \in BOOLEAN
  /\ accepting = TRUE
  /\ calls = [j \in Stores |-> "none"]
  /\ shadows = [j \in Stores |-> "none"]
  /\ waiting = <<>>
  /\ reserved = 0
  /\ handlers = [h \in Signals |-> "none"]
  /\ pool = "open"
  /\ process = "up"

To(j, stage) == calls' = [calls EXCEPT ![j] = stage]
shutting == <<mutation, accepting, handlers, pool, process>>

\* The shadow tasks that have a slot, and the classifications that a shutdown waits for.
Running(sh) == {j \in Stores : sh[j] \in {"started", "searching", "asking"}}
Classifications == Cardinality({j \in Stores : calls[j] \in Classifying})
                 + Cardinality({j \in Stores : shadows[j] \in Classifying})

(***************************************************************************)
(* The budget.                                                             *)
(***************************************************************************)

\* Faulty: admitted as long as something is left.
AffordableWhileLeft(j) == reserved < Limit

Affordable(j) == reserved + Estimate[j] <= Limit

\* The gate is read again after the search; then the reservation, and the provider is
\* called: nothing else runs in between.
Ask(j) == accepting /\ Affordable(j)

(***************************************************************************)
(* The scheduler of shadow classifications.                                *)
(***************************************************************************)

\* Faulty: the queue has no bound.
ScheduleUnbounded(j) ==
  IF ~accepting
  THEN shadows' = [shadows EXCEPT ![j] = "ended"] /\ UNCHANGED waiting
  ELSE IF Cardinality(Running(shadows)) < MaxInFlight
  THEN shadows' = [shadows EXCEPT ![j] = "started"] /\ UNCHANGED waiting
  ELSE shadows' = [shadows EXCEPT ![j] = "queued"] /\ waiting' = Append(waiting, j)

\* BoundedShadowScheduler.schedule: a slot, the queue, or nothing.
Schedule(j) ==
  IF ~accepting
  THEN shadows' = [shadows EXCEPT ![j] = "ended"] /\ UNCHANGED waiting
  ELSE IF Cardinality(Running(shadows)) < MaxInFlight
  THEN shadows' = [shadows EXCEPT ![j] = "started"] /\ UNCHANGED waiting
  ELSE IF Len(waiting) >= MaxQueued
  THEN shadows' = [shadows EXCEPT ![j] = "ended"] /\ UNCHANGED waiting
  ELSE shadows' = [shadows EXCEPT ![j] = "queued"] /\ waiting' = Append(waiting, j)

\* The task is over: the next one takes its slot, unless the process is shutting down.
Finished(j) ==
  IF accepting /\ waiting # <<>>
  THEN /\ shadows' = [shadows EXCEPT ![j] = "ended", ![Head(waiting)] = "started"]
       /\ waiting' = Tail(waiting)
  ELSE shadows' = [shadows EXCEPT ![j] = "ended"] /\ UNCHANGED waiting

ShadowBegin(j) ==
  /\ shadows[j] = "started"
  /\ IF accepting
     THEN shadows' = [shadows EXCEPT ![j] = "searching"] /\ UNCHANGED waiting
     ELSE Finished(j)
  /\ UNCHANGED <<shutting, calls, reserved>>

\* The search ends with candidates, or with none or an error.
ShadowSearched(j) ==
  /\ shadows[j] = "searching"
  /\ \/ /\ Ask(j)
        /\ shadows' = [shadows EXCEPT ![j] = "asking"]
        /\ reserved' = reserved + Estimate[j]
        /\ UNCHANGED waiting
     \/ Finished(j) /\ UNCHANGED reserved
  /\ UNCHANGED <<shutting, calls>>

\* An answer, a failure or the timeout: a shadow changes nothing.
ShadowAnswered(j) ==
  /\ shadows[j] = "asking"
  /\ Finished(j)
  /\ UNCHANGED <<shutting, calls, reserved>>

(***************************************************************************)
(* A store.                                                                *)
(***************************************************************************)

Begin(j) ==
  /\ calls[j] = "none"
  /\ To(j, IF mutation /\ accepting THEN "searching" ELSE "writing")
  /\ UNCHANGED <<shutting, shadows, waiting, reserved>>

Searched(j) ==
  /\ calls[j] = "searching"
  /\ \/ Ask(j) /\ To(j, "asking") /\ reserved' = reserved + Estimate[j]
     \/ To(j, "writing") /\ UNCHANGED reserved
  /\ UNCHANGED <<shutting, shadows, waiting>>

\* A contradiction of enough confidence is committed as a revision.
Answered(j) ==
  /\ calls[j] = "asking"
  /\ To(j, "revising") \/ To(j, "writing")
  /\ UNCHANGED <<shutting, shadows, waiting, reserved>>

\* commitAutomaticRevision: a successor, or nothing if the predecessor has gone.
Revised(j) ==
  /\ calls[j] = "revising"
  /\ To(j, "done") \/ To(j, "writing")
  /\ UNCHANGED <<shutting, shadows, waiting, reserved>>

\* The transaction of the plain insertion needs a client of the pool.
Connect(j) ==
  /\ calls[j] = "writing"
  /\ To(j, IF pool = "open" THEN "inserting" ELSE "failed")
  /\ UNCHANGED <<shutting, shadows, waiting, reserved>>

Commit(j) ==
  /\ calls[j] = "inserting"
  /\ To(j, "done")
  /\ IF mutation THEN UNCHANGED <<shadows, waiting>> ELSE Schedule(j)
  /\ UNCHANGED <<shutting, reserved>>

(***************************************************************************)
(* Shutdown.  The handlers of several signals run one beside the other.    *)
(***************************************************************************)

\* The gate is closed and the queue dropped before anything is awaited.
Signal(h) ==
  /\ handlers[h] = "none"
  /\ handlers' = [handlers EXCEPT ![h] = "draining"]
  /\ accepting' = FALSE
  /\ shadows' = [j \in Stores |-> IF shadows[j] = "queued" THEN "ended" ELSE shadows[j]]
  /\ waiting' = <<>>
  /\ UNCHANGED <<mutation, calls, reserved, pool, process>>

\* Faulty: only the scheduler is waited for.
IdleScheduler == Running(shadows) = {}

Idle == Running(shadows) = {} /\ Classifications = 0

Drained(h) ==
  /\ handlers[h] = "draining"
  /\ Idle
  /\ handlers' = [handlers EXCEPT ![h] = "closing"]
  /\ UNCHANGED <<mutation, accepting, calls, shadows, waiting, reserved, pool, process>>

\* The sessions are closed; then the pool is ended.  To end it twice is an error, which no
\* handler catches.
EndPool(h) ==
  /\ handlers[h] = "closing"
  /\ IF pool = "open"
     THEN /\ pool' = "ending"
          /\ handlers' = [handlers EXCEPT ![h] = "ending"]
          /\ UNCHANGED process
     ELSE process' = "crashed" /\ UNCHANGED <<pool, handlers>>
  /\ UNCHANGED <<mutation, accepting, calls, shadows, waiting, reserved>>

\* The pool ends when the last client is back.
Exit(h) ==
  /\ handlers[h] = "ending"
  /\ \A j \in Stores : calls[j] \notin {"inserting", "revising"}
  /\ process' = "exited"
  /\ UNCHANGED <<mutation, accepting, calls, shadows, waiting, reserved, handlers, pool>>

StoreStep(j) == Searched(j) \/ Answered(j) \/ Revised(j) \/ Connect(j) \/ Commit(j)
ShadowStep(j) == ShadowBegin(j) \/ ShadowSearched(j) \/ ShadowAnswered(j)
HandlerStep(h) == Drained(h) \/ EndPool(h) \/ Exit(h)

Next ==
  /\ process = "up"
  /\ \/ \E j \in Stores : Begin(j) \/ StoreStep(j) \/ ShadowStep(j)
     \/ \E h \in Signals : Signal(h) \/ HandlerStep(h)

\* Queries and provider calls end, by their timeouts at the latest.
Fairness ==
  /\ \A j \in Stores : /\ WF_rvars(process = "up" /\ StoreStep(j))
                       /\ WF_rvars(process = "up" /\ ShadowStep(j))
  /\ \A h \in Signals : WF_rvars(process = "up" /\ HandlerStep(h))

Spec == Init /\ [][Next]_rvars /\ Fairness

-------------------------------------------------------------------------------
TypeOK ==
  /\ mutation \in BOOLEAN
  /\ accepting \in BOOLEAN
  /\ calls \in [Stores -> CallStages]
  /\ shadows \in [Stores -> ShadowStages]
  /\ waiting \in BoundedSeq(Stores, MaxQueued)
  /\ reserved \in Nat
  /\ handlers \in [Signals -> {"none", "draining", "closing", "ending"}]
  /\ pool \in {"open", "ending"}
  /\ process \in {"up", "exited", "crashed"}

\* Once a handler has seen the process drained, no memory is being classified, whichever
\* requests were half way through when the gate closed; and no shadow holds more than its
\* bound at any time.
DrainedStaysDrained ==
  /\ (\E h \in Signals : handlers[h] \in {"closing", "ending"}) => Running(shadows) = {} /\ Classifications = 0
  /\ Cardinality(Running(shadows)) <= MaxInFlight
  /\ waiting # <<>> => Cardinality(Running(shadows)) = MaxInFlight

\* The process never asks for more than its budget, whatever asks at the same time.
BudgetKept ==
  reserved <= Limit

\* A shadow that was let in ends, and so does a process that was told to.
Settled ==
  process = "up" => /\ \A j \in Stores : shadows[j] \notin {"queued", "started"}
                    /\ \A h \in Signals : handlers[h] = "none"
=============================================================================

-------------------------- MODULE SessionDistillation --------------------------
(***************************************************************************)
(* Session transcripts: clients that store a session under an identity of  *)
(* their own and retry, and workers that claim its run, load the           *)
(* transcript, reserve money, call a model outside any transaction and     *)
(* store the facts if the transcript is still the one they read.           *)
(***************************************************************************)
EXTENDS Integers, FiniteSets, Functions

CONSTANTS
  Sessions,      \* identities (owner, namespace, session_id)
  Requests,      \* session_request_hash values
  Calls,         \* calls of memory_store_session: a session and a request each
  Distillers,    \* worker processes
  Policies,      \* approved policies, numbered
  None,
  MaxAttempts,   \* SESSION_DISTILLATION_MAX_ATTEMPTS
  Cost,          \* reservation of each session
  SessionCap,    \* maxCostUsdPerSession
  MonthlyCap,    \* maxCostUsdPerMonth
  LastMonth,     \* bound of the model: months
  MaxUpsets      \* bound of the model: crashes, stalls, changes of keys, chunks and policies

\* The texts of a session_id are bounded.
ASSUME SessionsAssumption == IsFiniteSet(Sessions) /\ Cost \in [Sessions -> Nat]
ASSUME CallsAssumption == Calls \subseteq [session : Sessions, request : Requests]
ASSUME BoundsAssumption ==
  /\ 1 \in Policies /\ Policies \subseteq Nat
  /\ MaxAttempts \in Nat /\ MonthlyCap \in Nat /\ LastMonth \in Nat \ {0} /\ MaxUpsets \in Nat

VARIABLES
  month,
  policy,      \* the policy file a worker reads when it starts
  enabled,     \* the owner's key is enabled and still has the namespace
  episodes,    \* documents of kind session and their chunks
  runs,        \* memory_session_distillation_runs
  facts,       \* the transcript version a session's stored facts say, None without facts
  distillers,
  embedding,   \* calls that found no session and embed their chunks
  told,        \* history: calls answered with a stored session
  spent,       \* history: what was reserved in each month, for whichever run
  upsets

svars == <<month, policy, enabled, episodes, runs, facts, distillers, embedding, told,
           spent, upsets>>

\* chunks is the version of the transcript the chunks hold, "forgotten" once one is deleted.
Chunks == {"original", "edited", "forgotten"}
Episode == [request : Requests, chunks : Chunks]

Run == [status : {"pending", "processing", "retry", "completed", "dead"}, attempts : 0..MaxAttempts,
        wait : {"none", "backoff", "month"},   \* what next_attempt_at waits for
        overdue : BOOLEAN, created : 1..LastMonth,
        charged : 0..LastMonth,   \* history: the month of the reservation, 0 without one
        policy : Policies \cup {None}]
ASSUME NoneAssumption == None \notin Sessions \cup Chunks \cup Episode \cup Run

NewRun == [status |-> "pending", attempts |-> 0, wait |-> "none", overdue |-> FALSE,
           created |-> month, charged |-> 0, policy |-> None]

Stages == {"idle", "claimed", "loaded", "generating", "generated", "failing", "condemned"}
Distiller == [stage : Stages, session : Sessions \cup {None}, attempts : 0..MaxAttempts,
              read : Chunks \cup {None}, policy : Policies]
Free(p) == [stage |-> "idle", session |-> None, attempts |-> 0, read |-> None, policy |-> p]

Init ==
  /\ month = 1
  /\ policy = 1
  /\ enabled = TRUE
  /\ episodes = [s \in Sessions |-> None]
  /\ runs = [s \in Sessions |-> None]
  /\ facts = [s \in Sessions |-> None]
  /\ distillers = [w \in Distillers |-> Free(policy)]
  /\ embedding = {}
  /\ told = {}
  /\ spent = [m \in 1..LastMonth |-> 0]
  /\ upsets = 0

Stored == {s \in Sessions : runs[s] # None}

store == <<episodes, runs, facts>>
world == <<month, policy, enabled, spent>>

(***************************************************************************)
(* memory_store_session.  The lookup, the embedding of the chunks and the  *)
(* insertion are three steps; the insertion replays if it comes second.    *)
(***************************************************************************)

\* completedExistingSession: an answer, or an error.
Replay(c) ==
  told' = IF episodes[c.session].request = c.request /\ episodes[c.session].chunks # "forgotten"
          THEN told \cup {c} ELSE told

Look(c) ==
  /\ c \notin embedding
  /\ IF c.session \in Stored
     THEN Replay(c) /\ UNCHANGED embedding
     ELSE embedding' = embedding \cup {c} /\ UNCHANGED told
  /\ UNCHANGED <<store, world, distillers, upsets>>

\* Faulty: the second of two callers is answered without a look at the stored request.
ReplayUnchecked(c) == told' = told \cup {c}

InsertConflict(c) == Replay(c)

Insert(c) ==
  /\ c \in embedding
  /\ embedding' = embedding \ {c}
  /\ IF c.session \in Stored
     THEN InsertConflict(c) /\ UNCHANGED store
     ELSE /\ episodes' = [episodes EXCEPT ![c.session] = [request |-> c.request, chunks |-> "original"]]
          /\ runs' = [runs EXCEPT ![c.session] = NewRun]
          /\ told' = told \cup {c}
          /\ UNCHANGED facts
  /\ UNCHANGED <<world, distillers, upsets>>

(***************************************************************************)
(* The worker.  A step that finds no work or that fails leaves its run to  *)
(* the lease or to the backoff.                                            *)
(***************************************************************************)
rest == <<world, episodes, embedding, told, upsets>>

Ended(row, status) ==
  [row EXCEPT !.status = status, !.wait = IF status = "retry" THEN "backoff" ELSE "none",
              !.overdue = FALSE]
Deferred(row) == [row EXCEPT !.status = "retry", !.wait = "month", !.overdue = FALSE]

Exhausted(row) == row.status = "processing" /\ row.overdue /\ row.attempts >= MaxAttempts

\* The first statement of every claim.
Swept == [s \in Sessions |->
  IF s \in Stored /\ Exhausted(runs[s]) THEN Ended(runs[s], "dead") ELSE runs[s]]

\* Faulty: a run is claimed again however often it was tried.
ClaimableForEver(row) ==
  \/ row.status \in {"pending", "retry"} /\ row.wait = "none"
  \/ row.status = "processing" /\ row.overdue

Claimable(row) ==
  /\ row.attempts < MaxAttempts
  /\ \/ row.status \in {"pending", "retry"} /\ row.wait = "none"
     \/ row.status = "processing" /\ row.overdue

\* Faulty: exhausted runs of dead workers are left as they are.
SweptNone == runs

ClaimBase == Swept

Claim(w, s) ==
  /\ distillers[w].stage = "idle"
  /\ s \in Stored /\ Claimable(runs[s])
  /\ runs' = [ClaimBase EXCEPT
                  ![s] = [ClaimBase[s] EXCEPT
                    !.status = "processing", !.attempts = @ + 1, !.overdue = FALSE]]
  /\ distillers' = [distillers EXCEPT
                        ![w] = [@ EXCEPT
                          !.stage = "claimed", !.session = s,
                          !.attempts = runs[s].attempts + 1]]
  /\ UNCHANGED <<rest, facts>>

ClaimNothing(w) ==
  /\ distillers[w].stage = "idle"
  /\ \A s \in Stored : ~Claimable(runs[s])
  /\ runs' = ClaimBase
  /\ UNCHANGED <<rest, facts, distillers>>

To(w, stage) == distillers' = [distillers EXCEPT ![w].stage = stage]
Release(w) == distillers' = [distillers EXCEPT ![w] = Free(@.policy)]

Processing(s) == runs[s].status = "processing"

Load(w) ==
  LET s == distillers[w].session IN
  /\ distillers[w].stage = "claimed"
  /\ IF Processing(s) /\ enabled /\ episodes[s].chunks # "forgotten"
     THEN distillers' = [distillers EXCEPT
                             ![w] = [@ EXCEPT
                               !.stage = "loaded", !.read = episodes[s].chunks]]
     ELSE To(w, "condemned")
  /\ UNCHANGED <<rest, runs, facts>>

\* What the runs created this month have reserved: not what was reserved this month.
Spent(s) ==
  SumFunctionOnSet(Cost, {r \in Stored \ {s} : runs[r].created = month /\ runs[r].charged # 0})

\* Faulty: the runs that other workers have charged are not counted.
ReservableAlone(s) == Cost[s] <= MonthlyCap

Reservable(s) == Spent(s) + Cost[s] <= MonthlyCap

\* Faulty: every attempt reserves anew.
PaidNever(s) == FALSE

Paid(s) == runs[s].charged # 0

\* reserveSessionDistillationBudget.  A run that is deferred keeps its attempts.
Reserve(w) ==
  LET s == distillers[w].session IN
  /\ distillers[w].stage = "loaded"
  /\ \/ /\ Processing(s) /\ Cost[s] > SessionCap
        /\ runs' = [runs EXCEPT ![s] = Ended(@, "dead")]
        /\ Release(w) /\ UNCHANGED spent
     \/ /\ ~Processing(s)
        /\ Release(w) /\ UNCHANGED <<runs, spent>>
     \/ /\ Processing(s) /\ Cost[s] <= SessionCap /\ Paid(s)
        /\ IF runs[s].policy = distillers[w].policy
           THEN To(w, "generating") /\ UNCHANGED runs
           ELSE runs' = [runs EXCEPT ![s] = Ended(@, "dead")] /\ Release(w)
        /\ UNCHANGED spent
     \/ /\ Processing(s) /\ Cost[s] <= SessionCap /\ ~Paid(s)
        /\ IF Reservable(s)
           THEN /\ runs' = [runs EXCEPT
                                ![s] = [@ EXCEPT
                                  !.charged = month, !.policy = distillers[w].policy]]
                /\ spent' = [spent EXCEPT ![month] = @ + Cost[s]]
                /\ To(w, "generating")
           ELSE runs' = [runs EXCEPT ![s] = Deferred(@)] /\ Release(w) /\ UNCHANGED spent
  /\ UNCHANGED <<month, policy, enabled, episodes, facts, embedding, told, upsets>>

Generate(w) ==
  /\ distillers[w].stage = "generating"
  /\ To(w, "generated") \/ To(w, "failing")
  /\ UNCHANGED <<rest, runs, facts>>

\* Faulty: the chunks are not read again.
UnchangedUnread(w, s) == TRUE

Unchanged(w, s) == episodes[s].chunks = distillers[w].read

\* applySessionDistillation: every fact and the end of the run, or nothing.
Apply(w) ==
  LET s == distillers[w].session IN
  /\ distillers[w].stage = "generated"
  /\ IF Processing(s) /\ runs[s].policy = distillers[w].policy /\ enabled /\ Unchanged(w, s)
     THEN /\ runs' = [runs EXCEPT ![s] = Ended(@, "completed")]
          /\ facts' = [facts EXCEPT ![s] = distillers[w].read]
          /\ Release(w)
     ELSE To(w, "condemned") /\ UNCHANGED <<runs, facts>>
  /\ UNCHANGED rest

\* markSessionDistillationFailed asks only whether the run is being processed, by whomever,
\* and goes by the attempts of the claim it was given.
Fail(w) ==
  LET s == distillers[w].session IN
  /\ distillers[w].stage \in {"failing", "condemned"}
  /\ runs' = IF ~Processing(s) THEN runs
             ELSE [runs EXCEPT ![s] =
               Ended(@, IF distillers[w].stage = "condemned" \/ distillers[w].attempts >= MaxAttempts
                        THEN "dead" ELSE "retry")]
  /\ Release(w)
  /\ UNCHANGED <<rest, facts>>

(***************************************************************************)
(* Faults, time and the rest of the system.                                *)
(***************************************************************************)

\* The process dies, or the policy it holds has expired; the next one reads the policy again.
Crash(w) ==
  /\ distillers[w].stage # "idle" \/ distillers[w].policy # policy
  /\ upsets < MaxUpsets
  /\ upsets' = upsets + 1
  /\ distillers' = [distillers EXCEPT ![w] = Free(policy)]
  /\ UNCHANGED <<world, store, embedding, told>>

Held(s) == \E w \in Distillers : distillers[w].session = s

LeaseEnds(s) ==
  /\ s \in Stored /\ Processing(s) /\ ~runs[s].overdue
  /\ Held(s) => upsets < MaxUpsets
  /\ upsets' = IF Held(s) THEN upsets + 1 ELSE upsets
  /\ runs' = [runs EXCEPT ![s].overdue = TRUE]
  /\ UNCHANGED <<world, episodes, facts, distillers, embedding, told>>

ComesDue(s) ==
  /\ s \in Stored /\ runs[s].wait = "backoff"
  /\ runs' = [runs EXCEPT ![s].wait = "none"]
  /\ UNCHANGED <<rest, facts, distillers>>

NextMonth ==
  /\ month < LastMonth
  /\ month' = month + 1
  /\ runs' = [s \in Sessions |->
       IF s \in Stored /\ runs[s].wait = "month" THEN [runs[s] EXCEPT !.wait = "none"] ELSE runs[s]]
  /\ UNCHANGED <<policy, enabled, episodes, facts, distillers, embedding, told, spent, upsets>>

upset == upsets < MaxUpsets /\ upsets' = upsets + 1
elsewhere == <<month, runs, facts, distillers, embedding, told, spent>>

\* The operator disables or enables the owner's key: no program sets the column.
ToggleOwner ==
  /\ upset
  /\ enabled' = ~enabled
  /\ UNCHANGED <<elsewhere, policy, episodes>>

\* Another approved policy file, which a worker reads when it starts.
ReplacePolicy ==
  /\ upset
  /\ policy + 1 \in Policies
  /\ policy' = policy + 1
  /\ UNCHANGED <<elsewhere, enabled, episodes>>

Rewrite(s, v) ==
  /\ s \in Stored /\ episodes[s].chunks \notin {v, "forgotten"}
  /\ upset
  /\ episodes' = [episodes EXCEPT ![s].chunks = v]
  /\ UNCHANGED <<elsewhere, policy, enabled>>

\* memory_update and memory_forget take any row of their caller, a chunk of a session too.
UpdateChunk(s) == Rewrite(s, "edited")
ForgetChunk(s) == Rewrite(s, "forgotten")

Step(w) == Load(w) \/ Reserve(w) \/ Generate(w) \/ Apply(w) \/ Fail(w)

Next ==
  \/ \E c \in Calls : Look(c) \/ Insert(c)
  \/ \E w \in Distillers, s \in Sessions : Claim(w, s)
  \/ \E w \in Distillers : ClaimNothing(w) \/ Step(w) \/ Crash(w)
  \/ \E s \in Sessions : LeaseEnds(s) \/ ComesDue(s) \/ UpdateChunk(s) \/ ForgetChunk(s)
  \/ NextMonth \/ ToggleOwner \/ ReplacePolicy

\* Workers go on and poll, and time passes.
Fairness ==
  /\ \A w \in Distillers : /\ WF_svars(Step(w))
                           /\ WF_svars(ClaimNothing(w) \/ \E s \in Sessions : Claim(w, s))
  /\ \A s \in Sessions : WF_svars(ComesDue(s)) /\ WF_svars(~Held(s) /\ LeaseEnds(s))
  /\ WF_svars(NextMonth)

Spec == Init /\ [][Next]_svars /\ Fairness

-------------------------------------------------------------------------------
TypeOK ==
  /\ month \in 1..LastMonth
  /\ policy \in Policies
  /\ enabled \in BOOLEAN
  /\ episodes \in [Sessions -> Episode \cup {None}]
  /\ runs \in [Sessions -> Run \cup {None}]
  /\ facts \in [Sessions -> Chunks \cup {None}]
  /\ distillers \in [Distillers -> Distiller]
  /\ embedding \subseteq Calls
  /\ told \subseteq Calls
  /\ spent \in [1..LastMonth -> Nat]
  /\ upsets \in 0..MaxUpsets

\* A session identity stands for one transcript: clients told that it is stored sent the
\* same request, and it is the stored one.
SessionIdentityHolds ==
  \A c \in told : c.session \in Stored /\ episodes[c.session].request = c.request

\* Facts are published only while their owner's key may write, and only for the transcript
\* that is stored at that moment, however long the model took.
PublishedFromStoredTranscript ==
  [][\A s \in Sessions : facts'[s] # facts[s] =>
       /\ enabled'
       /\ facts'[s] = episodes'[s].chunks
       /\ runs'[s].status = "completed"]_svars

Carried(m) == {s \in Stored : runs[s].created < m /\ runs[s].charged = m}

\* What is reserved in a month stays within its cap for the sessions of the month, for any
\* number of workers, and no retry of a run is charged again; what exceeds the cap is the
\* one reservation each of the runs that were created in an earlier month.
MonthlyCapKept ==
  \A m \in 1..LastMonth : spent[m] <= MonthlyCap + SumFunctionOnSet(Cost, Carried(m))

\* What is reserved in a month stays within its cap.  The code does not keep this: a run
\* that was deferred or came late is charged in a month whose sum leaves it out.
MonthSpendKept == \A m \in 1..LastMonth : spent[m] <= MonthlyCap

Over(s) == s \in Stored /\ runs[s].status \in {"completed", "dead"}

\* A run whose last attempt was deferred or failed by a stalled worker stays in retry with
\* no attempt left: no claim takes it and no sweep ends it.
Stranded(s) == s \in Stored /\ runs[s].status = "retry" /\ runs[s].attempts = MaxAttempts

\* The model has no month to which a run can still be deferred.
BeyondLastMonth(s) == s \in Stored /\ runs[s].wait = "month" /\ month = LastMonth

\* A stored session is distilled or given up, whatever happens to the workers, unless its
\* run is stranded.
Settled == \A s \in Stored : Over(s) \/ Stranded(s) \/ BeyondLastMonth(s)
EveryRunEnds == []<>Settled

\* What the documentation says: a run is dead after its last attempt.
ExhaustedRunsDie == []<>(\A s \in Stored : Over(s) \/ BeyondLastMonth(s))
=============================================================================

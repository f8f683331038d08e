------------------------ MODULE SessionDistillationProofs ------------------------
(***************************************************************************)
(* Theorems about SessionDistillation, for any number of sessions, workers *)
(* and attempts: types, the identity of sessions, what facts are published *)
(* from, and the monthly cap on money.                                     *)
(***************************************************************************)
EXTENDS SessionDistillation, FiniteSetFacts

(***************************************************************************)
(* TypeOK is not inductive: a step reads the run and the episode of the    *)
(* session its worker holds, so both must be there, and stay.              *)
(***************************************************************************)
StoredTogether == \A s \in Sessions : runs[s] = None <=> episodes[s] = None
HeldAreStored == \A w \in Distillers : distillers[w].stage # "idle" => distillers[w].session \in Stored
Typed == TypeOK /\ StoredTogether /\ HeldAreStored

\* What every step but a storage and a reservation does to the runs.
RunsKept ==
  /\ runs' \in [Sessions -> Run \cup {None}]
  /\ \A s \in Sessions : /\ runs'[s] = None <=> runs[s] = None
                         /\ runs[s] # None => /\ runs'[s].created = runs[s].created
                                              /\ runs'[s].charged = runs[s].charged

Statuses == {"pending", "processing", "retry", "completed", "dead"}

LEMMA StoredRuns ==
  ASSUME TypeOK, NEW s \in Stored
  PROVE  s \in Sessions /\ runs[s] \in Run
BY DEF TypeOK, Stored

LEMMA EndedRun ==
  ASSUME NEW row \in Run, NEW status \in Statuses
  PROVE  /\ Ended(row, status) \in Run
         /\ Ended(row, status).created = row.created
         /\ Ended(row, status).charged = row.charged
         /\ Ended(row, status).status = status
BY DEF Ended, Run, Statuses

LEMMA DeferredRun ==
  ASSUME NEW row \in Run
  PROVE  /\ Deferred(row) \in Run
         /\ Deferred(row).created = row.created
         /\ Deferred(row).charged = row.charged
BY DEF Deferred, Run

LEMMA BegunRun ==
  ASSUME Typed
  PROVE  NewRun \in Run
BY BoundsAssumption DEF NewRun, Run, Typed, TypeOK

LEMMA SweptRuns ==
  ASSUME TypeOK
  PROVE  /\ Swept \in [Sessions -> Run \cup {None}]
         /\ \A s \in Sessions : /\ Swept[s] = None <=> runs[s] = None
                                /\ runs[s] # None => /\ Swept[s].created = runs[s].created
                                                     /\ Swept[s].charged = runs[s].charged
<1>1. \A s \in Sessions : /\ Swept[s] \in Run \cup {None}
                          /\ Swept[s] = None <=> runs[s] = None
                          /\ runs[s] # None => /\ Swept[s].created = runs[s].created
                                               /\ Swept[s].charged = runs[s].charged
  BY StoredRuns, EndedRun, NoneAssumption DEF Swept, Stored, Statuses, TypeOK
<1> QED
  BY <1>1 DEF Swept

\* Replacing a run that is there by one that keeps its months.
LEMMA RunReplaced ==
  ASSUME TypeOK, NEW s \in Stored, NEW row \in Run,
         row.created = runs[s].created, row.charged = runs[s].charged,
         runs' = [runs EXCEPT ![s] = row]
  PROVE  RunsKept
BY StoredRuns, NoneAssumption DEF RunsKept, TypeOK, Stored

LEMMA RunsUnchanged ==
  ASSUME TypeOK, UNCHANGED runs
  PROVE  RunsKept
BY DEF RunsKept, TypeOK

(***************************************************************************)
(* Runs, action by action.                                                 *)
(***************************************************************************)
LEMMA ClaimRuns ==
  ASSUME Typed, NEW w \in Distillers, NEW s \in Sessions, Claim(w, s)
  PROVE  RunsKept
<1> DEFINE row == [Swept[s] EXCEPT !.status = "processing", !.attempts = @ + 1, !.overdue = FALSE]
<1>1. s \in Stored /\ Claimable(runs[s]) /\ runs[s] \in Run
  BY StoredRuns DEF Claim, Typed
<1>2. Swept[s] = runs[s]
  <2>1. runs[s].attempts \in Nat /\ runs[s].attempts < MaxAttempts
    BY <1>1, BoundsAssumption DEF Run, Claimable
  <2>2. ~Exhausted(runs[s])
    BY <2>1, BoundsAssumption DEF Exhausted
  <2> QED
    BY <1>1, <2>2, StoredRuns DEF Swept, Typed
<1>3. row \in Run /\ row.created = runs[s].created /\ row.charged = runs[s].charged
  <2>1. runs[s].attempts + 1 \in 0..MaxAttempts
    BY <1>1, BoundsAssumption DEF Run, Claimable
  <2>2. row = [runs[s] EXCEPT !.status = "processing", !.attempts = runs[s].attempts + 1,
                              !.overdue = FALSE]
    BY <1>2
  <2> QED
    BY <1>1, <2>1, <2>2 DEF Run
<1>4. runs' = [Swept EXCEPT ![s] = row]
  <2>1. runs' = [Swept EXCEPT ![s] = [Swept[s] EXCEPT
                   !.status = "processing", !.attempts = @ + 1, !.overdue = FALSE]]
    BY DEF Claim, ClaimBase
  <2> HIDE DEF Swept
  <2> QED
    BY ONLY <2>1
<1> HIDE DEF row
<1> QED
  BY <1>1, <1>3, <1>4, SweptRuns, NoneAssumption DEF RunsKept, Typed, Stored

LEMMA ClaimNothingRuns ==
  ASSUME Typed, NEW w \in Distillers, ClaimNothing(w)
  PROVE  RunsKept
BY SweptRuns DEF ClaimNothing, ClaimBase, RunsKept, Typed

\* The worker of a step holds a run and an episode.
LEMMA HeldSession ==
  ASSUME Typed, NEW w \in Distillers, distillers[w].stage # "idle"
  PROVE  /\ distillers[w].session \in Stored
         /\ runs[distillers[w].session] \in Run
         /\ episodes[distillers[w].session] \in Episode
BY StoredRuns DEF Typed, HeldAreStored, StoredTogether, TypeOK, Stored

LEMMA ApplyRuns ==
  ASSUME Typed, NEW w \in Distillers, Apply(w)
  PROVE  RunsKept
<1> DEFINE s == distillers[w].session
           row == Ended(runs[s], "completed")
<1>1. s \in Stored /\ runs[s] \in Run
  BY HeldSession DEF Apply
<1>2. UNCHANGED runs \/ runs' = [runs EXCEPT ![s] = row]
  BY DEF Apply
<1>3. row \in Run /\ row.created = runs[s].created /\ row.charged = runs[s].charged
  BY <1>1, EndedRun DEF Statuses
<1> HIDE DEF s, row
<1> QED
  BY <1>1, <1>2, <1>3, RunReplaced, RunsUnchanged DEF Typed

LEMMA FailRuns ==
  ASSUME Typed, NEW w \in Distillers, Fail(w)
  PROVE  RunsKept
<1> DEFINE s == distillers[w].session
<1>1. s \in Stored /\ runs[s] \in Run
  BY HeldSession DEF Fail
<1>2. UNCHANGED runs \/ \E status \in Statuses : runs' = [runs EXCEPT ![s] = Ended(runs[s], status)]
  BY DEF Fail, Statuses
<1>3. CASE UNCHANGED runs
  BY <1>3, RunsUnchanged DEF Typed
<1>4. ASSUME NEW status \in Statuses, runs' = [runs EXCEPT ![s] = Ended(runs[s], status)]
      PROVE  RunsKept
  BY <1>1, <1>4, EndedRun, RunReplaced DEF Typed
<1> QED
  BY <1>2, <1>3, <1>4

LEMMA LeaseEndsRuns ==
  ASSUME Typed, NEW s \in Sessions, LeaseEnds(s)
  PROVE  RunsKept
<1> DEFINE row == [runs[s] EXCEPT !.overdue = TRUE]
<1>1. s \in Stored /\ runs[s] \in Run
  BY StoredRuns DEF LeaseEnds, Typed
<1>2. row \in Run /\ row.created = runs[s].created /\ row.charged = runs[s].charged
  BY <1>1 DEF Run
<1>3. runs' = [runs EXCEPT ![s] = row]
  BY DEF LeaseEnds
<1> HIDE DEF row
<1> QED
  BY <1>1, <1>2, <1>3, RunReplaced DEF Typed

LEMMA ComesDueRuns ==
  ASSUME Typed, NEW s \in Sessions, ComesDue(s)
  PROVE  RunsKept
<1> DEFINE row == [runs[s] EXCEPT !.wait = "none"]
<1>1. s \in Stored /\ runs[s] \in Run
  BY StoredRuns DEF ComesDue, Typed
<1>2. row \in Run /\ row.created = runs[s].created /\ row.charged = runs[s].charged
  BY <1>1 DEF Run
<1>3. runs' = [runs EXCEPT ![s] = row]
  BY DEF ComesDue
<1> HIDE DEF row
<1> QED
  BY <1>1, <1>2, <1>3, RunReplaced DEF Typed

LEMMA NextMonthRuns ==
  ASSUME Typed, NextMonth
  PROVE  RunsKept
<1>1. ASSUME NEW s \in Sessions
      PROVE  /\ runs'[s] \in Run \cup {None}
             /\ runs'[s] = None <=> runs[s] = None
             /\ runs[s] # None => /\ runs'[s].created = runs[s].created
                                  /\ runs'[s].charged = runs[s].charged
  <2>1. CASE runs[s] = None
    BY <2>1 DEF NextMonth, Stored
  <2>2. CASE runs[s] # None
    <3>1. runs[s] \in Run
      BY <2>2, StoredRuns DEF Typed, Stored
    <3>2. [runs[s] EXCEPT !.wait = "none"] \in Run
      BY <3>1 DEF Run
    <3> QED
      BY <2>2, <3>1, <3>2, NoneAssumption DEF NextMonth, Stored, Run
  <2> QED
    BY <2>1, <2>2
<1>2. runs' = [s \in Sessions |-> runs'[s]]
  BY DEF NextMonth
<1> QED
  BY <1>1, <1>2 DEF RunsKept

(***************************************************************************)
(* A reservation.  Either the run keeps its months, or it is charged for   *)
(* the first time, to the current month, and fits into what is left of it. *)
(***************************************************************************)
Charges(s) ==
  /\ s \in Stored /\ runs[s].charged = 0 /\ Reservable(s)
  /\ \E row \in Run : /\ runs' = [runs EXCEPT ![s] = row]
                      /\ row.created = runs[s].created
                      /\ row.charged = month
  /\ spent' = [spent EXCEPT ![month] = @ + Cost[s]]

LEMMA ReserveRuns ==
  ASSUME Typed, NEW w \in Distillers, Reserve(w)
  PROVE  (RunsKept /\ UNCHANGED rest) \/ \E s \in Sessions : Charges(s)
<1> DEFINE s == distillers[w].session
           charged == [runs[s] EXCEPT !.charged = month, !.policy = distillers[w].policy]
<1>1. s \in Stored /\ runs[s] \in Run
  BY HeldSession DEF Reserve
<1>2. \/ UNCHANGED <<rest, runs>>
      \/ runs' = [runs EXCEPT ![s] = Ended(runs[s], "dead")] /\ UNCHANGED rest
      \/ runs' = [runs EXCEPT ![s] = Deferred(runs[s])] /\ UNCHANGED rest
      \/ /\ runs[s].charged = 0 /\ Reservable(s) /\ runs' = [runs EXCEPT ![s] = charged]
         /\ spent' = [spent EXCEPT ![month] = @ + Cost[s]]
  BY DEF Reserve, Paid, rest, world
<1>3. CASE UNCHANGED <<rest, runs>>
  BY <1>3, RunsUnchanged DEF Typed
<1>4. CASE runs' = [runs EXCEPT ![s] = Ended(runs[s], "dead")] /\ UNCHANGED rest
  BY <1>1, <1>4, EndedRun, RunReplaced DEF Typed, Statuses
<1>5. CASE runs' = [runs EXCEPT ![s] = Deferred(runs[s])] /\ UNCHANGED rest
  BY <1>1, <1>5, DeferredRun, RunReplaced DEF Typed
<1>6. CASE /\ runs[s].charged = 0 /\ Reservable(s) /\ runs' = [runs EXCEPT ![s] = charged]
           /\ spent' = [spent EXCEPT ![month] = @ + Cost[s]]
  <2>1. month \in 1..LastMonth /\ distillers[w].policy \in Policies
    BY DEF Typed, TypeOK, Distiller
  <2>2. charged \in Run /\ charged.created = runs[s].created /\ charged.charged = month
    <3>1. month \in 0..LastMonth /\ distillers[w].policy \in Policies \cup {None}
      BY <2>1, BoundsAssumption
    <3> HIDE DEF s
    <3> QED
      BY <1>1, <3>1 DEF Run
  <2> HIDE DEF s, charged
  <2>3. Charges(s)
    BY <1>1, <1>6, <2>2 DEF Charges
  <2> QED
    BY <1>1, <2>3 DEF Stored
<1> QED
  BY <1>2, <1>3, <1>4, <1>5, <1>6

\* What a worker holds, by the fields of its record.
LEMMA DistillerMoved ==
  ASSUME TypeOK, NEW w \in Distillers, NEW d \in Distiller,
         distillers' = [distillers EXCEPT ![w] = d]
  PROVE  /\ distillers' \in [Distillers -> Distiller]
         /\ distillers'[w] = d
         /\ \A v \in Distillers \ {w} : distillers'[v] = distillers[v]
BY DEF TypeOK

LEMMA MovedTo ==
  ASSUME TypeOK, NEW w \in Distillers, NEW stage \in Stages, To(w, stage)
  PROVE  /\ distillers' \in [Distillers -> Distiller]
         /\ distillers'[w].session = distillers[w].session
         /\ \A v \in Distillers \ {w} : distillers'[v] = distillers[v]
<1>1. distillers[w] \in Distiller
  BY DEF TypeOK
<1> DEFINE d == [distillers[w] EXCEPT !.stage = stage]
<1>2. d \in Distiller /\ d.session = distillers[w].session
  BY <1>1 DEF Distiller
<1>3. distillers' = [distillers EXCEPT ![w] = d]
  BY DEF To
<1> HIDE DEF d
<1> QED
  BY <1>2, <1>3, DistillerMoved

LEMMA FreeWorker ==
  ASSUME NEW p \in Policies
  PROVE  Free(p) \in Distiller /\ Free(p).stage = "idle"
BY BoundsAssumption DEF Free, Distiller, Stages

LEMMA Released ==
  ASSUME TypeOK, NEW w \in Distillers, Release(w)
  PROVE  /\ distillers' \in [Distillers -> Distiller]
         /\ distillers'[w].stage = "idle"
         /\ \A v \in Distillers \ {w} : distillers'[v] = distillers[v]
<1>1. distillers[w].policy \in Policies
  BY DEF TypeOK, Distiller
<1> DEFINE d == Free(distillers[w].policy)
<1>2. d \in Distiller /\ d.stage = "idle"
  BY <1>1, FreeWorker
<1>3. distillers' = [distillers EXCEPT ![w] = d]
  BY DEF Release
<1> HIDE DEF d
<1> QED
  BY <1>2, <1>3, DistillerMoved

(***************************************************************************)
(* Typed, action by action.  A step of a worker changes its own record and *)
(* the run it holds, and leaves it with a stored session or none.          *)
(***************************************************************************)
Worked(w) ==
  /\ distillers' \in [Distillers -> Distiller]
  /\ \A v \in Distillers \ {w} : distillers'[v] = distillers[v]
  /\ distillers'[w].stage # "idle" => distillers'[w].session \in Stored

\* Stored sessions stay stored.
LEMMA StoredKept ==
  ASSUME Typed, RunsKept
  PROVE  Stored' = Stored
BY DEF Typed, RunsKept, Stored

LEMMA WorkTyped ==
  ASSUME Typed, NEW w \in Distillers, Worked(w), RunsKept,
         facts' \in [Sessions -> Chunks \cup {None}], UNCHANGED rest
  PROVE  Typed'
<1>1. Stored' = Stored
  BY StoredKept
<1>2. TypeOK'
  BY DEF Typed, TypeOK, Worked, RunsKept, rest, world
<1>3. StoredTogether'
  BY DEF Typed, StoredTogether, RunsKept, rest
<1>4. HeldAreStored'
  BY <1>1 DEF Typed, HeldAreStored, Worked
<1> QED
  BY <1>2, <1>3, <1>4 DEF Typed

LEMMA ChargedStored ==
  ASSUME Typed, NEW s \in Sessions, Charges(s)
  PROVE  /\ runs' \in [Sessions -> Run \cup {None}]
         /\ \A t \in Sessions : runs'[t] = None <=> runs[t] = None
         /\ Stored' = Stored
         /\ spent' \in [1..LastMonth -> Nat]
<1>1. /\ runs' \in [Sessions -> Run \cup {None}]
      /\ \A t \in Sessions : runs'[t] = None <=> runs[t] = None
      /\ Stored' = Stored
  BY NoneAssumption DEF Typed, TypeOK, Charges, Stored
<1>2. Cost[s] \in Nat /\ spent \in [1..LastMonth -> Nat]
  BY SessionsAssumption DEF Typed, TypeOK
<1>3. spent' = [spent EXCEPT ![month] = @ + Cost[s]]
  BY DEF Charges
<1>4. spent' \in [1..LastMonth -> Nat]
  <2>1. \A m \in 1..LastMonth : spent[m] + Cost[s] \in Nat
    BY <1>2
  <2>2. month \in 1..LastMonth
    BY DEF Typed, TypeOK
  <2> QED
    BY ONLY <1>2, <1>3, <2>1, <2>2
<1> QED
  BY <1>1, <1>4

LEMMA ReserveWorked ==
  ASSUME Typed, NEW w \in Distillers, Reserve(w)
  PROVE  Worked(w)
<1>1. distillers[w].session \in Stored
  BY HeldSession DEF Reserve
<1>2. Release(w) \/ To(w, "generating")
  BY DEF Reserve
<1> QED
  BY <1>1, <1>2, Released, MovedTo DEF Typed, Worked, Stages

LEMMA ReserveTyped ==
  ASSUME Typed, NEW w \in Distillers, Reserve(w)
  PROVE  Typed'
<1>1. Worked(w)
  BY ReserveWorked
<1>2. UNCHANGED <<month, policy, enabled, episodes, facts, embedding, told, upsets>>
  BY DEF Reserve
<1>3. facts' \in [Sessions -> Chunks \cup {None}]
  BY <1>2 DEF Typed, TypeOK
<1>4. CASE RunsKept /\ UNCHANGED rest
  BY <1>1, <1>3, <1>4, WorkTyped
<1>5. ASSUME NEW s \in Sessions, Charges(s)
      PROVE  Typed'
  <2>1. TypeOK'
    BY <1>1, <1>2, <1>3, <1>5, ChargedStored DEF Typed, TypeOK, Worked
  <2>2. StoredTogether'
    BY <1>2, <1>5, ChargedStored DEF Typed, StoredTogether
  <2>3. HeldAreStored'
    BY <1>1, <1>5, ChargedStored DEF Typed, HeldAreStored, Worked
  <2> QED
    BY <2>1, <2>2, <2>3 DEF Typed
<1> QED
  BY <1>4, <1>5, ReserveRuns

LEMMA ClaimTyped ==
  ASSUME Typed, NEW w \in Distillers, NEW s \in Sessions, Claim(w, s)
  PROVE  Typed'
<1> DEFINE d == [distillers[w] EXCEPT !.stage = "claimed", !.session = s,
                                      !.attempts = runs[s].attempts + 1]
<1>1. s \in Stored /\ Claimable(runs[s]) /\ runs[s] \in Run
  BY StoredRuns DEF Claim, Typed
<1>2. runs[s].attempts + 1 \in 0..MaxAttempts
  BY <1>1, BoundsAssumption DEF Run, Claimable
<1>3. distillers[w] \in Distiller
  BY DEF Typed, TypeOK
<1>4. d \in Distiller /\ d.session = s
  BY <1>2, <1>3 DEF Distiller, Stages
<1>5. distillers' = [distillers EXCEPT ![w] = d]
  BY DEF Claim
<1> HIDE DEF d
<1>6. Worked(w)
  BY <1>1, <1>4, <1>5, DistillerMoved DEF Typed, Worked
<1>7. UNCHANGED rest /\ facts' \in [Sessions -> Chunks \cup {None}]
  BY DEF Claim, Typed, TypeOK
<1> QED
  BY <1>6, <1>7, ClaimRuns, WorkTyped

LEMMA ClaimNothingTyped ==
  ASSUME Typed, NEW w \in Distillers, ClaimNothing(w)
  PROVE  Typed'
<1>1. Worked(w)
  BY DEF ClaimNothing, Worked, Typed, TypeOK
<1>2. UNCHANGED rest /\ facts' \in [Sessions -> Chunks \cup {None}]
  BY DEF ClaimNothing, Typed, TypeOK
<1> QED
  BY <1>1, <1>2, ClaimNothingRuns, WorkTyped

LEMMA LoadTyped ==
  ASSUME Typed, NEW w \in Distillers, Load(w)
  PROVE  Typed'
<1> DEFINE s == distillers[w].session
           d == [distillers[w] EXCEPT !.stage = "loaded", !.read = episodes[s].chunks]
<1>1. s \in Stored /\ episodes[s] \in Episode
  BY HeldSession DEF Load
<1>2. Worked(w)
  <2>1. CASE distillers' = [distillers EXCEPT ![w] = d]
    <3>1. distillers[w] \in Distiller
      BY DEF Typed, TypeOK
    <3>2. d \in Distiller /\ d.session = s
      BY <1>1, <3>1 DEF Distiller, Stages, Episode
    <3> HIDE DEF d
    <3> QED
      BY <1>1, <2>1, <3>2, DistillerMoved DEF Typed, Worked
  <2>2. CASE To(w, "condemned")
    BY <1>1, <2>2, MovedTo DEF Typed, Worked, Stages
  <2> QED
    BY <2>1, <2>2 DEF Load
<1>3. UNCHANGED rest /\ UNCHANGED runs /\ facts' \in [Sessions -> Chunks \cup {None}]
  BY DEF Load, Typed, TypeOK
<1> QED
  BY <1>2, <1>3, RunsUnchanged, WorkTyped DEF Typed

LEMMA GenerateTyped ==
  ASSUME Typed, NEW w \in Distillers, Generate(w)
  PROVE  Typed'
<1>1. Worked(w)
  BY HeldSession, MovedTo DEF Generate, Typed, Worked, Stages
<1>2. UNCHANGED rest /\ UNCHANGED runs /\ facts' \in [Sessions -> Chunks \cup {None}]
  BY DEF Generate, Typed, TypeOK
<1> QED
  BY <1>1, <1>2, RunsUnchanged, WorkTyped DEF Typed

LEMMA ApplyTyped ==
  ASSUME Typed, NEW w \in Distillers, Apply(w)
  PROVE  Typed'
<1>1. Release(w) \/ To(w, "condemned")
  BY DEF Apply
<1>2. distillers[w].session \in Stored /\ distillers[w].read \in Chunks \cup {None}
  BY HeldSession DEF Apply, Typed, TypeOK, Distiller
<1>3. Worked(w)
  BY <1>1, <1>2, Released, MovedTo DEF Typed, Worked, Stages
<1>4. UNCHANGED rest /\ facts' \in [Sessions -> Chunks \cup {None}]
  BY <1>2 DEF Apply, Typed, TypeOK
<1> QED
  BY <1>3, <1>4, ApplyRuns, WorkTyped

LEMMA FailTyped ==
  ASSUME Typed, NEW w \in Distillers, Fail(w)
  PROVE  Typed'
<1>1. Worked(w)
  BY Released DEF Fail, Typed, Worked
<1>2. UNCHANGED rest /\ facts' \in [Sessions -> Chunks \cup {None}]
  BY DEF Fail, Typed, TypeOK
<1> QED
  BY <1>1, <1>2, FailRuns, WorkTyped

LEMMA CrashTyped ==
  ASSUME Typed, NEW w \in Distillers, Crash(w)
  PROVE  Typed'
<1>1. Free(policy) \in Distiller /\ Free(policy).stage = "idle"
  BY FreeWorker DEF Typed, TypeOK
<1>2. /\ distillers' \in [Distillers -> Distiller]
      /\ distillers'[w].stage = "idle"
      /\ \A v \in Distillers \ {w} : distillers'[v] = distillers[v]
  BY <1>1, DistillerMoved DEF Crash, Typed
<1>3. TypeOK'
  BY <1>2, BoundsAssumption DEF Crash, Typed, TypeOK, world, store
<1>4. StoredTogether' /\ HeldAreStored'
  BY <1>2 DEF Crash, Typed, StoredTogether, HeldAreStored, Stored, store
<1> QED
  BY <1>3, <1>4 DEF Typed

LEMMA LookTyped ==
  ASSUME Typed, NEW c \in Calls, Look(c)
  PROVE  Typed'
<1>1. TypeOK'
  BY DEF Look, Replay, Typed, TypeOK, store, world
<1>2. StoredTogether' /\ HeldAreStored'
  BY DEF Look, Typed, StoredTogether, HeldAreStored, Stored, store
<1> QED
  BY <1>1, <1>2 DEF Typed

LEMMA InsertTyped ==
  ASSUME Typed, NEW c \in Calls, Insert(c)
  PROVE  Typed'
<1> DEFINE s == c.session
           e == [request |-> c.request, chunks |-> "original"]
<1>1. CASE s \in Stored
  <2>1. TypeOK'
    BY <1>1 DEF Insert, InsertConflict, Replay, Typed, TypeOK, store, world
  <2>2. StoredTogether' /\ HeldAreStored'
    BY <1>1 DEF Insert, Typed, StoredTogether, HeldAreStored, Stored, store
  <2> QED
    BY <2>1, <2>2 DEF Typed
<1>2. CASE s \notin Stored
  <2>1. s \in Sessions /\ e \in Episode
    BY CallsAssumption DEF Episode, Chunks
  <2>2. NewRun \in Run
    BY BegunRun
  <2>3. episodes' = [episodes EXCEPT ![s] = e] /\ runs' = [runs EXCEPT ![s] = NewRun]
    BY <1>2 DEF Insert
  <2>4. UNCHANGED <<month, policy, enabled, spent, facts, distillers, upsets>>
        /\ embedding' \subseteq Calls /\ told' \subseteq Calls
    BY <1>2 DEF Insert, Typed, TypeOK, world
  <2> HIDE DEF s, e
  <2>5. TypeOK'
    BY <2>1, <2>2, <2>3, <2>4 DEF Typed, TypeOK
  <2>6. StoredTogether'
    BY <2>1, <2>2, <2>3, NoneAssumption DEF Typed, TypeOK, StoredTogether
  <2>7. HeldAreStored'
    BY <2>1, <2>2, <2>3, <2>4, NoneAssumption DEF Typed, TypeOK, HeldAreStored, Stored
  <2> QED
    BY <2>5, <2>6, <2>7 DEF Typed
<1> QED
  BY <1>1, <1>2

\* What time and the rest of the system do to the store.
LEMMA OutsideTyped ==
  ASSUME Typed, RunsKept, UNCHANGED <<facts, distillers, embedding, told, spent>>,
         month' \in 1..LastMonth, policy' \in Policies, enabled' \in BOOLEAN,
         upsets' \in 0..MaxUpsets, episodes' \in [Sessions -> Episode \cup {None}],
         \A s \in Sessions : episodes'[s] = None <=> episodes[s] = None
  PROVE  Typed'
<1>1. Stored' = Stored
  BY StoredKept
<1>2. TypeOK'
  BY DEF Typed, TypeOK, RunsKept
<1>3. StoredTogether'
  BY DEF Typed, StoredTogether, RunsKept
<1>4. HeldAreStored'
  BY <1>1 DEF Typed, HeldAreStored
<1> QED
  BY <1>2, <1>3, <1>4 DEF Typed

LEMMA LeaseEndsTyped ==
  ASSUME Typed, NEW s \in Sessions, LeaseEnds(s)
  PROVE  Typed'
<1>1. upsets' \in 0..MaxUpsets
  BY BoundsAssumption DEF LeaseEnds, Typed, TypeOK
<1>2. UNCHANGED <<month, policy, enabled, episodes, facts, distillers, embedding, told, spent>>
  BY DEF LeaseEnds, world
<1> QED
  BY <1>1, <1>2, LeaseEndsRuns, OutsideTyped DEF Typed, TypeOK

LEMMA ComesDueTyped ==
  ASSUME Typed, NEW s \in Sessions, ComesDue(s)
  PROVE  Typed'
<1>1. UNCHANGED <<month, policy, enabled, episodes, facts, distillers, embedding, told, spent,
                  upsets>>
  BY DEF ComesDue, rest, world
<1> QED
  BY <1>1, ComesDueRuns, OutsideTyped DEF Typed, TypeOK

LEMMA NextMonthTyped ==
  ASSUME Typed, NextMonth
  PROVE  Typed'
<1>1. month' \in 1..LastMonth
  BY BoundsAssumption DEF NextMonth, Typed, TypeOK
<1>2. UNCHANGED <<policy, enabled, episodes, facts, distillers, embedding, told, spent, upsets>>
  BY DEF NextMonth
<1> QED
  BY <1>1, <1>2, NextMonthRuns, OutsideTyped DEF Typed, TypeOK

LEMMA OutsideChangeTyped ==
  ASSUME Typed, ToggleOwner \/ ReplacePolicy
  PROVE  Typed'
<1>1. UNCHANGED <<month, runs, facts, distillers, embedding, told, spent, episodes>>
  BY DEF ToggleOwner, ReplacePolicy, elsewhere
<1>2. upsets' \in 0..MaxUpsets
  BY BoundsAssumption DEF ToggleOwner, ReplacePolicy, upset, Typed, TypeOK
<1>3. policy' \in Policies /\ enabled' \in BOOLEAN
  BY DEF ToggleOwner, ReplacePolicy, Typed, TypeOK
<1>4. RunsKept
  BY <1>1, RunsUnchanged DEF Typed
<1> QED
  BY <1>1, <1>2, <1>3, <1>4, OutsideTyped DEF Typed, TypeOK

\* A chunk of a stored session is edited or forgotten; its request stays.
LEMMA RewriteTyped ==
  ASSUME Typed, NEW s \in Sessions, UpdateChunk(s) \/ ForgetChunk(s)
  PROVE  /\ Typed'
         /\ \A t \in Stored : episodes'[t].request = episodes[t].request
<1>1. PICK v \in {"edited", "forgotten"} : Rewrite(s, v)
  BY DEF UpdateChunk, ForgetChunk
<1> DEFINE e == [episodes[s] EXCEPT !.chunks = v]
<1>2. s \in Stored /\ episodes[s] \in Episode
  BY <1>1 DEF Rewrite, Typed, TypeOK, StoredTogether, Stored
<1>3. e \in Episode /\ e.request = episodes[s].request
  BY <1>2 DEF Episode, Chunks
<1>4. episodes' = [episodes EXCEPT ![s] = e]
  BY <1>1 DEF Rewrite
<1> HIDE DEF e
<1>5. /\ episodes' \in [Sessions -> Episode \cup {None}]
      /\ \A t \in Sessions : episodes'[t] = None <=> episodes[t] = None
      /\ \A t \in Sessions : t = s \/ episodes'[t] = episodes[t]
      /\ episodes'[s] = e
  BY <1>2, <1>3, <1>4, NoneAssumption DEF Typed, TypeOK
<1>6. UNCHANGED <<month, policy, enabled, runs, facts, distillers, embedding, told, spent>>
  BY <1>1 DEF Rewrite, elsewhere
<1>7. upsets' \in 0..MaxUpsets
  BY <1>1, BoundsAssumption DEF Rewrite, upset, Typed, TypeOK
<1>8. RunsKept
  BY <1>6, RunsUnchanged DEF Typed
<1>9. Typed'
  BY <1>5, <1>6, <1>7, <1>8, OutsideTyped DEF Typed, TypeOK
<1> QED
  BY <1>3, <1>5, <1>9 DEF Stored

LEMMA TypedStep ==
  ASSUME Typed, [Next]_svars
  PROVE  Typed'
<1>1. CASE UNCHANGED svars
  BY <1>1 DEF svars, Typed, TypeOK, StoredTogether, HeldAreStored, Stored
<1>2. CASE Next
  BY <1>2, LookTyped, InsertTyped, ClaimTyped, ClaimNothingTyped, LoadTyped, ReserveTyped,
     GenerateTyped, ApplyTyped, FailTyped, CrashTyped, LeaseEndsTyped, ComesDueTyped,
     NextMonthTyped, OutsideChangeTyped, RewriteTyped DEF Next, Step
<1> QED
  BY <1>1, <1>2

LEMMA TypedInit ==
  ASSUME Init
  PROVE  Typed
<1>1. 1 \in 1..LastMonth /\ 0 \in 0..MaxUpsets
  BY BoundsAssumption
<1>2. Free(policy) \in Distiller
  BY BoundsAssumption, FreeWorker DEF Init
<1>3. TypeOK
  BY <1>1, <1>2, BoundsAssumption DEF Init, TypeOK
<1>4. StoredTogether
  BY DEF Init, StoredTogether
<1>5. HeldAreStored
  BY DEF Init, HeldAreStored, Free
<1> QED
  BY <1>3, <1>4, <1>5 DEF Typed

LEMMA TypedAlways == Spec => []Typed
BY TypedInit, TypedStep, PTL DEF Spec

(***************************************************************************)
(* Every reachable state is well typed.                                    *)
(***************************************************************************)
THEOREM TypeCorrect == Spec => []TypeOK
<1>1. Typed => TypeOK
  BY DEF Typed
<1> QED
  BY <1>1, TypedAlways, PTL

(***************************************************************************)
(* What a step does to the runs.                                           *)
(***************************************************************************)
LEMMA StepRuns ==
  ASSUME Typed, [Next]_svars
  PROVE  \/ RunsKept /\ UNCHANGED spent
         \/ \E c \in Calls : Insert(c)
         \/ \E s \in Sessions : Charges(s)
<1>1. UNCHANGED runs => RunsKept
  BY RunsUnchanged DEF Typed
<1>2. CASE UNCHANGED svars
  BY <1>1, <1>2 DEF svars
<1>3. CASE Next
  <2>1. \/ RunsKept
        \/ \E c \in Calls : Insert(c)
        \/ \E w \in Distillers : Reserve(w)
    BY <1>1, <1>3, ClaimRuns, ClaimNothingRuns, ApplyRuns, FailRuns, LeaseEndsRuns,
       ComesDueRuns, NextMonthRuns
       DEF Next, Step, Look, Load, Generate, Crash,
       ToggleOwner, ReplacePolicy, UpdateChunk, ForgetChunk, Rewrite, elsewhere, store
  <2>2. UNCHANGED spent \/ \E w \in Distillers : Reserve(w)
    BY <1>3 DEF Next, Step, Look, Insert, Claim, ClaimNothing, Load, Generate, Apply, Fail, Crash,
       LeaseEnds, ComesDue, NextMonth,
       ToggleOwner, ReplacePolicy, UpdateChunk, ForgetChunk, Rewrite, elsewhere,
       rest, world
  <2>3. ASSUME NEW w \in Distillers, Reserve(w)
        PROVE  (RunsKept /\ UNCHANGED spent) \/ \E s \in Sessions : Charges(s)
    BY <2>3, ReserveRuns DEF rest, world
  <2> QED
    BY <2>1, <2>2, <2>3
<1> QED
  BY <1>2, <1>3

(***************************************************************************)
(* The identity of a session.  Only an insertion or a replay tells a       *)
(* client, both with the stored request at hand, and no step but the       *)
(* insertion of a session that is not there sets a request.                *)
(***************************************************************************)
LEMMA IdentityStep ==
  ASSUME Typed, SessionIdentityHolds, [Next]_svars
  PROVE  SessionIdentityHolds'
<1>1. RunsKept \/ (\E c \in Calls : Insert(c)) \/ (\E s \in Sessions : Charges(s))
  BY StepRuns
<1>2. CASE \E c \in Calls : Insert(c)
  <2>1. PICK c \in Calls : Insert(c)
    BY <1>2
  <2>2. CASE c.session \in Stored
    BY <2>1, <2>2 DEF Insert, InsertConflict, Replay, SessionIdentityHolds, Stored, store
  <2>3. CASE c.session \notin Stored
    <3> DEFINE s == c.session
               e == [request |-> c.request, chunks |-> "original"]
    <3>1. s \in Sessions /\ NewRun # None
      BY CallsAssumption, NoneAssumption, BegunRun
    <3>2. /\ episodes' = [episodes EXCEPT ![s] = e]
          /\ runs' = [runs EXCEPT ![s] = NewRun]
          /\ told' = told \cup {c}
      BY <2>1, <2>3 DEF Insert
    <3>3. s \in Stored' /\ episodes'[s].request = c.request
      BY <3>1, <3>2 DEF Stored, Typed, TypeOK
    <3>4. \A t \in Stored : t # s /\ t \in Stored' /\ episodes'[t] = episodes[t]
      BY <2>3, <3>1, <3>2 DEF Stored, Typed, TypeOK
    <3> QED
      BY <3>2, <3>3, <3>4 DEF SessionIdentityHolds
  <2> QED
    BY <2>2, <2>3
<1>3. CASE ~ \E c \in Calls : Insert(c)
  <2>1. Stored' = Stored
    BY <1>1, <1>3, StoredKept, ChargedStored
  <2>2. \A s \in Stored : episodes'[s].request = episodes[s].request
    <3>1. \/ UNCHANGED episodes
          \/ \E s \in Sessions : UpdateChunk(s) \/ ForgetChunk(s)
      BY <1>3 DEF Next, svars, Look, Claim, ClaimNothing, Step, Load, Reserve, Generate, Apply, Fail,
         Crash, LeaseEnds, ComesDue, NextMonth, ToggleOwner, ReplacePolicy, rest, store
    <3> QED
      BY <3>1, RewriteTyped
  <2>3. ASSUME NEW c \in told'
        PROVE  c \in told \/ (c.session \in Stored /\ episodes[c.session].request = c.request)
    BY <1>3 DEF Next, svars, Look, Replay, Claim, ClaimNothing, Step, Load, Reserve, Generate, Apply,
       Fail, Crash, LeaseEnds, ComesDue, NextMonth,
       ToggleOwner, ReplacePolicy, UpdateChunk, ForgetChunk, Rewrite, elsewhere,
       rest, store
  <2> QED
    BY <2>1, <2>2, <2>3 DEF SessionIdentityHolds
<1> QED
  BY <1>2, <1>3

(***************************************************************************)
(* Whoever was told that a session is stored sent the stored request, for  *)
(* any number of clients, retries and workers.                             *)
(***************************************************************************)
THEOREM IdentityHolds == Spec => []SessionIdentityHolds
<1>1. Init => SessionIdentityHolds
  BY DEF Init, SessionIdentityHolds
<1> QED
  BY <1>1, TypedAlways, IdentityStep, PTL DEF Spec

(***************************************************************************)
(* Only Apply touches the facts, and it reads the chunks once more.        *)
(***************************************************************************)
LEMMA PublishedStep ==
  ASSUME Typed, [Next]_svars, NEW s \in Sessions, facts'[s] # facts[s]
  PROVE  enabled' /\ facts'[s] = episodes'[s].chunks /\ runs'[s].status = "completed"
<1>1. PICK w \in Distillers : Apply(w)
  BY DEF Next, svars, Look, Insert, Claim, ClaimNothing, Step, Load, Reserve, Generate, Fail,
     Crash, LeaseEnds, ComesDue, NextMonth,
       ToggleOwner, ReplacePolicy, UpdateChunk, ForgetChunk, Rewrite, elsewhere,
       rest, store
<1> DEFINE t == distillers[w].session
<1>2. t \in Stored /\ runs[t] \in Run
  BY <1>1, HeldSession DEF Apply
<1>3. /\ enabled /\ Unchanged(w, t)
      /\ runs' = [runs EXCEPT ![t] = Ended(runs[t], "completed")]
      /\ facts' = [facts EXCEPT ![t] = distillers[w].read]
      /\ UNCHANGED <<enabled, episodes>>
  BY <1>1 DEF Apply, rest, world
<1> HIDE DEF t
<1>4. s = t /\ facts'[s] = distillers[w].read
  BY <1>3 DEF Typed, TypeOK
<1>5. runs'[s] = Ended(runs[s], "completed")
  BY <1>2, <1>3, <1>4 DEF Typed, TypeOK
<1> QED
  BY <1>2, <1>3, <1>4, <1>5, EndedRun DEF Unchanged, Statuses

(***************************************************************************)
(* Facts are published under a key that may write, from the transcript     *)
(* that is stored at that moment, together with the end of the run.        *)
(***************************************************************************)
THEOREM PublishedFromStored == Spec => PublishedFromStoredTranscript
<1>1. Typed /\ [Next]_svars =>
        \A s \in Sessions : facts'[s] # facts[s] =>
          /\ enabled'
          /\ facts'[s] = episodes'[s].chunks
          /\ runs'[s].status = "completed"
  BY PublishedStep
<1> QED
  BY <1>1, TypedAlways, PTL DEF Spec, PublishedFromStoredTranscript

(***************************************************************************)
(* The month's money.  What Reserve adds up is at least what was charged   *)
(* to the month's own sessions, so one session more still fits; what is    *)
(* charged to others is among the carried runs; and a step that reserves   *)
(* nothing leaves both sets as they are.                                   *)
(***************************************************************************)
Charged(m) == {s \in Stored : runs[s].created = m /\ runs[s].charged = m}
Sum(S) == SumFunctionOnSet(Cost, S)

Money ==
  \A m \in 1..LastMonth :
    /\ Sum(Charged(m)) <= MonthlyCap
    /\ spent[m] <= Sum(Charged(m)) + Sum(Carried(m))

\* No run was created in a month to come.
CreatedByNow == \A s \in Stored : runs[s].created <= month

LEMMA CostsOf ==
  ASSUME NEW S \in SUBSET Sessions
  PROVE  IsFiniteSet(S) /\ Sum(S) \in Nat /\ \A s \in S : Cost[s] \in Nat
BY SessionsAssumption, FS_Subset, SumType DEF Sum

LEMMA OneCostMore ==
  ASSUME NEW S \in SUBSET Sessions, NEW s \in Sessions, s \notin S
  PROVE  Sum(S \cup {s}) = Sum(S) + Cost[s]
<1>1. \A t \in S \cup {s} : Cost[t] \in Nat
  BY SessionsAssumption
<1> QED
  BY <1>1, CostsOf, SumWith DEF Sum

LEMMA MonthsOf ==
  ASSUME Typed, NEW s \in Stored
  PROVE  runs[s].created \in 1..LastMonth /\ runs[s].charged \in 0..LastMonth
BY StoredRuns DEF Typed, Run

\* The runs of a month do not change with the rows that are kept.
LEMMA MoneyKept ==
  ASSUME Typed, RunsKept, NEW m \in 1..LastMonth
  PROVE  Charged(m)' = Charged(m) /\ Carried(m)' = Carried(m)
BY StoredKept DEF Charged, Carried, RunsKept, Stored

LEMMA ChargeFits ==
  ASSUME Typed, CreatedByNow, Money, NEW s \in Sessions, Charges(s), NEW m \in 1..LastMonth
  PROVE  /\ Sum(Charged(m)') <= MonthlyCap
         /\ spent'[m] <= Sum(Charged(m)') + Sum(Carried(m)')
<1> DEFINE others == {r \in Stored \ {s} : runs[r].created = month /\ runs[r].charged # 0}
           own == Charged(m)
           carried == Carried(m)
<1>1. PICK row \in Run : /\ runs' = [runs EXCEPT ![s] = row]
                         /\ row.created = runs[s].created
                         /\ row.charged = month
  BY DEF Charges
<1>2. s \in Stored /\ runs[s].charged = 0 /\ Stored' = Stored
  BY ChargedStored DEF Charges
<1>3. \A r \in Stored \ {s} : runs'[r] = runs[r]
  BY <1>1, <1>2 DEF Typed, TypeOK, Stored
<1>4. runs'[s] = row
  BY <1>1, <1>2 DEF Typed, TypeOK, Stored
<1>5. month \in 1..LastMonth /\ row.created \in 1..LastMonth /\ row.created <= month
  BY <1>1, <1>2, MonthsOf DEF CreatedByNow, Typed, TypeOK
<1>6. /\ own \in SUBSET Sessions /\ carried \in SUBSET Sessions /\ others \in SUBSET Sessions
      /\ s \notin own /\ s \notin carried
  BY <1>2 DEF Charged, Carried, Stored
<1>7. /\ Sum(own) \in Nat /\ Sum(carried) \in Nat /\ Sum(others) \in Nat /\ Cost[s] \in Nat
      /\ MonthlyCap \in Nat /\ spent[m] \in Nat
  <2>1. spent[m] \in Nat
    BY DEF Typed, TypeOK
  <2> QED
    BY <1>6, <2>1, CostsOf, SessionsAssumption, BoundsAssumption
<1>8. Sum(own) <= MonthlyCap /\ spent[m] <= Sum(own) + Sum(carried)
  BY DEF Money
<1>9. spent'[m] = IF m = month THEN spent[m] + Cost[s] ELSE spent[m]
  <2>1. spent' = [spent EXCEPT ![month] = @ + Cost[s]] /\ spent \in [1..LastMonth -> Nat]
    BY DEF Charges, Typed, TypeOK
  <2> QED
    BY <1>5, <2>1
<1>10. CASE m # month
  <2>1. Charged(m)' = own /\ Carried(m)' = carried
    BY <1>1, <1>2, <1>3, <1>4, <1>10 DEF Charged, Carried
  <2> QED
    BY <1>8, <1>9, <1>10, <2>1
<1>11. CASE m = month /\ row.created = month
  <2>1. Charged(m)' = own \cup {s} /\ Carried(m)' = carried
    <3>1. Charged(m)' = own \cup {s}
      BY <1>1, <1>2, <1>3, <1>4, <1>11 DEF Charged
    <3>2. ~(row.created < m)
      BY <1>5, <1>11
    <3>3. Carried(m)' = carried
      BY <1>1, <1>2, <1>3, <1>4, <1>11, <3>2 DEF Carried
    <3> QED
      BY <3>1, <3>3
  <2>2. Sum(own) <= Sum(others)
    <3>1. own \subseteq others
      BY <1>2, <1>11, BoundsAssumption DEF Charged
    <3> HIDE DEF own, others
    <3> QED
      BY <1>6, <3>1, CostsOf, SumWithin DEF Sum
  <2>3. Sum(others) + Cost[s] <= MonthlyCap
    BY DEF Charges, Reservable, Spent, Sum
  <2> HIDE DEF own, carried, others
  <2>4. Sum(own \cup {s}) = Sum(own) + Cost[s]
    BY <1>6, OneCostMore
  <2> QED
    BY <1>7, <1>8, <1>9, <1>11, <2>1, <2>2, <2>3, <2>4
<1>12. CASE m = month /\ row.created # month
  <2>1. Charged(m)' = own /\ Carried(m)' = carried \cup {s}
    <3>1. Charged(m)' = own
      BY <1>1, <1>2, <1>3, <1>4, <1>12 DEF Charged
    <3>2. row.created < m
      BY <1>5, <1>12
    <3>3. Carried(m)' = carried \cup {s}
      BY <1>1, <1>2, <1>3, <1>4, <1>12, <3>2 DEF Carried
    <3> QED
      BY <3>1, <3>3
  <2> HIDE DEF own, carried, others
  <2>2. Sum(carried \cup {s}) = Sum(carried) + Cost[s]
    BY <1>6, OneCostMore
  <2> QED
    BY <1>7, <1>8, <1>9, <1>12, <2>1, <2>2
<1> QED
  BY <1>10, <1>11, <1>12

LEMMA CreatedStep ==
  ASSUME Typed, CreatedByNow, [Next]_svars
  PROVE  CreatedByNow'
<1>1. month \in Int /\ month' \in Int /\ month <= month'
  <2>1. month \in Int
    BY DEF Typed, TypeOK
  <2>2. month' = month \/ month' = month + 1
    BY DEF Next, svars, Look, Insert, Claim, ClaimNothing, Step, Load, Reserve, Generate, Apply, Fail,
       Crash, LeaseEnds, ComesDue, NextMonth,
       ToggleOwner, ReplacePolicy, UpdateChunk, ForgetChunk, Rewrite, elsewhere,
       rest, world
  <2> QED
    BY <2>1, <2>2
<1>2. \A s \in Stored : runs[s].created \in Int /\ runs[s].created <= month
  BY MonthsOf DEF CreatedByNow
<1>3. CASE RunsKept
  <2>1. Stored' = Stored /\ \A s \in Stored : runs'[s].created = runs[s].created
    BY <1>3, StoredKept DEF RunsKept, Stored
  <2> QED
    BY <1>1, <1>2, <2>1 DEF CreatedByNow
<1>4. ASSUME NEW c \in Calls, Insert(c)
      PROVE  CreatedByNow'
  <2>1. c.session \in Sessions /\ NewRun.created = month
    BY CallsAssumption DEF NewRun
  <2>2. \/ UNCHANGED runs
        \/ runs' = [runs EXCEPT ![c.session] = NewRun]
    BY <1>4 DEF Insert, store
  <2>3. \A s \in Stored' : \/ s = c.session /\ runs'[s] = NewRun
                           \/ s \in Stored /\ runs'[s] = runs[s]
    BY <2>1, <2>2 DEF Stored, Typed, TypeOK
  <2> QED
    BY <1>1, <1>2, <2>1, <2>3 DEF CreatedByNow
<1>5. ASSUME NEW s \in Sessions, Charges(s)
      PROVE  CreatedByNow'
  <2>1. Stored' = Stored /\ \A r \in Stored : runs'[r].created = runs[r].created
    BY <1>5, ChargedStored DEF Charges, Typed, TypeOK, Stored
  <2> QED
    BY <1>1, <1>2, <2>1 DEF CreatedByNow
<1> QED
  BY <1>3, <1>4, <1>5, StepRuns

LEMMA MoneyStep ==
  ASSUME Typed, CreatedByNow, Money, [Next]_svars
  PROVE  Money'
<1> SUFFICES ASSUME NEW m \in 1..LastMonth
             PROVE  /\ Sum(Charged(m)') <= MonthlyCap
                    /\ spent'[m] <= Sum(Charged(m)') + Sum(Carried(m)')
  BY DEF Money, Sum
<1>1. Sum(Charged(m)) <= MonthlyCap /\ spent[m] <= Sum(Charged(m)) + Sum(Carried(m))
  BY DEF Money
<1>2. CASE RunsKept /\ UNCHANGED spent
  BY <1>1, <1>2, MoneyKept
<1>3. ASSUME NEW c \in Calls, Insert(c)
      PROVE  /\ Sum(Charged(m)') <= MonthlyCap
             /\ spent'[m] <= Sum(Charged(m)') + Sum(Carried(m)')
  <2>1. \/ UNCHANGED runs
        \/ c.session \notin Stored /\ runs' = [runs EXCEPT ![c.session] = NewRun]
    BY <1>3 DEF Insert, store
  <2>2. c.session \in Sessions /\ NewRun.charged = 0
    BY CallsAssumption DEF NewRun
  <2>3. Charged(m)' = Charged(m) /\ Carried(m)' = Carried(m)
    BY <2>1, <2>2, BoundsAssumption DEF Charged, Carried, Stored, Typed, TypeOK
  <2>4. UNCHANGED spent
    BY <1>3 DEF Insert, world
  <2> QED
    BY <1>1, <2>3, <2>4
<1>4. ASSUME NEW s \in Sessions, Charges(s)
      PROVE  /\ Sum(Charged(m)') <= MonthlyCap
             /\ spent'[m] <= Sum(Charged(m)') + Sum(Carried(m)')
  BY <1>4, ChargeFits
<1> QED
  BY <1>2, <1>3, <1>4, StepRuns

LEMMA MoneyInit ==
  ASSUME Init
  PROVE  Money /\ CreatedByNow
<1>1. Stored = {}
  BY DEF Init, Stored
<1>2. \A m \in 1..LastMonth : Charged(m) = {} /\ Carried(m) = {} /\ spent[m] = 0
  BY <1>1 DEF Init, Charged, Carried
<1>3. Sum({}) = 0
  BY SumEmpty DEF Sum
<1>4. Money
  BY <1>2, <1>3, BoundsAssumption DEF Money
<1> QED
  BY <1>1, <1>4 DEF CreatedByNow

LEMMA MoneyCaps ==
  ASSUME Typed, Money
  PROVE  MonthlyCapKept
<1> SUFFICES ASSUME NEW m \in 1..LastMonth
             PROVE  spent[m] <= MonthlyCap + Sum(Carried(m))
  BY DEF MonthlyCapKept, Sum
<1>1. Charged(m) \in SUBSET Sessions /\ Carried(m) \in SUBSET Sessions
  BY DEF Charged, Carried, Stored
<1>2. Sum(Charged(m)) \in Nat /\ Sum(Carried(m)) \in Nat /\ spent[m] \in Nat /\ MonthlyCap \in Nat
  BY <1>1, CostsOf, BoundsAssumption DEF Typed, TypeOK
<1>3. Sum(Charged(m)) <= MonthlyCap /\ spent[m] <= Sum(Charged(m)) + Sum(Carried(m))
  BY DEF Money
<1> QED
  BY <1>2, <1>3

(***************************************************************************)
(* All that is reserved in a month, retries included, exceeds the month's  *)
(* cap by no more than one reservation each of the runs that were created  *)
(* earlier, for any number of sessions, workers, costs and months.  These  *)
(* the code counts in no month.                                            *)
(***************************************************************************)
THEOREM CapKept == Spec => []MonthlyCapKept
<1>1. Typed /\ CreatedByNow /\ Money /\ [Next]_svars => CreatedByNow' /\ Money'
  BY CreatedStep, MoneyStep
<1> QED
  BY <1>1, MoneyInit, MoneyCaps, TypedAlways, PTL DEF Spec
=============================================================================

------------------------------ MODULE Reflection ------------------------------
(***************************************************************************)
(* Reflection: a scheduled command selects memories, reads their contents, *)
(* claims the run of a window, reserves money, calls a model outside any   *)
(* transaction and stores insights with their evidence if every memory it  *)
(* read is still what it was.  One window, one policy, two processes that  *)
(* may hold the same run once it looks abandoned.                          *)
(***************************************************************************)
EXTENDS Integers, FiniteSets, FiniteSetsExt

CONSTANTS
  Evidence,       \* memories of the source namespace
  Insights,       \* insight contents, by their hash
  Reflectors,     \* processes of npm run reflect
  None,
  MaxGenerations, \* bound of the model: forced generations
  MaxRunCalls,    \* maxCallsPerRun of the policy
  MonthlyCalls,   \* maxCostUsdPerMonth, in calls
  LastSeason,     \* bound of the model: calendar months
  MaxRevision,    \* bound of the model: changes of one memory
  MaxDisruptions  \* bound of the model: deaths, stalls, changed memories, forgotten insights

VARIABLES
  season,
  evidence,     \* memories that can be selected
  reflections,  \* memory_reflection_runs of the window, by generation; absent ones are None
  insights,     \* undeleted rows of namespace insights: the evidence each is linked to
  reflectors,
  disruptions,
  published,    \* history: how often each generation stored its insights
  late          \* history: calls reserved this month by runs started before it

rvars == <<season, evidence, reflections, insights, reflectors, disruptions, published, late>>

Generations == 0..MaxGenerations - 1

\* text follows rev: every change of the content raises the revision, other changes too.
Memory == [active : BOOLEAN, rev : 0..MaxRevision]

ReflectionRun == [status : {"running", "completed", "failed", "cancelled"},
                  calls : 0..MaxRunCalls, started : 1..LastSeason,
                  stale : BOOLEAN]   \* updated_at is older than fifteen minutes

Steps == {"idle", "selected", "materialized", "claimed", "reserved", "generated", "failing"}
Reflector == [step : Steps, force : BOOLEAN, gen : Generations \cup {None},
              picked : [Evidence -> 0..MaxRevision \cup {None}],   \* revisions of the selection
              read : [Evidence -> 0..MaxRevision \cup {None}]]     \* contents read afterwards
Nothing == [e \in Evidence |-> None]
Resting == [step |-> "idle", force |-> FALSE, gen |-> None, picked |-> Nothing, read |-> Nothing]

Init ==
  /\ season = 1
  /\ evidence = [e \in Evidence |-> [active |-> TRUE, rev |-> 0]]
  /\ reflections = [g \in Generations |-> None]
  /\ insights = [i \in Insights |-> None]
  /\ reflectors = [p \in Reflectors |-> Resting]
  /\ disruptions = 0
  /\ published = [g \in Generations |-> 0]
  /\ late = 0

Existing == {g \in Generations : reflections[g] # None}
Active == {e \in Evidence : evidence[e].active}

outside == <<season, evidence, disruptions>>
quiet == <<outside, late>>
kept == <<insights, published>>

(***************************************************************************)
(* runReflection.                                                          *)
(***************************************************************************)
Select(p, force) ==
  /\ reflectors[p].step = "idle"
  /\ reflectors' = [reflectors EXCEPT ![p] =
       [Resting EXCEPT !.step = "selected", !.force = force,
        !.picked = [e \in Evidence |-> IF e \in Active THEN evidence[e].rev ELSE None]]]
  /\ UNCHANGED <<quiet, reflections, kept>>

\* A later transaction reads the contents: those that were deleted or have expired
\* meanwhile are left out, and those that are superseded or folded are read all the same.
Materialize(p) ==
  /\ reflectors[p].step = "selected"
  /\ \E missing \in SUBSET (Evidence \ Active) :
       reflectors' = [reflectors EXCEPT
                          ![p] = [@ EXCEPT
                            !.step = "materialized",
                            !.read = [e \in Evidence |->
                              IF reflectors[p].picked[e] = None \/ e \in missing
                              THEN None ELSE evidence[e].rev]]]
  /\ UNCHANGED <<quiet, reflections, kept>>

Latest == Max(Existing)

Reusable(p) ==
  Existing # {} /\ reflections[Latest].status = "completed" /\ ~reflectors[p].force

Sampled(p) == {e \in Evidence : reflectors[p].read[e] # None}

Holding(p, g) ==
  [reflectors EXCEPT ![p] = [@ EXCEPT !.step = "claimed", !.gen = g, !.force = FALSE]]

\* claimReflectionRun, under the advisory lock of the window: reuse, refuse, resume, or
\* open a new generation.
Claim(p) ==
  /\ reflectors[p].step = "materialized"
  /\ \/ /\ Reusable(p)
        /\ reflectors' = [reflectors EXCEPT ![p] = Resting]
        /\ UNCHANGED reflections
     \/ /\ Existing # {} /\ ~reflectors[p].force
        /\ reflections[Latest].status = "running" /\ ~reflections[Latest].stale
        /\ reflectors' = [reflectors EXCEPT ![p] = Resting]
        /\ UNCHANGED reflections
     \/ /\ Existing # {} /\ ~reflectors[p].force /\ ~Reusable(p)
        /\ reflections[Latest].status = "running" => reflections[Latest].stale
        /\ reflections' = [reflections EXCEPT
                               ![Latest] = [@ EXCEPT
                                 !.status = "running", !.stale = FALSE]]
        /\ reflectors' = Holding(p, Latest)
     \/ /\ Existing = {} \/ reflectors[p].force
        /\ \E g \in Generations :
             /\ g = Cardinality(Existing)
             /\ reflections' = [reflections EXCEPT ![g] =
                  [status |-> "running", calls |-> 0, started |-> season, stale |-> FALSE]]
             /\ reflectors' = Holding(p, g)
  /\ UNCHANGED <<quiet, kept>>

Running(p) == reflections[reflectors[p].gen].status = "running"

Closed(g, status) == [reflections EXCEPT ![g] = [@ EXCEPT !.status = status, !.stale = FALSE]]

\* Fewer than two memories to reflect on.
CompleteEmpty(p) ==
  /\ reflectors[p].step = "claimed"
  /\ Cardinality(Sampled(p)) < 2
  /\ reflections' = IF Running(p) THEN Closed(reflectors[p].gen, "completed") ELSE reflections
  /\ reflectors' = [reflectors EXCEPT ![p] = Resting]
  /\ UNCHANGED <<quiet, kept>>

SpentIn(s) == MapThenSumSet(LAMBDA g : reflections[g].calls,
                            {g \in Existing : reflections[g].started = s})

\* Faulty: only this run's calls are counted.
AffordableAlone(g) == reflections[g].calls < MaxRunCalls

\* Faulty: only the calls of the month are counted.
AffordableThisMonth(g) == SpentIn(season) < MonthlyCalls

Affordable(g) == reflections[g].calls < MaxRunCalls /\ SpentIn(season) < MonthlyCalls

Reserve(p) ==
  LET g == reflectors[p].gen IN
  /\ reflectors[p].step = "claimed"
  /\ Cardinality(Sampled(p)) >= 2
  /\ IF Running(p) /\ Affordable(g)
     THEN /\ reflections' = [reflections EXCEPT
                                 ![g] = [reflections[g] EXCEPT
                                   !.calls = @ + 1, !.stale = FALSE]]
          /\ reflectors' = [reflectors EXCEPT ![p].step = "reserved"]
          /\ late' = IF reflections[g].started = season THEN late ELSE late + 1
     ELSE /\ reflectors' = [reflectors EXCEPT ![p].step = "failing"]
          /\ UNCHANGED <<reflections, late>>
  /\ UNCHANGED <<outside, kept>>

Generate(p) ==
  /\ reflectors[p].step = "reserved"
  /\ \E step \in {"generated", "failing"} :
       reflectors' = [reflectors EXCEPT ![p].step = step]
  /\ UNCHANGED <<quiet, reflections, kept>>

\* Faulty: what has expired meanwhile is taken for unchanged.
UnchangedThoughExpired(p, e) ==
  evidence[e].rev = reflectors[p].picked[e] /\ evidence[e].rev = reflectors[p].read[e]

Unchanged(p, e) == /\ evidence[e].active
                   /\ evidence[e].rev = reflectors[p].picked[e]
                   /\ evidence[e].rev = reflectors[p].read[e]

\* Faulty: a run that another process has finished meanwhile is finished again.
PublishableAnyhow(p) == TRUE

Publishable(p) == Running(p)

\* validateReflectionOutput: distinct insights, each with two memories or more that were in
\* the input.
Outputs(p) ==
  UNION {[said -> {E \in SUBSET Sampled(p) : Cardinality(E) >= 2}] : said \in SUBSET Insights}

\* applyReflectionInsights: an insight that exists gains evidence.
Apply(p) ==
  LET g == reflectors[p].gen IN
  /\ reflectors[p].step = "generated"
  /\ IF Publishable(p) /\ \A e \in Sampled(p) : Unchanged(p, e)
     THEN /\ \E output \in Outputs(p) :
               insights' = [i \in Insights |->
                 IF i \notin DOMAIN output THEN insights[i]
                 ELSE (IF insights[i] = None THEN {} ELSE insights[i]) \cup output[i]]
          /\ published' = [published EXCEPT ![g] = @ + 1]
          /\ reflections' = Closed(g, "completed")
          /\ reflectors' = [reflectors EXCEPT ![p] = Resting]
     ELSE /\ reflectors' = [reflectors EXCEPT ![p].step = "failing"]
          /\ UNCHANGED <<reflections, kept>>
  /\ UNCHANGED quiet

\* failReflectionRun asks only whether the run is running, whoever runs it.
Fail(p) ==
  /\ reflectors[p].step = "failing"
  /\ \E status \in {"failed", "cancelled"} :
       reflections' = IF Running(p) THEN Closed(reflectors[p].gen, status) ELSE reflections
  /\ reflectors' = [reflectors EXCEPT ![p] = Resting]
  /\ UNCHANGED <<quiet, kept>>

(***************************************************************************)
(* Faults, time and the rest of the system.                                *)
(***************************************************************************)
others == <<season, evidence, insights, published, late>>

Disrupted == disruptions < MaxDisruptions /\ disruptions' = disruptions + 1

Crash(p) ==
  /\ reflectors[p].step # "idle"
  /\ Disrupted
  /\ reflectors' = [reflectors EXCEPT ![p] = Resting]
  /\ UNCHANGED <<others, reflections>>

Manned(g) == \E p \in Reflectors : reflectors[p].gen = g

GrowsStale(g) ==
  /\ g \in Existing /\ reflections[g].status = "running" /\ ~reflections[g].stale
  /\ IF Manned(g) THEN Disrupted ELSE UNCHANGED disruptions
  /\ reflections' = [reflections EXCEPT ![g].stale = TRUE]
  /\ UNCHANGED <<others, reflectors>>

NextSeason ==
  /\ season < LastSeason
  /\ season' = season + 1
  /\ late' = 0
  /\ UNCHANGED <<evidence, reflections, kept, reflectors, disruptions>>

\* An edit, a retirement, which raises the revision too, or an expiry, which does not.
ChangeEvidence(e) ==
  /\ evidence[e].active
  /\ Disrupted
  /\ \/ /\ evidence[e].rev < MaxRevision
        /\ \E active \in BOOLEAN :
             evidence' = [evidence EXCEPT ![e] = [active |-> active, rev |-> @.rev + 1]]
     \/ evidence' = [evidence EXCEPT ![e].active = FALSE]
  /\ UNCHANGED <<season, reflections, kept, reflectors, late>>

\* A forgotten insight may be found again.
ForgetInsight(i) ==
  /\ insights[i] # None
  /\ Disrupted
  /\ insights' = [insights EXCEPT ![i] = None]
  /\ UNCHANGED <<season, evidence, reflections, reflectors, published, late>>

Step(p) == \/ Materialize(p) \/ Claim(p) \/ CompleteEmpty(p) \/ Reserve(p)
           \/ Generate(p) \/ Apply(p) \/ Fail(p)

Next ==
  \/ \E p \in Reflectors, force \in BOOLEAN : Select(p, force)
  \/ \E p \in Reflectors : Step(p) \/ Crash(p)
  \/ \E g \in Generations : GrowsStale(g)
  \/ \E e \in Evidence : ChangeEvidence(e)
  \/ \E i \in Insights : ForgetInsight(i)
  \/ NextSeason

Spec == Init /\ [][Next]_rvars

-------------------------------------------------------------------------------
TypeOK ==
  /\ season \in 1..LastSeason
  /\ evidence \in [Evidence -> Memory]
  /\ reflections \in [Generations -> ReflectionRun \cup {None}]
  /\ insights \in [Insights -> (SUBSET Evidence) \cup {None}]
  /\ reflectors \in [Reflectors -> Reflector]
  /\ disruptions \in 0..MaxDisruptions
  /\ published \in [Generations -> Nat]
  /\ late \in Nat

\* A generation's insights are stored once, although a stalled process and the one that
\* resumed its run both hold the model's answer.
PublishedOnce == \A g \in Generations : published[g] <= 1

\* Insights gain only evidence that says, at that moment, what the model read: a memory
\* edited between the selection and the reading, or while the model thought, is refused.
EvidenceIsWhatWasRead ==
  [][\A i \in Insights :
       insights'[i] # None /\ insights'[i] # insights[i] =>
         \E p \in Reflectors :
           /\ reflectors[p].step = "generated"
           /\ \A e \in insights'[i] \ (IF insights[i] = None THEN {} ELSE insights[i]) :
                evidence[e].active /\ evidence[e].rev = reflectors[p].read[e]]_rvars

Carried == {g \in Existing : reflections[g].started < season}

\* The runs started this month stay within the month's cap together, forced generations and
\* processes that hold the same run included.  A run carried over from an earlier month is
\* not in that sum, so the month's calls may exceed the cap, but only by what the caps of
\* the carried runs allow.
SeasonCapKept ==
  /\ SpentIn(season) <= MonthlyCalls
  /\ late <= MaxRunCalls * Cardinality(Carried)

\* The month's calls stay within the month's cap, whenever their runs were started.  The
\* code does not keep this: what Carried runs reserve is in no month's sum.
MonthCapKept == SpentIn(season) + late <= MonthlyCalls
=============================================================================

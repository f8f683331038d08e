--------------------------- MODULE EmbeddingMigration ---------------------------
(***************************************************************************)
(* The change of the embedding model: npm run reembed gives every active   *)
(* memory a vector of the target model, in batches, while the server       *)
(* writes memories with vectors of the target and operators label vectors  *)
(* of unknown origin.  A pass that exits nonzero is followed by another.   *)
(***************************************************************************)
EXTENDS Integers, FiniteSets, FiniteSetsExt, Functions

CONSTANTS
  LastRow,       \* rows 1..LastRow, in the order of their ids
  Texts,
  Passes,        \* processes that run the command
  Repairs,       \* those of them with --full-repair
  BatchSize,
  MaxWrites, MaxFaults   \* bounds of the model

VARIABLES
  rows,
  locked,        \* row that a transaction of the server is about to write, or 0
  passes,
  clean,         \* the last pass to end reported nothing to repeat
  restored,      \* history: rows that came back with the vector they were hidden with
  writes, faults

xvars == <<rows, locked, passes, clean, restored, writes, faults>>

Rows == 1..LastRow

\* The text and the model of a vector, and the identity that is stored with it.
Row == [state : {"none", "active", "hidden"}, text : Texts, vectorOf : Texts,
        model : {"legacy", "target"}, label : {"unknown", "legacy", "target"}]

Written(t) == [state |-> "active", text |-> t, vectorOf |-> t, model |-> "target",
               label |-> "target"]

Pass == [stage : {"idle", "selecting", "embedding", "writing"},
         last : 0..LastRow,
         batch : UNION {[R -> Texts] : R \in SUBSET Rows},   \* texts as selected
         touched : SUBSET Rows,   \* of the batch: updated_at is no longer the selected one
         failed : BOOLEAN, hard : BOOLEAN]

Idle == [stage |-> "idle", last |-> 0, batch |-> <<>>, touched |-> {},
         failed |-> FALSE, hard |-> FALSE]

\* Rows of before the identities, hidden ones among them, and ids not yet given.
Init ==
  /\ rows \in [Rows -> {r \in Row : r.vectorOf = r.text /\ r.model = "legacy" /\ r.label = "unknown"
                                    /\ r.text = (CHOOSE t \in Texts : TRUE)}]
  /\ locked = 0
  /\ passes = [p \in Passes |-> Idle]
  /\ clean = FALSE /\ restored = {}
  /\ writes = 0 /\ faults = 0

Active(r) == rows[r].state = "active"

\* A write gives the rows another updated_at.
Touched(ps, R) == [p \in Passes |-> [ps[p] EXCEPT !.touched = @ \cup (R \cap DOMAIN ps[p].batch)]]
Touch(R) == passes' = Touched(passes, R)

-------------------------------------------------------------------------------
(***************************************************************************)
(* The server, restorations and labels.                                    *)
(***************************************************************************)

Insert(r, t) ==
  /\ writes < MaxWrites
  /\ rows[r].state = "none"
  /\ rows' = [rows EXCEPT ![r] = Written(t)]
  /\ writes' = writes + 1
  /\ UNCHANGED <<locked, passes, clean, restored, faults>>

LockRow(r) ==
  /\ writes < MaxWrites
  /\ Active(r) /\ locked = 0
  /\ locked' = r
  /\ writes' = writes + 1
  /\ UNCHANGED <<rows, passes, clean, restored, faults>>

\* An edit of the text brings its vector and identity; another one changes updated_at only.
Edit(t) ==
  /\ locked # 0
  /\ rows' = [rows EXCEPT ![locked] = IF t = rows[locked].text THEN @ ELSE Written(t)]
  /\ Touch({locked})
  /\ locked' = 0
  /\ UNCHANGED <<clean, restored, writes, faults>>

\* Forgotten or expired, superseded, or folded into a canonical memory.
Hide(r) ==
  /\ writes < MaxWrites
  /\ Active(r) /\ locked # r
  /\ rows' = [rows EXCEPT ![r].state = "hidden"]
  /\ Touch({r})
  /\ writes' = writes + 1
  /\ UNCHANGED <<locked, clean, restored, faults>>

\* A deconsolidation does not look at identities.
Restore(r) ==
  /\ writes < MaxWrites
  /\ rows[r].state = "hidden"
  /\ rows' = [rows EXCEPT ![r].state = "active"]
  /\ restored' = restored \cup {r}
  /\ Touch({r})
  /\ writes' = writes + 1
  /\ UNCHANGED <<locked, clean, faults>>

\* labelEmbeddings: all active rows of the scope, those of the target too; the target
\* itself cannot be the label, and the operator looks at the status again.
Label(label) ==
  /\ writes < MaxWrites
  /\ locked = 0
  /\ rows' = [r \in Rows |-> IF Active(r) THEN [rows[r] EXCEPT !.label = label] ELSE rows[r]]
  /\ Touch({r \in Rows : Active(r)})
  /\ clean' = FALSE
  /\ writes' = writes + 1
  /\ UNCHANGED <<locked, restored, faults>>

-------------------------------------------------------------------------------
(***************************************************************************)
(* A pass.  No transaction is open while the provider is called.  A dry    *)
(* run, which selects only and ends with status zero, is left out.         *)
(***************************************************************************)

Begin(p) ==
  /\ passes[p].stage = "idle"
  /\ ~clean
  /\ passes' = [passes EXCEPT ![p] = [Idle EXCEPT !.stage = "selecting"]]
  /\ UNCHANGED <<rows, locked, clean, restored, writes, faults>>

\* The rows to embed: one that a transaction holds is skipped, and not come back to.
Eligible(p, r) == Active(r) /\ (p \in Repairs \/ rows[r].label # "target")
Selectable(p) == {r \in Rows : Eligible(p, r) /\ r > passes[p].last /\ r # locked}

Select(p) ==
  LET batch == {r \in Selectable(p) : Cardinality({u \in Selectable(p) : u < r}) < BatchSize} IN
  /\ passes[p].stage = "selecting"
  /\ Selectable(p) # {}
  /\ passes' = [passes EXCEPT
                    ![p] = [@ EXCEPT
                      !.last = Max(batch), !.stage = "embedding",
                      !.batch = [r \in batch |-> rows[r].text]]]
  /\ UNCHANGED <<rows, locked, clean, restored, writes, faults>>

\* After a failure for the whole batch each text is asked for alone: some fail again, or
\* come with a wrong count or dimension, and their rows are left.
Embed(p, unusable) ==
  /\ passes[p].stage = "embedding"
  /\ unusable \subseteq DOMAIN passes[p].batch
  /\ unusable # {} => faults < MaxFaults
  /\ faults' = faults + (IF unusable = {} THEN 0 ELSE 1)
  /\ passes' = [passes EXCEPT
                    ![p] = [passes[p] EXCEPT
                      !.stage = "writing", !.batch = Restrict(@, DOMAIN @ \ unusable),
                      !.touched = @ \ unusable, !.failed = @ \/ unusable # {},
                      !.hard = @ \/ unusable # {}]]
  /\ UNCHANGED <<rows, locked, clean, restored, writes>>

\* Faulty: the row is found by its id only.
StillActive(p, r) == Active(r)

\* The row is active, eligible, and has the content and the updated_at that were selected.
Unchanged(p, r) ==
  /\ Eligible(p, r)
  /\ rows[r].text = passes[p].batch[r]
  /\ r \notin passes[p].touched

\* The write waits for the transaction that holds the row, and then finds it as it is.
WriteVector(p) ==
  LET r == Min(DOMAIN passes[p].batch)
      rest == [passes[p] EXCEPT !.batch = Restrict(@, DOMAIN @ \ {r}), !.touched = @ \ {r}] IN
  /\ passes[p].stage = "writing"
  /\ passes[p].batch # <<>>
  /\ locked # r
  /\ IF Unchanged(p, r)
     THEN /\ rows' = [rows EXCEPT
                          ![r] = [@ EXCEPT
                            !.vectorOf = passes[p].batch[r], !.model = "target",
                            !.label = "target"]]
          /\ passes' = Touched([passes EXCEPT ![p] = rest], {r})
     ELSE /\ passes' = [passes EXCEPT ![p] = [rest EXCEPT !.failed = TRUE]]
          /\ UNCHANGED rows
  /\ UNCHANGED <<locked, clean, restored, writes, faults>>

\* More hard errors than --max-errors, which is zero unless given, end the pass.
EndBatch(p) ==
  /\ passes[p].stage = "writing"
  /\ passes[p].batch = <<>>
  /\ passes' = [passes EXCEPT
                    ![p] = IF passes[p].hard THEN Idle ELSE [@ EXCEPT !.stage = "selecting"]]
  /\ UNCHANGED <<rows, locked, clean, restored, writes, faults>>

\* Faulty: the failures that the pass has seen are all there is to repeat.
VerifiedByFailures(p) == ~passes[p].failed

\* The exit status: no failure, and no active row of another identity, whoever wrote it.
Verified(p) == ~passes[p].failed /\ \A r \in Rows : Active(r) => rows[r].label = "target"

EndPass(p) ==
  /\ passes[p].stage = "selecting"
  /\ Selectable(p) = {}
  /\ clean' = Verified(p)
  /\ passes' = [passes EXCEPT ![p] = Idle]
  /\ UNCHANGED <<rows, locked, restored, writes, faults>>

\* A failed statement or the end of the process.
Break(p) ==
  /\ passes[p].stage # "idle"
  /\ faults < MaxFaults
  /\ faults' = faults + 1
  /\ passes' = [passes EXCEPT ![p] = Idle]
  /\ UNCHANGED <<rows, locked, clean, restored, writes>>

Step(p) == Select(p) \/ Embed(p, {}) \/ WriteVector(p) \/ EndBatch(p) \/ EndPass(p)

Next ==
  \/ \E r \in Rows : \/ \E t \in Texts : Insert(r, t)
                     \/ LockRow(r) \/ Hide(r) \/ Restore(r)
  \/ \E t \in Texts : Edit(t)
  \/ \E label \in {"unknown", "legacy"} : Label(label)
  \/ \E p \in Passes : \/ Begin(p)
                       \/ \E bad \in SUBSET Rows : Embed(p, bad)
                       \/ Step(p) \/ Break(p)

Fairness ==
  /\ \A p \in Passes : WF_xvars(Step(p)) /\ SF_xvars(Begin(p))
  /\ WF_xvars(\E t \in Texts : Edit(t))

Spec == Init /\ [][Next]_xvars /\ Fairness

-------------------------------------------------------------------------------
TypeOK ==
  /\ rows \in [Rows -> Row]
  /\ locked \in {0} \cup Rows
  /\ passes \in [Passes -> Pass]
  /\ clean \in BOOLEAN
  /\ restored \subseteq Rows
  /\ writes \in 0..MaxWrites /\ faults \in 0..MaxFaults

\* What is labelled as the target's is a vector of the target model, of the row's own text:
\* edits, restorations, labels and passes overlap between a selection and its writes.
TargetVectorsFit ==
  \A r \in Rows : rows[r].state # "none" =>
    /\ rows[r].vectorOf = rows[r].text
    /\ rows[r].label = "target" => rows[r].model = "target"

\* Passes are repeated until one is clean, and then no row is left behind, the skipped and
\* the changed ones included.  A member that is restored later keeps its old vector.
Settled == \A r \in Rows \ restored : Active(r) => rows[r].label = "target"
=============================================================================

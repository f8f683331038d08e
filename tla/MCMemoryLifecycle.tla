-------------------------- MODULE MCMemoryLifecycle --------------------------
(***************************************************************************)
(* Instances of MemoryLifecycle for TLC.  Each configuration turns actors  *)
(* off by giving them no members.                                          *)
(***************************************************************************)
EXTENDS MemoryLifecycle, FiniteSetsExt, TLC

IdSymmetry == Permutations(Ids)
IdAndBodySymmetry == Permutations(Ids) \cup Permutations(Bodies)

(***************************************************************************)
(* Bounds of the instances, as state constraints.                          *)
(***************************************************************************)

\* So many clients are between two of their transactions.
AtWork(n) == Cardinality({w \in Workers : ~IsIdle(w)}) <= n
TwoAtWork == AtWork(2)

\* So many revisions of the rows together.
Revisions(n) == MapThenSumSet(LAMBDA i : mem[i].rev, Ids) <= n
TwoRevisions == Revisions(2)

\* When every id is used the rows say the same: two contents, or three rows.
TextsOrRows == (\A i \in Ids : ~Unused(i)) => \A i, j \in Ids : mem[i].body = mem[j].body

\* Beside a keyed row, a month of the profile or a row with a lifetime one client is at work,
\* and the clock stops early.
KeyedEarly == (\E i \in Ids : mem[i].key \in Keys) => now = 0 /\ AtWork(1)
MonthsEarly == (\E i \in Ids : mem[i].key \in Months) => now <= 1 /\ AtWork(1)
LimitedApart == (\E i \in Ids : mem[i].exp # Never) => AtWork(1)
=============================================================================

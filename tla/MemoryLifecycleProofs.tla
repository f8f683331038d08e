------------------------ MODULE MemoryLifecycleProofs ------------------------
(***************************************************************************)
(* Theorems about MemoryLifecycle, for every value of its constants: first *)
(* of its types, the schema's constraints and provenance; then of the rows *)
(* that edits, consolidation, forgetting and erasure touch at the same     *)
(* time, and of the refinement of BeliefLedger.                            *)
(***************************************************************************)
EXTENDS MemoryLifecycle, FiniteSetTheorems, TLAPS

(***************************************************************************)
(* What the constructors of a row return.                                  *)
(***************************************************************************)
USE DEF Never

LEMMA ErasedType == NoRow \in Row /\ Erased \in Row
BY DEF NoRow, Erased, Row, Time

LEMMA NewRowType ==
  ASSUME now \in Nat,
         NEW kind \in {"semantic", "consolidation"},
         NEW key \in Ids \cup Keys \cup Months \cup {None},
         NEW body \in Bodies,
         NEW sup \in Ids \cup {None},
         NEW exp \in Time
  PROVE  NewRow(kind, key, body, sup, exp) \in Row
BY DEF NewRow, NoRow, Row, Time

LEMMA RowStepTypes ==
  ASSUME now \in Nat, NEW r \in Row
  PROVE  /\ Closed(r) \in Row
         /\ Unlinked(r) \in Row
         /\ Tombstoned(r) \in Row
         /\ \A c \in Ids : Linked(r, c) \in Row
<1> r.rev + 1 \in Nat
  BY DEF Row
<1>1. Closed(r) \in Row
  BY DEF Closed, Row, Time
<1>2. Unlinked(r) \in Row
  BY DEF Unlinked, Row, Time
<1>3. Tombstoned(r) \in Row
  BY DEF Tombstoned, Row, Time
<1>4. \A c \in Ids : Linked(r, c) \in Row
  BY DEF Linked, Row, Time
<1> QED
  BY <1>1, <1>2, <1>3, <1>4

LEMMA PatchedType ==
  ASSUME now \in Nat, NEW r \in Row, NEW body \in Bodies \cup {None},
         NEW vec \in Bodies \cup {None}, NEW retag \in BOOLEAN, NEW link \in Ids \cup {None}
  PROVE  Patched(r, body, vec, retag, link) \in Row
<1> DEFINE v == IF body # r.body THEN vec ELSE r.vec
           s == IF link = None THEN r.sup ELSE link
           f == IF link = None THEN r.from ELSE now
           n == IF body # r.body \/ retag \/ link # None THEN r.rev + 1 ELSE r.rev
<1>1. v \in Bodies \cup {None} /\ s \in Ids \cup {None} /\ f \in Nat /\ n \in Nat
  <2>1. r.vec \in Bodies \cup {None} /\ r.sup \in Ids \cup {None} /\ r.from \in Nat /\ r.rev \in Nat
    BY DEF Row
  <2> QED
    BY <2>1
<1>2. Patched(r, body, vec, retag, link)
        = [r EXCEPT !.body = body, !.vec = v, !.sup = s, !.from = f, !.rev = n]
  BY DEF Patched
<1> HIDE DEF v, s, f, n
<1>3. [r EXCEPT !.body = body, !.vec = v, !.sup = s, !.from = f, !.rev = n] \in Row
  BY <1>1 DEF Row
<1> QED
  BY <1>2, <1>3

LEMMA ReplacedType ==
  ASSUME NEW r \in Row, NEW body \in Bodies, NEW exp \in Time, NEW retag \in BOOLEAN
  PROVE  Replaced(r, body, exp, retag) \in Row
<1> DEFINE n == IF retag \/ body # r.body THEN r.rev + 1 ELSE r.rev
<1>1. n \in Nat
  BY DEF Row
<1>2. Replaced(r, body, exp, retag) = [r EXCEPT !.body = body, !.vec = body, !.exp = exp, !.rev = n]
  BY DEF Replaced
<1> HIDE DEF n
<1> QED
  BY <1>1, <1>2 DEF Row

LEMMA ExpiryType ==
  ASSUME now \in Nat, NEW ttl \in Ttls \cup {Never}
  PROVE  ExpiryOf(ttl) \in Time
BY TtlsAssumption DEF ExpiryOf, Time

\* What one operation may assume of the state it starts in.
LEMMA TypeFacts ==
  ASSUME TypeOK
  PROVE  /\ now \in Nat
         /\ \A i \in Ids : mem[i] \in Row
         /\ \A w \in Workers : work[w] \in Work
BY DEF TypeOK

(***************************************************************************)
(* Type correctness, one lemma per group of actions.                       *)
(***************************************************************************)
LEMMA InsertType ==
  ASSUME TypeOK, NEW key \in Keys \cup Months \cup {None}, NEW body \in Bodies, NEW exp \in Time,
         Insert(key, body, exp)
  PROVE  mem' \in [Ids -> Row]
<1>1. PICK i \in Ids : mem' = [mem EXCEPT ![i] = NewRow("semantic", key, body, None, exp)]
  BY DEF Insert
<1>2. NewRow("semantic", key, body, None, exp) \in Row
  BY NewRowType, TypeFacts
<1> QED
  BY <1>1, <1>2 DEF TypeOK

LEMMA StoreUnkeyedType ==
  ASSUME TypeOK, NEW body \in Bodies, NEW ttl \in Ttls \cup {Never}, NEW dedupe \in BOOLEAN,
         StoreUnkeyed(body, ttl, dedupe)
  PROVE  mem' \in [Ids -> Row]
<1>1. CASE Boost(body)
  <2>1. PICK i \in Ids, retag \in BOOLEAN :
          mem' = [mem EXCEPT ![i].rev = IF retag THEN @ + 1 ELSE @]
    BY <1>1 DEF Boost
  <2>2. mem[i].rev + 1 \in Nat /\ mem[i].rev \in Nat /\ mem[i] \in Row
    BY TypeFacts DEF Row
  <2>3. \A n \in Nat : [mem[i] EXCEPT !.rev = n] \in Row
    BY <2>2 DEF Row
  <2> QED
    BY <2>1, <2>2, <2>3 DEF TypeOK
<1>2. CASE Insert(None, body, ExpiryOf(ttl))
  BY <1>2, InsertType, ExpiryType, TypeFacts
<1> QED
  BY <1>1, <1>2 DEF StoreUnkeyed

LEMMA StoreKeyedType ==
  ASSUME TypeOK, NEW key \in Keys, NEW body \in Bodies, NEW ttl \in Ttls \cup {Never},
         StoreKeyed(key, body, ttl)
  PROVE  TypeOK'
<1>1. Insert(key, body, ExpiryOf(ttl)) => mem' \in [Ids -> Row]
  BY InsertType, ExpiryType, TypeFacts
<1>2. ASSUME NEW i \in Ids, NEW retag \in BOOLEAN, ReplaceKeyed(i, key, body, ExpiryOf(ttl), retag)
      PROVE  mem' \in [Ids -> Row]
  <2>1. mem[i] \in Row /\ ExpiryOf(ttl) \in Time
    BY ExpiryType, TypeFacts
  <2>2. Replaced(mem[i], body, ExpiryOf(ttl), retag) \in Row
    BY <2>1, ReplacedType
  <2> QED
    BY <1>2, <2>2 DEF ReplaceKeyed, TypeOK
<1> QED
  <2>1. mem' \in [Ids -> Row]
    BY <1>1, <1>2 DEF StoreKeyed
  <2> QED
    BY <2>1 DEF StoreKeyed, TypeOK

\* A worker that takes up or ends a piece of work.
LEMMA WorkType ==
  ASSUME TypeOK, NEW w \in Workers, NEW job \in Work, work' = [work EXCEPT ![w] = job]
  PROVE  work' \in [Workers -> Work]
BY DEF TypeOK

LEMMA IdleType == Idle \in Work
BY DEF Idle, Work

LEMMA WorkersType ==
  /\ Editors \subseteq Workers /\ Classifiers \subseteq Workers /\ Mergers \subseteq Workers
  /\ Operators \subseteq Workers /\ Purgers \subseteq Workers
BY DEF Workers

LEMMA UpdateReadType ==
  ASSUME TypeOK, NEW w \in Editors, NEW t \in Ids, NEW body \in Bodies, UpdateRead(w, t, body)
  PROVE  TypeOK'
<1> DEFINE job == [op |-> "edit", id |-> t, body |-> body, rev |-> mem[t].rev,
                   vec |-> IF body = mem[t].body THEN None ELSE body]
<1>1. mem[t].rev \in Nat
  BY TypeFacts DEF Row
<1>2. job \in Work
  BY <1>1 DEF Work
<1>3. work' = [work EXCEPT ![w] = job] /\ UNCHANGED <<mem, memberships, now>>
  BY DEF UpdateRead, Starts
<1> HIDE DEF job
<1> QED
  BY <1>2, <1>3, WorkType, WorkersType DEF TypeOK

LEMMA ApplyUpdateType ==
  ASSUME TypeOK, NEW t \in Ids, NEW body \in Bodies \cup {None}, NEW vec \in Bodies \cup {None},
         NEW retag \in BOOLEAN, NEW link \in Ids \cup {None}, ApplyUpdate(t, body, vec, retag, link)
  PROVE  mem' \in [Ids -> Row]
<1>1. \A i \in Ids : mem[i] \in Row /\ Closed(mem[i]) \in Row
  BY TypeFacts, RowStepTypes
<1>2. Patched(mem[t], body, vec, retag, link) \in Row
  BY TypeFacts, PatchedType
<1> QED
  BY <1>1, <1>2 DEF ApplyUpdate

LEMMA UpdateCommitType ==
  ASSUME TypeOK, NEW w \in Editors, NEW retag \in BOOLEAN, NEW link \in Ids \cup {None},
         UpdateCommit(w, retag, link)
  PROVE  TypeOK'
<1>1. work[w] \in Work /\ work[w].op = "edit"
  BY TypeFacts, WorkersType DEF UpdateCommit
<1>2. work[w].id \in Ids /\ work[w].body \in Bodies /\ work[w].vec \in Bodies \cup {None}
  BY <1>1 DEF Work
<1>3. mem' \in [Ids -> Row]
  BY <1>2, ApplyUpdateType DEF UpdateCommit
<1>4. work' \in [Workers -> Work]
  BY WorkType, WorkersType, IdleType DEF UpdateCommit, Finishes
<1> QED
  BY <1>3, <1>4 DEF UpdateCommit, TypeOK

LEMMA UpdateDirectType ==
  ASSUME TypeOK, NEW t \in Ids, NEW retag \in BOOLEAN, NEW link \in Ids \cup {None},
         UpdateDirect(t, retag, link)
  PROVE  TypeOK'
<1>1. mem[t].body \in Bodies \cup {None}
  BY TypeFacts DEF Row
<1>2. mem' \in [Ids -> Row]
  BY <1>1, ApplyUpdateType DEF UpdateDirect
<1> QED
  BY <1>2 DEF UpdateDirect, TypeOK

LEMMA AbandonType ==
  ASSUME TypeOK, NEW w \in Workers, Abandon(w)
  PROVE  TypeOK'
BY WorkType, IdleType DEF Abandon, Finishes, TypeOK

LEMMA SucceedType ==
  ASSUME TypeOK, NEW p \in Ids, NEW key \in Keys \cup Months \cup {None}, NEW body \in Bodies,
         Succeed(p, key, body)
  PROVE  mem' \in [Ids -> Row]
<1>1. PICK s \in Ids : mem' = [mem EXCEPT ![p] = Closed(@), ![s] = NewRow("semantic", key, body, p, Never)]
  BY DEF Succeed
<1>2. NewRow("semantic", key, body, p, Never) \in Row
  BY NewRowType, TypeFacts DEF Time
<1>3. \A i \in Ids : mem[i] \in Row /\ Closed(mem[i]) \in Row
  BY TypeFacts, RowStepTypes
<1> QED
  BY <1>1, <1>2, <1>3 DEF TypeOK

LEMMA ReviewType ==
  ASSUME TypeOK, NEW w \in Classifiers, NEW p \in Ids, NEW body \in Bodies, StoreReview(w, p, body)
  PROVE  TypeOK'
<1>1. [op |-> "revise", pred |-> p, body |-> body] \in Work
  BY DEF Work
<1> QED
  BY <1>1, WorkType, WorkersType DEF StoreReview, Starts, TypeOK

LEMMA ReviseType ==
  ASSUME TypeOK, NEW w \in Classifiers, ReviseCommit(w) \/ ReviseDecline(w)
  PROVE  TypeOK'
<1>1. work[w] \in Work /\ work[w].op = "revise"
  BY TypeFacts, WorkersType DEF ReviseCommit, ReviseDecline
<1>2. work[w].pred \in Ids /\ work[w].body \in Bodies
  BY <1>1 DEF Work
<1>3. work' \in [Workers -> Work]
  BY WorkType, WorkersType, IdleType DEF ReviseCommit, ReviseDecline, Finishes
<1>4. (\E dedupe \in BOOLEAN : StoreUnkeyed(work[w].body, Never, dedupe)) => mem' \in [Ids -> Row]
  BY <1>2, StoreUnkeyedType
<1>5. Succeed(work[w].pred, None, work[w].body) => mem' \in [Ids -> Row]
  BY <1>2, SucceedType
<1>6. mem' \in [Ids -> Row]
  BY <1>4, <1>5 DEF ReviseCommit, ReviseDecline
<1> QED
  BY <1>3, <1>6 DEF ReviseCommit, ReviseDecline, TypeOK

LEMMA ForgetType ==
  ASSUME TypeOK, NEW S \in SUBSET Ids, Forget(S)
  PROVE  TypeOK'
<1>1. \A i \in Ids : mem[i] \in Row /\ Tombstoned(mem[i]) \in Row
  BY TypeFacts, RowStepTypes
<1>2. mem' \in [Ids -> Row]
  BY <1>1 DEF Forget
<1> QED
  BY <1>2 DEF Forget, TypeOK

LEMMA SnapshotType ==
  ASSUME TypeOK, NEW i \in Ids
  PROVE  Seen(i) \in Snapshot /\ Approve(i) \in Approval
<1>1. mem[i].body \in Bodies \cup {None} /\ mem[i].vec \in Bodies \cup {None} /\ mem[i].rev \in Nat
  BY TypeFacts DEF Row
<1> QED
  BY <1>1 DEF Seen, Approve, Snapshot, Approval

LEMMA MergeLoadType ==
  ASSUME TypeOK, NEW w \in Mergers, NEW S \in SUBSET Ids, MergeLoad(w, S)
  PROVE  TypeOK'
<1> DEFINE seen == {Seen(i) : i \in S}
<1>1. seen \subseteq Snapshot
  BY SnapshotType
<1>2. [op |-> "merge", seen |-> seen] \in Work
  BY <1>1 DEF Work
<1>3. work' = [work EXCEPT ![w] = [op |-> "merge", seen |-> seen]] /\ UNCHANGED <<mem, memberships, now>>
  BY DEF MergeLoad, Starts
<1> HIDE DEF seen
<1> QED
  BY <1>2, <1>3, WorkType, WorkersType DEF TypeOK

LEMMA MergeJob ==
  ASSUME TypeOK, NEW w \in Mergers, work[w].op = "merge"
  PROVE  work[w].seen \subseteq Snapshot
<1>1. work[w] \in Work
  BY TypeFacts, WorkersType
<1> QED
  BY <1>1 DEF Work

LEMMA MergeApplyType ==
  ASSUME TypeOK, NEW w \in Mergers, NEW body \in Bodies, MergeApply(w, body)
  PROVE  TypeOK'
<1> DEFINE members == {s.id : s \in work[w].seen}
           added(c) == {[canonical |-> c, member |-> s.id, body |-> s.body, rev |-> s.rev,
                         open |-> TRUE] : s \in work[w].seen}
<1>1. PICK c \in Ids :
        /\ mem' = [i \in Ids |-> IF i = c THEN NewRow("consolidation", c, body, None, Never)
                                   ELSE IF i \in members THEN Linked(mem[i], c)
                                   ELSE mem[i]]
        /\ memberships' = memberships \cup added(c)
  BY DEF MergeApply
<1>2. work[w].seen \subseteq Snapshot
  BY MergeJob DEF MergeApply
<1>3. added(c) \subseteq Membership
  <2>1. \A s \in work[w].seen : s.id \in Ids /\ s.body \in Bodies \cup {None} /\ s.rev \in Nat
    BY <1>2 DEF Snapshot
  <2>2. \A s \in work[w].seen : [canonical |-> c, member |-> s.id, body |-> s.body, rev |-> s.rev,
                                 open |-> TRUE] \in Membership
    BY <2>1 DEF Membership
  <2> QED
    BY <2>2
<1>4. NewRow("consolidation", c, body, None, Never) \in Row
  BY NewRowType, TypeFacts DEF Time
<1>5. \A i \in Ids : mem[i] \in Row /\ Linked(mem[i], c) \in Row
  BY TypeFacts, RowStepTypes
<1> HIDE DEF members, added
<1>6. mem' \in [Ids -> Row]
  BY <1>1, <1>4, <1>5
<1>7. memberships' \subseteq Membership
  BY <1>1, <1>3 DEF TypeOK
<1>8. work' \in [Workers -> Work]
  BY WorkType, WorkersType, IdleType DEF MergeApply, Finishes
<1> QED
  BY <1>6, <1>7, <1>8 DEF MergeApply, TypeOK

LEMMA RestorePreviewType ==
  ASSUME TypeOK, NEW w \in Operators, NEW c \in Ids, RestorePreview(w, c)
  PROVE  TypeOK'
<1> DEFINE members == {Approve(m.member) : m \in OpenMembers(c)}
           job == [op |-> "restore", canonical |-> Approve(c), members |-> members]
<1>1. \A m \in OpenMembers(c) : m.member \in Ids
  BY DEF OpenMembers, TypeOK, Membership
<1>2. members \subseteq Approval
  BY <1>1, SnapshotType
<1>3. Approve(c) \in Approval
  BY SnapshotType
<1> HIDE DEF members
<1>4. job \in Work
  BY <1>2, <1>3 DEF Work
<1>5. work' = [work EXCEPT ![w] = job] /\ UNCHANGED <<mem, memberships, now>>
  BY DEF RestorePreview, Starts, members
<1> HIDE DEF job
<1> QED
  BY <1>4, <1>5, WorkType, WorkersType DEF TypeOK

LEMMA RestoreApplyType ==
  ASSUME TypeOK, NEW w \in Operators, RestoreApply(w)
  PROVE  TypeOK'
<1> DEFINE c == work[w].canonical.id
           restored == {a.id : a \in work[w].members}
           ended == {m \in OpenMembers(c) : m.member \in restored}
<1>1. mem' = [i \in Ids |-> IF i = c THEN Tombstoned(mem[i])
                             ELSE IF i \in restored THEN Unlinked(mem[i])
                             ELSE mem[i]]
  BY DEF RestoreApply
<1>2. \A i \in Ids : mem[i] \in Row /\ Tombstoned(mem[i]) \in Row /\ Unlinked(mem[i]) \in Row
  BY TypeFacts, RowStepTypes
<1>3. mem' \in [Ids -> Row]
  <2> HIDE DEF c, restored
  <2> QED
    BY <1>1, <1>2
<1>4. memberships' = (memberships \ ended) \cup {[m EXCEPT !.open = FALSE] : m \in ended}
  BY DEF RestoreApply
<1>5. \A m \in ended : m \in Membership /\ [m EXCEPT !.open = FALSE] \in Membership
  BY DEF OpenMembers, TypeOK, Membership
<1>6. memberships' \subseteq Membership
  BY <1>4, <1>5 DEF TypeOK
<1>7. work' \in [Workers -> Work]
  BY WorkType, WorkersType, IdleType DEF RestoreApply, Finishes
<1> QED
  BY <1>3, <1>6, <1>7 DEF RestoreApply, TypeOK

LEMMA EraseType ==
  ASSUME TypeOK, NEW dead, Erase(dead)
  PROVE  mem' \in [Ids -> Row] /\ memberships' \subseteq Membership
BY ErasedType, TypeFacts DEF Erase, TypeOK

LEMMA PurgePreviewType ==
  ASSUME TypeOK, NEW w \in Purgers, PurgePreview(w)
  PROVE  TypeOK'
<1> DEFINE job == [op |-> "purge", dead |-> PurgeCandidates, blocked |-> PurgeBlocked]
<1>1. \A i \in Tombstones : i \in Ids /\ mem[i].del \in Time
  BY TypeFacts DEF Tombstones, Row
<1>2. PurgeCandidates \subseteq [id : Ids, del : Time] /\ PurgeBlocked \subseteq Ids
  BY <1>1 DEF PurgeCandidates, PurgeBlocked
<1>3. job \in Work
  BY <1>2 DEF Work
<1>4. work' = [work EXCEPT ![w] = job] /\ UNCHANGED <<mem, memberships, now>>
  BY DEF PurgePreview, Starts
<1> HIDE DEF job
<1> QED
  BY <1>3, <1>4, WorkType, WorkersType DEF TypeOK

LEMMA PurgeApplyType ==
  ASSUME TypeOK, NEW w \in Purgers, PurgeApply(w)
  PROVE  TypeOK'
<1>1. work' \in [Workers -> Work]
  BY WorkType, WorkersType, IdleType DEF PurgeApply, Finishes
<1> QED
  BY <1>1, EraseType DEF PurgeApply, TypeOK

LEMMA TasteType ==
  ASSUME TypeOK, NEW month \in Months, NEW body \in Bodies, TasteUpsert(month, body)
  PROVE  TypeOK'
<1>1. ASSUME NEW i \in Ids, NEW retag \in BOOLEAN, Rewrite(i, month, body, retag)
      PROVE  mem' \in [Ids -> Row]
  <2>1. mem[i] \in Row /\ mem[i].exp \in Time
    BY TypeFacts DEF Row
  <2>2. Replaced(mem[i], body, mem[i].exp, retag) \in Row
    BY <2>1, ReplacedType
  <2> QED
    BY <1>1, <2>2 DEF Rewrite, TypeOK
<1>2. Insert(month, body, Never) => mem' \in [Ids -> Row]
  BY InsertType DEF Time
<1>3. \A p \in Ids : Succeed(p, month, body) => mem' \in [Ids -> Row]
  BY SucceedType
<1>4. TasteSeries \subseteq Ids
  BY DEF TasteSeries
<1>5. mem' \in [Ids -> Row]
  BY <1>1, <1>2, <1>3, <1>4 DEF TasteUpsert
<1> QED
  BY <1>5 DEF TasteUpsert, TypeOK

LEMMA TypeInit == Init => TypeOK
BY ErasedType, IdleType DEF Init, TypeOK

LEMMA TypeStep ==
  ASSUME TypeOK, [Next]_vars
  PROVE  TypeOK'
<1>1. CASE UNCHANGED vars
  BY <1>1 DEF vars, TypeOK
<1>2. CASE Tick
  BY <1>2 DEF Tick, TypeOK
<1>3. ASSUME NEW body \in Bodies, NEW ttl \in Ttls \cup {Never}, NEW dedupe \in BOOLEAN,
             Store(body, ttl, dedupe)
      PROVE  TypeOK'
  BY <1>3, StoreUnkeyedType DEF Store, TypeOK
<1>4. ASSUME NEW dead, TtlPurge(dead)
      PROVE  TypeOK'
  BY <1>4, EraseType DEF TtlPurge, TypeOK
<1> QED
  BY <1>1, <1>2, <1>3, <1>4, StoreKeyedType, UpdateReadType, UpdateCommitType, UpdateDirectType,
     AbandonType, ReviewType, ReviseType, ForgetType, MergeLoadType, MergeApplyType,
     RestorePreviewType, RestoreApplyType, PurgePreviewType, PurgeApplyType, TasteType DEF Next

(***************************************************************************)
(* Every reachable state has the shape the schema gives it.                *)
(***************************************************************************)
THEOREM TypeCorrect == Spec => []TypeOK
BY TypeInit, TypeStep, PTL DEF Spec

(***************************************************************************)
(* The history of beliefs.  ContiguousHistory alone is not inductive: that *)
(* a closed row never gains a second successor, and that a row which is    *)
(* not there links to nothing, are needed beside it.                       *)
(***************************************************************************)
SingleSuccessor == \A s, t \in Ids : mem[s].sup # None /\ mem[s].sup = mem[t].sup => s = t
BareRowsUnlinked == \A i \in Ids : ~Present(i) => mem[i].sup = None
HistoryInv == ContiguousHistory /\ SingleSuccessor /\ BareRowsUnlinked

\* The fields that histories are made of.
SameHistory(r, q) == r.life = q.life /\ r.sup = q.sup /\ r.from = q.from /\ r.to = q.to

LEMMA RowFields ==
  ASSUME NEW r \in Row
  PROVE  /\ r.sup \in Ids \cup {None} /\ r.from \in Nat /\ r.to \in Nat \cup {Never}
         /\ r.exp \in Nat \cup {Never} /\ r.del \in Nat \cup {Never} /\ r.rev \in Nat
         /\ r.into \in Ids \cup {None} /\ r.body \in Bodies \cup {None} /\ r.vec \in Bodies \cup {None}
         /\ r.life \in {"none", "row", "gone"} /\ r.kind \in {"semantic", "consolidation"}
BY DEF Row, Time

\* What the constructors do to the fields of a history.
LEMMA RowStepHistory ==
  ASSUME NEW r \in Row
  PROVE  /\ SameHistory(Unlinked(r), r)
         /\ SameHistory(Tombstoned(r), r)
         /\ \A c \in Ids : SameHistory(Linked(r, c), r)
         /\ \A body, exp, retag : SameHistory(Replaced(r, body, exp, retag), r)
         /\ \A body, vec, retag : SameHistory(Patched(r, body, vec, retag, None), r)
         /\ Closed(r).life = r.life /\ Closed(r).sup = r.sup /\ Closed(r).from = r.from
         /\ Closed(r).to = now
<1>1. SameHistory(Unlinked(r), r) /\ SameHistory(Tombstoned(r), r)
  BY DEF Unlinked, Tombstoned, SameHistory, Row
<1>2. \A c \in Ids : SameHistory(Linked(r, c), r)
  BY DEF Linked, SameHistory, Row
<1>3. \A body, exp, retag : SameHistory(Replaced(r, body, exp, retag), r)
  BY DEF Replaced, SameHistory, Row
<1>4. \A body, vec, retag : SameHistory(Patched(r, body, vec, retag, None), r)
  BY DEF Patched, SameHistory, Row
<1>5. /\ Closed(r).life = r.life /\ Closed(r).sup = r.sup /\ Closed(r).from = r.from
      /\ Closed(r).to = now
  BY DEF Closed, Row
<1> QED
  BY <1>1, <1>2, <1>3, <1>4, <1>5

LEMMA NewRowFields ==
  ASSUME NEW kind, NEW key, NEW body, NEW sup, NEW exp
  PROVE  LET r == NewRow(kind, key, body, sup, exp)
         IN  /\ r.life = "row" /\ r.sup = sup /\ r.from = now /\ r.to = Never
             /\ r.into = None /\ r.del = Never /\ r.body = body /\ r.vec = body
             /\ r.kind = kind /\ r.key = key /\ r.exp = exp /\ r.rev = 0
BY DEF NewRow, NoRow

\* No history is touched.
LEMMA HistoryFrame ==
  ASSUME TypeOK, HistoryInv, \A i \in Ids : SameHistory(mem'[i], mem[i])
  PROVE  HistoryInv'
<1>1. \A i \in Ids : mem[i].sup \in Ids \cup {None}
  BY TypeFacts, RowFields
<1> QED
  BY <1>1 DEF HistoryInv, ContiguousHistory, SingleSuccessor, BareRowsUnlinked, SameHistory, Present

\* A row begins a history of its own.
LEMMA HistoryBegins ==
  ASSUME TypeOK, HistoryInv, NEW c \in Ids, Unused(c),
         mem'[c].life = "row", mem'[c].sup = None,
         \A i \in Ids \ {c} : SameHistory(mem'[i], mem[i])
  PROVE  HistoryInv'
<1>1. \A i \in Ids : mem[i].sup \in Ids \cup {None}
  BY TypeFacts, RowFields
<1>2. ~Present(c)
  BY DEF Unused, Present
<1> QED
  BY <1>1, <1>2 DEF HistoryInv, ContiguousHistory, SingleSuccessor, BareRowsUnlinked, SameHistory, Present

\* p ends and s, which had no predecessor, begins at this instant.
LEMMA HistoryContinues ==
  ASSUME TypeOK, HistoryInv, NEW p \in Ids, NEW s \in Ids, p # s,
         Present(p), mem[p].to = Never, mem[p].from < now,
         mem[s].sup = None, ~Present(s) \/ mem[s].to = Never,
         mem'[p].life = mem[p].life, mem'[p].sup = mem[p].sup, mem'[p].from = mem[p].from,
         mem'[p].to = now,
         mem'[s].life = "row", mem'[s].sup = p, mem'[s].from = now,
         \A i \in Ids \ {p, s} : SameHistory(mem'[i], mem[i])
  PROVE  HistoryInv'
<1>1. \A i \in Ids : mem[i].sup \in Ids \cup {None} /\ mem[i].from \in Nat
  BY TypeFacts, RowFields
<1>2. \A i \in Ids : mem[i].sup # p /\ mem[i].sup # s
  BY <1>1, NoneAssumption DEF HistoryInv, ContiguousHistory
<1>3. p # None /\ s # None
  BY NoneAssumption
<1>4. ContiguousHistory'
  <2> SUFFICES ASSUME NEW x \in Ids, mem'[x].sup # None
               PROVE  LET q == mem'[x].sup
                      IN  mem'[q].life = "row" /\ mem'[q].from < mem'[q].to /\ mem'[q].to = mem'[x].from
    BY DEF ContiguousHistory, Present
  <2>1. CASE x = s
    BY <2>1 DEF Present
  <2>2. CASE x # s
    <3>1. mem'[x].sup = mem[x].sup /\ mem'[x].from = mem[x].from
      BY <2>2 DEF SameHistory
    <3>2. mem[x].sup \in Ids \ {p, s}
      BY <3>1, <1>1, <1>2
    <3> QED
      BY <3>1, <3>2 DEF HistoryInv, ContiguousHistory, SameHistory, Present
  <2> QED
    BY <2>1, <2>2
<1>5. SingleSuccessor'
  <2>1. \A i \in Ids \ {s} : mem'[i].sup = mem[i].sup
    BY DEF SameHistory
  <2> QED
    BY <2>1, <1>2 DEF HistoryInv, SingleSuccessor
<1>6. BareRowsUnlinked'
  BY DEF HistoryInv, BareRowsUnlinked, SameHistory, Present
<1> QED
  BY <1>4, <1>5, <1>6 DEF HistoryInv

\* Rows that no surviving row refers to are erased.
LEMMA HistoryErased ==
  ASSUME TypeOK, HistoryInv, NEW dead, Erase(dead),
         \A s \in Ids \ dead : mem[s].sup \notin dead
  PROVE  HistoryInv'
<1>1. \A i \in Ids : mem[i].sup \in Ids \cup {None}
  BY TypeFacts, RowFields
<1>2. \A i \in Ids : mem'[i] = IF i \in dead THEN Erased ELSE mem[i]
  BY DEF Erase
<1>3. Erased.sup = None
  BY DEF Erased, NoRow
<1>4. Erased.life = "gone"
  BY DEF Erased, NoRow
<1> QED
  BY <1>1, <1>2, <1>3, <1>4 DEF HistoryInv, ContiguousHistory, SingleSuccessor, BareRowsUnlinked, Present

LEMMA VisibleFacts ==
  ASSUME TypeOK, HistoryInv, NEW p \in Ids, Visible(p)
  PROVE  Present(p) /\ mem[p].to = Never /\ \A s \in Ids : mem[s].sup # p
<1>1. Present(p) /\ mem[p].to = Never
  BY DEF Visible, Active, Current
<1>2. \A s \in Ids : mem[s].from \in Nat
  BY TypeFacts, RowFields
<1> QED
  BY <1>1, <1>2, NoneAssumption DEF HistoryInv, ContiguousHistory

LEMMA InsertHistory ==
  ASSUME TypeOK, HistoryInv, NEW key, NEW body, NEW exp, Insert(key, body, exp)
  PROVE  HistoryInv'
<1>1. PICK c \in Ids : Unused(c) /\ mem' = [mem EXCEPT ![c] = NewRow("semantic", key, body, None, exp)]
  BY DEF Insert
<1>2. mem'[c].life = "row" /\ mem'[c].sup = None
  BY <1>1, NewRowFields DEF TypeOK
<1>3. \A i \in Ids \ {c} : SameHistory(mem'[i], mem[i])
  BY <1>1 DEF TypeOK, SameHistory
<1> QED
  BY <1>1, <1>2, <1>3, HistoryBegins

LEMMA StoreUnkeyedHistory ==
  ASSUME TypeOK, HistoryInv, NEW body, NEW ttl, NEW dedupe, StoreUnkeyed(body, ttl, dedupe)
  PROVE  HistoryInv'
<1>1. CASE Boost(body)
  <2>1. PICK i \in Ids, retag \in BOOLEAN :
          mem' = [mem EXCEPT ![i].rev = IF retag THEN @ + 1 ELSE @]
    BY <1>1 DEF Boost
  <2>2. \A j \in Ids : SameHistory(mem'[j], mem[j])
    BY <2>1 DEF TypeOK, SameHistory, Row
  <2> QED
    BY <2>2, HistoryFrame
<1> QED
  BY <1>1, InsertHistory DEF StoreUnkeyed

LEMMA StoreKeyedHistory ==
  ASSUME TypeOK, HistoryInv, NEW key, NEW body, NEW ttl, StoreKeyed(key, body, ttl)
  PROVE  HistoryInv'
<1>1. ASSUME NEW i \in Ids, NEW retag \in BOOLEAN, ReplaceKeyed(i, key, body, ExpiryOf(ttl), retag)
      PROVE  HistoryInv'
  <2>1. SameHistory(Replaced(mem[i], body, ExpiryOf(ttl), retag), mem[i])
    BY TypeFacts, RowStepHistory
  <2>2. \A j \in Ids : SameHistory(mem'[j], mem[j])
    BY <1>1, <2>1 DEF ReplaceKeyed, TypeOK, SameHistory
  <2> QED
    BY <2>2, HistoryFrame
<1> QED
  BY <1>1, InsertHistory DEF StoreKeyed

LEMMA PatchedLinkFields ==
  ASSUME NEW r \in Row, NEW body, NEW vec, NEW retag, NEW link \in Ids
  PROVE  LET q == Patched(r, body, vec, retag, link)
         IN  q.life = r.life /\ q.sup = link /\ q.from = now /\ q.to = r.to
BY NoneAssumption DEF Patched, Row

LEMMA ApplyUpdateHistory ==
  ASSUME TypeOK, HistoryInv, NEW t \in Ids, NEW body, NEW vec, NEW retag, NEW link \in Ids \cup {None},
         ApplyUpdate(t, body, vec, retag, link)
  PROVE  HistoryInv'
<1>1. \A i \in Ids : mem'[i] = IF i = t THEN Patched(mem[t], body, vec, retag, link)
                                ELSE IF i = link THEN Closed(mem[i])
                                ELSE mem[i]
  BY DEF ApplyUpdate
<1>2. CASE link = None
  <2>1. SameHistory(mem'[t], mem[t])
    <3>1. SameHistory(Patched(mem[t], body, vec, retag, None), mem[t])
      BY TypeFacts, RowStepHistory
    <3>2. mem'[t] = Patched(mem[t], body, vec, retag, None)
      BY <1>1, <1>2
    <3> QED
      BY <3>1, <3>2
  <2>2. \A i \in Ids : SameHistory(mem'[i], mem[i])
    BY <1>1, <1>2, <2>1, NoneAssumption DEF SameHistory
  <2> QED
    BY <2>2, HistoryFrame
<1>3. CASE link \in Ids
  <2>1. Visible(t) /\ Visible(link) /\ mem[t].sup = None /\ mem[link].from < now
    BY <1>3, NoneAssumption DEF ApplyUpdate, CanLink, Editable
  <2>2. t # link
    BY <1>3, NoneAssumption DEF ApplyUpdate, CanLink, Ancestors
  <2>3. /\ Present(t) /\ mem[t].to = Never
        /\ Present(link) /\ mem[link].to = Never
    BY <2>1 DEF Visible, Active, Current
  <2>4. mem'[t].life = "row" /\ mem'[t].sup = link /\ mem'[t].from = now
    BY <1>1, <1>3, <2>3, TypeFacts, PatchedLinkFields DEF Present
  <2>5. /\ mem'[link].life = mem[link].life /\ mem'[link].sup = mem[link].sup
        /\ mem'[link].from = mem[link].from /\ mem'[link].to = now
    BY <1>1, <1>3, <2>2, TypeFacts, RowStepHistory
  <2>6. \A i \in Ids \ {link, t} : SameHistory(mem'[i], mem[i])
    BY <1>1 DEF SameHistory
  <2> QED
    BY <1>3, <2>1, <2>2, <2>3, <2>4, <2>5, <2>6, HistoryContinues
<1> QED
  BY <1>2, <1>3

LEMMA SucceedHistory ==
  ASSUME TypeOK, HistoryInv, NEW p \in Ids, NEW key, NEW body,
         Visible(p), mem[p].from < now, Succeed(p, key, body)
  PROVE  HistoryInv'
<1>1. PICK s \in Ids :
        /\ Unused(s)
        /\ mem' = [mem EXCEPT ![p] = Closed(@), ![s] = NewRow("semantic", key, body, p, Never)]
  BY DEF Succeed
<1>2. Present(p) /\ mem[p].to = Never
  BY VisibleFacts
<1>3. ~Present(s) /\ p # s /\ mem[s].sup = None
  BY <1>1, <1>2 DEF Unused, Present, HistoryInv, BareRowsUnlinked
<1>4. mem'[s].life = "row" /\ mem'[s].sup = p /\ mem'[s].from = now
  BY <1>1, NewRowFields DEF TypeOK
<1>5. /\ mem'[p].life = mem[p].life /\ mem'[p].sup = mem[p].sup
      /\ mem'[p].from = mem[p].from /\ mem'[p].to = now
  BY <1>1, <1>3, TypeFacts, RowStepHistory DEF TypeOK
<1>6. \A i \in Ids \ {p, s} : SameHistory(mem'[i], mem[i])
  BY <1>1 DEF TypeOK, SameHistory
<1> QED
  BY <1>2, <1>3, <1>4, <1>5, <1>6, HistoryContinues

LEMMA ReviseHistory ==
  ASSUME TypeOK, HistoryInv, NEW w \in Classifiers, ReviseCommit(w) \/ ReviseDecline(w)
  PROVE  HistoryInv'
<1>1. work[w].pred \in Ids
  <2>1. work[w] \in Work /\ work[w].op = "revise"
    BY TypeFacts, WorkersType DEF ReviseCommit, ReviseDecline
  <2> QED
    BY <2>1 DEF Work
<1>2. (\E dedupe \in BOOLEAN : StoreUnkeyed(work[w].body, Never, dedupe)) => HistoryInv'
  BY StoreUnkeyedHistory
<1>3. Supersedable(work[w].pred) /\ Succeed(work[w].pred, None, work[w].body) => HistoryInv'
  BY <1>1, SucceedHistory DEF Supersedable, Candidate
<1> QED
  BY <1>2, <1>3 DEF ReviseCommit, ReviseDecline

LEMMA ForgetHistory ==
  ASSUME TypeOK, HistoryInv, NEW S, Forget(S)
  PROVE  HistoryInv'
<1>1. \A i \in Ids : SameHistory(Tombstoned(mem[i]), mem[i])
  BY TypeFacts, RowStepHistory
<1>2. \A i \in Ids : SameHistory(mem'[i], mem[i])
  BY <1>1 DEF Forget, SameHistory
<1> QED
  BY <1>2, HistoryFrame

LEMMA MergeApplyHistory ==
  ASSUME TypeOK, HistoryInv, NEW w, NEW body, MergeApply(w, body)
  PROVE  HistoryInv'
<1> DEFINE members == {s.id : s \in work[w].seen}
<1>1. PICK c \in Ids :
        /\ Unused(c)
        /\ mem' = [i \in Ids |-> IF i = c THEN NewRow("consolidation", c, body, None, Never)
                                   ELSE IF i \in members THEN Linked(mem[i], c)
                                   ELSE mem[i]]
  BY DEF MergeApply
<1> HIDE DEF members
<1>2. mem'[c].life = "row" /\ mem'[c].sup = None
  <2>1. mem'[c] = NewRow("consolidation", c, body, None, Never)
    BY <1>1
  <2> QED
    BY <2>1, NewRowFields
<1>3. \A i \in Ids : SameHistory(Linked(mem[i], c), mem[i])
  BY TypeFacts, RowStepHistory
<1>4. \A i \in Ids \ {c} : SameHistory(mem'[i], mem[i])
  BY <1>1, <1>3 DEF SameHistory
<1> QED
  BY <1>1, <1>2, <1>4, HistoryBegins

LEMMA RestoreApplyHistory ==
  ASSUME TypeOK, HistoryInv, NEW w, RestoreApply(w)
  PROVE  HistoryInv'
<1>1. \A i \in Ids : SameHistory(Unlinked(mem[i]), mem[i]) /\ SameHistory(Tombstoned(mem[i]), mem[i])
  BY TypeFacts, RowStepHistory
<1> DEFINE c == work[w].canonical.id
           restored == {a.id : a \in work[w].members}
<1>2. \A i \in Ids : mem'[i] = IF i = c THEN Tombstoned(mem[i])
                                ELSE IF i \in restored THEN Unlinked(mem[i])
                                ELSE mem[i]
  BY DEF RestoreApply
<1> HIDE DEF c, restored
<1>3. \A i \in Ids : SameHistory(mem'[i], mem[i])
  BY <1>1, <1>2 DEF SameHistory
<1> QED
  BY <1>3, HistoryFrame

LEMMA TtlPurgeHistory ==
  ASSUME TypeOK, HistoryInv, NEW dead, TtlPurge(dead)
  PROVE  HistoryInv'
<1>1. ~TtlBlocked(dead) /\ Erase(dead)
  BY DEF TtlPurge
<1>2. \A s \in Ids \ dead : mem[s].sup \notin dead
  BY <1>1 DEF TtlBlocked
<1> QED
  BY <1>1, <1>2, HistoryErased

LEMMA PurgeApplyHistory ==
  ASSUME TypeOK, HistoryInv, NEW w, PurgeApply(w)
  PROVE  HistoryInv'
<1> DEFINE dead == {d.id : d \in work[w].dead}
<1>1. work[w].dead = PurgeCandidates /\ Erase(dead)
  BY DEF PurgeApply
<1>2. \A i \in dead : ~Referenced(i)
  BY <1>1 DEF PurgeCandidates
<1>3. \A s \in Ids \ dead : mem[s].sup \notin dead
  BY <1>2 DEF Referenced
<1> HIDE DEF dead
<1> QED
  BY <1>1, <1>3, HistoryErased

LEMMA TasteHistory ==
  ASSUME TypeOK, HistoryInv, NEW month \in Months, NEW body \in Bodies, TasteUpsert(month, body)
  PROVE  HistoryInv'
<1>1. ASSUME NEW i \in Ids, NEW retag \in BOOLEAN, Rewrite(i, month, body, retag)
      PROVE  HistoryInv'
  <2>1. SameHistory(Replaced(mem[i], body, mem[i].exp, retag), mem[i])
    BY TypeFacts, RowStepHistory
  <2>2. \A j \in Ids : SameHistory(mem'[j], mem[j])
    BY <1>1, <2>1 DEF Rewrite, TypeOK, SameHistory
  <2> QED
    BY <2>2, HistoryFrame
<1>2. \A p \in TasteSeries : p \in Ids /\ Visible(p)
  BY DEF TasteSeries
<1>3. \A p \in TasteSeries : mem[p].from < now /\ Succeed(p, month, body) => HistoryInv'
  BY <1>2, SucceedHistory
<1> QED
  BY <1>1, <1>3, InsertHistory DEF TasteUpsert

LEMMA HistoryInit == Init => HistoryInv
BY DEF Init, NoRow, HistoryInv, ContiguousHistory, SingleSuccessor, BareRowsUnlinked

LEMMA HistoryStep ==
  ASSUME TypeOK, HistoryInv, [Next]_vars
  PROVE  HistoryInv'
<1>1. ASSUME UNCHANGED mem
      PROVE  HistoryInv'
  BY <1>1, HistoryFrame DEF SameHistory
<1>3. CASE UNCHANGED vars
  BY <1>1, <1>3 DEF vars
<1>4. CASE Tick
  BY <1>1, <1>4 DEF Tick
<1>5. ASSUME NEW body, NEW ttl, NEW dedupe, Store(body, ttl, dedupe)
      PROVE  HistoryInv'
  BY <1>5, StoreUnkeyedHistory DEF Store
<1>6. ASSUME NEW w \in Editors, NEW t \in Ids, NEW body, UpdateRead(w, t, body)
      PROVE  HistoryInv'
  BY <1>1, <1>6 DEF UpdateRead
<1>7. ASSUME NEW w \in Editors, NEW retag \in BOOLEAN, NEW link \in Ids \cup {None},
             UpdateCommit(w, retag, link)
      PROVE  HistoryInv'
  <2>1. work[w] \in Work /\ work[w].op = "edit"
    BY <1>7, TypeFacts, WorkersType DEF UpdateCommit
  <2>2. work[w].id \in Ids
    BY <2>1 DEF Work
  <2> QED
    BY <1>7, <2>2, ApplyUpdateHistory DEF UpdateCommit
<1>8. ASSUME NEW t \in Ids, NEW retag \in BOOLEAN, NEW link \in Ids \cup {None},
             UpdateDirect(t, retag, link)
      PROVE  HistoryInv'
  BY <1>8, ApplyUpdateHistory DEF UpdateDirect
<1>9. ASSUME NEW w, Abandon(w)
      PROVE  HistoryInv'
  BY <1>1, <1>9 DEF Abandon
<1>10. ASSUME NEW w, NEW p, NEW body, StoreReview(w, p, body)
       PROVE  HistoryInv'
  BY <1>1, <1>10 DEF StoreReview
<1>11. ASSUME NEW w, NEW S, MergeLoad(w, S)
       PROVE  HistoryInv'
  BY <1>1, <1>11 DEF MergeLoad
<1>12. ASSUME NEW w, NEW c, RestorePreview(w, c)
       PROVE  HistoryInv'
  BY <1>1, <1>12 DEF RestorePreview
<1>13. ASSUME NEW w, PurgePreview(w)
       PROVE  HistoryInv'
  BY <1>1, <1>13 DEF PurgePreview
<1> QED
  BY <1>3, <1>4, <1>5, <1>6, <1>7, <1>8, <1>9, <1>10, <1>11, <1>12, <1>13, StoreKeyedHistory,
     ReviseHistory, ForgetHistory, MergeApplyHistory, RestoreApplyHistory, TtlPurgeHistory,
     PurgeApplyHistory, TasteHistory DEF Next

LEMMA HistoryInvariant == Spec => [](TypeOK /\ HistoryInv)
<1>1. Init => TypeOK /\ HistoryInv
  BY TypeInit, HistoryInit
<1>2. TypeOK /\ HistoryInv /\ [Next]_vars => (TypeOK /\ HistoryInv)'
  BY TypeStep, HistoryStep
<1> QED
  BY <1>1, <1>2, PTL DEF Spec

(***************************************************************************)
(* Links resolve and histories have no gap, whatever the interleaving of   *)
(* updates, revisions, forgetting, consolidation and the two purges.       *)
(***************************************************************************)
THEOREM HistoryIsContiguous == Spec => []ContiguousHistory
BY HistoryInvariant, PTL DEF HistoryInv

(***************************************************************************)
(* Ancestors is the smallest set closed under supersedes_id.  Its          *)
(* minimality takes the place of induction along a chain.                  *)
(***************************************************************************)
ClosedUnderSup(S) == \A i \in S : mem[i].sup # None => mem[i].sup \in S

LEMMA AncestorsLeast ==
  ASSUME NEW p \in Ids, NEW S \in SUBSET Ids, p \in S, ClosedUnderSup(S)
  PROVE  Ancestors(p) \subseteq S
BY DEF Ancestors, ClosedUnderSup

LEMMA AncestorsClosed ==
  ASSUME TypeOK, NEW p \in Ids
  PROVE  p \in Ancestors(p) /\ Ancestors(p) \subseteq Ids /\ ClosedUnderSup(Ancestors(p))
<1>1. \A i \in Ids : mem[i].sup \in Ids \cup {None}
  BY TypeFacts, RowFields
<1> QED
  BY <1>1 DEF Ancestors, ClosedUnderSup

\* Every ancestor but p itself is the predecessor of an ancestor.
LEMMA AncestorsStep ==
  ASSUME TypeOK, NEW p \in Ids, NEW x \in Ancestors(p), x # p
  PROVE  \E j \in Ancestors(p) : mem[j].sup = x
<1> DEFINE S == {i \in Ancestors(p) : i = p \/ \E j \in Ancestors(p) : mem[j].sup = i}
<1>1. p \in S /\ S \in SUBSET Ids
  BY AncestorsClosed
<1>2. ClosedUnderSup(S)
  BY AncestorsClosed DEF ClosedUnderSup
<1>3. Ancestors(p) \subseteq S
  <2> HIDE DEF S
  <2> QED
    BY <1>1, <1>2, AncestorsLeast
<1> QED
  BY <1>3

\* Whatever precedes b had ended when b began.
LEMMA AncestorsEnded ==
  ASSUME TypeOK, HistoryInv, NEW b \in Ids, NEW a \in Ancestors(b), a # b
  PROVE  Disjoint(a, b)
<1> DEFINE Ended(i) == mem[i].to # Never /\ mem[i].from < mem[i].to /\ mem[i].to <= mem[b].from
           S == {i \in Ancestors(b) : i = b \/ Ended(i)}
<1>1. \A i \in Ids : mem[i].sup \in Ids \cup {None} /\ mem[i].from \in Nat /\ mem[i].to \in Nat \cup {Never}
  BY TypeFacts, RowFields
<1>2. b \in S /\ S \in SUBSET Ids
  BY AncestorsClosed
<1>3. ASSUME NEW i \in S, mem[i].sup # None
      PROVE  mem[i].sup \in S
  <2> DEFINE q == mem[i].sup
  <2>1. i \in Ids /\ i \in Ancestors(b)
    BY <1>2
  <2>2. q \in Ids /\ q \in Ancestors(b)
    BY <1>1, <1>3, <2>1, AncestorsClosed DEF ClosedUnderSup
  <2>3. mem[q].from < mem[q].to /\ mem[q].to = mem[i].from
    BY <1>3, <2>1 DEF HistoryInv, ContiguousHistory
  <2>4. mem[i].from <= mem[b].from
    <3>1. CASE i = b
      BY <3>1, <1>1
    <3>2. CASE Ended(i)
      <4>1. mem[i].from \in Int /\ mem[i].to \in Int /\ mem[b].from \in Int
        BY <1>1, <2>1
      <4> QED
        BY <3>2, <4>1
    <3> QED
      BY <3>1, <3>2
  <2>5. mem[q].from \in Nat /\ mem[q].to \in Int /\ mem[i].from \in Nat /\ mem[b].from \in Nat
    BY <1>1, <2>1, <2>2
  <2>6. Ended(q)
    BY <2>3, <2>4, <2>5
  <2> QED
    BY <2>2, <2>6
<1>4. ClosedUnderSup(S)
  BY <1>3 DEF ClosedUnderSup
<1>5. Ancestors(b) \subseteq S
  <2> HIDE DEF S
  <2> QED
    BY <1>2, <1>4, AncestorsLeast
<1> QED
  BY <1>5 DEF Disjoint

\* Histories do not branch: of two versions of one belief, one precedes the other.
LEMMA AncestorsLinear ==
  ASSUME TypeOK, HistoryInv, NEW a \in Ids, NEW b \in Ids,
         a \notin Ancestors(b), b \notin Ancestors(a)
  PROVE  Ancestors(a) \cap Ancestors(b) = {}
<1> DEFINE S == Ancestors(a) \ Ancestors(b)
<1>1. a \in S /\ S \in SUBSET Ids
  BY AncestorsClosed
<1>2. ASSUME NEW i \in S, mem[i].sup # None
      PROVE  mem[i].sup \in S
  <2> DEFINE q == mem[i].sup
  <2>1. q \in Ancestors(a) /\ i \in Ids
    BY <1>1, <1>2, AncestorsClosed DEF ClosedUnderSup
  <2>2. ASSUME q \in Ancestors(b)
        PROVE  FALSE
    <3>1. q # b
      BY <2>1
    <3>2. PICK j \in Ancestors(b) : mem[j].sup = q
      BY <2>2, <3>1, AncestorsStep
    <3>3. j \in Ids
      BY AncestorsClosed
    <3>4. i = j
      BY <1>2, <2>1, <3>2, <3>3 DEF HistoryInv, SingleSuccessor
    <3> QED
      BY <3>2, <3>4
  <2> QED
    BY <2>1, <2>2
<1>3. ClosedUnderSup(S)
  BY <1>2 DEF ClosedUnderSup
<1>4. Ancestors(a) \subseteq S
  <2> HIDE DEF S
  <2> QED
    BY <1>1, <1>3, AncestorsLeast
<1> QED
  BY <1>4

LEMMA HistoryDisjoint ==
  ASSUME TypeOK, HistoryInv
  PROVE  OneVersionAtAnyInstant
<1> SUFFICES ASSUME NEW a \in Ids, NEW b \in Ids, a # b, Ancestors(a) \cap Ancestors(b) # {}
             PROVE  Disjoint(a, b) \/ Disjoint(b, a)
  BY DEF OneVersionAtAnyInstant
<1>1. a \in Ancestors(b) \/ b \in Ancestors(a)
  BY AncestorsLinear
<1> QED
  BY <1>1, AncestorsEnded

(***************************************************************************)
(* At most one version of a belief is valid at any instant: histories of   *)
(* any length neither branch nor overlap.                                  *)
(***************************************************************************)
THEOREM OneVersionValid == Spec => []OneVersionAtAnyInstant
BY HistoryInvariant, HistoryDisjoint, PTL

-------------------------------------------------------------------------------
(***************************************************************************)
(* What one step may do to one row.  Every operation is a few of these, so *)
(* that a fact about rows is proved once for each of them.                 *)
(***************************************************************************)
Begins(i) ==
  /\ Unused(i)
  /\ \E key \in Keys \cup Months \cup {None}, body \in Bodies, sup \in Ids \cup {None}, exp \in Time :
       mem'[i] = NewRow("semantic", key, body, sup, exp)

BeginsCanonical(i) ==
  Unused(i) /\ \E body \in Bodies : mem'[i] = NewRow("consolidation", i, body, None, Never)

Erasable(i) ==
  \/ Expired(i)
  \/ /\ mem[i].del # Never /\ mem[i].del + Retention <= now
     /\ \E w \in Purgers : work[w].op = "purge" /\ [id |-> i, del |-> mem[i].del] \in work[w].dead

IsReplaced(i) ==
  /\ Present(i) /\ mem[i].del = Never
  /\ \/ Current(i) /\ mem[i].into = None /\ mem[i].key \in Keys
     \/ mem[i].key \in Months
  /\ \E body \in Bodies, exp \in Time, retag \in BOOLEAN :
       mem'[i] = Replaced(mem[i], body, exp, retag)

\* A patch that changes the content carries an edit made at the revision it meets.
CarriedBy(w, i, body, vec) ==
  /\ work[w].op = "edit" /\ work[w].id = i /\ work[w].rev = mem[i].rev
  /\ work[w].body = body /\ work[w].vec = vec

IsPatched(i) ==
  /\ Editable(i)
  /\ \E body \in Bodies \cup {None}, vec \in Bodies \cup {None}, retag \in BOOLEAN,
        link \in Ids \cup {None} :
       /\ \/ body = mem[i].body
          \/ body \in Bodies /\ \E w \in Workers : CarriedBy(w, i, body, vec)
       /\ mem'[i] = Patched(mem[i], body, vec, retag, link)

IsRetagged(i) == Visible(i) /\ mem'[i] = [mem[i] EXCEPT !.rev = @ + 1]
IsClosed(i) == Visible(i) /\ mem'[i] = Closed(mem[i])
IsTombstoned(i) == Present(i) /\ mem'[i] = Tombstoned(mem[i])
IsLinked(i) == Eligible(i) /\ \E c \in Ids : mem'[i] = Linked(mem[i], c)
IsUnlinked(i) == mem[i].into # None /\ mem'[i] = Unlinked(mem[i])
IsErased(i) == Present(i) /\ Erasable(i) /\ mem'[i] = Erased

\* What stores, edits, successions and the taste profile do.
Writes(i) ==
  \/ mem'[i] = mem[i]
  \/ Begins(i)
  \/ IsReplaced(i)
  \/ IsPatched(i)
  \/ IsRetagged(i)
  \/ IsClosed(i)

Moves(i) ==
  \/ Writes(i)
  \/ BeginsCanonical(i)
  \/ IsTombstoned(i)
  \/ IsLinked(i)
  \/ IsUnlinked(i)
  \/ IsErased(i)

LEMMA InsertWrites ==
  ASSUME TypeOK, NEW key \in Keys \cup Months \cup {None}, NEW body \in Bodies, NEW exp \in Time,
         Insert(key, body, exp)
  PROVE  \A i \in Ids : Writes(i)
<1>1. PICK c \in Ids : Unused(c) /\ mem' = [mem EXCEPT ![c] = NewRow("semantic", key, body, None, exp)]
  BY DEF Insert
<1>2. Begins(c)
  BY <1>1 DEF Begins, TypeOK
<1>3. \A i \in Ids \ {c} : mem'[i] = mem[i]
  BY <1>1 DEF TypeOK
<1> QED
  BY <1>2, <1>3 DEF Writes

LEMMA StoreUnkeyedWrites ==
  ASSUME TypeOK, NEW body \in Bodies, NEW ttl \in Ttls \cup {Never}, NEW dedupe \in BOOLEAN,
         StoreUnkeyed(body, ttl, dedupe)
  PROVE  \A i \in Ids : Writes(i)
<1>1. CASE Boost(body)
  <2>1. PICK j \in Ids, retag \in BOOLEAN :
          /\ Duplicate(j, body)
          /\ mem' = [mem EXCEPT ![j].rev = IF retag THEN @ + 1 ELSE @]
    BY <1>1 DEF Boost
  <2>2. Visible(j) /\ mem[j] \in Row
    BY <2>1, TypeFacts DEF Duplicate
  <2>3. mem'[j] = mem[j] \/ IsRetagged(j)
    BY <2>1, <2>2 DEF IsRetagged, TypeOK, Row
  <2>4. \A i \in Ids \ {j} : mem'[i] = mem[i]
    BY <2>1 DEF TypeOK
  <2> QED
    BY <2>3, <2>4 DEF Writes
<1>2. CASE Insert(None, body, ExpiryOf(ttl))
  BY <1>2, InsertWrites, ExpiryType, TypeFacts
<1> QED
  BY <1>1, <1>2 DEF StoreUnkeyed

LEMMA StoreKeyedWrites ==
  ASSUME TypeOK, NEW key \in Keys, NEW body \in Bodies, NEW ttl \in Ttls \cup {Never},
         StoreKeyed(key, body, ttl)
  PROVE  \A i \in Ids : Writes(i)
<1>1. ExpiryOf(ttl) \in Time
  BY ExpiryType, TypeFacts
<1>2. Insert(key, body, ExpiryOf(ttl)) => \A i \in Ids : Writes(i)
  BY <1>1, InsertWrites
<1>3. ASSUME NEW j \in Ids, NEW retag \in BOOLEAN, ReplaceKeyed(j, key, body, ExpiryOf(ttl), retag)
      PROVE  \A i \in Ids : Writes(i)
  <2>1. mem'[j] = Replaced(mem[j], body, ExpiryOf(ttl), retag)
    BY <1>3 DEF ReplaceKeyed, TypeOK
  <2>2. IsReplaced(j)
    BY <1>1, <1>3, <2>1 DEF ReplaceKeyed, Holds, IsReplaced
  <2>3. \A i \in Ids \ {j} : mem'[i] = mem[i]
    BY <1>3 DEF ReplaceKeyed, TypeOK
  <2> QED
    BY <2>2, <2>3 DEF Writes
<1> QED
  BY <1>2, <1>3 DEF StoreKeyed

LEMMA ApplyUpdateWrites ==
  ASSUME TypeOK, NEW t \in Ids, NEW body \in Bodies \cup {None}, NEW vec \in Bodies \cup {None},
         NEW retag \in BOOLEAN, NEW link \in Ids \cup {None}, ApplyUpdate(t, body, vec, retag, link),
         body = mem[t].body \/ (body \in Bodies /\ \E w \in Workers : CarriedBy(w, t, body, vec))
  PROVE  \A i \in Ids : Writes(i)
<1>1. IsPatched(t)
  BY DEF ApplyUpdate, IsPatched
<1>2. ASSUME link \in Ids, link # t
      PROVE  IsClosed(link)
  BY <1>2, NoneAssumption DEF ApplyUpdate, IsClosed, CanLink, Editable
<1>3. \A i \in Ids \ {t, link} : mem'[i] = mem[i]
  BY DEF ApplyUpdate
<1> QED
  BY <1>1, <1>2, <1>3 DEF Writes

LEMMA SucceedWrites ==
  ASSUME TypeOK, NEW p \in Ids, NEW key \in Keys \cup Months \cup {None}, NEW body \in Bodies,
         Visible(p), Succeed(p, key, body)
  PROVE  \A i \in Ids : Writes(i)
<1>1. PICK s \in Ids :
        /\ Unused(s)
        /\ mem' = [mem EXCEPT ![p] = Closed(@), ![s] = NewRow("semantic", key, body, p, Never)]
  BY DEF Succeed
<1>2. p # s
  BY <1>1 DEF Visible, Active, Present, Unused
<1>3. IsClosed(p)
  BY <1>1, <1>2 DEF IsClosed, TypeOK
<1>4. Begins(s)
  BY <1>1 DEF Begins, TypeOK, Time
<1>5. \A i \in Ids \ {p, s} : mem'[i] = mem[i]
  BY <1>1 DEF TypeOK
<1> QED
  BY <1>3, <1>4, <1>5 DEF Writes

LEMMA ReviseWrites ==
  ASSUME TypeOK, NEW w \in Classifiers, ReviseCommit(w) \/ ReviseDecline(w)
  PROVE  \A i \in Ids : Writes(i)
<1>1. work[w].pred \in Ids /\ work[w].body \in Bodies
  <2>1. work[w] \in Work /\ work[w].op = "revise"
    BY TypeFacts, WorkersType DEF ReviseCommit, ReviseDecline
  <2> QED
    BY <2>1 DEF Work
<1>2. (\E dedupe \in BOOLEAN : StoreUnkeyed(work[w].body, Never, dedupe)) => \A i \in Ids : Writes(i)
  BY <1>1, StoreUnkeyedWrites
<1>3. Supersedable(work[w].pred) /\ Succeed(work[w].pred, None, work[w].body) => \A i \in Ids : Writes(i)
  BY <1>1, SucceedWrites DEF Supersedable, Candidate
<1> QED
  BY <1>2, <1>3 DEF ReviseCommit, ReviseDecline

LEMMA ForgetMoves ==
  ASSUME TypeOK, NEW S, Forget(S)
  PROVE  \A i \in Ids : Moves(i)
BY DEF Forget, Moves, Writes, IsTombstoned, Active

LEMMA MergeApplyMoves ==
  ASSUME TypeOK, NEW w, NEW body \in Bodies, MergeApply(w, body)
  PROVE  \A i \in Ids : Moves(i)
<1> DEFINE members == {s.id : s \in work[w].seen}
<1>1. PICK c \in Ids :
        /\ Unused(c)
        /\ mem' = [i \in Ids |-> IF i = c THEN NewRow("consolidation", c, body, None, Never)
                                   ELSE IF i \in members THEN Linked(mem[i], c)
                                   ELSE mem[i]]
  BY DEF MergeApply
<1>2. \A i \in members : Eligible(i)
  BY DEF MergeApply, Fresh
<1> HIDE DEF members
<1>3. BeginsCanonical(c)
  BY <1>1 DEF BeginsCanonical
<1>4. \A i \in Ids \ {c} : i \in members => IsLinked(i)
  BY <1>1, <1>2 DEF IsLinked
<1>5. \A i \in Ids \ {c} : i \notin members => mem'[i] = mem[i]
  BY <1>1
<1> QED
  BY <1>3, <1>4, <1>5 DEF Moves, Writes

LEMMA RestoreApplyMoves ==
  ASSUME TypeOK, NEW w \in Operators, RestoreApply(w)
  PROVE  \A i \in Ids : Moves(i)
<1> DEFINE c == work[w].canonical.id
           restored == {a.id : a \in work[w].members}
<1>1. /\ \A i \in Ids : mem'[i] = IF i = c THEN Tombstoned(mem[i])
                                   ELSE IF i \in restored THEN Unlinked(mem[i])
                                   ELSE mem[i]
      /\ Present(c)
      /\ \A i \in restored : mem[i].into = c
  BY DEF RestoreApply
<1>2. c \in Ids
  <2>1. work[w] \in Work /\ work[w].op = "restore"
    BY TypeFacts, WorkersType DEF RestoreApply
  <2> QED
    BY <2>1 DEF Work, Approval
<1> HIDE DEF c, restored
<1>3. IsTombstoned(c)
  BY <1>1, <1>2 DEF IsTombstoned
<1>4. \A i \in Ids \ {c} : i \in restored => IsUnlinked(i)
  BY <1>1, <1>2, NoneAssumption DEF IsUnlinked
<1>5. \A i \in Ids \ {c} : i \notin restored => mem'[i] = mem[i]
  BY <1>1
<1> QED
  BY <1>3, <1>4, <1>5 DEF Moves, Writes

LEMMA EraseMoves ==
  ASSUME TypeOK, NEW dead, \A i \in dead : Present(i) /\ Erasable(i), Erase(dead)
  PROVE  \A i \in Ids : Moves(i)
BY DEF Erase, Moves, Writes, IsErased

\* The rows that a tombstone purge erases.
LEMMA PurgedTombstones ==
  ASSUME NEW w, PurgeApply(w)
  PROVE  LET dead == {d.id : d \in work[w].dead}
         IN  /\ Erase(dead)
             /\ dead = {t \in Tombstones : ~Referenced(t)}
             /\ \A i \in dead : [id |-> i, del |-> mem[i].del] \in work[w].dead
<1> DEFINE unreferenced == {t \in Tombstones : ~Referenced(t)}
           entry(i) == [id |-> i, del |-> mem[i].del]
<1>1. /\ Erase({d.id : d \in work[w].dead})
      /\ work[w].dead = {entry(i) : i \in unreferenced}
  BY DEF PurgeApply, PurgeCandidates
<1>2. \A i : entry(i).id = i
  OBVIOUS
<1> HIDE DEF unreferenced, entry
<1>3. {d.id : d \in work[w].dead} = unreferenced
  BY <1>1, <1>2
<1>4. \A i \in unreferenced : entry(i) \in work[w].dead
  BY <1>1
<1> QED
  BY <1>1, <1>3, <1>4 DEF unreferenced, entry

LEMMA PurgeMoves ==
  ASSUME TypeOK, NEW w \in Purgers, PurgeApply(w)
  PROVE  \A i \in Ids : Moves(i)
<1> DEFINE dead == {d.id : d \in work[w].dead}
<1>1. /\ Erase(dead)
      /\ dead = {t \in Tombstones : ~Referenced(t)}
      /\ \A i \in dead : [id |-> i, del |-> mem[i].del] \in work[w].dead
  BY PurgedTombstones
<1> HIDE DEF dead
<1>2. \A i \in dead : Present(i) /\ Erasable(i)
  BY <1>1 DEF Tombstones, Erasable, PurgeApply
<1> QED
  BY <1>1, <1>2, EraseMoves

LEMMA TasteWrites ==
  ASSUME TypeOK, NEW month \in Months, NEW body \in Bodies, TasteUpsert(month, body)
  PROVE  \A i \in Ids : Writes(i)
<1>1. ASSUME NEW j \in Ids, NEW retag \in BOOLEAN, Rewrite(j, month, body, retag)
      PROVE  \A i \in Ids : Writes(i)
  <2>1. mem[j].exp \in Time
    BY TypeFacts DEF Row
  <2>2. IsReplaced(j)
    BY <1>1, <2>1 DEF Rewrite, Holds, IsReplaced, TypeOK
  <2>3. \A i \in Ids \ {j} : mem'[i] = mem[i]
    BY <1>1 DEF Rewrite, TypeOK
  <2> QED
    BY <2>2, <2>3 DEF Writes
<1>2. \A p \in TasteSeries : p \in Ids /\ Visible(p)
  BY DEF TasteSeries
<1>3. \A p \in TasteSeries : Succeed(p, month, body) => \A i \in Ids : Writes(i)
  BY <1>2, SucceedWrites
<1>4. Insert(month, body, Never) => \A i \in Ids : Writes(i)
  BY InsertWrites DEF Time
<1> QED
  BY <1>1, <1>3, <1>4 DEF TasteUpsert

(***************************************************************************)
(* One step of the program writes rows and no membership, or is one of the *)
(* five operations that hide, show, forget or erase.                       *)
(***************************************************************************)
StepWrites == (\A i \in Ids : Writes(i)) /\ UNCHANGED memberships

LEMMA StepKinds ==
  ASSUME TypeOK, [Next]_vars
  PROVE  \/ StepWrites
         \/ \E S \in SUBSET Ids : Forget(S)
         \/ \E w \in Mergers, body \in Bodies : MergeApply(w, body)
         \/ \E w \in Operators : RestoreApply(w)
         \/ \E dead \in SUBSET Ids : TtlPurge(dead)
         \/ \E w \in Purgers : PurgeApply(w)
<1>1. UNCHANGED <<mem, memberships>> => StepWrites
  BY DEF StepWrites, Writes
<1>2. ASSUME NEW w \in Editors, NEW link \in Ids \cup {None}, NEW retag \in BOOLEAN,
             UpdateCommit(w, retag, link)
      PROVE  StepWrites
  <2>1. work[w] \in Work /\ work[w].op = "edit"
    BY <1>2, TypeFacts, WorkersType DEF UpdateCommit
  <2>2. work[w].id \in Ids /\ work[w].body \in Bodies /\ work[w].vec \in Bodies \cup {None}
    BY <2>1 DEF Work
  <2>3. CarriedBy(w, work[w].id, work[w].body, work[w].vec)
    BY <1>2 DEF UpdateCommit, Unchanged, CarriedBy
  <2> QED
    BY <1>2, <2>2, <2>3, ApplyUpdateWrites, WorkersType DEF UpdateCommit, StepWrites
<1>3. ASSUME NEW t \in Ids, NEW link \in Ids \cup {None}, NEW retag \in BOOLEAN,
             UpdateDirect(t, retag, link)
      PROVE  StepWrites
  <2>1. mem[t].body \in Bodies \cup {None}
    BY TypeFacts, RowFields
  <2> QED
    BY <1>3, <2>1, ApplyUpdateWrites DEF UpdateDirect, StepWrites
<1>4. ASSUME NEW body \in Bodies, NEW ttl \in Ttls \cup {Never}, NEW dedupe \in BOOLEAN,
             Store(body, ttl, dedupe)
      PROVE  StepWrites
  BY <1>4, StoreUnkeyedWrites DEF Store, StepWrites
<1>5. ASSUME NEW key \in Keys, NEW body \in Bodies, NEW ttl \in Ttls \cup {Never},
             StoreKeyed(key, body, ttl)
      PROVE  StepWrites
  <2>1. \A i \in Ids : Writes(i)
    BY <1>5, StoreKeyedWrites
  <2> QED
    BY <1>5, <2>1 DEF StoreKeyed, StepWrites
<1>6. ASSUME NEW w \in Classifiers, ReviseCommit(w) \/ ReviseDecline(w)
      PROVE  StepWrites
  <2>1. \A i \in Ids : Writes(i)
    BY <1>6, ReviseWrites
  <2> QED
    BY <1>6, <2>1 DEF ReviseCommit, ReviseDecline, StepWrites
<1>7. ASSUME NEW month \in Months, NEW body \in Bodies, TasteUpsert(month, body)
       PROVE  StepWrites
  <2>1. \A i \in Ids : Writes(i)
    BY <1>7, TasteWrites
  <2> QED
    BY <1>7, <2>1 DEF TasteUpsert, StepWrites
<1>8. /\ Tick => StepWrites
      /\ \A w, t, body : UpdateRead(w, t, body) => StepWrites
      /\ \A w : Abandon(w) => StepWrites
      /\ \A w, p, body : StoreReview(w, p, body) => StepWrites
      /\ \A w, S : MergeLoad(w, S) => StepWrites
      /\ \A w, c : RestorePreview(w, c) => StepWrites
      /\ \A w : PurgePreview(w) => StepWrites
      /\ UNCHANGED vars => StepWrites
  BY <1>1 DEF Tick, UpdateRead, Abandon, StoreReview, MergeLoad, RestorePreview, PurgePreview, vars
<1> QED
  BY <1>2, <1>3, <1>4, <1>5, <1>6, <1>7, <1>8 DEF Next

LEMMA StepMoves ==
  ASSUME TypeOK, [Next]_vars
  PROVE  \A i \in Ids : Moves(i)
<1>1. StepWrites => \A i \in Ids : Moves(i)
  BY DEF StepWrites, Moves
<1>2. ASSUME NEW dead, TtlPurge(dead)
      PROVE  \A i \in Ids : Moves(i)
  BY <1>2, EraseMoves DEF TtlPurge, TtlBatches, Expired, Erasable
<1> QED
  BY <1>1, <1>2, StepKinds, ForgetMoves, MergeApplyMoves, RestoreApplyMoves, PurgeMoves

(***************************************************************************)
(* What each constructor does to every field of a row.                     *)
(***************************************************************************)
LEMMA NewRowFieldsAll ==
  ASSUME NEW kind, NEW key, NEW body, NEW sup, NEW exp
  PROVE  LET q == NewRow(kind, key, body, sup, exp)
         IN  /\ q.life = "row" /\ q.kind = kind /\ q.key = key /\ q.body = body /\ q.vec = body
             /\ q.sup = sup /\ q.exp = exp /\ q.into = None /\ q.rev = 0
             /\ q.to = Never /\ q.del = Never
BY DEF NewRow, NoRow

LEMMA ErasedFields ==
  /\ Erased.life = "gone" /\ Erased.body = None /\ Erased.vec = None /\ Erased.sup = None
  /\ Erased.into = None /\ Erased.to = Never /\ Erased.exp = Never /\ Erased.del = Never
BY DEF Erased, NoRow

LEMMA ReplacedFields ==
  ASSUME NEW r \in Row, NEW body, NEW exp, NEW retag \in BOOLEAN
  PROVE  LET q == Replaced(r, body, exp, retag)
         IN  /\ q.life = r.life /\ q.kind = r.kind /\ q.key = r.key /\ q.sup = r.sup
             /\ q.from = r.from /\ q.to = r.to /\ q.into = r.into /\ q.del = r.del
             /\ q.body = body /\ q.vec = body /\ q.exp = exp
             /\ r.rev <= q.rev /\ (body # r.body => r.rev < q.rev)
<1>1. r.rev \in Nat
  BY DEF Row
<1> QED
  BY <1>1 DEF Replaced, Row

\* Fields that closing, linking, unlinking and tombstoning a row all keep.
Unworded(r, q) ==
  /\ q.life = r.life /\ q.kind = r.kind /\ q.key = r.key /\ q.body = r.body /\ q.vec = r.vec
  /\ q.sup = r.sup /\ q.from = r.from /\ q.exp = r.exp

(***************************************************************************)
(* What any step leaves of a row that was there before it.                 *)
(***************************************************************************)
LEMMA MovedFields ==
  ASSUME TypeOK, NEW i \in Ids, Moves(i)
  PROVE  \/ Begins(i)
         \/ BeginsCanonical(i)
         \/ IsErased(i)
         \/ /\ mem'[i].life = mem[i].life
            /\ mem'[i].kind = mem[i].kind /\ mem'[i].key = mem[i].key
            /\ mem[i].rev <= mem'[i].rev
            /\ mem'[i].body # mem[i].body => mem[i].rev < mem'[i].rev /\ mem'[i].body \in Bodies
            /\ mem[i].del # Never => mem'[i].del = mem[i].del
<1>1. mem[i] \in Row /\ mem[i].rev \in Nat
  BY TypeFacts, RowFields
<1>2. CASE mem'[i] = mem[i]
  BY <1>1, <1>2
<1>3. CASE IsReplaced(i)
  <2>1. PICK body \in Bodies, exp \in Time, retag \in BOOLEAN :
          mem'[i] = Replaced(mem[i], body, exp, retag)
    BY <1>3 DEF IsReplaced
  <2> DEFINE q == Replaced(mem[i], body, exp, retag)
  <2>2. /\ q.life = mem[i].life /\ q.kind = mem[i].kind /\ q.key = mem[i].key
        /\ q.del = mem[i].del /\ q.body = body
        /\ mem[i].rev <= q.rev /\ (body # mem[i].body => mem[i].rev < q.rev)
    BY <1>1, ReplacedFields
  <2> HIDE DEF q
  <2> QED
    BY <2>1, <2>2 DEF q
<1>4. CASE IsPatched(i)
  <2>1. PICK body \in Bodies \cup {None}, vec \in Bodies \cup {None}, retag \in BOOLEAN,
             link \in Ids \cup {None} :
          /\ body = mem[i].body \/ body \in Bodies
          /\ mem'[i] = Patched(mem[i], body, vec, retag, link)
    BY <1>4 DEF IsPatched
  <2> DEFINE q == Patched(mem[i], body, vec, retag, link)
  <2>2. /\ q.life = mem[i].life /\ q.kind = mem[i].kind /\ q.key = mem[i].key
        /\ q.del = mem[i].del /\ q.body = body
        /\ mem[i].rev <= q.rev /\ (body # mem[i].body => mem[i].rev < q.rev)
    BY <1>1 DEF Patched, Row
  <2> HIDE DEF q
  <2> QED
    BY <2>1, <2>2 DEF q
<1>5. CASE IsRetagged(i) \/ IsClosed(i) \/ IsTombstoned(i) \/ IsUnlinked(i)
  <2>1. \/ mem'[i] = [mem[i] EXCEPT !.rev = @ + 1] \/ mem'[i] = Closed(mem[i])
        \/ mem'[i] = Tombstoned(mem[i]) \/ mem'[i] = Unlinked(mem[i])
    BY <1>5 DEF IsRetagged, IsClosed, IsTombstoned, IsUnlinked
  <2>2. CASE mem'[i] = [mem[i] EXCEPT !.rev = @ + 1]
    BY <1>1, <2>2 DEF Row
  <2>3. CASE mem'[i] = Closed(mem[i])
    BY <1>1, <2>3 DEF Closed, Row
  <2>4. CASE mem'[i] = Tombstoned(mem[i])
    BY <1>1, <2>4 DEF Tombstoned, Row
  <2>5. CASE mem'[i] = Unlinked(mem[i])
    BY <1>1, <2>5 DEF Unlinked, Row
  <2> QED
    BY <2>1, <2>2, <2>3, <2>4, <2>5
<1>6. CASE IsLinked(i)
  BY <1>1, <1>6 DEF IsLinked, Linked, Row
<1> QED
  BY <1>2, <1>3, <1>4, <1>5, <1>6 DEF Moves, Writes

(***************************************************************************)
(* A row that disappears had expired, or had been a tombstone for the      *)
(* whole retention period on a list an operator approved.                  *)
(***************************************************************************)
THEOREM ErasureIsExpiredOrApproved == Spec => OnlyExpiredOrApprovedErased
<1>1. ASSUME TypeOK, [Next]_vars, NEW i \in Ids, Present(i), mem'[i].life = "gone"
      PROVE  Erasable(i)
  <2>1. Moves(i)
    BY <1>1, StepMoves
  <2> QED
    BY <1>1, <2>1, MovedFields DEF Begins, BeginsCanonical, Present, Unused, IsErased
<1>2. TypeOK /\ [Next]_vars =>
        \A i \in Ids : Present(i) /\ mem'[i].life = "gone" => Erasable(i)
  BY <1>1
<1> QED
  BY <1>2, TypeCorrect, PTL DEF Spec, OnlyExpiredOrApprovedErased, Erasable

(***************************************************************************)
(* Embeddings.  An edit carries its embedding across two transactions; at  *)
(* the revision it was read at, the embedding belongs to the content that  *)
(* will be stored, and a later revision makes the commit refuse.           *)
(***************************************************************************)
EditsFresh ==
  \A w \in Workers : work[w].op = "edit" =>
    LET r == mem[work[w].id]
    IN  /\ r.life # "none"
        /\ r.life = "row" =>
             /\ work[w].rev <= r.rev
             /\ r.rev = work[w].rev =>
                  work[w].vec = IF work[w].body = r.body THEN None ELSE work[w].body
VectorInv == VectorMatchesBody /\ EditsFresh

\* What may become of a client's work in one step.
WorkMoves(w) ==
  \/ work'[w] = work[w]
  \/ work'[w] = Idle
  \/ work'[w].op \in {"revise", "purge"}
  \/ \E t \in Ids, body \in Bodies : UpdateRead(w, t, body)
  \/ \E S \in SUBSET Ids : MergeLoad(w, S)
  \/ \E c \in Ids : RestorePreview(w, c)

LEMMA StepWork ==
  ASSUME TypeOK, [Next]_vars, NEW w \in Workers
  PROVE  WorkMoves(w)
<1>1. work \in [Workers -> Work]
  BY DEF TypeOK
<1>2. \A v, job : work' = [work EXCEPT ![v] = job] => work'[w] = work[w] \/ (v = w /\ work'[w] = job)
  BY <1>1
<1>3. \A v : Finishes(v) => WorkMoves(w)
  BY <1>2 DEF Finishes, WorkMoves
<1>4. \A v, job : Starts(v, job) => work'[w] = work[w] \/ (v = w /\ work'[w] = job)
  BY <1>2 DEF Starts
<1>5. UNCHANGED work => WorkMoves(w)
  BY DEF WorkMoves
<1>6. \A v : \A t \in Ids, body \in Bodies : UpdateRead(v, t, body) => WorkMoves(w)
  <2>1. \A v, t, body : UpdateRead(v, t, body) => work'[w] = work[w] \/ v = w
    BY <1>4 DEF UpdateRead
  <2> QED
    BY <2>1 DEF WorkMoves
<1>7. \A v : \A S \in SUBSET Ids : MergeLoad(v, S) => WorkMoves(w)
  <2>1. \A v, S : MergeLoad(v, S) => work'[w] = work[w] \/ v = w
    BY <1>4 DEF MergeLoad
  <2> QED
    BY <2>1 DEF WorkMoves
<1>8. \A v : \A c \in Ids : RestorePreview(v, c) => WorkMoves(w)
  <2>1. \A v, c : RestorePreview(v, c) => work'[w] = work[w] \/ v = w
    BY <1>4 DEF RestorePreview
  <2> QED
    BY <2>1 DEF WorkMoves
<1>9. /\ \A v, p, body : StoreReview(v, p, body) => WorkMoves(w)
      /\ \A v : PurgePreview(v) => WorkMoves(w)
  <2>1. ASSUME NEW v, NEW p, NEW body, StoreReview(v, p, body)
        PROVE  WorkMoves(w)
    <3> DEFINE job == [op |-> "revise", pred |-> p, body |-> body]
    <3>1. Starts(v, job) /\ job.op = "revise"
      BY <2>1 DEF StoreReview
    <3> HIDE DEF job
    <3> QED
      BY <1>4, <3>1 DEF WorkMoves
  <2>2. ASSUME NEW v, PurgePreview(v)
        PROVE  WorkMoves(w)
    <3> DEFINE job == [op |-> "purge", dead |-> PurgeCandidates, blocked |-> PurgeBlocked]
    <3>1. Starts(v, job) /\ job.op = "purge"
      BY <2>2 DEF PurgePreview
    <3> HIDE DEF job
    <3> QED
      BY <1>4, <3>1 DEF WorkMoves
  <2> QED
    BY <2>1, <2>2
<1>10. /\ \A v, retag, link : UpdateCommit(v, retag, link) => WorkMoves(w)
       /\ \A v : Abandon(v) => WorkMoves(w)
       /\ \A v : ReviseCommit(v) \/ ReviseDecline(v) => WorkMoves(w)
       /\ \A v, body : MergeApply(v, body) => WorkMoves(w)
       /\ \A v : RestoreApply(v) => WorkMoves(w)
       /\ \A v : PurgeApply(v) => WorkMoves(w)
  BY <1>3 DEF UpdateCommit, Abandon, ReviseCommit, ReviseDecline, MergeApply, RestoreApply, PurgeApply
<1>11. /\ Tick => WorkMoves(w)
       /\ \A body, ttl, dedupe : Store(body, ttl, dedupe) => WorkMoves(w)
       /\ \A key, body, ttl : StoreKeyed(key, body, ttl) => WorkMoves(w)
       /\ \A t, retag, link : UpdateDirect(t, retag, link) => WorkMoves(w)
       /\ \A S : Forget(S) => WorkMoves(w)
       /\ \A dead : TtlPurge(dead) => WorkMoves(w)
       /\ \A month, body : TasteUpsert(month, body) => WorkMoves(w)
       /\ UNCHANGED vars => WorkMoves(w)
  BY <1>5 DEF Tick, Store, StoreKeyed, UpdateDirect, Forget, TtlPurge, TasteUpsert, vars
<1> QED
  BY <1>6, <1>7, <1>8, <1>9, <1>10, <1>11 DEF Next

LEMMA EditsFreshStep ==
  ASSUME TypeOK, EditsFresh, [Next]_vars
  PROVE  EditsFresh'
<1> SUFFICES ASSUME NEW w \in Workers, work'[w].op = "edit"
             PROVE  LET r == mem'[work'[w].id]
                    IN  /\ r.life # "none"
                        /\ r.life = "row" =>
                             /\ work'[w].rev <= r.rev
                             /\ r.rev = work'[w].rev =>
                                  work'[w].vec = IF work'[w].body = r.body THEN None ELSE work'[w].body
  BY DEF EditsFresh
<1>1. \A i \in Ids : mem[i].rev \in Nat
  BY TypeFacts, RowFields
<1>2. CASE work'[w] = work[w]
  <2> DEFINE i == work[w].id
  <2>1. work[w].op = "edit" /\ work[w] \in Work
    BY <1>2, TypeFacts
  <2>2. i \in Ids /\ work[w].rev \in Nat
    BY <2>1 DEF Work
  <2>3. Moves(i)
    BY <2>2, StepMoves
  <2>4. /\ mem[i].life # "none"
        /\ mem[i].life = "row" =>
             /\ work[w].rev <= mem[i].rev
             /\ mem[i].rev = work[w].rev =>
                  work[w].vec = IF work[w].body = mem[i].body THEN None ELSE work[w].body
    BY <2>1 DEF EditsFresh
  <2> HIDE DEF i
  <2>5. \/ mem'[i].life = "gone"
        \/ /\ mem'[i].life = mem[i].life
           /\ mem[i].rev <= mem'[i].rev
           /\ mem'[i].body # mem[i].body => mem[i].rev < mem'[i].rev
    BY <2>2, <2>3, <2>4, MovedFields, ErasedFields DEF IsErased, Begins, BeginsCanonical, Unused
  <2>6. mem'[i].rev \in Nat
    BY <2>2, TypeStep, RowFields DEF TypeOK
  <2> QED
    BY <1>1, <1>2, <2>2, <2>4, <2>5, <2>6 DEF i
<1>3. CASE \E t \in Ids, body \in Bodies : UpdateRead(w, t, body)
  <2>1. PICK t \in Ids, body \in Bodies : UpdateRead(w, t, body)
    BY <1>3
  <2>2. /\ Present(t) /\ mem' = mem
        /\ work'[w] = [op |-> "edit", id |-> t, body |-> body, rev |-> mem[t].rev,
                       vec |-> IF body = mem[t].body THEN None ELSE body]
    BY <2>1 DEF UpdateRead, Editable, Visible, Active, Starts, TypeOK
  <2> QED
    BY <1>1, <2>2 DEF Present
<1>4. work'[w] = work[w] \/ \E t \in Ids, body \in Bodies : UpdateRead(w, t, body)
  <2>1. work \in [Workers -> Work] /\ Idle.op # "edit"
    BY DEF TypeOK, Idle
  <2>2. \A S : ~MergeLoad(w, S)
    BY <2>1 DEF MergeLoad, Starts
  <2>3. \A c : ~RestorePreview(w, c)
    BY <2>1 DEF RestorePreview, Starts
  <2> QED
    BY <2>1, <2>2, <2>3, StepWork DEF WorkMoves
<1> QED
  BY <1>2, <1>3, <1>4

LEMMA VectorStep ==
  ASSUME TypeOK, VectorInv, [Next]_vars
  PROVE  VectorMatchesBody'
<1> SUFFICES ASSUME NEW i \in Ids
             PROVE  mem'[i].vec = mem'[i].body
  BY DEF VectorMatchesBody
<1>1. mem[i] \in Row /\ mem[i].vec = mem[i].body
  BY TypeFacts DEF VectorInv, VectorMatchesBody
<1>2. Moves(i)
  BY StepMoves
<1>3. CASE mem'[i] = mem[i]
  BY <1>1, <1>3
<1>4. CASE Begins(i) \/ BeginsCanonical(i)
  BY <1>4, NewRowFieldsAll DEF Begins, BeginsCanonical
<1>5. CASE IsReplaced(i)
  BY <1>1, <1>5, ReplacedFields DEF IsReplaced
<1>6. CASE IsPatched(i)
  <2>1. PICK body \in Bodies \cup {None}, vec \in Bodies \cup {None}, retag \in BOOLEAN,
             link \in Ids \cup {None} :
          /\ Present(i)
          /\ \/ body = mem[i].body
             \/ body \in Bodies /\ \E w \in Workers : CarriedBy(w, i, body, vec)
          /\ mem'[i] = Patched(mem[i], body, vec, retag, link)
    BY <1>6 DEF IsPatched, Editable, Visible, Active
  <2>2. mem'[i].body = body /\ mem'[i].vec = IF body # mem[i].body THEN vec ELSE mem[i].vec
    BY <1>1, <2>1 DEF Patched, Row
  <2>3. ASSUME NEW w \in Workers, CarriedBy(w, i, body, vec), body # mem[i].body
        PROVE  vec = body
    BY <2>1, <2>3 DEF CarriedBy, VectorInv, EditsFresh, Present
  <2> QED
    BY <1>1, <2>1, <2>2, <2>3
<1>7. CASE IsRetagged(i) \/ IsClosed(i) \/ IsTombstoned(i) \/ IsUnlinked(i)
  <2>1. \/ mem'[i] = [mem[i] EXCEPT !.rev = @ + 1] \/ mem'[i] = Closed(mem[i])
        \/ mem'[i] = Tombstoned(mem[i]) \/ mem'[i] = Unlinked(mem[i])
    BY <1>7 DEF IsRetagged, IsClosed, IsTombstoned, IsUnlinked
  <2> QED
    BY <1>1, <2>1 DEF Closed, Tombstoned, Unlinked, Row
<1>8. CASE IsLinked(i)
  BY <1>1, <1>8 DEF IsLinked, Linked, Row
<1>9. CASE IsErased(i)
  BY <1>9, ErasedFields DEF IsErased
<1> QED
  BY <1>2, <1>3, <1>4, <1>5, <1>6, <1>7, <1>8, <1>9 DEF Moves, Writes

LEMMA VectorInit == Init => VectorInv
BY DEF Init, VectorInv, VectorMatchesBody, EditsFresh, NoRow, Idle

LEMMA VectorInvariant == Spec => [](TypeOK /\ VectorInv)
<1>1. Init => TypeOK /\ VectorInv
  BY TypeInit, VectorInit
<1>2. TypeOK /\ VectorInv /\ [Next]_vars => TypeOK' /\ VectorInv'
  BY TypeStep, VectorStep, EditsFreshStep DEF VectorInv
<1> QED
  BY <1>1, <1>2, PTL DEF Spec

(***************************************************************************)
(* A stored embedding was computed from the content stored beside it, in   *)
(* every interleaving of edits, stores, merges and purges.                 *)
(***************************************************************************)
THEOREM EmbeddingsMatchContents == Spec => []VectorMatchesBody
<1>1. VectorInv => VectorMatchesBody
  BY DEF VectorInv
<1> QED
  BY <1>1, VectorInvariant, PTL

(***************************************************************************)
(* Settled rows.  Of the writers of contents only the upsert of a taste    *)
(* profile reaches a row that was superseded.                              *)
(***************************************************************************)
KeepsPlace(i) ==
  /\ mem'[i].sup = mem[i].sup /\ mem'[i].from = mem[i].from
  /\ mem[i].to # Never => mem'[i].to = mem[i].to
  /\ mem[i].del # Never => mem'[i].del = mem[i].del

KeepsContent(i) == mem'[i].body = mem[i].body /\ mem'[i].vec = mem[i].vec

LEMMA SettledStep ==
  ASSUME TypeOK, [Next]_vars, NEW i \in Ids, Settled(i), mem'[i].life = "row"
  PROVE  KeepsPlace(i) /\ (mem[i].key \notin Months => KeepsContent(i))
<1>1. mem[i] \in Row /\ Moves(i) /\ Present(i)
  BY TypeFacts, StepMoves DEF Settled
<1>2. ~Visible(i) /\ ~(mem[i].del = Never /\ Current(i) /\ mem[i].into = None)
  BY DEF Settled, Visible, Active, Current
<1>3. \/ mem'[i] = mem[i] \/ IsTombstoned(i) \/ IsUnlinked(i)
      \/ IsReplaced(i) /\ mem[i].key \in Months
  BY <1>1, <1>2, ErasedFields DEF Moves, Writes, Begins, BeginsCanonical, Unused, Present, IsReplaced, IsPatched, Editable,
     IsRetagged, IsClosed, IsLinked, Eligible, Candidate, IsErased
<1>4. CASE mem'[i] = mem[i]
  BY <1>4 DEF KeepsPlace, KeepsContent
<1>5. CASE IsTombstoned(i)
  BY <1>1, <1>5 DEF IsTombstoned, Tombstoned, Row, KeepsPlace, KeepsContent
<1>6. CASE IsUnlinked(i)
  BY <1>1, <1>6 DEF IsUnlinked, Unlinked, Row, KeepsPlace, KeepsContent
<1>7. CASE IsReplaced(i) /\ mem[i].key \in Months
  BY <1>1, <1>7, ReplacedFields DEF IsReplaced, KeepsPlace
<1> QED
  BY <1>3, <1>4, <1>5, <1>6, <1>7

(***************************************************************************)
(* A row keeps its place in history once it was superseded, tombstoned or  *)
(* folded, and its content too unless it is a month of the taste profile.  *)
(***************************************************************************)
THEOREM SettledRowsStay == Spec => SettledRowsNeverRewritten
<1>1. TypeOK /\ [Next]_vars =>
        \A i \in Ids : Settled(i) /\ mem'[i].life = "row" =>
          KeepsPlace(i) /\ (mem[i].key \notin Months => KeepsContent(i))
  BY SettledStep
<1>2. TypeOK /\ [Next]_vars =>
        \A i \in Ids : Settled(i) /\ mem'[i].life = "row" =>
          /\ mem[i].key \notin Months => mem'[i].body = mem[i].body /\ mem'[i].vec = mem[i].vec
          /\ mem'[i].sup = mem[i].sup /\ mem'[i].from = mem[i].from
          /\ mem[i].to # Never => mem'[i].to = mem[i].to
          /\ mem[i].del # Never => mem'[i].del = mem[i].del
  BY <1>1 DEF KeepsPlace, KeepsContent
<1> QED
  BY <1>2, TypeCorrect, PTL DEF Spec, SettledRowsNeverRewritten

(***************************************************************************)
(* Links and memberships.  The three properties need each other, and: a    *)
(* row that is not there hides behind nothing; only an unkeyed ordinary    *)
(* row is ever hidden, so no keyed write can reword it; a canonical is     *)
(* permanent, so no TTL purge can erase it; a membership names two rows,   *)
(* and the canonical of one that ended is a tombstone.                     *)
(***************************************************************************)
BareRowsFree == \A i \in Ids : ~Present(i) => mem[i].into = None
HiddenRowsPlain == \A i \in Ids : mem[i].into # None => mem[i].key = None /\ mem[i].kind = "semantic"
CanonicalsPermanent ==
  \A i \in Ids : Present(i) /\ mem[i].kind = "consolidation" =>
    mem[i].exp = Never /\ mem[i].key \in Ids
MembershipsNamed ==
  \A m \in memberships :
    /\ Present(m.canonical) /\ mem[m.canonical].kind = "consolidation"
    /\ Present(m.member)
    /\ m.open \/ mem[m.canonical].del # Never

LinkInv ==
  /\ LinkMirrorsMembership
  /\ CanonicalReflectsMembers
  /\ ForgottenClaimHidden
  /\ BareRowsFree
  /\ HiddenRowsPlain
  /\ CanonicalsPermanent
  /\ MembershipsNamed

\* A step that neither hides, shows, forgets nor erases a row.
SameLink(i) ==
  \/ mem'[i] = mem[i]
  \/ /\ mem[i].life = "none" /\ mem'[i].life = "row" /\ mem'[i].kind = "semantic"
     /\ mem'[i].into = None /\ mem'[i].del = Never
  \/ /\ mem'[i].life = mem[i].life /\ mem'[i].kind = mem[i].kind /\ mem'[i].key = mem[i].key
     /\ mem'[i].into = mem[i].into /\ mem'[i].del = mem[i].del
     /\ mem[i].into # None => mem'[i].body = mem[i].body /\ mem'[i].rev = mem[i].rev
     /\ mem[i].kind = "consolidation" => mem'[i].exp = mem[i].exp

LEMMA LinkFrame ==
  ASSUME TypeOK, TypeOK', LinkInv, UNCHANGED memberships, \A i \in Ids : SameLink(i)
  PROVE  LinkInv'
<1>1. \A i \in Ids : mem'[i].into = mem[i].into
  BY DEF LinkInv, BareRowsFree, SameLink, Present
<1>2. \A i \in Ids : Present(i) => mem'[i].life = "row" /\ mem'[i].kind = mem[i].kind
                                    /\ mem'[i].key = mem[i].key /\ mem'[i].del = mem[i].del
  BY DEF SameLink, Present
<1>3. \A i \in Ids : mem[i].into # None => mem'[i].body = mem[i].body /\ mem'[i].rev = mem[i].rev
  BY DEF LinkInv, BareRowsFree, SameLink, Present
<1>4. \A m \in memberships : m.canonical \in Ids /\ m.member \in Ids
  BY DEF TypeOK, Membership
<1>5. LinkMirrorsMembership'
  BY <1>1 DEF LinkInv, LinkMirrorsMembership
<1>6. CanonicalReflectsMembers'
  <2>1. ASSUME NEW m \in memberships, m.open
        PROVE  mem[m.member].into # None
    BY <1>4, <2>1, NoneAssumption DEF LinkInv, LinkMirrorsMembership
  <2> QED
    BY <1>3, <1>4, <2>1 DEF LinkInv, CanonicalReflectsMembers
<1>7. ForgottenClaimHidden' /\ MembershipsNamed'
  BY <1>2, <1>4 DEF LinkInv, ForgottenClaimHidden, MembershipsNamed, Present
<1>8. BareRowsFree'
  BY <1>1 DEF LinkInv, BareRowsFree, SameLink, Present
<1>9. HiddenRowsPlain'
  BY <1>1, <1>2 DEF LinkInv, HiddenRowsPlain, BareRowsFree, Present
<1>10. CanonicalsPermanent'
  BY DEF LinkInv, CanonicalsPermanent, SameLink, Present
<1> QED
  BY <1>5, <1>6, <1>7, <1>8, <1>9, <1>10 DEF LinkInv

LEMMA WritesSameLink ==
  ASSUME TypeOK, LinkInv, NEW i \in Ids, Writes(i)
  PROVE  SameLink(i)
<1>1. mem[i] \in Row
  BY TypeFacts
<1>2. CASE mem'[i] = mem[i]
  BY <1>2 DEF SameLink
<1>3. CASE Begins(i)
  BY <1>3, NewRowFieldsAll DEF Begins, SameLink, Unused
<1>4. CASE IsReplaced(i)
  <2>1. Present(i) /\ mem[i].into = None /\ mem[i].kind # "consolidation"
    BY <1>1, <1>4, NoneAssumption, KeysAssumption
    DEF IsReplaced, LinkInv, HiddenRowsPlain, CanonicalsPermanent, Row
  <2>2. PICK body \in Bodies, exp \in Time, retag \in BOOLEAN :
          mem'[i] = Replaced(mem[i], body, exp, retag)
    BY <1>4 DEF IsReplaced
  <2> QED
    BY <1>1, <2>1, <2>2 DEF Replaced, Row, SameLink
<1>5. CASE IsPatched(i)
  <2>1. Present(i) /\ mem[i].into = None /\ mem[i].kind # "consolidation"
    BY <1>5 DEF IsPatched, Editable, Visible, Active
  <2>2. \E body, vec, retag, link : mem'[i] = Patched(mem[i], body, vec, retag, link)
    BY <1>5 DEF IsPatched
  <2> QED
    BY <1>1, <2>1, <2>2 DEF Patched, Row, SameLink
<1>6. CASE IsRetagged(i)
  BY <1>1, <1>6 DEF IsRetagged, Visible, Row, SameLink
<1>7. CASE IsClosed(i)
  BY <1>1, <1>7 DEF IsClosed, Closed, Visible, Row, SameLink
<1> QED
  BY <1>2, <1>3, <1>4, <1>5, <1>6, <1>7 DEF Writes

\* What LinkInv says of one row and of one membership.
LEMMA LinkFacts ==
  ASSUME TypeOK, LinkInv
  PROVE  /\ \A m \in memberships :
              /\ m.canonical \in Ids /\ m.member \in Ids /\ m.open \in BOOLEAN
              /\ Present(m.canonical) /\ mem[m.canonical].kind = "consolidation"
              /\ mem[m.canonical].into = None /\ Present(m.member)
              /\ m.open \/ mem[m.canonical].del # Never
              /\ m.open => /\ mem[m.member].into = m.canonical
                           /\ mem[m.member].kind = "semantic"
              /\ mem[m.member].del # Never => mem[m.canonical].del # Never
         /\ \A i \in Ids : mem[i].into # None =>
              /\ \E m \in memberships : m.open /\ m.member = i /\ m.canonical = mem[i].into
              /\ mem[i].into \in Ids /\ Present(mem[i].into)
              /\ mem[mem[i].into].kind = "consolidation" /\ mem[mem[i].into].exp = Never
              /\ Present(i) /\ mem[i].kind = "semantic" /\ mem[i].key = None
<1>1. \A m \in memberships : m.canonical \in Ids /\ m.member \in Ids /\ m.open \in BOOLEAN
  BY DEF TypeOK, Membership
<1>2. \A m \in memberships : m.open => mem[m.member].into = m.canonical
  BY <1>1 DEF LinkInv, LinkMirrorsMembership
<1>3. \A m \in memberships :
        /\ Present(m.canonical) /\ mem[m.canonical].kind = "consolidation" /\ Present(m.member)
        /\ m.open \/ mem[m.canonical].del # Never
        /\ mem[m.member].del # Never => mem[m.canonical].del # Never
  BY DEF LinkInv, MembershipsNamed, ForgottenClaimHidden
<1>4. \A i \in Ids : mem[i].into # None => mem[i].key = None /\ mem[i].kind = "semantic"
  BY DEF LinkInv, HiddenRowsPlain
<1>5. \A m \in memberships : mem[m.canonical].into = None
  BY <1>1, <1>3, <1>4
<1>6. \A m \in memberships : m.open => mem[m.member].kind = "semantic"
  BY <1>1, <1>2, <1>4, NoneAssumption
<1>7. \A i \in Ids : mem[i].into # None =>
        \E m \in memberships : m.open /\ m.member = i /\ m.canonical = mem[i].into
  <2>1. ASSUME NEW i \in Ids, mem[i].into # None
        PROVE  \E m \in memberships : m.open /\ m.member = i /\ m.canonical = mem[i].into
    <3>1. mem[i].into \in {m.canonical : m \in {o \in memberships : o.member = i /\ o.open}}
      BY <2>1 DEF LinkInv, LinkMirrorsMembership
    <3> QED
      BY <3>1
  <2> QED
    BY <2>1
<1>8. \A i \in Ids : mem[i].into # None => Present(i)
  BY DEF LinkInv, BareRowsFree
<1>9. \A i \in Ids : mem[i].into # None => mem[mem[i].into].exp = Never
  BY <1>1, <1>3, <1>7 DEF LinkInv, CanonicalsPermanent
<1>10. \A i \in Ids : mem[i].into # None =>
         mem[i].into \in Ids /\ Present(mem[i].into) /\ mem[mem[i].into].kind = "consolidation"
  BY <1>1, <1>3, <1>7
<1>11. \A m \in memberships :
         /\ m.canonical \in Ids /\ m.member \in Ids /\ m.open \in BOOLEAN
         /\ Present(m.canonical) /\ mem[m.canonical].kind = "consolidation"
         /\ mem[m.canonical].into = None /\ Present(m.member)
         /\ m.open \/ mem[m.canonical].del # Never
         /\ m.open => mem[m.member].into = m.canonical /\ mem[m.member].kind = "semantic"
         /\ mem[m.member].del # Never => mem[m.canonical].del # Never
  BY <1>1, <1>2, <1>3, <1>5, <1>6
<1> QED
  BY <1>4, <1>7, <1>8, <1>9, <1>10, <1>11

\* A canonical is forgotten with the member that made it speak.
LEMMA LinkForget ==
  ASSUME TypeOK, LinkInv, NEW S \in SUBSET Ids, Forget(S)
  PROVE  LinkInv'
<1> DEFINE targets == S \cup ({mem[i].into : i \in S} \ {None})
<1>1. /\ mem' = [i \in Ids |-> IF i \in targets /\ Active(i) THEN Tombstoned(mem[i]) ELSE mem[i]]
      /\ memberships' = memberships /\ now' = now
  BY DEF Forget
<1>2. \A i \in S : mem[i].into # None => mem[i].into \in targets
  OBVIOUS
<1>3. \A i \in S : Active(i)
  BY DEF Forget
<1> HIDE DEF targets
<1>4. \A i \in Ids :
        /\ Unworded(mem[i], mem'[i]) /\ mem'[i].rev = mem[i].rev /\ mem'[i].into = mem[i].into
        /\ mem'[i].del = IF i \in targets /\ Active(i) THEN now ELSE mem[i].del
        /\ now # Never
  <2> SUFFICES ASSUME NEW i \in Ids
               PROVE  /\ Unworded(mem[i], mem'[i]) /\ mem'[i].rev = mem[i].rev
                      /\ mem'[i].into = mem[i].into
                      /\ mem'[i].del = IF i \in targets /\ Active(i) THEN now ELSE mem[i].del
                      /\ now # Never
    OBVIOUS
  <2>1. mem[i] \in Row /\ now \in Nat
    BY TypeFacts
  <2> QED
    <3>1. CASE i \in targets /\ Active(i)
      <4>1. mem'[i] = Tombstoned(mem[i]) /\ mem[i].del = Never
        BY <1>1, <3>1 DEF Active
      <4> QED
        BY <2>1, <3>1, <4>1 DEF Tombstoned, Row, Unworded, Never
    <3>2. CASE ~(i \in targets /\ Active(i))
      <4>1. mem'[i] = mem[i]
        BY <1>1, <3>2
      <4> QED
        BY <2>1, <3>2, <4>1 DEF Unworded, Never
    <3> QED
      BY <3>1, <3>2
<1>5. ForgottenClaimHidden'
  <2> SUFFICES ASSUME NEW m \in memberships, mem'[m.member].del # Never
               PROVE  mem'[m.canonical].del # Never
    BY <1>1 DEF ForgottenClaimHidden
  <2>1. m.canonical \in Ids /\ m.member \in Ids
    BY LinkFacts
  <2>2. CASE mem[m.canonical].del # Never
    BY <1>4, <2>1, <2>2
  <2>3. CASE mem[m.canonical].del = Never
    <3>1. m.open /\ mem[m.member].del = Never /\ mem[m.member].into = m.canonical
      BY <2>3, LinkFacts
    <3>2. m.member \in targets
      BY <1>4, <2>1, <3>1
    <3>3. m.canonical \in targets
      <4>1. m.canonical # None
        BY <2>1, NoneAssumption
      <4>2. m.member \in S
        <5>1. mem[m.member].kind = "semantic"
          BY <3>1, LinkFacts
        <5>2. \A i \in S : mem[i].into # None => mem[mem[i].into].kind = "consolidation"
          BY LinkFacts
        <5> QED
          BY <3>2, <5>1, <5>2 DEF targets
      <4> QED
        BY <1>2, <3>1, <4>1, <4>2
    <3>4. Active(m.canonical)
      BY <2>1, <2>3, LinkFacts DEF Active, Expired, LinkInv, CanonicalsPermanent
    <3> QED
      BY <1>4, <2>1, <3>3, <3>4
  <2> QED
    BY <2>2, <2>3
<1>6. \A i \in Ids : (Present(i) <=> mem'[i].life = "row") /\ mem'[i].kind = mem[i].kind
                      /\ mem'[i].key = mem[i].key /\ mem'[i].body = mem[i].body
                      /\ mem'[i].exp = mem[i].exp /\ (mem[i].del # Never => mem'[i].del # Never)
  BY <1>4 DEF Unworded, Present
<1>7. LinkMirrorsMembership' /\ BareRowsFree' /\ HiddenRowsPlain' /\ CanonicalsPermanent'
  <2>1. LinkMirrorsMembership'
    BY <1>1, <1>4 DEF LinkInv, LinkMirrorsMembership
  <2>2. BareRowsFree' /\ HiddenRowsPlain'
    BY <1>4, <1>6 DEF LinkInv, BareRowsFree, HiddenRowsPlain, Present
  <2>3. CanonicalsPermanent'
    BY <1>6 DEF LinkInv, CanonicalsPermanent, Present
  <2> QED
    BY <2>1, <2>2, <2>3
<1>8. CanonicalReflectsMembers' /\ MembershipsNamed'
  <2>1. \A m \in memberships : m.canonical \in Ids /\ m.member \in Ids
    BY LinkFacts
  <2> QED
    BY <1>1, <1>4, <1>6, <2>1 DEF LinkInv, CanonicalReflectsMembers, MembershipsNamed, Present
<1> QED
  BY <1>5, <1>7, <1>8 DEF LinkInv

\* The members of a merge and what the run saw of them.
LEMMA LinkMerge ==
  ASSUME TypeOK, LinkInv, NEW w \in Mergers, NEW body \in Bodies, MergeApply(w, body)
  PROVE  LinkInv'
<1> DEFINE members == {s.id : s \in work[w].seen}
           entry(c, s) == [canonical |-> c, member |-> s.id, body |-> s.body, rev |-> s.rev,
                           open |-> TRUE]
<1>1. PICK c \in Ids :
        /\ Unused(c)
        /\ mem' = [i \in Ids |-> IF i = c THEN NewRow("consolidation", c, body, None, Never)
                                   ELSE IF i \in members THEN Linked(mem[i], c)
                                   ELSE mem[i]]
        /\ memberships' = memberships \cup {entry(c, s) : s \in work[w].seen}
  BY DEF MergeApply
<1>2. \A s \in work[w].seen :
        /\ s.id \in Ids /\ Eligible(s.id)
        /\ s.body = mem[s.id].body /\ s.rev = mem[s.id].rev
  <2>1. work[w] \in Work /\ work[w].op = "merge"
    BY TypeFacts, WorkersType DEF MergeApply
  <2>2. work[w].seen \subseteq Snapshot
    BY <2>1 DEF Work
  <2> QED
    BY <2>2 DEF MergeApply, Fresh, Seen, Snapshot
<1>3. \A i \in members : /\ i \in Ids /\ i # c /\ Present(i) /\ mem[i].del = Never /\ mem[i].into = None
                         /\ mem[i].key = None /\ mem[i].kind = "semantic"
  BY <1>1, <1>2 DEF Eligible, Candidate, Visible, Active, Present, Unused
<1>4. \A m : m \in memberships' <=> m \in memberships \/ \E s \in work[w].seen : m = entry(c, s)
  BY <1>1
<1>5. \A s : /\ entry(c, s).canonical = c /\ entry(c, s).member = s.id /\ entry(c, s).open
             /\ entry(c, s).body = s.body /\ entry(c, s).rev = s.rev
  OBVIOUS
<1>6. \A s \in work[w].seen : s.id \in members
  OBVIOUS
<1>7. \A i \in members : \E s \in work[w].seen : s.id = i
  OBVIOUS
<1> HIDE DEF members, entry
<1>8. /\ mem'[c].life = "row" /\ mem'[c].kind = "consolidation" /\ mem'[c].key = c
      /\ mem'[c].into = None /\ mem'[c].del = Never /\ mem'[c].exp = Never
  <2>1. mem'[c] = NewRow("consolidation", c, body, None, Never)
    BY <1>1
  <2> QED
    BY <2>1 DEF NewRow, NoRow
<1>9. \A i \in members : /\ Unworded(mem[i], mem'[i]) /\ mem'[i].into = c
                         /\ mem'[i].rev = mem[i].rev + 1 /\ mem'[i].del = Never
  <2> SUFFICES ASSUME NEW i \in members
               PROVE  /\ Unworded(mem[i], mem'[i]) /\ mem'[i].into = c
                      /\ mem'[i].rev = mem[i].rev + 1 /\ mem'[i].del = Never
    OBVIOUS
  <2>1. mem[i] \in Row /\ mem'[i] = Linked(mem[i], c) /\ mem[i].del = Never
    BY <1>1, <1>3, TypeFacts
  <2> QED
    BY <2>1 DEF Linked, Row, Unworded
<1>10. \A i \in Ids : i \notin members /\ i # c => mem'[i] = mem[i]
  BY <1>1
<1>11. \A m \in memberships :
         /\ m.canonical \in Ids /\ m.member \in Ids /\ m.canonical # c /\ m.member # c
         /\ m.canonical \notin members
         /\ m.open => m.member \notin members
  BY <1>1, <1>3, LinkFacts, NoneAssumption DEF Present, Unused
<1>12. LinkMirrorsMembership'
  <2> SUFFICES ASSUME NEW i \in Ids
               PROVE  {m.canonical : m \in {o \in memberships' : o.member = i /\ o.open}}
                        = {mem'[i].into} \ {None}
    BY DEF LinkMirrorsMembership
  <2>1. {m.canonical : m \in {o \in memberships : o.member = i /\ o.open}} = {mem[i].into} \ {None}
    BY DEF LinkInv, LinkMirrorsMembership
  <2>2. CASE i = c
    <3>1. ~\E o \in memberships' : o.member = c /\ o.open
      BY <1>3, <1>4, <1>5, <1>6, <1>11
    <3> QED
      BY <1>8, <2>2, <3>1
  <2>3. CASE i \in members
    <3>1. \A o \in memberships' : o.member = i /\ o.open => o.canonical = c
      BY <1>4, <1>5, <1>11, <2>3
    <3>2. \E o \in memberships' : o.member = i /\ o.open /\ o.canonical = c
      BY <1>4, <1>5, <1>7, <2>3
    <3> QED
      BY <1>9, <2>3, <3>1, <3>2, NoneAssumption
  <2>4. CASE i \notin members /\ i # c
    <3>1. \A o : o \in memberships' /\ o.member = i <=> o \in memberships /\ o.member = i
      BY <1>4, <1>5, <1>6, <2>4
    <3> QED
      BY <1>10, <2>1, <2>4, <3>1
  <2> QED
    BY <2>2, <2>3, <2>4
<1>13. CanonicalReflectsMembers'
  <2> SUFFICES ASSUME NEW m \in memberships', m.open
               PROVE  mem'[m.member].body = m.body /\ mem'[m.member].rev = m.rev + 1
    BY DEF CanonicalReflectsMembers
  <2>1. CASE m \in memberships
    BY <1>10, <1>11, <2>1 DEF LinkInv, CanonicalReflectsMembers
  <2>2. ASSUME NEW s \in work[w].seen, m = entry(c, s)
        PROVE  mem'[m.member].body = m.body /\ mem'[m.member].rev = m.rev + 1
    BY <1>2, <1>5, <1>6, <1>9, <2>2 DEF Unworded
  <2> QED
    BY <1>4, <2>1, <2>2
<1>14. ForgottenClaimHidden' /\ MembershipsNamed'
  <2> SUFFICES ASSUME NEW m \in memberships'
               PROVE  /\ mem'[m.member].del # Never => mem'[m.canonical].del # Never
                      /\ mem'[m.canonical].life = "row" /\ mem'[m.canonical].kind = "consolidation"
                      /\ mem'[m.member].life = "row"
                      /\ m.open \/ mem'[m.canonical].del # Never
    BY DEF ForgottenClaimHidden, MembershipsNamed, Present
  <2>1. CASE m \in memberships
    <3>1. mem'[m.canonical] = mem[m.canonical]
      BY <1>10, <1>11, <2>1
    <3>2. mem'[m.member].life = mem[m.member].life
      BY <1>9, <1>10, <1>11, <2>1 DEF Unworded
    <3>3. mem'[m.member].del # Never => mem[m.member].del # Never
      BY <1>9, <1>10, <1>11, <2>1
    <3> QED
      BY <2>1, <3>1, <3>2, <3>3, LinkFacts DEF Present
  <2>2. ASSUME NEW s \in work[w].seen, m = entry(c, s)
        PROVE  /\ mem'[m.member].del = Never
               /\ mem'[m.canonical].life = "row" /\ mem'[m.canonical].kind = "consolidation"
               /\ mem'[m.member].life = "row" /\ m.open
    BY <1>3, <1>5, <1>6, <1>8, <1>9, <2>2 DEF Unworded, Present
  <2> QED
    BY <1>4, <2>1, <2>2
<1>15. BareRowsFree' /\ HiddenRowsPlain' /\ CanonicalsPermanent'
  <2> SUFFICES ASSUME NEW i \in Ids
               PROVE  /\ mem'[i].life # "row" => mem'[i].into = None
                      /\ mem'[i].into # None => mem'[i].key = None /\ mem'[i].kind = "semantic"
                      /\ mem'[i].life = "row" /\ mem'[i].kind = "consolidation" =>
                           mem'[i].exp = Never /\ mem'[i].key \in Ids
    BY DEF BareRowsFree, HiddenRowsPlain, CanonicalsPermanent, Present
  <2>1. CASE i = c
    BY <1>8, <2>1
  <2>2. CASE i \in members
    BY <1>3, <1>9, <2>2 DEF Unworded, Present
  <2>3. CASE i \notin members /\ i # c
    BY <1>10, <2>3 DEF LinkInv, BareRowsFree, HiddenRowsPlain, CanonicalsPermanent, Present
  <2> QED
    BY <2>1, <2>2, <2>3
<1> QED
  BY <1>12, <1>13, <1>14, <1>15 DEF LinkInv

\* A restoration ends exactly the memberships whose members it shows again.
LEMMA LinkRestore ==
  ASSUME TypeOK, LinkInv, NEW w \in Operators, RestoreApply(w)
  PROVE  LinkInv'
<1> DEFINE c == work[w].canonical.id
           restored == {a.id : a \in work[w].members}
           ended == {m \in OpenMembers(c) : m.member \in restored}
           closed(m) == [m EXCEPT !.open = FALSE]
<1>1. /\ Present(c) /\ mem[c].kind = "consolidation"
      /\ \A a \in work[w].members : mem[a.id].into = c
      /\ memberships' = (memberships \ ended) \cup {closed(m) : m \in ended}
      /\ mem' = [i \in Ids |-> IF i = c THEN Tombstoned(mem[i])
                                 ELSE IF i \in restored THEN Unlinked(mem[i])
                                 ELSE mem[i]]
  BY DEF RestoreApply
<1>2. c \in Ids /\ restored \subseteq Ids
  <2>1. work[w] \in Work /\ work[w].op = "restore"
    BY TypeFacts, WorkersType DEF RestoreApply
  <2> QED
    BY <2>1 DEF Work, Approval
<1>3. \A i \in restored : mem[i].into = c
  BY <1>1
<1>4. \A m : m \in ended <=> m \in memberships /\ m.canonical = c /\ m.open /\ m.member \in restored
  BY DEF OpenMembers
<1>5. \A m \in memberships :
        /\ closed(m).canonical = m.canonical /\ closed(m).member = m.member /\ ~closed(m).open
  BY DEF TypeOK, Membership
<1> HIDE DEF c, restored, ended, closed
<1>6. mem[c].into = None /\ \A i \in restored : i # c
  <2>1. c # None
    BY <1>2, NoneAssumption
  <2> QED
    BY <1>1, <1>2, <1>3, <2>1, LinkFacts
<1>7. /\ Unworded(mem[c], mem'[c]) /\ mem'[c].into = None /\ mem'[c].del # Never
  <2>1. mem'[c] = Tombstoned(mem[c]) /\ mem[c] \in Row /\ now \in Nat
    BY <1>1, <1>2, TypeFacts
  <2> QED
    BY <1>6, <2>1 DEF Tombstoned, Row, Unworded, Never
<1>8. \A i \in restored : Unworded(mem[i], mem'[i]) /\ mem'[i].into = None /\ mem'[i].del = mem[i].del
  <2> SUFFICES ASSUME NEW i \in restored
               PROVE  Unworded(mem[i], mem'[i]) /\ mem'[i].into = None /\ mem'[i].del = mem[i].del
    OBVIOUS
  <2>1. mem'[i] = Unlinked(mem[i]) /\ mem[i] \in Row
    BY <1>1, <1>2, <1>6, TypeFacts
  <2> QED
    BY <2>1 DEF Unlinked, Row, Unworded
<1>9. \A i \in Ids : i \notin restored /\ i # c => mem'[i] = mem[i]
  BY <1>1
\* Every membership after the step was there before it; an open one is unchanged.
<1>10. \A m \in memberships' :
         \/ m \in memberships /\ m \notin ended
         \/ ~m.open /\ m.canonical = c /\ \E o \in memberships : o.member = m.member /\ o.canonical = c
  BY <1>1, <1>4, <1>5
<1>11. \A m \in memberships : m.open /\ m.member \in restored => m \in ended
  BY <1>3, <1>4, LinkFacts
<1>12. LinkMirrorsMembership'
  <2> SUFFICES ASSUME NEW i \in Ids
               PROVE  {m.canonical : m \in {o \in memberships' : o.member = i /\ o.open}}
                        = {mem'[i].into} \ {None}
    BY DEF LinkMirrorsMembership
  <2>1. {m.canonical : m \in {o \in memberships : o.member = i /\ o.open}} = {mem[i].into} \ {None}
    BY DEF LinkInv, LinkMirrorsMembership
  <2>2. CASE i \in restored
    <3>1. ~\E o \in memberships' : o.member = i /\ o.open
      BY <1>10, <1>11, <2>2
    <3> QED
      BY <1>8, <2>2, <3>1
  <2>3. CASE i \notin restored
    <3>1. \A o : o \in memberships' /\ o.member = i /\ o.open
                 <=> o \in memberships /\ o.member = i /\ o.open
      BY <1>1, <1>4, <1>10, <2>3
    <3>2. mem'[i].into = mem[i].into
      BY <1>6, <1>7, <1>9, <2>3
    <3> QED
      BY <2>1, <3>1, <3>2
  <2> QED
    BY <2>2, <2>3
<1>13. CanonicalReflectsMembers'
  <2> SUFFICES ASSUME NEW m \in memberships', m.open
               PROVE  mem'[m.member].body = m.body /\ mem'[m.member].rev = m.rev + 1
    BY DEF CanonicalReflectsMembers
  <2>1. m \in memberships /\ m.member \notin restored
    BY <1>10, <1>11
  <2>2. m.member \in Ids /\ m.member # c
    BY <1>1, <2>1, LinkFacts
  <2> QED
    BY <1>9, <2>1, <2>2 DEF LinkInv, CanonicalReflectsMembers
<1>14. ForgottenClaimHidden' /\ MembershipsNamed'
  <2> SUFFICES ASSUME NEW m \in memberships'
               PROVE  /\ mem'[m.member].del # Never => mem'[m.canonical].del # Never
                      /\ mem'[m.canonical].life = "row" /\ mem'[m.canonical].kind = "consolidation"
                      /\ mem'[m.member].life = "row"
                      /\ m.open \/ mem'[m.canonical].del # Never
    BY DEF ForgottenClaimHidden, MembershipsNamed, Present
  <2>1. PICK o \in memberships : o.canonical = m.canonical /\ o.member = m.member
    BY <1>10
  <2>2. /\ o.canonical \in Ids /\ o.member \in Ids
        /\ Present(o.canonical) /\ mem[o.canonical].kind = "consolidation" /\ Present(o.member)
        /\ o.canonical \notin restored
    BY <1>2, <1>3, LinkFacts, NoneAssumption
  <2>3. mem'[o.member].life = "row"
    BY <1>7, <1>8, <1>9, <2>2 DEF Unworded, Present
  <2>4. CASE m.canonical = c
    BY <1>1, <1>7, <2>1, <2>3, <2>4 DEF Unworded, Present
  <2>5. CASE m.canonical # c
    <3>1. m \in memberships /\ mem'[m.canonical] = mem[m.canonical]
      BY <1>9, <1>10, <2>1, <2>2, <2>5
    <3>2. m.member = c => mem[m.canonical].del # Never
      BY <1>1, <3>1, LinkFacts
    <3>3. m.member # c => mem'[m.member].del = mem[m.member].del
      BY <1>8, <1>9, <2>1, <2>2
    <3> QED
      BY <2>1, <2>2, <2>3, <3>1, <3>2, <3>3, LinkFacts DEF Present
  <2> QED
    BY <2>4, <2>5
<1>15. BareRowsFree' /\ HiddenRowsPlain' /\ CanonicalsPermanent'
  <2> SUFFICES ASSUME NEW i \in Ids
               PROVE  /\ mem'[i].life # "row" => mem'[i].into = None
                      /\ mem'[i].into # None => mem'[i].key = None /\ mem'[i].kind = "semantic"
                      /\ mem'[i].life = "row" /\ mem'[i].kind = "consolidation" =>
                           mem'[i].exp = Never /\ mem'[i].key \in Ids
    BY DEF BareRowsFree, HiddenRowsPlain, CanonicalsPermanent, Present
  <2>1. mem'[i].into = None \/ mem'[i].into = mem[i].into
    BY <1>7, <1>8, <1>9
  <2>2. Unworded(mem[i], mem'[i])
    BY <1>7, <1>8, <1>9 DEF Unworded
  <2> QED
    BY <2>1, <2>2 DEF LinkInv, BareRowsFree, HiddenRowsPlain, CanonicalsPermanent, Present, Unworded
<1> QED
  BY <1>12, <1>13, <1>14, <1>15 DEF LinkInv

\* An erasure that no surviving row restricts takes its memberships along.
LEMMA LinkErase ==
  ASSUME TypeOK, LinkInv, NEW dead, \A i \in Ids \ dead : mem[i].into \notin dead, Erase(dead)
  PROVE  LinkInv'
<1>1. /\ mem' = [i \in Ids |-> IF i \in dead THEN Erased ELSE mem[i]]
      /\ memberships' = {m \in memberships : m.canonical \notin dead /\ m.member \notin dead}
  BY DEF Erase
<1>2. \A i \in Ids : i \in dead => mem'[i].life # "row" /\ mem'[i].into = None
  BY <1>1, ErasedFields
<1>3. \A i \in Ids : i \notin dead => mem'[i] = mem[i]
  BY <1>1
<1>4. \A m \in memberships' : m \in memberships /\ m.canonical \in Ids /\ m.member \in Ids
                               /\ mem'[m.canonical] = mem[m.canonical] /\ mem'[m.member] = mem[m.member]
  BY <1>1, <1>3, LinkFacts
<1>5. LinkMirrorsMembership'
  <2> SUFFICES ASSUME NEW i \in Ids
               PROVE  {m.canonical : m \in {o \in memberships' : o.member = i /\ o.open}}
                        = {mem'[i].into} \ {None}
    BY DEF LinkMirrorsMembership
  <2>1. {m.canonical : m \in {o \in memberships : o.member = i /\ o.open}} = {mem[i].into} \ {None}
    BY DEF LinkInv, LinkMirrorsMembership
  <2>2. CASE i \in dead
    <3>1. ~\E o \in memberships' : o.member = i /\ o.open
      BY <1>1, <2>2
    <3> QED
      BY <1>2, <2>2, <3>1
  <2>3. CASE i \notin dead
    <3>1. \A o : o \in memberships' /\ o.member = i /\ o.open
                 <=> o \in memberships /\ o.member = i /\ o.open
      BY <1>1, <2>3, LinkFacts
    <3> QED
      BY <1>3, <2>1, <2>3, <3>1
  <2> QED
    BY <2>2, <2>3
<1>6. CanonicalReflectsMembers' /\ ForgottenClaimHidden' /\ MembershipsNamed'
  BY <1>4 DEF LinkInv, CanonicalReflectsMembers, ForgottenClaimHidden, MembershipsNamed, Present
<1>7. BareRowsFree' /\ HiddenRowsPlain' /\ CanonicalsPermanent'
  BY <1>2, <1>3 DEF LinkInv, BareRowsFree, HiddenRowsPlain, CanonicalsPermanent, Present
<1> QED
  BY <1>5, <1>6, <1>7 DEF LinkInv

LEMMA LinkInit == Init => LinkInv
BY DEF Init, LinkInv, LinkMirrorsMembership, CanonicalReflectsMembers, ForgottenClaimHidden,
   BareRowsFree, HiddenRowsPlain, CanonicalsPermanent, MembershipsNamed, NoRow, Present

LEMMA LinkStep ==
  ASSUME TypeOK, LinkInv, [Next]_vars
  PROVE  LinkInv'
<1>1. TypeOK'
  BY TypeStep
<1>2. CASE StepWrites
  <2>1. \A i \in Ids : SameLink(i)
    BY <1>2, WritesSameLink DEF StepWrites
  <2> QED
    BY <1>1, <1>2, <2>1, LinkFrame DEF StepWrites
<1>3. ASSUME NEW dead \in SUBSET Ids, TtlPurge(dead)
      PROVE  LinkInv'
  <2>1. Erase(dead) /\ \A i \in Ids \ dead : mem[i].into \notin dead
    BY <1>3 DEF TtlPurge, TtlBlocked
  <2> QED
    BY <2>1, LinkErase
<1>4. ASSUME NEW w \in Purgers, PurgeApply(w)
      PROVE  LinkInv'
  <2> DEFINE dead == {d.id : d \in work[w].dead}
  <2>1. Erase(dead) /\ dead = {t \in Tombstones : ~Referenced(t)}
    BY <1>4, PurgedTombstones
  <2> HIDE DEF dead
  <2>2. \A i \in Ids : mem[i].into \notin dead
    BY <2>1 DEF Referenced
  <2> QED
    BY <2>1, <2>2, LinkErase
<1> QED
  BY <1>2, <1>3, <1>4, StepKinds, LinkForget, LinkMerge, LinkRestore

LEMMA LinkInvariant == Spec => [](TypeOK /\ LinkInv)
<1>1. Init => TypeOK /\ LinkInv
  BY TypeInit, LinkInit
<1>2. TypeOK /\ LinkInv /\ [Next]_vars => TypeOK' /\ LinkInv'
  BY TypeStep, LinkStep
<1> QED
  BY <1>1, <1>2, PTL DEF Spec

(***************************************************************************)
(* A row is hidden behind a canonical exactly while an open membership     *)
(* says so.                                                                *)
(***************************************************************************)
THEOREM LinksAreMemberships == Spec => []LinkMirrorsMembership
<1>1. LinkInv => LinkMirrorsMembership
  BY DEF LinkInv
<1> QED
  BY <1>1, LinkInvariant, PTL

(***************************************************************************)
(* No canonical that a reader can see speaks for a forgotten memory.       *)
(***************************************************************************)
THEOREM ForgettingHidesClaims == Spec => []ForgottenClaimHidden
<1>1. LinkInv => ForgottenClaimHidden
  BY DEF LinkInv
<1> QED
  BY <1>1, LinkInvariant, PTL

(***************************************************************************)
(* As long as a row is hidden behind a canonical, which is as long as its  *)
(* membership is open, it says what the generation of the canonical read   *)
(* of it: no edit came between the load and the link, and none after.      *)
(* Nothing is said of a canonical whose memberships were undone.           *)
(***************************************************************************)
THEOREM CanonicalsReflectMembers == Spec => []CanonicalReflectsMembers
<1>1. LinkInv => CanonicalReflectsMembers
  BY DEF LinkInv
<1> QED
  BY <1>1, LinkInvariant, PTL

(***************************************************************************)
(* What the refinement of BeliefLedger needs beside LinkInv: a row that is *)
(* there says something, a merge has at least two members, and a manifest  *)
(* lists every open member of its canonical, because a canonical never     *)
(* gains a member after its birth.                                         *)
(***************************************************************************)
WordedRows == \A i \in Ids : Present(i) => mem[i].body \in Bodies
MergesLarge ==
  \A w \in Workers : work[w].op = "merge" => Cardinality({s.id : s \in work[w].seen}) >= 2
ManifestsCover ==
  \A w \in Workers : work[w].op = "restore" =>
    /\ mem[work[w].canonical.id].life # "none"
    /\ \A m \in OpenMembers(work[w].canonical.id) : m.member \in {a.id : a \in work[w].members}
LedgerInv == WordedRows /\ MergesLarge /\ ManifestsCover

LEMMA WordedStep ==
  ASSUME TypeOK, WordedRows, [Next]_vars
  PROVE  WordedRows'
<1> SUFFICES ASSUME NEW i \in Ids, mem'[i].life = "row"
             PROVE  mem'[i].body \in Bodies
  BY DEF WordedRows, Present
<1>1. Moves(i)
  BY StepMoves
<1>2. CASE Begins(i) \/ BeginsCanonical(i)
  BY <1>2, NewRowFieldsAll DEF Begins, BeginsCanonical
<1>3. ~IsErased(i)
  BY ErasedFields DEF IsErased
<1> QED
  BY <1>1, <1>2, <1>3, MovedFields DEF WordedRows, Present

LEMMA MergesLargeStep ==
  ASSUME TypeOK, MergesLarge, [Next]_vars
  PROVE  MergesLarge'
<1> SUFFICES ASSUME NEW w \in Workers, work'[w].op = "merge"
             PROVE  Cardinality({s.id : s \in work'[w].seen}) >= 2
  BY DEF MergesLarge
<1>1. work \in [Workers -> Work] /\ WorkMoves(w) /\ Idle.op # "merge"
  BY StepWork DEF TypeOK, Idle
<1>2. CASE work'[w] = work[w]
  BY <1>2 DEF MergesLarge
<1>3. ASSUME NEW S \in SUBSET Ids, MergeLoad(w, S)
      PROVE  Cardinality({s.id : s \in work'[w].seen}) >= 2
  <2>1. work'[w].seen = {Seen(i) : i \in S} /\ Cardinality(S) \in 2 .. MaxClusterSize
    BY <1>1, <1>3 DEF MergeLoad, Starts
  <2>2. \A i : Seen(i).id = i
    BY DEF Seen
  <2> DEFINE ids == {s.id : s \in work'[w].seen}
  <2> HIDE DEF Seen
  <2>3. ids = S
    BY <2>1, <2>2
  <2>4. Cardinality(S) >= 2
    BY <2>1, BoundsAssumption
  <2> HIDE DEF ids
  <2>5. Cardinality(ids) >= 2
    BY <2>3, <2>4
  <2> QED
    BY <2>5 DEF ids
<1>4. (~\E t \in Ids, body \in Bodies : UpdateRead(w, t, body)) /\ ~\E c \in Ids : RestorePreview(w, c)
  BY <1>1 DEF UpdateRead, RestorePreview, Starts
<1> QED
  BY <1>1, <1>2, <1>3, <1>4 DEF WorkMoves

\* An open membership is as old as its canonical.
LEMMA MembershipsOnlyBegin ==
  ASSUME TypeOK, [Next]_vars, NEW m \in memberships', m.open
  PROVE  m \in memberships \/ Unused(m.canonical)
<1>1. CASE StepWrites \/ \E S \in SUBSET Ids : Forget(S)
  BY <1>1 DEF StepWrites, Forget
<1>2. CASE (\E dead : TtlPurge(dead)) \/ \E w \in Purgers : PurgeApply(w)
  BY <1>2 DEF TtlPurge, PurgeApply, Erase
<1>3. CASE \E w \in Mergers, body \in Bodies : MergeApply(w, body)
  BY <1>3 DEF MergeApply
<1>4. ASSUME NEW w \in Operators, RestoreApply(w)
      PROVE  m \in memberships
  <2>1. PICK ended \in SUBSET memberships :
          memberships' = (memberships \ ended) \cup {[o EXCEPT !.open = FALSE] : o \in ended}
    BY <1>4 DEF RestoreApply, OpenMembers
  <2>2. \A o \in memberships : ~[o EXCEPT !.open = FALSE].open
    BY DEF TypeOK, Membership
  <2> QED
    BY <2>1, <2>2
<1> QED
  BY <1>1, <1>2, <1>3, <1>4, StepKinds

LEMMA ManifestsStep ==
  ASSUME TypeOK, LinkInv, ManifestsCover, [Next]_vars
  PROVE  ManifestsCover'
<1> SUFFICES ASSUME NEW w \in Workers, work'[w].op = "restore"
             PROVE  LET c == work'[w].canonical.id
                    IN  /\ mem'[c].life # "none"
                        /\ \A m \in memberships' : m.canonical = c /\ m.open =>
                             m.member \in {a.id : a \in work'[w].members}
  BY DEF ManifestsCover, OpenMembers
<1>1. work \in [Workers -> Work] /\ WorkMoves(w) /\ Idle.op # "restore"
  BY StepWork DEF TypeOK, Idle
<1>2. CASE work'[w] = work[w]
  <2> DEFINE c == work[w].canonical.id
  <2>1. /\ mem[c].life # "none"
        /\ \A m \in memberships : m.canonical = c /\ m.open => m.member \in {a.id : a \in work[w].members}
    BY <1>2 DEF ManifestsCover, OpenMembers
  <2>2. c \in Ids
    <3>1. work[w] \in Work /\ work[w].op = "restore"
      BY <1>2, TypeFacts
    <3> QED
      BY <3>1 DEF Work, Approval
  <2> HIDE DEF c
  <2>3. mem'[c].life # "none"
    BY <2>1, <2>2, StepMoves, MovedFields, ErasedFields DEF Begins, BeginsCanonical, IsErased, Unused
  <2>4. \A m \in memberships' : m.canonical = c /\ m.open => m \in memberships
    BY <2>1, MembershipsOnlyBegin DEF Unused
  <2> QED
    BY <1>2, <2>1, <2>3, <2>4 DEF c
<1>3. ASSUME NEW c \in Ids, RestorePreview(w, c)
      PROVE  /\ work'[w].canonical.id = c
             /\ mem'[c].life # "none"
             /\ \A m \in memberships' : m.canonical = c /\ m.open =>
                  m.member \in {a.id : a \in work'[w].members}
  <2>1. /\ work'[w].canonical = Approve(c)
        /\ work'[w].members = {Approve(m.member) : m \in OpenMembers(c)}
        /\ mem' = mem /\ memberships' = memberships /\ OpenMembers(c) # {}
    BY <1>1, <1>3 DEF RestorePreview, Starts
  <2>2. \A i : Approve(i).id = i
    BY DEF Approve
  <2> HIDE DEF Approve
  <2>3. Present(c)
    BY <2>1, LinkFacts DEF OpenMembers
  <2>4. \A m \in OpenMembers(c) : m.member \in {a.id : a \in work'[w].members}
    BY <2>1, <2>2
  <2> QED
    BY <2>1, <2>2, <2>3, <2>4 DEF Present, OpenMembers
<1>4. (~\E t \in Ids, body \in Bodies : UpdateRead(w, t, body)) /\ ~\E S \in SUBSET Ids : MergeLoad(w, S)
  BY <1>1 DEF UpdateRead, MergeLoad, Starts
<1> QED
  BY <1>1, <1>2, <1>3, <1>4 DEF WorkMoves

LEMMA LedgerInvariant == Spec => [](TypeOK /\ LinkInv /\ LedgerInv)
<1>1. Init => TypeOK /\ LinkInv /\ LedgerInv
  BY TypeInit, LinkInit DEF Init, LedgerInv, WordedRows, MergesLarge, ManifestsCover, NoRow, Present, Idle
<1>2. TypeOK /\ LinkInv /\ LedgerInv /\ [Next]_vars => TypeOK' /\ LinkInv' /\ LedgerInv'
  BY TypeStep, LinkStep, WordedStep, MergesLargeStep, ManifestsStep DEF LedgerInv
<1> QED
  BY <1>1, <1>2, PTL DEF Spec

(***************************************************************************)
(* The refinement of BeliefLedger: the five variables of the ledger, as    *)
(* the rows determine them, and what each kind of step does to them.       *)
(***************************************************************************)
Phase == [i \in Ids |-> PhaseOf(mem[i])]
Text == [i \in Ids |-> mem[i].body]
FoldedInto == [i \in Ids |-> mem[i].into]
Permanent == {i \in Ids : Present(i) /\ mem[i].exp = Never}
Profile == {i \in Ids : Present(i) /\ mem[i].key \in Months}

LedgerStep == [Ledger!LedgerNext]_(Ledger!ledger)

LEMMA PhaseValue ==
  ASSUME NEW r
  PROVE  /\ r.life = "none" => PhaseOf(r) = "absent"
         /\ r.life = "gone" => PhaseOf(r) = "gone"
         /\ r.life = "row" /\ r.del # Never => PhaseOf(r) = "forgotten"
         /\ r.life = "row" /\ r.del = Never /\ r.to # Never => PhaseOf(r) = "past"
         /\ r.life = "row" /\ r.del = Never /\ r.to = Never /\ r.into # None => PhaseOf(r) = "folded"
         /\ r.life = "row" /\ r.del = Never /\ r.to = Never /\ r.into = None => PhaseOf(r) = "shown"
BY DEF PhaseOf

\* What the ledger records of a row.
SameEntry(i) ==
  /\ mem'[i].life = mem[i].life /\ mem'[i].body = mem[i].body /\ mem'[i].into = mem[i].into
  /\ mem'[i].del = mem[i].del /\ mem'[i].to = mem[i].to /\ mem'[i].exp = mem[i].exp
  /\ mem'[i].key = mem[i].key

LEMMA LedgerStutters ==
  ASSUME \A i \in Ids : SameEntry(i)
  PROVE  LedgerStep
<1>1. \A i \in Ids : PhaseOf(mem'[i]) = PhaseOf(mem[i])
  BY DEF SameEntry, PhaseOf
<1>2. UNCHANGED Ledger!ledger
  BY <1>1 DEF SameEntry, Ledger!ledger, Present
<1> QED
  BY <1>2 DEF LedgerStep

LEMMA LedgerPublish ==
  ASSUME TypeOK, TypeOK', LinkInv, NEW i \in Ids, NEW body \in Bodies, Unused(i),
         mem'[i].life = "row", mem'[i].body = body, mem'[i].into = None,
         mem'[i].del = Never, mem'[i].to = Never, \A j \in Ids \ {i} : mem'[j] = mem[j]
  PROVE  LedgerStep
<1>1. PhaseOf(mem[i]) = "absent" /\ PhaseOf(mem'[i]) = "shown"
  <2>1. mem[i] \in Row /\ mem'[i] \in Row
    BY DEF TypeOK
  <2> QED
    BY <2>1, PhaseValue DEF Unused
<1>2. mem[i].into = None
  BY DEF LinkInv, BareRowsFree, Unused, Present
<1>3. Ledger!Publish(i, body)
  BY <1>1, <1>2 DEF Ledger!Publish, Present, Unused
<1> QED
  BY <1>3 DEF LedgerStep, Ledger!LedgerNext

LEMMA LedgerAmend ==
  ASSUME TypeOK, TypeOK', NEW i \in Ids, NEW body \in Bodies,
         Present(i), mem[i].del = Never, Current(i), mem[i].into = None,
         mem'[i].life = "row", mem'[i].body = body, mem'[i].into = None, mem'[i].key = mem[i].key,
         mem'[i].del = Never, mem'[i].to = Never, \A j \in Ids \ {i} : mem'[j] = mem[j]
  PROVE  LedgerStep
<1>1. PhaseOf(mem[i]) = "shown" /\ PhaseOf(mem'[i]) = "shown"
  <2>1. mem[i] \in Row /\ mem'[i] \in Row
    BY DEF TypeOK
  <2> QED
    BY <2>1, PhaseValue DEF Present, Current
<1>2. Ledger!Amend(i, body)
  BY <1>1 DEF Ledger!Amend, Present
<1> QED
  BY <1>2 DEF LedgerStep, Ledger!LedgerNext

LEMMA LedgerReplace ==
  ASSUME TypeOK, TypeOK', LinkInv, NEW p \in Ids, NEW s \in Ids, NEW body \in Bodies, p # s,
         Visible(p), Unused(s) \/ Visible(s),
         mem'[p] = Closed(mem[p]), mem'[s].life = "row", mem'[s].body = body, mem'[s].into = None,
         mem'[s].del = Never, mem'[s].to = Never, mem'[s].exp = Never,
         Visible(s) => mem'[s].key = mem[s].key,
         \A j \in Ids \ {p, s} : mem'[j] = mem[j]
  PROVE  LedgerStep
<1>1. mem[p] \in Row /\ mem'[p] \in Row /\ mem[s] \in Row /\ mem'[s] \in Row /\ now \in Nat
  BY DEF TypeOK
<1>2. /\ Present(p) /\ mem[p].del = Never /\ mem[p].to = Never /\ mem[p].into = None
      /\ Present(s) => mem[s].del = Never /\ mem[s].to = Never /\ mem[s].into = None
      /\ mem[s].into = None
  BY DEF Visible, Active, Current, Unused, Present, LinkInv, BareRowsFree
<1>3. Unworded(mem[p], mem'[p]) /\ mem'[p].into = None /\ mem'[p].del = Never /\ mem'[p].to # Never
  BY <1>1, <1>2 DEF Closed, Row, Unworded, Never
<1>4. /\ PhaseOf(mem[p]) = "shown" /\ PhaseOf(mem'[p]) = "past"
      /\ PhaseOf(mem[s]) \in {"absent", "shown"} /\ PhaseOf(mem'[s]) = "shown"
  BY <1>1, <1>2, <1>3, PhaseValue DEF Present, Unused, Unworded, Visible, Active
<1>5. Ledger!Replace(p, s, body)
  <2>1. Phase' = [Phase EXCEPT ![p] = "past", ![s] = "shown"]
    BY <1>4 DEF Phase
  <2>2. Text' = [Text EXCEPT ![s] = body]
    BY <1>3 DEF Text, Unworded
  <2>3. FoldedInto' = FoldedInto
    BY <1>2, <1>3 DEF FoldedInto
  <2>4. Permanent' = Permanent \cup {s}
    BY <1>3 DEF Permanent, Present, Unworded
  <2>5. \A i \in Ids \ {s} : i \in Profile' <=> i \in Profile
    BY <1>3 DEF Profile, Present, Unworded
  <2>6. s \in Profile => s \in Profile'
    BY DEF Profile, Present, Unused, Visible, Active
  <2>7. Profile' = Profile \/ Profile' = Profile \cup {s}
    <3>1. Profile \subseteq Ids /\ Profile' \subseteq Ids
      BY DEF Profile
    <3> HIDE DEF Profile
    <3> QED
      BY <2>5, <2>6, <3>1
  <2> QED
    BY <1>4, <2>1, <2>2, <2>3, <2>4, <2>7
    DEF Ledger!Replace, Phase, Text, FoldedInto, Permanent, Profile
<1> QED
  BY <1>5 DEF LedgerStep, Ledger!LedgerNext

LEMMA LedgerInsert ==
  ASSUME TypeOK, TypeOK', LinkInv, NEW key, NEW body \in Bodies, NEW exp, Insert(key, body, exp)
  PROVE  LedgerStep
<1>1. PICK i \in Ids : Unused(i) /\ mem' = [mem EXCEPT ![i] = NewRow("semantic", key, body, None, exp)]
  BY DEF Insert
<1>2. mem'[i] = NewRow("semantic", key, body, None, exp) /\ \A j \in Ids \ {i} : mem'[j] = mem[j]
  BY <1>1 DEF TypeOK
<1>3. /\ mem'[i].life = "row" /\ mem'[i].body = body /\ mem'[i].into = None
      /\ mem'[i].del = Never /\ mem'[i].to = Never
  BY <1>2 DEF NewRow, NoRow
<1> QED
  BY <1>1, <1>2, <1>3, LedgerPublish

LEMMA LedgerStoreUnkeyed ==
  ASSUME TypeOK, TypeOK', LinkInv, NEW body \in Bodies, NEW ttl, NEW dedupe,
         StoreUnkeyed(body, ttl, dedupe)
  PROVE  LedgerStep
<1>1. CASE Boost(body)
  <2>1. PICK j \in Ids, retag \in BOOLEAN : mem' = [mem EXCEPT ![j].rev = IF retag THEN @ + 1 ELSE @]
    BY <1>1 DEF Boost
  <2>2. \A i \in Ids : SameEntry(i)
    BY <2>1 DEF TypeOK, Row, SameEntry
  <2> QED
    BY <2>2, LedgerStutters
<1>2. CASE Insert(None, body, ExpiryOf(ttl))
  BY <1>2, LedgerInsert
<1> QED
  BY <1>1, <1>2 DEF StoreUnkeyed

LEMMA LedgerStoreKeyed ==
  ASSUME TypeOK, TypeOK', LinkInv, NEW key \in Keys, NEW body \in Bodies, NEW ttl,
         StoreKeyed(key, body, ttl)
  PROVE  LedgerStep
<1>1. ASSUME NEW i \in Ids, NEW retag \in BOOLEAN, ReplaceKeyed(i, key, body, ExpiryOf(ttl), retag)
      PROVE  LedgerStep
  <2>1. /\ mem'[i] = Replaced(mem[i], body, ExpiryOf(ttl), retag)
        /\ \A j \in Ids \ {i} : mem'[j] = mem[j]
    BY <1>1 DEF ReplaceKeyed, TypeOK
  <2>2. Present(i) /\ mem[i].del = Never /\ Current(i) /\ mem[i].into = None
    BY <1>1 DEF ReplaceKeyed, Holds
  <2>3. mem[i] \in Row
    BY TypeFacts
  <2>4. /\ mem'[i].life = "row" /\ mem'[i].body = body /\ mem'[i].into = None
        /\ mem'[i].del = Never /\ mem'[i].to = Never /\ mem'[i].key = mem[i].key
    BY <2>1, <2>2, <2>3 DEF Replaced, Row, Present, Current
  <2> QED
    BY <2>1, <2>2, <2>4, LedgerAmend
<1> QED
  BY <1>1, LedgerInsert DEF StoreKeyed

\* A patch rewords its row; with a link, the row also takes another one's place.
LEMMA LedgerApplyUpdate ==
  ASSUME TypeOK, TypeOK', LinkInv, NEW t \in Ids, NEW body \in Bodies, NEW vec, NEW retag \in BOOLEAN,
         NEW link \in Ids \cup {None}, ApplyUpdate(t, body, vec, retag, link)
  PROVE  LedgerStep
<1>1. /\ mem[t] \in Row /\ mem'[t] = Patched(mem[t], body, vec, retag, link)
      /\ Visible(t) /\ Present(t) /\ mem[t].del = Never /\ Current(t) /\ mem[t].into = None
  BY TypeFacts DEF ApplyUpdate, Editable, Visible, Active
<1>2. /\ mem'[t].life = "row" /\ mem'[t].body = body /\ mem'[t].into = None
      /\ mem'[t].del = Never /\ mem'[t].to = Never /\ mem'[t].exp = mem[t].exp
      /\ mem'[t].key = mem[t].key
  BY <1>1 DEF Patched, Row, Present, Current
<1>3. CASE link = None
  <2>1. \A j \in Ids \ {t} : mem'[j] = mem[j]
    BY <1>3, NoneAssumption DEF ApplyUpdate
  <2> QED
    BY <1>1, <1>2, <2>1, LedgerAmend
<1>4. CASE link \in Ids
  <2>1. CanLink(t, link)
    BY <1>4, NoneAssumption DEF ApplyUpdate
  <2>2. link # t
    BY <2>1 DEF CanLink, Ancestors
  <2>3. Visible(link) /\ mem'[t].exp = Never
    BY <1>2, <2>1 DEF CanLink, Editable
  <2>4. mem'[link] = Closed(mem[link]) /\ \A j \in Ids \ {link, t} : mem'[j] = mem[j]
    BY <1>4, <2>2 DEF ApplyUpdate
  <2> QED
    BY <1>1, <1>2, <1>4, <2>2, <2>3, <2>4, LedgerReplace
<1> QED
  BY <1>3, <1>4

LEMMA LedgerSucceed ==
  ASSUME TypeOK, TypeOK', LinkInv, NEW p \in Ids, NEW key, NEW body \in Bodies, Visible(p),
         Succeed(p, key, body)
  PROVE  LedgerStep
<1>1. PICK s \in Ids :
        /\ Unused(s)
        /\ mem' = [mem EXCEPT ![p] = Closed(@), ![s] = NewRow("semantic", key, body, p, Never)]
  BY DEF Succeed
<1>2. p # s
  BY <1>1 DEF Visible, Active, Present, Unused
<1>3. /\ mem'[p] = Closed(mem[p]) /\ mem'[s] = NewRow("semantic", key, body, p, Never)
      /\ \A j \in Ids \ {p, s} : mem'[j] = mem[j]
  BY <1>1, <1>2 DEF TypeOK
<1>4. /\ mem'[s].life = "row" /\ mem'[s].body = body /\ mem'[s].into = None
      /\ mem'[s].del = Never /\ mem'[s].to = Never /\ mem'[s].exp = Never
  BY <1>3 DEF NewRow, NoRow
<1> QED
  BY <1>1, <1>2, <1>3, <1>4, LedgerReplace DEF Visible, Active, Present, Unused

LEMMA LedgerRevise ==
  ASSUME TypeOK, TypeOK', LinkInv, NEW w \in Classifiers, ReviseCommit(w) \/ ReviseDecline(w)
  PROVE  LedgerStep
<1>1. work[w].pred \in Ids /\ work[w].body \in Bodies
  <2>1. work[w] \in Work /\ work[w].op = "revise"
    BY TypeFacts, WorkersType DEF ReviseCommit, ReviseDecline
  <2> QED
    BY <2>1 DEF Work
<1>2. (\E dedupe \in BOOLEAN : StoreUnkeyed(work[w].body, Never, dedupe)) => LedgerStep
  BY <1>1, LedgerStoreUnkeyed
<1>3. Supersedable(work[w].pred) /\ Succeed(work[w].pred, None, work[w].body) => LedgerStep
  BY <1>1, LedgerSucceed DEF Supersedable, Candidate
<1> QED
  BY <1>2, <1>3 DEF ReviseCommit, ReviseDecline

\* A canonical is retracted with its member, or was a tombstone already.
LEMMA LedgerForget ==
  ASSUME TypeOK, TypeOK', LinkInv, NEW S \in SUBSET Ids, Forget(S)
  PROVE  LedgerStep
<1> DEFINE targets == S \cup ({mem[i].into : i \in S} \ {None})
           gone == {i \in Ids : i \in targets /\ Active(i)}
<1>1. mem' = [i \in Ids |-> IF i \in targets /\ Active(i) THEN Tombstoned(mem[i]) ELSE mem[i]]
  BY DEF Forget
<1>2. \A i \in targets : mem[i].into # None => mem[i].into \in targets
  <2>1. \A i \in S : mem[i].into # None => mem[mem[i].into].into = None
    BY LinkFacts
  <2> QED
    BY <2>1
<1> HIDE DEF targets
<1>3. \A i \in gone : Unworded(mem[i], mem'[i]) /\ mem'[i].into = mem[i].into /\ mem'[i].del # Never
  <2> SUFFICES ASSUME NEW i \in gone
               PROVE  Unworded(mem[i], mem'[i]) /\ mem'[i].into = mem[i].into /\ mem'[i].del # Never
    OBVIOUS
  <2>1. mem[i] \in Row /\ now \in Nat /\ mem'[i] = Tombstoned(mem[i])
    BY <1>1, TypeFacts
  <2> QED
    BY <2>1 DEF Tombstoned, Row, Unworded, Never
<1>4. \A i \in Ids \ gone : mem'[i] = mem[i]
  BY <1>1
<1>5. \A i \in gone : i \in Ids /\ Present(i) /\ mem[i].del = Never /\ i \in targets
  BY DEF Active
<1>6. \A i \in gone : mem[i].into # None =>
        mem[i].into \in gone \/ (mem[i].into \in Ids /\ PhaseOf(mem[mem[i].into]) = "forgotten")
  <2> SUFFICES ASSUME NEW i \in gone, mem[i].into # None
               PROVE  \/ mem[i].into \in gone
                      \/ mem[i].into \in Ids /\ PhaseOf(mem[mem[i].into]) = "forgotten"
    OBVIOUS
  <2> DEFINE c == mem[i].into
  <2>1. c \in Ids /\ Present(c) /\ mem[c].exp = Never /\ c \in targets
    BY <1>2, <1>5, LinkFacts
  <2> HIDE DEF c
  <2>2. CASE mem[c].del = Never
    BY <2>1, <2>2 DEF Active, Expired, c
  <2>3. CASE mem[c].del # Never
    BY <2>1, <2>3, PhaseValue DEF Present, c
  <2> QED
    BY <2>2, <2>3
<1> HIDE DEF gone
<1>7. \A i \in gone : PhaseOf(mem[i]) \in {"shown", "past", "folded"} /\ PhaseOf(mem'[i]) = "forgotten"
  BY <1>3, <1>5, PhaseValue DEF Unworded, Present
<1>8. Ledger!Retract(gone)
  <2>1. Phase' = [i \in Ids |-> IF i \in gone THEN "forgotten" ELSE Phase[i]]
    BY <1>4, <1>7 DEF Phase
  <2>2. Text' = Text /\ FoldedInto' = FoldedInto /\ Permanent' = Permanent /\ Profile' = Profile
    BY <1>3, <1>4 DEF Text, FoldedInto, Permanent, Profile, Unworded, Present
  <2>3. \A i \in gone : Phase[i] \in {"shown", "past", "folded"}
    BY <1>5, <1>7 DEF Phase
  <2>4. \A i \in gone : FoldedInto[i] # None =>
          FoldedInto[i] \in gone \/ Phase[FoldedInto[i]] = "forgotten"
    BY <1>5, <1>6 DEF Phase, FoldedInto
  <2> QED
    BY <2>1, <2>2, <2>3, <2>4 DEF Ledger!Retract, Phase, Text, FoldedInto, Permanent, Profile
<1>9. gone \in SUBSET Ids
  BY <1>5
<1> QED
  BY <1>8, <1>9 DEF LedgerStep, Ledger!LedgerNext

LEMMA TwoOfMany ==
  ASSUME NEW S, IsFiniteSet(S), Cardinality(S) >= 2
  PROVE  \E i, j \in S : i # j
<1>1. Cardinality(S) # 0 /\ Cardinality(S) # 1
  BY FS_CardinalityType
<1>2. S # {}
  BY <1>1, FS_EmptySet, Zenon
<1>3. ~\E x : S = {x}
  BY <1>1, FS_Singleton, Zenon
<1>4. PICK i \in S : TRUE
  BY <1>2
<1>5. S # {i}
  BY <1>3
<1> QED
  BY <1>4, <1>5

LEMMA LedgerMerge ==
  ASSUME TypeOK, TypeOK', LinkInv, LedgerInv, NEW w \in Mergers, NEW body \in Bodies,
         MergeApply(w, body)
  PROVE  LedgerStep
<1> DEFINE members == {s.id : s \in work[w].seen}
<1>1. PICK c \in Ids :
        /\ Unused(c)
        /\ mem' = [i \in Ids |-> IF i = c THEN NewRow("consolidation", c, body, None, Never)
                                   ELSE IF i \in members THEN Linked(mem[i], c)
                                   ELSE mem[i]]
  BY DEF MergeApply
<1>2. /\ work[w].op = "merge"
      /\ \A i \in members : Eligible(i)
  BY DEF MergeApply, Fresh
<1>3. members \subseteq Ids
  <2>1. work[w] \in Work
    BY TypeFacts, WorkersType
  <2>2. work[w].seen \subseteq Snapshot
    BY <1>2, <2>1 DEF Work
  <2> QED
    BY <2>2 DEF Snapshot
<1>4. Cardinality(members) >= 2
  BY <1>2, WorkersType DEF LedgerInv, MergesLarge
<1> HIDE DEF members
<1> Ledger!Several(members)
  BY <1>3, <1>4, IdsAssumption, FS_Subset, TwoOfMany DEF Ledger!Several
<1>5. \A i \in members : i # c /\ Present(i) /\ mem[i].del = Never /\ mem[i].to = Never /\ mem[i].into = None
  BY <1>1, <1>2 DEF Eligible, Candidate, Visible, Active, Current, Present, Unused
<1>6. /\ mem'[c].life = "row" /\ mem'[c].body = body /\ mem'[c].into = None
      /\ mem'[c].del = Never /\ mem'[c].to = Never /\ mem'[c].exp = Never
  <2>1. mem'[c] = NewRow("consolidation", c, body, None, Never)
    BY <1>1
  <2> QED
    BY <2>1 DEF NewRow, NoRow
<1>7. \A i \in members : /\ Unworded(mem[i], mem'[i]) /\ mem'[i].into = c
                         /\ mem'[i].del = Never /\ mem'[i].to = Never
  <2> SUFFICES ASSUME NEW i \in members
               PROVE  /\ Unworded(mem[i], mem'[i]) /\ mem'[i].into = c
                      /\ mem'[i].del = Never /\ mem'[i].to = Never
    OBVIOUS
  <2>1. mem[i] \in Row /\ mem'[i] = Linked(mem[i], c) /\ mem[i].del = Never /\ mem[i].to = Never
    BY <1>1, <1>3, <1>5, TypeFacts
  <2> QED
    BY <2>1 DEF Linked, Row, Unworded
<1>8. \A i \in Ids : i \notin members /\ i # c => mem'[i] = mem[i]
  BY <1>1
<1>9. PhaseOf(mem[c]) = "absent" /\ PhaseOf(mem'[c]) = "shown" /\ mem[c].into = None
  BY <1>1, <1>6, PhaseValue DEF Unused, LinkInv, BareRowsFree, Present
<1>10. \A i \in members : PhaseOf(mem[i]) = "shown" /\ PhaseOf(mem'[i]) = "folded"
  <2>1. c # None
    BY NoneAssumption
  <2> QED
    BY <1>5, <1>7, <2>1, PhaseValue DEF Unworded, Present
<1>11. Ledger!Fold(members, c, body)
  <2>1. Phase' = [i \in Ids |-> IF i \in members THEN "folded" ELSE IF i = c THEN "shown" ELSE Phase[i]]
    BY <1>8, <1>9, <1>10 DEF Phase
  <2>2. Text' = [Text EXCEPT ![c] = body]
    BY <1>6, <1>7, <1>8 DEF Text, Unworded
  <2>3. FoldedInto' = [i \in Ids |-> IF i \in members THEN c ELSE FoldedInto[i]]
    BY <1>6, <1>7, <1>8, <1>9 DEF FoldedInto
  <2>4. Permanent' = Permanent \cup {c}
    BY <1>6, <1>7, <1>8 DEF Permanent, Unworded, Present
  <2>5. (\A i \in members : Phase[i] = "shown") /\ Phase[c] = "absent"
    BY <1>3, <1>9, <1>10 DEF Phase
  <2>6. Profile' = Profile
    <3>1. mem'[c].key = c /\ c \notin Months /\ ~Present(c)
      BY <1>1, KeysAssumption DEF NewRow, NoRow, Unused, Present
    <3> QED
      BY <1>7, <1>8, <3>1 DEF Profile, Unworded, Present
  <2> QED
    BY <2>1, <2>2, <2>3, <2>4, <2>5, <2>6
    DEF Ledger!Fold, Phase, Text, FoldedInto, Permanent, Profile
<1> QED
  BY <1>3, <1>11 DEF LedgerStep, Ledger!LedgerNext

\* Two entries of an approved manifest name two rows.
LEMMA ManifestIds ==
  ASSUME NEW A, \A a \in A : Approve(a.id) = a /\ a.id \in Ids, Cardinality(A) >= 2
  PROVE  \E i, j \in {a.id : a \in A} : i # j
<1> DEFINE f == [a \in A |-> a.id]
<1>1. f \in [A -> Ids] /\ \A a, b \in A : f[a] = f[b] => a = b
  OBVIOUS
<1> HIDE DEF f
<1>2. f \in Injection(A, Ids)
  BY <1>1 DEF Injection, IsInjective
<1>3. IsFiniteSet(A)
  BY <1>2, IdsAssumption, FS_Injection
<1>4. PICK a, b \in A : a # b
  BY <1>3, TwoOfMany
<1>5. a.id # b.id
  BY <1>4
<1> QED
  BY <1>5

\* The manifest covers what is folded, so a restoration unfolds all of it.
LEMMA LedgerRestore ==
  ASSUME TypeOK, TypeOK', LinkInv, LedgerInv, NEW w \in Operators, RestoreApply(w)
  PROVE  LedgerStep
<1> DEFINE restored == {a.id : a \in work[w].members}
<1>1. /\ work[w].canonical.id \in Ids /\ work[w].op = "restore"
      /\ \A a \in work[w].members : a.id \in Ids
  <2>1. work[w] \in Work /\ work[w].op = "restore"
    BY TypeFacts, WorkersType DEF RestoreApply
  <2> QED
    BY <2>1 DEF Work, Approval
<1>2. PICK c \in Ids : c = work[w].canonical.id
  BY <1>1
<1>3. /\ Present(c) /\ mem[c].kind = "consolidation"
      /\ \A a \in work[w].members : mem[a.id].into = c /\ Approve(a.id) = a
      /\ Cardinality(work[w].members) >= 2
      /\ mem' = [i \in Ids |-> IF i = c THEN Tombstoned(mem[i])
                                 ELSE IF i \in restored THEN Unlinked(mem[i])
                                 ELSE mem[i]]
  BY <1>2 DEF RestoreApply
<1> Ledger!Several(restored)
  BY <1>1, <1>3, ManifestIds DEF Ledger!Several
<1>4. restored = {i \in Ids : mem[i].into = c}
  <2>1. c # None
    BY NoneAssumption
  <2>2. \A m \in OpenMembers(c) : m.member \in restored
    BY <1>1, <1>2, WorkersType DEF LedgerInv, ManifestsCover
  <2>3. \A i \in Ids : mem[i].into = c => i \in restored
    <3> SUFFICES ASSUME NEW i \in Ids, mem[i].into = c
                 PROVE  i \in restored
      OBVIOUS
    <3>1. PICK m \in memberships : m.open /\ m.member = i /\ m.canonical = c
      BY <2>1, LinkFacts
    <3> QED
      BY <2>2, <3>1 DEF OpenMembers
  <2> QED
    BY <1>1, <1>3, <2>3
<1> HIDE DEF restored
<1>5. mem[c].into = None /\ \A i \in restored : i \in Ids /\ i # c /\ Present(i)
  <2>1. c # None
    BY NoneAssumption
  <2> QED
    BY <1>2, <1>3, <1>4, <2>1, LinkFacts
<1>6. Unworded(mem[c], mem'[c]) /\ mem'[c].into = None /\ mem'[c].del # Never
  <2>1. mem'[c] = Tombstoned(mem[c]) /\ mem[c] \in Row /\ now \in Nat
    BY <1>3, TypeFacts
  <2> QED
    BY <1>5, <2>1 DEF Tombstoned, Row, Unworded, Never
<1>7. \A i \in restored : /\ Unworded(mem[i], mem'[i]) /\ mem'[i].into = None
                          /\ mem'[i].del = mem[i].del /\ mem'[i].to = mem[i].to
  <2> SUFFICES ASSUME NEW i \in restored
               PROVE  /\ Unworded(mem[i], mem'[i]) /\ mem'[i].into = None
                      /\ mem'[i].del = mem[i].del /\ mem'[i].to = mem[i].to
    OBVIOUS
  <2>1. mem'[i] = Unlinked(mem[i]) /\ mem[i] \in Row
    BY <1>3, <1>5, TypeFacts
  <2> QED
    BY <2>1 DEF Unlinked, Row, Unworded
<1>8. \A i \in Ids : i \notin restored /\ i # c => mem'[i] = mem[i]
  BY <1>3
<1>9. PhaseOf(mem'[c]) = "forgotten"
  BY <1>3, <1>6, PhaseValue DEF Unworded, Present
<1>10. \A i \in restored :
         PhaseOf(mem'[i]) = IF PhaseOf(mem[i]) = "folded" THEN "shown" ELSE PhaseOf(mem[i])
  <2> SUFFICES ASSUME NEW i \in restored
               PROVE  PhaseOf(mem'[i]) = IF PhaseOf(mem[i]) = "folded" THEN "shown"
                                         ELSE PhaseOf(mem[i])
    OBVIOUS
  <2>1. mem[i].into # None
    BY <1>4, NoneAssumption
  <2>2. mem[i].life = "row" /\ mem'[i].life = "row" /\ mem'[i].into = None
        /\ mem'[i].del = mem[i].del /\ mem'[i].to = mem[i].to
    BY <1>5, <1>7 DEF Unworded, Present
  <2> QED
    BY <2>1, <2>2, PhaseValue
<1>11. Ledger!Unfold(c)
  <2>1. {i \in Ids : FoldedInto[i] = c} = restored
    BY <1>4 DEF FoldedInto
  <2>2. Phase' = [i \in Ids |-> IF i = c THEN "forgotten"
                                ELSE IF i \in restored /\ Phase[i] = "folded" THEN "shown"
                                ELSE Phase[i]]
    BY <1>8, <1>9, <1>10 DEF Phase
  <2>3. FoldedInto' = [i \in Ids |-> IF i \in restored THEN None ELSE FoldedInto[i]]
    BY <1>5, <1>6, <1>7, <1>8 DEF FoldedInto
  <2>4. Text' = Text /\ Permanent' = Permanent /\ Profile' = Profile
    BY <1>6, <1>7, <1>8 DEF Text, Permanent, Profile, Unworded, Present
  <2> QED
    BY <2>1, <2>2, <2>3, <2>4 DEF Ledger!Unfold, Phase, Text, FoldedInto, Permanent, Profile
<1> QED
  BY <1>11 DEF LedgerStep, Ledger!LedgerNext

LEMMA LedgerErase ==
  ASSUME TypeOK, TypeOK', LinkInv, NEW dead \in SUBSET Ids, Erase(dead),
         \A i \in dead : Present(i) /\ (mem[i].exp # Never \/ mem[i].del # Never),
         \A i \in Ids \ dead : mem[i].into \notin dead
  PROVE  LedgerStep
<1>1. /\ \A i \in dead : mem'[i] = Erased
      /\ \A i \in Ids \ dead : mem'[i] = mem[i]
  BY DEF Erase
<1>2. \A i \in dead : /\ PhaseOf(mem'[i]) = "gone" /\ mem'[i].body = None /\ mem'[i].into = None
                      /\ mem'[i].life # "row"
  BY <1>1, ErasedFields, PhaseValue
<1>3. \A i \in dead : PhaseOf(mem[i]) = "forgotten" \/ (PhaseOf(mem[i]) # "absent" /\ mem[i].exp # Never)
  <2> SUFFICES ASSUME NEW i \in dead
               PROVE  PhaseOf(mem[i]) = "forgotten" \/ (PhaseOf(mem[i]) # "absent" /\ mem[i].exp # Never)
    OBVIOUS
  <2>1. mem[i].life = "row" /\ (mem[i].exp # Never \/ mem[i].del # Never)
    BY DEF Present
  <2> QED
    BY <2>1, PhaseValue
<1>4. Ledger!Drop(dead)
  <2>1. Phase' = [i \in Ids |-> IF i \in dead THEN "gone" ELSE Phase[i]]
    BY <1>1, <1>2 DEF Phase
  <2>2. /\ Text' = [i \in Ids |-> IF i \in dead THEN None ELSE Text[i]]
        /\ FoldedInto' = [i \in Ids |-> IF i \in dead THEN None ELSE FoldedInto[i]]
    BY <1>1, <1>2 DEF Text, FoldedInto
  <2>3. Permanent' = Permanent \ dead /\ Profile' = Profile \ dead
    BY <1>1, <1>2 DEF Permanent, Profile, Present
  <2>4. \A i \in dead : Phase[i] = "forgotten" \/ (Phase[i] # "absent" /\ i \notin Permanent)
    BY <1>3 DEF Phase, Permanent
  <2>5. \A i \in Ids \ dead : FoldedInto[i] \notin dead
    BY DEF FoldedInto
  <2> QED
    BY <2>1, <2>2, <2>3, <2>4, <2>5 DEF Ledger!Drop, Phase, Text, FoldedInto, Permanent, Profile
<1> QED
  BY <1>4 DEF LedgerStep, Ledger!LedgerNext

LEMMA LedgerTaste ==
  ASSUME TypeOK, TypeOK', LinkInv, NEW month \in Months, NEW body \in Bodies,
         TasteUpsert(month, body)
  PROVE  LedgerStep
<1>1. ASSUME NEW i \in Ids, NEW retag \in BOOLEAN, Rewrite(i, month, body, retag)
      PROVE  LedgerStep
  <2>1. /\ mem'[i] = Replaced(mem[i], body, mem[i].exp, retag)
        /\ \A j \in Ids \ {i} : mem'[j] = mem[j]
    BY <1>1 DEF Rewrite, TypeOK
  <2>2. Present(i) /\ mem[i].del = Never /\ mem[i].into = None /\ mem[i].key \in Months
    BY <1>1, NoneAssumption DEF Rewrite, Holds, LinkInv, HiddenRowsPlain
  <2>3. mem[i] \in Row
    BY TypeFacts
  <2>4. /\ mem'[i].life = "row" /\ mem'[i].body = body /\ mem'[i].into = None
        /\ mem'[i].del = Never /\ mem'[i].to = mem[i].to /\ mem'[i].exp = mem[i].exp
        /\ mem'[i].key = mem[i].key
    BY <2>1, <2>2, <2>3 DEF Replaced, Row, Present
  <2>5. CASE Current(i)
    BY <2>1, <2>2, <2>4, <2>5, LedgerAmend DEF Current
  <2>6. CASE ~Current(i)
    <3>1. PhaseOf(mem[i]) = "past" /\ PhaseOf(mem'[i]) = "past"
      BY <2>2, <2>4, <2>6, PhaseValue DEF Present, Current
    <3>2. Phase' = Phase /\ Phase[i] = "past"
      BY <2>1, <3>1 DEF Phase
    <3>3. Text' = [Text EXCEPT ![i] = body]
      BY <2>1, <2>4 DEF Text
    <3>4. FoldedInto' = FoldedInto /\ Permanent' = Permanent /\ Profile' = Profile /\ i \in Profile
      BY <2>1, <2>2, <2>4 DEF FoldedInto, Permanent, Profile, Present
    <3>5. Ledger!Recompute(i, body)
      BY <3>2, <3>3, <3>4 DEF Ledger!Recompute, Phase, Text, FoldedInto, Permanent, Profile
    <3> QED
      BY <3>5 DEF LedgerStep, Ledger!LedgerNext
  <2> QED
    BY <2>5, <2>6
<1>2. \A p \in TasteSeries : p \in Ids /\ Visible(p)
  BY DEF TasteSeries
<1>3. \A p \in TasteSeries : Succeed(p, month, body) => LedgerStep
  BY <1>2, LedgerSucceed
<1>4. Insert(month, body, Never) => LedgerStep
  BY LedgerInsert
<1> QED
  BY <1>1, <1>3, <1>4 DEF TasteUpsert

LEMMA LedgerNextStep ==
  ASSUME TypeOK, LinkInv, LedgerInv, [Next]_vars
  PROVE  LedgerStep
<1>1. TypeOK'
  BY TypeStep
<1>2. ASSUME NEW body \in Bodies, NEW ttl \in Ttls \cup {Never}, NEW dedupe \in BOOLEAN,
             Store(body, ttl, dedupe)
      PROVE  LedgerStep
  BY <1>1, <1>2, LedgerStoreUnkeyed DEF Store
<1>3. ASSUME NEW key \in Keys, NEW body \in Bodies, NEW ttl \in Ttls \cup {Never},
             StoreKeyed(key, body, ttl)
      PROVE  LedgerStep
  BY <1>1, <1>3, LedgerStoreKeyed
<1>4. ASSUME NEW w \in Editors, NEW link \in Ids \cup {None}, NEW retag \in BOOLEAN,
             UpdateCommit(w, retag, link)
      PROVE  LedgerStep
  <2>1. work[w] \in Work /\ work[w].op = "edit"
    BY <1>4, TypeFacts, WorkersType DEF UpdateCommit
  <2>2. work[w].id \in Ids /\ work[w].body \in Bodies
    BY <2>1 DEF Work
  <2> QED
    BY <1>1, <1>4, <2>2, LedgerApplyUpdate DEF UpdateCommit
<1>5. ASSUME NEW t \in Ids, NEW link \in Ids \cup {None}, NEW retag \in BOOLEAN,
             UpdateDirect(t, retag, link)
      PROVE  LedgerStep
  <2>1. Present(t)
    BY <1>5 DEF UpdateDirect, ApplyUpdate, Editable, Visible, Active
  <2>2. mem[t].body \in Bodies
    BY <2>1 DEF LedgerInv, WordedRows
  <2> QED
    BY <1>1, <1>5, <2>2, LedgerApplyUpdate DEF UpdateDirect
<1>6. ASSUME NEW w \in Classifiers, ReviseCommit(w) \/ ReviseDecline(w)
      PROVE  LedgerStep
  BY <1>1, <1>6, LedgerRevise
<1>7. ASSUME NEW S \in SUBSET Ids, Forget(S)
      PROVE  LedgerStep
  BY <1>1, <1>7, LedgerForget
<1>8. ASSUME NEW w \in Mergers, NEW body \in Bodies, MergeApply(w, body)
      PROVE  LedgerStep
  BY <1>1, <1>8, LedgerMerge
<1>9. ASSUME NEW w \in Operators, RestoreApply(w)
      PROVE  LedgerStep
  BY <1>1, <1>9, LedgerRestore
<1>10. ASSUME NEW dead \in SUBSET Ids, TtlPurge(dead)
       PROVE  LedgerStep
  <2>1. Erase(dead) /\ \A i \in Ids \ dead : mem[i].into \notin dead
    BY <1>10 DEF TtlPurge, TtlBlocked
  <2>2. \A i \in dead : Present(i) /\ mem[i].exp # Never
    BY <1>10 DEF TtlPurge, TtlBatches, Expired
  <2> QED
    BY <1>1, <2>1, <2>2, LedgerErase
<1>11. ASSUME NEW w \in Purgers, PurgeApply(w)
      PROVE  LedgerStep
  <2> DEFINE dead == {d.id : d \in work[w].dead}
  <2>1. Erase(dead) /\ dead = {t \in Tombstones : ~Referenced(t)}
    BY <1>11, PurgedTombstones
  <2> HIDE DEF dead
  <2>2. dead \in SUBSET Ids /\ \A i \in dead : Present(i) /\ mem[i].del # Never
    BY <2>1 DEF Tombstones
  <2>3. \A i \in Ids : mem[i].into \notin dead
    BY <2>1 DEF Referenced
  <2> QED
    BY <1>1, <2>1, <2>2, <2>3, LedgerErase
<1>12. UNCHANGED mem => LedgerStep
  BY LedgerStutters DEF SameEntry
<1>13. /\ Tick => LedgerStep
       /\ \A w, t, body : UpdateRead(w, t, body) => LedgerStep
       /\ \A w : Abandon(w) => LedgerStep
       /\ \A w, p, body : StoreReview(w, p, body) => LedgerStep
       /\ \A w, S : MergeLoad(w, S) => LedgerStep
       /\ \A w, c : RestorePreview(w, c) => LedgerStep
       /\ \A w : PurgePreview(w) => LedgerStep
       /\ UNCHANGED vars => LedgerStep
  BY <1>12 DEF Tick, UpdateRead, Abandon, StoreReview, MergeLoad, RestorePreview, PurgePreview, vars
<1>14. ASSUME NEW month \in Months, NEW body \in Bodies, TasteUpsert(month, body)
       PROVE  LedgerStep
  BY <1>1, <1>14, LedgerTaste
<1> QED
  BY <1>2, <1>3, <1>4, <1>5, <1>6, <1>7, <1>8, <1>9, <1>10, <1>11, <1>13, <1>14 DEF Next

(***************************************************************************)
(* Every step of every operation is a step of the ledger or leaves it as   *)
(* it is.                                                                  *)
(***************************************************************************)
THEOREM RowsImplementLedger == Spec => ImplementsLedger
<1>1. Init => Ledger!LedgerInit
  BY PhaseValue DEF Init, Ledger!LedgerInit, NoRow, Present
<1>2. TypeOK /\ LinkInv /\ LedgerInv /\ [Next]_vars => [Ledger!LedgerNext]_(Ledger!ledger)
  BY LedgerNextStep DEF LedgerStep
<1> QED
  BY <1>1, <1>2, LedgerInvariant, PTL DEF Spec, ImplementsLedger, Ledger!LedgerSpec
=============================================================================

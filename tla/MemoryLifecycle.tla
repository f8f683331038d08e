--------------------------- MODULE MemoryLifecycle ---------------------------
(***************************************************************************)
(* The rows of public.memories and every operation that moves one of them  *)
(* through its life: memory_store, memory_update, automatic belief         *)
(* revision, memory_forget, consolidation and its reversal, the monthly    *)
(* taste profile, TTL purge and tombstone purge.                           *)
(*                                                                         *)
(* A PostgreSQL transaction whose decisions rest on rows it has locked FOR *)
(* UPDATE is one step.  What a client read in an earlier transaction, and  *)
(* still believes after an embedding or a generation call, is its entry in *)
(* work, so that any other operation may come in between.                  *)
(***************************************************************************)
EXTENDS Integers, FiniteSets

CONSTANTS
  Ids,            \* memory UUIDs; one is never used twice
  Bodies,         \* contents; two of them are never similar enough to dedupe
  Keys,           \* idempotency keys of memory_store
  Months,         \* periods of the taste profile, in order
  Ttls,           \* lifetimes a store may ask for
  None,
  Editors,        \* callers of memory_update
  Classifiers,    \* stores that run with automatic mutation enabled
  Mergers,        \* consolidation runs
  Operators,      \* operators of the deconsolidation command
  Purgers,        \* operators of the tombstone purge command
  Retention,      \* age at which a tombstone may be purged
  MaxForgetRows,  \* MAX_FORGET_ROWS
  MaxPurgeRows,   \* MAX_TTL_PURGE_BATCH_SIZE
  MaxClusterSize, \* CONSOLIDATION_MAX_CLUSTER_SIZE
  MaxTime,        \* bound of the model: the database clock stops here
  MaxRevision     \* bound of the model: no patch once a row has this revision

Workers == Editors \cup Classifiers \cup Mergers \cup Operators \cup Purgers

\* A UUID has 128 bits.
ASSUME IdsAssumption == IsFiniteSet(Ids)
ASSUME NoneAssumption == None \notin Ids \cup Bodies \cup Keys \cup Months
ASSUME MonthsAssumption == Months \subseteq Nat
ASSUME KeysAssumption == Ids \cap Keys = {} /\ Ids \cap Months = {} /\ Keys \cap Months = {}
ASSUME TtlsAssumption == Ttls \subseteq Nat \ {0}
ASSUME BoundsAssumption ==
  /\ Retention \in Nat
  /\ MaxForgetRows \in Nat
  /\ MaxPurgeRows \in Nat
  /\ MaxClusterSize \in Nat
  /\ MaxTime \in Nat
  /\ MaxRevision \in Nat

VARIABLES
  mem,          \* memories: the row of every id
  memberships,  \* memory_consolidation_memberships
  work,         \* what each client carries from one transaction to the next
  now           \* statement_timestamp()

vars == <<mem, memberships, work, now>>

(***************************************************************************)
(* Rows.  Never stands for a NULL timestamp.  superseded_at and valid_to   *)
(* are one field, to: every writer sets both and                           *)
(* memories_validity_supersession_check keeps them equal.  vec is the      *)
(* content that the stored embedding was computed from.                    *)
(***************************************************************************)
Never == -1
Time == Nat \cup {Never}

Row == [life : {"none", "row", "gone"},
        kind : {"semantic", "consolidation"},
        key  : Ids \cup Keys \cup Months \cup {None},
        body : Bodies \cup {None},
        vec  : Bodies \cup {None},
        rev  : Nat,
        sup  : Ids \cup {None},
        from : Nat,
        to   : Time,
        exp  : Time,
        into : Ids \cup {None},
        del  : Time]

NoRow == [life |-> "none", kind |-> "semantic", key |-> None, body |-> None, vec |-> None,
          rev |-> 0, sup |-> None, from |-> 0, to |-> Never, exp |-> Never, into |-> None,
          del |-> Never]

Erased == [NoRow EXCEPT !.life = "gone"]

NewRow(kind, key, body, sup, exp) ==
  [NoRow EXCEPT !.life = "row", !.kind = kind, !.key = key, !.body = body, !.vec = body,
                !.sup = sup, !.from = now, !.exp = exp]

\* bump_memory_revision advances the revision with every lifecycle change.
Closed(r) == [r EXCEPT !.to = now, !.rev = @ + 1]
Linked(r, canonical) == [r EXCEPT !.into = canonical, !.rev = @ + 1]


Unlinked(r) == [r EXCEPT !.into = None, !.rev = @ + 1]
Tombstoned(r) == [r EXCEPT !.del = IF @ = Never THEN now ELSE @]

(***************************************************************************)
(* What the SQL predicates ask of a row.                                   *)
(***************************************************************************)
Present(i) == mem[i].life = "row"
Unused(i) == mem[i].life = "none"
Expired(i) == Present(i) /\ mem[i].exp # Never /\ mem[i].exp <= now
Active(i) == Present(i) /\ mem[i].del = Never /\ ~Expired(i)
Current(i) == mem[i].to = Never
Visible(i) == Active(i) /\ Current(i) /\ mem[i].into = None

HasSuccessor(i) == \E s \in Ids : mem[s].sup = i
Referenced(i) == \E s \in Ids : mem[s].sup = i \/ mem[s].into = i

\* Predecessors of p, p included: the smallest set closed under supersedes_id.
Ancestors(p) ==
  {a \in Ids : \A S \in SUBSET Ids :
     (p \in S /\ \A i \in S : mem[i].sup # None => mem[i].sup \in S) => a \in S}

OpenMembers(c) == {m \in memberships : m.canonical = c /\ m.open}

(***************************************************************************)
(* Work carried between transactions.                                      *)
(***************************************************************************)
Snapshot == [id : Ids, body : Bodies \cup {None}, vec : Bodies \cup {None}, rev : Nat]
Approval == [id : Ids, body : Bodies \cup {None}, rev : Nat]

Idle == [op |-> "idle"]

Work ==
       [op : {"idle"}]
  \cup [op : {"edit"}, id : Ids, body : Bodies, vec : Bodies \cup {None}, rev : Nat]
  \cup [op : {"revise"}, pred : Ids, body : Bodies]
  \cup [op : {"merge"}, seen : SUBSET Snapshot]
  \cup [op : {"restore"}, canonical : Approval, members : SUBSET Approval]
  \cup [op : {"purge"}, dead : SUBSET [id : Ids, del : Time], blocked : SUBSET Ids]

Membership == [canonical : Ids, member : Ids, body : Bodies \cup {None}, rev : Nat, open : BOOLEAN]

IsIdle(w) == work[w] = Idle
Starts(w, job) == IsIdle(w) /\ work' = [work EXCEPT ![w] = job]
Finishes(w) == work' = [work EXCEPT ![w] = Idle]

Init ==
  /\ mem = [i \in Ids |-> NoRow]
  /\ memberships = {}
  /\ work = [w \in Workers |-> Idle]
  /\ now = 0

Tick ==
  /\ now < MaxTime
  /\ now' = now + 1
  /\ UNCHANGED <<mem, memberships, work>>

(***************************************************************************)
(* memory_store without an idempotency key.  The dedupe lookup and the     *)
(* insert share one transaction under an advisory lock.                    *)
(***************************************************************************)
Duplicate(i, body) ==
  /\ Visible(i)
  /\ mem[i].exp = Never
  /\ mem[i].key = None
  /\ mem[i].vec = body

\* Tags are merged into the duplicate; new tags advance its revision.
Boost(body) ==
  \E i \in Ids, retag \in BOOLEAN :
    /\ Duplicate(i, body)
    /\ retag => mem[i].rev < MaxRevision
    /\ mem' = [mem EXCEPT ![i].rev = IF retag THEN @ + 1 ELSE @]

Insert(key, body, exp) ==
  \E i \in Ids :
    /\ Unused(i)
    /\ mem' = [mem EXCEPT ![i] = NewRow("semantic", key, body, None, exp)]

ExpiryOf(ttl) == IF ttl = Never THEN Never ELSE now + ttl

StoreUnkeyed(body, ttl, dedupe) ==
  LET matches == dedupe /\ ttl = Never /\ \E i \in Ids : Duplicate(i, body)
  IN  \/ matches /\ Boost(body)
      \/ ~matches /\ Insert(None, body, ExpiryOf(ttl))

Store(body, ttl, dedupe) ==
  /\ StoreUnkeyed(body, ttl, dedupe)
  /\ UNCHANGED <<memberships, work, now>>

(***************************************************************************)
(* memory_store with an idempotency key: INSERT ... ON CONFLICT DO UPDATE. *)
(* A conflicting row that is deleted, superseded or consolidated refuses   *)
(* the write; an expired one is replaced, expiry included.                 *)
(***************************************************************************)
Holds(i, key) == Present(i) /\ mem[i].key = key

Replaced(r, body, exp, retag) ==
  [r EXCEPT !.body = body, !.vec = body, !.exp = exp,
            !.rev = IF retag \/ body # r.body THEN @ + 1 ELSE @]

ReplaceKeyed(i, key, body, exp, retag) ==
  /\ Holds(i, key)
  /\ mem[i].del = Never
  /\ Current(i)
  /\ mem[i].into = None
  /\ retag \/ body # mem[i].body => mem[i].rev < MaxRevision
  /\ mem' = [mem EXCEPT ![i] = Replaced(@, body, exp, retag)]

StoreKeyed(key, body, ttl) ==
  /\ \/ /\ ~\E i \in Ids : Holds(i, key)
        /\ Insert(key, body, ExpiryOf(ttl))
     \/ \E i \in Ids, retag \in BOOLEAN : ReplaceKeyed(i, key, body, ExpiryOf(ttl), retag)
  /\ UNCHANGED <<memberships, work, now>>

(***************************************************************************)
(* memory_update.  The embedding is computed between the two transactions; *)
(* a request without content has no first transaction and no revision to   *)
(* compare.  retag stands for a change of tags or metadata.                *)
(***************************************************************************)

\* Faulty: a tombstone can still be patched.
EditableThoughForgotten(i) ==
  Present(i) /\ ~Expired(i) /\ Current(i) /\ mem[i].into = None /\ mem[i].kind # "consolidation"

\* Faulty: a superseded memory can still be patched.
EditableThoughSuperseded(i) == Active(i) /\ mem[i].into = None /\ mem[i].kind # "consolidation"

Editable(i) == Visible(i) /\ mem[i].kind # "consolidation"

\* Faulty: the revision that was read is not carried to the commit.
UpdateReadUnversioned(w, t, body) ==
  /\ Editable(t)
  /\ Starts(w, [op |-> "edit", id |-> t, body |-> body])
  /\ UNCHANGED <<mem, memberships, now>>

UpdateRead(w, t, body) ==
  /\ Editable(t)
  /\ Starts(w, [op |-> "edit", id |-> t, body |-> body, rev |-> mem[t].rev,
                vec |-> IF body = mem[t].body THEN None ELSE body])
  /\ UNCHANGED <<mem, memberships, now>>

\* A clock that has not moved since p began would violate
\* memories_validity_interval_check, which the caller sees as a conflict.
CanLink(t, p) ==
  /\ Editable(p)
  /\ mem[p].exp = Never
  /\ mem[t].exp = Never
  /\ mem[t].sup = None
  /\ ~HasSuccessor(p)
  /\ t \notin Ancestors(p)
  /\ mem[p].from < now

\* Faulty: an older memory keeps its valid_from when it becomes a successor.
PatchedKeepingFrom(r, body, vec, retag, link) ==
  LET edited == body # r.body
  IN  [r EXCEPT !.body = body,
                !.vec = IF edited THEN vec ELSE @,
                !.sup = IF link = None THEN @ ELSE link,
                !.rev = IF edited \/ retag \/ link # None THEN @ + 1 ELSE @]

Patched(r, body, vec, retag, link) ==
  LET edited == body # r.body
  IN  [r EXCEPT !.body = body,
                !.vec = IF edited THEN vec ELSE @,
                !.sup = IF link = None THEN @ ELSE link,
                !.from = IF link = None THEN @ ELSE now,
                !.rev = IF edited \/ retag \/ link # None THEN @ + 1 ELSE @]

ApplyUpdate(t, body, vec, retag, link) ==
  /\ Editable(t)
  /\ link # None => CanLink(t, link)
  /\ mem[t].rev < MaxRevision
  /\ mem' = [i \in Ids |-> IF i = t THEN Patched(mem[t], body, vec, retag, link)
                             ELSE IF i = link THEN Closed(mem[i])
                             ELSE mem[i]]

\* Faulty: the commit does not compare revisions.
UnchangedOrNot(w) == w \in Editors

Unchanged(w) == mem[work[w].id].rev = work[w].rev

UpdateCommit(w, retag, link) ==
  /\ work[w].op = "edit"
  /\ Unchanged(w)
  /\ ApplyUpdate(work[w].id, work[w].body, work[w].vec, retag, link)
  /\ Finishes(w)
  /\ UNCHANGED <<memberships, now>>

UpdateDirect(t, retag, link) ==
  /\ retag \/ link # None
  /\ ApplyUpdate(t, mem[t].body, None, retag, link)
  /\ UNCHANGED <<memberships, work, now>>

\* A refusal, an error, a timeout or a crash between two transactions.
Abandon(w) ==
  /\ ~IsIdle(w)
  /\ Finishes(w)
  /\ UNCHANGED <<mem, memberships, now>>

(***************************************************************************)
(* Automatic belief revision: a permanent, unkeyed store looks for a       *)
(* memory it contradicts, asks the classifier, and closes that memory in a *)
(* second transaction.  A candidate that no longer qualifies, a refusal    *)
(* and a rolled-back conflict all fall back to the ordinary store.         *)
(***************************************************************************)
Candidate(p) == Visible(p) /\ mem[p].kind = "semantic"

StoreReview(w, p, body) ==
  /\ Candidate(p)
  /\ Starts(w, [op |-> "revise", pred |-> p, body |-> body])
  /\ UNCHANGED <<mem, memberships, now>>

\* The successor of p begins at the instant at which p ends.
Succeed(p, key, body) ==
  \E s \in Ids :
    /\ Unused(s)
    /\ mem' = [mem EXCEPT ![p] = Closed(@), ![s] = NewRow("semantic", key, body, p, Never)]

\* Faulty: a candidate is not examined again when it is closed.
SupersedableWhenFound(p) == Active(p) /\ mem[p].from < now

Supersedable(p) == Candidate(p) /\ ~HasSuccessor(p) /\ mem[p].from < now

ReviseCommit(w) ==
  /\ work[w].op = "revise"
  /\ IF Supersedable(work[w].pred)
       THEN Succeed(work[w].pred, None, work[w].body)
       ELSE \E dedupe \in BOOLEAN : StoreUnkeyed(work[w].body, Never, dedupe)
  /\ Finishes(w)
  /\ UNCHANGED <<memberships, now>>

ReviseDecline(w) ==
  /\ work[w].op = "revise"
  /\ \E dedupe \in BOOLEAN : StoreUnkeyed(work[w].body, Never, dedupe)
  /\ Finishes(w)
  /\ UNCHANGED <<memberships, now>>

(***************************************************************************)
(* memory_forget.  The canonical of a forgotten member is tombstoned with  *)
(* it; links and memberships stay.                                         *)
(***************************************************************************)
\* Faulty: only the selected rows are tombstoned.
ForgetSelectedOnly(S) ==
  /\ S # {}
  /\ \A i \in S : Active(i)
  /\ Cardinality(S) <= MaxForgetRows
  /\ mem' = [i \in Ids |-> IF i \in S THEN Tombstoned(mem[i]) ELSE mem[i]]
  /\ UNCHANGED <<memberships, work, now>>

Forget(S) ==
  LET targets == S \cup ({mem[i].into : i \in S} \ {None})
  IN  /\ S # {}
      /\ \A i \in S : Active(i)
      /\ Cardinality(targets) <= MaxForgetRows
      /\ mem' = [i \in Ids |-> IF i \in targets /\ Active(i) THEN Tombstoned(mem[i]) ELSE mem[i]]
      /\ UNCHANGED <<memberships, work, now>>

(***************************************************************************)
(* Consolidation.  Members are read before generation and embedding, and   *)
(* compared by fingerprint when the cluster is applied.  A session lock    *)
(* admits one run per namespace and is released when the run dies.  The    *)
(* canonical's source key digests its members, so it is taken to be the    *)
(* canonical's own id.  A membership carries what generation saw of its    *)
(* member, as member_fingerprints in the canonical's metadata do.          *)
(***************************************************************************)
Eligible(i) == Candidate(i) /\ mem[i].key = None

Seen(i) == [id |-> i, body |-> mem[i].body, vec |-> mem[i].vec, rev |-> mem[i].rev]

MergeLoad(w, S) ==
  /\ \A m \in Mergers : work[m].op # "merge"
  /\ Cardinality(S) \in 2 .. MaxClusterSize
  /\ \A i \in S : Eligible(i)
  /\ Starts(w, [op |-> "merge", seen |-> {Seen(i) : i \in S}])
  /\ UNCHANGED <<mem, memberships, now>>

\* Faulty: members are only checked for eligibility, not for their content.
StillEligible(w) == \A s \in work[w].seen : Eligible(s.id)

Fresh(w) == \A s \in work[w].seen : Eligible(s.id) /\ Seen(s.id) = s

MergeApply(w, body) ==
  LET members == {s.id : s \in work[w].seen}
  IN  /\ work[w].op = "merge"
      /\ Fresh(w)
      /\ \E c \in Ids :
           /\ Unused(c)
           /\ mem' = [i \in Ids |-> IF i = c THEN NewRow("consolidation", c, body, None, Never)
                                      ELSE IF i \in members THEN Linked(mem[i], c)
                                      ELSE mem[i]]
           /\ memberships' = memberships \cup
                {[canonical |-> c, member |-> s.id, body |-> s.body, rev |-> s.rev,
                  open |-> TRUE] : s \in work[w].seen}
      /\ Finishes(w)
      /\ UNCHANGED now

(***************************************************************************)
(* Deconsolidation: an operator approves a manifest of the canonical and   *)
(* its members, applied later only if none of them changed.  A manifest    *)
(* lists at least two members.                                             *)
(***************************************************************************)
Approve(i) == [id |-> i, body |-> mem[i].body, rev |-> mem[i].rev]

RestorePreview(w, c) ==
  /\ OpenMembers(c) # {}
  /\ Starts(w, [op |-> "restore", canonical |-> Approve(c),
                members |-> {Approve(m.member) : m \in OpenMembers(c)}])
  /\ UNCHANGED <<mem, memberships, now>>

RestoreApply(w) ==
  LET c == work[w].canonical.id
      restored == {a.id : a \in work[w].members}
      ended == {m \in OpenMembers(c) : m.member \in restored}
  IN  /\ work[w].op = "restore"
      /\ Cardinality(work[w].members) >= 2
      /\ Present(c) /\ mem[c].kind = "consolidation" /\ Approve(c) = work[w].canonical
      /\ \A a \in work[w].members :
           /\ Approve(a.id) = a
           /\ mem[a.id].into = c
           /\ \E m \in ended : m.member = a.id
      /\ memberships' = (memberships \ ended) \cup {[m EXCEPT !.open = FALSE] : m \in ended}
      /\ mem' = [i \in Ids |-> IF i = c THEN Tombstoned(mem[i])
                                 ELSE IF i \in restored THEN Unlinked(mem[i])
                                 ELSE mem[i]]
      /\ Finishes(w)
      /\ UNCHANGED now

(***************************************************************************)
(* Physical deletion.  supersedes_id and consolidated_into_id restrict it; *)
(* the membership foreign keys cascade.                                    *)
(***************************************************************************)

\* Faulty: memberships do not go with the rows they name.
EraseRowsOnly(dead) ==
  /\ mem' = [i \in Ids |-> IF i \in dead THEN Erased ELSE mem[i]]
  /\ UNCHANGED memberships

Erase(dead) ==
  /\ mem' = [i \in Ids |-> IF i \in dead THEN Erased ELSE mem[i]]
  /\ memberships' = {m \in memberships : m.canonical \notin dead /\ m.member \notin dead}

\* A batch of expired rows; those that another transaction holds locked are skipped.
TtlBatches ==
  {dead \in SUBSET {i \in Ids : Expired(i)} : dead # {} /\ Cardinality(dead) <= MaxPurgeRows}

\* The batch is deleted by one statement, which fails as a whole on a restricting reference.
TtlBlocked(dead) == \E i \in dead, s \in Ids \ dead : mem[s].sup = i \/ mem[s].into = i

TtlPurge(dead) ==
  /\ dead \in TtlBatches
  /\ ~TtlBlocked(dead)
  /\ Erase(dead)
  /\ UNCHANGED <<work, now>>

\* Faulty: the retention period is not awaited.
TombstonesOfAnyAge == {i \in Ids : Present(i) /\ mem[i].del # Never}

\* Tombstones past the retention period, and those of them a foreign key blocks.
Tombstones == {i \in Ids : Present(i) /\ mem[i].del # Never /\ mem[i].del + Retention <= now}
PurgeCandidates == {[id |-> i, del |-> mem[i].del] : i \in {t \in Tombstones : ~Referenced(t)}}
PurgeBlocked == {t \in Tombstones : Referenced(t)}

PurgePreview(w) ==
  /\ Starts(w, [op |-> "purge", dead |-> PurgeCandidates, blocked |-> PurgeBlocked])
  /\ UNCHANGED <<mem, memberships, now>>

PurgeApply(w) ==
  /\ work[w].op = "purge"
  /\ work[w].dead = PurgeCandidates
  /\ work[w].blocked = PurgeBlocked
  /\ Erase({d.id : d \in work[w].dead})
  /\ Finishes(w)
  /\ UNCHANGED now

(***************************************************************************)
(* The monthly taste profile: one row per month under a source key, each   *)
(* superseding the latest visible one.  A month that already has a row is  *)
(* rewritten in place.                                                     *)
(***************************************************************************)

TasteSeries == {i \in Ids : Visible(i) /\ mem[i].key \in Months}

Rewrite(i, month, body, retag) ==
  /\ Holds(i, month)
  /\ mem[i].del = Never
  /\ retag \/ body # mem[i].body
  /\ mem[i].rev < MaxRevision
  /\ mem' = [mem EXCEPT ![i] = Replaced(@, body, @.exp, retag)]

TasteUpsert(month, body) ==
  /\ \/ \E i \in Ids, retag \in BOOLEAN : Rewrite(i, month, body, retag)
     \/ /\ ~\E i \in Ids : Holds(i, month)
        /\ TasteSeries = {}
        /\ Insert(month, body, Never)
     \/ /\ ~\E i \in Ids : Holds(i, month)
        /\ \E p \in TasteSeries :
             /\ \A q \in TasteSeries : mem[q].from <= mem[p].from
             /\ mem[p].key < month
             /\ mem[p].from < now
             /\ Succeed(p, month, body)
  /\ UNCHANGED <<memberships, work, now>>

Next ==
  \/ Tick
  \/ \E body \in Bodies, ttl \in Ttls \cup {Never}, dedupe \in BOOLEAN : Store(body, ttl, dedupe)
  \/ \E key \in Keys, body \in Bodies, ttl \in Ttls \cup {Never} : StoreKeyed(key, body, ttl)
  \/ \E w \in Editors :
       \/ \E t \in Ids, body \in Bodies : UpdateRead(w, t, body)
       \/ \E link \in Ids \cup {None}, retag \in BOOLEAN : UpdateCommit(w, retag, link)
  \/ \E t \in Ids, link \in Ids \cup {None}, retag \in BOOLEAN :
       Editors # {} /\ UpdateDirect(t, retag, link)
  \/ \E w \in Workers : Abandon(w)
  \/ \E w \in Classifiers :
       \/ \E p \in Ids, body \in Bodies : StoreReview(w, p, body)
       \/ ReviseCommit(w)
       \/ ReviseDecline(w)
  \/ \E S \in SUBSET Ids : Forget(S) \/ TtlPurge(S)
  \/ \E w \in Mergers :
       \/ \E S \in SUBSET Ids : MergeLoad(w, S)
       \/ \E body \in Bodies : MergeApply(w, body)
  \/ \E w \in Operators :
       \/ \E c \in Ids : RestorePreview(w, c)
       \/ RestoreApply(w)
  \/ \E w \in Purgers : PurgePreview(w) \/ PurgeApply(w)
  \/ \E month \in Months, body \in Bodies : TasteUpsert(month, body)

Spec == Init /\ [][Next]_vars

(***************************************************************************)
(* Properties.                                                             *)
(***************************************************************************)

\* Every row, membership and carried piece of work has the shape the schema gives it.
TypeOK ==
  /\ mem \in [Ids -> Row]
  /\ memberships \subseteq Membership
  /\ work \in [Workers -> Work]
  /\ now \in Nat

\* A supersession link never dangles, and the successor begins at the very
\* instant its predecessor ends: the history of a belief has no gap.
ContiguousHistory ==
  \A s \in Ids : mem[s].sup # None =>
    LET p == mem[s].sup
    IN  Present(p) /\ mem[p].from < mem[p].to /\ mem[p].to = mem[s].from

\* Two versions of one belief, however they were linked and whatever was
\* forgotten or purged since, are never valid at the same instant.
Disjoint(a, b) == mem[a].to # Never /\ mem[a].to <= mem[b].from

OneVersionAtAnyInstant ==
  \A a, b \in {i \in Ids : Present(i)} :
    a # b /\ Ancestors(a) \cap Ancestors(b) # {} => Disjoint(a, b) \/ Disjoint(b, a)

\* A stored embedding was computed from the content stored beside it,
\* although the two are produced in different transactions.
VectorMatchesBody == \A i \in Ids : mem[i].vec = mem[i].body

\* A row that was superseded, tombstoned or folded into a canonical keeps its
\* place in history until it is erased: its predecessor, its beginning, its end
\* and its tombstone.  It keeps its content and embedding as well, unless it is a
\* month of the taste profile, whose upsert does not ask whether the row was
\* superseded.
Settled(i) == Present(i) /\ (mem[i].del # Never \/ mem[i].to # Never \/ mem[i].into # None)

SettledRowsNeverRewritten ==
  [][\A i \in Ids : Settled(i) /\ mem'[i].life = "row" =>
       /\ mem[i].key \notin Months => mem'[i].body = mem[i].body /\ mem'[i].vec = mem[i].vec
       /\ mem'[i].sup = mem[i].sup /\ mem'[i].from = mem[i].from
       /\ mem[i].to # Never => mem'[i].to = mem[i].to
       /\ mem[i].del # Never => mem'[i].del = mem[i].del]_vars

\* A row is hidden behind a canonical exactly while one open membership says
\* so: no crash, stale approval or purge leaves one without the other.
LinkMirrorsMembership ==
  \A i \in Ids : {m.canonical : m \in {o \in memberships : o.member = i /\ o.open}}
                 = {mem[i].into} \ {None}

\* No canonical that a reader can see speaks for a memory that was forgotten.
ForgottenClaimHidden ==
  \A m \in memberships : mem[m.member].del # Never => mem[m.canonical].del # Never

\* As long as a row is hidden behind a canonical it says what the generation of the
\* canonical read of it: no edit came between the load and the link, and none after.
CanonicalReflectsMembers ==
  \A m \in memberships : m.open =>
    mem[m.member].body = m.body /\ mem[m.member].rev = m.rev + 1

\* A row that disappears had expired, or had been a tombstone for the whole
\* retention period on a list an operator approved.
OnlyExpiredOrApprovedErased ==
  [][\A i \in Ids : Present(i) /\ mem'[i].life = "gone" =>
       \/ Expired(i)
       \/ /\ mem[i].del # Never /\ mem[i].del + Retention <= now
          /\ \E w \in Purgers : work[w].op = "purge" /\ [id |-> i, del |-> mem[i].del] \in work[w].dead
    ]_vars

(***************************************************************************)
(* The ledger that the rows implement.                                     *)
(***************************************************************************)
PhaseOf(r) ==
  IF r.life = "none" THEN "absent"
  ELSE IF r.life = "gone" THEN "gone"
  ELSE IF r.del # Never THEN "forgotten"
  ELSE IF r.to # Never THEN "past"
  ELSE IF r.into # None THEN "folded"
  ELSE "shown"

Ledger == INSTANCE BeliefLedger WITH
  phase <- [i \in Ids |-> PhaseOf(mem[i])],
  text <- [i \in Ids |-> mem[i].body],
  fold <- [i \in Ids |-> mem[i].into],
  permanent <- {i \in Ids : Present(i) /\ mem[i].exp = Never},
  profile <- {i \in Ids : Present(i) /\ mem[i].key \in Months}

\* Every step of every operation is a step of the ledger or leaves it as it is.
ImplementsLedger == Ledger!LedgerSpec

(***************************************************************************)
(* What the documentation or a comment says and the code does not do.      *)
(***************************************************************************)

\* SPEC.md: forgetting a member leaves its provenance linked and
\* purge-blocking.  Nothing but expiry loses the record of a membership.
ProvenanceBlocksPurge ==
  [][\A m \in memberships : \E k \in memberships' :
       k.canonical = m.canonical /\ k.member = m.member]_vars

\* Migration 032: foreign keys do not block the cleanup of expired rows.
TtlCleanupNeverBlocked == \A dead \in TtlBatches : ~TtlBlocked(dead)

\* SPEC.md, "memory_update": source-key writers cannot rewrite superseded rows.
SupersededRowsNotRewritten ==
  [][\A i \in Ids : Present(i) /\ mem[i].to # Never /\ mem'[i].life = "row" =>
       mem'[i].body = mem[i].body]_vars

\* README.md: hidden members come back through the deconsolidation manifest,
\* and only through it; a manifest lists at least two members.
HiddenMembersRestorable ==
  \A i \in Ids : mem[i].into # None => Cardinality(OpenMembers(mem[i].into)) >= 2
=============================================================================

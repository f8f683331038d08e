----------------------------- MODULE MigrationRunner -----------------------------
(***************************************************************************)
(* npm run migrate: runners of several releases and branches, each in a    *)
(* database session of its own, serialised by an advisory lock of the      *)
(* session; and the repair of the ledger of one old deployment.  A         *)
(* checkout is what its files are: a function from migration numbers to    *)
(* what their bytes are.                                                   *)
(***************************************************************************)
EXTENDS Integers, Sequences, FiniteSets, FiniteSetsExt, SequencesExt

CONSTANTS
  Runners, None,
  Checkouts,        \* inventories: functions from numbers to checksums
  LastMigration,    \* the newest number of them
  Compatible,       \* numbers whose checksum before the sanitization is accepted
  Granting,         \* numbers whose files grant what only an owner may
  Reviewed,         \* the migrations that the old deployment had executed
  OldLedger,        \* and those of them that it had recorded
  MaxMishaps        \* bound of the model: failed statements and closed sessions

VARIABLES
  table,     \* schema_migrations: absent, without the column checksum, or current
  ledger,    \* checksum recorded for each migration
  schema,    \* the migrations that were executed, in order
  holder,    \* of the advisory lock
  runners,
  mishaps

gvars == <<table, ledger, schema, holder, runners, mishaps>>

Migrations == 1..LastMigration

\* Bytes of a file: released, edited after the release, before the sanitization.
Checksums == {"released", "edited", "before"}

\* Recorded by runners that kept no checksums, or not recorded.
Entries == Checksums \cup {"null", "none"}

Applied(entries) == {v \in Migrations : entries[v] # "none"}

\* Some migrations in the order of their numbers.
Ascending(S) ==
  {s \in SeqOf(S, LastMigration) : /\ {s[i] : i \in DOMAIN s} = S
                                   /\ \A i, j \in DOMAIN s : i < j => s[i] < s[j]}

Idle == [stage |-> "idle", files |-> <<>>, through |-> 0, read |-> [v \in Migrations |-> "none"],
         done |-> 0]

\* An empty database, one of a runner without checksums, the old deployment, one with the
\* older file.
Init ==
  /\ \/ table = "absent" /\ ledger = [v \in Migrations |-> "none"]
     \/ \E n \in 1..2 : /\ table = "legacy"
                        /\ ledger = [v \in Migrations |-> IF v <= n THEN "null" ELSE "none"]
     \/ table = "legacy" /\ ledger = [v \in Migrations |-> IF v \in OldLedger THEN "null" ELSE "none"]
     \/ \E v \in Compatible : /\ table = "current"
                              /\ ledger = [w \in Migrations |-> IF w = v THEN "before" ELSE
                                                                IF w < v THEN "released" ELSE "none"]
  /\ schema \in Ascending(IF Applied(ledger) = OldLedger THEN Reviewed ELSE Applied(ledger))
  /\ holder = None
  /\ runners = [r \in Runners |-> Idle]
  /\ mishaps = 0

\* The files that the target allows; 0 is no target.
Targeted(r) == {v \in DOMAIN runners[r].files : runners[r].through = 0 \/ v <= runners[r].through}

-------------------------------------------------------------------------------
\* An exact version of the checkout, or no argument.
Start(r, files, through) ==
  /\ runners[r].stage = "idle"
  /\ runners' = [runners EXCEPT ![r] = [Idle EXCEPT !.stage = "waiting", !.files = files,
                                                    !.through = through]]
  /\ UNCHANGED <<table, ledger, schema, holder, mishaps>>

\* Faulty: nobody waits for another runner.
HeldByNobody == TRUE

LockFree == holder = None

AcquireLock(r) ==
  /\ runners[r].stage = "waiting"
  /\ LockFree
  /\ holder' = r
  /\ runners' = [runners EXCEPT ![r].stage = "locked"]
  /\ UNCHANGED <<table, ledger, schema, mishaps>>

TimesOut(r) ==
  /\ runners[r].stage = "waiting"
  /\ holder # None
  /\ runners' = [runners EXCEPT ![r] = Idle]
  /\ UNCHANGED <<table, ledger, schema, holder, mishaps>>

\* The lock goes in the finally block, or with the session.
Leave(r) ==
  /\ runners' = [runners EXCEPT ![r] = Idle]
  /\ holder' = IF holder = r THEN None ELSE holder

\* The role may not create tables, or does not own those there are: nothing is touched.
NoAuthority(r) ==
  /\ runners[r].stage = "locked"
  /\ Leave(r)
  /\ UNCHANGED <<table, ledger, schema, mishaps>>

\* What the loop has still to apply, by the ledger it read.
Pending(r) == {v \in Targeted(r) \ Applied(runners[r].read) : v > runners[r].done}

\* Nor may it grant what a missing migration grants: looked up when there is a ledger, and
\* again before the migration.
CannotGrant(r) ==
  /\ \/ /\ runners[r].stage = "locked" /\ table # "absent"
        /\ Granting \cap (Targeted(r) \ Applied(ledger)) # {}
     \/ /\ runners[r].stage = "applying" /\ Pending(r) # {}
        /\ Min(Pending(r)) \in Granting
  /\ Leave(r)
  /\ UNCHANGED <<table, ledger, schema, mishaps>>

\* The table, and its column on a ledger of an older runner.
EnsureTable(r) ==
  /\ runners[r].stage = "locked"
  /\ table' = "current"
  /\ runners' = [runners EXCEPT ![r].stage = "reading"]
  /\ UNCHANGED <<ledger, schema, holder, mishaps>>

\* Every recorded migration is a file of the checkout, of the recorded bytes.
Recognised(files, entries) ==
  \A v \in Applied(entries) :
    /\ v \in DOMAIN files
    /\ entries[v] \in {"null", files[v]} \/ (v \in Compatible /\ entries[v] = "before")

Newest(entries) == Max(Applied(entries) \cup {0})

\* Faulty: a missing number below the newest one is filled in later.
BackFilled(r, entries) == TRUE

\* Nothing recorded is beyond the target, nothing missing is below the newest.
InOrder(r, entries) ==
  /\ runners[r].through # 0 => Newest(entries) <= runners[r].through
  /\ \A v \in Targeted(r) \ Applied(entries) : v > Newest(entries)

ReadLedger(r) ==
  /\ runners[r].stage = "reading"
  /\ IF Recognised(runners[r].files, ledger) /\ InOrder(r, ledger)
     THEN /\ runners' = [runners EXCEPT ![r] = [@ EXCEPT !.stage = "baselining", !.read = ledger]]
          /\ UNCHANGED holder
     ELSE Leave(r)
  /\ UNCHANGED <<table, ledger, schema, mishaps>>

\* One transaction, of updates that find the entry as it was read or roll all back; none
\* when every entry has the checksum of its file.
Baseline(r) ==
  LET read == runners[r].read
      changed == {v \in Applied(read) : read[v] # runners[r].files[v]} IN
  /\ runners[r].stage = "baselining"
  /\ IF \A v \in changed : ledger[v] = read[v]
     THEN /\ ledger' = [v \in Migrations |-> IF v \in changed THEN runners[r].files[v] ELSE ledger[v]]
          /\ runners' = [runners EXCEPT ![r].stage = "applying"]
          /\ UNCHANGED holder
     ELSE Leave(r) /\ UNCHANGED ledger
  /\ UNCHANGED <<table, schema, mishaps>>

\* The file and its entry in one transaction: the key of the ledger refuses a second one.
Apply(r) ==
  LET v == Min(Pending(r)) IN
  /\ runners[r].stage = "applying"
  /\ Pending(r) # {}
  /\ IF ledger[v] = "none"
     THEN /\ schema' = Append(schema, v)
          /\ ledger' = [ledger EXCEPT ![v] = runners[r].files[v]]
          /\ runners' = [runners EXCEPT ![r].done = v]
          /\ UNCHANGED holder
     ELSE Leave(r) /\ UNCHANGED <<schema, ledger>>
  /\ UNCHANGED <<table, mishaps>>

Complete(r) ==
  /\ runners[r].stage = "applying"
  /\ Pending(r) = {}
  /\ Leave(r)
  /\ UNCHANGED <<table, ledger, schema, mishaps>>

\* A statement fails, a signal closes the session, or the process dies: what was not
\* committed is rolled back, and the session takes the lock with it.
Interrupted(r) ==
  /\ runners[r].stage # "idle"
  /\ mishaps < MaxMishaps
  /\ mishaps' = mishaps + 1
  /\ Leave(r)
  /\ UNCHANGED <<table, ledger, schema>>

\* The ledger of the old deployment, as it was left: a run of migrate, which refuses it,
\* has by then added the column.
OldShape == table = "legacy" /\ Applied(ledger) = OldLedger

\* What the catalogue proves: the reviewed migrations were executed, and no later one.
Proven == {schema[i] : i \in DOMAIN schema} = Reviewed

\* reconcile:legacy-ledger --apply: one transaction, that gives up if the lock is held.
Reconcile(files) ==
  /\ \A v \in Reviewed : v \in DOMAIN files /\ files[v] = "released"
  /\ LockFree
  /\ OldShape /\ Proven
  /\ table' = "current"
  /\ ledger' = [v \in Migrations |-> IF v \in Reviewed THEN files[v] ELSE ledger[v]]
  /\ UNCHANGED <<schema, holder, runners, mishaps>>

Next ==
  \/ \E r \in Runners :
       \/ \E c \in Checkouts : \E t \in DOMAIN c \cup {0} : Start(r, c, t)
       \/ AcquireLock(r) \/ TimesOut(r) \/ NoAuthority(r) \/ CannotGrant(r) \/ EnsureTable(r)
       \/ ReadLedger(r) \/ Baseline(r) \/ Apply(r) \/ Complete(r) \/ Interrupted(r)
  \/ \E c \in Checkouts : Reconcile(c)

Spec == Init /\ [][Next]_gvars

-------------------------------------------------------------------------------
TypeOK ==
  /\ table \in {"absent", "legacy", "current"}
  /\ ledger \in [Migrations -> Entries]
  /\ schema \in Seq(Migrations) /\ Len(schema) <= LastMigration
  /\ holder \in Runners \cup {None}
  /\ mishaps \in 0..MaxMishaps
  /\ \A r \in Runners :
       /\ runners[r].stage \in {"idle", "waiting", "locked", "reading", "baselining", "applying"}
       /\ runners[r].files \in Checkouts \cup {<<>>}
       /\ runners[r].through \in 0..LastMigration /\ runners[r].done \in 0..LastMigration
       /\ runners[r].read \in [Migrations -> Entries]

\* Whoever overlaps and whatever is interrupted, the ledger records exactly what was
\* executed, each migration once and in the order of the numbers; the old deployment's
\* lacks what it lacked, until it is repaired and before it is added to.
LedgerMirrorsSchema ==
  /\ {schema[i] : i \in DOMAIN schema} =
       IF Applied(ledger) = OldLedger THEN Reviewed ELSE Applied(ledger)
  /\ \A i, j \in DOMAIN schema : i < j => schema[i] < schema[j]

\* A runner applies files only on top of a history that is the one of its checkout.
HistoryIsRecognised ==
  \A r \in Runners : runners[r].stage = "applying" =>
    \A v \in Applied(ledger) : v \in DOMAIN runners[r].files /\ ledger[v] = runners[r].files[v]
=============================================================================

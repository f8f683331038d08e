------------------------------- MODULE KeyAccess -------------------------------
(***************************************************************************)
(* API keys: their creation, rotation, revocation and expiry, and the      *)
(* quotas that every authenticated operation is charged to.  Operations    *)
(* and the operators' commands run concurrently in many processes; what    *)
(* orders them is two advisory locks, a row lock and the statements that   *)
(* read.  One key name is modelled.                                        *)
(***************************************************************************)
EXTENDS Integers, FiniteSets, FiniteSetsExt

CONSTANTS
  Keys,            \* rows of api_keys
  Operations,      \* requests and tool calls, each charged once
  Admins,          \* runs of create-key and rotate-key
  None,
  PerMinute,       \* requests_per_minute of every key
  PerDay,          \* requests_per_day
  MinutesPerDay,
  RetentionDays,   \* RATE_LIMIT_USAGE_RETENTION_DAYS
  Graces,          \* graces of rotations and lifetimes of new keys, in minutes
  LastMinute       \* bound of the model

VARIABLES
  minute,
  keys,
  minuteUsage,   \* api_key_minute_usage
  dayUsage,      \* api_key_daily_usage
  operations,
  admins,
  overtaken      \* history: a rotation was committed after its key had expired

kvars == <<minute, keys, minuteUsage, dayUsage, operations, admins, overtaken>>

DayOf(m) == (m - 1) \div MinutesPerDay + 1
Days == 1..DayOf(LastMinute)

Key == [status : {"unused", "enabled", "revoked"}, named : BOOLEAN,
        until : Nat]   \* expires_at, 0 without one
Operation == [stage : {"idle", "valid", "counted"}, key : Keys \cup {None},
              in : 0..LastMinute]   \* the minute of the windows it has counted
Admin == [stage : {"idle", "creating", "rotating"}, source : Keys \cup {None}]

NoKey == [status |-> "unused", named |-> FALSE, until |-> 0]
NoOperation == [stage |-> "idle", key |-> None, in |-> 0]
NoAdmin == [stage |-> "idle", source |-> None]

Init ==
  /\ minute = 1
  /\ keys = [k \in Keys |-> NoKey]
  /\ minuteUsage = [k \in Keys |-> [m \in 1..LastMinute |-> 0]]
  /\ dayUsage = [k \in Keys |-> [d \in Days |-> 0]]
  /\ operations = [o \in Operations |-> NoOperation]
  /\ admins = [a \in Admins |-> NoAdmin]
  /\ overtaken = FALSE

usage == <<minuteUsage, dayUsage>>

\* The predicate of validateKey, create-key and rotate-key.
Live(k) == keys[k].status = "enabled" /\ (keys[k].until = 0 \/ keys[k].until > minute)

Named == {k \in Keys : Live(k) /\ keys[k].named}

(***************************************************************************)
(* Operations.                                                             *)
(***************************************************************************)

\* authenticateAndConsume: an unknown or dead key ends the operation.
Authenticate(o, k) ==
  /\ operations[o].stage = "idle"
  /\ Live(k)
  /\ operations' = [operations EXCEPT ![o] = [NoOperation EXCEPT !.stage = "valid", !.key = k]]
  /\ UNCHANGED <<minute, keys, usage, admins, overtaken>>

\* Faulty: nobody waits for anybody.
QuotaLockIgnored(k) == TRUE

\* The advisory lock api-key-quota of the key is held until the commit.
QuotaLockFree(k) == ~\E p \in Operations : operations[p].stage = "counted" /\ operations[p].key = k

Allowed(k) == minuteUsage[k][minute] < PerMinute /\ dayUsage[k][DayOf(minute)] < PerDay

\* A denied operation is told so and is charged nothing.
Count(o) ==
  LET k == operations[o].key IN
  /\ operations[o].stage = "valid"
  /\ QuotaLockFree(k)
  /\ operations' = [operations EXCEPT ![o] =
       IF Allowed(k) THEN [@ EXCEPT !.stage = "counted", !.in = minute] ELSE NoOperation]
  /\ UNCHANGED <<minute, keys, usage, admins, overtaken>>

\* Both windows of the count, whatever the time is by now; then the operation runs.
Charge(o) ==
  LET k == operations[o].key  m == operations[o].in IN
  /\ operations[o].stage = "counted"
  /\ minuteUsage' = [minuteUsage EXCEPT ![k][m] = @ + 1]
  /\ dayUsage' = [dayUsage EXCEPT ![k][DayOf(m)] = @ + 1]
  /\ operations' = [operations EXCEPT ![o] = NoOperation]
  /\ UNCHANGED <<minute, keys, admins, overtaken>>

\* The transaction fails: the operation is refused as the service is unavailable.
Unavailable(o) ==
  /\ operations[o].stage = "counted"
  /\ operations' = [operations EXCEPT ![o] = NoOperation]
  /\ UNCHANGED <<minute, keys, usage, admins, overtaken>>

Closed(d) == d < DayOf(minute) - RetentionDays
ClosedMinute(m) == m < minute - RetentionDays * MinutesPerDay

\* cleanupRateLimitUsage: by the hour for minutes, by the date for days.
CleanUp ==
  /\ \E m \in 1..LastMinute : ClosedMinute(m)
  /\ minuteUsage' = [k \in Keys |-> [m \in 1..LastMinute |->
                       IF ClosedMinute(m) THEN 0 ELSE minuteUsage[k][m]]]
  /\ dayUsage' = [k \in Keys |-> [d \in Days |-> IF Closed(d) THEN 0 ELSE dayUsage[k][d]]]
  /\ UNCHANGED <<minute, keys, operations, admins, overtaken>>

(***************************************************************************)
(* The operators' commands: a transaction each, of a check and a write.    *)
(***************************************************************************)

\* Faulty: two runs check at the same time.
NameLockIgnored == TRUE

\* The advisory lock api-key-name, which create-key takes and rotate-key does not.
NameLockFree == \A a \in Admins : admins[a].stage # "creating"

CheckName(a) ==
  /\ admins[a].stage = "idle"
  /\ NameLockFree
  /\ Named = {}
  /\ admins' = [admins EXCEPT ![a].stage = "creating"]
  /\ UNCHANGED <<minute, keys, usage, operations, overtaken>>

\* A lifetime of 0 is none.
CreateKey(a, k, life) ==
  /\ admins[a].stage = "creating"
  /\ keys[k].status = "unused"
  /\ keys' = [keys EXCEPT ![k] = [status |-> "enabled", named |-> TRUE,
                                  until |-> IF life = 0 THEN 0 ELSE minute + life]]
  /\ admins' = [admins EXCEPT ![a] = NoAdmin]
  /\ UNCHANGED <<minute, usage, operations, overtaken>>

\* A run that waited for the row finds it renamed and gives up.
RowLockFree(k) == \A a \in Admins : admins[a].source # k

\* One live key of the name, or the command fails.
FindKey(a, k) ==
  /\ admins[a].stage = "idle"
  /\ Named = {k}
  /\ RowLockFree(k)
  /\ admins' = [admins EXCEPT ![a] = [stage |-> "rotating", source |-> k]]
  /\ UNCHANGED <<minute, keys, usage, operations, overtaken>>

\* The predecessor loses the name and lives until the end of the grace, whatever its own
\* expiry was; the replacement has none.
RotateKey(a, k, grace) ==
  LET source == admins[a].source IN
  /\ admins[a].stage = "rotating"
  /\ keys[k].status = "unused"
  /\ keys' = [keys EXCEPT
                  ![source] = [@ EXCEPT
                    !.named = FALSE, !.until = minute + grace],
                  ![k] = [status |-> "enabled", named |-> TRUE, until |-> 0]]
  /\ admins' = [admins EXCEPT ![a] = NoAdmin]
  /\ overtaken' = (overtaken \/ ~Live(source))
  /\ UNCHANGED <<minute, usage, operations>>

\* An operator's UPDATE, which waits for the lock of a rotation.
Revoke(k) ==
  /\ keys[k].status = "enabled"
  /\ \A a \in Admins : admins[a].source # k
  /\ keys' = [keys EXCEPT ![k].status = "revoked"]
  /\ UNCHANGED <<minute, usage, operations, admins, overtaken>>

Tick ==
  /\ minute < LastMinute
  /\ minute' = minute + 1
  /\ UNCHANGED <<keys, usage, operations, admins, overtaken>>

Next ==
  \/ \E o \in Operations : \/ \E k \in Keys : Authenticate(o, k)
                           \/ Count(o) \/ Charge(o) \/ Unavailable(o)
  \/ \E a \in Admins : CheckName(a)
  \/ \E a \in Admins, k \in Keys : FindKey(a, k)
  \/ \E a \in Admins, k \in Keys, g \in Graces : CreateKey(a, k, g) \/ RotateKey(a, k, g)
  \/ \E k \in Keys : Revoke(k)
  \/ Tick \/ CleanUp

Spec == Init /\ [][Next]_kvars

-------------------------------------------------------------------------------
TypeOK ==
  /\ minute \in 1..LastMinute
  /\ keys \in [Keys -> Key]
  /\ minuteUsage \in [Keys -> [1..LastMinute -> Nat]]
  /\ dayUsage \in [Keys -> [Days -> Nat]]
  /\ operations \in [Operations -> Operation]
  /\ admins \in [Admins -> Admin]
  /\ overtaken \in BOOLEAN

\* No window admits more than its quota, for operations that count at the same time and
\* for one that counts in a window and is charged after its end; and the two tables agree
\* about today.
QuotaKept ==
  \A k \in Keys :
    /\ \A m \in 1..LastMinute : minuteUsage[k][m] <= PerMinute
    /\ \A d \in Days : dayUsage[k][d] <= PerDay
    /\ dayUsage[k][DayOf(minute)] = MapThenSumSet(LAMBDA m : minuteUsage[k][m],
         {m \in 1..LastMinute : DayOf(m) = DayOf(minute)})

\* A name stands for one live key: else no rotation of it succeeds any more.  The
\* exception is a rotation whose key expired before its commit, while a creation of the
\* same name found it dead.
NameUnambiguous ==
  ~overtaken => Cardinality(Named) <= 1
=============================================================================

----------------------------- MODULE ExchangeProofs -----------------------------
(***************************************************************************)
(* Proofs about the components that Exchange composes.                     *)
(***************************************************************************)
EXTENDS Exchange, FiniteSetFacts

(***************************************************************************)
(* API keys: the quotas.                                                   *)
(***************************************************************************)
MinutesOf(d) == {m \in 1..LastMinute : K!DayOf(m) = d}

\* What an operation knows between its count and its charge: the windows it counted in have
\* room, and no other operation of the key has counted.
Counts(o) ==
  LET k == operations[o].key  m == operations[o].in IN
  /\ operations[o].stage # "idle" => k \in Keys
  /\ operations[o].stage = "counted" =>
       /\ m \in 1..LastMinute
       /\ minuteUsage[k][m] < PerMinute /\ dayUsage[k][K!DayOf(m)] < PerDay
       /\ \A p \in Processes : operations[p].stage = "counted" /\ operations[p].key = k => p = o

\* The two tables agree about today and the days to come: what is cleaned up is older.
TablesAgree ==
  \A k \in Keys : \A d \in K!Days :
    d >= K!DayOf(minute) => dayUsage[k][d] = SumFunctionOnSet(minuteUsage[k], MinutesOf(d))

WithinQuotas ==
  \A k \in Keys : /\ \A m \in 1..LastMinute : minuteUsage[k][m] <= PerMinute
                  /\ \A d \in K!Days : dayUsage[k][d] <= PerDay

QuotaInv ==
  /\ minute \in 1..LastMinute
  /\ minuteUsage \in [Keys -> [1..LastMinute -> Nat]]
  /\ dayUsage \in [Keys -> [K!Days -> Nat]]
  /\ operations \in [Processes -> K!Operation]
  /\ \A o \in Processes : Counts(o)
  /\ TablesAgree /\ WithinQuotas

(***************************************************************************)
(* API keys: the name.                                                     *)
(***************************************************************************)

\* A rotation holds a key that has the name still, and no other rotation has it; a creation
\* is the only one and has found the name free.
Holds(a) ==
  LET s == admins[a].source IN
  /\ admins[a].stage = "rotating" =>
       /\ s \in Keys /\ keys[s].status = "enabled" /\ keys[s].named
       /\ \A b \in Processes : admins[b].stage = "rotating" /\ admins[b].source = s => b = a
  /\ admins[a].stage = "creating" =>
       /\ ~overtaken => K!Named = {}
       /\ \A b \in Processes : admins[b].stage = "creating" => b = a

NameInv ==
  /\ minute \in 1..LastMinute
  /\ keys \in [Keys -> K!Key]
  /\ admins \in [Processes -> K!Admin]
  /\ overtaken \in BOOLEAN
  /\ \A a \in Processes : Holds(a)
  /\ ~overtaken => \A k, l \in K!Named : k = l


LEMMA DayFacts ==
  /\ \A m \in 1..LastMinute : K!DayOf(m) \in K!Days
  /\ \A m, n \in 1..LastMinute : m <= n => K!DayOf(m) <= K!DayOf(n)
  /\ \A m, n \in 1..LastMinute : m + MinutesPerDay <= n => K!DayOf(m) < K!DayOf(n)
<1>1. \A n \in Nat : n \div MinutesPerDay \in Nat
  BY KeyAssumption
<1>2. \A n, l \in Nat : n <= l => n \div MinutesPerDay <= l \div MinutesPerDay
  BY KeyAssumption
<1>3. \A n, l \in Nat : n + MinutesPerDay <= l => n \div MinutesPerDay < l \div MinutesPerDay
  BY KeyAssumption
<1>4. \A m \in 1..LastMinute : m - 1 \in Nat /\ m - 1 <= LastMinute - 1 /\ LastMinute - 1 \in Nat
  BY KeyAssumption
<1>5. \A m \in 1..LastMinute : K!DayOf(m) \in Nat /\ 1 <= K!DayOf(m) /\ K!DayOf(m) <= K!DayOf(LastMinute)
  BY <1>1, <1>2, <1>4 DEF K!DayOf
<1>6. K!DayOf(LastMinute) \in Nat
  BY KeyAssumption, <1>1, <1>4 DEF K!DayOf
<1>7. \A m \in 1..LastMinute : K!DayOf(m) \in K!Days
  BY <1>5, <1>6 DEF K!Days
<1>8. \A m, n \in 1..LastMinute : m <= n => K!DayOf(m) <= K!DayOf(n)
  <2> SUFFICES ASSUME NEW m \in 1..LastMinute, NEW n \in 1..LastMinute, m <= n
               PROVE  K!DayOf(m) <= K!DayOf(n)
    OBVIOUS
  <2>1. (m - 1) \div MinutesPerDay <= (n - 1) \div MinutesPerDay
    BY <1>2, <1>4
  <2> QED
    BY <1>1, <1>4, <2>1 DEF K!DayOf
<1>9. \A m, n \in 1..LastMinute : m + MinutesPerDay <= n => K!DayOf(m) < K!DayOf(n)
  <2> SUFFICES ASSUME NEW m \in 1..LastMinute, NEW n \in 1..LastMinute, m + MinutesPerDay <= n
               PROVE  K!DayOf(m) < K!DayOf(n)
    OBVIOUS
  <2>1. (m - 1) \div MinutesPerDay < (n - 1) \div MinutesPerDay
    BY KeyAssumption, <1>3, <1>4
  <2> QED
    BY <1>1, <1>4, <2>1 DEF K!DayOf
<1> QED
  BY <1>7, <1>8, <1>9

\* What is cleaned up is of days before today.
LEMMA ClosedIsPast ==
  ASSUME minute \in 1..LastMinute
  PROVE  /\ \A m \in 1..LastMinute : K!ClosedMinute(m) => K!DayOf(m) < K!DayOf(minute)
         /\ \A d \in K!Days : K!Closed(d) => d < K!DayOf(minute)
<1>1. RetentionDays * MinutesPerDay \in Nat /\ RetentionDays * MinutesPerDay >= MinutesPerDay
  BY KeyAssumption
<1>2. ASSUME NEW m \in 1..LastMinute, K!ClosedMinute(m)
      PROVE  K!DayOf(m) < K!DayOf(minute)
  <2>1. m < minute - RetentionDays * MinutesPerDay
    BY <1>2 DEF K!ClosedMinute
  <2>2. m + MinutesPerDay <= minute
    BY KeyAssumption, <1>1, <2>1
  <2> QED
    BY <2>2, DayFacts
<1>3. K!DayOf(minute) \in Int /\ \A d \in K!Days : d \in Int
  BY DayFacts DEF K!Days
<1> QED
  BY KeyAssumption, <1>2, <1>3 DEF K!Closed

LEMMA KeySums ==
  /\ \A f, S : K!MapThenSumSet(LAMBDA m : f[m], S) = SumFunctionOnSet(f, S)
  /\ \A S : K!Cardinality(S) = Cardinality(S)
  /\ \A d : IsFiniteSet(MinutesOf(d))
<1>1. \A f, S : K!MapThenSumSet(LAMBDA m : f[m], S) = SumFunctionOnSet(f, S)
  BY Zenon DEF SumFunctionOnSet, FoldFunctionOnSet, MapThenFoldSet, K!MapThenSumSet, K!MapThenFoldSet
<1>2. \A S : K!Cardinality(S) = Cardinality(S)
  BY Zenon DEF K!Cardinality, Cardinality
<1>3. IsFiniteSet(1..LastMinute)
  BY KeyAssumption, FS_Interval
<1>4. \A d : MinutesOf(d) \in SUBSET (1..LastMinute)
  BY DEF MinutesOf
<1> QED
  BY <1>1, <1>2, <1>3, <1>4, FS_Subset

\* An operation goes on; the tables stay.
LEMMA OperationMoves ==
  ASSUME QuotaInv, NEW o \in Processes, NEW x \in K!Operation,
         operations' = [operations EXCEPT ![o] = x], UNCHANGED <<minute, minuteUsage, dayUsage>>,
         x.stage # "idle" => x.key \in Keys,
         x.stage = "counted" =>
           /\ x.in \in 1..LastMinute
           /\ minuteUsage[x.key][x.in] < PerMinute /\ dayUsage[x.key][K!DayOf(x.in)] < PerDay
           /\ \A p \in Processes : operations[p].stage = "counted" /\ operations[p].key = x.key => p = o
  PROVE  QuotaInv'
<1>1. operations \in [Processes -> K!Operation]
  BY DEF QuotaInv
<1>2. \A p \in Processes : operations'[p] = IF p = o THEN x ELSE operations[p]
  BY <1>1
<1>3. operations' \in [Processes -> K!Operation]
  BY <1>1
<1>4. ASSUME NEW p \in Processes
      PROVE  Counts(p)'
  <2>1. Counts(p)
    BY DEF QuotaInv
  <2>2. CASE p = o
    BY <1>2, <2>2 DEF Counts
  <2>3. CASE p # o
    BY <1>2, <2>1, <2>3 DEF Counts
  <2> QED
    BY <2>2, <2>3
<1>5. TablesAgree' /\ WithinQuotas'
  BY DEF QuotaInv, TablesAgree, WithinQuotas
<1> QED
  BY <1>3, <1>4, <1>5 DEF QuotaInv

\* An operation counts under the lock of its key, in the windows of this minute.
LEMMA OperationCounts ==
  ASSUME QuotaInv, NEW o \in Processes, K!Count(o)
  PROVE  QuotaInv'
<1> DEFINE x == IF K!Allowed(operations[o].key)
                THEN [operations[o] EXCEPT !.stage = "counted", !.in = minute] ELSE K!NoOperation
<1>1. /\ operations' = [operations EXCEPT ![o] = x] /\ UNCHANGED <<minute, minuteUsage, dayUsage>>
      /\ operations[o].stage = "valid" /\ K!QuotaLockFree(operations[o].key)
  BY DEF K!Count, K!usage
<1>2. operations[o] \in K!Operation /\ minute \in 1..LastMinute /\ minute \in 0..LastMinute
  BY DEF QuotaInv
<1>3. operations[o].key \in Keys
  BY <1>1 DEF QuotaInv, Counts
<1>4. x \in K!Operation
  <2>1. 0 \in 0..LastMinute
    BY KeyAssumption
  <2>2. K!NoOperation \in K!Operation
    BY <2>1 DEF K!Operation, K!NoOperation
  <2>3. [operations[o] EXCEPT !.stage = "counted", !.in = minute] \in K!Operation
    BY <1>2 DEF K!Operation
  <2> QED
    BY <2>2, <2>3
<1>5. CASE K!Allowed(operations[o].key)
  <2>1. x.stage = "counted" /\ x.key = operations[o].key /\ x.in = minute
    BY <1>2, <1>5 DEF K!Operation
  <2>2. \A p \in Processes : ~(operations[p].stage = "counted" /\ operations[p].key = x.key)
    BY <1>1, <2>1 DEF K!QuotaLockFree
  <2>3. minuteUsage[x.key][x.in] < PerMinute /\ dayUsage[x.key][K!DayOf(x.in)] < PerDay
    BY <1>5, <2>1 DEF K!Allowed
  <2>4. x.key \in Keys /\ x.in \in 1..LastMinute
    BY <1>2, <1>3, <2>1
  <2> HIDE DEF x
  <2> QED
    BY <1>1, <1>4, <2>2, <2>3, <2>4, OperationMoves
<1>6. CASE ~K!Allowed(operations[o].key)
  <2>1. x.stage = "idle"
    BY <1>6 DEF K!NoOperation
  <2> HIDE DEF x
  <2> QED
    BY <1>1, <1>4, <2>1, OperationMoves
<1> QED
  BY <1>5, <1>6

\* Both windows are charged, whatever the time is by now.
LEMMA OperationCharges ==
  ASSUME QuotaInv, NEW o \in Processes, K!Charge(o)
  PROVE  QuotaInv'
<1> DEFINE k == operations[o].key
           m == operations[o].in
           d == K!DayOf(m)
           mu == [minuteUsage[k] EXCEPT ![m] = minuteUsage[k][m] + 1]
           du == [dayUsage[k] EXCEPT ![d] = dayUsage[k][d] + 1]
<1>1. /\ minuteUsage' = [minuteUsage EXCEPT ![k] = mu] /\ dayUsage' = [dayUsage EXCEPT ![k] = du]
      /\ operations' = [operations EXCEPT ![o] = K!NoOperation]
      /\ operations[o].stage = "counted" /\ UNCHANGED minute
  BY DEF K!Charge
<1>2. /\ minuteUsage \in [Keys -> [1..LastMinute -> Nat]] /\ dayUsage \in [Keys -> [K!Days -> Nat]]
      /\ operations \in [Processes -> K!Operation]
      /\ TablesAgree /\ WithinQuotas
  BY DEF QuotaInv
<1>3. /\ k \in Keys /\ m \in 1..LastMinute /\ minuteUsage[k][m] < PerMinute /\ dayUsage[k][d] < PerDay
      /\ \A p \in Processes : operations[p].stage = "counted" /\ operations[p].key = k => p = o
  BY <1>1 DEF QuotaInv, Counts
<1>4. d \in K!Days
  BY <1>3, DayFacts
<1>5. minuteUsage[k] \in [1..LastMinute -> Nat] /\ dayUsage[k] \in [K!Days -> Nat]
  BY <1>2, <1>3
<1>0. ASSUME NEW S, NEW f \in [S -> Nat], NEW s \in S
      PROVE  LET g == [f EXCEPT ![s] = f[s] + 1] IN
             /\ g \in [S -> Nat] /\ g[s] = f[s] + 1 /\ f[s] \in Nat
             /\ \A t \in S : t # s => g[t] = f[t]
  OBVIOUS
<1>6. /\ mu \in [1..LastMinute -> Nat] /\ mu[m] = minuteUsage[k][m] + 1
      /\ \A n \in 1..LastMinute : n # m => mu[n] = minuteUsage[k][n]
  <2> HIDE DEF k, m
  <2> QED
    BY KeyAssumption, <1>0, <1>3, <1>5
<1>7. /\ du \in [K!Days -> Nat] /\ du[d] = dayUsage[k][d] + 1
      /\ \A e \in K!Days : e # d => du[e] = dayUsage[k][e]
  <2> HIDE DEF k, d
  <2> QED
    BY <1>0, <1>4, <1>5
<1>8. ASSUME NEW e \in K!Days, dayUsage[k][e] = SumFunctionOnSet(minuteUsage[k], MinutesOf(e))
      PROVE  du[e] = SumFunctionOnSet(mu, MinutesOf(e))
  <2>1. MinutesOf(e) \subseteq 1..LastMinute /\ IsFiniteSet(MinutesOf(e)) /\ (m \in MinutesOf(e) <=> e = d)
    BY <1>3, KeySums DEF MinutesOf
  <2>2. CASE e = d
    <3>1. /\ \A s \in MinutesOf(e) : minuteUsage[k][s] \in Nat /\ mu[s] \in Nat
          /\ \A s \in MinutesOf(e) \ {m} : minuteUsage[k][s] = mu[s]
      BY <1>5, <1>6, <2>1
    <3> HIDE DEF mu, du, k, m, d
    <3>2. SumFunctionOnSet(mu, MinutesOf(e)) + minuteUsage[k][m]
            = SumFunctionOnSet(minuteUsage[k], MinutesOf(e)) + mu[m]
      BY <2>1, <2>2, <3>1, SumChanged
    <3>3. SumFunctionOnSet(mu, MinutesOf(e)) \in Nat /\ SumFunctionOnSet(minuteUsage[k], MinutesOf(e)) \in Nat
      BY <2>1, <3>1, SumType
    <3>4. minuteUsage[k][m] \in Nat
      BY <1>3, <1>5
    <3>5. \A a, b, n \in Nat : a + n = b + (n + 1) => a = b + 1
      OBVIOUS
    <3>6. SumFunctionOnSet(mu, MinutesOf(e)) = SumFunctionOnSet(minuteUsage[k], MinutesOf(e)) + 1
      BY <1>6, <3>2, <3>3, <3>4, <3>5
    <3>7. du[e] = dayUsage[k][e] + 1
      BY <1>7, <2>2
    <3> QED
      BY <1>8, <3>6, <3>7
  <2>3. CASE e # d
    <3>1. \A s \in MinutesOf(e) : minuteUsage[k][s] = mu[s]
      BY <1>6, <2>1, <2>3
    <3> HIDE DEF mu, du, k, m, d
    <3>2. SumFunctionOnSet(mu, MinutesOf(e)) = SumFunctionOnSet(minuteUsage[k], MinutesOf(e))
      BY <2>1, <3>1, SumSame
    <3> QED
      BY <1>7, <1>8, <2>3, <3>2
  <2> QED
    BY <2>2, <2>3
<1>9. /\ \A n \in 1..LastMinute : mu[n] <= PerMinute
      /\ \A e \in K!Days : du[e] <= PerDay
  <2>1. /\ \A n \in 1..LastMinute : minuteUsage[k][n] <= PerMinute
        /\ \A e \in K!Days : dayUsage[k][e] <= PerDay
    BY <1>2, <1>3 DEF WithinQuotas
  <2>2. minuteUsage[k][m] + 1 <= PerMinute /\ dayUsage[k][d] + 1 <= PerDay
    <3>1. minuteUsage[k][m] \in Nat /\ dayUsage[k][d] \in Nat
      BY <1>3, <1>4, <1>5
    <3>2. \A a, b \in Nat : a < b => a + 1 <= b
      OBVIOUS
    <3> HIDE DEF k, m, d
    <3> QED
      BY KeyAssumption, <1>3, <3>1, <3>2
  <2> QED
    BY <1>6, <1>7, <2>1, <2>2
<1> HIDE DEF mu, du, k, m, d
<1>10. /\ \A j \in Keys : minuteUsage'[j] = IF j = k THEN mu ELSE minuteUsage[j]
       /\ \A j \in Keys : dayUsage'[j] = IF j = k THEN du ELSE dayUsage[j]
       /\ minuteUsage' \in [Keys -> [1..LastMinute -> Nat]] /\ dayUsage' \in [Keys -> [K!Days -> Nat]]
  BY <1>1, <1>2, <1>3, <1>6, <1>7
<1>11. WithinQuotas'
  BY <1>2, <1>9, <1>10 DEF WithinQuotas
<1>12. TablesAgree'
  <2> SUFFICES ASSUME NEW j \in Keys, NEW e \in K!Days, e >= K!DayOf(minute)
               PROVE  dayUsage'[j][e] = SumFunctionOnSet(minuteUsage'[j], MinutesOf(e))
    BY <1>1 DEF TablesAgree
  <2>1. dayUsage[j][e] = SumFunctionOnSet(minuteUsage[j], MinutesOf(e))
    BY <1>2 DEF TablesAgree
  <2>2. CASE j = k
    <3>1. minuteUsage'[j] = mu /\ dayUsage'[j] = du
      BY <1>10, <2>2
    <3> QED
      BY <1>8, <2>1, <2>2, <3>1
  <2>3. CASE j # k
    <3>1. minuteUsage'[j] = minuteUsage[j] /\ dayUsage'[j] = dayUsage[j]
      BY <1>10, <2>3
    <3> QED
      BY <2>1, <3>1
  <2> QED
    BY <2>2, <2>3
<1>13. K!NoOperation \in K!Operation /\ K!NoOperation.stage = "idle"
  BY KeyAssumption DEF K!NoOperation, K!Operation
<1>14. operations' \in [Processes -> K!Operation]
  BY <1>1, <1>2, <1>13
<1>15. ASSUME NEW p \in Processes
       PROVE  Counts(p)'
  <2>1. CASE p = o
    <3>1. operations'[p] = K!NoOperation
      BY <1>1, <1>2, <2>1
    <3> QED
      BY <1>13, <3>1 DEF Counts, K!NoOperation
  <2>2. CASE p # o
    <3>1. operations'[p] = operations[p] /\ Counts(p)
      BY <1>1, <1>2, <2>2 DEF QuotaInv
    <3>2. \A q \in Processes : operations'[q].stage = "counted" => operations[q] = operations'[q]
      BY <1>1, <1>2, <1>13
    <3>3. ASSUME operations[p].stage = "counted"
          PROVE  /\ operations[p].key \in Keys /\ operations[p].key # k
                 /\ minuteUsage'[operations[p].key] = minuteUsage[operations[p].key]
                 /\ dayUsage'[operations[p].key] = dayUsage[operations[p].key]
      <4>1. operations[p].key \in Keys /\ operations[p].key # k
        BY <1>3, <2>2, <3>1, <3>3 DEF Counts
      <4> QED
        BY <1>10, <4>1
    <3> QED
      BY <3>1, <3>2, <3>3 DEF Counts
  <2> QED
    BY <2>1, <2>2
<1> QED
  BY <1>1, <1>10, <1>11, <1>12, <1>14, <1>15 DEF QuotaInv

\* Old windows are emptied; those of today are not, nor are days without their minutes.
LEMMA QuotasCleaned ==
  ASSUME QuotaInv, K!CleanUp
  PROVE  QuotaInv'
<1>1. /\ minuteUsage' = [k \in Keys |-> [m \in 1..LastMinute |->
                           IF K!ClosedMinute(m) THEN 0 ELSE minuteUsage[k][m]]]
      /\ dayUsage' = [k \in Keys |-> [d \in K!Days |-> IF K!Closed(d) THEN 0 ELSE dayUsage[k][d]]]
      /\ UNCHANGED <<minute, operations>>
  BY DEF K!CleanUp
<1>2. /\ minute \in 1..LastMinute
      /\ minuteUsage \in [Keys -> [1..LastMinute -> Nat]] /\ dayUsage \in [Keys -> [K!Days -> Nat]]
      /\ operations \in [Processes -> K!Operation]
      /\ TablesAgree /\ WithinQuotas
  BY DEF QuotaInv
<1>3. /\ \A k \in Keys : \A m \in 1..LastMinute :
           minuteUsage'[k][m] = IF K!ClosedMinute(m) THEN 0 ELSE minuteUsage[k][m]
      /\ \A k \in Keys : \A d \in K!Days : dayUsage'[k][d] = IF K!Closed(d) THEN 0 ELSE dayUsage[k][d]
  BY <1>1
<1>4. /\ minuteUsage' \in [Keys -> [1..LastMinute -> Nat]]
      /\ dayUsage' \in [Keys -> [K!Days -> Nat]]
  BY <1>1, <1>2
<1>5. /\ \A k \in Keys : \A m \in 1..LastMinute : minuteUsage'[k][m] <= minuteUsage[k][m]
      /\ \A k \in Keys : \A d \in K!Days : dayUsage'[k][d] <= dayUsage[k][d]
  <2>1. /\ \A k \in Keys : \A m \in 1..LastMinute : minuteUsage[k][m] \in Nat
        /\ \A k \in Keys : \A d \in K!Days : dayUsage[k][d] \in Nat
    BY <1>2
  <2> QED
    BY <1>3, <2>1
<1>6. WithinQuotas'
  <2>1. /\ \A k \in Keys : \A m \in 1..LastMinute : minuteUsage[k][m] \in Nat /\ minuteUsage'[k][m] \in Nat
        /\ \A k \in Keys : \A d \in K!Days : dayUsage[k][d] \in Nat /\ dayUsage'[k][d] \in Nat
    BY <1>2, <1>4
  <2>2. \A a, b, c \in Nat : a <= b /\ b <= c => a <= c
    OBVIOUS
  <2> QED
    BY KeyAssumption, <1>2, <1>5, <2>1, <2>2 DEF WithinQuotas
<1>7. TablesAgree'
  <2> SUFFICES ASSUME NEW k \in Keys, NEW d \in K!Days, d >= K!DayOf(minute)
               PROVE  dayUsage'[k][d] = SumFunctionOnSet(minuteUsage'[k], MinutesOf(d))
    BY <1>1 DEF TablesAgree
  <2>1. dayUsage[k][d] = SumFunctionOnSet(minuteUsage[k], MinutesOf(d))
    BY <1>2 DEF TablesAgree
  <2>2. d \in Int /\ K!DayOf(minute) \in Int
    BY <1>2, DayFacts DEF K!Days
  <2>3. ~K!Closed(d) /\ \A m \in MinutesOf(d) : ~K!ClosedMinute(m)
    BY <1>2, <2>2, ClosedIsPast DEF MinutesOf
  <2>4. \A m \in MinutesOf(d) : minuteUsage[k][m] = minuteUsage'[k][m]
    BY <1>3, <2>3 DEF MinutesOf
  <2>5. SumFunctionOnSet(minuteUsage[k], MinutesOf(d)) = SumFunctionOnSet(minuteUsage'[k], MinutesOf(d))
    BY <2>4, KeySums, SumSame
  <2> QED
    BY <1>3, <2>1, <2>3, <2>5
<1>8. ASSUME NEW o \in Processes
      PROVE  Counts(o)'
  <2>1. Counts(o)
    BY DEF QuotaInv
  <2>2. ASSUME operations[o].stage = "counted"
        PROVE  /\ minuteUsage'[operations[o].key][operations[o].in] < PerMinute
               /\ dayUsage'[operations[o].key][K!DayOf(operations[o].in)] < PerDay
    <3>1. /\ operations[o].key \in Keys /\ operations[o].in \in 1..LastMinute
          /\ K!DayOf(operations[o].in) \in K!Days
      BY <2>1, <2>2, DayFacts DEF Counts
    <3>2. /\ minuteUsage[operations[o].key][operations[o].in] \in Nat
          /\ minuteUsage'[operations[o].key][operations[o].in] \in Nat
          /\ dayUsage[operations[o].key][K!DayOf(operations[o].in)] \in Nat
          /\ dayUsage'[operations[o].key][K!DayOf(operations[o].in)] \in Nat
      BY <1>2, <1>4, <3>1
    <3>3. \A a, b, c \in Nat : a <= b /\ b < c => a < c
      OBVIOUS
    <3> QED
      BY KeyAssumption, <1>5, <2>1, <2>2, <3>1, <3>2, <3>3 DEF Counts
  <2> QED
    BY <1>1, <2>1, <2>2 DEF Counts
<1> QED
  BY <1>1, <1>2, <1>4, <1>6, <1>7, <1>8 DEF QuotaInv

LEMMA QuotaStep ==
  ASSUME QuotaInv, [K!Next]_kvars
  PROVE  QuotaInv'
<1>1. CASE UNCHANGED <<minute, minuteUsage, dayUsage, operations>>
  BY <1>1 DEF QuotaInv, Counts, TablesAgree, WithinQuotas
<1>2. ASSUME NEW o \in Processes, NEW k \in Keys, K!Authenticate(o, k)
      PROVE  QuotaInv'
  <2> DEFINE x == [K!NoOperation EXCEPT !.stage = "valid", !.key = k]
  <2>1. x \in K!Operation /\ x.key = k /\ x.stage = "valid"
    <3>1. 0 \in 0..LastMinute
      BY KeyAssumption
    <3>2. K!NoOperation \in K!Operation
      BY <3>1 DEF K!Operation, K!NoOperation
    <3> QED
      BY <3>2 DEF K!Operation
  <2>2. operations' = [operations EXCEPT ![o] = x] /\ UNCHANGED <<minute, minuteUsage, dayUsage>>
    BY <1>2 DEF K!Authenticate, K!usage
  <2> HIDE DEF x
  <2> QED
    BY <2>1, <2>2, OperationMoves
<1>3. ASSUME NEW o \in Processes, K!Unavailable(o)
      PROVE  QuotaInv'
  <2>1. K!NoOperation \in K!Operation /\ K!NoOperation.stage = "idle"
    BY KeyAssumption DEF K!Operation, K!NoOperation
  <2>2. operations' = [operations EXCEPT ![o] = K!NoOperation] /\ UNCHANGED <<minute, minuteUsage, dayUsage>>
    BY <1>3 DEF K!Unavailable, K!usage
  <2> QED
    BY <2>1, <2>2, OperationMoves
<1>4. CASE K!Tick
  <2>1. /\ minute \in 1..LastMinute /\ minute' \in 1..LastMinute /\ minute <= minute'
        /\ UNCHANGED <<minuteUsage, dayUsage, operations>>
    BY KeyAssumption, <1>4 DEF K!Tick, K!usage, QuotaInv
  <2>2. K!DayOf(minute) <= K!DayOf(minute')
    BY <2>1, DayFacts
  <2>3. K!DayOf(minute) \in Int /\ K!DayOf(minute') \in Int /\ \A d \in K!Days : d \in Int
    BY <2>1, DayFacts DEF K!Days
  <2>4. TablesAgree'
    <3> SUFFICES ASSUME NEW k \in Keys, NEW d \in K!Days, d >= K!DayOf(minute')
                 PROVE  dayUsage[k][d] = SumFunctionOnSet(minuteUsage[k], MinutesOf(d))
      BY <2>1 DEF TablesAgree
    <3>1. d >= K!DayOf(minute)
      BY <2>2, <2>3
    <3> QED
      BY <3>1 DEF TablesAgree, QuotaInv
  <2> QED
    BY <2>1, <2>4 DEF QuotaInv, Counts, WithinQuotas
<1>5. CASE \/ \E a \in Processes : K!CheckName(a)
           \/ \E a \in Processes, k \in Keys : K!FindKey(a, k)
           \/ \E a \in Processes, k \in Keys, g \in Graces : K!CreateKey(a, k, g) \/ K!RotateKey(a, k, g)
           \/ \E k \in Keys : K!Revoke(k)
           \/ UNCHANGED kvars
  <2>1. UNCHANGED <<minute, minuteUsage, dayUsage, operations>>
    BY <1>5 DEF K!CheckName, K!FindKey, K!CreateKey, K!RotateKey, K!Revoke, K!usage, kvars
  <2> QED
    BY <1>1, <2>1
<1> QED
  BY <1>2, <1>3, <1>4, <1>5, OperationCounts, OperationCharges, QuotasCleaned DEF K!Next

LEMMA QuotaInit ==
  ASSUME K!Init
  PROVE  QuotaInv
<1>1. /\ minute = 1 /\ minuteUsage = [k \in Keys |-> [m \in 1..LastMinute |-> 0]]
      /\ dayUsage = [k \in Keys |-> [d \in K!Days |-> 0]]
      /\ operations = [o \in Processes |-> K!NoOperation]
  BY DEF K!Init
<1>2. K!NoOperation \in K!Operation /\ K!NoOperation.stage = "idle"
  <2>1. 0 \in 0..LastMinute
    BY KeyAssumption
  <2> QED
    BY <2>1 DEF K!Operation, K!NoOperation
<1>3. 1 \in 1..LastMinute
  BY KeyAssumption
<1>4. /\ \A k \in Keys : \A m \in 1..LastMinute : minuteUsage[k][m] = 0
      /\ \A k \in Keys : \A d \in K!Days : dayUsage[k][d] = 0
  BY <1>1
<1>5. \A o \in Processes : Counts(o)
  BY <1>1, <1>2 DEF Counts
<1>6. TablesAgree
  <2> SUFFICES ASSUME NEW k \in Keys, NEW d \in K!Days
               PROVE  dayUsage[k][d] = SumFunctionOnSet(minuteUsage[k], MinutesOf(d))
    BY DEF TablesAgree
  <2>1. \A m \in MinutesOf(d) : minuteUsage[k][m] = 0
    BY <1>4 DEF MinutesOf
  <2>2. SumFunctionOnSet(minuteUsage[k], MinutesOf(d)) = 0
    BY <2>1, KeySums, SumOfZeros
  <2> QED
    BY <1>4, <2>2
<1>7. WithinQuotas
  BY KeyAssumption, <1>4 DEF WithinQuotas
<1> QED
  BY <1>1, <1>2, <1>3, <1>5, <1>6, <1>7 DEF QuotaInv

\* What the invariant says of the quotas.
LEMMA QuotaHolds ==
  ASSUME QuotaInv
  PROVE  K!QuotaKept
<1>1. K!DayOf(minute) \in K!Days /\ K!DayOf(minute) >= K!DayOf(minute)
  BY DayFacts DEF QuotaInv, K!Days
<1>2. ASSUME NEW k \in Keys
      PROVE  dayUsage[k][K!DayOf(minute)] = K!MapThenSumSet(LAMBDA m : minuteUsage[k][m],
               {m \in 1..LastMinute : K!DayOf(m) = K!DayOf(minute)})
  <2>1. dayUsage[k][K!DayOf(minute)] = SumFunctionOnSet(minuteUsage[k], MinutesOf(K!DayOf(minute)))
    BY <1>1 DEF QuotaInv, TablesAgree
  <2>2. SumFunctionOnSet(minuteUsage[k], MinutesOf(K!DayOf(minute)))
          = K!MapThenSumSet(LAMBDA m : minuteUsage[k][m], MinutesOf(K!DayOf(minute)))
    BY KeySums
  <2> QED
    BY Zenon, <2>1, <2>2 DEF MinutesOf
<1>3. \A k \in Keys : /\ \A m \in 1..LastMinute : minuteUsage[k][m] <= PerMinute
                      /\ \A d \in K!Days : dayUsage[k][d] <= PerDay
  BY DEF QuotaInv, WithinQuotas
<1> QED
  BY Zenon, <1>2, <1>3 DEF K!QuotaKept

(***************************************************************************)
(* API keys: one live key of a name.                                       *)
(***************************************************************************)
LEMMA NameInit ==
  ASSUME K!Init
  PROVE  NameInv
<1>1. /\ minute = 1 /\ keys = [k \in Keys |-> K!NoKey] /\ overtaken = FALSE
      /\ admins = [a \in Processes |-> K!NoAdmin]
  BY DEF K!Init
<1>2. /\ K!NoKey \in K!Key /\ K!NoKey.status = "unused"
      /\ K!NoAdmin \in K!Admin /\ K!NoAdmin.stage = "idle"
  BY DEF K!NoKey, K!NoAdmin, K!Key, K!Admin
<1>3. \A a \in Processes : Holds(a)
  BY <1>1, <1>2 DEF Holds
<1>4. K!Named = {}
  BY <1>1, <1>2 DEF K!Named, K!Live
<1>5. 1 \in 1..LastMinute
  BY KeyAssumption
<1> QED
  BY <1>1, <1>2, <1>3, <1>4, <1>5 DEF NameInv

\* Keys that die, by the clock or by a revocation, leave fewer of the name.
LEMMA NameShrinks ==
  ASSUME NameInv, UNCHANGED <<admins, overtaken>>, K!Named' \subseteq K!Named,
         minute' \in 1..LastMinute, keys' \in [Keys -> K!Key],
         \A k \in Keys : (\E a \in Processes : admins[a].source = k) => keys'[k] = keys[k]
  PROVE  NameInv'
<1>1. ASSUME NEW a \in Processes
      PROVE  Holds(a)'
  BY DEF Holds, NameInv
<1> QED
  BY <1>1 DEF NameInv

LEMMA NameStep ==
  ASSUME NameInv, [K!Next]_kvars
  PROVE  NameInv'
<1>0. /\ minute \in 1..LastMinute /\ keys \in [Keys -> K!Key] /\ admins \in [Processes -> K!Admin]
      /\ overtaken \in BOOLEAN
      /\ \A a \in Processes : Holds(a)
      /\ ~overtaken => \A k, l \in K!Named : k = l
  BY DEF NameInv
<1>1. CASE UNCHANGED <<minute, keys, admins, overtaken>>
  <2>1. K!Named' \subseteq K!Named
    BY <1>1 DEF K!Named, K!Live
  <2> QED
    BY <1>0, <1>1, <2>1, NameShrinks
<1>2. CASE K!Tick
  <2>1. minute' \in 1..LastMinute /\ minute <= minute' /\ UNCHANGED <<keys, admins, overtaken>>
    BY KeyAssumption, <1>0, <1>2 DEF K!Tick, K!usage
  <2>2. \A k \in Keys : keys[k].until \in Nat
    BY <1>0 DEF K!Key
  <2>3. K!Named' \subseteq K!Named
    BY <1>0, <2>1, <2>2 DEF K!Named, K!Live
  <2> QED
    BY <1>0, <2>1, <2>3, NameShrinks
<1>3. ASSUME NEW k \in Keys, K!Revoke(k)
      PROVE  NameInv'
  <2> DEFINE x == [keys[k] EXCEPT !.status = "revoked"]
  <2>1. keys' = [keys EXCEPT ![k] = x] /\ UNCHANGED <<minute, admins, overtaken>>
        /\ \A a \in Processes : admins[a].source # k
    BY <1>3 DEF K!Revoke
  <2>2. x \in K!Key /\ x.status = "revoked"
    BY <1>0 DEF K!Key
  <2> HIDE DEF x
  <2>3. keys' \in [Keys -> K!Key] /\ \A l \in Keys : keys'[l] = IF l = k THEN x ELSE keys[l]
    BY <1>0, <2>1, <2>2
  <2>4. K!Named' \subseteq K!Named
    BY <2>1, <2>2, <2>3 DEF K!Named, K!Live
  <2> QED
    BY <1>0, <2>1, <2>3, <2>4, NameShrinks
<1>4. ASSUME NEW a \in Processes, K!CheckName(a)
      PROVE  NameInv'
  <2> DEFINE x == [admins[a] EXCEPT !.stage = "creating"]
  <2>1. /\ admins' = [admins EXCEPT ![a] = x] /\ UNCHANGED <<minute, keys, overtaken>>
        /\ admins[a].stage = "idle" /\ K!Named = {}
        /\ \A b \in Processes : admins[b].stage # "creating"
    BY <1>4 DEF K!CheckName, K!NameLockFree
  <2>2. x \in K!Admin /\ x.stage = "creating"
    BY <1>0 DEF K!Admin
  <2> HIDE DEF x
  <2>3. admins' \in [Processes -> K!Admin]
        /\ \A b \in Processes : admins'[b] = IF b = a THEN x ELSE admins[b]
    BY <1>0, <2>1, <2>2
  <2>4. K!Named' = {}
    BY <2>1 DEF K!Named, K!Live
  <2>5. ASSUME NEW b \in Processes
        PROVE  Holds(b)'
    BY <1>0, <2>1, <2>2, <2>3, <2>4, <2>5 DEF Holds
  <2> QED
    BY <1>0, <2>1, <2>3, <2>4, <2>5 DEF NameInv
<1>5. ASSUME NEW a \in Processes, NEW k \in Keys, K!FindKey(a, k)
      PROVE  NameInv'
  <2> DEFINE x == [stage |-> "rotating", source |-> k]
  <2>1. /\ admins' = [admins EXCEPT ![a] = x] /\ UNCHANGED <<minute, keys, overtaken>>
        /\ admins[a].stage = "idle" /\ K!Named = {k}
        /\ \A b \in Processes : admins[b].source # k
    BY <1>5 DEF K!FindKey, K!RowLockFree
  <2>2. x \in K!Admin /\ x.stage = "rotating" /\ x.source = k
    BY DEF K!Admin
  <2> HIDE DEF x
  <2>3. admins' \in [Processes -> K!Admin]
        /\ \A b \in Processes : admins'[b] = IF b = a THEN x ELSE admins[b]
    BY <1>0, <2>1, <2>2
  <2>4. K!Named' = K!Named /\ keys[k].status = "enabled" /\ keys[k].named
    BY <2>1 DEF K!Named, K!Live
  <2>5. ASSUME NEW b \in Processes
        PROVE  Holds(b)'
    <3>1. CASE b = a
      BY <2>1, <2>2, <2>3, <2>4, <3>1 DEF Holds
    <3>2. CASE b # a
      <4>1. admins'[b] = admins[b] /\ Holds(b)
        BY <1>0, <2>3, <3>2
      <4>2. \A c \in Processes : admins'[c].stage = "creating" => admins[c] = admins'[c]
        BY <2>2, <2>3
      <4>3. admins[b].source # k
        BY <2>1
      <4> QED
        BY <2>1, <2>2, <2>3, <2>4, <4>1, <4>2, <4>3 DEF Holds
    <3> QED
      BY <3>1, <3>2
  <2> QED
    BY <1>0, <2>1, <2>3, <2>4, <2>5 DEF NameInv
<1>6. ASSUME NEW a \in Processes, NEW k \in Keys, NEW g \in Graces, K!CreateKey(a, k, g)
      PROVE  NameInv'
  <2> DEFINE x == [status |-> "enabled", named |-> TRUE, until |-> IF g = 0 THEN 0 ELSE minute + g]
  <2>1. /\ keys' = [keys EXCEPT ![k] = x] /\ admins' = [admins EXCEPT ![a] = K!NoAdmin]
        /\ UNCHANGED <<minute, overtaken>>
        /\ admins[a].stage = "creating" /\ keys[k].status = "unused"
    BY <1>6 DEF K!CreateKey
  <2>2. x \in K!Key /\ x.status = "enabled"
    BY KeyAssumption, <1>0 DEF K!Key
  <2> HIDE DEF x
  <2>3. /\ keys' \in [Keys -> K!Key] /\ \A l \in Keys : keys'[l] = IF l = k THEN x ELSE keys[l]
        /\ K!NoAdmin \in K!Admin /\ K!NoAdmin.stage = "idle"
    BY <1>0, <2>1, <2>2 DEF K!NoAdmin, K!Admin
  <2>4. /\ admins' \in [Processes -> K!Admin]
        /\ \A b \in Processes : admins'[b] = IF b = a THEN K!NoAdmin ELSE admins[b]
    BY <1>0, <2>1, <2>3
  <2>5. /\ \A b \in Processes : admins[b].stage = "creating" => b = a
        /\ ~overtaken => K!Named = {}
    BY <1>0, <2>1 DEF Holds
  <2>6. ~overtaken => K!Named' \subseteq {k}
    BY <2>1, <2>3, <2>5 DEF K!Named, K!Live
  <2>7. ASSUME NEW b \in Processes
        PROVE  Holds(b)'
    <3>1. CASE b = a
      BY <2>3, <2>4, <3>1 DEF Holds
    <3>2. CASE b # a
      <4>1. admins'[b] = admins[b] /\ Holds(b) /\ admins[b].stage # "creating"
        BY <1>0, <2>4, <2>5, <3>2
      <4>2. \A c \in Processes : admins'[c].stage = "rotating" => admins[c] = admins'[c]
        BY <2>3, <2>4
      <4>3. admins[b].stage = "rotating" => admins[b].source # k
        BY <2>1, <4>1 DEF Holds
      <4> QED
        BY <2>3, <4>1, <4>2, <4>3 DEF Holds
    <3> QED
      BY <3>1, <3>2
  <2> QED
    BY <1>0, <2>1, <2>3, <2>4, <2>6, <2>7 DEF NameInv
<1>7. ASSUME NEW a \in Processes, NEW k \in Keys, NEW g \in Graces, K!RotateKey(a, k, g)
      PROVE  NameInv'
  <2> DEFINE s == admins[a].source
             old == [keys[s] EXCEPT !.named = FALSE, !.until = minute + g]
             x == [status |-> "enabled", named |-> TRUE, until |-> 0]
  <2>1. /\ s \in Keys /\ keys[s].status = "enabled" /\ keys[s].named
        /\ keys[k].status = "unused" /\ admins[a].stage = "rotating"
        /\ \A b \in Processes : admins[b].stage = "rotating" /\ admins[b].source = s => b = a
    BY <1>0, <1>7 DEF Holds, K!RotateKey
  <2>2. s # k
    BY <2>1
  <2>3. /\ keys' = [keys EXCEPT ![s] = old, ![k] = x]
        /\ admins' = [admins EXCEPT ![a] = K!NoAdmin]
        /\ overtaken' = (overtaken \/ ~K!Live(s)) /\ UNCHANGED minute
    BY <1>7 DEF K!RotateKey
  <2>4. old \in K!Key /\ ~old.named /\ x \in K!Key
    <3>1. minute + g \in Nat /\ keys[s] \in K!Key
      BY KeyAssumption, <1>0, <2>1
    <3>2. old \in K!Key /\ ~old.named
      BY <3>1 DEF K!Key
    <3>3. x \in K!Key
      BY DEF K!Key
    <3> QED
      BY <3>2, <3>3
  <2> HIDE DEF s, old, x
  <2>5. /\ keys' \in [Keys -> K!Key]
        /\ \A l \in Keys : keys'[l] = IF l = k THEN x ELSE IF l = s THEN old ELSE keys[l]
    BY <1>0, <2>1, <2>2, <2>3, <2>4
  <2>6. K!NoAdmin \in K!Admin /\ K!NoAdmin.stage = "idle"
    BY DEF K!NoAdmin, K!Admin
  <2>7. /\ admins' \in [Processes -> K!Admin]
        /\ \A b \in Processes : admins'[b] = IF b = a THEN K!NoAdmin ELSE admins[b]
    BY <1>0, <2>3, <2>6
  <2>8. ASSUME ~overtaken'
        PROVE  K!Named = {s}
    <3>1. ~overtaken /\ K!Live(s)
      BY <2>3, <2>8
    <3>2. s \in K!Named
      BY <2>1, <3>1 DEF K!Named
    <3> QED
      BY <1>0, <3>1, <3>2
  <2>9. ~overtaken' => K!Named' \subseteq {k}
    <3> SUFFICES ASSUME ~overtaken', NEW l \in K!Named', l # k
                 PROVE  FALSE
      OBVIOUS
    <3>1. l \in Keys /\ keys'[l].named /\ keys'[l].status = "enabled"
          /\ (keys'[l].until = 0 \/ keys'[l].until > minute')
      BY DEF K!Named, K!Live
    <3>2. l # s /\ keys'[l] = keys[l]
      BY <2>4, <2>5, <3>1
    <3>3. l \in K!Named
      BY <2>3, <3>1, <3>2 DEF K!Named, K!Live
    <3> QED
      BY <2>8, <3>2, <3>3
  <2>10. ASSUME NEW b \in Processes
         PROVE  Holds(b)'
    <3>1. CASE b = a
      BY <2>6, <2>7, <3>1 DEF Holds
    <3>2. CASE b # a
      <4>1. admins'[b] = admins[b] /\ Holds(b)
        BY <1>0, <2>7, <3>2
      <4>2. \A c \in Processes : admins'[c].stage # "idle" => admins[c] = admins'[c]
        BY <2>6, <2>7
      <4>3. admins[b].stage = "rotating" => admins[b].source # k /\ admins[b].source # s
        BY <2>1, <3>2, <4>1 DEF Holds
      <4>4. admins[b].stage = "creating" => overtaken'
        <5> SUFFICES ASSUME admins[b].stage = "creating", ~overtaken'
                     PROVE  FALSE
          OBVIOUS
        <5>1. ~overtaken /\ K!Named = {s}
          BY <2>3, <2>8
        <5> QED
          BY <4>1, <5>1 DEF Holds
      <4> QED
        BY <2>5, <4>1, <4>2, <4>3, <4>4 DEF Holds
    <3> QED
      BY <3>1, <3>2
  <2>11. overtaken' \in BOOLEAN
    BY <1>0, <2>3
  <2> QED
    BY <1>0, <2>3, <2>5, <2>7, <2>9, <2>10, <2>11 DEF NameInv
<1>8. CASE UNCHANGED kvars
  BY <1>1, <1>8 DEF kvars
<1>9. CASE K!Next
  <2>1. \/ \E o \in Processes : \/ \E k \in Keys : K!Authenticate(o, k)
                                \/ K!Count(o) \/ K!Charge(o) \/ K!Unavailable(o)
        \/ \E a \in Processes : K!CheckName(a)
        \/ \E a \in Processes, k \in Keys : K!FindKey(a, k)
        \/ \E a \in Processes, k \in Keys, g \in Graces : K!CreateKey(a, k, g) \/ K!RotateKey(a, k, g)
        \/ \E k \in Keys : K!Revoke(k)
        \/ K!Tick \/ K!CleanUp
    BY Zenon, <1>9 DEF K!Next
  <2>2. CASE \E a \in Processes, k \in Keys, g \in Graces : K!CreateKey(a, k, g) \/ K!RotateKey(a, k, g)
    BY <1>6, <1>7, <2>2
  <2>3. CASE \/ \E o \in Processes : \/ \E k \in Keys : K!Authenticate(o, k)
                                     \/ K!Count(o) \/ K!Charge(o) \/ K!Unavailable(o)
             \/ K!CleanUp
    <3>1. UNCHANGED <<minute, keys, admins, overtaken>>
      BY <2>3 DEF K!Authenticate, K!Count, K!Charge, K!Unavailable, K!CleanUp
    <3> QED
      BY <1>1, <3>1
  <2>4. CASE \E a \in Processes : K!CheckName(a)
    BY <1>4, <2>4
  <2>5. CASE \E a \in Processes, k \in Keys : K!FindKey(a, k)
    BY <1>5, <2>5
  <2>6. CASE \E k \in Keys : K!Revoke(k)
    BY <1>3, <2>6
  <2> QED
    BY Zenon, <1>2, <2>1, <2>2, <2>3, <2>4, <2>5, <2>6
<1> QED
  BY <1>8, <1>9

LEMMA NameHolds ==
  ASSUME NameInv
  PROVE  K!NameUnambiguous
<1> SUFFICES ASSUME ~overtaken
             PROVE  K!Cardinality(K!Named) <= 1
  BY Zenon DEF K!NameUnambiguous
<1>1. \A k, l \in K!Named : k = l
  BY DEF NameInv
<1>2. CASE K!Named = {}
  BY <1>2, FS_EmptySet, KeySums
<1>3. CASE K!Named # {}
  <2>1. PICK k : k \in K!Named
    BY <1>3
  <2>2. K!Named = {k}
    BY <1>1, <2>1
  <2>3. Cardinality({k}) = 1
    BY FS_Singleton
  <2> QED
    BY <2>2, <2>3, KeySums
<1> QED
  BY <1>2, <1>3

(***************************************************************************)
(* Reflection.                                                             *)
(***************************************************************************)
ReflectionTyped ==
  /\ season \in 1..LastSeason
  /\ evidence \in [Evidence -> F!Memory]
  /\ reflections \in [F!Generations -> F!ReflectionRun \cup {None}]
  /\ insights \in [Insights -> (SUBSET Evidence) \cup {None}]
  /\ reflectors \in [Processes -> F!Reflector]
  /\ disruptions \in 0..MaxDisruptions
  /\ published \in [F!Generations -> Nat]
  /\ late \in Nat

\* Generations are opened one after the other.
InOrder == \E n \in 0..MaxGenerations : F!Existing = 0..n - 1

\* A process that holds a run holds one that exists.
HoldsRun(p) ==
  reflectors[p].step \in {"claimed", "reserved", "generated", "failing"} =>
    reflectors[p].gen \in F!Existing

\* A generation that stored its insights was completed by that, and stays so.
PublishedIsCompleted ==
  \A g \in F!Generations :
    /\ published[g] <= 1
    /\ published[g] # 0 => g \in F!Existing /\ reflections[g].status = "completed"

\* No run was started in a month to come.
StartedByNow == \A g \in F!Existing : reflections[g].started <= season

\* The spending of a month is a sum over its runs.
CallsOf == [g \in F!Generations |-> reflections[g].calls]

StartedIn(s) == {g \in F!Existing : reflections[g].started = s}

\* What carried runs reserved this month is among all they reserved.
LateIsCarried == late <= SumFunctionOnSet(CallsOf, F!Carried)

ReflectionInv ==
  /\ ReflectionTyped /\ InOrder /\ PublishedIsCompleted /\ StartedByNow
  /\ \A p \in Processes : HoldsRun(p)
  /\ SumFunctionOnSet(CallsOf, StartedIn(season)) <= MonthlyCalls
  /\ LateIsCarried

LEMMA ReflectionOperators ==
  /\ \A S : F!Cardinality(S) = Cardinality(S)
  /\ \A S : F!Max(S) = Max(S)
<1>1. \A S : F!Cardinality(S) = Cardinality(S)
  BY Zenon DEF F!Cardinality, Cardinality
<1>2. \A S : F!Max(S) = Max(S)
  BY Zenon DEF F!Max, Max
<1> QED
  BY <1>1, <1>2

\* What the model computes is that sum.
LEMMA SpendingIsASum ==
  ASSUME NEW s
  PROVE  F!SpentIn(s) = SumFunctionOnSet(CallsOf, StartedIn(s))
<1> DEFINE S == StartedIn(s)
           Spends(h) == h = [t \in SUBSET S |-> IF t = {} THEN 0
                               ELSE reflections[First(t)].calls + h[t \ {First(t)}]]
<1>1. F!SpentIn(s) = (CHOOSE h : Spends(h))[S]
  BY Zenon DEF F!SpentIn, F!MapThenSumSet, F!MapThenFoldSet, First, StartedIn
<1>2. ASSUME NEW t \in SUBSET S, t # {}
      PROVE  reflections[First(t)].calls = CallsOf[First(t)]
  <2>1. First(t) \in t
    BY <1>2 DEF First
  <2>2. First(t) \in F!Generations
    BY <2>1 DEF StartedIn, F!Existing
  <2> QED
    BY <2>2 DEF CallsOf
<1>3. ASSUME NEW h
      PROVE  Spends(h) <=> Adds(CallsOf, S, h)
  <2>1. [t \in SUBSET S |-> IF t = {} THEN 0 ELSE reflections[First(t)].calls + h[t \ {First(t)}]]
          = [t \in SUBSET S |-> IF t = {} THEN 0 ELSE CallsOf[First(t)] + h[t \ {First(t)}]]
    <3> HIDE DEF S
    <3> QED
      BY <1>2
  <2> QED
    BY Zenon, <2>1 DEF Adds
<1>4. (CHOOSE h : Spends(h)) = (CHOOSE h : Adds(CallsOf, S, h))
  <2> HIDE DEF Spends, S
  <2> QED
    BY Zenon, <1>3
<1>5. SumFunctionOnSet(CallsOf, S) = (CHOOSE h : Adds(CallsOf, S, h))[S]
  BY SumByRecursion
<1> QED
  BY Zenon, <1>1, <1>4, <1>5

LEMMA RunsAreFinite ==
  /\ IsFiniteSet(F!Generations) /\ IsFiniteSet(F!Existing) /\ F!Existing \subseteq F!Generations
  /\ \A s : IsFiniteSet(StartedIn(s)) /\ StartedIn(s) \subseteq F!Existing
  /\ IsFiniteSet(F!Carried) /\ F!Carried \subseteq F!Existing
<1>1. IsFiniteSet(F!Generations)
  <2>1. MaxGenerations - 1 \in Int /\ 0 \in Int
    BY ReflectionAssumption
  <2> QED
    BY <2>1, FS_Interval DEF F!Generations
<1>2. F!Existing \in SUBSET F!Generations
  BY DEF F!Existing
<1>3. IsFiniteSet(F!Existing)
  BY <1>1, <1>2, FS_Subset
<1>4. \A s : StartedIn(s) \in SUBSET F!Existing
  BY DEF StartedIn
<1>5. F!Carried \in SUBSET F!Existing
  BY DEF F!Carried
<1> QED
  BY <1>1, <1>2, <1>3, <1>4, <1>5, FS_Subset

\* A process goes on, and no run changes.
LEMMA ReflectorMoves ==
  ASSUME ReflectionInv, NEW p \in Processes, NEW x \in F!Reflector,
         reflectors' = [reflectors EXCEPT ![p] = x],
         UNCHANGED <<season, evidence, reflections, insights, published, late>>,
         disruptions' \in 0..MaxDisruptions,
         x.step \in {"claimed", "reserved", "generated", "failing"} => x.gen \in F!Existing
  PROVE  ReflectionInv'
<1>1. /\ ReflectionTyped /\ InOrder /\ PublishedIsCompleted /\ StartedByNow
      /\ \A q \in Processes : HoldsRun(q)
      /\ SumFunctionOnSet(CallsOf, StartedIn(season)) <= MonthlyCalls
      /\ LateIsCarried
  BY DEF ReflectionInv
<1>2. /\ reflectors' \in [Processes -> F!Reflector]
      /\ \A q \in Processes : reflectors'[q] = IF q = p THEN x ELSE reflectors[q]
  BY <1>1 DEF ReflectionTyped
<1>3. F!Existing' = F!Existing
  BY DEF F!Existing
<1>4. CallsOf' = CallsOf /\ StartedIn(season)' = StartedIn(season) /\ F!Carried' = F!Carried
  BY <1>3 DEF CallsOf, StartedIn, F!Carried
<1>5. \A q \in Processes : HoldsRun(q)'
  BY <1>1, <1>2, <1>3 DEF HoldsRun
<1>6. ReflectionTyped' /\ InOrder' /\ PublishedIsCompleted' /\ StartedByNow'
  BY <1>1, <1>2, <1>3 DEF ReflectionTyped, InOrder, PublishedIsCompleted, StartedByNow
<1>7. LateIsCarried'
  BY <1>1, <1>4 DEF LateIsCarried
<1> QED
  BY <1>1, <1>4, <1>5, <1>6, <1>7 DEF ReflectionInv

\* A run that exists is changed: it stays of its month, and what it spends more is there.
LEMMA RunChanges ==
  ASSUME ReflectionInv, NEW g \in F!Existing, NEW r \in F!ReflectionRun,
         reflections' = [reflections EXCEPT ![g] = r],
         UNCHANGED <<season, evidence>>,
         insights' \in [Insights -> (SUBSET Evidence) \cup {None}],
         disruptions' \in 0..MaxDisruptions,
         reflectors' \in [Processes -> F!Reflector],
         \A p \in Processes : HoldsRun(p)' \/ reflectors'[p] = reflectors[p],
         r.started = reflections[g].started,
         \/ r.calls = reflections[g].calls /\ late' = late
         \/ r.calls = reflections[g].calls + 1
            /\ SumFunctionOnSet(CallsOf, StartedIn(season)) < MonthlyCalls
            /\ late' = IF reflections[g].started = season THEN late ELSE late + 1,
         \/ published' = published /\ (reflections[g].status = "completed" => r.status = "completed")
         \/ published' = [published EXCEPT ![g] = published[g] + 1]
            /\ reflections[g].status # "completed" /\ r.status = "completed"
  PROVE  ReflectionInv'
<1>1. /\ ReflectionTyped /\ InOrder /\ PublishedIsCompleted /\ StartedByNow
      /\ \A q \in Processes : HoldsRun(q)
      /\ SumFunctionOnSet(CallsOf, StartedIn(season)) <= MonthlyCalls
      /\ LateIsCarried
  BY DEF ReflectionInv
<1>2. /\ g \in F!Generations /\ reflections[g] \in F!ReflectionRun
      /\ reflections \in [F!Generations -> F!ReflectionRun \cup {None}]
      /\ published \in [F!Generations -> Nat]
  BY <1>1 DEF ReflectionTyped, F!Existing
<1>3. /\ reflections' \in [F!Generations -> F!ReflectionRun \cup {None}]
      /\ \A h \in F!Generations : reflections'[h] = IF h = g THEN r ELSE reflections[h]
  BY <1>2
<1>4. F!Existing' = F!Existing
  <2>1. r # None /\ reflections[g] # None
    BY ReflectionAssumption DEF F!Existing
  <2> QED
    BY <1>3, <2>1 DEF F!Existing
<1>5. \A q \in Processes : HoldsRun(q)'
  BY <1>1, <1>4 DEF HoldsRun
<1>6. /\ published' \in [F!Generations -> Nat]
      /\ PublishedIsCompleted'
  <2>1. CASE published' = published /\ (reflections[g].status = "completed" => r.status = "completed")
    BY <1>1, <1>2, <1>3, <1>4, <2>1 DEF PublishedIsCompleted
  <2>2. CASE published' = [published EXCEPT ![g] = published[g] + 1]
             /\ reflections[g].status # "completed" /\ r.status = "completed"
    <3>1. published[g] = 0
      BY <1>1, <1>2, <2>2 DEF PublishedIsCompleted
    <3>2. /\ published' \in [F!Generations -> Nat]
          /\ \A h \in F!Generations : published'[h] = IF h = g THEN 1 ELSE published[h]
      BY <1>2, <2>2, <3>1
    <3> QED
      BY <1>1, <1>3, <1>4, <2>2, <3>2 DEF PublishedIsCompleted
  <2> QED
    BY <2>1, <2>2
<1>7. StartedByNow' /\ StartedIn(season)' = StartedIn(season) /\ F!Carried' = F!Carried
  BY <1>1, <1>3, <1>4, RunsAreFinite DEF StartedByNow, StartedIn, F!Carried
<1>8. /\ \A h \in F!Generations : CallsOf[h] = reflections[h].calls
      /\ \A h \in F!Generations : CallsOf'[h] = reflections'[h].calls
      /\ \A h \in F!Existing : CallsOf[h] \in Nat /\ CallsOf'[h] \in Nat
  <2>1. \A h \in F!Existing : reflections[h].calls \in Nat /\ reflections'[h].calls \in Nat
    BY <1>2, <1>3 DEF F!Existing, F!ReflectionRun
  <2> QED
    BY <2>1, RunsAreFinite DEF CallsOf
<1> DEFINE S == StartedIn(season)
           f == CallsOf
           h == CallsOf'
           C == F!Carried
<1>9. IsFiniteSet(S) /\ S \subseteq F!Existing /\ F!Existing \subseteq F!Generations
  BY RunsAreFinite
<1>10. /\ \A s \in S : f[s] \in Nat /\ h[s] \in Nat
       /\ \A s \in S \ {g} : f[s] = h[s]
       /\ f[g] = reflections[g].calls /\ h[g] = r.calls
  BY <1>2, <1>3, <1>8, <1>9
<1>11. /\ IsFiniteSet(C) /\ (g \in C <=> reflections[g].started # season)
       /\ \A s \in C : f[s] \in Nat /\ h[s] \in Nat
       /\ \A s \in C \ {g} : f[s] = h[s]
       /\ late \in Nat /\ late <= SumFunctionOnSet(f, C)
  <2>1. g \in C <=> reflections[g].started # season
    <3>1. /\ reflections[g].started \in Int /\ season \in Int
          /\ reflections[g].started <= season
      BY <1>1, <1>2 DEF F!ReflectionRun, ReflectionTyped, StartedByNow
    <3> QED
      BY <3>1 DEF F!Carried
  <2>2. late \in Nat /\ late <= SumFunctionOnSet(f, C)
    BY <1>1 DEF ReflectionTyped, LateIsCarried
  <2>3. IsFiniteSet(C) /\ C \subseteq F!Existing
    BY RunsAreFinite
  <2> HIDE DEF C
  <2> QED
    BY <1>3, <1>8, <1>9, <2>1, <2>2, <2>3
<1>12. f[g] = reflections[g].calls /\ h[g] = r.calls /\ f[g] \in Nat
  BY <1>8, <1>10
<1> HIDE DEF S, f, h, C
<1>13. late' \in Nat /\ late' <= SumFunctionOnSet(h, C)
  <2>1. SumFunctionOnSet(f, C) \in Nat /\ SumFunctionOnSet(h, C) \in Nat
    BY <1>11, SumType
  <2>2. CASE g \notin C
    <3>1. \A s \in C : f[s] = h[s]
      BY <1>11, <2>2
    <3>2. SumFunctionOnSet(f, C) = SumFunctionOnSet(h, C)
      BY <1>11, <3>1, SumSame
    <3> QED
      BY <1>11, <2>2, <3>2
  <2>3. CASE g \in C
    <3>1. SumFunctionOnSet(h, C) + f[g] = SumFunctionOnSet(f, C) + h[g]
      BY <1>11, <2>3, SumChanged
    <3>2. \/ h[g] = f[g] /\ late' = late
          \/ h[g] = f[g] + 1 /\ late' = late + 1
      BY <1>11, <1>12, <2>3
    <3> QED
      BY <1>11, <1>12, <2>1, <3>1, <3>2
  <2> QED
    BY <2>2, <2>3
<1>14. SumFunctionOnSet(f, S) \in Nat /\ SumFunctionOnSet(h, S) \in Nat
  BY <1>9, <1>10, SumType
<1>15. SumFunctionOnSet(h, S) <= MonthlyCalls
  <2>0. SumFunctionOnSet(f, S) <= MonthlyCalls
    BY <1>1 DEF f, S
  <2>1. CASE g \notin S \/ r.calls = reflections[g].calls
    <3>1. \A s \in S : f[s] = h[s]
      BY <1>10, <2>1
    <3>2. SumFunctionOnSet(f, S) = SumFunctionOnSet(h, S)
      BY <1>9, <3>1, SumSame
    <3> QED
      BY <2>0, <3>2
  <2>2. CASE g \in S /\ r.calls = reflections[g].calls + 1
             /\ SumFunctionOnSet(f, S) < MonthlyCalls
    <3>1. SumFunctionOnSet(h, S) + f[g] = SumFunctionOnSet(f, S) + h[g]
      BY <1>9, <1>10, <2>2, SumChanged
    <3>2. h[g] = f[g] + 1 /\ f[g] \in Nat
      BY <1>10, <2>2
    <3> QED
      BY ReflectionAssumption, <1>14, <2>2, <3>1, <3>2
  <2> QED
    BY <2>1, <2>2 DEF f, S
<1>16. (SumFunctionOnSet(CallsOf, StartedIn(season)) <= MonthlyCalls)'
  BY <1>7, <1>15 DEF h, S
<1>17. ReflectionTyped' /\ InOrder'
  BY <1>1, <1>3, <1>4, <1>6, <1>13 DEF ReflectionTyped, InOrder
<1>18. LateIsCarried'
  BY <1>7, <1>13 DEF h, C, LateIsCarried
<1> QED
  BY <1>5, <1>6, <1>7, <1>16, <1>17, <1>18 DEF ReflectionInv

LEMMA RestingIsTyped ==
  /\ F!Resting \in F!Reflector /\ F!Resting.step = "idle" /\ F!Resting.gen = None
  /\ F!Nothing \in [Evidence -> 0..MaxRevision \cup {None}]
<1>1. F!Nothing \in [Evidence -> 0..MaxRevision \cup {None}]
  BY DEF F!Nothing
<1> QED
  BY <1>1 DEF F!Resting, F!Reflector, F!Steps

\* A new generation has spent nothing yet.
LEMMA RunOpens ==
  ASSUME ReflectionInv, NEW p \in Processes, NEW g \in F!Generations, g = F!Cardinality(F!Existing),
         reflections' = [reflections EXCEPT ![g] =
           [status |-> "running", calls |-> 0, started |-> season, stale |-> FALSE]],
         UNCHANGED <<season, evidence, insights, disruptions, published, late>>,
         reflectors[p].step = "materialized",
         reflectors' = F!Holding(p, g)
  PROVE  ReflectionInv'
<1> DEFINE r == [status |-> "running", calls |-> 0, started |-> season, stale |-> FALSE]
           x == [reflectors[p] EXCEPT !.step = "claimed", !.gen = g, !.force = FALSE]
<1>1. /\ ReflectionTyped /\ InOrder /\ PublishedIsCompleted /\ StartedByNow
      /\ \A q \in Processes : HoldsRun(q)
      /\ SumFunctionOnSet(CallsOf, StartedIn(season)) <= MonthlyCalls
      /\ LateIsCarried
  BY DEF ReflectionInv
<1>2. PICK n \in 0..MaxGenerations : F!Existing = 0..n - 1
  BY <1>1 DEF InOrder
<1>3. g = n
  <2>1. Cardinality(0..n - 1) = n
    <3>1. n \in Int /\ n - 1 \in Int /\ 0 \in Int /\ n >= 0
      OBVIOUS
    <3>2. \A a, b \in Int : Cardinality(a..b) = IF a > b THEN 0 ELSE b - a + 1
      BY FS_Interval
    <3> QED
      BY <3>1, <3>2
  <2> QED
    BY <1>2, <2>1, ReflectionOperators
<1>4. g \notin F!Existing /\ F!Existing \cup {g} = 0..(n + 1) - 1 /\ n + 1 \in 0..MaxGenerations
  BY ReflectionAssumption, <1>2, <1>3 DEF F!Generations
<1>5. r \in F!ReflectionRun /\ r.calls = 0 /\ r.started = season /\ r.status = "running" /\ r # None
  <2>1. 0 \in 0..MaxRunCalls
    BY ReflectionAssumption
  <2>2. r \in F!ReflectionRun
    BY <1>1, <2>1 DEF ReflectionTyped, F!ReflectionRun
  <2> QED
    BY ReflectionAssumption, <2>2
<1>6. x \in F!Reflector /\ x.gen = g /\ reflectors' = [reflectors EXCEPT ![p] = x]
  BY <1>1 DEF ReflectionTyped, F!Reflector, F!Steps, F!Holding
<1>7. reflections' = [reflections EXCEPT ![g] = r]
  OBVIOUS
<1> HIDE DEF r, x
<1>8. /\ reflections' \in [F!Generations -> F!ReflectionRun \cup {None}]
      /\ \A h \in F!Generations : reflections'[h] = IF h = g THEN r ELSE reflections[h]
  <2>1. reflections \in [F!Generations -> F!ReflectionRun \cup {None}]
    BY <1>1 DEF ReflectionTyped
  <2> QED
    BY ONLY <1>5, <1>7, <2>1, g \in F!Generations
<1>9. /\ reflectors' \in [Processes -> F!Reflector]
      /\ \A q \in Processes : reflectors'[q] = IF q = p THEN x ELSE reflectors[q]
  BY <1>1, <1>6 DEF ReflectionTyped
<1>10. F!Existing' = F!Existing \cup {g}
  BY <1>5, <1>8 DEF F!Existing
<1>11. \A q \in Processes : HoldsRun(q)'
  BY <1>1, <1>6, <1>9, <1>10 DEF HoldsRun
<1>12. PublishedIsCompleted'
  BY <1>1, <1>4, <1>8, <1>10 DEF PublishedIsCompleted
<1>13. StartedByNow'
  <2>1. season \in Int
    BY <1>1 DEF ReflectionTyped
  <2> QED
    BY <1>1, <1>5, <1>8, <1>10, <2>1, RunsAreFinite DEF StartedByNow
<1>14. InOrder' /\ ReflectionTyped'
  BY <1>1, <1>4, <1>8, <1>9, <1>10 DEF InOrder, ReflectionTyped
<1>15. StartedIn(season)' = StartedIn(season) \cup {g} /\ F!Carried' = F!Carried
  <2>1. season \in Int
    BY <1>1 DEF ReflectionTyped
  <2> QED
    BY <1>4, <1>5, <1>8, <1>10, <2>1, RunsAreFinite DEF StartedIn, F!Carried
<1>16. /\ \A h \in F!Generations : CallsOf[h] = reflections[h].calls
       /\ \A h \in F!Generations : CallsOf'[h] = reflections'[h].calls
  BY DEF CallsOf
<1>17. SumFunctionOnSet(CallsOf', StartedIn(season) \cup {g}) <= MonthlyCalls
  <2> DEFINE S == StartedIn(season)
             f == CallsOf
             h == CallsOf'
  <2>1. IsFiniteSet(S) /\ g \notin S /\ S \subseteq F!Existing
    BY <1>4, RunsAreFinite
  <2>2. \A s \in S : f[s] = h[s] /\ s # g /\ h[s] \in Nat
    <3>1. \A s \in F!Existing : reflections[s].calls \in Nat /\ s # g /\ reflections'[s] = reflections[s]
      BY <1>1, <1>4, <1>8, RunsAreFinite DEF ReflectionTyped, F!Existing, F!ReflectionRun
    <3> QED
      BY <1>16, <2>1, <3>1, RunsAreFinite
  <2>3. h[g] = 0
    BY <1>5, <1>8, <1>16
  <2>4. SumFunctionOnSet(f, S) <= MonthlyCalls
    BY <1>1
  <2> HIDE DEF S, f, h
  <2>5. SumFunctionOnSet(f, S) = SumFunctionOnSet(h, S)
    BY <2>1, <2>2, SumSame
  <2>6. \A s \in S \cup {g} : h[s] \in Nat
    BY <2>2, <2>3
  <2>7. SumFunctionOnSet(h, S \cup {g}) = SumFunctionOnSet(h, S) + h[g]
    BY <2>1, <2>6, SumWith
  <2>8. SumFunctionOnSet(h, S) \in Nat
    BY <2>1, <2>2, SumType
  <2>9. SumFunctionOnSet(h, S \cup {g}) <= MonthlyCalls
    BY <2>3, <2>4, <2>5, <2>7, <2>8
  <2> QED
    BY <2>9 DEF S, h
<1>18. (SumFunctionOnSet(CallsOf, StartedIn(season)) <= MonthlyCalls)'
  BY <1>15, <1>17
<1>19. LateIsCarried'
  <2>1. \A s \in F!Carried : CallsOf[s] = CallsOf'[s]
    BY <1>4, <1>8, <1>16, RunsAreFinite
  <2> DEFINE f == CallsOf
             h == CallsOf'
             C == F!Carried
  <2>2. IsFiniteSet(C) /\ late' = late
    BY RunsAreFinite
  <2> HIDE DEF f, h, C
  <2>3. SumFunctionOnSet(f, C) = SumFunctionOnSet(h, C)
    BY <2>1, <2>2, SumSame DEF f, h, C
  <2> QED
    BY <1>1, <1>15, <2>2, <2>3 DEF f, h, C, LateIsCarried
<1> QED
  BY <1>11, <1>12, <1>13, <1>14, <1>18, <1>19 DEF ReflectionInv

\* Claim: what it resumes is not completed.
LEMMA ClaimStep ==
  ASSUME ReflectionInv, NEW p \in Processes, F!Claim(p)
  PROVE  ReflectionInv'
<1>1. /\ reflectors[p].step = "materialized"
      /\ UNCHANGED <<season, evidence, insights, disruptions, published, late>>
  BY DEF F!Claim, F!quiet, F!outside, F!kept
<1>2. disruptions' \in 0..MaxDisruptions /\ insights' \in [Insights -> (SUBSET Evidence) \cup {None}]
  BY <1>1 DEF ReflectionInv, ReflectionTyped
<1>3. CASE reflectors' = [reflectors EXCEPT ![p] = F!Resting] /\ UNCHANGED reflections
  BY <1>1, <1>2, <1>3, RestingIsTyped, ReflectorMoves
<1>4. CASE /\ F!Existing # {} /\ ~reflectors[p].force /\ ~F!Reusable(p)
           /\ reflections' = [reflections EXCEPT
                               ![F!Latest] = [@ EXCEPT
                                 !.status = "running", !.stale = FALSE]]
           /\ reflectors' = F!Holding(p, F!Latest)
  <2> DEFINE g == F!Latest
             r == [reflections[g] EXCEPT !.status = "running", !.stale = FALSE]
             x == [reflectors[p] EXCEPT !.step = "claimed", !.gen = g, !.force = FALSE]
  <2>1. g \in F!Existing
    <3>1. F!Existing \subseteq Int /\ IsFiniteSet(F!Existing)
      BY RunsAreFinite DEF F!Generations
    <3> QED
      BY <1>4, <3>1, MaxIsGreatest, ReflectionOperators DEF F!Latest
  <2>2. g \in F!Generations /\ reflections[g] \in F!ReflectionRun
    BY <2>1 DEF F!Existing, ReflectionInv, ReflectionTyped
  <2>3. /\ r \in F!ReflectionRun /\ r.started = reflections[g].started
        /\ r.calls = reflections[g].calls /\ r.status = "running"
    BY <2>2 DEF F!ReflectionRun
  <2>4. reflections[g].status # "completed"
    BY <1>4 DEF F!Reusable
  <2>5. x \in F!Reflector /\ x.gen = g
    BY <2>2 DEF F!Reflector, F!Steps, ReflectionInv, ReflectionTyped
  <2>6. reflections' = [reflections EXCEPT ![g] = r] /\ reflectors' = [reflectors EXCEPT ![p] = x]
    BY <1>4 DEF F!Holding
  <2> HIDE DEF g, r, x
  <2>7. /\ reflectors' \in [Processes -> F!Reflector]
        /\ \A q \in Processes : reflectors'[q] = IF q = p THEN x ELSE reflectors[q]
    BY <2>5, <2>6 DEF ReflectionInv, ReflectionTyped
  <2>8. F!Existing' = F!Existing
    BY ReflectionAssumption, <2>1, <2>2, <2>3, <2>6 DEF F!Existing, ReflectionInv, ReflectionTyped
  <2>9. \A q \in Processes : HoldsRun(q)' \/ reflectors'[q] = reflectors[q]
    BY <2>1, <2>5, <2>7, <2>8 DEF HoldsRun
  <2> QED
    BY <1>1, <1>2, <2>1, <2>3, <2>4, <2>6, <2>7, <2>9, RunChanges
<1>5. ASSUME NEW g \in F!Generations, g = F!Cardinality(F!Existing),
             reflections' = [reflections EXCEPT ![g] =
               [status |-> "running", calls |-> 0, started |-> season, stale |-> FALSE]],
             reflectors' = F!Holding(p, g)
      PROVE  ReflectionInv'
  BY <1>1, <1>5, RunOpens
<1> QED
  BY <1>3, <1>4, <1>5 DEF F!Claim

\* A process closes its run, if it is running, and rests.
LEMMA RunCloses ==
  ASSUME ReflectionInv, NEW p \in Processes, NEW status \in {"completed", "failed", "cancelled"},
         reflectors[p].step \in {"claimed", "failing"},
         reflections' = IF F!Running(p) THEN F!Closed(reflectors[p].gen, status) ELSE reflections,
         reflectors' = [reflectors EXCEPT ![p] = F!Resting],
         UNCHANGED <<season, evidence, insights, disruptions, published, late>>
  PROVE  ReflectionInv'
<1> DEFINE g == reflectors[p].gen
           r == [reflections[g] EXCEPT !.status = status, !.stale = FALSE]
<1>1. disruptions' \in 0..MaxDisruptions /\ insights' \in [Insights -> (SUBSET Evidence) \cup {None}]
  BY DEF ReflectionInv, ReflectionTyped
<1>2. g \in F!Existing
  BY DEF ReflectionInv, HoldsRun
<1>3. g \in F!Generations /\ reflections[g] \in F!ReflectionRun
  BY <1>2 DEF F!Existing, ReflectionInv, ReflectionTyped
<1>4. CASE F!Running(p)
  <2>1. /\ r \in F!ReflectionRun /\ r.started = reflections[g].started
        /\ r.calls = reflections[g].calls /\ r.status = status
    BY <1>3 DEF F!ReflectionRun
  <2>2. reflections[g].status # "completed"
    BY <1>4 DEF F!Running
  <2>3. reflections' = [reflections EXCEPT ![g] = r]
    BY <1>4 DEF F!Closed
  <2> HIDE DEF g, r
  <2>4. /\ reflectors' \in [Processes -> F!Reflector]
        /\ \A q \in Processes : reflectors'[q] = IF q = p THEN F!Resting ELSE reflectors[q]
    BY RestingIsTyped DEF ReflectionInv, ReflectionTyped
  <2>5. \A q \in Processes : HoldsRun(q)' \/ reflectors'[q] = reflectors[q]
    BY <2>4, RestingIsTyped DEF HoldsRun
  <2> QED
    BY <1>1, <1>2, <2>1, <2>2, <2>3, <2>4, <2>5, RunChanges
<1>5. CASE ~F!Running(p)
  BY <1>1, <1>5, RestingIsTyped, ReflectorMoves
<1> QED
  BY <1>4, <1>5

\* Reserve: the run's cap and the month's are read in the transaction that counts the call.
LEMMA ReserveStep ==
  ASSUME ReflectionInv, NEW p \in Processes, F!Reserve(p)
  PROVE  ReflectionInv'
<1> DEFINE g == reflectors[p].gen
           r == [reflections[g] EXCEPT !.calls = reflections[g].calls + 1, !.stale = FALSE]
           x == [reflectors[p] EXCEPT !.step = "reserved"]
           y == [reflectors[p] EXCEPT !.step = "failing"]
<1>1. /\ reflectors[p].step = "claimed"
      /\ UNCHANGED <<season, evidence, insights, disruptions, published>>
  BY DEF F!Reserve, F!outside, F!kept
<1>2. disruptions' \in 0..MaxDisruptions /\ insights' \in [Insights -> (SUBSET Evidence) \cup {None}]
  BY <1>1 DEF ReflectionInv, ReflectionTyped
<1>3. g \in F!Existing
  BY <1>1 DEF ReflectionInv, HoldsRun
<1>4. g \in F!Generations /\ reflections[g] \in F!ReflectionRun /\ reflectors[p] \in F!Reflector
  BY <1>3 DEF F!Existing, ReflectionInv, ReflectionTyped
<1>5. /\ x \in F!Reflector /\ x.gen = g /\ y \in F!Reflector /\ y.gen = g
  BY <1>4 DEF F!Reflector, F!Steps
<1>6. CASE F!Running(p) /\ F!Affordable(g)
  <2>1. /\ reflections[g].calls < MaxRunCalls /\ F!SpentIn(season) < MonthlyCalls
        /\ reflections[g].status # "completed"
    BY <1>6 DEF F!Affordable, F!Running
  <2>2. late' = IF reflections[g].started = season THEN late ELSE late + 1
    BY <1>6 DEF F!Reserve
  <2>3. reflections' = [reflections EXCEPT ![g] = r] /\ reflectors' = [reflectors EXCEPT ![p] = x]
    BY <1>6 DEF F!Reserve
  <2>4. reflections[g].calls + 1 \in 0..MaxRunCalls
    <3>1. reflections[g].calls \in 0..MaxRunCalls
      BY <1>4 DEF F!ReflectionRun
    <3> QED
      BY ReflectionAssumption, <2>1, <3>1
  <2>5. /\ r \in F!ReflectionRun /\ r.started = reflections[g].started
        /\ r.calls = reflections[g].calls + 1
    BY <1>4, <2>4 DEF F!ReflectionRun
  <2>6. SumFunctionOnSet(CallsOf, StartedIn(season)) < MonthlyCalls
    BY <2>1, SpendingIsASum
  <2> HIDE DEF g, r, x, y
  <2>7. /\ reflectors' \in [Processes -> F!Reflector]
        /\ \A q \in Processes : reflectors'[q] = IF q = p THEN x ELSE reflectors[q]
    BY <1>5, <2>3 DEF ReflectionInv, ReflectionTyped
  <2>8. F!Existing' = F!Existing
    BY ReflectionAssumption, <1>3, <1>4, <2>3, <2>5 DEF F!Existing, ReflectionInv, ReflectionTyped
  <2>9. \A q \in Processes : HoldsRun(q)' \/ reflectors'[q] = reflectors[q]
    BY <1>3, <1>5, <2>7, <2>8 DEF HoldsRun
  <2>10. published' = published /\ (reflections[g].status = "completed" => r.status = "completed")
    BY <1>1, <2>1
  <2> QED
    BY <1>1, <1>2, <1>3, <2>2, <2>3, <2>5, <2>6, <2>7, <2>9, <2>10, RunChanges
<1>7. CASE ~(F!Running(p) /\ F!Affordable(g))
  <2>1. reflectors' = [reflectors EXCEPT ![p] = y] /\ UNCHANGED <<reflections, late>>
    BY <1>7 DEF F!Reserve
  <2> HIDE DEF g, r, x, y
  <2> QED
    BY <1>1, <1>2, <1>3, <1>5, <2>1, ReflectorMoves
<1> QED
  BY <1>6, <1>7

\* Apply: the insights are stored and the run is completed in one transaction.
LEMMA ApplyStep ==
  ASSUME ReflectionInv, NEW p \in Processes, F!Apply(p)
  PROVE  ReflectionInv'
<1> DEFINE g == reflectors[p].gen
           r == [reflections[g] EXCEPT !.status = "completed", !.stale = FALSE]
           y == [reflectors[p] EXCEPT !.step = "failing"]
<1>1. /\ reflectors[p].step = "generated" /\ UNCHANGED <<season, evidence, disruptions, late>>
  BY DEF F!Apply, F!quiet, F!outside
<1>2. disruptions' \in 0..MaxDisruptions
  BY <1>1 DEF ReflectionInv, ReflectionTyped
<1>3. g \in F!Existing
  BY <1>1 DEF ReflectionInv, HoldsRun
<1>4. g \in F!Generations /\ reflections[g] \in F!ReflectionRun /\ reflectors[p] \in F!Reflector
  BY <1>3 DEF F!Existing, ReflectionInv, ReflectionTyped
<1>5. CASE F!Publishable(p) /\ \A e \in F!Sampled(p) : F!Unchanged(p, e)
  <2>1. PICK output \in F!Outputs(p) :
               insights' = [i \in Insights |->
                 IF i \notin DOMAIN output THEN insights[i]
                 ELSE (IF insights[i] = None THEN {} ELSE insights[i]) \cup output[i]]
    BY <1>5 DEF F!Apply
  <2>2. /\ published' = [published EXCEPT ![g] = published[g] + 1]
        /\ reflections' = [reflections EXCEPT ![g] = r]
        /\ reflectors' = [reflectors EXCEPT ![p] = F!Resting]
        /\ reflections[g].status = "running"
    BY <1>5 DEF F!Apply, F!Closed, F!Publishable, F!Running
  <2>3. insights' \in [Insights -> (SUBSET Evidence) \cup {None}]
    <3>1. \A i \in DOMAIN output : output[i] \in SUBSET Evidence
      BY DEF F!Outputs, F!Sampled
    <3> QED
      BY <2>1, <3>1 DEF ReflectionInv, ReflectionTyped
  <2>4. /\ r \in F!ReflectionRun /\ r.started = reflections[g].started
        /\ r.calls = reflections[g].calls /\ r.status = "completed"
    BY <1>4 DEF F!ReflectionRun
  <2> HIDE DEF g, r, y
  <2>5. /\ reflectors' \in [Processes -> F!Reflector]
        /\ \A q \in Processes : reflectors'[q] = IF q = p THEN F!Resting ELSE reflectors[q]
    BY <2>2, RestingIsTyped DEF ReflectionInv, ReflectionTyped
  <2>6. \A q \in Processes : HoldsRun(q)' \/ reflectors'[q] = reflectors[q]
    BY <2>5, RestingIsTyped DEF HoldsRun
  <2>7. \/ published' = published /\ (reflections[g].status = "completed" => r.status = "completed")
        \/ published' = [published EXCEPT ![g] = published[g] + 1]
           /\ reflections[g].status # "completed" /\ r.status = "completed"
    BY <2>2, <2>4
  <2> QED
    BY <1>1, <1>2, <1>3, <2>2, <2>3, <2>4, <2>5, <2>6, <2>7, RunChanges
<1>6. CASE ~(F!Publishable(p) /\ \A e \in F!Sampled(p) : F!Unchanged(p, e))
  <2>1. reflectors' = [reflectors EXCEPT ![p] = y] /\ UNCHANGED <<reflections, insights, published>>
    BY <1>6 DEF F!Apply, F!kept
  <2>2. y \in F!Reflector /\ y.gen = g
    BY <1>4 DEF F!Reflector, F!Steps
  <2> HIDE DEF g, r, y
  <2> QED
    BY <1>1, <1>2, <1>3, <2>1, <2>2, ReflectorMoves
<1> QED
  BY <1>5, <1>6

\* A run looks abandoned.
LEMMA GrowsStaleStep ==
  ASSUME ReflectionInv, NEW g \in F!Generations, F!GrowsStale(g)
  PROVE  ReflectionInv'
<1> DEFINE r == [reflections[g] EXCEPT !.stale = TRUE]
<1>1. /\ g \in F!Existing /\ reflections' = [reflections EXCEPT ![g] = r]
      /\ reflections[g].status = "running"
      /\ UNCHANGED <<season, evidence, insights, published, reflectors, late>>
  BY DEF F!GrowsStale, F!others
<1>2. disruptions' \in 0..MaxDisruptions
  <2>1. disruptions \in 0..MaxDisruptions
    BY DEF ReflectionInv, ReflectionTyped
  <2> QED
    BY ReflectionAssumption, <2>1 DEF F!GrowsStale, F!Disrupted
<1>3. reflections[g] \in F!ReflectionRun
  BY <1>1 DEF F!Existing, ReflectionInv, ReflectionTyped
<1>4. /\ r \in F!ReflectionRun /\ r.started = reflections[g].started
      /\ r.calls = reflections[g].calls /\ r.status = "running"
  BY <1>1, <1>3 DEF F!ReflectionRun
<1>5. /\ reflectors' \in [Processes -> F!Reflector]
      /\ insights' \in [Insights -> (SUBSET Evidence) \cup {None}]
  BY <1>1 DEF ReflectionInv, ReflectionTyped
<1> HIDE DEF r
<1> QED
  BY <1>1, <1>2, <1>4, <1>5, RunChanges

\* What changes around the runs: time, memories and insights.
LEMMA SurroundingsChange ==
  ASSUME ReflectionInv, UNCHANGED <<reflections, reflectors, published>>,
         evidence' \in [Evidence -> F!Memory],
         insights' \in [Insights -> (SUBSET Evidence) \cup {None}],
         disruptions' \in 0..MaxDisruptions,
         \/ season' = season /\ late' = late
         \/ season' = season + 1 /\ season' \in 1..LastSeason /\ late' = 0
  PROVE  ReflectionInv'
<1>1. /\ ReflectionTyped /\ InOrder /\ PublishedIsCompleted /\ StartedByNow
      /\ \A q \in Processes : HoldsRun(q)
      /\ SumFunctionOnSet(CallsOf, StartedIn(season)) <= MonthlyCalls
      /\ LateIsCarried
  BY DEF ReflectionInv
<1>2. F!Existing' = F!Existing /\ CallsOf' = CallsOf
  BY DEF F!Existing, CallsOf
<1>3. season' \in 1..LastSeason /\ season <= season'
  BY <1>1 DEF ReflectionTyped
<1>4. StartedByNow'
  <2>1. \A g \in F!Existing : reflections[g].started \in Int
    BY <1>1 DEF ReflectionTyped, F!Existing, F!ReflectionRun
  <2>2. season \in Int /\ season' \in Int
    BY <1>1, <1>3 DEF ReflectionTyped
  <2> QED
    BY <1>1, <1>2, <1>3, <2>1, <2>2 DEF StartedByNow
<1>5. SumFunctionOnSet(CallsOf', StartedIn(season)') <= MonthlyCalls
  <2>1. CASE season' = season
    <3>1. StartedIn(season)' = StartedIn(season)
      BY <1>2, <2>1 DEF StartedIn
    <3> QED
      BY <1>1, <1>2, <3>1
  <2>2. CASE season' = season + 1
    <3>1. \A g \in F!Existing : reflections[g].started # season + 1
      <4>1. \A g \in F!Existing : reflections[g].started \in Int /\ reflections[g].started <= season
        BY <1>1 DEF ReflectionTyped, F!Existing, F!ReflectionRun, StartedByNow
      <4>2. season \in Int
        BY <1>1 DEF ReflectionTyped
      <4> QED
        BY <4>1, <4>2
    <3>2. StartedIn(season)' = {}
      BY <1>2, <2>2, <3>1 DEF StartedIn
    <3>3. SumFunctionOnSet(CallsOf', {}) = 0
      BY SumEmpty
    <3> QED
      BY ReflectionAssumption, <3>2, <3>3
  <2> QED
    BY <2>1, <2>2
<1>6. (SumFunctionOnSet(CallsOf, StartedIn(season)) <= MonthlyCalls)'
  BY <1>5
<1>7. ReflectionTyped' /\ InOrder' /\ PublishedIsCompleted' /\ \A q \in Processes : HoldsRun(q)'
  BY <1>1, <1>2, <1>3 DEF ReflectionTyped, InOrder, PublishedIsCompleted, HoldsRun
<1>8. LateIsCarried'
  <2>1. CASE season' = season /\ late' = late
    BY <1>1, <1>2, <2>1 DEF LateIsCarried, F!Carried
  <2>2. CASE late' = 0
    <3> DEFINE C == F!Carried'
               h == CallsOf'
    <3>1. IsFiniteSet(C) /\ C \subseteq F!Existing
      <4>1. C \in SUBSET F!Existing
        BY <1>2 DEF F!Carried
      <4> HIDE DEF C
      <4> QED
        BY <4>1, RunsAreFinite, FS_Subset
    <3>2. \A s \in F!Existing : h[s] \in Nat
      BY <1>1, <1>2, RunsAreFinite DEF ReflectionTyped, F!Existing, F!ReflectionRun, CallsOf
    <3> HIDE DEF C, h
    <3>3. SumFunctionOnSet(h, C) \in Nat
      BY <3>1, <3>2, SumType
    <3>4. late' <= SumFunctionOnSet(h, C)
      BY <2>2, <3>3
    <3> QED
      BY <3>4 DEF C, h, LateIsCarried
  <2> QED
    BY <2>1, <2>2
<1> QED
  BY <1>4, <1>6, <1>7, <1>8 DEF ReflectionInv

LEMMA ReflectionStep ==
  ASSUME ReflectionInv, [F!Next]_fvars
  PROVE  ReflectionInv'
<1>0. /\ season \in 1..LastSeason /\ evidence \in [Evidence -> F!Memory]
      /\ insights \in [Insights -> (SUBSET Evidence) \cup {None}]
      /\ disruptions \in 0..MaxDisruptions
      /\ reflectors \in [Processes -> F!Reflector]
  BY DEF ReflectionInv, ReflectionTyped
<1>1. ASSUME NEW p \in Processes, NEW force \in BOOLEAN, F!Select(p, force)
      PROVE  ReflectionInv'
  <2> DEFINE picked == [e \in Evidence |-> IF e \in F!Active THEN evidence[e].rev ELSE None]
             x == [F!Resting EXCEPT !.step = "selected", !.force = force, !.picked = picked]
  <2>1. picked \in [Evidence -> 0..MaxRevision \cup {None}]
    BY <1>0 DEF F!Memory
  <2>2. x \in F!Reflector /\ x.step = "selected"
    <3> HIDE DEF picked
    <3> QED
      BY <2>1, RestingIsTyped DEF F!Reflector, F!Steps
  <2>3. /\ reflectors' = [reflectors EXCEPT ![p] = x]
        /\ UNCHANGED <<season, evidence, disruptions, reflections, insights, published, late>>
    BY <1>1 DEF F!Select, F!quiet, F!outside, F!kept
  <2> HIDE DEF x
  <2> QED
    BY <1>0, <2>2, <2>3, ReflectorMoves
<1>2. ASSUME NEW p \in Processes, F!Materialize(p)
      PROVE  ReflectionInv'
  <2>1. PICK missing \in SUBSET (Evidence \ F!Active) :
       reflectors' = [reflectors EXCEPT
                          ![p] = [@ EXCEPT
                            !.step = "materialized",
                            !.read = [e \in Evidence |->
                              IF reflectors[p].picked[e] = None \/ e \in missing
                              THEN None ELSE evidence[e].rev]]]
    BY <1>2 DEF F!Materialize
  <2> DEFINE read == [e \in Evidence |->
                              IF reflectors[p].picked[e] = None \/ e \in missing
                              THEN None ELSE evidence[e].rev]
             x == [reflectors[p] EXCEPT !.step = "materialized", !.read = read]
  <2>2. read \in [Evidence -> 0..MaxRevision \cup {None}]
    BY <1>0 DEF F!Memory
  <2>3. x \in F!Reflector /\ x.step = "materialized"
    <3> HIDE DEF read
    <3> QED
      BY <1>0, <2>2 DEF F!Reflector, F!Steps
  <2>4. /\ reflectors' = [reflectors EXCEPT ![p] = x]
        /\ UNCHANGED <<season, evidence, disruptions, reflections, insights, published, late>>
    BY <1>2, <2>1 DEF F!Materialize, F!quiet, F!outside, F!kept
  <2> HIDE DEF x
  <2> QED
    BY <1>0, <2>3, <2>4, ReflectorMoves
<1>3. ASSUME NEW p \in Processes, F!CompleteEmpty(p)
      PROVE  ReflectionInv'
  BY <1>3, RunCloses DEF F!CompleteEmpty, F!quiet, F!outside, F!kept
<1>4. ASSUME NEW p \in Processes, F!Fail(p)
      PROVE  ReflectionInv'
  <2>1. PICK status \in {"failed", "cancelled"} :
       reflections' = IF F!Running(p) THEN F!Closed(reflectors[p].gen, status) ELSE reflections
    BY <1>4 DEF F!Fail
  <2> QED
    BY <1>4, <2>1, RunCloses DEF F!Fail, F!quiet, F!outside, F!kept
<1>5. ASSUME NEW p \in Processes, F!Generate(p)
      PROVE  ReflectionInv'
  <2>1. PICK step \in {"generated", "failing"} : reflectors' = [reflectors EXCEPT ![p].step = step]
    BY <1>5 DEF F!Generate
  <2> DEFINE x == [reflectors[p] EXCEPT !.step = step]
  <2>2. x \in F!Reflector /\ x.gen = reflectors[p].gen
    BY <1>0 DEF F!Reflector, F!Steps
  <2>3. reflectors[p].gen \in F!Existing
    BY <1>5 DEF F!Generate, HoldsRun, ReflectionInv
  <2>4. /\ reflectors' = [reflectors EXCEPT ![p] = x]
        /\ UNCHANGED <<season, evidence, disruptions, reflections, insights, published, late>>
    BY <1>5, <2>1 DEF F!Generate, F!quiet, F!outside, F!kept
  <2> HIDE DEF x
  <2> QED
    BY <1>0, <2>2, <2>3, <2>4, ReflectorMoves
<1>6. ASSUME NEW p \in Processes, F!Crash(p)
      PROVE  ReflectionInv'
  <2>1. /\ reflectors' = [reflectors EXCEPT ![p] = F!Resting]
        /\ UNCHANGED <<season, evidence, reflections, insights, published, late>>
        /\ disruptions' \in 0..MaxDisruptions
    BY ReflectionAssumption, <1>0, <1>6 DEF F!Crash, F!others, F!Disrupted
  <2> QED
    BY <2>1, RestingIsTyped, ReflectorMoves
<1>7. ASSUME NEW e \in Evidence, F!ChangeEvidence(e)
      PROVE  ReflectionInv'
  <2>1. /\ UNCHANGED <<season, reflections, insights, published, reflectors, late>>
        /\ disruptions' \in 0..MaxDisruptions
    BY ReflectionAssumption, <1>0, <1>7 DEF F!ChangeEvidence, F!kept, F!Disrupted
  <2>2. evidence' \in [Evidence -> F!Memory]
    <3>1. ASSUME evidence[e].rev < MaxRevision, NEW active \in BOOLEAN,
                 evidence' = [evidence EXCEPT ![e] = [active |-> active, rev |-> evidence[e].rev + 1]]
          PROVE  evidence' \in [Evidence -> F!Memory]
      <4>1. evidence[e].rev \in 0..MaxRevision
        BY <1>0 DEF F!Memory
      <4>2. evidence[e].rev + 1 \in 0..MaxRevision
        BY ReflectionAssumption, <3>1, <4>1
      <4>3. [active |-> active, rev |-> evidence[e].rev + 1] \in F!Memory
        BY <4>2 DEF F!Memory
      <4> QED
        BY <1>0, <3>1, <4>3
    <3>2. ASSUME evidence' = [evidence EXCEPT ![e].active = FALSE]
          PROVE  evidence' \in [Evidence -> F!Memory]
      <4>1. [evidence[e] EXCEPT !.active = FALSE] \in F!Memory
        BY <1>0 DEF F!Memory
      <4> QED
        BY <1>0, <3>2, <4>1
    <3> QED
      BY <1>7, <3>1, <3>2 DEF F!ChangeEvidence
  <2> QED
    BY <1>0, <2>1, <2>2, SurroundingsChange
<1>8. ASSUME NEW i \in Insights, F!ForgetInsight(i)
      PROVE  ReflectionInv'
  <2>1. /\ UNCHANGED <<season, evidence, reflections, reflectors, published, late>>
        /\ insights' = [insights EXCEPT ![i] = None]
        /\ disruptions' \in 0..MaxDisruptions
    BY ReflectionAssumption, <1>0, <1>8 DEF F!ForgetInsight, F!Disrupted
  <2>2. insights' \in [Insights -> (SUBSET Evidence) \cup {None}]
    BY <1>0, <2>1
  <2> QED
    BY <1>0, <2>1, <2>2, SurroundingsChange
<1>9. CASE F!NextSeason
  <2>1. /\ UNCHANGED <<evidence, reflections, insights, published, reflectors, disruptions>>
        /\ season' = season + 1 /\ season' \in 1..LastSeason /\ late' = 0
    BY ReflectionAssumption, <1>0, <1>9 DEF F!NextSeason, F!kept
  <2> QED
    BY <1>0, <2>1, SurroundingsChange
<1>10. CASE UNCHANGED fvars
  BY <1>0, <1>10, SurroundingsChange DEF fvars
<1>11. ASSUME NEW p \in Processes, F!Step(p)
       PROVE  ReflectionInv'
  BY <1>2, <1>3, <1>4, <1>5, <1>11, ClaimStep, ReserveStep, ApplyStep DEF F!Step
<1>12. CASE F!Next
  <2>1. \/ \E p \in Processes, force \in BOOLEAN : F!Select(p, force)
        \/ \E p \in Processes : F!Step(p)
        \/ \E p \in Processes : F!Crash(p)
        \/ \E g \in F!Generations : F!GrowsStale(g)
        \/ \E e \in Evidence : F!ChangeEvidence(e)
        \/ \E i \in Insights : F!ForgetInsight(i)
        \/ F!NextSeason
    BY <1>12 DEF F!Next
  <2> QED
    BY <1>1, <1>6, <1>7, <1>8, <1>9, <1>11, <2>1, GrowsStaleStep
<1> QED
  BY <1>10, <1>12

LEMMA ReflectionInit ==
  ASSUME F!Init
  PROVE  ReflectionInv
<1>1. /\ season = 1 /\ evidence = [e \in Evidence |-> [active |-> TRUE, rev |-> 0]]
      /\ reflections = [g \in F!Generations |-> None] /\ insights = [i \in Insights |-> None]
      /\ reflectors = [p \in Processes |-> F!Resting] /\ disruptions = 0
      /\ published = [g \in F!Generations |-> 0] /\ late = 0
  BY DEF F!Init
<1>2. F!Existing = {}
  BY <1>1 DEF F!Existing
<1>3. InOrder
  <2>1. 0 \in 0..MaxGenerations /\ 0..0 - 1 = {}
    BY ReflectionAssumption
  <2> QED
    BY <1>2, <2>1 DEF InOrder
<1>4. StartedIn(season) = {}
  BY <1>2 DEF StartedIn
<1>5. SumFunctionOnSet(CallsOf, StartedIn(season)) <= MonthlyCalls
  <2>1. SumFunctionOnSet(CallsOf, {}) = 0
    BY SumEmpty
  <2> QED
    BY ReflectionAssumption, <1>4, <2>1
<1>6. ReflectionTyped
  <2>1. 0 \in 0..MaxRevision /\ 0 \in 0..MaxDisruptions /\ 1 \in 1..LastSeason
    BY ReflectionAssumption
  <2>2. [active |-> TRUE, rev |-> 0] \in F!Memory
    BY <2>1 DEF F!Memory
  <2>3. evidence \in [Evidence -> F!Memory]
    BY <1>1, <2>2
  <2>4. /\ reflections \in [F!Generations -> F!ReflectionRun \cup {None}]
        /\ insights \in [Insights -> (SUBSET Evidence) \cup {None}]
        /\ reflectors \in [Processes -> F!Reflector] /\ published \in [F!Generations -> Nat]
    BY <1>1, RestingIsTyped
  <2> QED
    BY <1>1, <2>1, <2>3, <2>4 DEF ReflectionTyped
<1>7. PublishedIsCompleted /\ StartedByNow /\ \A p \in Processes : HoldsRun(p)
  BY <1>1, <1>2, RestingIsTyped DEF PublishedIsCompleted, StartedByNow, HoldsRun
<1>8. LateIsCarried
  <2>1. F!Carried = {}
    BY <1>2 DEF F!Carried
  <2>2. SumFunctionOnSet(CallsOf, {}) = 0
    BY SumEmpty
  <2> QED
    BY <1>1, <2>1, <2>2 DEF LateIsCarried
<1> QED
  BY <1>3, <1>5, <1>6, <1>7, <1>8 DEF ReflectionInv

LEMMA ReflectionHolds ==
  ASSUME ReflectionInv
  PROVE  F!SeasonCapKept /\ F!PublishedOnce /\ F!TypeOK
<1>1. F!SeasonCapKept
  <2>1. F!SpentIn(season) <= MonthlyCalls
    BY SpendingIsASum DEF ReflectionInv
  <2>2. late <= MaxRunCalls * F!Cardinality(F!Carried)
    <3> DEFINE C == F!Carried
    <3>1. IsFiniteSet(C) /\ \A s \in C : CallsOf[s] \in 0..MaxRunCalls
      BY RunsAreFinite DEF ReflectionInv, ReflectionTyped, F!Existing, F!ReflectionRun, CallsOf
    <3>2. late \in Nat /\ late <= SumFunctionOnSet(CallsOf, C)
      BY DEF ReflectionInv, ReflectionTyped, LateIsCarried
    <3> HIDE DEF C
    <3>3. SumFunctionOnSet(CallsOf, C) <= MaxRunCalls * Cardinality(C)
      BY ReflectionAssumption, <3>1, SumBounded
    <3>4. SumFunctionOnSet(CallsOf, C) \in Nat
      BY <3>1, SumType
    <3>5. MaxRunCalls * Cardinality(C) \in Nat
      BY ReflectionAssumption, <3>1, FS_CardinalityType
    <3>6. late <= MaxRunCalls * Cardinality(C)
      <4> HIDE DEF ReflectionInv
      <4>1. ASSUME NEW a \in Nat, NEW b \in Nat, NEW c \in Nat, a <= b, b <= c
            PROVE  a <= c
        BY <4>1
      <4> QED
        BY ONLY <3>2, <3>3, <3>4, <3>5, <4>1
    <3> QED
      BY <3>6, ReflectionOperators DEF C
  <2> QED
    BY <2>1, <2>2 DEF F!SeasonCapKept
<1>2. F!PublishedOnce
  BY DEF F!PublishedOnce, ReflectionInv, PublishedIsCompleted
<1>3. F!TypeOK
  BY DEF F!TypeOK, ReflectionInv, ReflectionTyped
<1> QED
  BY <1>1, <1>2, <1>3

\* Only Apply adds to insights, and only what its process read and finds unchanged.
LEMMA EvidenceStep ==
  ASSUME [F!Next]_fvars
  PROVE  \A i \in Insights :
           insights'[i] # None /\ insights'[i] # insights[i] =>
             \E p \in Processes :
               /\ reflectors[p].step = "generated"
               /\ \A e \in insights'[i] \ (IF insights[i] = None THEN {} ELSE insights[i]) :
                    evidence[e].active /\ evidence[e].rev = reflectors[p].read[e]
<1> SUFFICES ASSUME NEW i \in Insights, insights'[i] # None, insights'[i] # insights[i]
             PROVE  \E p \in Processes :
               /\ reflectors[p].step = "generated"
               /\ \A e \in insights'[i] \ (IF insights[i] = None THEN {} ELSE insights[i]) :
                    evidence[e].active /\ evidence[e].rev = reflectors[p].read[e]
  OBVIOUS
<1>1. ASSUME NEW p \in Processes, F!Apply(p)
      PROVE  \E q \in Processes :
               /\ reflectors[q].step = "generated"
               /\ \A e \in insights'[i] \ (IF insights[i] = None THEN {} ELSE insights[i]) :
                    evidence[e].active /\ evidence[e].rev = reflectors[q].read[e]
  <2>1. insights' # insights
    OBVIOUS
  <2>2. F!Publishable(p) /\ \A e \in F!Sampled(p) : F!Unchanged(p, e)
    BY <1>1, <2>1 DEF F!Apply, F!kept
  <2>3. PICK output \in F!Outputs(p) :
               insights' = [j \in Insights |->
                 IF j \notin DOMAIN output THEN insights[j]
                 ELSE (IF insights[j] = None THEN {} ELSE insights[j]) \cup output[j]]
    BY <1>1, <2>2 DEF F!Apply
  <2>4. i \in DOMAIN output
    BY <2>3
  <2>5. output[i] \subseteq F!Sampled(p)
    BY <2>4 DEF F!Outputs
  <2>6. insights'[i] \ (IF insights[i] = None THEN {} ELSE insights[i]) \subseteq F!Sampled(p)
    BY <2>3, <2>4, <2>5
  <2>7. \A e \in F!Sampled(p) : evidence[e].active /\ evidence[e].rev = reflectors[p].read[e]
    BY <2>2 DEF F!Unchanged
  <2>8. reflectors[p].step = "generated"
    BY <1>1 DEF F!Apply
  <2> QED
    BY <2>6, <2>7, <2>8
<1>2. CASE \E j \in Insights : F!ForgetInsight(j)
  BY <1>2 DEF F!ForgetInsight
<1>3. CASE UNCHANGED insights
  BY <1>3
<1>4. CASE F!Next
  <2>1. \/ \E p \in Processes : F!Apply(p)
        \/ \E j \in Insights : F!ForgetInsight(j)
        \/ UNCHANGED insights
    BY <1>4 DEF F!Next, F!Step, F!Select, F!Materialize, F!Claim, F!CompleteEmpty, F!Reserve,
         F!Generate, F!Fail, F!Crash, F!GrowsStale, F!ChangeEvidence, F!NextSeason, F!kept, F!others
  <2> QED
    BY <1>1, <1>2, <1>3, <2>1
<1> QED
  BY <1>3, <1>4 DEF fvars

(***************************************************************************)
(* Documents: what the folds over a sequence compute.                      *)
(***************************************************************************)
Adding(sizes, m, g) ==
  g = [s \in SUBSET (1..m) |-> IF s = {} THEN 0 ELSE g[s \ {Max(s)}] + sizes[Max(s)]]

Cutting(sizes, m, g) ==
  g = [s \in SUBSET (1..m) |-> IF s = {} THEN <<>> ELSE D!WithParagraph(g[s \ {Max(s)}], sizes[Max(s)])]

LEMMA AddingExists ==
  ASSUME NEW sizes, NEW n \in Nat
  PROVE  \E g : Adding(sizes, n, g)
<1> DEFINE S == {m \in Nat : \E g : Adding(sizes, m, g)}
<1>1. 0 \in S
  <2> DEFINE g == [s \in SUBSET (1..0) |-> 0]
  <2>1. SUBSET (1..0) = {{}}
    OBVIOUS
  <2>2. Adding(sizes, 0, g)
    BY <2>1 DEF Adding
  <2> QED
    BY <2>2
<1>2. ASSUME NEW m \in 0..n, m \in S, m < n
      PROVE  m + 1 \in S
  <2>1. PICK g : Adding(sizes, m, g)
    BY <1>2
  <2> DEFINE h == [s \in SUBSET (1..m + 1) |->
                     IF m + 1 \in s THEN g[s \ {m + 1}] + sizes[m + 1] ELSE g[s]]
             v == [s \in SUBSET (1..m + 1) |-> IF s = {} THEN 0 ELSE h[s \ {Max(s)}] + sizes[Max(s)]]
  <2>2. ASSUME NEW s \in SUBSET (1..m + 1)
        PROVE  h[s] = v[s]
    <3>1. CASE m + 1 \in s
      <4>1. Max(s) = m + 1
        <5>1. m + 1 \in Nat /\ s # {}
          BY <3>1
        <5>2. Max(s) \in s /\ m + 1 <= Max(s)
          BY <3>1, <5>1, MaxOfSubset
        <5>3. Max(s) \in 1..m + 1
          BY <5>2
        <5> QED
          BY <5>2, <5>3
      <4>2. s \ {m + 1} \in SUBSET (1..m + 1) /\ m + 1 \notin s \ {m + 1}
        OBVIOUS
      <4> QED
        BY <3>1, <4>1, <4>2
    <3>2. CASE m + 1 \notin s
      <4>1. s \in SUBSET (1..m)
        BY <3>2
      <4>2. g[s] = IF s = {} THEN 0 ELSE g[s \ {Max(s)}] + sizes[Max(s)]
        BY <2>1, <4>1 DEF Adding
      <4>3. s \ {Max(s)} \in SUBSET (1..m + 1) /\ m + 1 \notin s \ {Max(s)}
        BY <3>2
      <4> QED
        BY <3>2, <4>2, <4>3
    <3> QED
      BY <3>1, <3>2
  <2>3. h = v
    BY <2>2
  <2>4. Adding(sizes, m + 1, h)
    BY Zenon, <2>3 DEF Adding
  <2> QED
    BY <2>4
<1> HIDE DEF S
<1>3. n \in S
  BY <1>1, <1>2, IntervalInduction
<1> QED
  BY <1>3 DEF S

LEMMA CuttingExists ==
  ASSUME NEW sizes, NEW n \in Nat
  PROVE  \E g : Cutting(sizes, n, g)
<1> DEFINE S == {m \in Nat : \E g : Cutting(sizes, m, g)}
<1>1. 0 \in S
  <2> DEFINE g == [s \in SUBSET (1..0) |-> <<>>]
  <2>1. SUBSET (1..0) = {{}}
    OBVIOUS
  <2>2. Cutting(sizes, 0, g)
    BY <2>1 DEF Cutting
  <2> QED
    BY <2>2
<1>2. ASSUME NEW m \in 0..n, m \in S, m < n
      PROVE  m + 1 \in S
  <2>1. PICK g : Cutting(sizes, m, g)
    BY <1>2
  <2> DEFINE h == [s \in SUBSET (1..m + 1) |->
                     IF m + 1 \in s THEN D!WithParagraph(g[s \ {m + 1}], sizes[m + 1]) ELSE g[s]]
             v == [s \in SUBSET (1..m + 1) |->
                     IF s = {} THEN <<>> ELSE D!WithParagraph(h[s \ {Max(s)}], sizes[Max(s)])]
  <2>2. ASSUME NEW s \in SUBSET (1..m + 1)
        PROVE  h[s] = v[s]
    <3>1. CASE m + 1 \in s
      <4>1. Max(s) = m + 1
        <5>1. m + 1 \in Nat /\ s # {}
          BY <3>1
        <5>2. Max(s) \in s /\ m + 1 <= Max(s)
          BY <3>1, <5>1, MaxOfSubset
        <5>3. Max(s) \in 1..m + 1
          BY <5>2
        <5> QED
          BY <5>2, <5>3
      <4>2. s \ {m + 1} \in SUBSET (1..m + 1) /\ m + 1 \notin s \ {m + 1}
        OBVIOUS
      <4> QED
        BY <3>1, <4>1, <4>2
    <3>2. CASE m + 1 \notin s
      <4>1. s \in SUBSET (1..m)
        BY <3>2
      <4>2. g[s] = IF s = {} THEN <<>> ELSE D!WithParagraph(g[s \ {Max(s)}], sizes[Max(s)])
        BY <2>1, <4>1 DEF Cutting
      <4>3. s \ {Max(s)} \in SUBSET (1..m + 1) /\ m + 1 \notin s \ {Max(s)}
        BY <3>2
      <4> QED
        BY <3>2, <4>2, <4>3
    <3> QED
      BY <3>1, <3>2
  <2>3. h = v
    BY <2>2
  <2>4. Cutting(sizes, m + 1, h)
    BY Zenon, <2>3 DEF Cutting
  <2> QED
    BY <2>4
<1> HIDE DEF S
<1>3. n \in S
  BY <1>1, <1>2, IntervalInduction
<1> QED
  BY <1>3 DEF S

\* The totals of the prefixes of a sequence.
LEMMA TotalByPrefixes ==
  ASSUME NEW sizes \in Seq(Nat)
  PROVE  \E t \in [0..Len(sizes) -> Nat] :
           /\ t[0] = 0 /\ D!Total(sizes) = t[Len(sizes)]
           /\ \A k \in 1..Len(sizes) : t[k] = t[k - 1] + sizes[k]
<1> DEFINE n == Len(sizes)
<1>1. n \in Nat /\ DOMAIN sizes = 1..n
  OBVIOUS
<1>2. D!Total(sizes) = (CHOOSE g : Adding(sizes, n, g))[1..n]
  <2>1. \A S : D!Max(S) = Max(S)
    BY Zenon DEF D!Max, Max
  <2>2. D!Total(sizes) = (CHOOSE g : g = [s \in SUBSET (DOMAIN sizes) |->
                            IF s = {} THEN 0 ELSE g[s \ {D!Max(s)}] + sizes[D!Max(s)]])[DOMAIN sizes]
    BY Zenon DEF D!Total, D!FoldLeft, D!MapThenFoldSet
  <2> QED
    BY <1>1, <2>1, <2>2 DEF Adding
<1>3. PICK g : g = CHOOSE h : Adding(sizes, n, h)
  OBVIOUS
<1>4. Adding(sizes, n, g)
  BY <1>1, <1>3, AddingExists
<1> DEFINE t == [k \in 0..n |-> g[1..k]]
<1>5. t[0] = 0
  <2>1. 1..0 = {} /\ 0 \in 0..n
    BY <1>1
  <2> QED
    BY <1>4, <2>1 DEF Adding
<1>6. ASSUME NEW k \in 1..n
      PROVE  t[k] = t[k - 1] + sizes[k]
  <2>1. k \in Nat /\ k # 0 /\ k - 1 \in 0..n /\ k \in 0..n
    BY <1>1
  <2>2. (1..k) \ {k} = 1..k - 1
    BY <2>1
  <2>5. k \in 1..k /\ 1..k \in SUBSET (1..n)
    BY <1>1
  <2>6. 1..k # {}
    BY <2>5
  <2>3. Max(1..k) = k
    BY <2>1, MaxOfSubset
  <2>4. g[1..k] = g[1..k - 1] + sizes[k]
    BY <1>4, <2>2, <2>3, <2>5, <2>6 DEF Adding
  <2> QED
    BY <2>1, <2>4
<1>7. \A k \in 0..n : t[k] \in Nat
  <2> DEFINE S == {k \in 0..n : t[k] \in Nat}
  <2>1. 0 \in S
    BY <1>1, <1>5
  <2>2. ASSUME NEW k \in 0..n, k \in S, k < n
        PROVE  k + 1 \in S
    <3>1. k + 1 \in 1..n /\ k + 1 \in 0..n /\ (k + 1) - 1 = k
      BY <1>1, <2>2
    <3>2. t[k + 1] = t[k] + sizes[k + 1]
      BY <1>6, <3>1
    <3>3. sizes[k + 1] \in Nat
      BY <3>1
    <3> QED
      BY <2>2, <3>1, <3>2, <3>3
  <2> HIDE DEF S
  <2>3. \A k \in 0..n : k \in S
    BY <1>1, <2>1, <2>2, IntervalInduction
  <2> QED
    BY <2>3 DEF S
<1>8. t \in [0..n -> Nat] /\ D!Total(sizes) = t[n]
  <2>1. n \in 0..n
    BY <1>1
  <2> QED
    BY <1>2, <1>3, <1>7, <2>1
<1> QED
  BY <1>5, <1>6, <1>8

LEMMA TotalOfNone == D!Total(<<>>) = 0
<1>1. <<>> \in Seq(Nat) /\ Len(<<>>) = 0
  OBVIOUS
<1> QED
  BY <1>1, TotalByPrefixes

LEMMA TotalOfOne ==
  ASSUME NEW x \in Nat
  PROVE  D!Total(<<x>>) = x
<1>1. <<x>> \in Seq(Nat) /\ Len(<<x>>) = 1 /\ <<x>>[1] = x /\ 1 \in 1..1 /\ 1 - 1 = 0
  OBVIOUS
<1>2. PICK t \in [0..1 -> Nat] : t[0] = 0 /\ D!Total(<<x>>) = t[1] /\ t[1] = t[0] + x
  <2>1. \E t \in [0..Len(<<x>>) -> Nat] :
           /\ t[0] = 0 /\ D!Total(<<x>>) = t[Len(<<x>>)]
           /\ \A k \in 1..Len(<<x>>) : t[k] = t[k - 1] + <<x>>[k]
    BY ONLY <1>1, TotalByPrefixes
  <2> QED
    BY <1>1, <2>1
<1> QED
  BY <1>2

LEMMA TotalTyped ==
  ASSUME NEW a \in Seq(Nat)
  PROVE  D!Total(a) \in Nat
<1>1. Len(a) \in 0..Len(a)
  OBVIOUS
<1> QED
  BY <1>1, TotalByPrefixes

LEMMA TotalAppends ==
  ASSUME NEW a \in Seq(Nat), NEW b \in Seq(Nat)
  PROVE  D!Total(a \o b) = D!Total(a) + D!Total(b)
<1> DEFINE c == a \o b
           la == Len(a)
           lb == Len(b)
<1>1. /\ la \in Nat /\ lb \in Nat /\ c \in Seq(Nat) /\ Len(c) = la + lb
      /\ \A k \in 1..la : c[k] = a[k] /\ a[k] \in Nat
      /\ \A k \in 1..lb : c[la + k] = b[k] /\ b[k] \in Nat
  OBVIOUS
<1>2. PICK s \in [0..la -> Nat] : /\ s[0] = 0 /\ D!Total(a) = s[la]
                                  /\ \A k \in 1..la : s[k] = s[k - 1] + a[k]
  BY TotalByPrefixes
<1>3. PICK t \in [0..lb -> Nat] : /\ t[0] = 0 /\ D!Total(b) = t[lb]
                                  /\ \A k \in 1..lb : t[k] = t[k - 1] + b[k]
  BY TotalByPrefixes
<1> HIDE DEF c
<1>4. PICK u \in [0..Len(c) -> Nat] : /\ u[0] = 0 /\ D!Total(c) = u[Len(c)]
                                      /\ \A k \in 1..Len(c) : u[k] = u[k - 1] + c[k]
  BY <1>1, TotalByPrefixes
<1> HIDE DEF la, lb
<1>5. u[la] = s[la]
  <2> DEFINE S == {k \in 0..la : u[k] = s[k]}
  <2>1. 0 \in S
    BY <1>1, <1>2, <1>4
  <2>2. ASSUME NEW k \in 0..la, k \in S, k < la
        PROVE  k + 1 \in S
    <3>1. k + 1 \in 1..la /\ k + 1 \in 0..la /\ (k + 1) - 1 = k /\ k + 1 \in 1..Len(c)
      BY <1>1, <2>2
    <3>2. u[k + 1] = u[k] + c[k + 1] /\ s[k + 1] = s[k] + a[k + 1]
      BY <1>2, <1>4, <3>1
    <3> QED
      BY <1>1, <2>2, <3>1, <3>2
  <2>3. la \in 0..la
    BY <1>1
  <2> HIDE DEF S
  <2>4. la \in S
    BY <1>1, <2>1, <2>2, <2>3, IntervalInduction
  <2> QED
    BY <2>4 DEF S
<1>6. u[la + lb] = s[la] + t[lb]
  <2> DEFINE S == {k \in 0..lb : u[la + k] = s[la] + t[k]}
  <2>0. s[la] \in Nat /\ \A k \in 0..lb : t[k] \in Nat
    BY <1>1, <1>2, <1>3
  <2>1. 0 \in S
    BY <1>1, <1>3, <1>5, <2>0
  <2>2. ASSUME NEW k \in 0..lb, k \in S, k < lb
        PROVE  k + 1 \in S
    <3>1. /\ k + 1 \in 1..lb /\ k + 1 \in 0..lb /\ (k + 1) - 1 = k
          /\ la + (k + 1) \in 1..Len(c) /\ (la + (k + 1)) - 1 = la + k
      BY <1>1, <2>2
    <3>2. u[la + (k + 1)] = u[la + k] + c[la + (k + 1)] /\ t[k + 1] = t[k] + b[k + 1]
      BY <1>3, <1>4, <3>1
    <3>3. c[la + (k + 1)] = b[k + 1] /\ b[k + 1] \in Nat /\ u[la + k] = s[la] + t[k]
      BY <1>1, <2>2, <3>1
    <3>4. \A x, y, z \in Nat : (x + y) + z = x + (y + z)
      OBVIOUS
    <3>5. t[k] \in Nat
      BY <2>0
    <3>6. u[la + (k + 1)] = (s[la] + t[k]) + b[k + 1]
      BY <3>2, <3>3
    <3>7. u[la + (k + 1)] = s[la] + (t[k] + b[k + 1])
      BY <2>0, <3>3, <3>4, <3>5, <3>6
    <3> QED
      BY <3>1, <3>2, <3>7
  <2>3. lb \in 0..lb
    BY <1>1
  <2> HIDE DEF S
  <2>4. lb \in S
    BY <1>1, <2>1, <2>2, <2>3, IntervalInduction
  <2> QED
    BY <2>4 DEF S
<1> QED
  BY <1>1, <1>2, <1>3, <1>4, <1>6 DEF c


\* The pieces of a large paragraph: full ones and a rest that is not empty.
LEMMA HardSplitKeeps ==
  ASSUME NEW size \in Nat \ {0}
  PROVE  D!HardSplit(size) \in Seq(1..MaxChunk) /\ D!Total(D!HardSplit(size)) = size
<1> DEFINE q == (size - 1) \div MaxChunk
           r == (size - 1) % MaxChunk
           h == D!HardSplit(size)
<1>1. /\ q \in Nat /\ r \in Nat /\ r < MaxChunk
      /\ size = q * MaxChunk + r + 1
  BY DocumentAssumption
<1>2. \A i \in 1..q : i * MaxChunk <= size
  <2> SUFFICES ASSUME NEW i \in 1..q
               PROVE  i * MaxChunk <= size
    OBVIOUS
  <2>1. \A a, b, n \in Nat : a <= b => a * n <= b * n
    OBVIOUS
  <2>2. i \in Nat /\ i <= q
    BY <1>1
  <2> HIDE DEF q, r
  <2>3. i * MaxChunk <= q * MaxChunk
    BY DocumentAssumption, <1>1, <2>1, <2>2
  <2>4. i * MaxChunk \in Nat /\ q * MaxChunk \in Nat
    BY DocumentAssumption, <1>1, <2>2
  <2> QED
    BY <1>1, <2>3, <2>4
<1>3. IF (q + 1) * MaxChunk <= size THEN r + 1 = MaxChunk ELSE size % MaxChunk = r + 1
  <2> HIDE DEF q, r
  <2>1. q * MaxChunk \in Nat /\ (q + 1) * MaxChunk = q * MaxChunk + MaxChunk
    BY DocumentAssumption, <1>1
  <2>2. CASE (q + 1) * MaxChunk <= size
    BY DocumentAssumption, <1>1, <2>1, <2>2
  <2>3. CASE ~((q + 1) * MaxChunk <= size)
    <3>1. r + 1 < MaxChunk
      BY DocumentAssumption, <1>1, <2>1, <2>3
    <3>2. size = MaxChunk * q + (r + 1)
      BY DocumentAssumption, <1>1, <2>1
    <3>3. \A n, a, b \in Nat : b < n => (n * a + b) % n = b
      OBVIOUS
    <3> QED
      BY DocumentAssumption, <1>1, <2>3, <3>1, <3>2, <3>3
  <2> QED
    BY <2>2, <2>3
<1>4. h = [i \in 1..(q + 1) |-> IF i * MaxChunk <= size THEN MaxChunk ELSE size % MaxChunk]
  BY DEF D!HardSplit
<1> HIDE DEF q, r, h
<1>5. \A i \in 1..(q + 1) : h[i] = IF i <= q THEN MaxChunk ELSE r + 1
  <2> SUFFICES ASSUME NEW i \in 1..(q + 1)
               PROVE  h[i] = IF i <= q THEN MaxChunk ELSE r + 1
    OBVIOUS
  <2>1. CASE i <= q
    BY <1>1, <1>2, <1>4, <2>1
  <2>2. CASE ~(i <= q)
    <3>1. i = q + 1
      BY <1>1, <2>2
    <3> QED
      BY <1>1, <1>3, <1>4, <2>2, <3>1
  <2> QED
    BY <2>1, <2>2
<1>6. h \in Seq(1..MaxChunk) /\ Len(h) = q + 1 /\ h \in Seq(Nat)
  <2>1. \A i \in 1..(q + 1) : h[i] \in 1..MaxChunk
    BY DocumentAssumption, <1>1, <1>5
  <2>2. q + 1 \in Nat
    BY <1>1
  <2>3. h \in [1..(q + 1) -> 1..MaxChunk]
    BY <1>4, <2>1
  <2>4. h \in Seq(1..MaxChunk) /\ Len(h) = q + 1
    BY DocumentAssumption, <2>2, <2>3
  <2> QED
    BY DocumentAssumption, <2>4
<1>7. PICK t \in [0..q + 1 -> Nat] : /\ t[0] = 0 /\ D!Total(h) = t[q + 1]
                                     /\ \A k \in 1..q + 1 : t[k] = t[k - 1] + h[k]
  <2>1. \E t \in [0..Len(h) -> Nat] : /\ t[0] = 0 /\ D!Total(h) = t[Len(h)]
                                     /\ \A k \in 1..Len(h) : t[k] = t[k - 1] + h[k]
    BY ONLY <1>6, TotalByPrefixes
  <2> QED
    BY <1>6, <2>1
<1>8. t[q] = q * MaxChunk
  <2> DEFINE S == {k \in 0..q : t[k] = k * MaxChunk}
  <2>1. 0 \in S
    BY DocumentAssumption, <1>1, <1>7
  <2>2. ASSUME NEW k \in 0..q, k \in S, k < q
        PROVE  k + 1 \in S
    <3>1. k + 1 \in 1..q + 1 /\ k + 1 \in 0..q /\ (k + 1) - 1 = k /\ k + 1 <= q
      BY <1>1, <2>2
    <3>2. t[k + 1] = t[k] + MaxChunk
      BY <1>5, <1>7, <3>1
    <3>3. (k + 1) * MaxChunk = k * MaxChunk + MaxChunk
      BY DocumentAssumption, <1>1
    <3> QED
      BY <2>2, <3>1, <3>2, <3>3
  <2>3. q \in 0..q
    BY <1>1
  <2> HIDE DEF S
  <2>4. q \in S
    BY <1>1, <2>1, <2>2, <2>3, IntervalInduction
  <2> QED
    BY <2>4 DEF S
<1>9. t[q + 1] = size
  <2>1. q + 1 \in 1..q + 1 /\ (q + 1) - 1 = q /\ ~(q + 1 <= q)
    BY <1>1
  <2>2. t[q + 1] = q * MaxChunk + (r + 1)
    BY <1>5, <1>7, <1>8, <2>1
  <2>3. q * MaxChunk \in Nat
    BY DocumentAssumption, <1>1
  <2> QED
    BY <1>1, <2>2, <2>3
<1> QED
  BY <1>6, <1>7, <1>9 DEF h

\* A paragraph that joins the last chunk or opens new ones loses nothing.
LEMMA ParagraphKeeps ==
  ASSUME NEW chunks \in Seq(1..MaxChunk), NEW size \in Nat \ {0}
  PROVE  /\ D!WithParagraph(chunks, size) \in Seq(1..MaxChunk)
         /\ D!Total(D!WithParagraph(chunks, size)) = D!Total(chunks) + size
<1>0. chunks \in Seq(Nat) /\ D!HardSplit(size) \in Seq(Nat)
  <2>1. \A s \in Seq(1..MaxChunk) : s \in Seq(Nat)
    BY DocumentAssumption
  <2> QED
    BY <2>1, HardSplitKeeps
<1>1. CASE chunks # <<>> /\ D!Last(chunks) + size <= MaxChunk
  <2> DEFINE x == D!Last(chunks)
             f == D!Front(chunks)
  <2>1. /\ Len(chunks) \in Nat \ {0} /\ x = chunks[Len(chunks)] /\ x \in 1..MaxChunk
    BY DocumentAssumption, <1>1 DEF D!Last
  <2>2. f = SubSeq(chunks, 1, Len(chunks) - 1)
    BY DEF D!Front
  <2>3. f \in Seq(1..MaxChunk) /\ f \in Seq(Nat) /\ Len(f) = Len(chunks) - 1
        /\ \A i \in 1..Len(f) : f[i] = chunks[i]
    <3> DEFINE l == Len(chunks) - 1
    <3>1. l \in Nat /\ \A i \in 1..l : chunks[i] \in 1..MaxChunk
      BY DocumentAssumption, <2>1
    <3>2. f = [i \in 1..l |-> chunks[i]]
      BY <2>1, <2>2
    <3>3. f \in [1..l -> 1..MaxChunk] /\ f \in [1..l -> Nat]
      BY <3>1, <3>2
    <3> HIDE DEF f, l
    <3>4. f \in Seq(1..MaxChunk) /\ f \in Seq(Nat) /\ Len(f) = l
      BY DocumentAssumption, <3>1, <3>3
    <3> QED
      BY <3>2, <3>4 DEF l
  <2> HIDE DEF f
  <2>4. chunks = f \o <<x>>
    BY <2>1, <2>3
  <2>5. D!WithParagraph(chunks, size) = f \o <<x + size>>
    BY <1>1 DEF D!WithParagraph, f
  <2> HIDE DEF x
  <2>6. x + size \in 1..MaxChunk /\ x + size \in Nat /\ x \in Nat
    BY <1>1, <2>1 DEF x
  <2>7. f \o <<x + size>> \in Seq(1..MaxChunk)
    BY <2>3, <2>6
  <2>8. D!Total(f \o <<x>>) = D!Total(f) + x /\ D!Total(f \o <<x + size>>) = D!Total(f) + (x + size)
    <3>1. <<x>> \in Seq(Nat) /\ <<x + size>> \in Seq(Nat)
      BY <2>6
    <3>2. D!Total(<<x>>) = x /\ D!Total(<<x + size>>) = x + size
      BY <2>6, TotalOfOne
    <3> QED
      BY <2>3, <3>1, <3>2, TotalAppends
  <2>9. D!Total(f) \in Nat
    BY <2>3, TotalTyped
  <2>10. \A a \in Nat : a + (x + size) = (a + x) + size
    BY <2>6
  <2> QED
    BY <2>4, <2>5, <2>7, <2>8, <2>9, <2>10
<1>2. CASE ~(chunks # <<>> /\ D!Last(chunks) + size <= MaxChunk)
  <2>1. D!WithParagraph(chunks, size) = chunks \o D!HardSplit(size)
    BY <1>2 DEF D!WithParagraph
  <2>2. chunks \o D!HardSplit(size) \in Seq(1..MaxChunk)
    BY HardSplitKeeps
  <2>3. D!Total(chunks \o D!HardSplit(size)) = D!Total(chunks) + size
    BY <1>0, HardSplitKeeps, TotalAppends
  <2> QED
    BY <2>1, <2>2, <2>3
<1> QED
  BY <1>1, <1>2

\* The chunks of a content are all of it, and each can be embedded.
LEMMA ChunkedKeeps ==
  ASSUME NEW content \in Contents
  PROVE  D!Chunked(content) \in Seq(1..MaxChunk) /\ D!Total(D!Chunked(content)) = D!Total(content)
<1> DEFINE n == Len(content)
<1>1. content \in Seq(Nat \ {0}) /\ content \in Seq(Nat) /\ n \in Nat /\ DOMAIN content = 1..n
  <2>1. content \in Seq(Nat \ {0})
    BY DocumentAssumption
  <2> QED
    BY <2>1
<1>2. D!Chunked(content) = (CHOOSE g : Cutting(content, n, g))[1..n]
  <2>1. \A S : D!Max(S) = Max(S)
    BY Zenon DEF D!Max, Max
  <2>2. D!Chunked(content) = (CHOOSE g : g = [s \in SUBSET (DOMAIN content) |->
          IF s = {} THEN <<>> ELSE D!WithParagraph(g[s \ {D!Max(s)}], content[D!Max(s)])])[DOMAIN content]
    BY Zenon DEF D!Chunked, D!FoldLeft, D!MapThenFoldSet
  <2> QED
    BY <1>1, <2>1, <2>2 DEF Cutting
<1>3. PICK g : g = CHOOSE h : Cutting(content, n, h)
  OBVIOUS
<1>4. Cutting(content, n, g)
  BY <1>1, <1>3, CuttingExists
<1>5. PICK t \in [0..n -> Nat] : /\ t[0] = 0 /\ D!Total(content) = t[n]
                                 /\ \A k \in 1..n : t[k] = t[k - 1] + content[k]
  BY <1>1, TotalByPrefixes
<1>6. g[1..0] = <<>>
  <2>1. 1..0 = {}
    BY <1>1
  <2> QED
    BY <1>4, <2>1 DEF Cutting
<1>7. ASSUME NEW k \in 1..n
      PROVE  g[1..k] = D!WithParagraph(g[1..k - 1], content[k])
  <2>1. k \in Nat /\ k # 0
    BY <1>1
  <2>2. (1..k) \ {k} = 1..k - 1
    BY <2>1
  <2>3. k \in 1..k /\ 1..k \in SUBSET (1..n)
    BY <1>1
  <2>4. 1..k # {}
    BY <2>3
  <2>5. Max(1..k) = k
    BY <2>1, MaxOfSubset
  <2> QED
    BY <1>4, <2>2, <2>3, <2>4, <2>5 DEF Cutting
<1> DEFINE S == {k \in 0..n : g[1..k] \in Seq(1..MaxChunk) /\ D!Total(g[1..k]) = t[k]}
<1>8. 0 \in S
  <2>1. <<>> \in Seq(1..MaxChunk) /\ 0 \in 0..n
    BY <1>1
  <2>2. D!Total(<<>>) = t[0]
    BY <1>5, TotalOfNone
  <2> QED
    BY <1>6, <2>1, <2>2
<1>9. ASSUME NEW k \in 0..n, k \in S, k < n
      PROVE  k + 1 \in S
  <2>1. k + 1 \in 1..n /\ k + 1 \in 0..n /\ (k + 1) - 1 = k
    BY <1>1, <1>9
  <2>2. content[k + 1] \in Nat \ {0}
    BY <1>1, <2>1
  <2>3. g[1..k + 1] = D!WithParagraph(g[1..k], content[k + 1])
    BY <1>7, <2>1
  <2>4. g[1..k] \in Seq(1..MaxChunk) /\ D!Total(g[1..k]) = t[k]
    BY <1>9
  <2>5. /\ g[1..k + 1] \in Seq(1..MaxChunk)
        /\ D!Total(g[1..k + 1]) = t[k] + content[k + 1]
    BY <2>2, <2>3, <2>4, ParagraphKeeps
  <2>6. t[k + 1] = t[k] + content[k + 1]
    BY <1>5, <2>1
  <2> QED
    BY <2>1, <2>5, <2>6
<1> HIDE DEF S
<1>10. n \in S
  <2>1. n \in 0..n
    BY <1>1
  <2> QED
    BY <1>1, <1>8, <1>9, <2>1, IntervalInduction
<1> QED
  BY <1>2, <1>3, <1>5, <1>10 DEF S

CallRecord == [stage : {"idle", "looking", "embedding"}, content : Contents \cup {None},
               keyed : BOOLEAN, embedded : 0..MaxChunks]

DocumentInv ==
  /\ documents \in Seq(D!Document) /\ Len(documents) <= MaxDocuments
  /\ calls \in [Processes -> CallRecord]
  /\ failures \in 0..MaxFailures
  /\ misled = FALSE
  /\ \A d, e \in D!Existing : d = e
  /\ \A d \in DOMAIN documents : D!Total(documents[d].pieces) = D!Total(documents[d].content)
  /\ \A c \in Processes : calls[c].stage # "idle" =>
       calls[c].content \in Contents /\ Len(D!Chunked(calls[c].content)) <= MaxChunks

LEMMA IdleIsTyped == D!Idle \in CallRecord /\ D!Idle.stage = "idle"
<1>1. 0 \in 0..MaxChunks
  BY DocumentAssumption
<1> QED
  BY <1>1 DEF CallRecord, D!Idle

\* A call goes on, and no document changes.
LEMMA CallMoves ==
  ASSUME DocumentInv, NEW c \in Processes, NEW x \in CallRecord,
         calls' = [calls EXCEPT ![c] = x], misled' = FALSE, failures' \in 0..MaxFailures,
         UNCHANGED documents,
         x.stage # "idle" => x.content \in Contents /\ Len(D!Chunked(x.content)) <= MaxChunks
  PROVE  DocumentInv'
<1>1. /\ calls' \in [Processes -> CallRecord]
      /\ \A b \in Processes : calls'[b] = IF b = c THEN x ELSE calls[b]
  BY DEF DocumentInv
<1>2. D!Existing' = D!Existing
  BY DEF D!Existing
<1>3. \A b \in Processes : calls'[b].stage # "idle" =>
        calls'[b].content \in Contents /\ Len(D!Chunked(calls'[b].content)) <= MaxChunks
  BY <1>1 DEF DocumentInv
<1> QED
  BY <1>1, <1>2, <1>3 DEF DocumentInv

\* An answer from a document names one of the content that was sent.
LEMMA AnswerIsTrue ==
  ASSUME DocumentInv, NEW c \in Processes, NEW d, D!CompleteExisting(c, d), UNCHANGED <<documents, failures>>
  PROVE  DocumentInv'
<1>1. calls' = [calls EXCEPT ![c] = D!Idle]
  BY DEF D!CompleteExisting, D!Answer, D!Refuse
<1>2. misled' = FALSE
  BY DEF D!CompleteExisting, D!Answer, D!Refuse, D!Replayable, DocumentInv
<1>3. failures' \in 0..MaxFailures
  BY DEF DocumentInv
<1> QED
  BY <1>1, <1>2, <1>3, IdleIsTyped, CallMoves

LEMMA CommitStep ==
  ASSUME DocumentInv, NEW c \in Processes, D!CommitDocument(c)
  PROVE  DocumentInv'
<1>1. CASE \E d \in D!Existing : D!CompleteExisting(c, d) /\ UNCHANGED documents
  BY <1>1, AnswerIsTrue DEF D!CommitDocument
<1>2. CASE /\ ~D!KeyTaken(c) /\ Len(documents) < MaxDocuments
           /\ documents' = Append(documents, D!Stored(calls[c].content, calls[c].keyed))
           /\ D!Answer(c, Len(documents) + 1)
  <2> DEFINE r == D!Stored(calls[c].content, calls[c].keyed)
             n == Len(documents)
  <2>1. /\ calls[c] \in CallRecord /\ calls[c].content \in Contents /\ calls[c].keyed \in BOOLEAN
        /\ documents \in Seq(D!Document) /\ n \in Nat /\ failures' \in 0..MaxFailures
    BY DEF D!CommitDocument, DocumentInv, CallRecord
  <2>2. /\ r.content = calls[c].content /\ r.keyed = calls[c].keyed
        /\ r.pieces = D!Chunked(calls[c].content)
    BY DEF D!Stored
  <2>3. D!Chunked(calls[c].content) \in Seq(1..MaxChunk)
        /\ D!Total(D!Chunked(calls[c].content)) = D!Total(calls[c].content)
    BY <2>1, ChunkedKeeps
  <2>4. r \in D!Document
    <3> DEFINE l == Len(D!Chunked(calls[c].content))
               s == [i \in 1..l |-> "active"]
    <3>1. l \in Nat
      BY <2>3
    <3>2. s \in Seq({"active", "tombstone", "purged"})
      <4> HIDE DEF l
      <4>1. s \in [1..l -> {"active", "tombstone", "purged"}]
        OBVIOUS
      <4> QED
        BY <3>1, <4>1
    <3>3. r = [content |-> calls[c].content, keyed |-> calls[c].keyed, pieces |-> D!Chunked(calls[c].content),
               chunk_count |-> l, chunks |-> s]
      BY DEF D!Stored
    <3> HIDE DEF r, l, s
    <3> QED
      BY <2>1, <2>3, <3>1, <3>2, <3>3 DEF D!Document
  <2> HIDE DEF r
  <2>5. /\ documents' \in Seq(D!Document) /\ Len(documents') = n + 1 /\ documents'[n + 1] = r
        /\ \A d \in 1..n : documents'[d] = documents[d]
        /\ DOMAIN documents = 1..n /\ DOMAIN documents' = 1..n + 1
    BY <1>2, <2>1, <2>4 DEF r
  <2>6. \A d \in 1..n + 1 : d = n + 1 \/ d \in 1..n
    BY <2>1
  <2>7. Len(documents') <= MaxDocuments
    BY DocumentAssumption, <1>2, <2>1, <2>5
  <2>8. calls' = [calls EXCEPT ![c] = D!Idle] /\ misled' = FALSE
    BY <1>2, <2>2, <2>5 DEF D!Answer, DocumentInv
  <2>9. \A d, e \in D!Existing' : d = e
    <3>1. CASE ~calls[c].keyed
      <4>1. \A d \in D!Existing' : d \in D!Existing
        BY <2>2, <2>5, <2>6, <3>1 DEF D!Existing
      <4> QED
        BY <4>1 DEF DocumentInv
    <3>2. CASE calls[c].keyed
      <4>1. D!Existing = {}
        BY <1>2, <3>2 DEF D!KeyTaken
      <4>2. \A d \in D!Existing' : d = n + 1
        BY <2>5, <2>6, <4>1 DEF D!Existing
      <4> QED
        BY <4>2
    <3> QED
      BY <3>1, <3>2
  <2>10. \A d \in DOMAIN documents' : D!Total(documents'[d].pieces) = D!Total(documents'[d].content)
    BY <2>2, <2>3, <2>5, <2>6 DEF DocumentInv
  <2>11. /\ calls' \in [Processes -> CallRecord]
         /\ \A b \in Processes : calls'[b] = IF b = c THEN D!Idle ELSE calls[b]
    BY <2>8, IdleIsTyped DEF DocumentInv
  <2>12. \A b \in Processes : calls'[b].stage # "idle" =>
        calls'[b].content \in Contents /\ Len(D!Chunked(calls'[b].content)) <= MaxChunks
    BY <2>11, IdleIsTyped DEF DocumentInv
  <2> QED
    BY <2>1, <2>5, <2>7, <2>8, <2>9, <2>10, <2>11, <2>12 DEF DocumentInv
<1> QED
  BY <1>1, <1>2 DEF D!CommitDocument

\* A chunk that is forgotten or purged changes nothing else of its document.
LEMMA ChunkChanges ==
  ASSUME DocumentInv, NEW d \in DOMAIN documents, NEW i \in DOMAIN documents[d].chunks,
         NEW state \in {"tombstone", "purged"},
         documents' = [documents EXCEPT ![d].chunks[i] = state], UNCHANGED <<calls, misled, failures>>
  PROVE  DocumentInv'
<1> DEFINE r == [documents[d] EXCEPT !.chunks = [documents[d].chunks EXCEPT ![i] = state]]
<1>1. documents \in Seq(D!Document) /\ documents[d] \in D!Document /\ DOMAIN documents = 1..Len(documents)
  BY DEF DocumentInv
<1>2. [documents[d].chunks EXCEPT ![i] = state] \in Seq({"active", "tombstone", "purged"})
  <2>1. documents[d].chunks \in Seq({"active", "tombstone", "purged"})
    BY <1>1 DEF D!Document
  <2> DEFINE s == documents[d].chunks
  <2> HIDE DEF s
  <2>2. s \in Seq({"active", "tombstone", "purged"}) /\ i \in 1..Len(s) /\ Len(s) \in Nat
    BY <2>1 DEF s
  <2>3. [s EXCEPT ![i] = state] \in [1..Len(s) -> {"active", "tombstone", "purged"}]
    BY <2>2
  <2>4. \A n \in Nat : \A f \in [1..n -> {"active", "tombstone", "purged"}] :
          f \in Seq({"active", "tombstone", "purged"})
    OBVIOUS
  <2>5. [s EXCEPT ![i] = state] \in Seq({"active", "tombstone", "purged"})
    BY <2>2, <2>3, <2>4
  <2> QED
    BY <2>5 DEF s
<1>3. /\ r \in D!Document /\ r.content = documents[d].content /\ r.keyed = documents[d].keyed
      /\ r.pieces = documents[d].pieces
  BY <1>1, <1>2 DEF D!Document
<1>4. documents' = [documents EXCEPT ![d] = r]
  OBVIOUS
<1> HIDE DEF r
<1>5. /\ documents' \in Seq(D!Document) /\ Len(documents') = Len(documents)
      /\ DOMAIN documents' = DOMAIN documents
      /\ \A e \in DOMAIN documents : documents'[e] = IF e = d THEN r ELSE documents[e]
  <2>1. documents' \in [1..Len(documents) -> D!Document] /\ Len(documents) \in Nat
    BY ONLY <1>1, <1>3, <1>4
  <2>2. \A n \in Nat : \A f \in [1..n -> D!Document] : f \in Seq(D!Document) /\ Len(f) = n
    OBVIOUS
  <2> QED
    BY ONLY <1>1, <1>4, <2>1, <2>2
<1>6. D!Existing' = D!Existing
  BY <1>3, <1>5 DEF D!Existing
<1>7. \A e \in DOMAIN documents' : D!Total(documents'[e].pieces) = D!Total(documents'[e].content)
  BY <1>3, <1>5 DEF DocumentInv
<1> QED
  BY <1>5, <1>6, <1>7 DEF DocumentInv

LEMMA DocumentStep ==
  ASSUME DocumentInv, [D!Next]_dvars
  PROVE  DocumentInv'
<1>0. calls \in [Processes -> CallRecord] /\ misled = FALSE /\ failures \in 0..MaxFailures
  BY DEF DocumentInv
<1>1. ASSUME NEW c \in Processes, NEW s \in Contents, NEW keyed \in BOOLEAN, D!Start(c, s, keyed)
      PROVE  DocumentInv'
  <2> DEFINE x == [stage |-> IF keyed THEN "looking" ELSE "embedding",
                   content |-> s, keyed |-> keyed, embedded |-> 0]
  <2>1. 0 \in 0..MaxChunks
    BY DocumentAssumption
  <2>2. x \in CallRecord /\ x.content = s
    BY <2>1 DEF CallRecord
  <2>3. calls' = [calls EXCEPT ![c] = x] /\ UNCHANGED <<documents, misled, failures>>
        /\ Len(D!Chunked(s)) <= MaxChunks
    BY <1>1 DEF D!Start
  <2> HIDE DEF x
  <2> QED
    BY <1>0, <2>2, <2>3, CallMoves
<1>2. ASSUME NEW c \in Processes, D!Look(c)
      PROVE  DocumentInv'
  <2>1. CASE \E d \in D!Existing : D!CompleteExisting(c, d)
    BY <1>2, <2>1, AnswerIsTrue DEF D!Look
  <2>2. CASE calls' = [calls EXCEPT ![c].stage = "embedding"] /\ UNCHANGED misled
    <3> DEFINE x == [calls[c] EXCEPT !.stage = "embedding"]
    <3>1. x \in CallRecord /\ x.content = calls[c].content
      BY <1>0 DEF CallRecord
    <3>2. calls' = [calls EXCEPT ![c] = x] /\ UNCHANGED <<documents, misled, failures>>
          /\ calls[c].stage # "idle"
      BY <1>2, <2>2 DEF D!Look
    <3>3. calls[c].content \in Contents /\ Len(D!Chunked(calls[c].content)) <= MaxChunks
      BY <3>2 DEF DocumentInv
    <3> HIDE DEF x
    <3> QED
      BY <1>0, <3>1, <3>2, <3>3, CallMoves
  <2> QED
    BY <1>2, <2>1, <2>2 DEF D!Look
<1>3. ASSUME NEW c \in Processes, D!EmbedChunk(c)
      PROVE  DocumentInv'
  <2> DEFINE x == [calls[c] EXCEPT !.embedded = calls[c].embedded + 1]
  <2>1. calls' = [calls EXCEPT ![c] = x] /\ UNCHANGED <<documents, misled, failures>>
        /\ calls[c].stage # "idle" /\ calls[c].embedded < Len(D!Chunked(calls[c].content))
    BY <1>3 DEF D!EmbedChunk
  <2>2. calls[c].content \in Contents /\ Len(D!Chunked(calls[c].content)) <= MaxChunks
    BY <2>1 DEF DocumentInv
  <2>3. Len(D!Chunked(calls[c].content)) \in Nat
    BY <2>2, ChunkedKeeps
  <2>4. calls[c].embedded \in 0..MaxChunks
    BY <1>0 DEF CallRecord
  <2>5. calls[c].embedded + 1 \in 0..MaxChunks
    BY DocumentAssumption, <2>1, <2>2, <2>3, <2>4
  <2>6. x \in CallRecord /\ x.content = calls[c].content
    BY <1>0, <2>5 DEF CallRecord
  <2> HIDE DEF x
  <2> QED
    BY <1>0, <2>1, <2>2, <2>6, CallMoves
<1>4. ASSUME NEW c \in Processes, D!FailCall(c)
      PROVE  DocumentInv'
  <2>1. calls' = [calls EXCEPT ![c] = D!Idle] /\ UNCHANGED <<documents, misled>>
        /\ failures' \in 0..MaxFailures
    BY DocumentAssumption, <1>0, <1>4 DEF D!FailCall, D!Refuse
  <2> QED
    BY <1>0, <2>1, IdleIsTyped, CallMoves
<1>5. ASSUME NEW d \in DOMAIN documents, NEW i \in DOMAIN documents[d].chunks,
             D!ForgetChunk(d, i) \/ D!PurgeChunk(d, i)
      PROVE  DocumentInv'
  BY <1>5, ChunkChanges DEF D!ForgetChunk, D!PurgeChunk
<1>6. CASE UNCHANGED dvars
  BY <1>6 DEF dvars, DocumentInv, D!Existing
<1>7. CASE D!Next
  <2>1. \/ \E c \in Processes, s \in Contents, keyed \in BOOLEAN : D!Start(c, s, keyed)
        \/ \E c \in Processes : D!Look(c)
        \/ \E c \in Processes : D!EmbedChunk(c)
        \/ \E c \in Processes : D!CommitDocument(c)
        \/ \E c \in Processes : D!FailCall(c)
        \/ \E d \in DOMAIN documents : \E i \in DOMAIN documents[d].chunks :
             D!ForgetChunk(d, i) \/ D!PurgeChunk(d, i)
    BY <1>7 DEF D!Next
  <2> QED
    BY <1>1, <1>2, <1>3, <1>4, <1>5, <2>1, CommitStep
<1> QED
  BY <1>6, <1>7

LEMMA DocumentInit ==
  ASSUME D!Init
  PROVE  DocumentInv
<1>1. documents = <<>> /\ calls = [c \in Processes |-> D!Idle] /\ misled = FALSE /\ failures = 0
  BY DEF D!Init
<1>2. documents \in Seq(D!Document) /\ Len(documents) = 0 /\ DOMAIN documents = {}
  BY <1>1
<1>3. D!Existing = {}
  BY <1>2 DEF D!Existing
<1>4. 0 \in 0..MaxFailures /\ 0 <= MaxDocuments
  BY DocumentAssumption
<1> QED
  BY <1>1, <1>2, <1>3, <1>4, IdleIsTyped DEF DocumentInv

LEMMA DocumentHolds ==
  ASSUME DocumentInv
  PROVE  D!DocumentStoredOnce /\ D!TypeOK
<1>1. D!Cardinality(D!Existing) <= 1
  <2>0. \A S : D!Cardinality(S) = Cardinality(S)
    BY Zenon DEF D!Cardinality, Cardinality
  <2>1. CASE D!Existing = {}
    BY <2>0, <2>1, FS_EmptySet
  <2>2. CASE D!Existing # {}
    <3>1. PICK d : d \in D!Existing
      BY <2>2
    <3>2. D!Existing = {d}
      BY <3>1 DEF DocumentInv
    <3>3. Cardinality({d}) = 1
      BY FS_Singleton
    <3> QED
      BY <2>0, <3>2, <3>3
  <2> QED
    BY <2>1, <2>2
<1>2. D!DocumentStoredOnce
  BY <1>1 DEF D!DocumentStoredOnce, DocumentInv
<1>3. D!TypeOK
  BY DEF D!TypeOK, DocumentInv, CallRecord
<1> QED
  BY <1>2, <1>3

(***************************************************************************)
(* The memory feed.                                                        *)
(***************************************************************************)
Covered(k) == feed[k] \in Denied \/ copies[feed[k]] # "none" \/ home

\* What a request is doing: it reads lines of a feed that grows no more, it has stored those
\* it has done, and what it has classified is not there under another id.
Imports(i) ==
  LET request == imports[i] IN
  request.stage # "idle" =>
    /\ ~export.open
    /\ request.from <= request.done /\ request.done <= Len(feed)
    /\ ~request.dry => \A k \in 1..request.done : Covered(k)
    /\ request.stage = "embedding" /\ ~request.dry =>
         \A k \in request.done + 1..T!BatchEnd(i) : Covered(k) \/ feed[k] \in request.pending
    /\ home => request.pending \cap original = {}

TransferTyped ==
  /\ home \in BOOLEAN /\ feed \in Seq(T!Rows) /\ original \subseteq T!Rows
  /\ copies \in [T!Rows -> {"none", "same", "other"}]
  /\ imports \in [Processes -> T!Request]
  /\ checkpoint \in 0..Len(feed)
  /\ writes \in 0..MaxWrites /\ cuts \in 0..MaxCuts

TransferInv ==
  /\ TransferTyped
  /\ \A k \in 1..checkpoint : Covered(k)
  /\ \A i \in Processes : Imports(i)

LEMMA UnsentIsTyped == T!Unsent \in T!Request /\ T!Unsent.stage = "idle"
BY DEF T!Unsent, T!Request

\* A page is appended, and nobody has sent a line of the feed yet.
LEMMA FeedGrows ==
  ASSUME TransferInv, T!ExportPage
  PROVE  TransferInv'
<1> DEFINE left == {r \in original : T!After(r)}
           page == {r \in left : T!Cardinality({s \in left : T!Before(s, r)}) < FeedPage}
<1>1. /\ export.open /\ UNCHANGED <<home, original, copies, imports, checkpoint, writes, cuts>>
      /\ \E listed \in T!SetToSeqs(page) : feed' = feed \o listed
  BY DEF T!ExportPage
<1>2. PICK listed \in T!SetToSeqs(page) : feed' = feed \o listed
  BY <1>1
<1>3. listed \in Seq(T!Rows)
  <2>1. page \in SUBSET T!Rows
    BY DEF TransferInv, TransferTyped
  <2>2. IsFiniteSet(T!Rows)
    <3>1. 1 \in Int /\ LastRow \in Int
      BY TransferAssumption
    <3> QED
      BY <3>1, FS_Interval DEF T!Rows
  <2>3. \A S : T!Cardinality(S) = Cardinality(S)
    BY Zenon DEF T!Cardinality, Cardinality
  <2> HIDE DEF page
  <2>4. Cardinality(page) \in Nat
    BY <2>1, <2>2, FS_Subset, FS_CardinalityType
  <2>5. listed \in [1..Cardinality(page) -> page]
    BY <2>3 DEF T!SetToSeqs
  <2>6. listed \in [1..Cardinality(page) -> T!Rows]
    BY <2>1, <2>5
  <2>7. \A n \in Nat : \A f \in [1..n -> T!Rows] : f \in Seq(T!Rows)
    OBVIOUS
  <2> QED
    BY <2>4, <2>6, <2>7
<1> HIDE DEF page
<1>4. /\ feed \in Seq(T!Rows) /\ checkpoint \in 0..Len(feed)
      /\ \A i \in Processes : imports[i].stage = "idle"
      /\ \A k \in 1..checkpoint : Covered(k)
  BY <1>1 DEF TransferInv, TransferTyped, Imports
<1>5. /\ feed' \in Seq(T!Rows) /\ checkpoint \in 0..Len(feed')
      /\ \A k \in 1..Len(feed) : feed'[k] = feed[k]
  BY <1>2, <1>3, <1>4
<1>6. \A k \in 1..checkpoint : Covered(k)'
  <2>1. \A k \in 1..checkpoint : k \in 1..Len(feed)
    BY <1>4
  <2> QED
    BY <1>1, <1>4, <1>5, <2>1 DEF Covered
<1> QED
  BY <1>1, <1>4, <1>5, <1>6 DEF TransferInv, TransferTyped, Imports

\* A request goes on, or ends and reports what it has stored.
LEMMA ImportMoves ==
  ASSUME TransferInv, NEW i \in Processes, NEW x \in T!Request,
         imports' = [imports EXCEPT ![i] = x],
         UNCHANGED <<home, feed, export, original, copies, writes>>, cuts' \in 0..MaxCuts,
         \/ checkpoint' = checkpoint
         \/ /\ checkpoint' = imports[i].done /\ imports[i].stage # "idle" /\ ~imports[i].dry,
         x.stage # "idle" =>
           /\ ~export.open
           /\ x.from <= x.done /\ x.done <= Len(feed)
           /\ ~x.dry => \A k \in 1..x.done : Covered(k)
           /\ x.stage = "embedding" /\ ~x.dry =>
                \A k \in x.done + 1..(IF x.done + FeedBatch < Len(feed) THEN x.done + FeedBatch
                                                                       ELSE Len(feed)) :
                  Covered(k) \/ feed[k] \in x.pending
           /\ home => x.pending \cap original = {}
  PROVE  TransferInv'
<1>1. /\ TransferTyped
      /\ \A k \in 1..checkpoint : Covered(k)
      /\ \A j \in Processes : Imports(j)
  BY DEF TransferInv
<1>2. /\ imports' \in [Processes -> T!Request]
      /\ \A j \in Processes : imports'[j] = IF j = i THEN x ELSE imports[j]
  BY <1>1 DEF TransferTyped
<1>3. \A k : Covered(k)' <=> Covered(k)
  BY DEF Covered
<1>4. checkpoint' \in 0..Len(feed') /\ \A k \in 1..checkpoint' : Covered(k)
  <2>1. CASE checkpoint' = checkpoint
    BY <1>1, <2>1 DEF TransferTyped
  <2>2. CASE checkpoint' = imports[i].done /\ imports[i].stage # "idle" /\ ~imports[i].dry
    <3>1. imports[i].done \in Nat /\ imports[i].done <= Len(feed) /\ Len(feed) \in Nat
      BY <1>1, <2>2 DEF TransferTyped, T!Request, Imports
    <3>2. \A k \in 1..imports[i].done : Covered(k)
      BY <1>1, <2>2 DEF Imports
    <3> QED
      BY <2>2, <3>1, <3>2
  <2> QED
    BY <2>1, <2>2
<1>5. ASSUME NEW j \in Processes
      PROVE  Imports(j)'
  <2>1. CASE j = i
    BY <1>2, <1>3, <2>1 DEF Imports, T!BatchEnd
  <2>2. CASE j # i
    BY <1>1, <1>2, <1>3, <2>2 DEF Imports, T!BatchEnd
  <2> QED
    BY <2>1, <2>2
<1> QED
  BY <1>1, <1>2, <1>3, <1>4, <1>5 DEF TransferInv, TransferTyped

LEMMA ReportIsStored ==
  ASSUME NEW i \in Processes, T!Report(i), imports[i].stage # "idle"
  PROVE  \/ checkpoint' = checkpoint
         \/ checkpoint' = imports[i].done /\ imports[i].stage # "idle" /\ ~imports[i].dry
BY DEF T!Report, T!CommittedSoFar


\* What a request has stored stays, and its report comes from that.
LEMMA ImportEnds ==
  ASSUME TransferInv, NEW i \in Processes, imports[i].stage # "idle",
         T!Closed(i), T!Report(i) \/ checkpoint' = checkpoint,
         UNCHANGED <<home, feed, export, original, copies, writes>>, cuts' \in 0..MaxCuts
  PROVE  TransferInv'
<1>1. imports' = [imports EXCEPT ![i] = T!Unsent]
  BY DEF T!Closed
<1>2. \/ checkpoint' = checkpoint
      \/ checkpoint' = imports[i].done /\ imports[i].stage # "idle" /\ ~imports[i].dry
  BY ReportIsStored
<1> QED
  BY <1>1, <1>2, UnsentIsTyped, ImportMoves

LEMMA SendStep ==
  ASSUME TransferInv, NEW i \in Processes, NEW dry \in BOOLEAN, T!Send(i, dry)
  PROVE  TransferInv'
<1> DEFINE x == [T!Unsent EXCEPT !.stage = "reading", !.dry = dry,
                                 !.from = checkpoint, !.done = checkpoint]
<1>1. /\ checkpoint \in Nat /\ checkpoint <= Len(feed)
      /\ \A k \in 1..checkpoint : Covered(k)
  BY DEF TransferInv, TransferTyped
<1>2. /\ x \in T!Request
      /\ x.stage = "reading" /\ x.from = checkpoint /\ x.done = checkpoint /\ x.pending = {}
  BY <1>1 DEF T!Unsent, T!Request
<1>3. /\ imports' = [imports EXCEPT ![i] = x] /\ ~export.open
      /\ UNCHANGED <<home, feed, export, original, copies, checkpoint, writes, cuts>>
  BY DEF T!Send
<1>4. cuts' \in 0..MaxCuts
  BY <1>3 DEF TransferInv, TransferTyped
<1> HIDE DEF x
<1>5. /\ x.from <= x.done /\ x.done <= Len(feed)
      /\ \A k \in 1..x.done : Covered(k)
      /\ x.pending \cap original = {} /\ ~(x.stage = "embedding")
  BY <1>1, <1>2
<1> QED
  BY <1>2, <1>3, <1>4, <1>5, ImportMoves

\* A record of the batch is denied, known, or becomes one of those classified as new.
LEMMA ClassifyStep ==
  ASSUME TransferInv, NEW i \in Processes, T!Classify(i)
  PROVE  TransferInv'
<1> DEFINE batch == T!Lines(imports[i].done, T!BatchEnd(i)) \ Denied
           new == {r \in batch : ~T!Known(r)}
           x == [imports[i] EXCEPT !.stage = "embedding",
                                   !.pending = IF imports[i].dry THEN {} ELSE new]
<1>1. /\ imports[i].stage = "reading" /\ imports[i].done < Len(feed)
      /\ UNCHANGED <<home, feed, export, original, copies, writes, cuts>>
      /\ cuts' \in 0..MaxCuts
  BY DEF T!Classify, TransferInv, TransferTyped
<1>2. CASE T!Repeats(i)
  BY <1>1, <1>2, ImportEnds DEF T!Classify
<1>3. CASE ~T!Repeats(i)
  <2>1. imports' = [imports EXCEPT ![i] = x] /\ checkpoint' = checkpoint
    BY <1>3 DEF T!Classify
  <2>2. /\ imports[i] \in T!Request /\ feed \in Seq(T!Rows) /\ Len(feed) \in Nat
        /\ FeedBatch \in Nat /\ Imports(i)
    BY TransferAssumption DEF TransferInv, TransferTyped
  <2>3. T!BatchEnd(i) \in Nat /\ T!BatchEnd(i) <= Len(feed)
    BY <2>2 DEF T!BatchEnd, T!Request
  <2>4. new \in SUBSET T!Rows
    <3>1. \A k \in imports[i].done + 1..T!BatchEnd(i) : feed[k] \in T!Rows
      <4>1. \A k \in imports[i].done + 1..T!BatchEnd(i) : k \in 1..Len(feed)
        BY <2>2, <2>3 DEF T!Request
      <4> QED
        BY <2>2, <4>1
    <3> QED
      BY <3>1 DEF T!Lines
  <2>5. \A k \in imports[i].done + 1..T!BatchEnd(i) : Covered(k) \/ feed[k] \in new
    BY DEF T!Lines, T!Known, Covered
  <2>6. home => new \cap original = {}
    BY DEF T!Known
  <2> HIDE DEF new
  <2>7. /\ x \in T!Request /\ x.stage = "embedding" /\ x.from = imports[i].from
        /\ x.done = imports[i].done /\ x.dry = imports[i].dry
        /\ x.pending = IF x.dry THEN {} ELSE new
    BY <2>2, <2>4 DEF T!Request
  <2> HIDE DEF x
  <2>8. /\ ~export.open /\ x.from <= x.done /\ x.done <= Len(feed)
        /\ ~x.dry => \A k \in 1..x.done : Covered(k)
    BY <1>1, <2>2, <2>7 DEF Imports
  <2>9. x.stage = "embedding" /\ ~x.dry =>
          \A k \in x.done + 1..(IF x.done + FeedBatch < Len(feed) THEN x.done + FeedBatch
                                                                 ELSE Len(feed)) :
            Covered(k) \/ feed[k] \in x.pending
    BY <2>5, <2>7 DEF T!BatchEnd
  <2>10. home => x.pending \cap original = {}
    BY <2>6, <2>7
  <2> QED
    BY <1>1, <2>1, <2>7, <2>8, <2>9, <2>10, ImportMoves
<1> QED
  BY <1>2, <1>3

\* A row that is there stays, under the portable key or the original one.
LEMMA DestinationChanges ==
  ASSUME TransferInv, UNCHANGED <<home, feed, export, imports, checkpoint>>,
         original' \subseteq original, copies' \in [T!Rows -> {"none", "same", "other"}],
         \A r \in T!Rows : copies[r] # "none" => copies'[r] # "none",
         writes' \in 0..MaxWrites, cuts' = cuts
  PROVE  TransferInv'
<1>1. /\ TransferTyped /\ feed \in Seq(T!Rows)
      /\ \A k \in 1..checkpoint : Covered(k)
      /\ \A j \in Processes : Imports(j)
  BY DEF TransferInv, TransferTyped
<1>2. \A k \in 1..Len(feed) : Covered(k) => Covered(k)'
  BY <1>1 DEF Covered
<1>3. \A k \in 1..checkpoint' : Covered(k)'
  <2>1. checkpoint \in 0..Len(feed) /\ checkpoint' = checkpoint /\ Len(feed) \in Nat
    BY <1>1 DEF TransferTyped
  <2> QED
    BY <1>1, <1>2, <2>1
<1>4. ASSUME NEW j \in Processes
      PROVE  Imports(j)'
  <2>1. imports[j] \in T!Request /\ Len(feed) \in Nat /\ FeedBatch \in Nat /\ Imports(j)
    BY <1>1, TransferAssumption DEF TransferTyped
  <2>2. T!BatchEnd(j) \in Nat /\ T!BatchEnd(j) <= Len(feed) /\ T!BatchEnd(j)' = T!BatchEnd(j)
    BY <2>1 DEF T!BatchEnd, T!Request
  <2>3. CASE imports[j].stage # "idle"
    <3>1. /\ imports[j].done \in Nat /\ imports[j].done <= Len(feed)
      BY <2>1, <2>3 DEF Imports, T!Request
    <3>2. ~imports[j].dry => \A k \in 1..imports[j].done : Covered(k)'
      BY <1>2, <2>1, <2>3, <3>1 DEF Imports
    <3>3. imports[j].stage = "embedding" /\ ~imports[j].dry =>
            \A k \in imports[j].done + 1..T!BatchEnd(j) :
              Covered(k)' \/ feed[k] \in imports[j].pending
      <4>1. \A k \in imports[j].done + 1..T!BatchEnd(j) : k \in 1..Len(feed)
        BY <2>1, <2>2, <3>1
      <4> QED
        BY <1>2, <2>1, <2>3, <4>1 DEF Imports
    <3>4. home => imports[j].pending \cap original' = {}
      BY <2>1, <2>3 DEF Imports
    <3> QED
      BY <2>1, <2>2, <2>3, <3>2, <3>3, <3>4 DEF Imports
  <2>4. CASE imports[j].stage = "idle"
    BY <2>4 DEF Imports
  <2> QED
    BY <2>3, <2>4
<1> QED
  BY <1>1, <1>3, <1>4 DEF TransferInv, TransferTyped

\* What was classified as new is stored, and what was there stays.
LEMMA CommitBatchStep ==
  ASSUME TransferInv, NEW i \in Processes, T!CommitBatch(i)
  PROVE  TransferInv'
<1>1. /\ imports[i].stage = "embedding"
      /\ UNCHANGED <<home, feed, export, original, writes, cuts>>
      /\ cuts' \in 0..MaxCuts
  BY DEF T!CommitBatch, TransferInv, TransferTyped
<1>2. CASE T!Taken(i)
  BY <1>1, <1>2, ImportEnds DEF T!CommitBatch
<1>3. CASE ~T!Taken(i)
  <2> DEFINE x == [imports[i] EXCEPT !.stage = "reading", !.pending = {},
                                     !.done = T!BatchEnd(i)]
  <2>1. /\ copies' = [r \in T!Rows |-> IF r \in imports[i].pending THEN "same" ELSE copies[r]]
        /\ imports' = [imports EXCEPT ![i] = x] /\ checkpoint' = checkpoint
    BY <1>3 DEF T!CommitBatch
  <2>2. /\ imports \in [Processes -> T!Request] /\ feed \in Seq(T!Rows) /\ Len(feed) \in Nat
        /\ FeedBatch \in Nat /\ \A j \in Processes : Imports(j)
        /\ copies \in [T!Rows -> {"none", "same", "other"}]
        /\ checkpoint \in 0..Len(feed) /\ \A k \in 1..checkpoint : Covered(k)
    BY TransferAssumption DEF TransferInv, TransferTyped
  <2>3. /\ imports[i].done \in Nat /\ imports[i].from <= imports[i].done
        /\ imports[i].done <= Len(feed) /\ ~export.open
    BY <1>1, <2>2 DEF Imports, T!Request
  <2>4. /\ T!BatchEnd(i) \in Nat /\ T!BatchEnd(i) <= Len(feed)
        /\ imports[i].done <= T!BatchEnd(i)
    BY <2>2, <2>3 DEF T!BatchEnd
  <2>5. x \in T!Request /\ x.stage = "reading" /\ x.from = imports[i].from
        /\ x.done = T!BatchEnd(i) /\ x.dry = imports[i].dry /\ x.pending = {}
    BY <2>2, <2>4 DEF T!Request
  <2> HIDE DEF x
  <2>6. copies' \in [T!Rows -> {"none", "same", "other"}]
        /\ \A r \in T!Rows : copies[r] # "none" \/ r \in imports[i].pending => copies'[r] # "none"
    BY <2>1, <2>2
  <2>7. \A k \in 1..Len(feed) :
          Covered(k) \/ feed[k] \in imports[i].pending => Covered(k)'
    BY <1>1, <2>2, <2>6 DEF Covered
  <2>8. imports' \in [Processes -> T!Request]
        /\ \A j \in Processes : imports'[j] = IF j = i THEN x ELSE imports[j]
    BY <2>1, <2>2, <2>5
  <2>9. \A k \in 1..checkpoint' : Covered(k)'
    <3>1. \A k \in 1..checkpoint : k \in 1..Len(feed)
      BY <2>2
    <3> QED
      BY <2>1, <2>2, <2>7, <3>1
  <2>10. Imports(i)'
    <3>1. ASSUME ~x.dry, NEW k \in 1..x.done
          PROVE  Covered(k)'
      <4>1. k \in 1..Len(feed)
        BY <2>2, <2>4, <2>5, <3>1
      <4>2. k \in 1..imports[i].done \/ k \in imports[i].done + 1..T!BatchEnd(i)
        BY <2>3, <2>4, <2>5, <3>1
      <4> QED
        BY <1>1, <2>2, <2>5, <2>7, <3>1, <4>1, <4>2 DEF Imports
    <3>2. imports'[i] = x
      BY <2>8
    <3>3. x.from <= x.done /\ x.done <= Len(feed)
      BY <2>3, <2>4, <2>5, <2>2 DEF T!Request
    <3> QED
      BY <1>1, <2>3, <2>5, <3>1, <3>2, <3>3 DEF Imports
  <2>11. ASSUME NEW j \in Processes, j # i
         PROVE  Imports(j)'
    <3>1. imports'[j] = imports[j] /\ imports[j] \in T!Request /\ Imports(j)
      BY <2>2, <2>8, <2>11
    <3>2. T!BatchEnd(j) \in Nat /\ T!BatchEnd(j) <= Len(feed) /\ T!BatchEnd(j)' = T!BatchEnd(j)
      BY <1>1, <2>2, <3>1 DEF T!BatchEnd, T!Request
    <3>3. CASE imports[j].stage # "idle"
      <4>1. imports[j].done \in Nat /\ imports[j].done <= Len(feed)
        BY <3>1, <3>3 DEF Imports, T!Request
      <4>2. \A k \in 1..T!BatchEnd(j) : k \in 1..Len(feed)
        BY <2>2, <3>2
      <4>3. \A k \in 1..imports[j].done : k \in 1..Len(feed)
        BY <2>2, <4>1
      <4>4. \A k \in imports[j].done + 1..T!BatchEnd(j) : k \in 1..T!BatchEnd(j)
        BY <3>2, <4>1
      <4>5. ~imports[j].dry => \A k \in 1..imports[j].done : Covered(k)'
        BY <2>7, <3>1, <3>3, <4>3 DEF Imports
      <4>6. imports[j].stage = "embedding" /\ ~imports[j].dry =>
              \A k \in imports[j].done + 1..T!BatchEnd(j) :
                Covered(k)' \/ feed[k] \in imports[j].pending
        BY <2>7, <3>1, <3>3, <4>2, <4>4 DEF Imports
      <4> QED
        BY <1>1, <3>1, <3>2, <3>3, <4>5, <4>6 DEF Imports
    <3>4. CASE imports[j].stage = "idle"
      BY <3>1, <3>4 DEF Imports
    <3> QED
      BY <3>3, <3>4
  <2> QED
    BY <1>1, <2>1, <2>2, <2>6, <2>8, <2>9, <2>10, <2>11 DEF TransferInv, TransferTyped
<1> QED
  BY <1>2, <1>3

LEMMA TransferStep ==
  ASSUME TransferInv, [T!Next]_tvars
  PROVE  TransferInv'
<1>0. /\ TransferTyped /\ MaxWrites \in Nat /\ MaxCuts \in Nat
  BY TransferAssumption DEF TransferInv
<1>1. ASSUME T!ExportBreaks
      PROVE  TransferInv'
  <2>1. /\ UNCHANGED <<home, feed, original, copies, imports, checkpoint, writes>>
        /\ cuts' \in 0..MaxCuts /\ export.open
    BY <1>0, <1>1 DEF T!ExportBreaks, TransferTyped
  <2> QED
    BY <2>1 DEF TransferInv, TransferTyped, Imports, Covered
<1>2. ASSUME NEW i \in Processes, T!EndImport(i)
      PROVE  TransferInv'
  <2>1. imports[i].stage # "idle" /\ cuts' \in 0..MaxCuts
    BY <1>0, <1>2 DEF T!EndImport, TransferTyped
  <2> QED
    BY <1>2, <2>1, ImportEnds DEF T!EndImport
<1>3. ASSUME NEW i \in Processes, NEW answered \in BOOLEAN, T!Cut(i, answered)
      PROVE  TransferInv'
  <2>1. imports[i].stage # "idle" /\ cuts' \in 0..MaxCuts
    BY <1>0, <1>3 DEF T!Cut, TransferTyped
  <2> QED
    BY <1>3, <2>1, ImportEnds DEF T!Cut
<1>4. ASSUME NEW r \in T!Rows, T!WriteUnderKey(r)
      PROVE  TransferInv'
  <2>1. /\ copies' = [copies EXCEPT ![r] = "other"]
        /\ copies \in [T!Rows -> {"none", "same", "other"}]
        /\ writes' \in 0..MaxWrites
        /\ UNCHANGED <<home, feed, export, original, imports, checkpoint, cuts>>
    BY <1>0, <1>4 DEF T!WriteUnderKey, TransferTyped
  <2>2. /\ copies' \in [T!Rows -> {"none", "same", "other"}]
        /\ \A q \in T!Rows : copies[q] # "none" => copies'[q] # "none"
    BY <2>1
  <2> QED
    BY <2>1, <2>2, DestinationChanges
<1>5. ASSUME NEW r \in T!Rows, T!RemoveOriginal(r)
      PROVE  TransferInv'
  <2>1. /\ original' \subseteq original /\ copies' = copies /\ cuts' = cuts
        /\ copies' \in [T!Rows -> {"none", "same", "other"}]
        /\ writes' \in 0..MaxWrites
        /\ UNCHANGED <<home, feed, export, imports, checkpoint>>
    BY <1>0, <1>5 DEF T!RemoveOriginal, TransferTyped
  <2> QED
    BY <2>1, DestinationChanges
<1>6. CASE UNCHANGED tvars
  BY <1>6 DEF tvars, TransferInv, TransferTyped, Imports, Covered, T!BatchEnd
<1>7. CASE T!Next
  <2>1. \/ T!ExportPage \/ T!ExportBreaks
        \/ \E i \in Processes : T!Classify(i) \/ T!CommitBatch(i) \/ T!EndImport(i)
        \/ \E i \in Processes, b \in BOOLEAN : T!Send(i, b) \/ T!Cut(i, b)
        \/ \E r \in T!Rows : T!WriteUnderKey(r) \/ T!RemoveOriginal(r)
    BY <1>7 DEF T!Next
  <2> QED
    BY <1>1, <1>2, <1>3, <1>4, <1>5, <2>1, FeedGrows, ClassifyStep, CommitBatchStep, SendStep
<1> QED
  BY <1>6, <1>7

LEMMA TransferInit ==
  ASSUME T!Init
  PROVE  TransferInv
<1>1. feed = <<>> /\ feed \in Seq(T!Rows) /\ Len(feed) = 0
  BY DEF T!Init
<1>2. 0 \in 0..Len(feed) /\ 0 \in 0..MaxWrites /\ 0 \in 0..MaxCuts /\ 1..0 = {}
  BY <1>1, TransferAssumption
<1> QED
  BY <1>1, <1>2, UnsentIsTyped DEF T!Init, TransferInv, TransferTyped, Imports

LEMMA TransferHolds ==
  ASSUME TransferInv
  PROVE  T!CheckpointCovers /\ T!TypeOK
BY DEF TransferInv, TransferTyped, Covered, T!CheckpointCovers, T!TypeOK

\* Who writes under a key finds it free, and what an import inserts is no row that is here.
LEMMA DestinationStep ==
  ASSUME TransferInv, [T!Next]_tvars, copies' # copies
  PROVE  /\ \A r \in original : home /\ copies[r] = "none" => copies'[r] = "none"
         /\ \A r \in T!Rows : copies[r] = "other" => copies'[r] = "other"
<1>1. /\ copies \in [T!Rows -> {"none", "same", "other"}] /\ original \subseteq T!Rows
      /\ \A i \in Processes : Imports(i)
  BY DEF TransferInv, TransferTyped
<1>2. \/ \E i \in Processes : T!CommitBatch(i)
      \/ \E r \in T!Rows : T!WriteUnderKey(r)
  BY DEF T!Next, tvars, T!ExportPage, T!ExportBreaks, T!Classify, T!EndImport, T!Send, T!Cut,
         T!RemoveOriginal
<1>3. ASSUME NEW i \in Processes, T!CommitBatch(i)
      PROVE  /\ \A r \in original : home /\ copies[r] = "none" => copies'[r] = "none"
             /\ \A r \in T!Rows : copies[r] = "other" => copies'[r] = "other"
  <2>1. /\ imports[i].stage = "embedding" /\ ~T!Taken(i)
        /\ copies' = [r \in T!Rows |-> IF r \in imports[i].pending THEN "same" ELSE copies[r]]
    BY <1>3 DEF T!CommitBatch
  <2>2. home => imports[i].pending \cap original = {}
    BY <1>1, <2>1 DEF Imports
  <2>3. \A r \in imports[i].pending : copies[r] = "none"
    BY <2>1 DEF T!Taken
  <2> QED
    BY <1>1, <2>1, <2>2, <2>3
<1>4. ASSUME NEW r \in T!Rows, T!WriteUnderKey(r)
      PROVE  /\ \A q \in original : home /\ copies[q] = "none" => copies'[q] = "none"
             /\ \A q \in T!Rows : copies[q] = "other" => copies'[q] = "other"
  BY <1>1, <1>4 DEF T!WriteUnderKey
<1> QED
  BY <1>2, <1>3, <1>4

(***************************************************************************)
(* The migrations of the database.                                         *)
(***************************************************************************)
RunnerRecord ==
  [stage : {"idle", "waiting", "locked", "reading", "baselining", "applying"},
   files : Checkouts \cup {<<>>}, through : 0..LastMigration,
   read : [G!Migrations -> G!Entries], done : 0..LastMigration]

\* The files of a runner up to its target.
Targets(x) == {v \in DOMAIN x.files : x.through = 0 \/ v <= x.through}

\* What the ledger lacks, as it was read, lies beyond all it has, and that within the target.
FollowsOn(x, entries) ==
  /\ x.through # 0 => G!Newest(entries) <= x.through
  /\ \A v \in Targets(x) \ G!Applied(entries) : v > G!Newest(entries)

\* A runner that has got so far holds the lock.  Then the ledger is what it read, and while
\* it applies, that with the entries of its checkout and the migrations it has done.
Running(x, r) ==
  /\ x.stage \in {"locked", "reading", "baselining", "applying"} => holder = r
  /\ x.stage # "applying" => x.done = 0
  /\ x.stage = "baselining" =>
       x.read = ledger /\ G!Recognised(x.files, ledger) /\ FollowsOn(x, ledger)
  /\ x.stage = "applying" =>
       /\ \A v \in G!Applied(ledger) : v \in DOMAIN x.files /\ ledger[v] = x.files[v]
       /\ FollowsOn(x, x.read)
       /\ G!Applied(ledger) = G!Applied(x.read) \cup
            {v \in Targets(x) \ G!Applied(x.read) : v <= x.done}
       /\ G!Applied(ledger) # OldLedger

MigrationTyped ==
  /\ table \in {"absent", "legacy", "current"}
  /\ ledger \in [G!Migrations -> G!Entries]
  /\ schema \in Seq(G!Migrations)
  /\ holder \in Processes \cup {None}
  /\ mishaps \in 0..MaxMishaps
  /\ runners \in [Processes -> RunnerRecord]

MigrationInv ==
  /\ MigrationTyped
  /\ G!LedgerMirrorsSchema
  /\ \A r \in Processes : Running(runners[r], r)

LEMMA AscendingIsShort ==
  ASSUME NEW s \in Seq(G!Migrations), \A i, j \in DOMAIN s : i < j => s[i] < s[j]
  PROVE  Len(s) <= LastMigration
<1> DEFINE S == {k \in 0..Len(s) : k = 0 \/ k <= s[k]}
<1>1. LastMigration \in Nat /\ Len(s) \in Nat /\ DOMAIN s = 1..Len(s)
      /\ \A k \in 1..Len(s) : s[k] \in Nat /\ 1 <= s[k] /\ s[k] <= LastMigration
  BY MigrationAssumption DEF G!Migrations
<1>2. 0 \in S
  BY <1>1
<1>3. ASSUME NEW k \in 0..Len(s), k \in S, k < Len(s)
      PROVE  k + 1 \in S
  <2>1. k + 1 \in 1..Len(s) /\ k + 1 \in 0..Len(s)
    BY <1>1, <1>3
  <2>2. CASE k = 0
    BY <1>1, <2>1, <2>2
  <2>3. CASE k # 0
    <3>1. k \in 1..Len(s) /\ k <= s[k] /\ k < k + 1
      BY <1>1, <1>3, <2>3
    <3>2. s[k] < s[k + 1]
      BY <1>1, <2>1, <3>1
    <3>3. k + 1 <= s[k + 1]
      BY <1>1, <2>1, <3>1, <3>2
    <3> QED
      BY <2>1, <3>3
  <2> QED
    BY <2>2, <2>3
<1>4. \A k \in 0..Len(s) : k \in S
  <2> HIDE DEF S
  <2> QED
    BY <1>1, <1>2, <1>3, IntervalInduction
<1>5. Len(s) \in 0..Len(s)
  BY <1>1
<1>6. Len(s) = 0 \/ Len(s) <= s[Len(s)]
  BY <1>4, <1>5
<1>7. Len(s) = 0 \/ Len(s) \in 1..Len(s)
  BY <1>1
<1> QED
  BY <1>1, <1>6, <1>7

LEMMA NewestIsGreatest ==
  ASSUME NEW entries
  PROVE  /\ G!Newest(entries) \in 0..LastMigration
         /\ \A v \in G!Applied(entries) : v \in G!Migrations /\ v <= G!Newest(entries)
<1> DEFINE S == G!Applied(entries) \cup {0}
<1>1. LastMigration \in Nat /\ S \in SUBSET (0..LastMigration) /\ S # {} /\ S \subseteq Int
  BY MigrationAssumption DEF G!Applied, G!Migrations
<1> HIDE DEF S
<1>2. IsFiniteSet(S)
  <2>1. 0 \in Int /\ LastMigration \in Int
    BY <1>1
  <2> QED
    BY <1>1, <2>1, FS_Interval, FS_Subset
<1>3. G!Max(S) = Max(S)
  BY Zenon DEF G!Max, Max
<1>4. Max(S) \in S /\ \A v \in S : v <= Max(S)
  BY <1>1, <1>2, MaxIsGreatest
<1> QED
  BY <1>1, <1>3, <1>4 DEF S, G!Newest, G!Applied

LEMMA LeastMigration ==
  ASSUME NEW S \in SUBSET G!Migrations, S # {}
  PROVE  G!Min(S) \in S /\ \A v \in S : G!Min(S) <= v
<1>1. LastMigration \in Int /\ 1 \in Int /\ S \in SUBSET (1..LastMigration) /\ S \subseteq Int
  BY MigrationAssumption DEF G!Migrations
<1>2. IsFiniteSet(S)
  BY <1>1, FS_Interval, FS_Subset
<1>3. G!Min(S) = Min(S)
  BY Zenon DEF G!Min, Min
<1>4. Min(S) \in S /\ \A v \in S : Min(S) <= v
  BY <1>1, <1>2, MinIsLeast
<1> QED
  BY <1>3, <1>4

LEMMA FilesTyped ==
  ASSUME NEW x \in RunnerRecord
  PROVE  /\ DOMAIN x.files \subseteq G!Migrations
         /\ \A v \in DOMAIN x.files : x.files[v] \in G!Checksums
         /\ \A v \in Targets(x) : v \in G!Migrations /\ v \in DOMAIN x.files
<1>1. CASE x.files \in Checkouts
  BY <1>1, MigrationAssumption DEF Targets
<1>2. CASE x.files = <<>>
  BY <1>2 DEF Targets
<1> QED
  BY <1>1, <1>2 DEF RunnerRecord

\* The old deployment's record has a gap that no runner passes over.
LEMMA GapIsSeen ==
  ASSUME NEW x \in RunnerRecord, FollowsOn(x, x.read), NEW done \in 0..LastMigration,
         NEW A, A = G!Applied(x.read) \cup {v \in Targets(x) \ G!Applied(x.read) : v <= done},
         A \subseteq DOMAIN x.files
  PROVE  A # OldLedger
<1>1. SUFFICES ASSUME A = OldLedger
               PROVE  FALSE
  OBVIOUS
<1>2. PICK v \in Reviewed \ OldLedger, w \in OldLedger : v < w
  BY MigrationAssumption
<1>3. v \in G!Migrations /\ w \in G!Migrations /\ v \in Nat /\ w \in Nat /\ w > 0
  BY <1>2, MigrationAssumption DEF G!Migrations
<1>4. x.files \in Checkouts
  <2>1. w \in DOMAIN x.files
    BY <1>1, <1>2
  <2> QED
    BY <2>1 DEF RunnerRecord
<1>5. v \in DOMAIN x.files
  BY <1>1, <1>2, <1>4, MigrationAssumption
<1>6. x.through \in Nat /\ G!Newest(x.read) \in Nat
      /\ \A u \in G!Applied(x.read) : u <= G!Newest(x.read)
  BY NewestIsGreatest, MigrationAssumption DEF RunnerRecord
<1>7. w \in A /\ v \notin A
  BY <1>1, <1>2
<1>8. CASE w \in G!Applied(x.read)
  <2>1. w <= G!Newest(x.read)
    BY <1>6, <1>8
  <2>2. v \in Targets(x)
    BY <1>2, <1>3, <1>5, <1>6, <2>1 DEF Targets, FollowsOn
  <2> QED
    BY <1>2, <1>3, <1>6, <1>7, <2>1, <2>2 DEF FollowsOn
<1>9. CASE w \in Targets(x) /\ w <= done
  <2>1. v \in Targets(x) /\ v <= done
    BY <1>2, <1>3, <1>5, <1>6, <1>9, MigrationAssumption DEF Targets
  <2> QED
    BY <1>7, <2>1
<1> QED
  BY <1>7, <1>8, <1>9

\* A step of one runner that leaves the ledger alone.
LEMMA RunnerMoves ==
  ASSUME MigrationInv, NEW r \in Processes, NEW x \in RunnerRecord,
         runners' = [runners EXCEPT ![r] = x], UNCHANGED <<ledger, schema>>,
         table' \in {"absent", "legacy", "current"}, mishaps' \in 0..MaxMishaps,
         holder' \in Processes \cup {None},
         \A j \in Processes \ {r} : holder = j => holder' = j,
         x.stage \in {"locked", "reading", "baselining", "applying"} => holder' = r,
         x.stage # "applying" => x.done = 0,
         x.stage = "baselining" =>
           x.read = ledger /\ G!Recognised(x.files, ledger) /\ FollowsOn(x, ledger),
         x.stage # "applying"
  PROVE  MigrationInv'
<1>1. /\ MigrationTyped /\ G!LedgerMirrorsSchema
      /\ \A j \in Processes : Running(runners[j], j)
  BY DEF MigrationInv
<1>2. /\ runners' \in [Processes -> RunnerRecord]
      /\ \A j \in Processes : runners'[j] = IF j = r THEN x ELSE runners[j]
  BY <1>1 DEF MigrationTyped
<1>3. G!LedgerMirrorsSchema'
  BY <1>1 DEF G!LedgerMirrorsSchema
<1>4. ASSUME NEW j \in Processes
      PROVE  Running(runners[j], j)'
  <2>1. CASE j = r
    BY <1>2, <2>1 DEF Running
  <2>2. CASE j # r
    BY <1>1, <1>2, <2>2 DEF Running
  <2> QED
    BY <2>1, <2>2
<1> QED
  BY <1>1, <1>2, <1>3, <1>4 DEF MigrationInv, MigrationTyped

LEMMA IdleRunner == G!Idle \in RunnerRecord /\ G!Idle.stage = "idle" /\ G!Idle.done = 0
<1>1. 0 \in 0..LastMigration
  BY MigrationAssumption
<1> QED
  BY <1>1 DEF G!Idle, RunnerRecord, G!Entries

LEMMA RunnerLeaves ==
  ASSUME MigrationInv, NEW r \in Processes, G!Leave(r), UNCHANGED <<table, ledger, schema>>,
         mishaps' \in 0..MaxMishaps
  PROVE  MigrationInv'
<1>1. /\ runners' = [runners EXCEPT ![r] = G!Idle]
      /\ holder' = IF holder = r THEN None ELSE holder
  BY DEF G!Leave
<1>2. holder \in Processes \cup {None} /\ table \in {"absent", "legacy", "current"}
  BY DEF MigrationInv, MigrationTyped
<1> QED
  BY <1>1, <1>2, IdleRunner, RunnerMoves


\* The checksums of what a runner has read, when nobody has changed the ledger since.
LEMMA BaselineStep ==
  ASSUME MigrationInv, NEW r \in Processes, G!Baseline(r)
  PROVE  MigrationInv'
<1> DEFINE x == runners[r]
           changed == {v \in G!Applied(x.read) : x.read[v] # x.files[v]}
<1>1. /\ MigrationTyped /\ G!LedgerMirrorsSchema
      /\ \A j \in Processes : Running(runners[j], j)
  BY DEF MigrationInv
<1>2. /\ x \in RunnerRecord /\ x.stage = "baselining" /\ UNCHANGED <<table, schema, mishaps>>
      /\ holder = r /\ x.read = ledger /\ x.done = 0
      /\ G!Recognised(x.files, ledger) /\ FollowsOn(x, ledger)
  BY <1>1 DEF G!Baseline, Running, MigrationTyped
<1>3. CASE ~\A v \in changed : ledger[v] = x.read[v]
  BY <1>2, <1>3
<1>4. CASE \A v \in changed : ledger[v] = x.read[v]
  <2>1. /\ ledger' = [v \in G!Migrations |-> IF v \in changed THEN x.files[v] ELSE ledger[v]]
        /\ runners' = [runners EXCEPT ![r].stage = "applying"] /\ UNCHANGED holder
    BY <1>4 DEF G!Baseline
  <2> DEFINE y == [x EXCEPT !.stage = "applying"]
  <2>2. /\ y \in RunnerRecord /\ y.stage = "applying" /\ y.files = x.files
        /\ y.through = x.through /\ y.read = ledger /\ y.done = 0
    BY <1>2 DEF RunnerRecord
  <2>3. /\ runners' \in [Processes -> RunnerRecord]
        /\ \A j \in Processes : runners'[j] = IF j = r THEN y ELSE runners[j]
    BY <1>1, <1>2, <2>1, <2>2 DEF MigrationTyped
  <2> HIDE DEF y
  <2>4. \A v \in G!Applied(ledger) :
          /\ v \in G!Migrations /\ v \in DOMAIN x.files /\ ledger'[v] = x.files[v]
          /\ x.files[v] \in G!Checksums
    BY <1>2, <2>1, FilesTyped DEF G!Recognised, G!Applied
  <2>5. /\ ledger' \in [G!Migrations -> G!Entries]
        /\ G!Applied(ledger') = G!Applied(ledger)
    <3>1. ledger \in [G!Migrations -> G!Entries] /\ changed \subseteq G!Applied(ledger)
      BY <1>1, <1>2 DEF MigrationTyped
    <3>2. ASSUME NEW v \in G!Migrations
          PROVE  ledger'[v] \in G!Entries /\ (ledger'[v] # "none" <=> ledger[v] # "none")
      <4>1. CASE v \in G!Applied(ledger)
        BY <2>4, <4>1 DEF G!Applied, G!Checksums, G!Entries
      <4>2. CASE v \notin G!Applied(ledger)
        BY <2>1, <3>1, <4>2
      <4> QED
        BY <4>1, <4>2
    <3> QED
      BY <2>1, <3>2 DEF G!Applied
  <2>6. {v \in Targets(y) \ G!Applied(y.read) : v <= y.done} = {}
    BY <2>2, FilesTyped, MigrationAssumption DEF G!Migrations
  <2>7. FollowsOn(y, y.read)
    BY <1>2, <2>2 DEF FollowsOn, Targets
  <2>8. G!Applied(ledger) # OldLedger
    <3>1. y.done \in 0..LastMigration /\ G!Applied(ledger) \subseteq DOMAIN y.files
      BY <2>2, <2>4 DEF RunnerRecord
    <3> QED
      BY <2>2, <2>6, <2>7, <3>1, GapIsSeen
  <2>9. Running(runners[r], r)'
    BY <1>2, <2>1, <2>2, <2>3, <2>4, <2>5, <2>6, <2>7, <2>8 DEF Running
  <2>10. ASSUME NEW j \in Processes
         PROVE  Running(runners[j], j)'
    <3>1. CASE j = r
      BY <2>9, <3>1
    <3>2. CASE j # r
      <4>1. runners'[j] = runners[j] /\ Running(runners[j], j) /\ holder # j /\ holder' = holder
        BY <1>1, <1>2, <2>1, <2>3, <3>2
      <4> QED
        BY <4>1 DEF Running
    <3> QED
      BY <3>1, <3>2
  <2>11. G!LedgerMirrorsSchema'
    BY <1>1, <1>2, <2>5 DEF G!LedgerMirrorsSchema
  <2> QED
    BY <1>1, <1>2, <2>1, <2>3, <2>5, <2>10, <2>11 DEF MigrationInv, MigrationTyped
<1> QED
  BY <1>3, <1>4

\* The next migration lies beyond all that were executed.
LEMMA ApplyMigration ==
  ASSUME MigrationInv, NEW r \in Processes, G!Apply(r)
  PROVE  MigrationInv'
<1> DEFINE x == runners[r]
           v == G!Min(G!Pending(r))
<1>1. /\ MigrationTyped /\ G!LedgerMirrorsSchema
      /\ \A j \in Processes : Running(runners[j], j)
  BY DEF MigrationInv
<1>2. /\ x \in RunnerRecord /\ x.stage = "applying" /\ UNCHANGED <<table, mishaps>>
      /\ holder = r /\ FollowsOn(x, x.read) /\ G!Pending(r) # {}
      /\ \A u \in G!Applied(ledger) : u \in DOMAIN x.files /\ ledger[u] = x.files[u]
      /\ G!Applied(ledger) = G!Applied(x.read) \cup
           {u \in Targets(x) \ G!Applied(x.read) : u <= x.done}
      /\ G!Applied(ledger) # OldLedger
  BY <1>1 DEF G!Apply, Running, MigrationTyped
<1>3. G!Pending(r) = {u \in Targets(x) \ G!Applied(x.read) : u > x.done}
  BY DEF G!Pending, G!Targeted, Targets
<1>4. /\ v \in Targets(x) \ G!Applied(x.read) /\ v > x.done
      /\ \A u \in G!Pending(r) : v <= u
      /\ v \in G!Migrations /\ v \in DOMAIN x.files /\ x.files[v] \in G!Checksums
  <2>1. G!Pending(r) \in SUBSET G!Migrations
    BY <1>2, <1>3, FilesTyped
  <2>2. v \in G!Pending(r) /\ \A u \in G!Pending(r) : v <= u
    BY <1>2, <2>1, LeastMigration
  <2> HIDE DEF v
  <2> QED
    BY <1>2, <1>3, <2>2, FilesTyped
<1>5. CASE ledger[v] # "none"
  <2>1. G!Leave(r) /\ UNCHANGED <<table, ledger, schema, mishaps>>
    BY <1>5 DEF G!Apply
  <2>2. mishaps' \in 0..MaxMishaps
    BY <1>1, <2>1 DEF MigrationTyped
  <2> QED
    BY <2>1, <2>2, RunnerLeaves
<1>6. CASE ledger[v] = "none"
  <2>1. /\ schema' = Append(schema, v)
        /\ ledger' = [ledger EXCEPT ![v] = x.files[v]]
        /\ runners' = [runners EXCEPT ![r].done = v] /\ UNCHANGED holder
    BY <1>6 DEF G!Apply
  <2> HIDE DEF v
  <2> DEFINE y == [x EXCEPT !.done = v]
  <2>2. v \in 1..LastMigration /\ v \in 0..LastMigration /\ v \in Nat /\ x.done \in Nat
    BY <1>2, <1>4, MigrationAssumption DEF G!Migrations, RunnerRecord
  <2>3. /\ y \in RunnerRecord /\ y.stage = "applying" /\ y.files = x.files
        /\ y.through = x.through /\ y.read = x.read /\ y.done = v
    BY <1>2, <2>2 DEF RunnerRecord
  <2>4. /\ runners' \in [Processes -> RunnerRecord]
        /\ \A j \in Processes : runners'[j] = IF j = r THEN y ELSE runners[j]
    BY <1>1, <2>1, <2>3 DEF MigrationTyped
  <2> HIDE DEF y
  <2>5. ledger \in [G!Migrations -> G!Entries] /\ schema \in Seq(G!Migrations)
    BY <1>1 DEF MigrationTyped
  <2>6. /\ ledger' \in [G!Migrations -> G!Entries] /\ ledger'[v] = x.files[v]
        /\ \A u \in G!Migrations \ {v} : ledger'[u] = ledger[u]
    BY <1>4, <2>1, <2>5 DEF G!Entries
  <2>7. G!Applied(ledger') = G!Applied(ledger) \cup {v}
    BY <1>4, <2>6 DEF G!Applied, G!Checksums
  <2>8. \A u \in G!Migrations : u \in Nat
    BY MigrationAssumption DEF G!Migrations
  <2>9. Targets(y) = Targets(x)
    BY <2>3 DEF Targets
  <2>10. {u \in Targets(y) \ G!Applied(y.read) : u <= y.done} =
         {u \in Targets(x) \ G!Applied(x.read) : u <= x.done} \cup {v}
    <3>1. ASSUME NEW u \in Targets(x) \ G!Applied(x.read)
          PROVE  u <= v <=> u <= x.done \/ u = v
      <4>1. u \in Nat
        BY <1>2, <2>8, FilesTyped
      <4>2. u > x.done => v <= u
        BY <1>3, <1>4
      <4> QED
        BY <1>4, <2>2, <4>1, <4>2
    <3> QED
      BY <1>4, <2>3, <2>9, <3>1
  <2>11. FollowsOn(y, y.read)
    BY <1>2, <2>3, <2>9 DEF FollowsOn
  <2>12. \A u \in G!Applied(ledger') : u \in DOMAIN y.files /\ ledger'[u] = y.files[u]
    BY <1>2, <1>4, <2>3, <2>6, <2>7 DEF G!Applied
  <2>13. G!Applied(ledger') = G!Applied(y.read) \cup
           {u \in Targets(y) \ G!Applied(y.read) : u <= y.done}
    BY <1>2, <2>3, <2>7, <2>10
  <2>14. G!Applied(ledger') # OldLedger
    <3>1. y.done \in 0..LastMigration /\ G!Applied(ledger') \subseteq DOMAIN y.files
      BY <2>2, <2>3, <2>12
    <3> QED
      BY <2>3, <2>11, <2>13, <3>1, GapIsSeen
  <2>15. Running(runners[r], r)'
    BY <1>2, <2>1, <2>3, <2>4, <2>11, <2>12, <2>13, <2>14 DEF Running
  <2>16. ASSUME NEW j \in Processes
         PROVE  Running(runners[j], j)'
    <3>1. CASE j = r
      BY <2>15, <3>1
    <3>2. CASE j # r
      <4>1. runners'[j] = runners[j] /\ Running(runners[j], j) /\ holder # j /\ holder' = holder
        BY <1>1, <1>2, <2>1, <2>4, <3>2
      <4> QED
        BY <4>1 DEF Running
    <3> QED
      BY <3>1, <3>2
  <2>17. G!LedgerMirrorsSchema' /\ schema' \in Seq(G!Migrations)
    <3>1. /\ {schema[i] : i \in DOMAIN schema} = G!Applied(ledger)
          /\ \A i, j \in DOMAIN schema : i < j => schema[i] < schema[j]
      BY <1>1, <1>2 DEF G!LedgerMirrorsSchema
    <3>2. ASSUME NEW u \in G!Applied(ledger)
          PROVE  u < v
      <4>1. u \in Nat /\ G!Newest(x.read) \in Nat
        BY <2>8, NewestIsGreatest, MigrationAssumption DEF G!Applied
      <4>2. CASE u \in G!Applied(x.read)
        BY <1>2, <1>4, <2>2, <4>1, <4>2, NewestIsGreatest DEF FollowsOn
      <4>3. CASE u <= x.done
        BY <1>4, <2>2, <4>1, <4>3
      <4> QED
        BY <1>2, <4>2, <4>3
    <3>3. /\ schema' \in Seq(G!Migrations) /\ DOMAIN schema' = 1..Len(schema) + 1
          /\ DOMAIN schema = 1..Len(schema) /\ Len(schema) \in Nat
          /\ schema'[Len(schema) + 1] = v
          /\ \A i \in 1..Len(schema) : schema'[i] = schema[i]
      BY <1>4, <2>1, <2>5
    <3>4. {schema'[i] : i \in DOMAIN schema'} = G!Applied(ledger')
      <4>1. \A i : i \in 1..Len(schema) + 1 <=> i \in 1..Len(schema) \/ i = Len(schema) + 1
        BY <3>3
      <4> QED
        BY <2>7, <3>1, <3>3, <4>1
    <3>5. ASSUME NEW i \in DOMAIN schema', NEW j \in DOMAIN schema', i < j
          PROVE  schema'[i] < schema'[j]
      <4>1. i \in 1..Len(schema) /\ (j \in 1..Len(schema) \/ j = Len(schema) + 1)
        BY <3>3, <3>5
      <4>2. CASE j \in 1..Len(schema)
        BY <3>1, <3>3, <3>5, <4>1, <4>2
      <4>3. CASE j = Len(schema) + 1
        <5>1. schema[i] \in G!Applied(ledger)
          BY <3>1, <3>3, <4>1
        <5> QED
          BY <3>2, <3>3, <4>1, <4>3, <5>1
      <4> QED
        BY <4>1, <4>2, <4>3
    <3> QED
      BY <2>14, <3>3, <3>4, <3>5 DEF G!LedgerMirrorsSchema
  <2> QED
    BY <1>1, <1>2, <1>4, <2>1, <2>4, <2>5, <2>6, <2>16, <2>17 DEF MigrationInv, MigrationTyped
<1> QED
  BY <1>5, <1>6

\* The reviewed migrations are recorded while nobody runs any.
LEMMA ReconcileStep ==
  ASSUME MigrationInv, NEW files \in Checkouts, G!Reconcile(files)
  PROVE  MigrationInv'
<1>1. /\ MigrationTyped /\ G!LedgerMirrorsSchema
      /\ \A j \in Processes : Running(runners[j], j)
  BY DEF MigrationInv
<1>2. /\ holder = None /\ G!Applied(ledger) = OldLedger /\ table' = "current"
      /\ ledger' = [v \in G!Migrations |-> IF v \in Reviewed THEN files[v] ELSE ledger[v]]
      /\ \A v \in Reviewed : files[v] = "released"
      /\ UNCHANGED <<schema, holder, runners, mishaps>>
  BY DEF G!Reconcile, G!LockFree, G!OldShape
<1>3. ledger \in [G!Migrations -> G!Entries]
  BY <1>1 DEF MigrationTyped
<1>4. ledger' \in [G!Migrations -> G!Entries] /\ G!Applied(ledger') = Reviewed
  <2>1. Reviewed \subseteq G!Migrations /\ OldLedger \subseteq Reviewed
    BY MigrationAssumption
  <2>2. \A v \in G!Migrations : ledger'[v] \in G!Entries /\ (ledger'[v] # "none" <=> v \in Reviewed)
    BY <1>2, <1>3, <2>1 DEF G!Applied, G!Entries, G!Checksums
  <2> QED
    BY <1>2, <2>1, <2>2 DEF G!Applied
<1>5. G!LedgerMirrorsSchema'
  BY <1>1, <1>2, <1>4, MigrationAssumption DEF G!LedgerMirrorsSchema
<1>6. ASSUME NEW j \in Processes
      PROVE  Running(runners[j], j)'
  <2>1. runners'[j] = runners[j] /\ Running(runners[j], j) /\ holder # j
    BY <1>1, <1>2, <1>6, NoneAssumption
  <2> QED
    BY <1>2, <2>1 DEF Running
<1> QED
  BY <1>1, <1>2, <1>4, <1>5, <1>6 DEF MigrationInv, MigrationTyped

LEMMA MigrationStep ==
  ASSUME MigrationInv, [G!Next]_gvars
  PROVE  MigrationInv'
<1>0. /\ MigrationTyped /\ MaxMishaps \in Nat /\ LastMigration \in Nat
      /\ \A j \in Processes : runners[j] \in RunnerRecord /\ Running(runners[j], j)
  BY MigrationAssumption DEF MigrationInv, MigrationTyped
<1>1. ASSUME NEW r \in Processes, NEW c \in Checkouts, NEW t \in DOMAIN c \cup {0},
             G!Start(r, c, t)
      PROVE  MigrationInv'
  <2> DEFINE x == [G!Idle EXCEPT !.stage = "waiting", !.files = c, !.through = t]
  <2>1. t \in 0..LastMigration
    BY <1>0, MigrationAssumption DEF G!Migrations
  <2>2. x \in RunnerRecord /\ x.stage = "waiting" /\ x.done = 0
    BY <2>1, IdleRunner DEF RunnerRecord, G!Idle
  <2>3. runners' = [runners EXCEPT ![r] = x] /\ UNCHANGED <<table, ledger, schema, holder, mishaps>>
    BY <1>1 DEF G!Start
  <2> HIDE DEF x
  <2> QED
    BY <1>0, <2>2, <2>3, RunnerMoves DEF MigrationTyped
<1>2. ASSUME NEW r \in Processes, G!AcquireLock(r)
      PROVE  MigrationInv'
  <2> DEFINE x == [runners[r] EXCEPT !.stage = "locked"]
  <2>1. /\ runners[r].stage = "waiting" /\ holder = None /\ holder' = r
        /\ runners' = [runners EXCEPT ![r] = x] /\ UNCHANGED <<table, ledger, schema, mishaps>>
    BY <1>2 DEF G!AcquireLock, G!LockFree
  <2>2. x \in RunnerRecord /\ x.stage = "locked" /\ x.done = 0
    BY <1>0, <2>1 DEF RunnerRecord, Running
  <2> HIDE DEF x
  <2> QED
    BY <1>0, <2>1, <2>2, RunnerMoves, NoneAssumption DEF MigrationTyped
<1>3. ASSUME NEW r \in Processes, G!TimesOut(r)
      PROVE  MigrationInv'
  <2>1. runners' = [runners EXCEPT ![r] = G!Idle] /\ UNCHANGED <<table, ledger, schema, holder, mishaps>>
    BY <1>3 DEF G!TimesOut
  <2> QED
    BY <1>0, <2>1, IdleRunner, RunnerMoves DEF MigrationTyped
<1>4. ASSUME NEW r \in Processes,
             G!NoAuthority(r) \/ G!CannotGrant(r) \/ G!Complete(r) \/ G!Interrupted(r)
      PROVE  MigrationInv'
  <2>1. G!Leave(r) /\ UNCHANGED <<table, ledger, schema>> /\ mishaps' \in 0..MaxMishaps
    BY <1>0, <1>4 DEF G!NoAuthority, G!CannotGrant, G!Complete, G!Interrupted, MigrationTyped
  <2> QED
    BY <2>1, RunnerLeaves
<1>5. ASSUME NEW r \in Processes, G!EnsureTable(r)
      PROVE  MigrationInv'
  <2> DEFINE x == [runners[r] EXCEPT !.stage = "reading"]
  <2>1. /\ runners[r].stage = "locked" /\ table' = "current"
        /\ runners' = [runners EXCEPT ![r] = x] /\ UNCHANGED <<ledger, schema, holder, mishaps>>
    BY <1>5 DEF G!EnsureTable
  <2>2. x \in RunnerRecord /\ x.stage = "reading" /\ x.done = 0 /\ holder = r
    BY <1>0, <2>1 DEF RunnerRecord, Running
  <2> HIDE DEF x
  <2> QED
    BY <1>0, <2>1, <2>2, RunnerMoves DEF MigrationTyped
<1>6. ASSUME NEW r \in Processes, G!ReadLedger(r)
      PROVE  MigrationInv'
  <2>1. CASE ~(G!Recognised(runners[r].files, ledger) /\ G!InOrder(r, ledger))
    BY <1>0, <1>6, <2>1, RunnerLeaves DEF G!ReadLedger, MigrationTyped
  <2>2. CASE G!Recognised(runners[r].files, ledger) /\ G!InOrder(r, ledger)
    <3> DEFINE x == [runners[r] EXCEPT !.stage = "baselining", !.read = ledger]
    <3>1. /\ runners[r].stage = "reading" /\ runners' = [runners EXCEPT ![r] = x]
          /\ UNCHANGED <<table, ledger, schema, holder, mishaps>>
      BY <1>6, <2>2 DEF G!ReadLedger
    <3>2. /\ x \in RunnerRecord /\ x.stage = "baselining" /\ x.done = 0 /\ holder = r
          /\ x.read = ledger /\ x.files = runners[r].files /\ x.through = runners[r].through
      BY <1>0, <3>1 DEF RunnerRecord, Running, MigrationTyped
    <3> HIDE DEF x
    <3>3. FollowsOn(x, ledger)
      BY <2>2, <3>2 DEF FollowsOn, Targets, G!InOrder, G!Targeted
    <3>4. G!Recognised(x.files, ledger)
      BY <2>2, <3>2
    <3> QED
      BY <1>0, <3>1, <3>2, <3>3, <3>4, RunnerMoves DEF MigrationTyped
  <2> QED
    BY <2>1, <2>2
<1>7. CASE UNCHANGED gvars
  BY <1>7 DEF gvars, MigrationInv, MigrationTyped, Running, G!LedgerMirrorsSchema
<1>8. CASE G!Next
  <2>1. \/ \E r \in Processes, c \in Checkouts : \E t \in DOMAIN c \cup {0} : G!Start(r, c, t)
        \/ \E r \in Processes :
             \/ G!AcquireLock(r) \/ G!TimesOut(r) \/ G!NoAuthority(r) \/ G!CannotGrant(r)
             \/ G!EnsureTable(r) \/ G!ReadLedger(r) \/ G!Baseline(r) \/ G!Apply(r)
             \/ G!Complete(r) \/ G!Interrupted(r)
        \/ \E c \in Checkouts : G!Reconcile(c)
    BY <1>8 DEF G!Next
  <2> QED
    BY <1>1, <1>2, <1>3, <1>4, <1>5, <1>6, <2>1, BaselineStep, ApplyMigration, ReconcileStep
<1> QED
  BY <1>7, <1>8

LEMMA MigrationInit ==
  ASSUME G!Init
  PROVE  MigrationInv
<1>1. /\ table \in {"absent", "legacy", "current"} /\ ledger \in [G!Migrations -> G!Entries]
      /\ holder = None /\ runners = [r \in Processes |-> G!Idle] /\ mishaps = 0
  BY DEF G!Init, G!Entries, G!Checksums
<1>2. schema \in G!Ascending(IF G!Applied(ledger) = OldLedger THEN Reviewed ELSE G!Applied(ledger))
  BY DEF G!Init
<1> DEFINE S == IF G!Applied(ledger) = OldLedger THEN Reviewed ELSE G!Applied(ledger)
<1>3. S \subseteq G!Migrations
  BY MigrationAssumption DEF G!Applied
<1>4. schema \in Seq(G!Migrations)
  <2> HIDE DEF S
  <2>1. schema \in UNION {[1..m -> S] : m \in 0..LastMigration}
    BY <1>2 DEF G!Ascending, G!SeqOf, S
  <2>2. PICK m \in 0..LastMigration : schema \in [1..m -> S]
    BY <2>1
  <2>3. m \in Nat /\ schema \in [1..m -> G!Migrations]
    BY <1>3, <2>2, MigrationAssumption
  <2>4. \A n \in Nat : \A f \in [1..n -> G!Migrations] : f \in Seq(G!Migrations)
    OBVIOUS
  <2> QED
    BY <2>3, <2>4
<1>5. G!LedgerMirrorsSchema
  BY <1>2 DEF G!LedgerMirrorsSchema, G!Ascending
<1>6. 0 \in 0..MaxMishaps
  BY MigrationAssumption
<1> QED
  BY <1>1, <1>4, <1>5, <1>6, IdleRunner DEF MigrationInv, MigrationTyped, Running

LEMMA MigrationHolds ==
  ASSUME MigrationInv
  PROVE  G!LedgerMirrorsSchema /\ G!HistoryIsRecognised /\ G!TypeOK
<1>1. /\ MigrationTyped /\ G!LedgerMirrorsSchema
      /\ \A r \in Processes : Running(runners[r], r)
  BY DEF MigrationInv
<1>2. G!HistoryIsRecognised
  BY <1>1 DEF Running, G!HistoryIsRecognised
<1>3. Len(schema) <= LastMigration
  BY <1>1, AscendingIsShort DEF MigrationTyped, G!LedgerMirrorsSchema
<1>4. \A r \in Processes : runners[r] \in RunnerRecord
  BY <1>1 DEF MigrationTyped
<1> QED
  BY <1>1, <1>2, <1>3, <1>4 DEF G!TypeOK, MigrationTyped, RunnerRecord

(***************************************************************************)
(* A media service of one account.                                         *)
(***************************************************************************)
P == INSTANCE MediaSyncProofs WITH
       Feeds <- Accounts, Recent <- TRUE, Foreign <- {}, Jobs <- Processes,
       PageSize <- PlayPage, lock <- mediaLock

LEMMA PlayFits == P!PlayConstants
BY NoneAssumption, MediaAssumption DEF P!PlayConstants

\* The module of the proofs defines what the module of the component does.
LEMMA SamePlays ==
  /\ M!Init <=> P!Init
  /\ [M!Next]_mvars <=> [P!Next]_P!mvars
  /\ M!TypeOK <=> P!TypeOK
  /\ M!CursorCoversEvents <=> P!CursorCoversEvents
<1>1. M!Init <=> P!Init
  BY DEF M!Init, P!Init, M!Quiet, P!Quiet
<1>2. M!Next <=> P!Next
  BY DEF M!Next, P!Next, M!Step, P!Step, M!Play, P!Play, M!Finish, P!Finish, M!Launch, P!Launch,
         M!Lock, P!Lock, M!ReadState, P!ReadState, M!Listings, P!Listings, M!Discover, P!Discover,
         M!DiscoverSome, P!DiscoverSome, M!More, P!More, M!Closed, P!Closed, M!ServerPage,
         P!ServerPage, M!AccountPage, P!AccountPage, M!Asked, P!Asked, M!FetchPage, P!FetchPage,
         M!Dropped, P!Dropped, M!Unlock, P!Unlock, M!FeedFails, P!FeedFails, M!Fetched, P!Fetched,
         M!AdvancedServers, P!AdvancedServers, M!AdvancedAccount, P!AdvancedAccount, M!Advanced,
         P!Advanced, M!Overtaken, P!Overtaken, M!Upsert, P!Upsert, M!SaveCursors, P!SaveCursors,
         M!CommitSync, P!CommitSync, M!Lost, P!Lost, M!DiscoverAll, P!DiscoverAll, M!Mine, P!Mine,
         M!Quiet, P!Quiet
<1>3. (UNCHANGED mvars) <=> UNCHANGED P!mvars
  BY DEF mvars, P!mvars
<1>4. M!TypeOK <=> P!TypeOK
  BY DEF M!TypeOK, P!TypeOK, M!Plays, P!Plays, M!Mine, P!Mine, M!Job, P!Job
<1>5. M!CursorCoversEvents <=> P!CursorCoversEvents
  BY DEF M!CursorCoversEvents, P!CursorCoversEvents, M!Mine, P!Mine
<1> QED
  BY <1>1, <1>2, <1>3, <1>4, <1>5

(***************************************************************************)
(* The copy of the archive.                                                *)
(***************************************************************************)

\* What a snapshot has of a record is stored as the snapshot says it, or somebody changed it.
Reflects(s, r) ==
  Says[s][r] # None =>
    rows[r].touched \/ (Y!Live(r) /\ rows[r].text = Says[s][r] /\ rows[r].snapshot = s)

\* A row came with a snapshot that has its record, and what the copy leaves alone somebody
\* else has changed.
Kept(row, r) ==
  /\ row.snapshot # 0 => Says[row.snapshot][r] # None
  /\ row.removed => row.deleted
  /\ row.vector \in {None, row.text}
  /\ \/ row.settled
     \/ row.access # "sensitive"
     \/ row.deleted /\ ~row.removed
     \/ row.here /\ row.snapshot = 0
     => row.touched

Belongs(r) == rows[r].snapshot = sync.pending \/ rows[r].touched

\* A receiver has stored what it has sent; once the finalization is planned, the state row
\* stands for that, and the receiver that commits has found nothing more to remove.
Receiving(c) ==
  LET x == receivers[c] IN
  /\ x.stage # "idle" => lock = c
  /\ x.stage \in {"copying", "verified"} => sync.pending = 0 /\ sync.copying /\ x.snapshot # 0
  /\ x.stage = "copying" => \A r \in Y!Records : r <= x.sent => Reflects(x.snapshot, r)
  /\ x.stage = "verified" => \A r \in Y!Records : Reflects(x.snapshot, r)
  /\ x.stage \in {"finishing", "committing"} => sync.pending # 0
  /\ x.stage = "committing" => \A r \in Y!Records : Y!Live(r) => Belongs(r)

Pending ==
  sync.pending # 0 =>
    /\ sync.copying
    /\ \A r \in Y!Records : Reflects(sync.pending, r)
    /\ \A r \in Y!Records : r <= sync.cursor /\ Y!Live(r) => Belongs(r)

\* The copy is what the snapshot is that was completed last, until the next one begins.
Mirrors ==
  sync.done # 0 /\ ~sync.copying =>
    \A r \in Y!Records :
      \/ rows[r].touched
      \/ IF Says[sync.done][r] = None THEN ~Y!Live(r)
         ELSE Y!Live(r) /\ rows[r].text = Says[sync.done][r]

ArchiveInv ==
  /\ Y!TypeOK
  /\ embedder # Y!NoJob => embedder.record \in Y!Records
  /\ \A r \in Y!Records : Kept(rows[r], r)
  /\ Mirrors
  /\ Pending
  /\ \A c \in Processes : Receiving(c)

LEMMA ArchiveNumbers ==
  /\ \A r \in Y!Records : r \in Nat /\ r # 0 /\ r \in 0..LastRecord /\ r <= LastRecord
  /\ \A s \in Y!Snapshots : s \in Nat /\ s # 0 /\ s \in 0..LastSnapshot
  /\ \A s \in 0..LastSnapshot : s # 0 => s \in Y!Snapshots
  /\ 0 \in 0..LastRecord /\ 0 \in 0..LastSnapshot /\ \A n \in 0..LastRecord : n \in Nat
BY ArchiveAssumption DEF Y!Records, Y!Snapshots

LEMMA LeastRecord ==
  ASSUME NEW S \in SUBSET Y!Records, S # {}
  PROVE  Y!Min(S) \in S /\ \A v \in S : Y!Min(S) <= v
<1>1. LastRecord \in Int /\ 1 \in Int /\ S \in SUBSET (1..LastRecord) /\ S \subseteq Int
  BY ArchiveAssumption DEF Y!Records
<1>2. IsFiniteSet(S)
  BY <1>1, FS_Interval, FS_Subset
<1>3. Y!Min(S) = Min(S)
  BY Zenon DEF Y!Min, Min
<1>4. Min(S) \in S /\ \A v \in S : Min(S) <= v
  BY <1>1, <1>2, MinIsLeast
<1> QED
  BY <1>3, <1>4

LEMMA ArchiveTypes ==
  ASSUME ArchiveInv
  PROVE  /\ rows \in [Y!Records -> Y!Row] /\ sync \in Y!SyncState
         /\ lock \in Processes \cup {None} /\ receivers \in [Processes -> Y!Receiver]
         /\ embedder \in Y!Job
         /\ resets \in 0..MaxResets /\ changes \in 0..MaxChanges /\ breaks \in 0..MaxBreaks
         /\ sync.pending \in 0..LastSnapshot /\ sync.done \in 0..LastSnapshot
         /\ sync.started \in 0..LastSnapshot /\ sync.cursor \in 0..LastRecord
         /\ \A c \in Processes : /\ receivers[c] \in Y!Receiver /\ Receiving(c)
                                 /\ receivers[c].sent \in 0..LastRecord
                                 /\ receivers[c].snapshot \in 0..LastSnapshot
         /\ \A r \in Y!Records : rows[r] \in Y!Row /\ Kept(rows[r], r)
BY DEF ArchiveInv, Y!TypeOK, Y!SyncState, Y!Receiver

\* What the embedding worker and the others do to a row: who changes it has touched it.
Quietly(row, next) ==
  /\ row.touched => next.touched
  /\ ~next.touched => /\ next.here = row.here /\ next.deleted = row.deleted
                      /\ next.text = row.text /\ next.snapshot = row.snapshot

LEMMA RowsChangeQuietly ==
  ASSUME ArchiveInv, UNCHANGED <<sync, lock, receivers>>,
         rows' \in [Y!Records -> Y!Row],
         \A r \in Y!Records : Quietly(rows[r], rows'[r]) /\ Kept(rows'[r], r),
         embedder' \in Y!Job, embedder' # Y!NoJob => embedder'.record \in Y!Records,
         resets' \in 0..MaxResets, changes' \in 0..MaxChanges, breaks' \in 0..MaxBreaks
  PROVE  ArchiveInv'
<1>1. \A r \in Y!Records :
        /\ rows[r].touched \in BOOLEAN /\ rows'[r].touched \in BOOLEAN
        /\ Quietly(rows[r], rows'[r])
  BY ArchiveTypes DEF Y!Row
<1>2. ASSUME NEW r \in Y!Records
      PROVE  /\ rows[r].touched => rows'[r].touched
             /\ ~rows'[r].touched =>
                  /\ Y!Live(r)' <=> Y!Live(r)
                  /\ rows'[r].text = rows[r].text /\ rows'[r].snapshot = rows[r].snapshot
             /\ Y!Live(r)' => Y!Live(r) \/ Belongs(r)'
             /\ Belongs(r) => Belongs(r)'
             /\ \A s : Reflects(s, r) => Reflects(s, r)'
  <2>1. /\ rows[r].touched => rows'[r].touched
        /\ ~rows'[r].touched =>
             /\ Y!Live(r)' <=> Y!Live(r)
             /\ rows'[r].text = rows[r].text /\ rows'[r].snapshot = rows[r].snapshot
    BY <1>1 DEF Quietly, Y!Live
  <2> QED
    BY <2>1 DEF Reflects, Belongs
<1>3. Y!TypeOK'
  BY ArchiveTypes DEF Y!TypeOK
<1>4. Mirrors'
  BY <1>2 DEF ArchiveInv, Mirrors
<1>5. Pending'
  BY <1>2 DEF ArchiveInv, Pending
<1>6. ASSUME NEW c \in Processes
      PROVE  Receiving(c)'
  BY <1>2, ArchiveTypes DEF Receiving
<1> QED
  BY <1>3, <1>4, <1>5, <1>6 DEF ArchiveInv

\* A receiver moves on, while nothing is written.
LEMMA ReceiverMoves ==
  ASSUME ArchiveInv, NEW c \in Processes, NEW x \in Y!Receiver,
         receivers' = [receivers EXCEPT ![c] = x], UNCHANGED <<rows, sync, embedder, resets, changes>>,
         breaks' \in 0..MaxBreaks, lock' \in Processes \cup {None},
         \A d \in Processes \ {c} : lock = d => lock' = d,
         x.stage # "idle" => lock' = c,
         x.stage # "copying",
         x.stage = "verified" =>
           /\ sync.pending = 0 /\ sync.copying /\ x.snapshot # 0
           /\ \A r \in Y!Records : Reflects(x.snapshot, r),
         x.stage \in {"finishing", "committing"} => sync.pending # 0,
         x.stage = "committing" => \A r \in Y!Records : Y!Live(r) => Belongs(r)
  PROVE  ArchiveInv'
<1>1. /\ receivers' \in [Processes -> Y!Receiver]
      /\ \A d \in Processes : receivers'[d] = IF d = c THEN x ELSE receivers[d]
  BY ArchiveTypes
<1>2. \A r : (Y!Live(r)' <=> Y!Live(r)) /\ (Belongs(r)' <=> Belongs(r))
  BY DEF Y!Live, Belongs
<1>3. \A s, r : Reflects(s, r)' <=> Reflects(s, r)
  BY <1>2 DEF Reflects
<1>4. Y!TypeOK' /\ Mirrors' /\ Pending'
  BY <1>1, <1>2, <1>3, ArchiveTypes DEF Y!TypeOK, Mirrors, Pending, ArchiveInv
<1>5. ASSUME NEW d \in Processes
      PROVE  Receiving(d)'
  <2>1. CASE d = c
    BY <1>1, <1>2, <1>3, <2>1 DEF Receiving
  <2>2. CASE d # c
    BY <1>1, <1>2, <1>3, <2>2, ArchiveTypes DEF Receiving
  <2> QED
    BY <2>1, <2>2
<1> QED
  BY <1>4, <1>5 DEF ArchiveInv



LEMMA ReceiverLeaves ==
  ASSUME ArchiveInv, NEW c \in Processes, Y!Leave(c), UNCHANGED <<rows, sync, embedder, resets, changes>>,
         breaks' \in 0..MaxBreaks
  PROVE  ArchiveInv'
<1>1. Y!Waiting \in Y!Receiver /\ Y!Waiting.stage = "idle"
  BY ArchiveNumbers DEF Y!Waiting, Y!Receiver
<1>2. /\ receivers' = [receivers EXCEPT ![c] = Y!Waiting]
      /\ lock' = IF lock = c THEN None ELSE lock
  BY DEF Y!Leave
<1> QED
  BY <1>1, <1>2, ArchiveTypes, ReceiverMoves

LEMMA ReceiveStep ==
  ASSUME ArchiveInv, NEW c \in Processes, NEW s \in Y!Snapshots, NEW shrink \in BOOLEAN,
         Y!Receive(c, s, shrink)
  PROVE  ArchiveInv'
<1> DEFINE x == [stage |-> "copying", snapshot |-> s, sent |-> 0, shrink |-> shrink]
           y == [sync EXCEPT !.started = s, !.copying = TRUE]
<1>1. /\ lock = None /\ lock' = c /\ sync.pending = 0 /\ sync' = y
      /\ receivers' = [receivers EXCEPT ![c] = x]
      /\ UNCHANGED <<rows, embedder, resets, changes, breaks>>
  BY DEF Y!Receive
<1>2. x \in Y!Receiver /\ x.stage = "copying" /\ x.snapshot # 0 /\ x.sent = 0
  BY ArchiveNumbers DEF Y!Receiver
<1>3. y \in Y!SyncState /\ y.copying /\ y.pending = 0
  BY <1>1, ArchiveNumbers, ArchiveTypes DEF Y!SyncState
<1> HIDE DEF x, y
<1>4. /\ receivers' \in [Processes -> Y!Receiver]
      /\ \A d \in Processes : receivers'[d] = IF d = c THEN x ELSE receivers[d]
  BY <1>1, <1>2, ArchiveTypes
<1>5. \A d \in Processes : receivers[d].stage = "idle"
  BY <1>1, ArchiveTypes, NoneAssumption DEF Receiving
<1>6. Y!TypeOK'
  BY <1>1, <1>3, <1>4, ArchiveTypes DEF Y!TypeOK
<1>7. ASSUME NEW d \in Processes
      PROVE  Receiving(d)'
  <2>1. CASE d = c
    <3>1. \A r \in Y!Records : ~(r <= 0)
      BY ArchiveNumbers
    <3> QED
      BY <1>1, <1>2, <1>3, <1>4, <2>1, <3>1 DEF Receiving
  <2>2. CASE d # c
    BY <1>4, <1>5, <2>2 DEF Receiving
  <2> QED
    BY <2>1, <2>2
<1>8. Mirrors' /\ Pending'
  BY <1>1, <1>3 DEF Mirrors, Pending
<1> QED
  BY <1>1, <1>6, <1>7, <1>8 DEF ArchiveInv

\* The next record of the stream: those between it and the one before are not in the snapshot.
LEMMA IngestStep ==
  ASSUME ArchiveInv, NEW c \in Processes, Y!Ingest(c)
  PROVE  ArchiveInv'
<1> DEFINE r == Y!Min(Y!Unsent(c))
           s == receivers[c].snapshot
           x == [receivers[c] EXCEPT !.sent = r]
           row == Y!Refreshed(r, s)
<1>1. /\ receivers[c].stage = "copying" /\ Y!Unsent(c) # {}
      /\ receivers' = [receivers EXCEPT ![c] = x]
      /\ rows' = IF Y!Protected(r) THEN rows ELSE [rows EXCEPT ![r] = row]
      /\ UNCHANGED <<sync, lock, embedder, resets, changes, breaks>>
  BY DEF Y!Ingest, Y!At
<1>2. /\ lock = c /\ sync.pending = 0 /\ sync.copying /\ s \in Y!Snapshots
      /\ \A q \in Y!Records : q <= receivers[c].sent => Reflects(s, q)
  BY <1>1, ArchiveTypes, ArchiveNumbers DEF Receiving
<1>3. /\ r \in Y!Records /\ r > receivers[c].sent /\ Says[s][r] # None
      /\ \A q \in Y!Records : q > receivers[c].sent /\ q < r => Says[s][q] = None
  <2>1. Y!Unsent(c) \in SUBSET Y!Records
    BY DEF Y!Unsent
  <2>2. r \in Y!Unsent(c) /\ \A q \in Y!Unsent(c) : r <= q
    BY <1>1, <2>1, LeastRecord
  <2>3. \A q \in Y!Records : q < r => q \notin Y!Unsent(c)
    BY <2>1, <2>2, ArchiveNumbers
  <2> HIDE DEF r
  <2> QED
    BY <2>2, <2>3 DEF Y!Unsent
<1> HIDE DEF r
<1>4. /\ x \in Y!Receiver /\ x.stage = "copying" /\ x.snapshot = s /\ x.sent = r
  BY <1>1, <1>3, ArchiveNumbers, ArchiveTypes DEF Y!Receiver
<1>5. row \in Y!Row /\ Kept(row, r) /\ row.here /\ ~row.deleted /\ row.text = Says[s][r]
      /\ row.snapshot = s
  <2>1. Says[s][r] \in Y!Texts
    BY <1>2, <1>3 DEF Y!Texts
  <2>2. rows[r] \in Y!Row /\ Kept(rows[r], r)
    BY <1>3, ArchiveTypes
  <2> QED
    BY <1>2, <1>3, <2>1, <2>2, ArchiveNumbers DEF Y!Refreshed, Y!Stored, Y!Row, Y!Levels, Kept
<1> HIDE DEF row, x
<1>6. /\ receivers' \in [Processes -> Y!Receiver]
      /\ \A d \in Processes : receivers'[d] = IF d = c THEN x ELSE receivers[d]
  BY <1>1, <1>4, ArchiveTypes
<1>7. /\ rows' \in [Y!Records -> Y!Row]
      /\ \A q \in Y!Records : Kept(rows'[q], q)
      /\ \A q \in Y!Records : q # r => rows'[q] = rows[q]
      /\ rows'[r] = row \/ (rows'[r] = rows[r] /\ rows[r].touched)
  <2>1. Y!Protected(r) => rows[r].touched
    BY <1>3, ArchiveTypes DEF Kept, Y!Protected, Y!Row
  <2>2. rows' = rows \/ rows' = [rows EXCEPT ![r] = row]
    BY <1>1
  <2> QED
    BY <1>1, <1>3, <1>5, <2>1, <2>2, ArchiveTypes
<1>8. ASSUME NEW q \in Y!Records, q <= r, Says[s][q] # None
      PROVE  \/ rows'[q].touched
             \/ Y!Live(q)' /\ rows'[q].text = Says[s][q] /\ rows'[q].snapshot = s
  <2>1. q \in Nat /\ r \in Nat /\ receivers[c].sent \in Nat
    BY <1>3, ArchiveNumbers, ArchiveTypes
  <2>2. CASE q = r
    BY <1>5, <1>7, <1>8, <2>2 DEF Y!Live
  <2>3. CASE q # r /\ q > receivers[c].sent
    BY <1>3, <1>8, <2>1, <2>3
  <2>4. CASE q # r /\ q <= receivers[c].sent
    BY <1>2, <1>7, <1>8, <2>4 DEF Reflects, Y!Live
  <2> QED
    BY <2>1, <2>2, <2>3, <2>4
<1>9. ASSUME NEW d \in Processes
      PROVE  Receiving(d)'
  <2>1. CASE d = c
    <3>1. receivers'[d] = x /\ s # 0
      BY <1>2, <1>6, <2>1, ArchiveNumbers
    <3>2. \A q \in Y!Records : q <= receivers'[d].sent => Reflects(receivers[d].snapshot, q)'
      BY <1>4, <1>8, <3>1 DEF Reflects
    <3> QED
      BY <1>1, <1>2, <1>4, <2>1, <3>1, <3>2 DEF Receiving
  <2>2. CASE d # c
    <3>1. receivers'[d].stage = "idle"
      BY <1>2, <1>6, <2>2, ArchiveTypes DEF Receiving
    <3> QED
      BY <3>1 DEF Receiving
  <2> QED
    BY <2>1, <2>2
<1>10. Y!TypeOK'
  BY <1>1, <1>6, <1>7, ArchiveTypes DEF Y!TypeOK
<1>11. Mirrors' /\ Pending'
  BY <1>1, <1>2 DEF Mirrors, Pending
<1> QED
  BY <1>1, <1>7, <1>9, <1>10, <1>11 DEF ArchiveInv

LEMMA PlanStep ==
  ASSUME ArchiveInv, NEW c \in Processes, Y!PlanFinalization(c)
  PROVE  ArchiveInv'
<1> DEFINE s == receivers[c].snapshot
           x == [receivers[c] EXCEPT !.stage = "finishing"]
           y == [sync EXCEPT !.pending = s, !.cursor = 0]
<1>1. /\ receivers[c].stage = "verified" /\ sync' = y
      /\ receivers' = [receivers EXCEPT ![c] = x]
      /\ UNCHANGED <<rows, lock, embedder, resets, changes, breaks>>
  BY DEF Y!PlanFinalization, Y!At
<1>2. /\ lock = c /\ sync.copying /\ s # 0 /\ s \in 0..LastSnapshot
      /\ \A r \in Y!Records : Reflects(s, r)
  BY <1>1, ArchiveTypes DEF Receiving
<1>3. /\ x \in Y!Receiver /\ x.stage = "finishing"
      /\ y \in Y!SyncState /\ y.copying /\ y.pending = s /\ y.cursor = 0
  BY <1>2, ArchiveNumbers, ArchiveTypes DEF Y!Receiver, Y!SyncState
<1> HIDE DEF s, x, y
<1>4. /\ receivers' \in [Processes -> Y!Receiver]
      /\ \A d \in Processes : receivers'[d] = IF d = c THEN x ELSE receivers[d]
  BY <1>1, <1>3, ArchiveTypes
<1>5. \A r : Y!Live(r)' <=> Y!Live(r)
  BY <1>1 DEF Y!Live
<1>6. Y!TypeOK'
  BY <1>1, <1>3, <1>4, ArchiveTypes DEF Y!TypeOK
<1>7. Pending'
  <2>1. sync'.pending = s
    BY <1>1, <1>3
  <2>2. \A r \in Y!Records : Reflects(sync.pending, r)'
    BY <1>1, <1>2, <1>5, <2>1 DEF Reflects
  <2>3. \A r \in Y!Records : ~(r <= 0)
    BY ArchiveNumbers
  <2> QED
    BY <1>1, <1>3, <2>2, <2>3 DEF Pending
<1>8. ASSUME NEW d \in Processes
      PROVE  Receiving(d)'
  <2>1. CASE d = c
    BY <1>1, <1>2, <1>3, <1>4, <2>1 DEF Receiving
  <2>2. CASE d # c
    <3>1. receivers'[d].stage = "idle"
      BY <1>2, <1>4, <2>2, ArchiveTypes DEF Receiving
    <3> QED
      BY <3>1 DEF Receiving
  <2> QED
    BY <2>1, <2>2
<1>9. Mirrors'
  BY <1>1, <1>3 DEF Mirrors
<1> QED
  BY <1>1, <1>6, <1>7, <1>8, <1>9 DEF ArchiveInv

\* What is removed is what the snapshot does not have, lowest record first.
LEMMA PruneStep ==
  ASSUME ArchiveInv, NEW c \in Processes, Y!Prune(c)
  PROVE  ArchiveInv'
<1>1. /\ receivers[c].stage = "finishing" /\ lock = c /\ sync.pending # 0 /\ sync.copying
      /\ UNCHANGED <<lock, embedder, resets, changes, breaks>>
      /\ \A q \in Y!Records : Reflects(sync.pending, q)
      /\ \A q \in Y!Records : q <= sync.cursor /\ Y!Live(q) => Belongs(q)
  BY ArchiveTypes DEF Y!Prune, Y!At, Receiving, ArchiveInv, Pending
<1>0. \A q \in Y!Records : q > sync.cursor /\ Y!Live(q) => q \in Y!Obsolete \/ Belongs(q)
  BY ArchiveTypes DEF Y!Obsolete, Y!Within, Y!Current, Y!Live, Y!Row, Kept, Belongs
<1>2. CASE Y!Obsolete = {}
  <2> DEFINE x == [receivers[c] EXCEPT !.stage = "committing"]
  <2>1. x \in Y!Receiver /\ x.stage = "committing"
    BY ArchiveTypes DEF Y!Receiver
  <2>2. receivers' = [receivers EXCEPT ![c] = x] /\ UNCHANGED <<rows, sync>>
    BY <1>2 DEF Y!Prune
  <2> HIDE DEF x
  <2>3. ASSUME NEW r \in Y!Records, Y!Live(r)
        PROVE  Belongs(r)
    <3>1. r \in Nat /\ sync.cursor \in Nat
      BY ArchiveNumbers, ArchiveTypes
    <3>2. CASE r > sync.cursor
      BY <1>0, <1>2, <2>3, <3>2
    <3>3. CASE r <= sync.cursor
      BY <1>1, <2>3, <3>3
    <3> QED
      BY <3>1, <3>2, <3>3
  <2> QED
    BY <1>1, <2>1, <2>2, <2>3, ArchiveTypes, ReceiverMoves
<1>3. CASE Y!Obsolete # {}
  <2> DEFINE m == Y!Min(Y!Obsolete)
             row == [rows[m] EXCEPT !.deleted = TRUE, !.removed = TRUE]
             x == [receivers[c] EXCEPT !.stage = "finishing"]
             y == [sync EXCEPT !.cursor = m]
  <2>1. /\ rows' = [rows EXCEPT ![m] = row] /\ sync' = y
        /\ receivers' = [receivers EXCEPT ![c] = x]
    BY <1>3 DEF Y!Prune, Y!Pruned
  <2>2. /\ m \in Y!Records /\ Y!Live(m) /\ rows[m].snapshot \notin {0, sync.pending}
        /\ ~rows[m].settled /\ rows[m].access = "sensitive"
        /\ \A q \in Y!Records : q < m /\ Y!Live(q) => Belongs(q)
    <3>1. Y!Obsolete \in SUBSET Y!Records
      BY DEF Y!Obsolete
    <3>2. m \in Y!Obsolete /\ \A q \in Y!Obsolete : m <= q
      BY <1>3, <3>1, LeastRecord
    <3> HIDE DEF m
    <3>3. ASSUME NEW q \in Y!Records, q < m, Y!Live(q)
          PROVE  Belongs(q)
      <4>1. q \in Nat /\ m \in Nat /\ sync.cursor \in Nat
        BY <3>1, <3>2, ArchiveNumbers, ArchiveTypes
      <4>2. q \notin Y!Obsolete
        BY <3>2, <3>3, <4>1
      <4>3. CASE q > sync.cursor
        BY <1>0, <3>3, <4>2, <4>3
      <4>4. CASE q <= sync.cursor
        BY <1>1, <3>3, <4>4
      <4> QED
        BY <4>1, <4>3, <4>4
    <3> QED
      BY <3>2, <3>3 DEF Y!Obsolete, Y!Within, Y!Current
  <2> HIDE DEF m
  <2>3. /\ row \in Y!Row /\ Kept(row, m) /\ row.deleted /\ row.touched = rows[m].touched
    BY <2>2, ArchiveTypes DEF Y!Row, Kept
  <2>4. /\ x \in Y!Receiver /\ x.stage = "finishing"
        /\ y \in Y!SyncState /\ y.copying /\ y.pending = sync.pending /\ y.cursor = m
    BY <1>1, <2>2, ArchiveNumbers, ArchiveTypes DEF Y!Receiver, Y!SyncState
  <2> HIDE DEF row, x, y
  <2>5. /\ receivers' \in [Processes -> Y!Receiver]
        /\ \A d \in Processes : receivers'[d] = IF d = c THEN x ELSE receivers[d]
    BY <2>1, <2>4, ArchiveTypes
  <2>6. /\ rows' \in [Y!Records -> Y!Row]
        /\ \A q \in Y!Records : Kept(rows'[q], q)
        /\ \A q \in Y!Records : q # m => rows'[q] = rows[q]
        /\ rows'[m] = row
    BY <2>1, <2>2, <2>3, ArchiveTypes
  <2>7. Says[sync.pending][m] = None \/ rows[m].touched
    BY <1>1, <2>2 DEF Reflects
  <2>8. \A q \in Y!Records : Reflects(sync.pending, q)'
    <3>1. sync'.pending = sync.pending
      BY <2>1, <2>4
    <3> QED
      BY <1>1, <2>3, <2>6, <2>7, <3>1 DEF Reflects, Y!Live
  <2>9. ASSUME NEW q \in Y!Records, q <= m, Y!Live(q)'
        PROVE  Belongs(q)'
    <3>1. q # m
      BY <2>3, <2>6, <2>9 DEF Y!Live
    <3>2. q < m
      BY <2>2, <2>9, <3>1, ArchiveNumbers
    <3>3. sync'.pending = sync.pending
      BY <2>1, <2>4
    <3> QED
      BY <2>2, <2>6, <2>9, <3>1, <3>2, <3>3 DEF Y!Live, Belongs
  <2>10. Pending' /\ Mirrors'
    BY <1>1, <2>1, <2>4, <2>8, <2>9 DEF Pending, Mirrors
  <2>11. ASSUME NEW d \in Processes
         PROVE  Receiving(d)'
    <3>1. CASE d = c
      BY <1>1, <2>1, <2>4, <2>5, <3>1 DEF Receiving
    <3>2. CASE d # c
      <4>1. receivers'[d].stage = "idle"
        BY <1>1, <2>5, <3>2, ArchiveTypes DEF Receiving
      <4> QED
        BY <4>1 DEF Receiving
    <3> QED
      BY <3>1, <3>2
  <2>12. Y!TypeOK'
    BY <1>1, <2>1, <2>4, <2>5, <2>6, ArchiveTypes DEF Y!TypeOK
  <2> QED
    BY <1>1, <2>6, <2>10, <2>11, <2>12 DEF ArchiveInv
<1> QED
  BY <1>2, <1>3

\* Nothing is left that the snapshot does not have, and it has been stored.
LEMMA CommitSnapshotStep ==
  ASSUME ArchiveInv, NEW c \in Processes, Y!CommitSnapshot(c)
  PROVE  ArchiveInv'
<1> DEFINE y == [started |-> sync.pending, done |-> sync.pending, copying |-> FALSE,
                 pending |-> 0, cursor |-> 0]
<1>1. /\ receivers[c].stage = "committing" /\ lock = c /\ sync.pending # 0
      /\ \A r \in Y!Records : Reflects(sync.pending, r)
      /\ \A r \in Y!Records : Y!Live(r) => Belongs(r)
      /\ sync' = y /\ receivers' = [receivers EXCEPT ![c] = Y!Waiting] /\ lock' \in {lock, None}
      /\ UNCHANGED <<rows, embedder, resets, changes, breaks>>
  BY ArchiveTypes DEF Y!CommitSnapshot, Y!At, Y!Leave, Receiving, ArchiveInv, Pending
<1>2. /\ y \in Y!SyncState /\ y.done = sync.pending /\ y.pending = 0
      /\ Y!Waiting \in Y!Receiver /\ Y!Waiting.stage = "idle"
  BY ArchiveNumbers, ArchiveTypes DEF Y!SyncState, Y!Waiting, Y!Receiver
<1> HIDE DEF y
<1>3. /\ receivers' \in [Processes -> Y!Receiver]
      /\ \A d \in Processes : receivers'[d] = IF d = c THEN Y!Waiting ELSE receivers[d]
  BY <1>1, <1>2, ArchiveTypes
<1>4. ASSUME NEW d \in Processes
      PROVE  Receiving(d)'
  <2>1. receivers'[d].stage = "idle"
    BY <1>1, <1>2, <1>3, ArchiveTypes DEF Receiving
  <2> QED
    BY <2>1 DEF Receiving
<1>5. Mirrors'
  <2>1. sync'.done = sync.pending
    BY <1>1, <1>2
  <2>2. \A r \in Y!Records : Says[sync.pending][r] = None => rows[r].touched \/ ~Y!Live(r)
    BY <1>1, ArchiveTypes DEF Kept, Belongs
  <2> QED
    BY <1>1, <2>1, <2>2 DEF Mirrors, Reflects, Y!Live
<1>6. Y!TypeOK' /\ Pending'
  BY <1>1, <1>2, <1>3, ArchiveTypes DEF Y!TypeOK, Pending
<1> QED
  BY <1>1, <1>4, <1>5, <1>6 DEF ArchiveInv

LEMMA ReceiverSteps ==
  ASSUME ArchiveInv, NEW c \in Processes, Y!Verify(c) \/ Y!Finalize(c) \/ Y!Break(c)
  PROVE  ArchiveInv'
<1>1. /\ receivers[c] \in Y!Receiver /\ Receiving(c) /\ breaks \in 0..MaxBreaks
      /\ lock \in Processes \cup {None}
  BY ArchiveTypes
<1>2. ASSUME Y!Verify(c)
      PROVE  ArchiveInv'
  <2>1. /\ receivers[c].stage = "copying" /\ Y!Unsent(c) = {}
        /\ UNCHANGED <<rows, sync, embedder, resets, changes, breaks>>
    BY <1>2 DEF Y!Verify, Y!At
  <2>2. CASE Y!Leave(c)
    BY <1>1, <2>1, <2>2, ReceiverLeaves
  <2>3. CASE receivers' = [receivers EXCEPT ![c].stage = "verified"] /\ UNCHANGED lock
    <3> DEFINE x == [receivers[c] EXCEPT !.stage = "verified"]
    <3>1. /\ x \in Y!Receiver /\ x.stage = "verified" /\ x.snapshot = receivers[c].snapshot
      BY <1>1 DEF Y!Receiver
    <3>2. receivers' = [receivers EXCEPT ![c] = x]
      BY <2>3
    <3> HIDE DEF x
    <3>3. ASSUME NEW r \in Y!Records
          PROVE  Reflects(x.snapshot, r)
      <4>1. r \in Nat /\ receivers[c].sent \in Nat
        BY ArchiveNumbers, ArchiveTypes
      <4>2. CASE r > receivers[c].sent
        BY <2>1, <3>1, <4>2 DEF Y!Unsent, Reflects
      <4>3. CASE r <= receivers[c].sent
        BY <1>1, <2>1, <3>1, <4>3 DEF Receiving
      <4> QED
        BY <4>1, <4>2, <4>3
    <3>4. sync.pending = 0 /\ sync.copying /\ x.snapshot # 0 /\ lock = c
      BY <1>1, <2>1, <3>1 DEF Receiving
    <3> QED
      BY <1>1, <2>1, <2>3, <3>1, <3>2, <3>3, <3>4, ReceiverMoves
  <2> QED
    BY <1>2, <2>2, <2>3 DEF Y!Verify
<1>3. ASSUME Y!Finalize(c)
      PROVE  ArchiveInv'
  <2> DEFINE x == [receivers[c] EXCEPT !.stage = "finishing"]
  <2>1. /\ lock = None /\ lock' = c /\ sync.pending # 0
        /\ receivers' = [receivers EXCEPT ![c] = x]
        /\ UNCHANGED <<rows, sync, embedder, resets, changes, breaks>>
    BY <1>3 DEF Y!Finalize
  <2>2. x \in Y!Receiver /\ x.stage = "finishing"
    BY <1>1 DEF Y!Receiver
  <2> HIDE DEF x
  <2> QED
    BY <1>1, <2>1, <2>2, NoneAssumption, ReceiverMoves
<1>4. ASSUME Y!Break(c)
      PROVE  ArchiveInv'
  <2>1. Y!Leave(c) /\ UNCHANGED <<rows, sync, embedder, resets, changes>> /\ breaks' \in 0..MaxBreaks
    BY <1>1, <1>4, ArchiveAssumption DEF Y!Break
  <2> QED
    BY <2>1, ReceiverLeaves
<1> QED
  BY <1>2, <1>3, <1>4

\* The embedding worker and those who change the records.
LEMMA QuietSteps ==
  ASSUME ArchiveInv,
         \/ \E r \in Y!Records : \/ Y!SelectForEmbedding(r) \/ Y!ForgetRecord(r)
                                 \/ Y!ReplaceMetadata(r) \/ Y!SupersedeRecord(r)
         \/ \E r \in Y!Records, text \in Y!Texts : Y!EditRecord(r, text)
         \/ \E r \in Y!Records, level \in Y!Levels : Y!Reclassify(r, level)
         \/ Y!Embedded \/ Y!EmbeddingFails \/ Y!RetryFailures
  PROVE  ArchiveInv'
<1>0. /\ rows \in [Y!Records -> Y!Row] /\ embedder \in Y!Job
      /\ resets \in 0..MaxResets /\ changes \in 0..MaxChanges /\ breaks \in 0..MaxBreaks
      /\ \A r \in Y!Records : rows[r] \in Y!Row /\ Kept(rows[r], r) /\ Quietly(rows[r], rows[r])
      /\ embedder # Y!NoJob => embedder.record \in Y!Records
      /\ Y!NoJob \in Y!Job
  BY ArchiveTypes DEF ArchiveInv, Quietly, Y!Row, Y!Job, Y!NoJob
<1>1. ASSUME NEW r \in Y!Records, Y!SelectForEmbedding(r)
      PROVE  ArchiveInv'
  <2>1. embedder' \in Y!Job /\ embedder'.record \in Y!Records
        /\ UNCHANGED <<rows, sync, lock, receivers, resets, changes, breaks>>
    BY <1>0, <1>1 DEF Y!SelectForEmbedding, Y!Job, Y!Row
  <2> QED
    BY <1>0, <2>1, RowsChangeQuietly
<1>2. ASSUME NEW r \in Y!Records, NEW row \in Y!Row, Quietly(rows[r], row), Kept(row, r),
             rows' = [rows EXCEPT ![r] = row], embedder' \in {embedder, Y!NoJob},
             changes' \in 0..MaxChanges, UNCHANGED <<sync, lock, receivers, resets, breaks>>
      PROVE  ArchiveInv'
  <2>1. /\ rows' \in [Y!Records -> Y!Row]
        /\ \A q \in Y!Records : Quietly(rows[q], rows'[q]) /\ Kept(rows'[q], q)
    BY <1>0, <1>2
  <2> QED
    BY <1>0, <1>2, <2>1, RowsChangeQuietly
<1>3. ASSUME NEW r \in Y!Records, NEW row \in Y!Row, Y!Change(r, row),
             row.vector \in {None, row.text}, row.removed => row.deleted,
             row.snapshot # 0 => Says[row.snapshot][r] # None
      PROVE  ArchiveInv'
  <2> DEFINE next == [row EXCEPT !.touched = TRUE]
  <2>1. next \in Y!Row /\ Quietly(rows[r], next) /\ Kept(next, r)
    BY <1>3 DEF Y!Row, Quietly, Kept
  <2>2. /\ rows' = [rows EXCEPT ![r] = next] /\ changes' \in 0..MaxChanges
        /\ UNCHANGED <<sync, lock, receivers, embedder, resets, breaks>>
    BY <1>0, <1>3, ArchiveAssumption DEF Y!Change
  <2> HIDE DEF next
  <2> QED
    BY <1>2, <2>1, <2>2
<1>7. ASSUME NEW r \in Y!Records,
             \/ Y!ForgetRecord(r) \/ Y!ReplaceMetadata(r) \/ Y!SupersedeRecord(r)
             \/ \E text \in Y!Texts : Y!EditRecord(r, text)
             \/ \E level \in Y!Levels : Y!Reclassify(r, level)
      PROVE  ArchiveInv'
  <2>1. rows[r] \in Y!Row /\ Kept(rows[r], r) /\ (Y!Current(r) => ~rows[r].removed)
    BY <1>0 DEF Kept, Y!Current, Y!Live, Y!Row
  <2>2. CASE Y!ForgetRecord(r)
    <3> DEFINE row == [rows[r] EXCEPT !.deleted = TRUE]
    <3>1. /\ row \in Y!Row /\ row.vector \in {None, row.text} /\ row.deleted
          /\ row.snapshot = rows[r].snapshot
      BY <2>1 DEF Y!Row, Kept
    <3>2. Y!Change(r, row)
      BY <2>2 DEF Y!ForgetRecord
    <3> HIDE DEF row
    <3> QED
      BY <1>3, <2>1, <3>1, <3>2 DEF Kept
  <2>3. CASE Y!ReplaceMetadata(r)
    <3> DEFINE row == [rows[r] EXCEPT !.snapshot = 0, !.flagged = FALSE]
    <3>1. /\ row \in Y!Row /\ row.vector \in {None, row.text} /\ row.snapshot = 0
          /\ row.removed = rows[r].removed
      BY <2>1, ArchiveNumbers DEF Y!Row, Kept
    <3>2. Y!Change(r, row) /\ Y!Current(r)
      BY <2>3 DEF Y!ReplaceMetadata
    <3> HIDE DEF row
    <3> QED
      BY <1>3, <2>1, <3>1, <3>2
  <2>4. CASE Y!SupersedeRecord(r)
    <3> DEFINE row == [rows[r] EXCEPT !.settled = TRUE]
    <3>1. /\ row \in Y!Row /\ row.vector \in {None, row.text} /\ row.snapshot = rows[r].snapshot
          /\ row.removed = rows[r].removed
      BY <2>1 DEF Y!Row, Kept
    <3>2. Y!Change(r, row) /\ Y!Current(r)
      BY <2>4 DEF Y!SupersedeRecord
    <3> HIDE DEF row
    <3> QED
      BY <1>3, <2>1, <3>1, <3>2 DEF Kept
  <2>5. ASSUME NEW text \in Y!Texts, Y!EditRecord(r, text)
        PROVE  ArchiveInv'
    <3> DEFINE row == [rows[r] EXCEPT !.text = text, !.vector = text]
    <3>1. /\ row \in Y!Row /\ row.vector \in {None, row.text} /\ row.snapshot = rows[r].snapshot
          /\ row.removed = rows[r].removed
      BY <2>1, <2>5 DEF Y!Row
    <3>2. Y!Change(r, row) /\ Y!Current(r)
      BY <2>5 DEF Y!EditRecord
    <3> HIDE DEF row
    <3> QED
      BY <1>3, <2>1, <3>1, <3>2 DEF Kept
  <2>6. ASSUME NEW level \in Y!Levels, Y!Reclassify(r, level)
        PROVE  ArchiveInv'
    <3> DEFINE row == [rows[r] EXCEPT !.access = level]
    <3>1. /\ row \in Y!Row /\ row.vector \in {None, row.text} /\ row.snapshot = rows[r].snapshot
          /\ row.removed = rows[r].removed /\ row.deleted = rows[r].deleted
      BY <2>1, <2>6 DEF Y!Row, Kept
    <3>2. Y!Change(r, row)
      BY <2>6 DEF Y!Reclassify
    <3> HIDE DEF row
    <3> QED
      BY <1>3, <2>1, <3>1, <3>2 DEF Kept
  <2> QED
    BY <1>7, <2>2, <2>3, <2>4, <2>5, <2>6
<1>4. ASSUME Y!Embedded
      PROVE  ArchiveInv'
  <2> DEFINE r == embedder.record
  <2>1. /\ r \in Y!Records /\ embedder' = Y!NoJob
        /\ UNCHANGED <<sync, lock, receivers, resets, changes, breaks>>
        /\ \/ rows' = rows
           \/ rows' = [rows EXCEPT ![r].flagged = TRUE]
           \/ rows' = [rows EXCEPT ![r].vector = embedder.text] /\ rows[r].text = embedder.text
    BY <1>0, <1>4 DEF Y!Embedded, Y!Same
  <2> HIDE DEF r
  <2>2. rows[r] \in Y!Row /\ Kept(rows[r], r) /\ Quietly(rows[r], rows[r])
    BY <1>0, <2>1
  <2>3. CASE rows' = rows
    BY <1>0, <2>1, <2>3, RowsChangeQuietly
  <2>4. CASE rows' = [rows EXCEPT ![r].flagged = TRUE]
    <3> DEFINE row == [rows[r] EXCEPT !.flagged = TRUE]
    <3>1. row \in Y!Row /\ Quietly(rows[r], row) /\ Kept(row, r)
      BY <2>2 DEF Y!Row, Quietly, Kept
    <3>2. rows' = [rows EXCEPT ![r] = row]
      BY <2>4
    <3> HIDE DEF row
    <3> QED
      BY <1>0, <1>2, <2>1, <3>1, <3>2
  <2>5. CASE rows' = [rows EXCEPT ![r].vector = embedder.text] /\ rows[r].text = embedder.text
    <3> DEFINE row == [rows[r] EXCEPT !.vector = embedder.text]
    <3>1. row \in Y!Row /\ Quietly(rows[r], row) /\ Kept(row, r)
      BY <2>2, <2>5 DEF Y!Row, Quietly, Kept
    <3>2. rows' = [rows EXCEPT ![r] = row]
      BY <2>5
    <3> HIDE DEF row
    <3> QED
      BY <1>0, <1>2, <2>1, <3>1, <3>2
  <2> QED
    BY <2>1, <2>3, <2>4, <2>5
<1>5. ASSUME Y!EmbeddingFails
      PROVE  ArchiveInv'
  <2>1. /\ embedder' = Y!NoJob /\ breaks' \in 0..MaxBreaks
        /\ UNCHANGED <<rows, sync, lock, receivers, resets, changes>>
    BY <1>0, <1>5, ArchiveAssumption DEF Y!EmbeddingFails
  <2> QED
    BY <1>0, <2>1, RowsChangeQuietly
<1>6. ASSUME Y!RetryFailures
      PROVE  ArchiveInv'
  <2>1. /\ rows' = [r \in Y!Records |->
                      IF Y!Failed(r) THEN [rows[r] EXCEPT !.flagged = FALSE] ELSE rows[r]]
        /\ resets' \in 0..MaxResets /\ UNCHANGED <<sync, lock, receivers, embedder, changes, breaks>>
    BY <1>0, <1>6, ArchiveAssumption DEF Y!RetryFailures
  <2>2. ASSUME NEW r \in Y!Records
        PROVE  rows'[r] \in Y!Row /\ Quietly(rows[r], rows'[r]) /\ Kept(rows'[r], r)
    <3> DEFINE row == [rows[r] EXCEPT !.flagged = FALSE]
    <3>1. row \in Y!Row /\ Quietly(rows[r], row) /\ Kept(row, r)
      BY <1>0 DEF Y!Row, Quietly, Kept
    <3>2. rows'[r] \in {row, rows[r]}
      BY <2>1
    <3> HIDE DEF row
    <3> QED
      BY <1>0, <3>1, <3>2
  <2>3. rows' \in [Y!Records -> Y!Row]
    BY <2>1, <2>2
  <2> QED
    BY <1>0, <2>1, <2>2, <2>3, RowsChangeQuietly
<1> QED
  BY <1>1, <1>4, <1>5, <1>6, <1>7

LEMMA ArchiveStep ==
  ASSUME ArchiveInv, [Y!Next]_yvars
  PROVE  ArchiveInv'
<1>1. CASE UNCHANGED yvars
  <2>1. /\ UNCHANGED <<rows, sync, lock, receivers, embedder, resets, changes, breaks>>
    BY <1>1 DEF yvars
  <2>2. \A r \in Y!Records : Kept(rows[r], r) /\ Quietly(rows[r], rows[r])
    BY ArchiveTypes DEF Quietly, Y!Row
  <2>3. embedder # Y!NoJob => embedder.record \in Y!Records
    BY DEF ArchiveInv
  <2> QED
    BY <2>1, <2>2, <2>3, ArchiveTypes, RowsChangeQuietly
<1>2. CASE Y!Next
  <2>1. \/ \E c \in Processes :
             \/ Y!Ingest(c) \/ Y!Verify(c) \/ Y!PlanFinalization(c) \/ Y!Prune(c)
             \/ Y!CommitSnapshot(c) \/ Y!Finalize(c) \/ Y!Break(c)
        \/ \E c \in Processes, s \in Y!Snapshots, shrink \in BOOLEAN : Y!Receive(c, s, shrink)
        \/ \E r \in Y!Records : \/ Y!SelectForEmbedding(r) \/ Y!ForgetRecord(r)
                                \/ Y!ReplaceMetadata(r) \/ Y!SupersedeRecord(r)
        \/ \E r \in Y!Records, text \in Y!Texts : Y!EditRecord(r, text)
        \/ \E r \in Y!Records, level \in Y!Levels : Y!Reclassify(r, level)
        \/ Y!Embedded \/ Y!EmbeddingFails \/ Y!RetryFailures
    BY <1>2 DEF Y!Next, Y!Step
  <2> QED
    BY <2>1, IngestStep, PlanStep, PruneStep, CommitSnapshotStep, ReceiverSteps, ReceiveStep,
       QuietSteps
<1> QED
  BY <1>1, <1>2

LEMMA ArchiveInit ==
  ASSUME Y!Init
  PROVE  ArchiveInv
<1>1. /\ rows = [r \in Y!Records |-> Y!NoRow] /\ lock = None
      /\ resets = 0 /\ changes = 0 /\ breaks = 0
      /\ sync = [started |-> 0, done |-> 0, copying |-> FALSE, pending |-> 0, cursor |-> 0]
      /\ receivers = [c \in Processes |-> Y!Waiting] /\ embedder = Y!NoJob
  BY DEF Y!Init
<1>2. /\ Y!NoRow \in Y!Row /\ \A r : Kept(Y!NoRow, r)
      /\ Y!Waiting \in Y!Receiver /\ Y!Waiting.stage = "idle" /\ Y!NoJob \in Y!Job
      /\ sync \in Y!SyncState /\ sync.done = 0 /\ sync.pending = 0
      /\ 0 \in 0..MaxResets /\ 0 \in 0..MaxChanges /\ 0 \in 0..MaxBreaks
  BY <1>1, ArchiveNumbers, ArchiveAssumption
     DEF Y!NoRow, Y!Row, Y!Levels, Kept, Y!Waiting, Y!Receiver, Y!NoJob, Y!Job, Y!SyncState
<1> QED
  BY <1>1, <1>2 DEF ArchiveInv, Y!TypeOK, Mirrors, Pending, Receiving

\* What the copy leaves alone only the others change.
LEMMA ProtectedStep ==
  ASSUME ArchiveInv, [Y!Next]_yvars
  PROVE  \A r \in Y!Records : Y!Protected(r) /\ changes' = changes => rows'[r] = rows[r]
<1> SUFFICES ASSUME NEW r \in Y!Records, Y!Protected(r), changes' = changes, rows' # rows
             PROVE  rows'[r] = rows[r]
  OBVIOUS
<1>1. rows \in [Y!Records -> Y!Row] /\ changes \in Nat /\ ~Y!Within(r)
  BY ArchiveTypes, ArchiveAssumption DEF Kept, Y!Within, Y!Current, Y!Live, Y!Protected, Y!Row
<1>2. \/ \E c \in Processes : Y!Ingest(c) \/ Y!Prune(c)
      \/ Y!Embedded \/ Y!RetryFailures
      \/ changes' = changes + 1
  BY DEF Y!Next, Y!Step, Y!Change, yvars, Y!Verify, Y!PlanFinalization, Y!CommitSnapshot, Y!Finalize,
         Y!Break, Y!Receive, Y!SelectForEmbedding, Y!EmbeddingFails, Y!ForgetRecord,
         Y!ReplaceMetadata, Y!SupersedeRecord, Y!EditRecord, Y!Reclassify
<1>3. ASSUME NEW c \in Processes, Y!Ingest(c)
      PROVE  rows'[r] = rows[r]
  <2> DEFINE q == Y!Min(Y!Unsent(c))
  <2>1. Y!Protected(q) => rows' = rows
    BY <1>3 DEF Y!Ingest
  <2>2. q # r => rows'[r] = rows[r]
    BY <1>1, <1>3 DEF Y!Ingest
  <2> QED
    BY <2>1, <2>2
<1>4. ASSUME NEW c \in Processes, Y!Prune(c)
      PROVE  rows'[r] = rows[r]
  <2>1. Y!Obsolete # {}
    BY <1>4 DEF Y!Prune
  <2>2. Y!Min(Y!Obsolete) \in Y!Obsolete
    BY <2>1, LeastRecord DEF Y!Obsolete
  <2>3. Y!Min(Y!Obsolete) # r
    BY <1>1, <2>2 DEF Y!Obsolete
  <2> QED
    BY <1>1, <1>4, <2>1, <2>3 DEF Y!Prune
<1>5. CASE Y!Embedded
  <2>1. Y!Same => embedder.record # r
    BY <1>1 DEF Y!Same
  <2> QED
    BY <1>1, <1>5, <2>1 DEF Y!Embedded
<1>6. CASE Y!RetryFailures
  BY <1>1, <1>6 DEF Y!RetryFailures, Y!Failed
<1>7. CASE changes' = changes + 1
  BY <1>1, <1>7
<1> QED
  BY <1>2, <1>3, <1>4, <1>5, <1>6, <1>7

LEMMA ArchiveHolds ==
  ASSUME ArchiveInv
  PROVE  Y!CopyMirrorsSnapshot /\ Y!VectorOfText /\ Y!TypeOK
<1>1. Y!CopyMirrorsSnapshot
  BY DEF ArchiveInv, Mirrors, Y!CopyMirrorsSnapshot
<1>2. Y!VectorOfText
  BY DEF ArchiveInv, Kept, Y!VectorOfText
<1> QED
  BY <1>1, <1>2 DEF ArchiveInv

(***************************************************************************)
(* The components do not share a variable: a step of one is no step of     *)
(* another.                                                                *)
(***************************************************************************)
LEMMA StepsOfComponents ==
  [Next]_vars => [F!Next]_fvars /\ [Y!Next]_yvars /\ [T!Next]_tvars /\ [K!Next]_kvars
                 /\ [M!Next]_mvars /\ [D!Next]_dvars /\ [G!Next]_gvars
BY DEF Next, vars, Reflection, Archive, Transfer, Access, Media, Documents, Migration,
     fvars, yvars, tvars, kvars, mvars, dvars, gvars

LEMMA ReflectionAlways == Spec => []ReflectionInv
<1>1. Init => ReflectionInv
  BY ReflectionInit DEF Init
<1>2. ReflectionInv /\ [Next]_vars => ReflectionInv'
  BY ReflectionStep, StepsOfComponents
<1> QED
  BY <1>1, <1>2, PTL DEF Spec

LEMMA DocumentAlways == Spec => []DocumentInv
<1>1. Init => DocumentInv
  BY DocumentInit DEF Init
<1>2. DocumentInv /\ [Next]_vars => DocumentInv'
  BY DocumentStep, StepsOfComponents
<1> QED
  BY <1>1, <1>2, PTL DEF Spec

LEMMA TransferAlways == Spec => []TransferInv
<1>1. Init => TransferInv
  BY TransferInit DEF Init
<1>2. TransferInv /\ [Next]_vars => TransferInv'
  BY TransferStep, StepsOfComponents
<1> QED
  BY <1>1, <1>2, PTL DEF Spec

LEMMA MigrationAlways == Spec => []MigrationInv
<1>1. Init => MigrationInv
  BY MigrationInit DEF Init
<1>2. MigrationInv /\ [Next]_vars => MigrationInv'
  BY MigrationStep, StepsOfComponents
<1> QED
  BY <1>1, <1>2, PTL DEF Spec

LEMMA ArchiveAlways == Spec => []ArchiveInv
<1>1. Init => ArchiveInv
  BY ArchiveInit DEF Init
<1>2. ArchiveInv /\ [Next]_vars => ArchiveInv'
  BY ArchiveStep, StepsOfComponents
<1> QED
  BY <1>1, <1>2, PTL DEF Spec

LEMMA PlayAlways == Spec => []P!PlayInv
<1>1. Init => P!PlayInv
  BY PlayFits, SamePlays, P!PlayInit DEF Init
<1>2. P!PlayInv /\ [Next]_vars => P!PlayInv'
  <2> SUFFICES ASSUME P!PlayInv, [Next]_vars PROVE P!PlayInv'
    OBVIOUS
  <2>1. [P!Next]_P!mvars
    BY SamePlays, StepsOfComponents
  <2> QED
    BY PlayFits, <2>1, P!PlayStep
<1> QED
  BY <1>1, <1>2, PTL DEF Spec

LEMMA AccessAlways == Spec => [](QuotaInv /\ NameInv)
<1>1. Init => QuotaInv /\ NameInv
  BY QuotaInit, NameInit DEF Init
<1>2. QuotaInv /\ NameInv /\ [Next]_vars => QuotaInv' /\ NameInv'
  BY QuotaStep, NameStep, StepsOfComponents
<1> QED
  BY <1>1, <1>2, PTL DEF Spec

(***************************************************************************)
(* Insights gain only evidence that says, at that moment, what the model   *)
(* read: for any number of processes that hold the same run, and whatever  *)
(* was edited, retired or has expired since the selection.                 *)
(***************************************************************************)
THEOREM EvidenceStaysRead == Spec => EvidenceIsWhatWasRead
<1>1. [Next]_vars =>
        [\A i \in Insights :
           insights'[i] # None /\ insights'[i] # insights[i] =>
             \E p \in Processes :
               /\ reflectors[p].step = "generated"
               /\ \A e \in insights'[i] \ (IF insights[i] = None THEN {} ELSE insights[i]) :
                    evidence[e].active /\ evidence[e].rev = reflectors[p].read[e]]_F!rvars
  BY EvidenceStep, StepsOfComponents
<1> QED
  BY <1>1, PTL DEF Spec, EvidenceIsWhatWasRead, F!EvidenceIsWhatWasRead

(***************************************************************************)
(* What the reflections started in a month have reserved stays within the  *)
(* month's cap, forced generations and runs that two processes hold        *)
(* included. What runs started before reserve in it, which no sum of the   *)
(* code counts, stays within the caps of these runs: the month itself can  *)
(* exceed its cap by that much and no more. And no minute and no day       *)
(* admits more operations of a key than its quota, counted under the lock  *)
(* of the key and charged in the windows of the count, whatever is cleaned *)
(* up between: for any number of processes, runs, keys and days.           *)
(***************************************************************************)
THEOREM BudgetsHold == Spec => []BudgetsKept
<1>1. ReflectionInv /\ QuotaInv /\ NameInv => BudgetsKept
  BY ReflectionHolds, QuotaHolds DEF BudgetsKept
<1> QED
  BY <1>1, ReflectionAlways, AccessAlways, PTL

(***************************************************************************)
(* Creations and rotations leave one live key of the name, unless a        *)
(* rotation was committed after its key had expired: rotate-key takes no   *)
(* lock of the name, and needs none as long as the key it holds is alive.  *)
(***************************************************************************)
THEOREM NameStaysUnambiguous == Spec => []NameUnambiguous
<1>1. ReflectionInv /\ QuotaInv /\ NameInv => NameUnambiguous
  BY NameHolds DEF NameUnambiguous
<1> QED
  BY <1>1, ReflectionAlways, AccessAlways, PTL

(***************************************************************************)
(* A generation of reflections stores its insights once, whichever process *)
(* resumes its run.  The calls of an idempotency key store one document; a *)
(* success names a document of the content that was sent, whatever was     *)
(* forgotten or purged of it; and its chunks, each small enough to embed,  *)
(* add up to all of that content, for paragraphs of any number and size.   *)
(***************************************************************************)
THEOREM StoresOnce == Spec => []StoredOnce
<1>1. ReflectionInv /\ DocumentInv => StoredOnce
  BY ReflectionHolds, DocumentHolds DEF StoredOnce
<1> QED
  BY <1>1, ReflectionAlways, DocumentAlways, PTL

(***************************************************************************)
(* An import makes no second row of a memory that is still at home, under  *)
(* its own id or under the portable key, and overwrites no row that        *)
(* differs from the feed: for any number of requests that import the same  *)
(* lines at once, cut off anywhere, and writers that take no lock.  And no *)
(* batch of the archive copy, of its prune or of its embedding changes a   *)
(* record that others superseded, made secret or forgot.                   *)
(***************************************************************************)
THEOREM DestinationStaysKept == Spec => DestinationKept
<1>1. TransferInv /\ [Next]_vars =>
        [\A r \in original : home /\ copies[r] = "none" => copies'[r] = "none"]_T!tvars
  BY DestinationStep, StepsOfComponents DEF tvars, T!tvars
<1>2. TransferInv /\ [Next]_vars =>
        [\A r \in T!Rows : copies[r] = "other" => copies'[r] = "other"]_T!tvars
  BY DestinationStep, StepsOfComponents DEF tvars, T!tvars
<1>3. ArchiveInv /\ [Next]_vars =>
        [\A r \in Y!Records : Y!Protected(r) /\ changes' = changes => rows'[r] = rows[r]]_Y!yvars
  BY ProtectedStep, StepsOfComponents DEF yvars, Y!yvars
<1> QED
  BY <1>1, <1>2, <1>3, TransferAlways, ArchiveAlways, PTL
     DEF Spec, DestinationKept, T!NoSecondCopy, T!DivergentKept, Y!ProtectedKept

(***************************************************************************)
(* What is recorded of progress is what was done.  Every record up to the  *)
(* checkpoint of an import is at the destination, whatever failed or was   *)
(* cut off; no cursor of an account passes a play that is not stored; and  *)
(* the ledger of migrations is what was executed, each once and in order,  *)
(* on top of the history of the checkout: for any number of requests,      *)
(* jobs, runners, checkouts and migrations.                                *)
(***************************************************************************)
THEOREM ProgressStaysTrue == Spec => []ProgressIsTrue
<1>1. TransferInv /\ P!PlayInv /\ MigrationInv => ProgressIsTrue
  BY TransferHolds, PlayFits, SamePlays, P!PlayCovered, MigrationHolds DEF ProgressIsTrue
<1> QED
  BY <1>1, TransferAlways, PlayAlways, MigrationAlways, PTL

(***************************************************************************)
(* A complete copy of the archive mirrors its snapshot in the records that *)
(* nobody else changed since the copy wrote them, and an embedding is one  *)
(* of what its row says: although receivers take over from dead ones, a    *)
(* snapshot resumes after others were copied, and the embedder reads a row *)
(* before it is replaced; for any archive whatever, and any number of      *)
(* snapshots and receivers.                                                *)
(***************************************************************************)
THEOREM CopyStaysFaithful == Spec => []CopyIsFaithful
<1>1. ArchiveInv => CopyIsFaithful
  BY ArchiveHolds DEF CopyIsFaithful
<1> QED
  BY <1>1, ArchiveAlways, PTL

(***************************************************************************)
(* The state of the seven components keeps its type: no counter leaves its *)
(* bounds, no reference its table, and no process holds what it cannot.    *)
(***************************************************************************)
THEOREM TypeCorrect == Spec => []TypeOK
<1>1. ASSUME ReflectionInv, ArchiveInv, TransferInv, QuotaInv, NameInv, P!PlayInv, DocumentInv,
             MigrationInv
      PROVE  TypeOK
  <2>1. F!TypeOK /\ Y!TypeOK /\ T!TypeOK
    BY <1>1, ReflectionHolds, ArchiveHolds, TransferHolds
  <2>2. K!TypeOK
    BY <1>1 DEF QuotaInv, NameInv, K!TypeOK
  <2>3. M!TypeOK
    BY <1>1, PlayFits, SamePlays, P!PlayCovered
  <2>4. D!TypeOK /\ G!TypeOK
    BY <1>1, DocumentHolds, MigrationHolds
  <2> QED
    BY <2>1, <2>2, <2>3, <2>4 DEF TypeOK
<1>2. ReflectionInv /\ ArchiveInv /\ TransferInv /\ QuotaInv /\ NameInv /\ P!PlayInv /\ DocumentInv
      /\ MigrationInv => TypeOK
  BY <1>1
<1> QED
  BY <1>2, ReflectionAlways, ArchiveAlways, TransferAlways, AccessAlways, PlayAlways,
     DocumentAlways, MigrationAlways, PTL

=============================================================================

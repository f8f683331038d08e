---------------------------- MODULE WebhookDelivery ----------------------------
(***************************************************************************)
(* Memory subscriptions and the webhook outbox: creation under an          *)
(* idempotency key, the enqueue trigger of an inserted memory, and the     *)
(* workers that claim a delivery, load it, resolve its host, check it      *)
(* again, post it and mark the outcome, each in a transaction of its own.  *)
(*                                                                         *)
(* Time is what it makes possible: a retry comes due and a lease of five   *)
(* minutes runs out.  A worker that is still busy with the row by then has *)
(* stalled; a process that dies loses its job.  Both count as faults.      *)
(***************************************************************************)
EXTENDS Integers, FiniteSets

CONSTANTS
  Subs,         \* subscriptions, named by owner key and idempotency key
  Mems,         \* memories, named by id
  Requests,     \* canonical requests that a create may carry
  Clients,      \* calls of agent_subscribe; each generates one signing secret
  Workers,      \* jobs that delivery processes run at a time
  None,
  MaxAttempts,  \* WEBHOOK_MAX_ATTEMPTS
  Stalls,       \* may a busy worker outlive its lease?
  MaxFaults     \* bound of the model: crashes and stalls

ASSUME NoneAssumption == None \notin Requests \cup Clients
ASSUME AttemptsAssumption == MaxAttempts \in Nat \ {0}
ASSUME FaultsAssumption == Stalls \in BOOLEAN /\ MaxFaults \in Nat

VARIABLES
  subs,      \* memory_subscriptions
  readable,  \* the subscriptions whose owner key may read; nothing changes a key's permissions
  enabled,   \* the subscriptions whose owner key is enabled
  mems,      \* what a reader may see of each memory
  matched,   \* rows the trigger has written and not yet committed
  rows,      \* webhook_deliveries
  jobs,      \* what each worker holds between its transactions
  clients,   \* calls of agent_subscribe in progress
  told,      \* history: what successful creations returned
  received,  \* history: the events that reached the receiver
  lapsed,    \* history: the deliveries that were not authorized at some time since they were announced
  stalled,   \* history: the deliveries that a busy worker kept too long
  faults     \* crashes and stalls so far

vars ==
  <<subs, readable, enabled, mems, matched, rows, jobs, clients, told, received, lapsed, stalled, faults>>

Deliveries == [sub : Subs, mem : Mems]
Of(s) == {d \in Deliveries : d.sub = s}

(***************************************************************************)
(* Rows.                                                                   *)
(***************************************************************************)
Subscription == [status : {"none", "active", "disabled"},
                 request : Requests \cup {None},
                 secret : Clients \cup {None}]

Open == {"pending", "processing", "retry"}
Terminal == {"delivered", "dead", "cancelled"}

\* due: next_attempt_at has come.  over: locked_at is older than five minutes.
Row == [status : Open \cup Terminal \cup {"absent"}, attempts : Nat, due : BOOLEAN, over : BOOLEAN]

Absent == [status |-> "absent", attempts |-> 0, due |-> FALSE, over |-> FALSE]
Enqueued == [Absent EXCEPT !.status = "pending", !.due = TRUE]

Verdicts == {"delivered", "retry", "dead", "cancelled"}

\* revoked: the subscription was disabled when the name had been resolved.
\* reached: the request got through to the receiver.
Job == [phase : {"claimed", "loaded", "resolved", "cleared", "posting"},
        id : Deliveries, attempts : Nat, revoked : BOOLEAN, reached : BOOLEAN]
Ended == [phase : {"ended"}, id : Deliveries, attempts : Nat, verdict : Verdicts]
Idle == [phase |-> "idle"]

IsIdle(w) == jobs[w] = Idle
Busy(w, d) == ~IsIdle(w) /\ jobs[w].id = d

Call == [phase : {"new", "asking", "done"}, sub : Subs \cup {None}, request : Requests \cup {None}]

\* What a load and a check ask.  They ask more than the trigger does.
Entitled(s) == subs[s].status = "active" /\ s \in enabled \cap readable
Authorized(d) == Entitled(d.sub) /\ mems[d.mem] = "shown"

Init ==
  /\ subs = [s \in Subs |-> [status |-> "none", request |-> None, secret |-> None]]
  /\ readable \in SUBSET Subs
  /\ enabled = Subs
  /\ mems = [m \in Mems |-> "none"]
  /\ matched = [m \in Mems |-> {}]
  /\ rows = [d \in Deliveries |-> Absent]
  /\ jobs = [w \in Workers |-> Idle]
  /\ clients = [c \in Clients |-> [phase |-> "new", sub |-> None, request |-> None]]
  /\ told = {}
  /\ received = {}
  /\ lapsed = {}
  /\ stalled = {}
  /\ faults = 0

(***************************************************************************)
(* agent_subscribe: look for a replay, then resolve and embed outside any  *)
(* transaction, then insert or replay.                                     *)
(***************************************************************************)
outbox == <<readable, mems, matched, rows, jobs, received, lapsed, stalled, faults>>

Tell(s, request, secret) == told' = told \cup {[sub |-> s, request |-> request, secret |-> secret]}
Done(c) == clients' = [clients EXCEPT ![c] = [phase |-> "done", sub |-> None, request |-> None]]

\* A request that differs under the same key is refused.
Replay(s, request) ==
  /\ subs[s].status # "none"
  /\ IF subs[s].request = request THEN Tell(s, request, subs[s].secret) ELSE UNCHANGED told

CreateLookup(c, s, request) ==
  /\ clients[c].phase = "new"
  /\ \/ /\ Replay(s, request)
        /\ Done(c)
     \/ /\ subs[s].status = "none"
        /\ clients' = [clients EXCEPT ![c] = [phase |-> "asking", sub |-> s, request |-> request]]
        /\ UNCHANGED told
  /\ UNCHANGED <<subs, enabled, outbox>>

\* Faulty: the loser of two concurrent creates answers with the secret it generated.
InsertOrReplayOwnSecret(c, s, request) ==
  \/ /\ subs[s].status = "none"
     /\ subs' = [subs EXCEPT ![s] = [status |-> "active", request |-> request, secret |-> c]]
     /\ Tell(s, request, c)
  \/ /\ subs[s].status # "none"
     /\ IF subs[s].request = request THEN Tell(s, request, c) ELSE UNCHANGED told
     /\ UNCHANGED subs

InsertOrReplay(c, s, request) ==
  \/ /\ subs[s].status = "none"
     /\ subs' = [subs EXCEPT ![s] = [status |-> "active", request |-> request, secret |-> c]]
     /\ Tell(s, request, c)
  \/ Replay(s, request) /\ UNCHANGED subs

\* The name does not resolve, the embedding fails or the key was disabled meanwhile.
CreateFail(c) ==
  /\ clients[c].phase = "asking"
  /\ Done(c)
  /\ UNCHANGED <<subs, enabled, told, outbox>>

CreateCommit(c) ==
  /\ clients[c].phase = "asking"
  /\ clients[c].sub \in enabled
  /\ InsertOrReplay(c, clients[c].sub, clients[c].request)
  /\ Done(c)
  /\ UNCHANGED <<enabled, outbox>>

(***************************************************************************)
(* Authorization comes and goes.  Disabling a subscription is for ever and *)
(* cancels its committed open deliveries in the same transaction.          *)
(***************************************************************************)
calls == <<readable, clients, told>>
Stored(m) == mems[m] \in {"shown", "hidden"}
Lapses(D) == lapsed' = lapsed \cup {d \in D : Stored(d.mem)}

\* Faulty: the delivery takes the status of its subscription.
CancelledAsDisabled(r) == [r EXCEPT !.status = "disabled", !.over = FALSE]

Cancelled(r) == [r EXCEPT !.status = "cancelled", !.over = FALSE]
Cancellable(s) == {d \in Of(s) : rows[d].status \in Open}

DisableSubscription(s) ==
  /\ subs[s].status # "none"
  /\ subs' = [subs EXCEPT ![s].status = "disabled"]
  /\ rows' = [d \in Deliveries |-> IF d \in Cancellable(s) THEN Cancelled(rows[d]) ELSE rows[d]]
  /\ Lapses(Of(s))
  /\ UNCHANGED <<enabled, mems, matched, jobs, calls, received, stalled, faults>>

ToggleKey(s) ==
  /\ \/ /\ s \in enabled
        /\ enabled' = enabled \ {s}
        /\ Lapses(Of(s))
     \/ /\ s \notin enabled
        /\ enabled' = enabled \cup {s}
        /\ UNCHANGED lapsed
  /\ UNCHANGED <<subs, mems, matched, rows, jobs, calls, received, stalled, faults>>

\* A memory is forgotten, superseded, folded away or expires; a restored member returns.
ToggleMemory(m) ==
  /\ \/ /\ mems[m] = "shown"
        /\ mems' = [mems EXCEPT ![m] = "hidden"]
        /\ lapsed' = lapsed \cup {d \in Deliveries : d.mem = m}
     \/ /\ mems[m] = "hidden"
        /\ mems' = [mems EXCEPT ![m] = "shown"]
        /\ UNCHANGED lapsed
  /\ UNCHANGED <<subs, enabled, matched, rows, jobs, calls, received, stalled, faults>>

(***************************************************************************)
(* The insert trigger.  It sees the subscriptions that were active when    *)
(* its statement began; its rows appear when the store commits.  It asks   *)
(* neither whether the key may read nor whether the new row is in force:   *)
(* an import may insert one that is expired, historical or of the future.  *)
(***************************************************************************)
Match(m, S) ==
  /\ mems[m] = "none"
  /\ \A s \in S : subs[s].status = "active" /\ s \in enabled
  /\ mems' = [mems EXCEPT ![m] = "storing"]
  /\ matched' = [matched EXCEPT ![m] = S]
  /\ UNCHANGED <<subs, enabled, rows, jobs, calls, received, lapsed, stalled, faults>>

Announced(m) == {d \in Deliveries : d.mem = m /\ d.sub \in matched[m]}

StoreCommit(m) ==
  /\ mems[m] = "storing"
  /\ \E seen \in {"shown", "hidden"} :
       /\ mems' = [mems EXCEPT ![m] = seen]
       /\ lapsed' = lapsed \cup {d \in Announced(m) : seen = "hidden" \/ ~Entitled(d.sub)}
  /\ matched' = [matched EXCEPT ![m] = {}]
  /\ rows' = [d \in Deliveries |-> IF d \in Announced(m) THEN Enqueued ELSE rows[d]]
  /\ UNCHANGED <<subs, enabled, jobs, calls, received, stalled, faults>>

(***************************************************************************)
(* A worker.  Every transaction on a row is guarded by its status alone.   *)
(***************************************************************************)
tables == <<subs, enabled, mems, matched, calls, lapsed>>

\* Faulty: rows that are being processed are never taken over.
ClaimableOnce(d) == rows[d].status \in {"pending", "retry"} /\ rows[d].due

Claimable(d) ==
  \/ rows[d].status \in {"pending", "retry"} /\ rows[d].due
  \/ rows[d].status = "processing" /\ rows[d].over

Claim(w, d) ==
  /\ IsIdle(w)
  /\ Claimable(d)
  /\ rows' = [rows EXCEPT
                  ![d] = [rows[d] EXCEPT
                    !.status = "processing", !.attempts = @ + 1, !.over = FALSE]]
  /\ jobs' = [jobs EXCEPT ![w] = [phase |-> "claimed", id |-> d, attempts |-> rows[d].attempts + 1,
                                  revoked |-> FALSE, reached |-> FALSE]]
  /\ UNCHANGED <<tables, received, stalled, faults>>

Moves(w, phase) == jobs' = [jobs EXCEPT ![w].phase = phase]
Ends(w, verdict) ==
  jobs' = [jobs EXCEPT ![w] = [phase |-> "ended", id |-> @.id, attempts |-> @.attempts, verdict |-> verdict]]

RetryOrDead(w) == IF jobs[w].attempts < MaxAttempts THEN "retry" ELSE "dead"

Loadable(d) == rows[d].status = "processing" /\ Authorized(d)

Load(w) ==
  /\ jobs[w].phase = "claimed"
  /\ IF Loadable(jobs[w].id) THEN Moves(w, "loaded") ELSE Ends(w, "cancelled")
  /\ UNCHANGED <<tables, rows, received, stalled, faults>>

\* Decryption fails, the name does not resolve, or it resolves to a blocked address.
Prepare(w) ==
  /\ jobs[w].phase = "loaded"
  /\ \/ jobs' = [jobs EXCEPT
                     ![w] = [@ EXCEPT
                       !.phase = "resolved",
                       !.revoked = subs[jobs[w].id.sub].status = "disabled"]]
     \/ \E verdict \in {RetryOrDead(w), "dead"} : Ends(w, verdict)
  /\ UNCHANGED <<tables, rows, received, stalled, faults>>

\* Faulty: the delivery is posted on the authorization it was loaded with.
RecheckSkipped(w) ==
  /\ jobs[w].phase = "resolved"
  /\ Moves(w, "cleared")
  /\ UNCHANGED <<tables, rows, received, stalled, faults>>

Recheck(w) ==
  /\ jobs[w].phase = "resolved"
  /\ IF Loadable(jobs[w].id) THEN Moves(w, "cleared") ELSE Ends(w, "cancelled")
  /\ UNCHANGED <<tables, rows, received, stalled, faults>>

Post(w) ==
  /\ jobs[w].phase = "cleared"
  /\ Moves(w, "posting")
  /\ UNCHANGED <<tables, rows, received, stalled, faults>>

Receive(w) ==
  /\ jobs[w].phase = "posting"
  /\ ~jobs[w].reached
  /\ jobs' = [jobs EXCEPT ![w].reached = TRUE]
  /\ received' = received \cup {jobs[w].id}
  /\ UNCHANGED <<tables, rows, stalled, faults>>

\* A success needs a receiver that answered; a timeout, an abort, a broken
\* connection, a 5xx, a redirect or a refusal may follow a receipt or not.
Answer(w) ==
  /\ jobs[w].phase = "posting"
  /\ \E verdict \in {RetryOrDead(w), "dead", "delivered"} :
       (verdict = "delivered" => jobs[w].reached) /\ Ends(w, verdict)
  /\ UNCHANGED <<tables, rows, received, stalled, faults>>

\* Faulty: an outcome is written whatever became of the row.
MarkedAnyhow(r, verdict) == [r EXCEPT !.status = verdict, !.due = FALSE, !.over = FALSE]

Marked(r, verdict) ==
  IF r.status = "processing" THEN [r EXCEPT !.status = verdict, !.due = FALSE, !.over = FALSE] ELSE r

Mark(w) ==
  /\ jobs[w].phase = "ended"
  /\ rows' = [rows EXCEPT ![jobs[w].id] = Marked(@, jobs[w].verdict)]
  /\ jobs' = [jobs EXCEPT ![w] = Idle]
  /\ UNCHANGED <<tables, received, stalled, faults>>

(***************************************************************************)
(* Faults and time.                                                        *)
(***************************************************************************)
\* Time passes for row d: no worker is busy with it, or the one that is has stalled.
Elapses(d) ==
  \/ /\ ~\E w \in Workers : Busy(w, d)
     /\ UNCHANGED <<stalled, faults>>
  \/ /\ \E w \in Workers : Busy(w, d)
     /\ Stalls
     /\ faults < MaxFaults
     /\ faults' = faults + 1
     /\ stalled' = stalled \cup {d}

Crash(w) ==
  /\ ~IsIdle(w)
  /\ faults < MaxFaults
  /\ faults' = faults + 1
  /\ jobs' = [jobs EXCEPT ![w] = Idle]
  /\ UNCHANGED <<tables, rows, received, stalled>>

ComesDue(d) ==
  /\ rows[d].status = "retry"
  /\ ~rows[d].due
  /\ Elapses(d)
  /\ rows' = [rows EXCEPT ![d].due = TRUE]
  /\ UNCHANGED <<tables, jobs, received>>

LeaseEnds(d) ==
  /\ rows[d].status = "processing"
  /\ ~rows[d].over
  /\ Elapses(d)
  /\ rows' = [rows EXCEPT ![d].over = TRUE]
  /\ UNCHANGED <<tables, jobs, received>>

Step(w) == Load(w) \/ Prepare(w) \/ Recheck(w) \/ Post(w) \/ Answer(w) \/ Mark(w)

Next ==
  \/ \E c \in Clients :
       \/ \E s \in Subs, request \in Requests : CreateLookup(c, s, request)
       \/ CreateFail(c)
       \/ CreateCommit(c)
  \/ \E s \in Subs : DisableSubscription(s) \/ ToggleKey(s)
  \/ \E m \in Mems :
       \/ ToggleMemory(m)
       \/ \E S \in SUBSET Subs : Match(m, S)
       \/ StoreCommit(m)
  \/ \E w \in Workers :
       \/ \E d \in Deliveries : Claim(w, d)
       \/ Step(w)
       \/ Receive(w)
       \/ Crash(w)
  \/ \E d \in Deliveries : ComesDue(d) \/ LeaseEnds(d)

Spec == Init /\ [][Next]_vars

\* A running worker polls, every call it makes has a deadline, and time passes.
Fairness ==
  /\ WF_vars(\E w \in Workers, d \in Deliveries : Claim(w, d))
  /\ \A w \in Workers : WF_vars(Step(w))
  /\ \A d \in Deliveries : WF_vars(ComesDue(d)) /\ WF_vars(LeaseEnds(d))

LiveSpec == Spec /\ Fairness

(***************************************************************************)
(* Properties.                                                             *)
(***************************************************************************)

\* Every row, job and call has the shape its table or its type gives it.
TypeOK ==
  /\ subs \in [Subs -> Subscription]
  /\ readable \subseteq Subs
  /\ enabled \subseteq Subs
  /\ mems \in [Mems -> {"none", "storing", "shown", "hidden"}]
  /\ matched \in [Mems -> SUBSET Subs]
  /\ rows \in [Deliveries -> Row]
  /\ jobs \in [Workers -> Job \cup Ended \cup {Idle}]
  /\ clients \in [Clients -> Call]
  /\ told \subseteq [sub : Subs, request : Requests, secret : Clients]
  /\ received \subseteq Deliveries
  /\ lapsed \subseteq Deliveries
  /\ stalled \subseteq Deliveries
  /\ faults \in Nat

\* Whoever was told a signing secret for a request was told the one that
\* signs its events, however many creates raced or lost their answer.
SecretToldSigns ==
  \A t \in told : subs[t.sub].secret = t.secret /\ subs[t.sub].request = t.request

\* An unsubscribe that was committed before the name had been resolved wins:
\* no request is sent for that delivery.
RevocationBeforeConnectWins ==
  \A w \in Workers : jobs[w].phase \in {"cleared", "posting"} => ~jobs[w].revoked

\* As long as workers run, every delivery comes to an end.
EveryDeliveryEnds ==
  \A d \in Deliveries : rows[d].status \in Open ~> rows[d].status \in Terminal

Promise == INSTANCE NotificationPromise WITH
  state <- [d \in Deliveries |-> IF rows[d].status \in Open THEN "open" ELSE rows[d].status],
  reached <- received,
  lapsed <- lapsed \cup stalled

\* Every step of a worker, a client or an owner keeps the promise of the outbox: what
\* is withdrawn was at some time since its announcement, the announcement included,
\* not authorized, if a worker that outlives its lease is taken for a revocation.
ImplementsPromise == Promise!PromiseSpec

\* docs/subscriptions.md: delivery is at least once.  What was authorized all the
\* time is not cancelled before it reached the receiver.
NeverCancelledUnrevoked ==
  \A d \in Deliveries : rows[d].status = "cancelled" => d \in lapsed \cup received
=============================================================================

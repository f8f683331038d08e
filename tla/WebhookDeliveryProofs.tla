------------------------- MODULE WebhookDeliveryProofs -------------------------
(***************************************************************************)
(* Theorems about WebhookDelivery, for every value of its constants.       *)
(***************************************************************************)
EXTENDS WebhookDelivery, TLAPS

(***************************************************************************)
(* Jobs: what a worker may hold, and how its steps change it.              *)
(***************************************************************************)
AnyJob == Job \cup Ended \cup {Idle}

LEMMA JobKinds ==
  ASSUME NEW j \in AnyJob
  PROVE  /\ j.phase = "idle" <=> j = Idle
         /\ j.phase = "ended" <=> j \in Ended
         /\ j.phase \notin {"idle", "ended"} <=> j \in Job
         /\ j # Idle => j.id \in Deliveries /\ j.attempts \in Nat
BY DEF AnyJob, Job, Ended, Idle

LEMMA JobOf ==
  ASSUME TypeOK, NEW w \in Workers
  PROVE  jobs[w] \in AnyJob
BY DEF TypeOK, AnyJob

\* A step of one worker leaves the others alone.
LEMMA OneJob ==
  ASSUME TypeOK, NEW w \in Workers, NEW j \in AnyJob, jobs' = [jobs EXCEPT ![w] = j]
  PROVE  /\ jobs' \in [Workers -> AnyJob]
         /\ jobs'[w] = j
         /\ \A v \in Workers \ {w} : jobs'[v] = jobs[v]
BY DEF TypeOK, AnyJob

LEMMA MovesSteps ==
  ASSUME TypeOK, NEW w \in Workers, jobs[w].phase \notin {"idle", "ended"},
         NEW phase \in {"claimed", "loaded", "resolved", "cleared", "posting"},
         Moves(w, phase)
  PROVE  /\ jobs' \in [Workers -> AnyJob]
         /\ jobs'[w] = [jobs[w] EXCEPT !.phase = phase]
         /\ jobs'[w] \in Job /\ jobs'[w].phase = phase
         /\ jobs'[w].id = jobs[w].id
         /\ jobs'[w].revoked = jobs[w].revoked /\ jobs'[w].reached = jobs[w].reached
         /\ \A v \in Workers \ {w} : jobs'[v] = jobs[v]
<1>1. jobs[w] \in Job
  BY JobKinds, JobOf
<1>2. PICK j \in Job : j = [jobs[w] EXCEPT !.phase = phase]
  BY <1>1 DEF Job
<1>3. jobs' = [jobs EXCEPT ![w] = j]
  BY <1>2 DEF Moves
<1>4. j \in AnyJob
  BY DEF AnyJob
<1>5. j.phase = phase /\ j.id = jobs[w].id /\ j.revoked = jobs[w].revoked /\ j.reached = jobs[w].reached
  BY <1>1, <1>2 DEF Job
<1> QED
  BY <1>2, <1>3, <1>4, <1>5, OneJob

LEMMA EndsSteps ==
  ASSUME TypeOK, NEW w \in Workers, jobs[w].phase \notin {"idle", "ended"},
         NEW verdict \in Verdicts, Ends(w, verdict)
  PROVE  /\ jobs' \in [Workers -> AnyJob]
         /\ jobs'[w] \in Ended /\ jobs'[w].phase = "ended"
         /\ jobs'[w].id = jobs[w].id /\ jobs'[w].verdict = verdict
         /\ \A v \in Workers \ {w} : jobs'[v] = jobs[v]
<1>1. jobs[w] \in Job
  BY JobKinds, JobOf
<1>2. PICK j \in Ended : j = [phase |-> "ended", id |-> jobs[w].id, attempts |-> jobs[w].attempts,
                              verdict |-> verdict]
  BY <1>1 DEF Job, Ended
<1>3. jobs' = [jobs EXCEPT ![w] = j]
  BY <1>2 DEF Ends
<1>4. j \in AnyJob
  BY DEF AnyJob
<1> QED
  BY <1>2, <1>3, <1>4, OneJob

LEMMA RestSteps ==
  ASSUME TypeOK, NEW w \in Workers, jobs' = [jobs EXCEPT ![w] = Idle]
  PROVE  /\ jobs' \in [Workers -> AnyJob]
         /\ jobs'[w] = Idle
         /\ \A v \in Workers \ {w} : jobs'[v] = jobs[v]
BY OneJob DEF AnyJob

\* Every step of a worker between its claim and its mark, in one form: the
\* job stays with its delivery, and moves on or ends.
WorksOn(w) ==
  /\ jobs' \in [Workers -> AnyJob]
  /\ jobs[w].phase \notin {"idle", "ended"}
  /\ jobs'[w] # Idle
  /\ jobs'[w].id = jobs[w].id
  /\ \A v \in Workers \ {w} : jobs'[v] = jobs[v]

Working(w) == Load(w) \/ Prepare(w) \/ Recheck(w) \/ Post(w) \/ Receive(w) \/ Answer(w)

LEMMA VerdictTypes ==
  /\ \A w \in Workers : RetryOrDead(w) \in {"retry", "dead"}
  /\ {"retry", "dead", "delivered", "cancelled"} \subseteq Verdicts
BY DEF RetryOrDead, Verdicts

LEMMA PrepareMoves ==
  ASSUME TypeOK, NEW w \in Workers, jobs[w].phase = "loaded",
         jobs' = [jobs EXCEPT
                      ![w] = [@ EXCEPT
                        !.phase = "resolved",
                        !.revoked = subs[jobs[w].id.sub].status = "disabled"]]
  PROVE  /\ jobs' \in [Workers -> AnyJob]
         /\ jobs'[w] \in Job /\ jobs'[w].phase = "resolved"
         /\ jobs'[w].id = jobs[w].id /\ jobs'[w].reached = jobs[w].reached
         /\ jobs'[w].revoked = (subs[jobs[w].id.sub].status = "disabled")
         /\ \A v \in Workers \ {w} : jobs'[v] = jobs[v]
<1>1. jobs[w] \in Job
  BY JobKinds, JobOf
<1>2. PICK b \in BOOLEAN : b = (subs[jobs[w].id.sub].status = "disabled")
  OBVIOUS
<1>3. PICK j \in Job : j = [jobs[w] EXCEPT !.phase = "resolved", !.revoked = b]
  BY <1>1 DEF Job
<1>4. jobs' = [jobs EXCEPT ![w] = j]
  BY <1>2, <1>3
<1>5. j \in AnyJob
  BY DEF AnyJob
<1>6. j.phase = "resolved" /\ j.id = jobs[w].id /\ j.reached = jobs[w].reached /\ j.revoked = b
  BY <1>1, <1>3 DEF Job
<1> QED
  BY <1>2, <1>4, <1>5, <1>6, OneJob

LEMMA ReceiveSteps ==
  ASSUME TypeOK, NEW w \in Workers, Receive(w)
  PROVE  /\ jobs' \in [Workers -> AnyJob]
         /\ jobs'[w] \in Job /\ jobs'[w].phase = "posting"
         /\ jobs'[w].id = jobs[w].id /\ jobs'[w].revoked = jobs[w].revoked
         /\ \A v \in Workers \ {w} : jobs'[v] = jobs[v]
<1>1. jobs[w] \in Job
  BY JobKinds, JobOf DEF Receive
<1>2. PICK j \in Job : j = [jobs[w] EXCEPT !.reached = TRUE]
  BY <1>1 DEF Job
<1>3. jobs' = [jobs EXCEPT ![w] = j]
  BY <1>2 DEF Receive
<1>4. j \in AnyJob
  BY DEF AnyJob
<1>5. j.phase = jobs[w].phase /\ j.id = jobs[w].id /\ j.revoked = jobs[w].revoked
  BY <1>1, <1>2 DEF Job
<1> QED
  BY <1>3, <1>4, <1>5, OneJob DEF Receive

LEMMA WorkingSteps ==
  ASSUME TypeOK, NEW w \in Workers, Working(w)
  PROVE  WorksOn(w)
<1>1. jobs[w].phase \notin {"idle", "ended"}
  BY DEF Working, Load, Prepare, Recheck, Post, Receive, Answer
<1>2. \A j \in Job \cup Ended : j # Idle
  BY DEF Job, Ended, Idle
<1>3. CASE \E verdict \in Verdicts : Ends(w, verdict)
  BY <1>1, <1>2, <1>3, EndsSteps DEF WorksOn
<1>4. CASE Moves(w, "loaded") \/ Moves(w, "cleared") \/ Moves(w, "posting")
  BY <1>1, <1>2, <1>4, MovesSteps DEF WorksOn
<1>5. CASE Prepare(w)
  BY <1>1, <1>2, <1>3, <1>5, PrepareMoves, VerdictTypes DEF Prepare, WorksOn
<1>6. CASE Receive(w)
  BY <1>1, <1>2, <1>6, ReceiveSteps DEF WorksOn
<1>7. CASE Answer(w)
  BY <1>3, <1>7, VerdictTypes DEF Answer
<1> QED
  BY <1>3, <1>4, <1>5, <1>6, <1>7, VerdictTypes DEF Working, Load, Recheck, Post

(***************************************************************************)
(* Type correctness.  A call that asks carries a key and a request, and a  *)
(* subscription that exists has a request and a secret.                    *)
(***************************************************************************)
KeysTyped ==
  \A s \in Subs :
    subs[s].status # "none" => subs[s].request \in Requests /\ subs[s].secret \in Clients

CallsTyped ==
  \A c \in Clients :
    clients[c].phase = "asking" => clients[c].sub \in Subs /\ clients[c].request \in Requests

Typed == TypeOK /\ KeysTyped /\ CallsTyped

ToldType == [sub : Subs, request : Requests, secret : Clients]

LEMMA RowTypes ==
  /\ Absent \in Row /\ Enqueued \in Row
  /\ Enqueued.status = "pending" /\ ~Enqueued.over
BY DEF Absent, Enqueued, Row, Open, Terminal

\* A step of one row leaves the others alone.
LEMMA OneRow ==
  ASSUME TypeOK, NEW d \in Deliveries, NEW r \in Row, rows' = [rows EXCEPT ![d] = r]
  PROVE  /\ rows' \in [Deliveries -> Row]
         /\ rows'[d] = r
         /\ \A e \in Deliveries \ {d} : rows'[e] = rows[e]
BY DEF TypeOK

LEMMA RowEdits ==
  ASSUME NEW r \in Row
  PROVE  /\ r.status \in Open \cup Terminal \cup {"absent"} /\ r.attempts \in Nat
         /\ [r EXCEPT !.due = TRUE] \in Row
         /\ [r EXCEPT !.over = TRUE] \in Row
         /\ \A verdict \in Verdicts :
              /\ [r EXCEPT !.status = verdict, !.due = FALSE, !.over = FALSE] \in Row
              /\ [r EXCEPT !.status = verdict, !.due = FALSE, !.over = FALSE].status = verdict
              /\ ~[r EXCEPT !.status = verdict, !.due = FALSE, !.over = FALSE].over
BY DEF Row, Verdicts, Open, Terminal

LEMMA ClaimSteps ==
  ASSUME TypeOK, NEW w \in Workers, NEW d \in Deliveries, Claim(w, d)
  PROVE  /\ rows' \in [Deliveries -> Row]
         /\ rows'[d].status = "processing" /\ ~rows'[d].over
         /\ \A e \in Deliveries \ {d} : rows'[e] = rows[e]
         /\ jobs' \in [Workers -> AnyJob]
         /\ jobs'[w] \in Job /\ jobs'[w].phase = "claimed" /\ jobs'[w].id = d
         /\ ~jobs'[w].reached
         /\ \A v \in Workers \ {w} : jobs'[v] = jobs[v]
<1>1. rows[d] \in Row /\ rows[d].attempts + 1 \in Nat
  BY DEF TypeOK, Row
<1>2. PICK n \in Nat : n = rows[d].attempts + 1
  BY <1>1
<1>3. PICK r \in Row : r = [rows[d] EXCEPT !.status = "processing", !.attempts = n, !.over = FALSE]
  BY <1>1 DEF Row, Open
<1>4. rows' = [rows EXCEPT ![d] = r]
  <2>1. rows' = [rows EXCEPT
                     ![d] = [rows[d] EXCEPT
                       !.status = "processing", !.attempts = @ + 1, !.over = FALSE]]
    BY DEF Claim
  <2>2. r = [rows[d] EXCEPT
               !.status = "processing", !.attempts = rows[d].attempts + 1, !.over = FALSE]
    BY <1>2, <1>3
  <2> QED
    BY ONLY <2>1, <2>2
<1>5. r.status = "processing" /\ ~r.over
  BY <1>1, <1>3 DEF Row
<1>6. PICK j \in Job : j = [phase |-> "claimed", id |-> d, attempts |-> n,
                           revoked |-> FALSE, reached |-> FALSE]
  BY DEF Job
<1>7. jobs' = [jobs EXCEPT ![w] = j]
  BY <1>2, <1>6 DEF Claim
<1>8. j \in AnyJob
  BY DEF AnyJob
<1>9. /\ jobs' \in [Workers -> AnyJob] /\ jobs'[w] = j
      /\ \A v \in Workers \ {w} : jobs'[v] = jobs[v]
  BY <1>7, <1>8, OneJob
<1>10. j.phase = "claimed" /\ j.id = d /\ ~j.reached
  BY <1>6
<1>11. /\ rows' \in [Deliveries -> Row] /\ rows'[d] = r
       /\ \A e \in Deliveries \ {d} : rows'[e] = rows[e]
  BY <1>4, OneRow
<1> QED
  BY <1>5, <1>9, <1>10, <1>11

\* The row that w marks, and its job.
LEMMA MarkSteps ==
  ASSUME TypeOK, NEW w \in Workers, Mark(w)
  PROVE  /\ jobs[w] \in Ended
         /\ rows' \in [Deliveries -> Row]
         /\ IF rows[jobs[w].id].status = "processing"
            THEN rows'[jobs[w].id].status = jobs[w].verdict /\ ~rows'[jobs[w].id].over
            ELSE rows'[jobs[w].id] = rows[jobs[w].id]
         /\ \A e \in Deliveries \ {jobs[w].id} : rows'[e] = rows[e]
<1>1. jobs[w] \in Ended
  BY JobOf, JobKinds DEF Mark
<1>2. PICK d \in Deliveries : d = jobs[w].id
  BY <1>1 DEF Ended
<1>3. PICK verdict \in Verdicts : verdict = jobs[w].verdict
  BY <1>1 DEF Ended
<1>4. rows[d] \in Row
  BY DEF TypeOK
<1>5. PICK r \in Row : r = Marked(rows[d], verdict)
  BY <1>4, RowEdits DEF Marked
<1>6. rows' = [rows EXCEPT ![d] = r]
  BY <1>2, <1>3, <1>5 DEF Mark
<1>7. IF rows[d].status = "processing" THEN r.status = verdict /\ ~r.over ELSE r = rows[d]
  BY <1>4, <1>5, RowEdits DEF Marked
<1> QED
  BY <1>1, <1>2, <1>3, <1>6, <1>7, OneRow

\* Time changes no status.
LEMMA TimeSteps ==
  ASSUME TypeOK, NEW d \in Deliveries, ComesDue(d) \/ LeaseEnds(d)
  PROVE  /\ rows' \in [Deliveries -> Row]
         /\ rows'[d].status = rows[d].status
         /\ ComesDue(d) => rows'[d].over = rows[d].over
         /\ \A e \in Deliveries \ {d} : rows'[e] = rows[e]
<1>1. rows[d] \in Row
  BY DEF TypeOK
<1>2. CASE ComesDue(d)
  <2>1. PICK r \in Row : r = [rows[d] EXCEPT !.due = TRUE]
    BY <1>1, RowEdits
  <2>2. rows' = [rows EXCEPT ![d] = r]
    BY <1>2, <2>1 DEF ComesDue
  <2>3. r.status = rows[d].status /\ r.over = rows[d].over
    BY <1>1, <2>1 DEF Row
  <2> QED
    BY <2>2, <2>3, OneRow
<1>3. CASE LeaseEnds(d)
  <2>1. PICK r \in Row : r = [rows[d] EXCEPT !.over = TRUE]
    BY <1>1, RowEdits
  <2>2. rows' = [rows EXCEPT ![d] = r]
    BY <1>3, <2>1 DEF LeaseEnds
  <2>3. r.status = rows[d].status
    BY <1>1, <2>1 DEF Row
  <2>4. ~ComesDue(d)
    BY <1>3 DEF ComesDue, LeaseEnds
  <2> QED
    BY <2>2, <2>3, <2>4, OneRow
<1> QED
  BY <1>2, <1>3

LEMMA InitTyped == Init => Typed
<1> SUFFICES ASSUME Init PROVE Typed
  OBVIOUS
<1>1. rows \in [Deliveries -> Row]
  BY RowTypes DEF Init
<1>2. subs \in [Subs -> Subscription] /\ KeysTyped
  BY DEF Init, Subscription, KeysTyped
<1>3. clients \in [Clients -> Call] /\ CallsTyped
  BY DEF Init, Call, CallsTyped
<1> QED
  BY <1>1, <1>2, <1>3 DEF Init, Typed, TypeOK

LEMMA DoneTyped ==
  ASSUME Typed, NEW c \in Clients, Done(c)
  PROVE  clients' \in [Clients -> Call] /\ CallsTyped'
<1>1. PICK call \in Call : call = [phase |-> "done", sub |-> None, request |-> None]
  BY DEF Call
<1>2. clients' = [clients EXCEPT ![c] = call]
  BY <1>1 DEF Done
<1>3. clients' \in [Clients -> Call]
  BY <1>2 DEF Typed, TypeOK
<1>4. \A d \in Clients : clients'[d].phase = "asking" => clients'[d] = clients[d]
  BY <1>1, <1>2 DEF Typed, TypeOK
<1> QED
  BY <1>3, <1>4 DEF CallsTyped, Typed

LEMMA TellTyped ==
  ASSUME Typed, NEW s \in Subs, NEW request \in Requests, NEW secret \in Clients,
         Tell(s, request, secret)
  PROVE  told' \subseteq ToldType
BY DEF Tell, Typed, TypeOK, ToldType

LEMMA ReplayTyped ==
  ASSUME Typed, NEW s \in Subs, NEW request \in Requests, Replay(s, request)
  PROVE  told' \subseteq ToldType
<1>1. CASE Tell(s, request, subs[s].secret)
  BY <1>1, TellTyped DEF Replay, Typed, KeysTyped
<1> QED
  BY <1>1 DEF Replay, Typed, TypeOK, ToldType

LEMMA InsertTyped ==
  ASSUME Typed, NEW c \in Clients, NEW s \in Subs, NEW request \in Requests,
         InsertOrReplay(c, s, request)
  PROVE  told' \subseteq ToldType /\ subs' \in [Subs -> Subscription] /\ KeysTyped'
<1>1. CASE Replay(s, request) /\ UNCHANGED subs
  BY <1>1, ReplayTyped DEF Typed, TypeOK, KeysTyped
<1>2. CASE /\ subs' = [subs EXCEPT ![s] = [status |-> "active", request |-> request, secret |-> c]]
           /\ Tell(s, request, c)
  <2>1. PICK new \in Subscription : new = [status |-> "active", request |-> request, secret |-> c]
    BY DEF Subscription
  <2>2. subs' = [subs EXCEPT ![s] = new]
    BY <1>2, <2>1
  <2>3. subs' \in [Subs -> Subscription]
    BY <2>2 DEF Typed, TypeOK
  <2>4. KeysTyped'
    <3>1. \A t \in Subs : subs'[t] = IF t = s THEN new ELSE subs[t]
      BY <2>2 DEF Typed, TypeOK
    <3> QED
      BY <2>1, <3>1 DEF KeysTyped, Typed
  <2> QED
    BY <1>2, <2>3, <2>4, TellTyped
<1> QED
  BY <1>1, <1>2 DEF InsertOrReplay

LEMMA ClientsTyped ==
  ASSUME Typed, NEW c \in Clients,
         \/ \E s \in Subs, request \in Requests : CreateLookup(c, s, request)
         \/ CreateFail(c) \/ CreateCommit(c)
  PROVE  Typed'
<1>1. CASE CreateFail(c)
  BY <1>1, DoneTyped DEF CreateFail, outbox, Typed, TypeOK, KeysTyped
<1>2. CASE CreateCommit(c)
  <2>1. clients[c].sub \in Subs /\ clients[c].request \in Requests
    BY <1>2 DEF CreateCommit, Typed, CallsTyped
  <2>2. told' \subseteq ToldType /\ subs' \in [Subs -> Subscription] /\ KeysTyped'
    BY <1>2, <2>1, InsertTyped DEF CreateCommit
  <2> QED
    BY <1>2, <2>2, DoneTyped DEF CreateCommit, outbox, Typed, TypeOK, ToldType
<1>3. ASSUME NEW s \in Subs, NEW request \in Requests, CreateLookup(c, s, request)
      PROVE  Typed'
  <2>1. CASE Replay(s, request) /\ Done(c)
    BY <1>3, <2>1, ReplayTyped, DoneTyped DEF CreateLookup, outbox, Typed, TypeOK, ToldType, KeysTyped
  <2>2. CASE /\ clients' = [clients EXCEPT ![c] = [phase |-> "asking", sub |-> s, request |-> request]]
             /\ UNCHANGED told
    <3>1. PICK call \in Call : call = [phase |-> "asking", sub |-> s, request |-> request]
      BY DEF Call
    <3>2. clients' = [clients EXCEPT ![c] = call]
      BY <2>2, <3>1
    <3>3. clients' \in [Clients -> Call]
      BY <3>2 DEF Typed, TypeOK
    <3>4. \A d \in Clients : clients'[d] = IF d = c THEN call ELSE clients[d]
      BY <3>2 DEF Typed, TypeOK
    <3>5. CallsTyped'
      BY <3>1, <3>4 DEF CallsTyped, Typed
    <3> QED
      BY <1>3, <2>2, <3>3, <3>5 DEF CreateLookup, outbox, Typed, TypeOK, KeysTyped
  <2> QED
    BY <1>3, <2>1, <2>2 DEF CreateLookup
<1> QED
  BY <1>1, <1>2, <1>3

LEMMA OwnersTyped ==
  ASSUME Typed, NEW s \in Subs, DisableSubscription(s) \/ ToggleKey(s)
  PROVE  Typed'
<1>1. CASE ToggleKey(s)
  <2>1. enabled' \subseteq Subs /\ lapsed' \subseteq Deliveries
    BY <1>1 DEF ToggleKey, Lapses, Of, Typed, TypeOK
  <2> QED
    BY <1>1, <2>1 DEF ToggleKey, calls, Typed, TypeOK, KeysTyped, CallsTyped
<1>2. CASE DisableSubscription(s)
  <2>1. PICK sub \in Subscription : sub = [subs[s] EXCEPT !.status = "disabled"]
    BY DEF Typed, TypeOK, Subscription
  <2>2. subs' = [subs EXCEPT ![s] = sub]
    BY <1>2, <2>1 DEF DisableSubscription
  <2>3. subs' \in [Subs -> Subscription]
    BY <2>2 DEF Typed, TypeOK
  <2>4. sub.request = subs[s].request /\ sub.secret = subs[s].secret
    BY <2>1 DEF Typed, TypeOK, Subscription
  <2>5. \A t \in Subs : subs'[t] = IF t = s THEN sub ELSE subs[t]
    BY <2>2 DEF Typed, TypeOK
  <2>6. KeysTyped'
    BY <1>2, <2>4, <2>5 DEF DisableSubscription, KeysTyped, Typed
  <2>7. \A d \in Deliveries : Cancelled(rows[d]) \in Row
    BY DEF Cancelled, Row, Terminal, Typed, TypeOK
  <2>8. rows' \in [Deliveries -> Row]
    BY <1>2, <2>7 DEF DisableSubscription, Typed, TypeOK
  <2>9. lapsed' \subseteq Deliveries
    BY <1>2 DEF DisableSubscription, Lapses, Of, Typed, TypeOK
  <2> QED
    BY <1>2, <2>3, <2>6, <2>8, <2>9 DEF DisableSubscription, calls, Typed, TypeOK, CallsTyped
<1> QED
  BY <1>1, <1>2

LEMMA MemoriesTyped ==
  ASSUME Typed, NEW m \in Mems, ToggleMemory(m) \/ (\E S \in SUBSET Subs : Match(m, S)) \/ StoreCommit(m)
  PROVE  Typed'
<1>1. CASE ToggleMemory(m)
  <2>1. mems' \in [Mems -> {"none", "storing", "shown", "hidden"}] /\ lapsed' \subseteq Deliveries
    BY <1>1 DEF ToggleMemory, Typed, TypeOK
  <2> QED
    BY <1>1, <2>1 DEF ToggleMemory, calls, Typed, TypeOK, KeysTyped, CallsTyped
<1>2. CASE \E S \in SUBSET Subs : Match(m, S)
  <2>1. mems' \in [Mems -> {"none", "storing", "shown", "hidden"}] /\ matched' \in [Mems -> SUBSET Subs]
    BY <1>2 DEF Match, Typed, TypeOK
  <2> QED
    BY <1>2, <2>1 DEF Match, calls, Typed, TypeOK, KeysTyped, CallsTyped
<1>3. CASE StoreCommit(m)
  <2>1. mems' \in [Mems -> {"none", "storing", "shown", "hidden"}] /\ matched' \in [Mems -> SUBSET Subs]
    BY <1>3 DEF StoreCommit, Typed, TypeOK
  <2>2. rows' \in [Deliveries -> Row]
    BY <1>3, RowTypes DEF StoreCommit, Typed, TypeOK
  <2>3. lapsed' \subseteq Deliveries
    BY <1>3 DEF StoreCommit, Announced, Typed, TypeOK
  <2> QED
    BY <1>3, <2>1, <2>2, <2>3 DEF StoreCommit, calls, Typed, TypeOK, KeysTyped, CallsTyped
<1> QED
  BY <1>1, <1>2, <1>3

\* The rows and the received events after a step of a worker.
LEMMA WorkersTyped ==
  ASSUME Typed, NEW w \in Workers, Working(w) \/ Mark(w) \/ Crash(w) \/ \E d \in Deliveries : Claim(w, d)
  PROVE  Typed'
<1>1. UNCHANGED <<tables, stalled>>
  BY DEF Working, Load, Prepare, Recheck, Post, Receive, Answer, Mark, Crash, Claim
<1>2. /\ jobs' \in [Workers -> AnyJob]
      /\ rows' \in [Deliveries -> Row]
      /\ received' \subseteq Deliveries
      /\ faults' \in Nat
  <2>1. CASE Working(w)
    <3>1. jobs' \in [Workers -> AnyJob] /\ jobs[w].id \in Deliveries
      BY <2>1, WorkingSteps, JobOf, JobKinds DEF WorksOn, Typed
    <3>2. rows' = rows /\ faults' = faults /\ received' \subseteq received \cup {jobs[w].id}
      BY <2>1 DEF Working, Load, Prepare, Recheck, Post, Receive, Answer
    <3> QED
      BY <3>1, <3>2 DEF Typed, TypeOK
  <2>2. CASE Mark(w)
    BY <2>2, MarkSteps, RestSteps DEF Mark, Typed, TypeOK
  <2>3. CASE Crash(w)
    <3>1. faults' \in Nat
      BY <2>3 DEF Crash, Typed, TypeOK
    <3>2. jobs' \in [Workers -> AnyJob]
      BY <2>3, RestSteps DEF Crash, Typed
    <3> QED
      BY <2>3, <3>1, <3>2 DEF Crash, Typed, TypeOK
  <2>4. CASE \E d \in Deliveries : Claim(w, d)
    BY <2>4, ClaimSteps DEF Claim, Typed, TypeOK
  <2> QED
    BY <2>1, <2>2, <2>3, <2>4
<1> QED
  BY <1>1, <1>2 DEF tables, calls, AnyJob, Typed, TypeOK, KeysTyped, CallsTyped

LEMMA TimeTyped ==
  ASSUME Typed, NEW d \in Deliveries, ComesDue(d) \/ LeaseEnds(d)
  PROVE  Typed'
<1>1. stalled' \subseteq Deliveries /\ faults' \in Nat
  BY DEF ComesDue, LeaseEnds, Elapses, Typed, TypeOK
<1>2. rows' \in [Deliveries -> Row]
  BY TimeSteps DEF Typed
<1> QED
  BY <1>1, <1>2 DEF ComesDue, LeaseEnds, tables, calls, Typed, TypeOK, KeysTyped, CallsTyped

LEMMA NextTyped == Typed /\ [Next]_vars => Typed'
<1> SUFFICES ASSUME Typed, [Next]_vars PROVE Typed'
  OBVIOUS
<1>1. CASE UNCHANGED vars
  BY <1>1 DEF vars, Typed, TypeOK, KeysTyped, CallsTyped
<1>2. CASE Next
  BY <1>2, ClientsTyped, OwnersTyped, MemoriesTyped, WorkersTyped, TimeTyped DEF Next, Step, Working
<1> QED
  BY <1>1, <1>2

\* In every reachable state the rows, the jobs and the calls are well typed:
\* no row ever has a status that its table's constraint refuses.
THEOREM TypeCorrect == Spec => []TypeOK
<1>1. Typed => TypeOK
  BY DEF Typed
<1> QED
  BY <1>1, InitTyped, NextTyped, PTL DEF Spec
(***************************************************************************)
(* Secrets.  A subscription that exists keeps its request and its secret,  *)
(* and what is told is what the subscription then has.                     *)
(***************************************************************************)
LEMMA InsertSteps ==
  ASSUME Typed, NEW c \in Clients, NEW s \in Subs, NEW request \in Requests,
         InsertOrReplay(c, s, request)
  PROVE  /\ \A t \in Subs : subs[t].status # "none" => subs'[t] = subs[t]
         /\ \A t \in told' \ told :
              /\ t.sub \in Subs /\ subs'[t.sub].status # "none"
              /\ subs'[t.sub].secret = t.secret /\ subs'[t.sub].request = t.request
<1>1. CASE Replay(s, request) /\ UNCHANGED subs
  BY <1>1 DEF Replay, Tell
<1>2. CASE /\ subs[s].status = "none"
           /\ subs' = [subs EXCEPT ![s] = [status |-> "active", request |-> request, secret |-> c]]
           /\ Tell(s, request, c)
  <2>1. \A t \in Subs :
          subs'[t] = IF t = s THEN [status |-> "active", request |-> request, secret |-> c] ELSE subs[t]
    BY <1>2 DEF Typed, TypeOK
  <2> QED
    BY <1>2, <2>1 DEF Tell
<1> QED
  BY <1>1, <1>2 DEF InsertOrReplay

LEMMA SubsSteps ==
  ASSUME Typed, [Next]_vars
  PROVE  \/ UNCHANGED <<subs, told>>
         \/ \E s \in Subs : DisableSubscription(s)
         \/ UNCHANGED subs /\ \E s \in Subs, request \in Requests : Replay(s, request)
         \/ \E c \in Clients, s \in Subs, request \in Requests : InsertOrReplay(c, s, request)
<1>1. ASSUME NEW c \in Clients, CreateCommit(c)
      PROVE  \E s \in Subs, request \in Requests : InsertOrReplay(c, s, request)
  BY <1>1 DEF CreateCommit, Typed, CallsTyped
<1>2. ASSUME NEW c \in Clients, NEW s \in Subs, NEW request \in Requests, CreateLookup(c, s, request)
      PROVE  UNCHANGED subs /\ (UNCHANGED told \/ Replay(s, request))
  BY <1>2 DEF CreateLookup
<1> QED
  BY <1>1, <1>2 DEF Next, vars, CreateFail, outbox, ToggleKey, ToggleMemory, Match, StoreCommit, calls,
     tables, Claim, Step, Load, Prepare, Recheck, Post, Receive, Answer, Mark, Crash, ComesDue, LeaseEnds

LEMMA DisableSteps ==
  ASSUME Typed, NEW s \in Subs, DisableSubscription(s)
  PROVE  /\ subs[s].status # "none" /\ subs'[s].status = "disabled"
         /\ subs'[s].request = subs[s].request /\ subs'[s].secret = subs[s].secret
         /\ \A t \in Subs \ {s} : subs'[t] = subs[t]
BY DEF DisableSubscription, Typed, TypeOK, Subscription

SecretsInv == SecretToldSigns /\ \A t \in told : subs[t.sub].status # "none"

LEMMA NextKeepsSecrets == Typed /\ SecretsInv /\ [Next]_vars => SecretsInv'
<1> SUFFICES ASSUME Typed, SecretsInv, [Next]_vars PROVE SecretsInv'
  OBVIOUS
<1>1. \A t \in told : t.sub \in Subs
  BY DEF Typed, TypeOK
<1>2. CASE UNCHANGED <<subs, told>>
  BY <1>2 DEF SecretsInv, SecretToldSigns
<1>3. CASE \E s \in Subs : DisableSubscription(s)
  <2>1. PICK s \in Subs : DisableSubscription(s)
    BY <1>3
  <2>2. told' = told
    BY <2>1 DEF DisableSubscription, calls
  <2> QED
    BY <1>1, <2>1, <2>2, DisableSteps DEF SecretsInv, SecretToldSigns
<1>4. CASE UNCHANGED subs /\ \E s \in Subs, request \in Requests : Replay(s, request)
  BY <1>4 DEF Replay, Tell, SecretsInv, SecretToldSigns
<1>5. CASE \E c \in Clients, s \in Subs, request \in Requests : InsertOrReplay(c, s, request)
  BY <1>1, <1>5, InsertSteps DEF SecretsInv, SecretToldSigns
<1> QED
  BY <1>2, <1>3, <1>4, <1>5, SubsSteps

\* However many creates race under one idempotency key, lose their answer or
\* come again, nobody holds a secret that does not sign its events.
THEOREM SecretsSign == Spec => []SecretToldSigns
<1>1. Init => SecretsInv
  BY DEF Init, SecretsInv, SecretToldSigns
<1>2. SecretsInv => SecretToldSigns
  BY DEF SecretsInv
<1> QED
  BY <1>1, <1>2, InitTyped, NextTyped, NextKeepsSecrets, PTL DEF Spec

(***************************************************************************)
(* Revocation.  A subscription that was disabled stays disabled, so the    *)
(* second check sees it.                                                   *)
(***************************************************************************)
LEMMA DisabledStays ==
  ASSUME Typed, [Next]_vars, NEW s \in Subs, subs[s].status = "disabled"
  PROVE  subs'[s].status = "disabled"
<1>1. CASE \E t \in Subs : DisableSubscription(t)
  BY <1>1, DisableSteps
<1>2. CASE \E c \in Clients, t \in Subs, request \in Requests : InsertOrReplay(c, t, request)
  BY <1>2, InsertSteps
<1> QED
  BY <1>1, <1>2, SubsSteps

RevokedIsDisabled(w) ==
  jobs[w].phase \in {"resolved", "cleared", "posting"} /\ jobs[w].revoked
    => subs[jobs[w].id.sub].status = "disabled"

RevocationInv == RevocationBeforeConnectWins /\ \A w \in Workers : RevokedIsDisabled(w)

\* A worker that does not step keeps what it saw.
LEMMA RestingKeepsRevocation ==
  ASSUME Typed, RevocationInv, [Next]_vars, NEW w \in Workers, jobs'[w] = jobs[w]
  PROVE  /\ RevokedIsDisabled(w)'
         /\ jobs'[w].phase \in {"cleared", "posting"} => ~jobs'[w].revoked
<1>1. jobs[w].phase \in {"resolved", "cleared", "posting"} => jobs[w].id.sub \in Subs
  BY JobOf, JobKinds DEF Typed, Deliveries, Idle
<1> QED
  BY <1>1, DisabledStays DEF RevocationInv, RevocationBeforeConnectWins, RevokedIsDisabled

LEMMA WorkingKeepsRevocation ==
  ASSUME Typed, RevocationInv, NEW w \in Workers, Working(w)
  PROVE  /\ RevokedIsDisabled(w)'
         /\ jobs'[w].phase \in {"cleared", "posting"} => ~jobs'[w].revoked
<1>1. subs' = subs
  BY DEF Working, Load, Prepare, Recheck, Post, Receive, Answer, tables
<1>2. jobs[w].phase \notin {"idle", "ended"}
  BY DEF Working, Load, Prepare, Recheck, Post, Receive, Answer
<1>3. CASE \E verdict \in Verdicts : Ends(w, verdict)
  BY <1>2, <1>3, EndsSteps DEF RevokedIsDisabled, Typed
<1>4. CASE Load(w) /\ Moves(w, "loaded")
  BY <1>2, <1>4, MovesSteps DEF RevokedIsDisabled, Typed
<1>5. CASE Prepare(w) /\ ~\E verdict \in Verdicts : Ends(w, verdict)
  BY <1>1, <1>5, PrepareMoves, VerdictTypes DEF Prepare, RevokedIsDisabled, Typed
<1>6. CASE Recheck(w) /\ Moves(w, "cleared")
  <2>1. \/ Loadable(jobs[w].id)
        \/ \E verdict \in Verdicts : Ends(w, verdict)
    BY <1>6, VerdictTypes DEF Recheck
  <2>2. Loadable(jobs[w].id) => ~jobs[w].revoked
    BY <1>6 DEF Loadable, Authorized, Entitled, Recheck, RevocationInv, RevokedIsDisabled
  <2>3. CASE Loadable(jobs[w].id)
    BY <1>2, <1>6, <2>2, <2>3, MovesSteps DEF RevokedIsDisabled, Typed
  <2> QED
    BY <1>3, <2>1, <2>3
<1>7. CASE Post(w)
  BY <1>1, <1>2, <1>7, MovesSteps DEF Post, RevokedIsDisabled, RevocationInv, RevocationBeforeConnectWins,
     Typed
<1>8. CASE Receive(w)
  BY <1>1, <1>8, ReceiveSteps DEF Receive, RevokedIsDisabled, RevocationInv, RevocationBeforeConnectWins,
     Typed
<1> QED
  BY <1>3, <1>4, <1>5, <1>6, <1>7, <1>8, VerdictTypes DEF Working, Load, Recheck, Answer

LEMMA NextKeepsRevocation == Typed /\ RevocationInv /\ [Next]_vars => RevocationInv'
<1> SUFFICES ASSUME Typed, RevocationInv, [Next]_vars PROVE RevocationInv'
  OBVIOUS
<1> DEFINE Right(w) == /\ RevokedIsDisabled(w)'
                       /\ jobs'[w].phase \in {"cleared", "posting"} => ~jobs'[w].revoked
<1>1. CASE jobs' = jobs
  BY <1>1, RestingKeepsRevocation DEF RevocationInv, RevocationBeforeConnectWins
<1>2. ASSUME NEW w \in Workers, Working(w) \/ Mark(w) \/ Crash(w) \/ \E d \in Deliveries : Claim(w, d)
      PROVE  Right(w) /\ \A v \in Workers \ {w} : jobs'[v] = jobs[v]
  <2>1. CASE Working(w)
    BY <2>1, WorkingKeepsRevocation, WorkingSteps DEF WorksOn, Typed
  <2>2. CASE Mark(w) \/ Crash(w)
    BY <2>2, RestSteps DEF Mark, Crash, RevokedIsDisabled, Idle, Typed
  <2>3. CASE \E d \in Deliveries : Claim(w, d)
    BY <2>3, ClaimSteps DEF RevokedIsDisabled, Typed
  <2> QED
    BY <1>2, <2>1, <2>2, <2>3
<1>3. CASE \E w \in Workers : Working(w) \/ Mark(w) \/ Crash(w) \/ \E d \in Deliveries : Claim(w, d)
  BY <1>2, <1>3, RestingKeepsRevocation DEF RevocationInv, RevocationBeforeConnectWins
<1>4. jobs' = jobs \/ \E w \in Workers : Working(w) \/ Mark(w) \/ Crash(w) \/ \E d \in Deliveries : Claim(w, d)
  BY DEF Next, vars, CreateLookup, CreateFail, CreateCommit, outbox, DisableSubscription, ToggleKey,
     ToggleMemory, Match, StoreCommit, ComesDue, LeaseEnds, Step, Working
<1> QED
  BY <1>1, <1>3, <1>4

\* Unsubscribing before the receiver's name was resolved keeps the request
\* from being sent, whatever other workers and clients do in between.
THEOREM RevocationWins == Spec => []RevocationBeforeConnectWins
<1>1. Init => RevocationInv
  BY DEF Init, RevocationInv, RevocationBeforeConnectWins, RevokedIsDisabled, Idle
<1>2. RevocationInv => RevocationBeforeConnectWins
  BY DEF RevocationInv
<1> QED
  BY <1>1, <1>2, InitTyped, NextTyped, NextKeepsRevocation, PTL DEF Spec
(***************************************************************************)
(* The promise.  What the refinement needs to know: a delivery exists only *)
(* once its memory is stored; whoever has no right to it has been noted;   *)
(* a row that a worker holds is being processed unless it was revoked or a *)
(* worker stalled over it, and so is held by one worker; and an outcome    *)
(* says what happened.                                                     *)
(***************************************************************************)
Excused == lapsed \cup stalled

RowsOfStored ==
  \A d \in Deliveries : rows[d].status # "absent" => mems[d.mem] \in {"shown", "hidden"}

LapseNoted ==
  \A d \in Deliveries : rows[d].status # "absent" /\ ~Authorized(d) => d \in lapsed

Held(d) ==
  /\ rows[d].status # "absent"
  /\ rows[d].status = "processing" \/ d \in Excused
  /\ rows[d].over => d \in Excused

HeldRows == \A w \in Workers, d \in Deliveries : Busy(w, d) => Held(d)

HeldOnce ==
  \A w, v \in Workers, d \in Deliveries : w # v /\ Busy(w, d) /\ Busy(v, d) => d \in Excused

Honest(w) ==
  /\ jobs[w].phase \notin {"idle", "ended"} /\ jobs[w].reached => jobs[w].id \in received
  /\ jobs[w].phase = "ended" =>
       /\ jobs[w].verdict = "delivered" => jobs[w].id \in received
       /\ jobs[w].verdict = "cancelled" => jobs[w].id \in Excused

Outcomes == \A w \in Workers : Honest(w)

RightsInv == RowsOfStored /\ LapseNoted
HoldInv == HeldRows /\ HeldOnce /\ Outcomes

(***************************************************************************)
(* The rights.                                                             *)
(***************************************************************************)
LEMMA DeliveryParts ==
  ASSUME NEW d \in Deliveries
  PROVE  d.sub \in Subs /\ d.mem \in Mems
BY DEF Deliveries

\* A row that existed goes on existing, and none comes to exist but by a store.
LEMMA StatusSteps ==
  ASSUME Typed, [Next]_vars, NEW d \in Deliveries, rows'[d].status # "absent"
  PROVE  \/ rows[d].status # "absent"
         \/ \E m \in Mems : StoreCommit(m) /\ d.mem = m /\ d.sub \in matched[m]
<1>1. CASE \E w \in Workers, e \in Deliveries : Claim(w, e)
  BY <1>1, ClaimSteps DEF Claim, Claimable, Typed
<1>2. CASE \E w \in Workers : Mark(w)
  BY <1>2, MarkSteps DEF Typed, Ended
<1>3. CASE \E e \in Deliveries : ComesDue(e) \/ LeaseEnds(e)
  BY <1>3, TimeSteps DEF Typed
<1>4. CASE \E s \in Subs : DisableSubscription(s)
  BY <1>4 DEF DisableSubscription, Cancellable, Open
<1>5. CASE \E m \in Mems : StoreCommit(m)
  BY <1>5 DEF StoreCommit, Announced
<1>6. CASE rows' = rows
  BY <1>6
<1> QED
  BY <1>1, <1>2, <1>3, <1>4, <1>5, <1>6 DEF Next, vars, CreateLookup, CreateFail, CreateCommit, outbox,
     ToggleKey, ToggleMemory, Match, Step, Load, Prepare, Recheck, Post, Receive, Answer, Crash

\* What may become of authorization: it is lost with a note, or it stays.
LEMMA AuthoritySteps ==
  ASSUME Typed, [Next]_vars, NEW d \in Deliveries, Stored(d.mem)
  PROVE  /\ d \in lapsed => d \in lapsed'
         /\ \/ d \in lapsed'
            \/ /\ subs[d.sub].status = "active" => subs'[d.sub].status = "active"
               /\ d.sub \in enabled => d.sub \in enabled'
               /\ mems[d.mem] = "shown" => mems'[d.mem] = "shown"
         /\ readable' = readable
         /\ Stored(d.mem)'
<1> USE DeliveryParts DEF Stored, calls, outbox, tables
<1>1. CASE UNCHANGED <<subs, readable, enabled, mems, lapsed>>
  BY <1>1
<1>2. CASE \E s \in Subs : DisableSubscription(s)
  <2>1. PICK s \in Subs : DisableSubscription(s)
    BY <1>2
  <2>2. UNCHANGED <<readable, enabled, mems>> /\ lapsed \subseteq lapsed'
    BY <2>1 DEF DisableSubscription, Lapses
  <2>3. d.sub = s => d \in lapsed'
    BY <2>1 DEF DisableSubscription, Lapses, Of
  <2>4. d.sub # s => subs'[d.sub] = subs[d.sub]
    BY <2>1, DisableSteps
  <2> QED
    BY <2>2, <2>3, <2>4
<1>3. CASE \E s \in Subs : ToggleKey(s)
  BY <1>3 DEF ToggleKey, Lapses, Of
<1>4. CASE \E m \in Mems : ToggleMemory(m)
  BY <1>4 DEF ToggleMemory, Typed, TypeOK
<1>5. CASE \E m \in Mems : StoreCommit(m) \/ \E S \in SUBSET Subs : Match(m, S)
  BY <1>5 DEF StoreCommit, Match, Typed, TypeOK
<1>6. CASE \E c \in Clients : CreateCommit(c)
  <2>1. UNCHANGED <<readable, enabled, mems, lapsed>>
    BY <1>6 DEF CreateCommit
  <2>2. subs[d.sub].status = "active" => subs'[d.sub].status = "active"
    BY <1>6, InsertSteps DEF CreateCommit, Typed, CallsTyped
  <2> QED
    BY <2>1, <2>2
<1> QED
  BY <1>1, <1>2, <1>3, <1>4, <1>5, <1>6 DEF Next, vars, CreateLookup, CreateFail, outbox, tables, Claim,
     Step, Load, Prepare, Recheck, Post, Receive, Answer, Mark, Crash, ComesDue, LeaseEnds

LEMMA NextKeepsRights == Typed /\ RightsInv /\ [Next]_vars => RightsInv'
<1> SUFFICES ASSUME Typed, RightsInv, [Next]_vars PROVE RightsInv'
  OBVIOUS
<1> USE DeliveryParts
<1>1. ASSUME NEW d \in Deliveries, rows'[d].status # "absent"
      PROVE  mems'[d.mem] \in {"shown", "hidden"} /\ (~Authorized(d)' => d \in lapsed')
  <2>1. CASE rows[d].status # "absent"
    <3>1. Stored(d.mem) /\ (~Authorized(d) => d \in lapsed)
      BY <2>1 DEF RightsInv, RowsOfStored, LapseNoted, Stored
    <3> QED
      BY <3>1, AuthoritySteps DEF Authorized, Entitled, Stored
  <2>2. ASSUME NEW m \in Mems, StoreCommit(m), d.mem = m, d.sub \in matched[m]
        PROVE  mems'[d.mem] \in {"shown", "hidden"} /\ (~Authorized(d)' => d \in lapsed')
    <3>1. PICK seen \in {"shown", "hidden"} :
            /\ mems' = [mems EXCEPT ![m] = seen]
            /\ lapsed' = lapsed \cup {e \in Announced(m) : seen = "hidden" \/ ~Entitled(e.sub)}
      BY <2>2 DEF StoreCommit
    <3>2. mems'[m] = seen /\ UNCHANGED <<subs, readable, enabled>> /\ d \in Announced(m)
      BY <2>2, <3>1 DEF StoreCommit, Announced, calls, Typed, TypeOK
    <3> QED
      BY <2>2, <3>1, <3>2 DEF Authorized, Entitled
  <2> QED
    BY <1>1, <2>1, <2>2, StatusSteps
<1> QED
  BY <1>1 DEF RightsInv, RowsOfStored, LapseNoted

(***************************************************************************)
(* What is held.                                                           *)
(***************************************************************************)
LEMMA NotesGrow ==
  ASSUME [Next]_vars
  PROVE  lapsed \subseteq lapsed' /\ stalled \subseteq stalled' /\ received \subseteq received'
BY DEF Next, vars, CreateLookup, CreateFail, CreateCommit, outbox, tables, DisableSubscription, ToggleKey,
   ToggleMemory, Lapses, Match, StoreCommit, Claim, Step, Load, Prepare, Recheck, Post, Receive, Answer,
   Mark, Crash, ComesDue, LeaseEnds, Elapses

LEMMA BusyIs ==
  ASSUME Typed, NEW w \in Workers
  PROVE  /\ ~IsIdle(w) => jobs[w].id \in Deliveries /\ Busy(w, jobs[w].id)
         /\ jobs[w].phase # "idle" => ~IsIdle(w)
BY JobOf, JobKinds DEF Typed, Busy, IsIdle

LEMMA HonestKept ==
  ASSUME [Next]_vars, NEW w \in Workers, Honest(w), jobs'[w] = jobs[w]
  PROVE  Honest(w)'
BY NotesGrow DEF Honest, Excused

\* Steps that no worker takes.
LEMMA OthersKeepHeld ==
  ASSUME Typed, RightsInv, [Next]_vars, jobs' = jobs, NEW w \in Workers, NEW d \in Deliveries,
         Busy(w, d), Held(d)
  PROVE  Held(d)'
<1>1. CASE rows'[d] = rows[d]
  BY <1>1, NotesGrow DEF Held, Excused
<1>2. CASE \E s \in Subs : DisableSubscription(s)
  <2>1. PICK s \in Subs : DisableSubscription(s)
    BY <1>2
  <2>2. CASE d \in Cancellable(s)
    <3>1. rows'[d] = Cancelled(rows[d])
      BY <2>1, <2>2 DEF DisableSubscription
    <3>2. rows'[d].status = "cancelled" /\ ~rows'[d].over
      BY <3>1 DEF Cancelled, Row, Typed, TypeOK
    <3>3. Stored(d.mem)
      BY DEF Held, RightsInv, RowsOfStored, Stored
    <3>4. d \in lapsed'
      BY <2>1, <2>2, <3>3 DEF DisableSubscription, Lapses, Cancellable
    <3> QED
      BY <3>2, <3>4 DEF Held, Excused
  <2> QED
    BY <1>1, <2>1, <2>2 DEF DisableSubscription
<1>3. CASE \E m \in Mems : StoreCommit(m)
  <2>1. mems[d.mem] # "storing"
    BY DEF Held, RightsInv, RowsOfStored
  <2> QED
    BY <1>1, <1>3, <2>1 DEF StoreCommit, Announced
<1>4. CASE \E e \in Deliveries : ComesDue(e) \/ LeaseEnds(e)
  <2>1. PICK e \in Deliveries : ComesDue(e) \/ LeaseEnds(e)
    BY <1>4
  <2>2. CASE e # d
    BY <1>1, <2>1, <2>2, TimeSteps DEF Typed
  <2>3. CASE e = d /\ LeaseEnds(d)
    <3>1. d \in stalled'
      BY <2>3 DEF LeaseEnds, Elapses
    <3> QED
      BY <2>3, <3>1, TimeSteps DEF Held, Excused, Typed
  <2>4. CASE e = d /\ ComesDue(d)
    BY <2>4, TimeSteps, NotesGrow DEF Held, Excused, Typed
  <2> QED
    BY <2>1, <2>2, <2>3, <2>4
<1>5. CASE \E v \in Workers : Mark(v) \/ Crash(v) \/ \E e \in Deliveries : Claim(v, e)
  <2>1. PICK v \in Workers : Mark(v) \/ Crash(v) \/ \E e \in Deliveries : Claim(v, e)
    BY <1>5
  <2>2. CASE Mark(v) \/ Crash(v)
    BY <2>2, RestSteps, BusyIs DEF Mark, Crash, IsIdle, Ended, Typed, Idle
  <2>3. CASE \E e \in Deliveries : Claim(v, e)
    <3>1. jobs'[v].phase = "claimed"
      BY <2>3, ClaimSteps DEF Typed
    <3>2. jobs[v].phase = "idle"
      BY <2>3 DEF Claim, IsIdle, Idle
    <3> QED
      BY <3>1, <3>2
  <2> QED
    BY <2>1, <2>2, <2>3
<1> QED
  BY <1>1, <1>2, <1>3, <1>4, <1>5 DEF Next, vars, CreateLookup, CreateFail, CreateCommit, outbox,
     ToggleKey, ToggleMemory, Match, Step, Load, Prepare, Recheck, Post, Receive, Answer

\* A worker that holds a row and may no longer load it has been excused.
LEMMA UnloadableIsExcused ==
  ASSUME Typed, RightsInv, HoldInv, NEW w \in Workers, ~IsIdle(w), ~Loadable(jobs[w].id)
  PROVE  jobs[w].id \in Excused
BY BusyIs DEF HoldInv, HeldRows, Held, Loadable, RightsInv, LapseNoted, Excused

LEMMA WorkingIsHonest ==
  ASSUME Typed, RightsInv, HoldInv, NEW w \in Workers, Working(w)
  PROVE  Honest(w)'
<1>1. jobs[w].phase \notin {"idle", "ended"} /\ ~IsIdle(w)
  BY BusyIs DEF Working, Load, Prepare, Recheck, Post, Receive, Answer
<1>2. lapsed' = lapsed /\ stalled' = stalled /\ received \subseteq received'
  BY DEF Working, Load, Prepare, Recheck, Post, Receive, Answer, tables
<1>3. jobs[w].reached => jobs[w].id \in received
  BY <1>1 DEF HoldInv, Outcomes, Honest
<1>4. CASE Moves(w, "loaded") \/ Moves(w, "cleared") \/ Moves(w, "posting")
  BY <1>1, <1>2, <1>3, <1>4, MovesSteps DEF Honest, Typed
<1>5. ASSUME NEW verdict \in Verdicts, Ends(w, verdict),
             verdict = "delivered" => jobs[w].id \in received,
             verdict = "cancelled" => jobs[w].id \in Excused
      PROVE  Honest(w)'
  BY <1>1, <1>2, <1>5, EndsSteps DEF Honest, Excused, Typed
<1>6. CASE Load(w) \/ Recheck(w)
  BY <1>1, <1>4, <1>5, <1>6, UnloadableIsExcused, VerdictTypes DEF Load, Recheck
<1>7. CASE Prepare(w)
  <2>1. CASE jobs' = [jobs EXCEPT
                          ![w] = [@ EXCEPT
                            !.phase = "resolved",
                            !.revoked = subs[jobs[w].id.sub].status = "disabled"]]
    BY <1>2, <1>3, <1>7, <2>1, PrepareMoves DEF Prepare, Honest, Typed
  <2> QED
    BY <1>5, <1>7, <2>1, VerdictTypes DEF Prepare
<1>8. CASE Receive(w)
  BY <1>8, ReceiveSteps DEF Receive, Honest, Typed
<1>9. CASE Answer(w)
  BY <1>3, <1>5, <1>9, VerdictTypes DEF Answer
<1> QED
  BY <1>4, <1>6, <1>7, <1>8, <1>9 DEF Working, Post

\* Whoever takes a row over from a worker knows of a reason.
LEMMA ClaimOfHeld ==
  ASSUME NEW w \in Workers, NEW d \in Deliveries, Claim(w, d), Held(d)
  PROVE  d \in Excused
BY DEF Claim, Claimable, Held

LEMMA NextKeepsHold == Typed /\ RightsInv /\ HoldInv /\ [Next]_vars => HoldInv'
<1> SUFFICES ASSUME Typed, RightsInv, HoldInv, [Next]_vars PROVE HoldInv'
  OBVIOUS
<1>1. CASE jobs' = jobs
  BY <1>1, OthersKeepHeld, HonestKept, NotesGrow DEF HoldInv, HeldRows, HeldOnce, Outcomes, Busy, IsIdle,
     Excused
<1>2. ASSUME NEW w \in Workers, Working(w)
      PROVE  HoldInv'
  <2>1. /\ \A v \in Workers \ {w} : jobs'[v] = jobs[v]
        /\ ~IsIdle(w) /\ ~IsIdle(w)' /\ jobs'[w].id = jobs[w].id
    BY <1>2, WorkingSteps DEF WorksOn, IsIdle, Idle, Typed
  <2>2. \A v \in Workers, d \in Deliveries : Busy(v, d)' <=> Busy(v, d)
    BY <2>1 DEF Busy, IsIdle
  <2>3. rows' = rows
    BY <1>2 DEF Working, Load, Prepare, Recheck, Post, Receive, Answer
  <2>4. Outcomes'
    BY <1>2, <2>1, WorkingIsHonest, HonestKept DEF Outcomes, HoldInv
  <2> QED
    BY <2>2, <2>3, <2>4, NotesGrow DEF HoldInv, HeldRows, HeldOnce, Held, Excused
<1>3. ASSUME NEW w \in Workers, NEW d \in Deliveries, Claim(w, d)
      PROVE  HoldInv'
  <2>1. /\ \A v \in Workers \ {w} : jobs'[v] = jobs[v]
        /\ ~IsIdle(w)' /\ jobs'[w].id = d /\ jobs'[w].phase = "claimed" /\ ~jobs'[w].reached
    BY <1>3, ClaimSteps DEF IsIdle, Idle, Typed
  <2>2. /\ rows'[d].status = "processing" /\ ~rows'[d].over
        /\ \A e \in Deliveries \ {d} : rows'[e] = rows[e]
    BY <1>3, ClaimSteps DEF Typed
  <2>3. \A v \in Workers \ {w}, e \in Deliveries : Busy(v, e)' <=> Busy(v, e)
    BY <2>1 DEF Busy, IsIdle
  <2>4. \A e \in Deliveries : Busy(w, e)' => e = d
    BY <2>1 DEF Busy
  <2>5. HeldRows'
    BY <2>2, <2>3, <2>4, NotesGrow DEF HoldInv, HeldRows, Held, Excused
  <2>6. HeldOnce'
    BY <1>3, <2>3, <2>4, ClaimOfHeld, NotesGrow DEF HoldInv, HeldRows, HeldOnce, Excused
  <2>7. Honest(w)'
    BY <2>1 DEF Honest
  <2>8. Outcomes'
    BY <2>1, <2>7, HonestKept DEF HoldInv, Outcomes
  <2> QED
    BY <2>5, <2>6, <2>8 DEF HoldInv
<1>4. ASSUME NEW w \in Workers, Mark(w) \/ Crash(w)
      PROVE  HoldInv'
  <2>1. /\ \A v \in Workers \ {w} : jobs'[v] = jobs[v]
        /\ jobs'[w] = Idle
    BY <1>4, RestSteps DEF Mark, Crash, Typed
  <2>2. \A v \in Workers, e \in Deliveries : Busy(v, e)' => v # w /\ Busy(v, e)
    BY <2>1 DEF Busy, IsIdle
  <2>3. ASSUME NEW v \in Workers, NEW e \in Deliveries, Busy(v, e)'
        PROVE  Held(e)'
    <3>1. v # w /\ Busy(v, e) /\ Held(e)
      BY <2>2, <2>3 DEF HoldInv, HeldRows
    <3>2. CASE rows'[e] = rows[e]
      BY <3>1, <3>2, NotesGrow DEF Held, Excused
    <3>3. CASE Mark(w) /\ e = jobs[w].id
      <4>1. Busy(w, e)
        BY <3>3, BusyIs DEF Mark
      <4>2. e \in Excused'
        BY <3>1, <4>1, NotesGrow DEF HoldInv, HeldOnce, Excused
      <4>3. rows'[e].status # "absent"
        BY <3>1, <3>3, MarkSteps DEF Held, Ended, Verdicts, Typed
      <4> QED
        BY <4>2, <4>3 DEF Held, Excused
    <3> QED
      BY <1>4, <3>2, <3>3, MarkSteps DEF Crash, Typed
  <2>4. HeldOnce'
    BY <2>2, NotesGrow DEF HoldInv, HeldOnce, Excused
  <2>5. Outcomes'
    BY <2>1, HonestKept DEF HoldInv, Outcomes, Honest, Idle
  <2> QED
    BY <2>3, <2>4, <2>5 DEF HoldInv, HeldRows
<1>5. \/ jobs' = jobs
      \/ \E w \in Workers : Working(w) \/ Mark(w) \/ Crash(w) \/ \E d \in Deliveries : Claim(w, d)
  BY DEF Next, vars, CreateLookup, CreateFail, CreateCommit, outbox, DisableSubscription, ToggleKey,
     ToggleMemory, Match, StoreCommit, ComesDue, LeaseEnds, Step, Working
<1> QED
  BY <1>1, <1>2, <1>3, <1>4, <1>5
(***************************************************************************)
(* Every step is one of the promise, or leaves it alone.                   *)
(***************************************************************************)
State == [d \in Deliveries |-> IF rows[d].status \in Open THEN "open" ELSE rows[d].status]

LEMMA SameState ==
  ASSUME \A d \in Deliveries :
           rows'[d].status = rows[d].status \/ (rows[d].status \in Open /\ rows'[d].status \in Open)
  PROVE  State' = State
BY DEF State

\* A loss of rights, which may withdraw open deliveries.
LEMMA LapseStep ==
  ASSUME NEW D \in SUBSET Deliveries, NEW W \in SUBSET D,
         \A d \in W : State[d] = "open",
         Excused' = Excused \cup D,
         State' = [d \in Deliveries |-> IF d \in W THEN "cancelled" ELSE State[d]],
         received' = received
  PROVE  Promise!PromiseNext
<1>1. Promise!Lapse(D, W)
  BY DEF Promise!Lapse, State, Excused
<1> QED
  BY <1>1 DEF Promise!PromiseNext

LEMMA NoteStep ==
  ASSUME NEW D \in SUBSET Deliveries, Excused' = Excused \cup D, State' = State, received' = received
  PROVE  Promise!PromiseNext
<1>1. State' = [d \in Deliveries |-> IF d \in {} THEN "cancelled" ELSE State[d]]
  BY DEF State
<1>2. PICK W \in SUBSET D : W = {}
  OBVIOUS
<1> QED
  BY <1>1, <1>2, LapseStep

LEMMA OwnersPromise ==
  ASSUME Typed, RightsInv, NEW s \in Subs, DisableSubscription(s) \/ ToggleKey(s)
  PROVE  [Promise!PromiseNext]_(Promise!promise)
<1> DEFINE D == {d \in Of(s) : Stored(d.mem)}
           W == Cancellable(s)
<1>1. D \in SUBSET Deliveries
  BY DEF Of
<1>2. CASE DisableSubscription(s)
  <2>1. W \in SUBSET D
    BY DEF Cancellable, Of, RightsInv, RowsOfStored, Stored, Open
  <2>2. \A d \in W : State[d] = "open"
    BY DEF Cancellable, Of, State
  <2>3. Excused' = Excused \cup D /\ received' = received
    BY <1>2 DEF DisableSubscription, Lapses, Excused
  <2>4. ASSUME NEW d \in Deliveries
        PROVE  State'[d] = IF d \in W THEN "cancelled" ELSE State[d]
    <3>1. CASE d \in W
      <4>1. rows'[d] = Cancelled(rows[d])
        BY <1>2, <3>1 DEF DisableSubscription
      <4>2. rows'[d].status = "cancelled"
        BY <4>1 DEF Cancelled, Row, Typed, TypeOK
      <4> QED
        BY <3>1, <4>2 DEF State, Open
    <3>2. CASE d \notin W
      BY <1>2, <3>2 DEF DisableSubscription, State
    <3> QED
      BY <3>1, <3>2
  <2>5. State' = [d \in Deliveries |-> IF d \in W THEN "cancelled" ELSE State[d]]
    BY <2>4 DEF State
  <2> QED
    BY <1>1, <2>1, <2>2, <2>3, <2>5, LapseStep
<1>3. CASE ToggleKey(s)
  <2>1. State' = State /\ received' = received
    BY <1>3 DEF ToggleKey, State
  <2>2. PICK E \in SUBSET Deliveries : E = D
    BY <1>1
  <2>3. PICK N \in SUBSET Deliveries : N = {}
    OBVIOUS
  <2>4. Excused' = Excused \cup E \/ Excused' = Excused \cup N
    BY <1>3, <2>2, <2>3 DEF ToggleKey, Lapses, Excused
  <2> QED
    BY <2>1, <2>4, NoteStep
<1> QED
  BY <1>2, <1>3

LEMMA MemoriesPromise ==
  ASSUME Typed, RightsInv, NEW m \in Mems,
         ToggleMemory(m) \/ (\E S \in SUBSET Subs : Match(m, S)) \/ StoreCommit(m)
  PROVE  [Promise!PromiseNext]_(Promise!promise)
<1>1. CASE ToggleMemory(m)
  <2>1. State' = State /\ received' = received
    BY <1>1 DEF ToggleMemory, State
  <2>2. PICK D \in SUBSET Deliveries : D = {d \in Deliveries : d.mem = m}
    OBVIOUS
  <2>3. PICK N \in SUBSET Deliveries : N = {}
    OBVIOUS
  <2>4. Excused' = Excused \cup D \/ Excused' = Excused \cup N
    BY <1>1, <2>2, <2>3 DEF ToggleMemory, Excused
  <2> QED
    BY <2>1, <2>4, NoteStep
<1>2. CASE \E S \in SUBSET Subs : Match(m, S)
  <2>1. UNCHANGED <<State, received, lapsed, stalled>>
    BY <1>2 DEF Match, State
  <2> QED
    BY <2>1 DEF Promise!promise, State
<1>3. CASE StoreCommit(m)
  <2> PICK D \in SUBSET Deliveries : D = Announced(m)
    BY DEF Announced
  <2>1. \A d \in D : State[d] = "absent"
    BY <1>3 DEF StoreCommit, Announced, RightsInv, RowsOfStored, State, Open
  <2>2. State' = [d \in Deliveries |-> IF d \in D THEN "open" ELSE State[d]]
    <3>1. ASSUME NEW d \in Deliveries
          PROVE  State'[d] = IF d \in D THEN "open" ELSE State[d]
      BY <1>3, RowTypes DEF StoreCommit, State, Open
    <3> QED
      BY <3>1 DEF State
  <2>3. PICK unentitled \in SUBSET D : lapsed' = lapsed \cup unentitled
    BY <1>3 DEF StoreCommit
  <2>4. received' = received /\ Excused' = Excused \cup unentitled
    BY <1>3, <2>3 DEF StoreCommit, Excused
  <2>5. Promise!Announce(D, unentitled)
    BY <2>1, <2>2, <2>4 DEF Promise!Announce, State, Excused
  <2> QED
    BY <2>5 DEF Promise!PromiseNext
<1> QED
  BY <1>1, <1>2, <1>3

LEMMA WorkersPromise ==
  ASSUME Typed, HoldInv, NEW w \in Workers,
         Working(w) \/ Mark(w) \/ Crash(w) \/ \E d \in Deliveries : Claim(w, d)
  PROVE  [Promise!PromiseNext]_(Promise!promise)
<1> DEFINE id == jobs[w].id
<1>1. UNCHANGED <<lapsed, stalled>>
  BY DEF Working, Load, Prepare, Recheck, Post, Receive, Answer, Mark, Crash, Claim, tables
<1>2. CASE State' = State /\ received' = received
  BY <1>1, <1>2 DEF Promise!promise, State
<1>3. CASE Receive(w)
  <2>1. ~IsIdle(w)
    BY <1>3, BusyIs DEF Receive
  <2>2. id \in Deliveries /\ rows[id].status # "absent"
    BY <2>1, BusyIs DEF HoldInv, HeldRows, Held
  <2>3. State[id] # "absent"
    BY <2>2 DEF State
  <2>4. received' = received \cup {id} /\ State' = State
    BY <1>3 DEF Receive, State
  <2>5. Promise!Reach(id)
    BY <1>1, <2>3, <2>4 DEF Promise!Reach, State
  <2> QED
    BY <2>2, <2>5 DEF Promise!PromiseNext
<1>4. CASE Working(w) /\ ~Receive(w)
  BY <1>2, <1>4 DEF Working, Load, Prepare, Recheck, Post, Answer, State
<1>5. CASE Crash(w)
  BY <1>2, <1>5 DEF Crash, State
<1>6. CASE \E d \in Deliveries : Claim(w, d)
  <2>1. PICK d \in Deliveries : Claim(w, d)
    BY <1>6
  <2>2. rows[d].status \in Open
    BY <2>1 DEF Claim, Claimable, Open
  <2>3. rows'[d].status \in Open /\ \A e \in Deliveries \ {d} : rows'[e] = rows[e]
    BY <2>1, ClaimSteps DEF Open, Typed
  <2>4. State' = State
    BY <2>2, <2>3, SameState
  <2> QED
    BY <1>2, <2>1, <2>4 DEF Claim
<1>7. CASE Mark(w)
  <2>1. received' = received /\ id \in Deliveries /\ jobs[w].verdict \in Verdicts
    BY <1>7, MarkSteps DEF Mark, Ended, Typed
  <2>2. CASE rows[id].status # "processing" \/ jobs[w].verdict = "retry"
    <3>1. State' = State
      BY <1>7, <2>1, <2>2, MarkSteps, SameState DEF Open, Typed
    <3> QED
      BY <1>2, <2>1, <3>1
  <2>3. CASE rows[id].status = "processing" /\ jobs[w].verdict # "retry"
    <3>1. PICK outcome \in {"delivered", "dead", "cancelled"} : outcome = jobs[w].verdict
      BY <2>1, <2>3 DEF Verdicts
    <3>2. State[id] = "open"
      BY <2>1, <2>3 DEF State, Open
    <3>3. /\ outcome = "delivered" => id \in received
          /\ outcome = "cancelled" => id \in Excused
      BY <1>7, <3>1 DEF Mark, HoldInv, Outcomes, Honest
    <3>4. State' = [State EXCEPT ![id] = outcome]
      <4>1. ASSUME NEW d \in Deliveries
            PROVE  State'[d] = IF d = id THEN outcome ELSE State[d]
        BY <1>7, <2>1, <2>3, <3>1, MarkSteps DEF State, Open, Typed
      <4> QED
        BY <4>1 DEF State
    <3>5. Promise!End(id, outcome)
      BY <1>1, <2>1, <3>2, <3>3, <3>4 DEF Promise!End, State, Excused
    <3> QED
      BY <2>1, <3>5 DEF Promise!PromiseNext
  <2> QED
    BY <2>2, <2>3
<1> QED
  BY <1>3, <1>4, <1>5, <1>6, <1>7

LEMMA TimePromises ==
  ASSUME Typed, NEW d \in Deliveries, ComesDue(d) \/ LeaseEnds(d)
  PROVE  [Promise!PromiseNext]_(Promise!promise)
<1>1. State' = State
  BY TimeSteps, SameState DEF Typed
<1>2. received' = received /\ (Excused' = Excused \cup {d} \/ Excused' = Excused \cup {})
  BY DEF ComesDue, LeaseEnds, Elapses, tables, Excused
<1>3. {d} \in SUBSET Deliveries /\ {} \in SUBSET Deliveries
  OBVIOUS
<1> QED
  BY <1>1, <1>2, <1>3, NoteStep

LEMMA NextPromise == Typed /\ RightsInv /\ HoldInv /\ [Next]_vars => [Promise!PromiseNext]_(Promise!promise)
<1> SUFFICES ASSUME Typed, RightsInv, HoldInv, [Next]_vars
             PROVE  [Promise!PromiseNext]_(Promise!promise)
  OBVIOUS
<1>1. CASE UNCHANGED <<rows, received, lapsed, stalled>>
  BY <1>1 DEF Promise!promise
<1>2. CASE UNCHANGED vars
  BY <1>1, <1>2 DEF vars
<1>3. CASE \E c \in Clients :
             \/ \E s \in Subs, request \in Requests : CreateLookup(c, s, request)
             \/ CreateFail(c) \/ CreateCommit(c)
  BY <1>1, <1>3 DEF CreateLookup, CreateFail, CreateCommit, outbox
<1>4. CASE Next
  BY <1>3, <1>4, OwnersPromise, MemoriesPromise, WorkersPromise, TimePromises DEF Next, Step, Working
<1> QED
  BY <1>2, <1>4

LEMMA InitPromise == Init => Promise!PromiseInit /\ RightsInv /\ HoldInv
<1> SUFFICES ASSUME Init PROVE Promise!PromiseInit /\ RightsInv /\ HoldInv
  OBVIOUS
<1>1. \A d \in Deliveries : rows[d].status = "absent"
  BY DEF Init, Absent
<1>2. Promise!PromiseInit
  BY <1>1 DEF Init, Promise!PromiseInit, Open
<1>3. RightsInv
  BY <1>1, DeliveryParts DEF Init, RightsInv, RowsOfStored, LapseNoted
<1>4. HoldInv
  BY DEF Init, HoldInv, HeldRows, HeldOnce, Outcomes, Honest, Busy, IsIdle, Idle
<1> QED
  BY <1>2, <1>3, <1>4

\* The outbox implements its promise, for any number of subscriptions,
\* memories, workers, crashes and stalls: a delivery is announced once and ends
\* once, delivered only if the receiver has it, and cancelled only if at some time
\* since its memory was stored the receiver had no right to it, or a worker stalled.
THEOREM PromiseKept == Spec => ImplementsPromise
<1>1. Init => Promise!PromiseInit /\ Typed /\ RightsInv /\ HoldInv
  BY InitPromise, InitTyped
<1>2. Typed /\ RightsInv /\ HoldInv /\ [Next]_vars => (Typed /\ RightsInv /\ HoldInv)'
  BY NextTyped, NextKeepsRights, NextKeepsHold
<1>3. Typed /\ RightsInv /\ HoldInv /\ [Next]_vars => [Promise!PromiseNext]_(Promise!promise)
  BY NextPromise
<1> QED
  BY <1>1, <1>2, <1>3, PTL DEF Spec, ImplementsPromise, Promise!PromiseSpec
=============================================================================

------------------------------- MODULE MediaSync -------------------------------
(***************************************************************************)
(* One media service: Plex, which lists several servers page by page and   *)
(* keeps a cursor for each, or a service of one account whose provider     *)
(* lists only its most recent plays.  A job holds the lock of the service  *)
(* from the read of its state to the commit of events and cursors.         *)
(*                                                                         *)
(* A play is its position in its feed, by the time it was viewed.  A feed  *)
(* is a Plex server or the account; plays of other accounts of a server    *)
(* are listed, move the cursor and are not stored.                         *)
(***************************************************************************)
EXTENDS Integers, FiniteSets, FiniteSetsExt

CONSTANTS
  Feeds,        \* the servers, or the account
  Recent,       \* TRUE when the provider lists its newest plays after the cursor only
  Foreign,      \* plays <<feed, play>> of other accounts
  Jobs,         \* sync processes
  None,
  LastPlay,     \* bound of the model: plays of each feed
  PageSize,
  Window,       \* the newest plays a recent feed lists
  MaxOutages    \* bound of the model: failed requests and crashes

VARIABLES
  played,     \* how many plays each feed has
  rolledOff,  \* history: plays that left the provider's window unseen
  events,     \* media_events
  cursors,    \* connector_sync_state: per feed, 0 when there is none
  stored,     \* the service has a row in connector_sync_state
  lock,       \* the holder of the lock of the service
  jobs,       \* what each process is doing
  outages

mvars == <<played, rolledOff, events, cursors, stored, lock, jobs, outages>>

Plays == UNION {0..LastPlay[f] : f \in Feeds}
Mine == (UNION {{f} \X (1..LastPlay[f]) : f \in Feeds}) \ Foreign

Job == [stage : {"idle", "locking", "reading", "discovering", "listing"},
        row : {"none", "same", "changed"},   \* the row, since the job read it
        since : [Feeds -> Plays],
        todo : SUBSET Feeds, feed : Feeds \cup {None}, seen : [Feeds -> Plays],
        good : SUBSET Feeds]
Quiet == [stage |-> "idle", row |-> "none", since |-> [f \in Feeds |-> 0],
          todo |-> {}, feed |-> None, seen |-> [f \in Feeds |-> 0], good |-> {}]

Init ==
  /\ played = [f \in Feeds |-> 0]
  /\ rolledOff = {}
  /\ events = {}
  /\ cursors = [f \in Feeds |-> 0]
  /\ stored = FALSE
  /\ lock = None
  /\ jobs = [j \in Jobs |-> Quiet]
  /\ outages = 0

Play(f) ==
  /\ played[f] < LastPlay[f]
  /\ played' = [played EXCEPT ![f] = @ + 1]
  /\ UNCHANGED <<rolledOff, events, cursors, stored, lock, jobs, outages>>

Finish(j) == jobs' = [jobs EXCEPT ![j] = Quiet]

Launch(j) ==
  /\ jobs[j].stage = "idle"
  /\ jobs' = [jobs EXCEPT ![j].stage = "locking"]
  /\ UNCHANGED <<played, rolledOff, events, cursors, stored, lock, outages>>

Lock(j) ==
  /\ jobs[j].stage = "locking"
  /\ IF lock = None
     THEN /\ lock' = j
          /\ jobs' = [jobs EXCEPT ![j].stage = "reading"]
     ELSE Finish(j) /\ UNCHANGED lock
  /\ UNCHANGED <<played, rolledOff, events, cursors, stored, outages>>

\* The row as it is before anything is asked.
ReadState(j) ==
  /\ jobs[j].stage = "reading"
  /\ jobs' = [jobs EXCEPT
                  ![j] = [@ EXCEPT
                    !.stage = "discovering", !.row = IF stored THEN "same" ELSE "none",
                    !.since = cursors, !.seen = cursors]]
  /\ UNCHANGED <<played, rolledOff, events, cursors, stored, lock, outages>>

\* What plex.tv may list: a resource that is malformed, or gone for now, is left out
\* without a word.  The account of the other services is always there.
Listings == IF Recent THEN {Feeds} ELSE (SUBSET Feeds) \ {{}}

Discover(j, listed) ==
  /\ jobs[j].stage = "discovering"
  /\ jobs' = [jobs EXCEPT ![j] = [@ EXCEPT !.stage = "listing", !.todo = listed]]
  /\ UNCHANGED <<played, rolledOff, events, cursors, stored, lock>>

DiscoverSome(j, listed) ==
  /\ listed # Feeds /\ outages < MaxOutages
  /\ outages' = outages + 1
  /\ Discover(j, listed)

\* What is left of a feed after the page that ends at `seen`.
More(f, seen) == played[f] - seen

Closed(j, f, seen) ==
  jobs' = [jobs EXCEPT
               ![j] = [jobs[j] EXCEPT
                 !.feed = None, !.todo = @ \ {f}, !.seen[f] = seen, !.good = @ \cup {f}]]

\* One page of a server, in the order of viewedAt; the server is done when the page
\* reaches the total it reports.
ServerPage(j, f) ==
  LET n == IF More(f, jobs[j].seen[f]) < PageSize THEN More(f, jobs[j].seen[f]) ELSE PageSize
      seen == jobs[j].seen[f] + n
  IN /\ IF More(f, seen) = 0 THEN Closed(j, f, seen)
        ELSE jobs' = [jobs EXCEPT ![j] = [@ EXCEPT !.feed = f, !.seen[f] = seen]]
     /\ UNCHANGED rolledOff

\* The one request of an account.  Plays that no longer fit in the window are lost.
AccountPage(j, f) ==
  /\ Closed(j, f, played[f])
  /\ rolledOff' = rolledOff \cup
       ({f} \X {p \in 1..LastPlay[f] : jobs[j].since[f] < p /\ p <= played[f] - Window})

\* One feed after the other, page by page.
Asked(j, f) ==
  /\ jobs[j].stage = "listing"
  /\ f \in jobs[j].todo
  /\ jobs[j].feed \in {None, f}

FetchPage(j, f) ==
  /\ Asked(j, f)
  /\ IF Recent THEN AccountPage(j, f) ELSE ServerPage(j, f)
  /\ UNCHANGED <<played, events, cursors, stored, lock, outages>>

\* A server that fails on any page contributes nothing.
Dropped(j, f) == [jobs[j] EXCEPT !.feed = None, !.todo = @ \ {f}, !.seen[f] = jobs[j].since[f]]

\* Closing the connection of the lock.
Unlock(j) == lock' = IF lock = j THEN None ELSE lock

\* A failed account, or the last of servers that all failed, fails the job.
FeedFails(j, f) ==
  LET next == Dropped(j, f) IN
  /\ Asked(j, f)
  /\ outages < MaxOutages
  /\ outages' = outages + 1
  /\ IF Recent \/ (next.todo = {} /\ next.good = {})
     THEN Finish(j) /\ Unlock(j)
     ELSE jobs' = [jobs EXCEPT ![j] = next] /\ UNCHANGED lock
  /\ UNCHANGED <<played, rolledOff, events, cursors, stored>>

\* What the job upserts.  A play of a recent feed that had left the window is not in it.
Fetched(j) ==
  {e \in Mine : /\ e[1] \in jobs[j].good
                /\ jobs[j].since[e[1]] < e[2] /\ e[2] <= jobs[j].seen[e[1]]} \ rolledOff

\* Faulty: the cursor is that of the newest play, read when the state is written.
AdvancedToNow(j) == [f \in Feeds |-> IF f \in jobs[j].good THEN played[f] ELSE cursors[f]]

\* The cursor of a server that answered goes up only, from what is in the row now.
AdvancedServers(j) ==
  [f \in Feeds |-> IF f \in jobs[j].good /\ jobs[j].seen[f] > cursors[f]
                   THEN jobs[j].seen[f] ELSE cursors[f]]

\* That of an account is the time of the newest play in the answer, or what it was when the
\* job read it.
AdvancedAccount(j) ==
  [f \in Feeds |-> IF jobs[j].seen[f] > jobs[j].since[f]
                   THEN jobs[j].seen[f] ELSE jobs[j].since[f]]

Advanced(j) == IF Recent THEN AdvancedAccount(j) ELSE AdvancedServers(j)

\* Somebody else has written the row since it was read, if there was a row.
Overtaken(j) == jobs[j].row = "changed"

Upsert(plays) == events' = events \cup plays

\* Every write of the row stamps it, whether its cursors move or not.
SaveCursors(j, to) ==
  /\ cursors' = to
  /\ stored' = TRUE
  /\ jobs' = [i \in Jobs |-> IF i = j THEN Quiet
                            ELSE IF jobs[i].row = "same" THEN [jobs[i] EXCEPT !.row = "changed"]
                            ELSE jobs[i]]

\* Events and cursors in one transaction, then the lock.
CommitSync(j) ==
  /\ jobs[j].stage = "listing" /\ jobs[j].todo = {}
  /\ IF Overtaken(j) THEN Finish(j) /\ UNCHANGED <<events, cursors, stored>>
     ELSE Upsert(Fetched(j)) /\ SaveCursors(j, Advanced(j))
  /\ Unlock(j)
  /\ UNCHANGED <<played, rolledOff, outages>>

Lost(j) ==
  /\ jobs[j].stage # "idle"
  /\ outages < MaxOutages
  /\ outages' = outages + 1
  /\ Finish(j)
  /\ Unlock(j)
  /\ UNCHANGED <<played, rolledOff, events, cursors, stored>>

DiscoverAll(j) == Discover(j, Feeds) /\ UNCHANGED outages

Step(j) ==
  \/ Lock(j) \/ ReadState(j) \/ DiscoverAll(j) \/ CommitSync(j)
  \/ \E f \in Feeds : FetchPage(j, f)

Next ==
  \/ \E f \in Feeds : Play(f)
  \/ \E j \in Jobs : Launch(j) \/ Step(j) \/ Lost(j)
  \/ \E j \in Jobs, f \in Feeds : FeedFails(j, f)
  \/ \E j \in Jobs, listed \in Listings : DiscoverSome(j, listed)

\* The schedule launches jobs again and again, and a job at work goes on.
Fairness == \A j \in Jobs : WF_mvars(Launch(j)) /\ WF_mvars(Step(j))

Spec == Init /\ [][Next]_mvars /\ Fairness

-------------------------------------------------------------------------------
TypeOK ==
  /\ played \in [Feeds -> Plays] /\ cursors \in [Feeds -> Plays]
  /\ rolledOff \subseteq Feeds \X Plays
  /\ events \subseteq Mine
  /\ stored \in BOOLEAN
  /\ lock \in Jobs \cup {None}
  /\ jobs \in [Jobs -> Job]
  /\ outages \in 0..MaxOutages

\* A cursor never passes a play of the account that is not stored, whatever servers fail,
\* at whatever page, and whichever jobs overlap or die.
CursorCoversEvents ==
  \A e \in Mine : e[2] <= cursors[e[1]] => e \in events \cup rolledOff

\* One server's failure does not hold up the others for ever: every play is stored, but
\* for those that left the provider's window before a sync saw them.
Settled == \A e \in Mine : e[2] <= played[e[1]] => e \in events \cup rolledOff
=============================================================================

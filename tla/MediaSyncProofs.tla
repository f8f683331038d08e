----------------------------- MODULE MediaSyncProofs -----------------------------
(***************************************************************************)
(* The inductive invariant of MediaSync, for services of both kinds, any   *)
(* number of feeds, plays and overlapping jobs.  Pipelines and Exchange    *)
(* instantiate it.                                                         *)
(***************************************************************************)
EXTENDS MediaSync, TLAPS

Covered(f, c) == \A e \in Mine : e[1] = f /\ e[2] <= c => e \in events \cup rolledOff

\* What a job holds: the cursors it read cover stored plays only, and a feed it has not
\* listed to the end, or that failed, stands where its cursor was.
Tracks(x) ==
  /\ \A f \in Feeds : /\ x.since[f] <= played[f] /\ x.seen[f] <= played[f]
                      /\ Covered(f, x.since[f])
  /\ x.feed \in x.todo \cup {None}
  /\ x.feed # None => x.stage = "listing"
  /\ \A f \in Feeds \ x.good : f # x.feed => x.seen[f] = x.since[f]

PlayInv ==
  /\ TypeOK
  /\ \A f \in Feeds : /\ played[f] <= LastPlay[f] /\ cursors[f] <= played[f]
                      /\ Covered(f, cursors[f])
  /\ \A j \in Jobs : Tracks(jobs[j])

\* What the bounds of the model and the sizes of pages are.
PlayConstants ==
  /\ None \notin Feeds
  /\ LastPlay \in [Feeds -> Nat] /\ Recent \in BOOLEAN
  /\ PageSize \in Nat \ {0} /\ Window \in Nat /\ MaxOutages \in Nat

USE DEF PlayConstants

LEMMA PlayPositions ==
  ASSUME PlayConstants
  PROVE  /\ \A p \in Plays : p \in Nat
         /\ \A f \in Feeds : \A n \in Nat : n <= LastPlay[f] => n \in Plays
         /\ \A e \in Mine : /\ e[1] \in Feeds /\ e[2] \in Nat /\ e[2] > 0
<1>1. \A p \in Plays : p \in Nat
  BY DEF Plays
<1>2. ASSUME NEW f \in Feeds, NEW n \in Nat, n <= LastPlay[f]
      PROVE  n \in Plays
  <2>1. n \in 0..LastPlay[f]
    BY <1>2
  <2> QED
    BY <2>1 DEF Plays
<1>3. ASSUME NEW e \in Mine
      PROVE  e[1] \in Feeds /\ e[2] \in Nat /\ e[2] > 0
  <2>1. PICK f \in Feeds : e \in {f} \X (1..LastPlay[f])
    BY DEF Mine
  <2> QED
    BY <2>1
<1> QED
  BY <1>1, <1>2, <1>3

LEMMA PlayTypes ==
  ASSUME PlayConstants, PlayInv
  PROVE  /\ played \in [Feeds -> Plays] /\ cursors \in [Feeds -> Plays]
         /\ \A f \in Feeds : played[f] \in Nat /\ cursors[f] \in Nat
         /\ jobs \in [Jobs -> Job]
         /\ \A j \in Jobs :
              /\ jobs[j] \in Job /\ Tracks(jobs[j])
              /\ jobs[j].since \in [Feeds -> Plays] /\ jobs[j].seen \in [Feeds -> Plays]
              /\ \A f \in Feeds : jobs[j].since[f] \in Nat /\ jobs[j].seen[f] \in Nat
         /\ Quiet \in Job /\ Tracks(Quiet)
         /\ events \subseteq Mine /\ rolledOff \subseteq Feeds \X Plays
         /\ stored \in BOOLEAN /\ lock \in Jobs \cup {None} /\ outages \in 0..MaxOutages
<1>1. /\ played \in [Feeds -> Plays] /\ cursors \in [Feeds -> Plays]
      /\ \A f \in Feeds : played[f] \in Nat /\ cursors[f] \in Nat
  BY PlayPositions DEF PlayInv, TypeOK
<1>2. \A x \in Job : /\ x.since \in [Feeds -> Plays] /\ x.seen \in [Feeds -> Plays]
                       /\ \A f \in Feeds : x.since[f] \in Nat /\ x.seen[f] \in Nat
  BY PlayPositions DEF Job
<1>3. jobs \in [Jobs -> Job] /\ \A j \in Jobs : Tracks(jobs[j])
  BY DEF PlayInv, TypeOK
<1>4. \A f \in Feeds : 0 \in Plays
  BY PlayPositions
<1>5. Quiet \in Job
  BY <1>4 DEF Quiet, Job
<1>6. Tracks(Quiet)
  BY <1>1, PlayPositions DEF Quiet, Tracks, Covered
<1> QED
  BY <1>1, <1>2, <1>3, <1>5, <1>6 DEF PlayInv, TypeOK

\* A step of one job that saves nothing: what it may do to the rest of the state.
LEMMA PlayJob ==
  ASSUME PlayConstants, PlayInv, NEW j \in Jobs, NEW x \in Job, Tracks(x), jobs' = [jobs EXCEPT ![j] = x],
         UNCHANGED <<played, cursors, stored, events>>,
         rolledOff \subseteq rolledOff', rolledOff' \subseteq Feeds \X Plays,
         lock' \in {lock, j, None}, outages' \in 0..MaxOutages
  PROVE  PlayInv'
<1>1. /\ jobs' \in [Jobs -> Job] /\ jobs'[j] = x
      /\ \A i \in Jobs \ {j} : jobs'[i] = jobs[i]
  BY PlayTypes
<1>2. TypeOK'
  BY <1>1 DEF PlayInv, TypeOK
<1>3. \A f \in Feeds : \A c : Covered(f, c) => Covered(f, c)'
  BY DEF Covered
<1>4. ASSUME NEW y, Tracks(y)
      PROVE  Tracks(y)'
  BY <1>3, <1>4 DEF Tracks
<1>5. ASSUME NEW i \in Jobs
      PROVE  Tracks(jobs[i])'
  <2>1. jobs'[i] = x \/ jobs'[i] = jobs[i]
    BY <1>1
  <2>2. PICK y : y = jobs'[i] /\ Tracks(y)
    BY <2>1 DEF PlayInv
  <2>3. Tracks(y)'
    BY <1>4, <2>2
  <2> QED
    BY <2>2, <2>3 DEF Tracks, Covered
<1>6. ASSUME NEW f \in Feeds
      PROVE  (/\ played[f] <= LastPlay[f] /\ cursors[f] <= played[f]
              /\ Covered(f, cursors[f]))'
  BY <1>3 DEF PlayInv, Covered
<1> QED
  BY <1>2, <1>5, <1>6 DEF PlayInv

LEMMA PlayFinishes ==
  ASSUME PlayConstants, PlayInv, NEW j \in Jobs, Finish(j), lock' \in {lock, j, None},
         UNCHANGED <<played, cursors, stored, events, rolledOff>>, outages' \in 0..MaxOutages
  PROVE  PlayInv'
<1>1. jobs' = [jobs EXCEPT ![j] = Quiet]
  BY DEF Finish
<1> QED
  BY <1>1, PlayJob, PlayTypes

LEMMA PlayPlays ==
  ASSUME PlayConstants, PlayInv, NEW f \in Feeds, Play(f)
  PROVE  PlayInv'
<1>1. /\ UNCHANGED <<rolledOff, events, cursors, stored, lock, jobs, outages>>
      /\ played' = [played EXCEPT ![f] = played[f] + 1] /\ played[f] < LastPlay[f]
  BY DEF Play
<1>2. played[f] + 1 \in Plays /\ played[f] + 1 \in Nat /\ played[f] + 1 <= LastPlay[f]
  BY <1>1, PlayTypes, PlayPositions
<1>3. /\ played' \in [Feeds -> Plays] /\ played'[f] = played[f] + 1
      /\ \A g \in Feeds \ {f} : played'[g] = played[g]
  BY <1>1, <1>2, PlayTypes
<1>4. \A g \in Feeds : /\ played'[g] \in Nat /\ played[g] <= played'[g] /\ played'[g] <= LastPlay[g]
  BY <1>2, <1>3, PlayTypes DEF PlayInv
<1>5. \A g \in Feeds : \A c : Covered(g, c) => Covered(g, c)'
  BY <1>1 DEF Covered
<1>6. ASSUME NEW i \in Jobs PROVE Tracks(jobs[i])'
  <2>1. Tracks(jobs[i]) /\ UNCHANGED jobs
    BY <1>1, PlayTypes
  <2>2. \A g \in Feeds : jobs[i].since[g] <= played'[g] /\ jobs[i].seen[g] <= played'[g]
    BY <1>4, <2>1, PlayTypes DEF Tracks
  <2> QED
    BY <1>1, <2>1, <2>2 DEF Tracks, Covered
<1>7. TypeOK'
  BY <1>1, <1>3 DEF PlayInv, TypeOK
<1>8. \A g \in Feeds : cursors[g] <= played'[g]
  BY <1>4, PlayTypes DEF PlayInv
<1> QED
  BY <1>1, <1>4, <1>6, <1>7, <1>8 DEF PlayInv, Covered

\* The first steps of a job.
LEMMA PlayStarts ==
  ASSUME PlayConstants, PlayInv, NEW j \in Jobs,
         \/ Launch(j) \/ Lock(j) \/ ReadState(j)
         \/ \E listed \in SUBSET Feeds : DiscoverSome(j, listed) \/ DiscoverAll(j)
  PROVE  PlayInv'
<1>1. /\ jobs[j] \in Job /\ Tracks(jobs[j])
  BY PlayTypes
<1>2. ASSUME NEW stage \in {"locking", "reading"}, jobs' = [jobs EXCEPT ![j].stage = stage],
             jobs[j].stage \in {"idle", "locking"},
             UNCHANGED <<played, cursors, stored, events, rolledOff, outages>>, lock' \in {lock, j}
      PROVE  PlayInv'
  <2> DEFINE x == [jobs[j] EXCEPT !.stage = stage]
  <2>1. /\ x \in Job /\ x.since = jobs[j].since /\ x.seen = jobs[j].seen /\ x.good = jobs[j].good
        /\ x.todo = jobs[j].todo /\ x.feed = jobs[j].feed
    BY <1>1 DEF Job
  <2>2. jobs' = [jobs EXCEPT ![j] = x]
    BY <1>2
  <2> HIDE DEF x
  <2>3. Tracks(x)
    BY <1>1, <1>2, <2>1 DEF Tracks
  <2> QED
    BY <1>2, <2>1, <2>2, <2>3, PlayJob, PlayTypes
<1>3. CASE Launch(j)
  BY <1>2, <1>3 DEF Launch
<1>4. CASE Lock(j)
  <2>1. CASE lock = None
    BY <1>2, <1>4, <2>1 DEF Lock
  <2>2. CASE lock # None
    BY <1>4, <2>2, PlayFinishes, PlayTypes DEF Lock
  <2> QED
    BY <2>1, <2>2
<1>5. CASE ReadState(j)
  <2> DEFINE x == [jobs[j] EXCEPT !.stage = "discovering", !.row = IF stored THEN "same" ELSE "none",
                                  !.since = cursors, !.seen = cursors]
  <2>1. /\ x \in Job /\ x.since = cursors /\ x.seen = cursors /\ x.good = jobs[j].good
        /\ x.todo = jobs[j].todo /\ x.feed = jobs[j].feed
    BY <1>1, PlayTypes DEF Job
  <2>2. /\ jobs' = [jobs EXCEPT ![j] = x] /\ jobs[j].stage = "reading"
        /\ UNCHANGED <<played, rolledOff, events, cursors, stored, lock, outages>>
    BY <1>5 DEF ReadState
  <2> HIDE DEF x
  <2>3. Tracks(x)
    BY <1>1, <2>1, <2>2, PlayTypes DEF Tracks, PlayInv
  <2> QED
    BY <2>1, <2>2, <2>3, PlayJob, PlayTypes
<1>6. ASSUME NEW listed \in SUBSET Feeds, Discover(j, listed), outages' \in 0..MaxOutages
      PROVE  PlayInv'
  <2> DEFINE x == [jobs[j] EXCEPT !.stage = "listing", !.todo = listed]
  <2>1. /\ x \in Job /\ x.since = jobs[j].since /\ x.seen = jobs[j].seen /\ x.good = jobs[j].good
        /\ x.feed = jobs[j].feed
    BY <1>1 DEF Job
  <2>2. /\ jobs' = [jobs EXCEPT ![j] = x] /\ jobs[j].stage = "discovering"
        /\ UNCHANGED <<played, rolledOff, events, cursors, stored, lock>>
    BY <1>6 DEF Discover
  <2> HIDE DEF x
  <2>3. Tracks(x)
    BY <1>1, <2>1, <2>2 DEF Tracks
  <2> QED
    BY <1>6, <2>1, <2>2, <2>3, PlayJob, PlayTypes
<1>7. ASSUME NEW listed \in SUBSET Feeds, DiscoverSome(j, listed) \/ DiscoverAll(j)
      PROVE  PlayInv'
  <2>1. CASE DiscoverSome(j, listed)
    <3>1. outages' \in 0..MaxOutages
      BY <2>1, PlayTypes DEF DiscoverSome
    <3> QED
      BY <1>6, <2>1, <3>1 DEF DiscoverSome
  <2>2. CASE DiscoverAll(j)
    BY <1>6, <2>2, PlayTypes DEF DiscoverAll
  <2> QED
    BY <1>7, <2>1, <2>2
<1> QED
  BY <1>3, <1>4, <1>5, <1>7

\* A page of a feed moves the feed on, to the end of it or not.
LEMMA PlayFetches ==
  ASSUME PlayConstants, PlayInv, NEW j \in Jobs, NEW f \in Feeds, FetchPage(j, f)
  PROVE  PlayInv'
<1>1. /\ jobs[j] \in Job /\ Tracks(jobs[j]) /\ jobs[j].stage = "listing" /\ f \in jobs[j].todo
      /\ jobs[j].feed \in {None, f} /\ jobs[j].seen \in [Feeds -> Plays]
      /\ jobs[j].seen[f] \in Nat /\ played[f] \in Nat /\ jobs[j].seen[f] <= played[f]
      /\ UNCHANGED <<played, events, cursors, stored, lock, outages>>
  BY PlayTypes DEF FetchPage, Asked, Tracks
<1>2. ASSUME NEW n \in Nat, n <= played[f]
      PROVE  /\ n \in Plays /\ [jobs[j].seen EXCEPT ![f] = n] \in [Feeds -> Plays]
             /\ [jobs[j].seen EXCEPT ![f] = n][f] = n
             /\ \A g \in Feeds \ {f} : [jobs[j].seen EXCEPT ![f] = n][g] = jobs[j].seen[g]
  <2>1. n <= LastPlay[f]
    BY <1>1, <1>2 DEF PlayInv
  <2>2. n \in Plays
    BY <2>1, PlayPositions
  <2> QED
    BY <1>1, <2>2
<1>3. ASSUME NEW n \in Nat, n <= played[f], Closed(j, f, n),
             rolledOff \subseteq rolledOff', rolledOff' \subseteq Feeds \X Plays
      PROVE  PlayInv'
  <2> DEFINE seen == [jobs[j].seen EXCEPT ![f] = n]
             x == [jobs[j] EXCEPT !.feed = None, !.todo = jobs[j].todo \ {f}, !.seen = seen,
                                  !.good = jobs[j].good \cup {f}]
  <2>1. /\ seen \in [Feeds -> Plays] /\ seen[f] = n
        /\ \A g \in Feeds \ {f} : seen[g] = jobs[j].seen[g]
    BY <1>2, <1>3
  <2>2. jobs' = [jobs EXCEPT ![j] = x]
    BY <1>3 DEF Closed
  <2> HIDE DEF seen
  <2>3. /\ x \in Job /\ x.since = jobs[j].since /\ x.seen = seen
        /\ x.good = jobs[j].good \cup {f} /\ x.feed = None
    BY <1>1, <2>1 DEF Job
  <2> HIDE DEF x
  <2>4. Tracks(x)
    BY <1>1, <1>3, <2>1, <2>3 DEF Tracks
  <2> QED
    BY <1>1, <1>3, <2>2, <2>3, <2>4, PlayJob, PlayTypes
<1>4. CASE Recent
  <2>1. /\ Closed(j, f, played[f])
        /\ rolledOff' = rolledOff \cup
             ({f} \X {p \in 1..LastPlay[f] : jobs[j].since[f] < p /\ p <= played[f] - Window})
    BY <1>4 DEF FetchPage, AccountPage
  <2>2. \A p \in 1..LastPlay[f] : p \in Plays
    BY PlayPositions
  <2>3. rolledOff \subseteq rolledOff' /\ rolledOff' \subseteq Feeds \X Plays
    BY <2>1, <2>2, PlayTypes
  <2>4. PICK n \in Nat : n = played[f]
    BY <1>1
  <2> QED
    BY <1>3, <2>1, <2>3, <2>4
<1>5. CASE ~Recent
  <2> DEFINE more == More(f, jobs[j].seen[f])
             n == jobs[j].seen[f] + (IF more < PageSize THEN more ELSE PageSize)
  <2>1. n \in Nat /\ n <= played[f]
    BY <1>1 DEF More
  <2>2. /\ IF More(f, n) = 0 THEN Closed(j, f, n)
           ELSE jobs' = [jobs EXCEPT ![j] = [@ EXCEPT !.feed = f, !.seen[f] = n]]
        /\ UNCHANGED rolledOff
    BY <1>5 DEF FetchPage, ServerPage
  <2>3. PICK m \in Nat : m = n
    BY <2>1
  <2> HIDE DEF n
  <2>4. CASE More(f, m) = 0
    BY <1>3, <2>1, <2>2, <2>3, <2>4, PlayTypes
  <2>5. CASE More(f, m) # 0
    <3> DEFINE seen == [jobs[j].seen EXCEPT ![f] = m]
               x == [jobs[j] EXCEPT !.feed = f, !.seen = seen]
    <3>1. /\ seen \in [Feeds -> Plays] /\ seen[f] = m
          /\ \A g \in Feeds \ {f} : seen[g] = jobs[j].seen[g]
      BY <1>2, <2>1, <2>3
    <3>2. jobs' = [jobs EXCEPT ![j] = [@ EXCEPT !.feed = f, !.seen[f] = m]]
      BY <2>2, <2>3, <2>5
    <3>3. jobs' = [jobs EXCEPT ![j] = x]
      BY <3>2
    <3> HIDE DEF seen
    <3>4. /\ x \in Job /\ x.since = jobs[j].since /\ x.seen = seen
          /\ x.good = jobs[j].good /\ x.feed = f /\ x.todo = jobs[j].todo /\ x.stage = "listing"
      BY <1>1, <3>1 DEF Job
    <3> HIDE DEF x
    <3>5. Tracks(x)
      BY <1>1, <2>1, <2>3, <3>1, <3>4 DEF Tracks
    <3> QED
      BY <1>1, <2>2, <3>3, <3>4, <3>5, PlayJob, PlayTypes
  <2> QED
    BY <2>4, <2>5
<1> QED
  BY <1>4, <1>5

LEMMA PlayFails ==
  ASSUME PlayConstants, PlayInv, NEW j \in Jobs, NEW f \in Feeds, FeedFails(j, f)
  PROVE  PlayInv'
<1> DEFINE seen == [jobs[j].seen EXCEPT ![f] = jobs[j].since[f]]
           x == [jobs[j] EXCEPT !.feed = None, !.todo = jobs[j].todo \ {f}, !.seen = seen]
<1>1. /\ jobs[j] \in Job /\ Tracks(jobs[j]) /\ jobs[j].feed \in {None, f}
      /\ jobs[j].seen \in [Feeds -> Plays] /\ jobs[j].since \in [Feeds -> Plays]
      /\ UNCHANGED <<played, rolledOff, events, cursors, stored>> /\ outages' \in 0..MaxOutages
  BY PlayTypes DEF FeedFails, Asked
<1>2. /\ seen \in [Feeds -> Plays] /\ seen[f] = jobs[j].since[f]
      /\ \A g \in Feeds \ {f} : seen[g] = jobs[j].seen[g]
  BY <1>1
<1>3. Dropped(j, f) = x
  BY DEF Dropped
<1> HIDE DEF seen
<1>4. /\ x \in Job /\ x.since = jobs[j].since /\ x.seen = seen
      /\ x.good = jobs[j].good /\ x.feed = None
  BY <1>1, <1>2 DEF Job
<1>5. \/ Finish(j) /\ Unlock(j)
      \/ jobs' = [jobs EXCEPT ![j] = x] /\ UNCHANGED lock
  BY <1>3 DEF FeedFails
<1> HIDE DEF x
<1>6. Tracks(x)
  BY <1>1, <1>2, <1>4 DEF Tracks
<1> QED
  BY <1>1, <1>4, <1>5, <1>6, PlayJob, PlayFinishes, PlayTypes DEF Unlock

\* The commit: what lies between the cursor that was read and the one that is saved is stored
\* with it, or was gone before it was listed.
LEMMA PlayCommits ==
  ASSUME PlayConstants, PlayInv, NEW j \in Jobs, CommitSync(j)
  PROVE  PlayInv'
<1>1. /\ jobs[j] \in Job /\ Tracks(jobs[j]) /\ jobs[j].todo = {}
      /\ jobs[j].seen \in [Feeds -> Plays] /\ jobs[j].since \in [Feeds -> Plays]
      /\ UNCHANGED <<played, rolledOff, outages>> /\ lock' \in {lock, j, None}
  BY PlayTypes DEF CommitSync, Unlock
<1>2. CASE Overtaken(j)
  BY <1>1, <1>2, PlayFinishes, PlayTypes DEF CommitSync
<1>3. CASE ~Overtaken(j)
  <2>1. /\ events' = events \cup Fetched(j) /\ cursors' = Advanced(j) /\ stored' = TRUE
        /\ jobs' = [i \in Jobs |->
                      IF i = j THEN Quiet
                      ELSE IF jobs[i].row = "same" THEN [jobs[i] EXCEPT !.row = "changed"] ELSE jobs[i]]
    BY <1>3 DEF CommitSync, Upsert, SaveCursors
  <2>2. \A f \in Feeds \ jobs[j].good : jobs[j].seen[f] = jobs[j].since[f]
    BY <1>1 DEF Tracks
  <2>3. \A f \in Feeds : \A c : Covered(f, c) => Covered(f, c)'
    BY <1>1, <2>1 DEF Covered
  <2>4. ASSUME NEW f \in Feeds, NEW c, c = jobs[j].seen[f]
        PROVE  Covered(f, c)'
    <3>1. /\ Covered(f, jobs[j].since[f]) /\ jobs[j].since[f] \in Nat /\ c \in Nat
      BY <1>1, <2>4, PlayTypes DEF Tracks
    <3>2. ASSUME NEW e \in Mine, e[1] = f, e[2] <= c, ~(e[2] <= jobs[j].since[f])
          PROVE  e \in events' \cup rolledOff'
      <4>1. e[2] \in Nat /\ jobs[j].since[f] < e[2]
        BY <3>1, <3>2, PlayPositions
      <4>2. f \in jobs[j].good
        BY <2>2, <2>4, <3>1, <3>2
      <4> QED
        BY <1>1, <2>1, <2>4, <3>2, <4>1, <4>2 DEF Fetched
    <3> QED
      BY <1>1, <2>1, <3>1, <3>2 DEF Covered
  <2>5. ASSUME NEW f \in Feeds, NEW c, c \in {jobs[j].seen[f], jobs[j].since[f], cursors[f]}
        PROVE  c \in Plays /\ c <= played[f] /\ Covered(f, c)'
    <3>1. c \in Plays /\ c <= played[f]
      BY <1>1, <2>5, PlayTypes DEF Tracks, PlayInv
    <3>2. CASE c = jobs[j].seen[f]
      BY <2>4, <3>1, <3>2
    <3>3. CASE c \in {jobs[j].since[f], cursors[f]}
      BY <1>1, <2>3, <3>1, <3>3 DEF Tracks, PlayInv
    <3> QED
      BY <2>5, <3>1, <3>2, <3>3
  <2>6. DOMAIN cursors' = Feeds /\ cursors' = [f \in Feeds |-> cursors'[f]]
    BY <2>1 DEF Advanced, AdvancedServers, AdvancedAccount
  <2>7. \A f \in Feeds : cursors'[f] \in {jobs[j].seen[f], jobs[j].since[f], cursors[f]}
    BY <2>1 DEF Advanced, AdvancedServers, AdvancedAccount
  <2>8. \A f \in Feeds : cursors'[f] \in Plays /\ cursors'[f] <= played'[f] /\ Covered(f, cursors[f])'
    <3> SUFFICES ASSUME NEW f \in Feeds
                 PROVE  cursors'[f] \in Plays /\ cursors'[f] <= played'[f] /\ Covered(f, cursors[f])'
      OBVIOUS
    <3>1. PICK c : c = cursors'[f] /\ c \in {jobs[j].seen[f], jobs[j].since[f], cursors[f]}
      BY <2>7
    <3>2. c \in Plays /\ c <= played[f] /\ Covered(f, c)'
      BY <2>5, <3>1
    <3> QED
      BY <1>1, <3>1, <3>2 DEF Covered
  <2>9. Fetched(j) \subseteq Mine
    BY DEF Fetched
  <2> DEFINE Marked(x) == [x EXCEPT !.row = "changed"]
  <2>10. ASSUME NEW x \in Job
         PROVE  Marked(x) \in Job /\ (Tracks(x) => Tracks(Marked(x)))
    <3>1. /\ Marked(x) \in Job /\ Marked(x).since = x.since /\ Marked(x).seen = x.seen
          /\ Marked(x).good = x.good /\ Marked(x).todo = x.todo /\ Marked(x).feed = x.feed
          /\ Marked(x).stage = x.stage
      BY DEF Job
    <3> HIDE DEF Marked
    <3> QED
      BY <3>1 DEF Tracks
  <2>11. ASSUME NEW i \in Jobs
         PROVE  jobs'[i] \in Job /\ Tracks(jobs'[i])
    <3>1. jobs[i] \in Job /\ Tracks(jobs[i]) /\ Quiet \in Job /\ Tracks(Quiet)
      BY PlayTypes
    <3>2. jobs'[i] \in {Quiet, jobs[i], Marked(jobs[i])}
      BY <2>1
    <3> HIDE DEF Marked
    <3> QED
      BY <2>10, <3>1, <3>2
  <2>12. ASSUME NEW i \in Jobs
         PROVE  Tracks(jobs[i])'
    <3>1. PICK y : y = jobs'[i] /\ Tracks(y)
      BY <2>11
    <3>2. Tracks(y)'
      BY <1>1, <2>3, <3>1 DEF Tracks
    <3> QED
      BY <3>1, <3>2 DEF Tracks, Covered
  <2>13. jobs' \in [Jobs -> Job] /\ cursors' \in [Feeds -> Plays]
    BY <2>1, <2>6, <2>8, <2>11
  <2>14. TypeOK'
    BY <1>1, <2>1, <2>9, <2>13, PlayTypes DEF TypeOK
  <2>15. \A f \in Feeds : played'[f] <= LastPlay[f]
    BY <1>1 DEF PlayInv
  <2> QED
    BY <2>8, <2>12, <2>14, <2>15 DEF PlayInv
<1> QED
  BY <1>2, <1>3

LEMMA PlayStep ==
  ASSUME PlayConstants, PlayInv, [Next]_mvars
  PROVE  PlayInv'
<1>1. CASE UNCHANGED mvars
  BY <1>1 DEF mvars, PlayInv, TypeOK, Tracks, Covered
<1>2. ASSUME NEW j \in Jobs, Lost(j)
      PROVE  PlayInv'
  <2>1. /\ Finish(j) /\ lock' \in {lock, j, None}
        /\ UNCHANGED <<played, rolledOff, events, cursors, stored>> /\ outages' \in 0..MaxOutages
    BY <1>2, PlayTypes DEF Lost, Unlock
  <2> QED
    BY <2>1, PlayFinishes
<1>3. Listings \subseteq SUBSET Feeds
  BY DEF Listings
<1>4. ASSUME NEW j \in Jobs, Step(j)
      PROVE  PlayInv'
  <2>1. CASE DiscoverAll(j)
    <3>1. Feeds \in SUBSET Feeds
      OBVIOUS
    <3>2. \E listed \in SUBSET Feeds : DiscoverSome(j, listed) \/ DiscoverAll(j)
      BY <2>1, <3>1
    <3> QED
      BY <3>2, PlayStarts
  <2> QED
    BY <1>4, <2>1, PlayStarts, PlayFetches, PlayCommits DEF Step
<1>5. ASSUME NEW j \in Jobs, NEW listed \in Listings, DiscoverSome(j, listed)
      PROVE  PlayInv'
  BY <1>3, <1>5, PlayStarts
<1> QED
  BY <1>1, <1>2, <1>4, <1>5, PlayPlays, PlayStarts, PlayFails DEF Next

LEMMA PlayInit ==
  ASSUME PlayConstants, Init
  PROVE  PlayInv
<1>1. /\ played = [f \in Feeds |-> 0] /\ rolledOff = {} /\ events = {} /\ cursors = [f \in Feeds |-> 0]
      /\ stored = FALSE /\ lock = None /\ jobs = [j \in Jobs |-> Quiet] /\ outages = 0
  BY DEF Init
<1>2. \A f \in Feeds : 0 \in Plays
  BY PlayPositions
<1>3. Quiet \in Job
  BY <1>2 DEF Quiet, Job
<1>4. Tracks(Quiet)
  BY <1>1, PlayPositions DEF Quiet, Tracks, Covered
<1>5. outages \in 0..MaxOutages
  BY <1>1
<1>6. TypeOK
  BY <1>1, <1>2, <1>3, <1>5 DEF TypeOK
<1>7. \A f \in Feeds : /\ played[f] <= LastPlay[f] /\ cursors[f] <= played[f]
                       /\ Covered(f, cursors[f])
  BY <1>1, PlayPositions DEF Covered
<1> QED
  BY <1>1, <1>4, <1>6, <1>7 DEF PlayInv

LEMMA PlayCovered ==
  ASSUME PlayConstants, PlayInv
  PROVE  TypeOK /\ CursorCoversEvents
BY PlayPositions DEF PlayInv, Covered, CursorCoversEvents

=================================================================================

------------------------- MODULE TelegramSyncProofs -------------------------
(***************************************************************************)
(* Proofs about TelegramSync, for any channels, posts, limits and syncs:   *)
(* types, deletions that are real, texts that are kept, and rate limits    *)
(* that the scheduler honours.                                             *)
(***************************************************************************)
EXTENDS TelegramSync, FiniteSetTheorems, TLAPS

\* What a sync carries from one read to the next is about real posts: it
\* asks for stored ones only, and what it calls missing is gone for good.
JobIsSound(j) ==
    /\ j.phase \in {"loaded", "fetched"} => \A p \in j.previous : Stored(p)
    /\ j.phase \in {"fetched", "reconciled"} => \A p \in DOMAIN j.batch : post[p] # Unposted
    /\ j.phase = "reconciled" => \A p \in j.missing : post[p] = Gone

StoredWasPosted == \A p \in Posts : Stored(p) => post[p] # Unposted

\* The wait a channel is in is recorded in its cursor, and the channels that
\* the scheduler works on, or is about to, are in none.
WaitIsRecorded ==
    /\ \A c \in Channels : flood[c] <= cursor[c].limited
    /\ \A c \in sched.ready : flood[c] = 0
    /\ sched.state = "sleeping" => job["scheduler"] = NoJob
    /\ job["scheduler"] # NoJob =>
          flood[job["scheduler"].channel] = 0 /\ job["scheduler"].channel \notin sched.ready

SyncInv ==
    /\ TypeOK
    /\ \A a \in Actors : JobIsSound(job[a])
    /\ StoredWasPosted
    /\ NoFalseDeletion
    /\ WaitIsRecorded

-----------------------------------------------------------------------------
(***************************************************************************)
(* The pieces of the types.                                                *)
(***************************************************************************)
LEMMA VersionsAreNumbers ==
    /\ Versions \subseteq Nat
    /\ Unposted \notin Versions /\ Gone \notin Versions
    /\ \A p \in Posts : 1 \in Versions
    /\ \A p \in Posts, n \in Versions : n < LastVersion[p] => n + 1 \in Versions
  BY SyncAssumption DEF Versions

LEMMA JobFields ==
    ASSUME NEW j \in Jobs
    PROVE  /\ j.phase \in {"idle", "loaded", "fetched", "reconciled"}
           /\ j # NoJob <=> j.phase # "idle"
           /\ j # NoJob => j.channel \in Channels /\ j.age \in 0 .. MaxFlood
           /\ j.phase \in {"loaded", "fetched"} => j.previous \in SUBSET Posts
           /\ j.phase \in {"fetched", "reconciled"} => j.batch \in Batches
           /\ j.phase = "reconciled" => j.missing \in SUBSET Posts
  BY DEF Jobs, NoJob

LEMMA BatchType ==
    ASSUME NEW b
    PROVE  b \in Batches <=> \E S \in SUBSET Posts : b \in [S -> Versions]
  BY DEF Batches

LEMMA TextsType ==
    ASSUME TypeOK, NEW ps \in SUBSET Posts, \A p \in ps : Visible(p)
    PROVE  /\ Texts(ps) \in Batches
           /\ DOMAIN Texts(ps) \subseteq ps
  <1>1. Texts(ps) \in [{q \in ps : Valid(q)} -> Versions]
    BY DEF Texts, Visible
  <1>. QED  BY <1>1, BatchType DEF Texts

LEMMA NoJobIsSound == NoJob \in Jobs /\ NoJob.phase = "idle" /\ JobIsSound(NoJob)
  BY DEF NoJob, Jobs, JobIsSound

LEMMA Clocks ==
    ASSUME NEW n \in 0 .. MaxFlood
    PROVE  /\ Earlier(n) \in 0 .. MaxFlood /\ Older(n) \in 0 .. MaxFlood
           /\ n = 0 => Earlier(n) = 0
           /\ \A m \in 0 .. MaxFlood : /\ Remaining(n, m) \in 0 .. MaxFlood
                                     /\ n <= m => Earlier(n) <= Earlier(m)
  BY SyncAssumption DEF Earlier, Older, Remaining

LEMMA SyncInitInv == Init => SyncInv
  <1> SUFFICES ASSUME Init PROVE SyncInv
    OBVIOUS
  <1>1. \A a \in Actors : job[a] = NoJob
    BY DEF Init
  <1>2. TypeOK
    BY <1>1, NoJobIsSound, SyncAssumption DEF Init, TypeOK, Starting, Cursors
  <1>3. WaitIsRecorded
    BY SyncAssumption DEF Init, WaitIsRecorded, Starting, Actors
  <1>. QED
    BY <1>1, <1>2, <1>3, NoJobIsSound
    DEF Init, SyncInv, StoredWasPosted, NoFalseDeletion, Stored

-----------------------------------------------------------------------------
(***************************************************************************)
(* The channel.  Gone is for good, and no post becomes Unposted again.     *)
(***************************************************************************)
LEMMA PostsMove ==
    ASSUME SyncInv, NEW q \in Posts, ChannelStep(q)
    PROVE  /\ post' \in [Posts -> Versions \cup {Unposted, Gone}]
           /\ aged' \subseteq Posts
           /\ UNCHANGED <<item, revision, cursor, sched, job, flood, restarts>>
           /\ \A p \in Posts : p = q \/ post'[p] = post[p]
           /\ post'[q] # Unposted \/ post' = post
           /\ post[q] = Gone => post' = post
  <1>1. post \in [Posts -> Versions \cup {Unposted, Gone}] /\ aged \subseteq Posts
    BY DEF SyncInv, TypeOK
  <1>2. CASE Publish(q)
    BY <1>1, <1>2, VersionsAreNumbers, SyncAssumption DEF Publish
  <1>3. CASE EditPost(q)
    <2>1. post[q] + 1 \in Versions
      BY <1>3, VersionsAreNumbers DEF EditPost, Visible
    <2>. QED  BY <1>1, <1>3, <2>1, VersionsAreNumbers DEF EditPost, Visible
  <1>4. CASE DeletePost(q)
    BY <1>1, <1>4, VersionsAreNumbers, SyncAssumption DEF DeletePost, Visible
  <1>5. CASE Age(q)
    BY <1>1, <1>5 DEF Age
  <1>. QED  BY <1>2, <1>3, <1>4, <1>5 DEF ChannelStep

LEMMA ChannelStepInv ==
    ASSUME SyncInv, NEW q \in Posts, ChannelStep(q)
    PROVE  SyncInv'
  <1>1. TypeOK'
    BY PostsMove DEF SyncInv, TypeOK
  <1>2. StoredWasPosted' /\ NoFalseDeletion'
    BY PostsMove DEF SyncInv, StoredWasPosted, NoFalseDeletion, Stored
  <1>3. ASSUME NEW a \in Actors
        PROVE  JobIsSound(job[a])'
    <2>1. job[a] \in Jobs /\ job'[a] = job[a]
      BY PostsMove DEF SyncInv, TypeOK
    <2>2. JobIsSound(job[a])
      BY DEF SyncInv
    <2>3. job[a].phase = "reconciled" => job[a].missing \subseteq Posts
      BY <2>1, JobFields
    <2>4. job[a].phase \in {"fetched", "reconciled"} => DOMAIN job[a].batch \subseteq Posts
      BY <2>1, JobFields, BatchType
    <2>. QED  BY <2>1, <2>2, <2>3, <2>4, PostsMove DEF JobIsSound, Stored
  <1>4. WaitIsRecorded'
    BY PostsMove DEF SyncInv, WaitIsRecorded
  <1>. QED  BY <1>1, <1>2, <1>3, <1>4 DEF SyncInv

-----------------------------------------------------------------------------
(***************************************************************************)
(* Steps that leave the channel and its copy alone.                        *)
(***************************************************************************)
LEMMA SameCopy ==
    ASSUME SyncInv, UNCHANGED <<post, item>>
    PROVE  /\ \A j : JobIsSound(j)' <=> JobIsSound(j)
           /\ StoredWasPosted' /\ NoFalseDeletion'
  BY DEF SyncInv, JobIsSound, StoredWasPosted, NoFalseDeletion, Stored

LEMMA TickStep ==
    ASSUME SyncInv, Tick
    PROVE  SyncInv'
  <1>1. UNCHANGED <<post, aged, item, revision, restarts>>
    BY DEF Tick
  <1>2. ASSUME NEW c \in Channels
        PROVE  /\ cursor[c] \in Cursors /\ flood[c] \in 0 .. MaxFlood
               /\ flood[c] <= cursor[c].limited
               /\ cursor'[c] = [left |-> Earlier(cursor[c].left),
                                limited |-> Earlier(cursor[c].limited)]
               /\ flood'[c] = Earlier(flood[c])
    BY DEF Tick, SyncInv, TypeOK, Cursors, WaitIsRecorded
  <1>3. /\ cursor' = [c \in Channels |-> cursor'[c]] /\ flood' = [c \in Channels |-> flood'[c]]
        /\ job' = [a \in Actors |-> job'[a]]
    BY DEF Tick
  <1>4. ASSUME NEW c \in Channels
        PROVE  /\ cursor'[c] \in Cursors /\ flood'[c] \in 0 .. MaxFlood
               /\ flood'[c] <= cursor'[c].limited
               /\ flood[c] = 0 => flood'[c] = 0
    <2>1. PICK left, limited, wait :
             /\ left = cursor[c].left /\ limited = cursor[c].limited /\ wait = flood[c]
      OBVIOUS
    <2>2. /\ left \in 0 .. MaxFlood /\ limited \in 0 .. MaxFlood /\ wait \in 0 .. MaxFlood
          /\ wait <= limited
          /\ cursor'[c] = [left |-> Earlier(left), limited |-> Earlier(limited)]
          /\ flood'[c] = Earlier(wait)
      BY <1>2, <2>1 DEF Cursors
    <2>3. /\ Earlier(left) \in 0 .. MaxFlood /\ Earlier(limited) \in 0 .. MaxFlood
          /\ Earlier(wait) \in 0 .. MaxFlood /\ Earlier(wait) <= Earlier(limited)
          /\ wait = 0 => Earlier(wait) = 0
      BY <2>2, SyncAssumption DEF Earlier
    <2>. QED  BY <2>1, <2>2, <2>3 DEF Cursors
  <1>5. /\ sched' \in [state : {"sleeping", "cycle"}, ready : SUBSET Channels,
                       age : 0 .. MaxFlood]
        /\ sched'.ready = sched.ready /\ sched'.state = sched.state
    BY Clocks DEF Tick, SyncInv, TypeOK
  <1>6. ASSUME NEW a \in Actors
        PROVE  /\ job'[a] \in Jobs /\ JobIsSound(job'[a])
               /\ job'[a] # NoJob => job[a] # NoJob /\ job'[a].channel = job[a].channel
    <2>1. job[a] \in Jobs /\ JobIsSound(job[a])
      BY DEF SyncInv, TypeOK
    <2>2. CASE job[a] = NoJob
      BY <2>1, <2>2 DEF Tick
    <2>3. CASE job[a] # NoJob
      <3>1. job'[a] = [job[a] EXCEPT !.age = Older(@)]
        BY <2>3 DEF Tick
      <3>2. Older(job[a].age) \in 0 .. MaxFlood
        BY <2>1, <2>3, JobFields, Clocks
      <3>. QED  BY <2>1, <2>3, <3>1, <3>2 DEF Jobs, JobIsSound
    <2>. QED  BY <2>2, <2>3
  <1>7. TypeOK'
    BY <1>1, <1>3, <1>4, <1>5, <1>6 DEF SyncInv, TypeOK
  <1>8. WaitIsRecorded'
    <2>1. \A c \in Channels : flood'[c] <= cursor'[c].limited
      BY <1>4
    <2>2. \A c \in Channels : flood[c] = 0 => flood'[c] = 0
      BY <1>4
    <2>3. sched.ready \subseteq Channels
      BY DEF SyncInv, TypeOK
    <2>4. "scheduler" \in Actors /\ job["scheduler"] \in Jobs
      BY DEF Actors, SyncInv, TypeOK
    <2>5. job["scheduler"] # NoJob => job["scheduler"].channel \in Channels
      BY <2>4, JobFields
    <2>. QED  BY <1>5, <1>6, <2>1, <2>2, <2>3, <2>4, <2>5 DEF SyncInv, WaitIsRecorded
  <1>. QED  BY <1>1, <1>6, <1>7, <1>8, SameCopy DEF SyncInv

\* One job moves on, the schedule with it.
LEMMA JobStep ==
    ASSUME SyncInv, NEW a \in Actors, NEW j \in Jobs, JobIsSound(j),
           job' = [job EXCEPT ![a] = j],
           UNCHANGED <<post, aged, item, revision, cursor, flood, restarts>>,
           sched' \in [state : {"sleeping", "cycle"}, ready : SUBSET Channels,
                       age : 0 .. MaxFlood],
           \A c \in sched'.ready : flood[c] = 0,
           sched'.state = "sleeping" => job'["scheduler"] = NoJob,
           job'["scheduler"] # NoJob =>
              flood[job'["scheduler"].channel] = 0 /\ job'["scheduler"].channel \notin sched'.ready
    PROVE  SyncInv'
  <1>1. \A b \in Actors : job'[b] = IF b = a THEN j ELSE job[b]
    BY DEF SyncInv, TypeOK
  <1>2. TypeOK'
    BY DEF SyncInv, TypeOK
  <1>3. \A b \in Actors : JobIsSound(job'[b])
    BY <1>1 DEF SyncInv
  <1>4. \A b \in Actors : JobIsSound(job[b])'
    BY <1>3, SameCopy
  <1>5. WaitIsRecorded'
    BY DEF SyncInv, WaitIsRecorded
  <1>. QED  BY <1>2, <1>4, <1>5, SameCopy DEF SyncInv

\* What the jobs and the schedule are, for a job that keeps its channel.
LEMMA Scheduled ==
    ASSUME SyncInv
    PROVE  /\ sched \in [state : {"sleeping", "cycle"}, ready : SUBSET Channels,
                         age : 0 .. MaxFlood]
           /\ \A c \in sched.ready : flood[c] = 0
           /\ \A a \in Actors : job[a] \in Jobs /\ JobIsSound(job[a])
           /\ "scheduler" \in Actors
           /\ sched.state = "sleeping" => job["scheduler"] = NoJob
           /\ job["scheduler"] # NoJob =>
                 flood[job["scheduler"].channel] = 0
                 /\ job["scheduler"].channel \notin sched.ready
           /\ \A c \in Channels : cursor[c] \in Cursors
                 /\ flood[c] \in 0 .. MaxFlood /\ flood[c] <= cursor[c].limited
  BY DEF SyncInv, TypeOK, WaitIsRecorded, Actors

LEMMA KeepsChannel ==
    ASSUME SyncInv, NEW a \in Actors, NEW j \in Jobs, JobIsSound(j),
           job[a] # NoJob, j = NoJob \/ j.channel = job[a].channel,
           job' = [job EXCEPT ![a] = j],
           UNCHANGED <<post, aged, item, revision, cursor, sched, flood, restarts>>
    PROVE  SyncInv'
  <1>1. job'["scheduler"] = IF a = "scheduler" THEN j ELSE job["scheduler"]
    BY Scheduled DEF SyncInv, TypeOK
  <1>. QED  BY <1>1, JobStep, Scheduled

\* A sync looks up rows that exist.
LEMMA LoadedJob ==
    ASSUME SyncInv, NEW c \in Channels, NEW age \in 0 .. MaxFlood, NEW j,
           j = [phase |-> "loaded", channel |-> c, age |-> age, previous |-> ToReconcile(c)]
    PROVE  j \in Jobs /\ JobIsSound(j) /\ j # NoJob
  <1>1. \A p \in ToReconcile(c) : p \in Posts /\ Stored(p)
    BY DEF ToReconcile, PostsOf, Stored
  <1>. QED  BY <1>1 DEF Jobs, NoJob, JobIsSound

LEMMA SchedulingStep ==
    ASSUME SyncInv, Scheduling
    PROVE  SyncInv'
  <1>1. CASE Wake \/ Sleep
    <2>1. /\ sched' \in [state : {"sleeping", "cycle"}, ready : SUBSET Channels,
                         age : 0 .. MaxFlood]
          /\ \A c \in sched'.ready : c \in Channels /\ Ready(c)
          /\ UNCHANGED <<post, aged, item, revision, cursor, job, flood, restarts>>
      BY <1>1, SyncAssumption DEF Wake, Sleep
    <2>2. \A c \in sched'.ready : flood[c] = 0
      BY <2>1, Scheduled DEF Ready, Cursors
    <2>3. TypeOK'
      BY <2>1 DEF SyncInv, TypeOK
    <2>4. WaitIsRecorded'
      <3>1. CASE Wake
        BY <1>1, <2>1, <2>2, <3>1 DEF SyncInv, WaitIsRecorded, Wake
      <3>2. CASE Sleep
        BY <2>1, <2>2, <3>2 DEF SyncInv, WaitIsRecorded, Sleep
      <3>. QED  BY <1>1, <3>1, <3>2
    <2>. QED  BY <2>1, <2>3, <2>4, SameCopy DEF SyncInv
  <1>2. ASSUME NEW c \in Channels, ScheduledSync(c)
        PROVE  SyncInv'
    <2>1. PICK j : j = [phase |-> "loaded", channel |-> c, age |-> sched.age,
                        previous |-> ToReconcile(c)]
      OBVIOUS
    <2>2. /\ job' = [job EXCEPT !["scheduler"] = j] /\ c \in sched.ready
          /\ sched' = [sched EXCEPT !.ready = @ \ {c}]
          /\ UNCHANGED <<post, aged, item, revision, cursor, flood, restarts>>
      BY <1>2, <2>1 DEF ScheduledSync, Start
    <2>3. j \in Jobs /\ JobIsSound(j) /\ j.channel = c
      BY <2>1, Scheduled, LoadedJob
    <2>4. sched' \in [state : {"sleeping", "cycle"}, ready : SUBSET Channels,
                      age : 0 .. MaxFlood]
          /\ sched'.ready = sched.ready \ {c} /\ sched'.state = sched.state
          /\ sched.state = "cycle"
      BY <1>2, <2>2, Scheduled DEF ScheduledSync
    <2>5. job'["scheduler"] = j
      BY <2>2, Scheduled DEF SyncInv, TypeOK
    <2>. QED  BY <2>2, <2>3, <2>4, <2>5, Scheduled, JobStep
  <1>. QED  BY <1>1, <1>2 DEF Scheduling

LEMMA ManualSyncStep ==
    ASSUME SyncInv, NEW h \in Handlers, NEW c \in Channels, ManualSync(h, c)
    PROVE  SyncInv'
  <1>1. PICK j : j = [phase |-> "loaded", channel |-> c, age |-> 0,
                      previous |-> ToReconcile(c)]
    OBVIOUS
  <1>2. /\ job' = [job EXCEPT ![h] = j]
        /\ UNCHANGED <<post, aged, item, revision, cursor, sched, flood, restarts>>
    BY <1>1 DEF ManualSync, Start
  <1>3. j \in Jobs /\ JobIsSound(j) /\ h \in Actors /\ h # "scheduler"
    BY <1>1, LoadedJob, SyncAssumption DEF Actors
  <1>4. job'["scheduler"] = job["scheduler"]
    BY <1>2, <1>3, Scheduled DEF SyncInv, TypeOK
  <1>. QED  BY <1>2, <1>3, <1>4, Scheduled, JobStep

-----------------------------------------------------------------------------
(***************************************************************************)
(* sync_channel up to its store, and the ways it fails.                    *)
(***************************************************************************)
LEMMA FetchPostsStep ==
    ASSUME SyncInv, NEW a \in Actors, FetchPosts(a)
    PROVE  SyncInv'
  <1>1. job[a] \in Jobs /\ JobIsSound(job[a]) /\ job[a].phase = "loaded" /\ job[a] # NoJob
    BY Scheduled, JobFields DEF FetchPosts
  <1>2. PICK j : j = [phase |-> "fetched", channel |-> job[a].channel, age |-> job[a].age,
                      previous |-> job[a].previous, batch |-> Texts(Backfill(job[a].channel))]
    OBVIOUS
  <1>3. \A p \in Backfill(job[a].channel) : p \in Posts /\ Visible(p)
    BY DEF Backfill, PostsOf
  <1>4. /\ Texts(Backfill(job[a].channel)) \in Batches
        /\ \A p \in DOMAIN Texts(Backfill(job[a].channel)) : p \in Posts /\ Visible(p)
    BY <1>3, TextsType DEF SyncInv
  <1>5. \A p \in DOMAIN Texts(Backfill(job[a].channel)) : post[p] # Unposted
    BY <1>4, VersionsAreNumbers DEF Visible
  <1>6. j \in Jobs
    BY <1>1, <1>2, <1>4, JobFields DEF Jobs
  <1>7. JobIsSound(j)
    BY <1>1, <1>2, <1>5 DEF JobIsSound
  <1>8. job' = [job EXCEPT ![a] = j]
    BY <1>2 DEF FetchPosts
  <1>. QED  BY <1>1, <1>2, <1>6, <1>7, <1>8, KeepsChannel DEF FetchPosts

\* A stored post that is not returned is gone: it was posted once.
LEMMA MissingIsGone ==
    ASSUME SyncInv, NEW j, j.previous \in SUBSET Posts, \A p \in j.previous : Stored(p)
    PROVE  /\ Missing(j) \in SUBSET Posts
           /\ \A p \in Missing(j) : post[p] = Gone
  BY DEF SyncInv, TypeOK, StoredWasPosted, Missing, Visible

LEMMA RefreshedType ==
    ASSUME SyncInv, NEW batch \in Batches, NEW looked \in SUBSET Posts,
           \A p \in looked : Visible(p), \A p \in DOMAIN batch : post[p] # Unposted
    PROVE  /\ Refreshed(batch, looked) \in Batches
           /\ \A p \in DOMAIN Refreshed(batch, looked) : post[p] # Unposted
  <1>1. PICK late : late = Texts(looked \ DOMAIN batch)
    OBVIOUS
  <1>2. late \in Batches /\ DOMAIN late \subseteq looked
    BY <1>1, TextsType DEF SyncInv
  <1>3. PICK S \in SUBSET Posts : batch \in [S -> Versions]
    BY BatchType
  <1>4. PICK T \in SUBSET Posts : late \in [T -> Versions]
    BY <1>2, BatchType
  <1>5. Refreshed(batch, looked) = [p \in S \cup T |-> IF p \in S THEN batch[p] ELSE late[p]]
    BY <1>1, <1>3, <1>4 DEF Refreshed
  <1>6. Refreshed(batch, looked) \in [S \cup T -> Versions]
    BY <1>3, <1>4, <1>5
  <1>7. \A p \in S \cup T : post[p] # Unposted
    BY <1>2, <1>3, <1>4, VersionsAreNumbers DEF Visible
  <1>. QED  BY <1>5, <1>6, <1>7, BatchType

LEMMA ReconcileStep ==
    ASSUME SyncInv, NEW a \in Actors, Reconcile(a)
    PROVE  SyncInv'
  <1>1. job[a] \in Jobs /\ JobIsSound(job[a]) /\ job[a].phase = "fetched" /\ job[a] # NoJob
    BY Scheduled, JobFields DEF Reconcile
  <1>2. /\ job[a].previous \in SUBSET Posts /\ \A p \in job[a].previous : Stored(p)
        /\ job[a].batch \in Batches /\ \A p \in DOMAIN job[a].batch : post[p] # Unposted
        /\ job[a].channel \in Channels /\ job[a].age \in 0 .. MaxFlood
    BY <1>1, JobFields DEF JobIsSound
  <1>3. PICK batch, missing :
           /\ batch = Refreshed(job[a].batch, {p \in job[a].previous : Visible(p)})
           /\ missing = Missing(job[a])
    OBVIOUS
  <1>4. /\ batch \in Batches /\ \A p \in DOMAIN batch : post[p] # Unposted
        /\ missing \in SUBSET Posts /\ \A p \in missing : post[p] = Gone
    BY <1>2, <1>3, RefreshedType, MissingIsGone
  <1>5. PICK j : j = [phase |-> "reconciled", channel |-> job[a].channel, age |-> job[a].age,
                      batch |-> batch, missing |-> missing]
    OBVIOUS
  <1>6. j \in Jobs
    BY <1>2, <1>4, <1>5 DEF Jobs
  <1>7. JobIsSound(j)
    BY <1>4, <1>5 DEF JobIsSound
  <1>8. job' = [job EXCEPT ![a] = j]
    BY <1>3, <1>5 DEF Reconcile
  <1>. QED  BY <1>1, <1>5, <1>6, <1>7, <1>8, KeepsChannel DEF Reconcile

LEMMA ManualFailureStep ==
    ASSUME SyncInv, NEW h \in Handlers, ManualFailure(h)
    PROVE  SyncInv'
  <1>1. h \in Actors /\ job[h] \in Jobs /\ job[h].phase \in {"loaded", "fetched"}
    BY Scheduled DEF ManualFailure, Failing, Actors
  <1>. QED  BY <1>1, NoJobIsSound, KeepsChannel, JobFields DEF ManualFailure

LEMMA RemainingType ==
    ASSUME NEW n \in 0 .. MaxFlood, NEW m \in 0 .. MaxFlood
    PROVE  Remaining(n, m) \in 0 .. MaxFlood
  BY SyncAssumption DEF Remaining

LEMMA ScheduledFailureStep ==
    ASSUME SyncInv, ScheduledFailure
    PROVE  SyncInv'
  <1>1. /\ job["scheduler"] \in Jobs /\ job["scheduler"] # NoJob
        /\ job["scheduler"].phase \in {"loaded", "fetched"}
    BY Scheduled, JobFields DEF ScheduledFailure, Failing
  <1>2. PICK c, age : c = job["scheduler"].channel /\ age = job["scheduler"].age
    OBVIOUS
  <1>3. c \in Channels /\ age \in 0 .. MaxFlood /\ flood[c] = 0 /\ c \notin sched.ready
    BY <1>1, <1>2, JobFields, Scheduled
  <1>4. PICK left, limited, wait \in 0 .. MaxFlood :
           /\ cursor' = [cursor EXCEPT ![c] = [left |-> left, limited |-> limited]]
           /\ flood' = [flood EXCEPT ![c] = wait]
           /\ wait <= limited
    <2>1. ASSUME NEW n \in 1 .. MaxFlood,
                 /\ Delayed(c, n, n)
                 /\ flood' = [flood EXCEPT ![c] = Remaining(n, age)]
          PROVE  \E left, limited, wait \in 0 .. MaxFlood :
                    /\ cursor' = [cursor EXCEPT ![c] = [left |-> left, limited |-> limited]]
                    /\ flood' = [flood EXCEPT ![c] = wait]
                    /\ wait <= limited
      <3>1. PICK r : r = Remaining(n, age)
        OBVIOUS
      <3>2. r \in 0 .. MaxFlood
        BY <1>3, <3>1, RemainingType, SyncAssumption
      <3>3. /\ cursor' = [cursor EXCEPT ![c] = [left |-> r, limited |-> r]]
            /\ flood' = [flood EXCEPT ![c] = r]
        BY <1>2, <2>1, <3>1 DEF Delayed
      <3>4. r <= r
        BY <3>2
      <3> USE <3>2
      <3> WITNESS r \in 0 .. MaxFlood, r \in 0 .. MaxFlood, r \in 0 .. MaxFlood
      <3>. QED  BY <3>3, <3>4
    <2>2. ASSUME Delayed(c, Interval, 0), UNCHANGED flood
          PROVE  \E left, limited, wait \in 0 .. MaxFlood :
                    /\ cursor' = [cursor EXCEPT ![c] = [left |-> left, limited |-> limited]]
                    /\ flood' = [flood EXCEPT ![c] = wait]
                    /\ wait <= limited
      <3>1. PICK r : r = Remaining(Interval, age)
        OBVIOUS
      <3>2. r \in 0 .. MaxFlood /\ Remaining(0, age) = 0 /\ 0 \in 0 .. MaxFlood
        BY <1>3, <3>1, RemainingType, SyncAssumption DEF Remaining
      <3>3. cursor' = [cursor EXCEPT ![c] = [left |-> r, limited |-> 0]]
        BY <1>2, <2>2, <3>1, <3>2 DEF Delayed
      <3>4. flood' = [flood EXCEPT ![c] = 0]
        BY <1>3, <2>2 DEF SyncInv, TypeOK
      <3> USE <3>2
      <3> WITNESS r \in 0 .. MaxFlood, 0 \in 0 .. MaxFlood, 0 \in 0 .. MaxFlood
      <3>. QED  BY <3>3, <3>4
    <2>. QED  BY <1>2, <2>1, <2>2 DEF ScheduledFailure
  <1>5. /\ job' = [job EXCEPT !["scheduler"] = NoJob]
        /\ UNCHANGED <<post, aged, item, revision, sched, restarts>>
    BY DEF ScheduledFailure
  <1>6. [left |-> left, limited |-> limited] \in Cursors
    BY DEF Cursors
  <1>7. TypeOK'
    BY <1>3, <1>4, <1>5, <1>6, NoJobIsSound DEF SyncInv, TypeOK
  <1>8. \A d \in Channels : flood'[d] <= cursor'[d].limited
    BY <1>3, <1>4, Scheduled DEF SyncInv, TypeOK
  <1>9. WaitIsRecorded'
    BY <1>3, <1>4, <1>5, <1>8, Scheduled DEF SyncInv, TypeOK, WaitIsRecorded
  <1>10. \A a \in Actors : JobIsSound(job'[a])
    BY <1>5, Scheduled, NoJobIsSound DEF SyncInv, TypeOK
  <1>. QED  BY <1>5, <1>7, <1>9, <1>10, SameCopy DEF SyncInv

LEMMA RestartStep ==
    ASSUME SyncInv, Restart
    PROVE  SyncInv'
  <1>1. /\ restarts' \in 0 .. MaxRestarts /\ job' = [a \in Actors |-> NoJob]
        /\ sched' = Starting
        /\ UNCHANGED <<post, aged, item, revision, cursor, flood>>
    BY SyncAssumption DEF Restart, SyncInv, TypeOK
  <1>2. TypeOK'
    BY <1>1, NoJobIsSound, SyncAssumption DEF SyncInv, TypeOK, Starting
  <1>3. WaitIsRecorded'
    BY <1>1, Scheduled DEF SyncInv, WaitIsRecorded, Starting
  <1>. QED  BY <1>1, <1>2, <1>3, NoJobIsSound, SameCopy DEF SyncInv

-----------------------------------------------------------------------------
(***************************************************************************)
(* The store: row ids stay within the posts, a deletion marks a post that  *)
(* is gone, and no version is overwritten without its revision.            *)
(***************************************************************************)
LEMMA RowIds ==
    ASSUME NEW batch, NEW p \in NewRows(batch), DOMAIN batch \subseteq Posts
    PROVE  RowId(p, batch) \in 1 .. Cardinality(Posts)
  <1> DEFINE stored == {q \in Posts : Stored(q)}
             above == {q \in NewRows(batch) : q >= p}
  <1>1. /\ stored \in SUBSET Posts /\ above \in SUBSET Posts /\ p \in above
        /\ stored \cap above = {}
    <2>1. p \in Posts
      BY DEF NewRows
    <2>2. p >= p
      BY <2>1, SyncAssumption
    <2>3. \A q \in NewRows(batch) : q \in Posts /\ ~Stored(q)
      BY DEF NewRows
    <2>. QED  BY <2>1, <2>2, <2>3
  <1>8. RowId(p, batch) = Cardinality(stored) + Cardinality(above)
    BY DEF RowId, Rows
  <1> HIDE DEF stored, above
  <1>2. /\ IsFiniteSet(Posts) /\ IsFiniteSet(stored) /\ IsFiniteSet(above)
        /\ IsFiniteSet(stored \cup above) /\ stored \cup above \in SUBSET Posts
    BY <1>1, FS_Subset, FS_Union, SyncAssumption
  <1>3. /\ Cardinality(Posts) \in Nat /\ Cardinality(stored) \in Nat
        /\ Cardinality(above) \in Nat
    BY <1>2, FS_CardinalityType
  <1>4. Cardinality(above) # 0 /\ Cardinality({}) = 0
    BY <1>1, <1>2, FS_EmptySet
  <1>5. Cardinality(stored \cup above) = Cardinality(stored) + Cardinality(above)
    <2>1. Cardinality(stored \cup above)
             = Cardinality(stored) + Cardinality(above) - Cardinality(stored \cap above)
      BY <1>2, FS_Union
    <2>2. Cardinality(stored \cap above) = 0
      BY <1>1, <1>4
    <2>. QED  BY <1>3, <2>1, <2>2
  <1>6. Cardinality(stored \cup above) <= Cardinality(Posts)
    BY <1>2, FS_Subset
  <1>. QED  BY <1>3, <1>4, <1>5, <1>6, <1>8

\* What the store makes of the row of a post.
LEMMA StoredRow ==
    ASSUME SyncInv, NEW j \in Jobs, JobIsSound(j), j.phase = "reconciled",
           NEW p \in Posts, NEW row, row = StoreItem(p, j)
    PROVE  /\ row \in Items \cup {None}
           /\ Stored(p) => row \in Items
           /\ Stored(p) /\ row.version # item[p].version =>
                 p \in DOMAIN j.batch /\ row.version = j.batch[p]
           /\ row # None => post[p] # Unposted
           /\ row # None /\ row.deleted => post[p] = Gone
  <1>1. PICK S \in SUBSET Posts : j.batch \in [S -> Versions]
    BY JobFields, BatchType
  <1>2. item[p] \in Items \cup {None}
    BY DEF SyncInv, TypeOK
  <1>3. p \in S => j.batch[p] \in Versions /\ post[p] # Unposted
    BY <1>1 DEF JobIsSound
  <1>4. CASE p \in NewRows(j.batch)
    <2>1. RowId(p, j.batch) \in 1 .. Cardinality(Posts)
      BY <1>1, <1>4, RowIds
    <2>2. row = [id |-> RowId(p, j.batch), version |-> j.batch[p], deleted |-> FALSE]
      BY <1>4 DEF StoreItem
    <2>3. p \in S /\ ~Stored(p)
      BY <1>1, <1>4 DEF NewRows
    <2>. QED  BY <1>3, <2>1, <2>2, <2>3 DEF Items
  <1>5. CASE p \notin NewRows(j.batch) /\ ~Stored(p)
    <2>1. row = None
      BY <1>5 DEF StoreItem
    <2>. QED  BY <1>5, <2>1
  <1>6. CASE p \notin NewRows(j.batch) /\ Stored(p)
    <2>1. item[p] \in Items
      BY <1>2, <1>6 DEF Stored
    <2>2. /\ row = [item[p] EXCEPT
                       !.version = IF p \in DOMAIN j.batch THEN j.batch[p] ELSE @,
                       !.deleted = @ \/ p \in j.missing]
      BY <1>6 DEF StoreItem
    <2>3. /\ item[p].id \in 1 .. Cardinality(Posts) /\ item[p].version \in Versions
          /\ item[p].deleted \in BOOLEAN
      BY <2>1 DEF Items
    <2>4. PICK version, deleted :
             /\ version = IF p \in S THEN j.batch[p] ELSE item[p].version
             /\ deleted = (item[p].deleted \/ p \in j.missing)
      OBVIOUS
    <2>5. version \in Versions /\ deleted \in BOOLEAN
      BY <1>3, <2>3, <2>4
    <2>6. row = [id |-> item[p].id, version |-> version, deleted |-> deleted]
      BY <1>1, <2>1, <2>2, <2>4 DEF Items
    <2>7. post[p] # Unposted /\ (deleted => post[p] = Gone)
      BY <1>6, <2>4 DEF SyncInv, StoredWasPosted, NoFalseDeletion, JobIsSound
    <2>. QED  BY <1>1, <2>3, <2>4, <2>5, <2>6, <2>7 DEF Items
  <1>. QED  BY <1>4, <1>5, <1>6

LEMMA StoreStep ==
    ASSUME SyncInv, NEW a \in Actors, Store(a)
    PROVE  /\ SyncInv'
           /\ \A p \in Posts : Stored(p) =>
                 /\ item'[p] # None
                 /\ item'[p].version # item[p].version =>
                       [post |-> p, version |-> item[p].version] \in revision'
  <1>1. PICK j : j = job[a]
    OBVIOUS
  <1>2. j \in Jobs /\ JobIsSound(j) /\ j.phase = "reconciled"
    BY <1>1, Scheduled DEF Store
  <1>3. /\ item' = [p \in Posts |-> StoreItem(p, j)]
        /\ revision' = revision \cup {RevisionOf(p, j.batch) : p \in Overwritten(j.batch)}
        /\ cursor' = [cursor EXCEPT ![j.channel].left = Remaining(Interval, j.age)]
        /\ job' = [job EXCEPT ![a] = NoJob]
        /\ UNCHANGED <<post, aged, sched, flood, restarts>>
    BY <1>1 DEF Store
  <1>4. ASSUME NEW p \in Posts
        PROVE  /\ item'[p] \in Items \cup {None}
               /\ Stored(p) => item'[p] \in Items
               /\ Stored(p) /\ item'[p].version # item[p].version =>
                     p \in DOMAIN j.batch /\ item'[p].version = j.batch[p]
               /\ item'[p] # None => post[p] # Unposted
               /\ item'[p] # None /\ item'[p].deleted => post[p] = Gone
    <2>1. PICK row : row = StoreItem(p, j)
      OBVIOUS
    <2>2. item'[p] = row
      BY <1>3, <2>1
    <2>. QED  BY <1>2, <2>1, <2>2, StoredRow
  <1>5. item' \in [Posts -> Items \cup {None}]
    BY <1>3, <1>4
  <1>6. revision' \subseteq [post : Posts, version : Versions]
    <2>1. PICK S \in SUBSET Posts : j.batch \in [S -> Versions]
      BY <1>2, JobFields, BatchType
    <2>2. ASSUME NEW p \in Overwritten(j.batch)
          PROVE  RevisionOf(p, j.batch) \in [post : Posts, version : Versions]
      <3>1. p \in Posts /\ item[p] # None
        BY <2>1, <2>2 DEF Overwritten, Stored
      <3>2. item[p] \in Items
        BY <3>1 DEF SyncInv, TypeOK
      <3>. QED  BY <3>1, <3>2 DEF RevisionOf, Items
    <2>. QED  BY <1>3, <2>2 DEF SyncInv, TypeOK
  <1>7. PICK c, left : c = j.channel /\ left = Remaining(Interval, j.age)
    OBVIOUS
  <1>8. c \in Channels /\ left \in 0 .. MaxFlood
    <2>1. j # NoJob
      BY <1>2, JobFields
    <2>2. j.channel \in Channels /\ j.age \in 0 .. MaxFlood /\ Interval \in 0 .. MaxFlood
      BY <1>2, <2>1, JobFields, SyncAssumption
    <2>. QED  BY <1>7, <2>2, RemainingType
  <1>9. /\ cursor \in [Channels -> Cursors]
        /\ cursor' = [cursor EXCEPT ![c] = [cursor[c] EXCEPT !.left = left]]
        /\ [cursor[c] EXCEPT !.left = left] \in Cursors
        /\ [cursor[c] EXCEPT !.left = left].limited = cursor[c].limited
    BY <1>3, <1>7, <1>8 DEF SyncInv, TypeOK, Cursors
  <1>10. cursor' \in [Channels -> Cursors]
    BY <1>9
  <1>11. \A d \in Channels : cursor'[d].limited = cursor[d].limited
    BY <1>9
  <1>12. /\ job' \in [Actors -> Jobs]
         /\ \A b \in Actors : job'[b] = IF b = a THEN NoJob ELSE job[b]
    BY <1>3, NoJobIsSound DEF SyncInv, TypeOK
  <1>13. TypeOK'
    BY <1>3, <1>5, <1>6, <1>10, <1>12 DEF SyncInv, TypeOK
  <1>14. ASSUME NEW p \in Posts, Stored(p)
         PROVE  item'[p] # None
    BY <1>4, <1>14, NoRowAssumption
  <1>15. StoredWasPosted' /\ NoFalseDeletion'
    BY <1>3, <1>4 DEF StoredWasPosted, NoFalseDeletion, Stored
  <1>16. ASSUME NEW b \in Actors
         PROVE  JobIsSound(job[b])'
    <2>1. job[b] \in Jobs /\ JobIsSound(job[b])
      BY Scheduled
    <2>2. job[b].phase \in {"loaded", "fetched"} =>
             job[b].previous \subseteq Posts
      BY <2>1, JobFields
    <2>. QED
      BY <1>3, <1>12, <1>14, <2>1, <2>2, NoJobIsSound DEF JobIsSound, Stored
  <1>17. WaitIsRecorded'
    BY <1>3, <1>11, <1>12, Scheduled DEF SyncInv, WaitIsRecorded
  <1>18. ASSUME NEW p \in Posts, Stored(p), item'[p].version # item[p].version
         PROVE  [post |-> p, version |-> item[p].version] \in revision'
    <2>1. p \in Overwritten(j.batch)
      BY <1>4, <1>18 DEF Overwritten
    <2>. QED  BY <1>3, <2>1 DEF RevisionOf
  <1>. QED  BY <1>13, <1>14, <1>15, <1>16, <1>17, <1>18 DEF SyncInv

LEMMA StutterStep ==
    ASSUME SyncInv, UNCHANGED vars
    PROVE  SyncInv'
  <1>1. TypeOK'
    BY DEF vars, SyncInv, TypeOK
  <1>2. WaitIsRecorded'
    BY DEF vars, SyncInv, WaitIsRecorded
  <1>. QED  BY <1>1, <1>2, SameCopy DEF vars, SyncInv

LEMMA SyncStep == SyncInv /\ [Next]_vars => SyncInv'
  <1> SUFFICES ASSUME SyncInv, [Next]_vars PROVE SyncInv'
    OBVIOUS
  <1>1. CASE \E p \in Posts : ChannelStep(p)
    BY <1>1, ChannelStepInv
  <1>2. CASE Tick
    BY <1>2, TickStep
  <1>3. CASE Scheduling
    BY <1>3, SchedulingStep
  <1>4. CASE \E h \in Handlers : ManualFailure(h) \/ \E c \in Channels : ManualSync(h, c)
    BY <1>4, ManualFailureStep, ManualSyncStep
  <1>5. CASE \E a \in Actors : Sync(a)
    BY <1>5, FetchPostsStep, ReconcileStep, StoreStep DEF Sync
  <1>6. CASE ScheduledFailure
    BY <1>6, ScheduledFailureStep
  <1>7. CASE Restart
    BY <1>7, RestartStep
  <1>8. CASE UNCHANGED vars
    BY <1>8, StutterStep
  <1>. QED  BY <1>1, <1>2, <1>3, <1>4, <1>5, <1>6, <1>7, <1>8 DEF Next

\* The rows of intake_items are written by a store alone.
LEMMA OnlyStoresWriteRows ==
    ASSUME SyncInv, [Next]_vars, ~ \E a \in Actors : Store(a)
    PROVE  UNCHANGED item
  <1>1. CASE \E p \in Posts : ChannelStep(p)
    BY <1>1 DEF ChannelStep, Publish, EditPost, DeletePost, Age
  <1>2. CASE Tick \/ Scheduling \/ ScheduledFailure \/ Restart
    BY <1>2 DEF Tick, Scheduling, Wake, Sleep, ScheduledSync, ScheduledFailure, Restart
  <1>3. CASE \E h \in Handlers : ManualFailure(h) \/ \E c \in Channels : ManualSync(h, c)
    BY <1>3 DEF ManualFailure, ManualSync
  <1>4. CASE \E a \in Actors : FetchPosts(a) \/ Reconcile(a)
    BY <1>4 DEF FetchPosts, Reconcile
  <1>. QED  BY <1>1, <1>2, <1>3, <1>4 DEF Next, Sync, vars

-----------------------------------------------------------------------------
THEOREM SyncInvariant == Spec => []SyncInv
  BY SyncInitInv, SyncStep, PTL DEF Spec

\* The channel, the tables, the scheduler and the syncs keep their types; in
\* particular the primary keys of the rows stay within the number of posts.
THEOREM SyncTypes == Spec => []TypeOK
  BY SyncInvariant, PTL DEF SyncInv

\* A post marked deleted is gone from its channel.
THEOREM DeletionsAreReal == Spec => []NoFalseDeletion
  BY SyncInvariant, PTL DEF SyncInv

\* No sync overwrites a text that it does not keep as a revision.
THEOREM TextsKept == Spec => TextsAreKept
  <1>1. ASSUME SyncInv, [Next]_vars
        PROVE  [\A p \in Posts : Stored(p) =>
                   /\ item'[p] # None
                   /\ item'[p].version # item[p].version =>
                         [post |-> p, version |-> item[p].version] \in revision']_vars
    <2>1. CASE \E a \in Actors : Store(a)
      BY <1>1, <2>1, StoreStep
    <2>2. CASE ~ \E a \in Actors : Store(a)
      BY <1>1, <2>2, OnlyStoresWriteRows DEF Stored
    <2>. QED  BY <2>1, <2>2
  <1>. QED  BY <1>1, SyncInvariant, PTL DEF Spec, TextsAreKept

\* The scheduler turns to no channel in a wait that it recorded.
THEOREM WaitsAreHonoured == Spec => RateLimitHonoured
  <1>1. ASSUME SyncInv
        PROVE  [\A c \in sched.ready : ScheduledSync(c) => flood[c] = 0]_vars
    BY <1>1, Scheduled
  <1>. QED  BY <1>1, SyncInvariant, PTL DEF Spec, RateLimitHonoured
=============================================================================

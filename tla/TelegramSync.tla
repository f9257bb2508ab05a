---------------------------- MODULE TelegramSync ----------------------------
(***************************************************************************)
(* Collection of approved public Telegram channels: the polling scheduler, *)
(* the "sync now" endpoint, and sync_channel, which both run.              *)
(*                                                                         *)
(* Everything here is a coroutine of one event loop: steps interleave only *)
(* where the code awaits the network, and a database section is one step.  *)
(* Between its reads of the channel and its store, a sync holds no         *)
(* session, so the channel, and the database by another sync, may change.  *)
(*                                                                         *)
(* A post is its message id; its versions are numbered as the channel      *)
(* edits it (the digest holds the edit time, so no two are equal).  Posts  *)
(* that do not normalise go to intake_quarantine, which nothing reads      *)
(* here; nor does any decision read last_message_id, last_status or the    *)
(* failure count, which are left out.  Time is counted in ticks: a cursor  *)
(* holds the ticks left until each of its deadlines.                       *)
(***************************************************************************)
EXTENDS Naturals, FiniteSets

CONSTANTS
    Channels,           \* approved, enabled channels
    Posts,              \* message ids of all channels
    Home,               \* the channel of each post
    LastVersion,        \* bound on the edits of each post
    Invalid,            \* <<post, version>> pairs that _normalized rejects
    Handlers,           \* requests to sync now that may be in progress
    BackfillLimit,      \* BACKFILL_LIMIT
    ReconcileLimit,     \* RECONCILE_LIMIT
    Interval,           \* the five minutes between polls, in ticks
    MaxFlood,           \* bound on a flood wait, in ticks
    MaxRestarts,        \* bound on the restarts of the server
    None,               \* an absent row
    Unposted, Gone      \* a post not published yet, a post deleted

ASSUME SyncAssumption ==
    /\ Posts \subseteq Nat /\ IsFiniteSet(Posts)
    /\ Home \in [Posts -> Channels]
    /\ LastVersion \in [Posts -> Nat \ {0}]
    /\ Invalid \subseteq Posts \X Nat
    /\ "scheduler" \notin Handlers
    /\ BackfillLimit \in Nat /\ ReconcileLimit \in Nat
    /\ Interval \in Nat \ {0} /\ MaxFlood \in Nat /\ MaxFlood >= Interval
    /\ MaxRestarts \in Nat
    /\ Unposted # Gone /\ {Unposted, Gone} \cap Nat = {}

VARIABLES
    post,       \* what the channel shows of it: a version, Unposted or Gone
    aged,       \* visible posts older than the seven days of a backfill
    item,       \* intake_items: primary key, version, deleted_at is set
    revision,   \* intake_revisions
    cursor,     \* telegram_cursors
    sched,      \* the scheduler task
    job,        \* the sync each actor is in the middle of
    flood,      \* ticks left of the wait Telegram demanded (external), counted
                \* as the code counts it, from the start of the cycle
    restarts    \* restarts so far

vars == <<post, aged, item, revision, cursor, sched, job, flood, restarts>>

Actors == Handlers \cup {"scheduler"}
Versions == UNION {1 .. LastVersion[p] : p \in Posts}
Items == [id : 1 .. Cardinality(Posts), version : Versions, deleted : BOOLEAN]
Cursors == [left : 0 .. MaxFlood, limited : 0 .. MaxFlood]
NoJob == [phase |-> "idle"]
Starting == [state |-> "sleeping", ready |-> {}, age |-> Interval]

ASSUME NoRowAssumption == None \notin Items

PostsOf(c) == {p \in Posts : Home[p] = c}
Visible(p) == post[p] \in Versions
Valid(p) == <<p, post[p]>> \notin Invalid

\* The newest posts of a channel, no older than seven days.
Backfill(c) ==
    LET shown == {p \in PostsOf(c) : Visible(p)}
    IN  {p \in shown \ aged :
            Cardinality({q \in shown : q > p}) < BackfillLimit}

\* The stored posts whose fate is checked: the last rows not marked deleted.
ToReconcile(c) ==
    LET live == {p \in PostsOf(c) : item[p] # None /\ ~item[p].deleted}
    IN  {p \in live :
            Cardinality({q \in live : item[q].id > item[p].id}) < ReconcileLimit}

-----------------------------------------------------------------------------
Init ==
    /\ post = [p \in Posts |-> Unposted]
    /\ aged = {}
    /\ item = [p \in Posts |-> None]
    /\ revision = {}
    /\ cursor = [c \in Channels |-> [left |-> 0, limited |-> 0]]
    /\ sched = Starting
    /\ job = [a \in Actors |-> NoJob]
    /\ flood = [c \in Channels |-> 0]
    /\ restarts = 0

\* The channel publishes, edits or deletes a post, or a post grows old
\* (external); message ids and ages follow the order of publication.
Publish(p) ==
    /\ post[p] = Unposted
    /\ \A q \in PostsOf(Home[p]) : q < p => post[q] # Unposted
    /\ post' = [post EXCEPT ![p] = 1]
    /\ UNCHANGED <<aged, item, revision, cursor, sched, job, flood, restarts>>

EditPost(p) ==
    /\ Visible(p) /\ post[p] < LastVersion[p]
    /\ post' = [post EXCEPT ![p] = @ + 1]
    /\ UNCHANGED <<aged, item, revision, cursor, sched, job, flood, restarts>>

DeletePost(p) ==
    /\ Visible(p)
    /\ post' = [post EXCEPT ![p] = Gone]
    /\ aged' = aged \ {p}
    /\ UNCHANGED <<item, revision, cursor, sched, job, flood, restarts>>

Age(p) ==
    /\ Visible(p) /\ p \notin aged
    /\ \A q \in PostsOf(Home[p]) : q < p => q \in aged \/ ~Visible(q)
    /\ aged' = aged \cup {p}
    /\ UNCHANGED <<post, item, revision, cursor, sched, job, flood, restarts>>

Earlier(left) == IF left = 0 THEN 0 ELSE left - 1
Older(age) == IF age = MaxFlood THEN age ELSE age + 1
Remaining(delay, age) == IF delay > age THEN delay - age ELSE 0

Tick ==
    /\ cursor' = [c \in Channels |-> [cursor[c] EXCEPT !.left = Earlier(@),
                                                       !.limited = Earlier(@)]]
    /\ sched' = [sched EXCEPT !.age = Older(@)]
    /\ job' = [a \in Actors |-> IF job[a] = NoJob THEN NoJob
                                ELSE [job[a] EXCEPT !.age = Older(@)]]
    /\ flood' = [c \in Channels |-> Earlier(flood[c])]
    /\ UNCHANGED <<post, aged, item, revision, restarts>>

-----------------------------------------------------------------------------
(***************************************************************************)
(* The scheduler: select the channels whose deadlines have passed, sync    *)
(* them one at a time, sleep.                                              *)
(***************************************************************************)
ReadyWhileWaiting(c) == cursor[c].left > 0      \* mutant: comparison reversed

ReadyThoughLimited(c) == cursor[c].left = 0     \* mutant: the rate limit is not looked at

Ready(c) == cursor[c].limited = 0 /\ cursor[c].left = 0

Wake ==
    /\ sched.state = "sleeping"
    /\ sched.age >= Interval
    /\ sched' = [state |-> "cycle", age |-> 0,
                 ready |-> {c \in Channels : Ready(c)}]
    /\ UNCHANGED <<post, aged, item, revision, cursor, job, flood, restarts>>

\* sync_channel up to its first await: what is stored of the channel.
Start(a, c, age) ==
    /\ job[a] = NoJob
    /\ job' = [job EXCEPT ![a] = [phase |-> "loaded", channel |-> c, age |-> age,
                                  previous |-> ToReconcile(c)]]

ScheduledSync(c) ==
    /\ sched.state = "cycle"
    /\ c \in sched.ready
    /\ Start("scheduler", c, sched.age)
    /\ sched' = [sched EXCEPT !.ready = @ \ {c}]
    /\ UNCHANGED <<post, aged, item, revision, cursor, flood, restarts>>

Sleep ==
    /\ sched.state = "cycle"
    /\ sched.ready = {}
    /\ job["scheduler"] = NoJob
    /\ sched' = [state |-> "sleeping", ready |-> {}, age |-> 0]
    /\ UNCHANGED <<post, aged, item, revision, cursor, job, flood, restarts>>

\* POST /telegram/channels/{source_id}/sync looks at no deadline.
ManualSync(h, c) ==
    /\ Start(h, c, 0)
    /\ UNCHANGED <<post, aged, item, revision, cursor, sched, flood, restarts>>

-----------------------------------------------------------------------------
(***************************************************************************)
(* sync_channel: read the recent posts, look up the stored ones, store.    *)
(***************************************************************************)
Texts(ps) == [p \in {q \in ps : Valid(q)} |-> post[p]]

FetchPosts(a) ==
    /\ job[a].phase = "loaded"
    /\ job' = [job EXCEPT ![a] =
                  [phase |-> "fetched", channel |-> @.channel, age |-> @.age,
                   previous |-> @.previous, batch |-> Texts(Backfill(@.channel))]]
    /\ UNCHANGED <<post, aged, item, revision, cursor, sched, flood, restarts>>

\* A post of the backfill keeps the version the backfill saw.
BackfillOnly(batch, looked) == batch            \* mutant: looked-up posts are not refreshed

Refreshed(batch, looked) ==
    LET late == Texts(looked \ DOMAIN batch)
    IN  [p \in DOMAIN batch \cup DOMAIN late |->
            IF p \in DOMAIN batch THEN batch[p] ELSE late[p]]

NotInBackfill(j) == j.previous \ DOMAIN j.batch \* mutant: absent from the backfill

\* Only the posts asked for and not returned are gone.
Missing(j) == {p \in j.previous : ~Visible(p)}

Reconcile(a) ==
    /\ job[a].phase = "fetched"
    /\ job' = [job EXCEPT ![a] =
                  [phase |-> "reconciled", channel |-> @.channel, age |-> @.age,
                   batch |-> Refreshed(@.batch, {p \in @.previous : Visible(p)}),
                   missing |-> Missing(@)]]
    /\ UNCHANGED <<post, aged, item, revision, cursor, sched, flood, restarts>>

Stored(p) == item[p] # None
NewRows(batch) == {p \in DOMAIN batch : ~Stored(p)}
Rows == Cardinality({p \in Posts : Stored(p)})

RowId(p, batch) == Rows + Cardinality({q \in NewRows(batch) : q >= p})

StoreItem(p, j) ==
    IF p \in NewRows(j.batch)
    THEN [id |-> RowId(p, j.batch), version |-> j.batch[p], deleted |-> FALSE]
    ELSE IF ~Stored(p) THEN None
    ELSE [item[p] EXCEPT !.version = IF p \in DOMAIN j.batch THEN j.batch[p] ELSE @,
                         !.deleted = @ \/ p \in j.missing]

Overwritten(batch) == {p \in DOMAIN batch : Stored(p) /\ item[p].version # batch[p]}

RevisionOfNew(p, batch) ==                      \* mutant: the new text is kept, not the old
    [post |-> p, version |-> batch[p]]

RevisionOf(p, batch) == [post |-> p, version |-> item[p].version]

\* One transaction: posts, revisions, cursor and deletions; the rate limit
\* of the channel is left as it is.
Store(a) ==
    LET j == job[a] IN
    /\ j.phase = "reconciled"
    /\ item' = [p \in Posts |-> StoreItem(p, j)]
    /\ revision' = revision \cup {RevisionOf(p, j.batch) : p \in Overwritten(j.batch)}
    /\ cursor' = [cursor EXCEPT ![j.channel].left = Remaining(Interval, j.age)]
    /\ job' = [job EXCEPT ![a] = NoJob]
    /\ UNCHANGED <<post, aged, sched, flood, restarts>>

Failing(a) == job[a].phase \in {"loaded", "fetched"}

\* The network or the channel fails; sync now reports it and changes nothing.
ManualFailure(h) ==
    /\ Failing(h)
    /\ job' = [job EXCEPT ![h] = NoJob]
    /\ UNCHANGED <<post, aged, item, revision, cursor, sched, flood, restarts>>

Delayed(c, delay, limited) ==
    cursor' = [cursor EXCEPT ![c] =
                  [left |-> Remaining(delay, job["scheduler"].age),
                   limited |-> Remaining(limited, job["scheduler"].age)]]

\* The scheduler records it: a flood wait of at most a day sets both
\* deadlines, any other error waits an interval and clears the rate limit.
ScheduledFailure ==
    /\ Failing("scheduler")
    /\ LET c == job["scheduler"].channel IN
       \/ \E wait \in 1 .. MaxFlood :
              /\ Delayed(c, wait, wait)
              /\ flood' = [flood EXCEPT ![c] = Remaining(wait, job["scheduler"].age)]
       \/ /\ Delayed(c, Interval, 0)
          /\ UNCHANGED flood
    /\ job' = [job EXCEPT !["scheduler"] = NoJob]
    /\ UNCHANGED <<post, aged, item, revision, sched, restarts>>

\* The server stops and starts: jobs are gone, the lifespan starts a scheduler.
Restart ==
    /\ restarts < MaxRestarts
    /\ restarts' = restarts + 1
    /\ sched' = Starting
    /\ job' = [a \in Actors |-> NoJob]
    /\ UNCHANGED <<post, aged, item, revision, cursor, flood>>

ChannelStep(p) == Publish(p) \/ EditPost(p) \/ DeletePost(p) \/ Age(p)
Scheduling == Wake \/ Sleep \/ \E c \in Channels : ScheduledSync(c)
Sync(a) == FetchPosts(a) \/ Reconcile(a) \/ Store(a)

Next ==
    \/ \E p \in Posts : ChannelStep(p)
    \/ Tick
    \/ Scheduling
    \/ \E h \in Handlers : ManualFailure(h) \/ \E c \in Channels : ManualSync(h, c)
    \/ \E a \in Actors : Sync(a)
    \/ ScheduledFailure
    \/ Restart

Spec == Init /\ [][Next]_vars

(***************************************************************************)
(* Fairness: time passes, and the event loop runs the scheduler's next     *)
(* step; an await of the network returns or raises.                        *)
(***************************************************************************)
FairSpec ==
    /\ Spec
    /\ WF_vars(Tick)
    /\ WF_vars(Scheduling)
    /\ WF_vars(Sync("scheduler") \/ ScheduledFailure)

-----------------------------------------------------------------------------
Batches == UNION {[S -> Versions] : S \in SUBSET Posts}

Jobs ==
    {NoJob}
    \cup [phase : {"loaded"}, channel : Channels, age : 0 .. MaxFlood,
          previous : SUBSET Posts]
    \cup [phase : {"fetched"}, channel : Channels, age : 0 .. MaxFlood,
          previous : SUBSET Posts, batch : Batches]
    \cup [phase : {"reconciled"}, channel : Channels, age : 0 .. MaxFlood,
          batch : Batches, missing : SUBSET Posts]

\* Type invariant of the channel, the tables, the scheduler and the jobs.
TypeOK ==
    /\ post \in [Posts -> Versions \cup {Unposted, Gone}]
    /\ aged \subseteq Posts
    /\ item \in [Posts -> Items \cup {None}]
    /\ revision \subseteq [post : Posts, version : Versions]
    /\ cursor \in [Channels -> Cursors]
    /\ sched \in [state : {"sleeping", "cycle"}, ready : SUBSET Channels,
                  age : 0 .. MaxFlood]
    /\ job \in [Actors -> Jobs]
    /\ flood \in [Channels -> 0 .. MaxFlood]
    /\ restarts \in 0 .. MaxRestarts

\* A post marked deleted is gone from its channel ("marks confirmed
\* deletions"): neither the backfill window, nor its limit, nor a post that
\* appears between two reads makes a stored post look deleted.
NoFalseDeletion ==
    \A p \in Posts : Stored(p) /\ item[p].deleted => post[p] = Gone

\* A text an analyst could read stays readable: whichever sync overwrites a
\* stored version, also one with an older reading, keeps it as a revision.
TextsAreKept ==
    [][\A p \in Posts : Stored(p) =>
          /\ item'[p] # None
          /\ item'[p].version # item[p].version =>
                [post |-> p, version |-> item[p].version] \in revision']_vars

\* "Honors platform-directed rate limits": no restart, no manual sync of the
\* channel that succeeds or fails meanwhile, and no other channel's failure
\* lets the scheduler turn to a channel before the wait it recorded is over.
\* The code counts that wait from the start of the cycle, not from the
\* refusal; what Telegram counts ends later by the time the cycle had run.
RateLimitHonoured ==
    [][\A c \in sched.ready : ScheduledSync(c) => flood[c] = 0]_vars

\* Failures and flood waits of a channel keep no channel from its turn ("One
\* unavailable or rate-limited channel cannot block ... other Telegram
\* sources"); only a manual sync may take a scheduled one's place.
EveryChannelPolled ==
    \A c \in Channels :
        []<>(\E a \in Actors : job[a].phase = "loaded" /\ job[a].channel = c)

Agrees(p) ==
    Stored(p) =>
        \/ post[p] = Gone /\ item[p].deleted
        \/ Visible(p) /\ (Valid(p) => item[p].version = post[p])

\* The local copy converges: when the scheduler's reads of a channel keep
\* succeeding, each stored post ends up at the text the channel ends up with,
\* or marked deleted.  A sync that stores an older reading is undone by the
\* next.  (Needs ReconcileLimit to cover the stored posts.)
CopyConverges ==
    \A c \in Channels :
        []<>(/\ job["scheduler"].phase = "reconciled"
             /\ job["scheduler"].channel = c)
            => <>[](\A p \in PostsOf(c) : Agrees(p))
=============================================================================

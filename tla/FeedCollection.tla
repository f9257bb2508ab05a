--------------------------- MODULE FeedCollection ---------------------------
(***************************************************************************)
(* Private RSS/Atom collection: the in-process scheduler, the "collect     *)
(* now" endpoint, conditional fetches, and the transaction that stores a   *)
(* feed's entries with its cursor.                                         *)
(*                                                                         *)
(* The scheduler is one asyncio task; its fetch runs in a thread, its      *)
(* store on the event loop.  "Collect now" is a synchronous handler in a   *)
(* thread of the pool, with no lock in common with the scheduler.  SQLite  *)
(* starts a transaction at the first INSERT, so the SELECTs before it (the *)
(* entries already stored, the cursor) may be stale when the write begins; *)
(* a row that appeared meanwhile breaks a UNIQUE constraint, and the whole *)
(* batch is rolled back.                                                   *)
(*                                                                         *)
(* Time is counted in ticks; a cursor holds the ticks left until           *)
(* next_poll_at and those since last_attempt_at.  Quarantined entries are  *)
(* stored the way entries are.                                             *)
(***************************************************************************)
EXTENDS Naturals, Sequences

CONSTANTS
    Feeds,          \* enabled sources of kind rss
    Handlers,       \* threads that may serve POST /feeds/{id}/collect
    Versions,       \* bodies a feed may publish; a body is its own ETag
    Entries,        \* the sequence of entries, [id, digest], of each body
    Interval,       \* poll_interval_minutes in ticks
    MaxFailures,    \* bound on consecutive_failures
    CanRestart,     \* whether the server may stop and start again
    CanRaise,       \* whether a fetch may end in an exception no one handles
    None            \* an absent row, an absent ETag

ASSUME FeedAssumption ==
    /\ Interval \in Nat \ {0} /\ MaxFailures \in Nat \ {0}
    /\ None \notin Versions
    /\ CanRestart \in BOOLEAN /\ CanRaise \in BOOLEAN

VARIABLES
    remote,         \* the body each feed publishes now
    rows,           \* intake_items of each feed
    cursor,         \* feed_cursors
    audit,          \* the latest feed.health_changed entry of each feed
    sched,          \* the scheduler task
    job             \* the collection each actor is in the middle of

vars == <<remote, rows, cursor, audit, sched, job>>

Actors == Handlers \cup {"scheduler"}
\* No decision tells "healthy" from "not-modified", but the unit of work does.
Statuses == {"healthy", "not-modified", "delayed"}
Validators == Versions \cup {None}
Cursors == [etag : Validators, left : 0 .. Interval, since : 0 .. Interval,
            failures : 0 .. MaxFailures, status : Statuses]
NoJob == [phase |-> "idle"]

\* The absent row is none of the rows there are, nor a status.
ASSUME NoneAssumption == None \notin Cursors \cup Statuses

\* A first observation of an entry has digest None: the fingerprint of an
\* entry ignores its content, that of a duplicate observation does not.
Original(e) == [id |-> e.id, digest |-> None]
Duplicate(e) == [id |-> e.id, digest |-> e.digest]

\* The row _store_item inserts for e, none if both observations are stored.
RowsFor(e, stored) ==
    IF Original(e) \notin stored THEN {Original(e)}
    ELSE {Duplicate(e)} \ stored

\* The originals of the entries before the k-th.
Seen(es, k) == {Original(es[j]) : j \in {i \in DOMAIN es : i < k}}

StoreFirst(es, stored) ==                       \* mutant: the batch ends with its first entry
    stored \cup {Original(es[k]) : k \in DOMAIN es \cap {1}}

DuplicateFirst(es, stored) ==                   \* mutant: the lookups are swapped
    stored \cup {Duplicate(es[k]) : k \in DOMAIN es}

\* What storing es one after the other makes of stored: the original of each
\* entry, and a duplicate of each whose original was there when its turn came.
StoreAll(es, stored) ==
    stored
    \cup {Original(es[k]) : k \in DOMAIN es}
    \cup {Duplicate(es[k]) : k \in {j \in DOMAIN es : Original(es[j]) \in stored \cup Seen(es, j)}}

\* The first entry of es that needs an INSERT, as this session sees the table.
FirstInsert(es, stored) ==
    LET missing == {k \in DOMAIN es : RowsFor(es[k], stored) # {}}
    IN  IF missing = {} THEN {}
        ELSE RowsFor(es[CHOOSE k \in missing : \A j \in missing : k <= j], stored)

-----------------------------------------------------------------------------
Init ==
    /\ remote \in [Feeds -> Versions]
    /\ rows = [f \in Feeds |-> {}]
    /\ cursor = [f \in Feeds |-> None]
    /\ audit = [f \in Feeds |-> None]
    /\ sched = [state |-> "sleeping", due |-> {}, age |-> 0]
    /\ job = [a \in Actors |-> NoJob]

\* Another body is published (external).
Publish(f) ==
    /\ \E v \in Versions \ {remote[f]} : remote' = [remote EXCEPT ![f] = v]
    /\ UNCHANGED <<rows, cursor, audit, sched, job>>

Earlier(left) == IF left = 0 THEN 0 ELSE left - 1
Older(age) == IF age = Interval THEN age ELSE age + 1

\* Time passes: polls come nearer, the instant a cycle or a job began recedes.
Tick ==
    /\ cursor' = [f \in Feeds |-> IF cursor[f] = None THEN None
                                  ELSE [cursor[f] EXCEPT !.left = Earlier(@),
                                                         !.since = Older(@)]]
    /\ sched' = IF sched.state = "cycle" THEN [sched EXCEPT !.age = Older(@)] ELSE sched
    /\ job' = [a \in Actors |-> IF job[a] = NoJob THEN NoJob
                                ELSE [job[a] EXCEPT !.age = Older(@)]]
    /\ UNCHANGED <<remote, rows, audit>>

-----------------------------------------------------------------------------
(***************************************************************************)
(* The scheduler: sleep, select the due feeds with their validators, then  *)
(* collect them one at a time.                                             *)
(***************************************************************************)
IsDue(f) == cursor[f] = None \/ cursor[f].left = 0

Etag(f) == IF cursor[f] = None THEN None ELSE cursor[f].etag

Wake ==
    /\ sched.state = "sleeping"
    /\ sched' = [state |-> "cycle", age |-> 0,
                 due |-> {[feed |-> f, etag |-> Etag(f)] : f \in {g \in Feeds : IsDue(g)}}]
    /\ UNCHANGED <<remote, rows, cursor, audit, job>>

\* The row of f in a session.  Its times tell nothing: store_collection sets
\* them anew, so that they are always sent.
Loaded(f) == IF cursor[f] = None THEN None ELSE [cursor[f] EXCEPT !.left = 0, !.since = 0]

StartJob(a, f, etag, age, loaded) ==
    job' = [job EXCEPT ![a] = [phase |-> "fetching", feed |-> f, etag |-> etag,
                               age |-> age, loaded |-> loaded]]

\* The scheduler's session reads the cursor only after the fetch.
ScheduledCollect(d) ==
    /\ sched.state = "cycle"
    /\ job["scheduler"] = NoJob
    /\ d \in sched.due
    /\ sched' = [sched EXCEPT !.due = @ \ {d}]
    /\ StartJob("scheduler", d.feed, d.etag, sched.age, None)
    /\ UNCHANGED <<remote, rows, cursor, audit>>

Sleep ==
    /\ sched.state = "cycle"
    /\ job["scheduler"] = NoJob
    /\ sched.due = {}
    /\ sched' = [state |-> "sleeping", due |-> {}, age |-> 0]
    /\ UNCHANGED <<remote, rows, cursor, audit, job>>

\* POST /feeds/{source_id}/collect loads the cursor before the fetch and
\* keeps that row in its session.
ManualCollect(h, f) ==
    /\ job[h] = NoJob
    /\ StartJob(h, f, Etag(f), 0, Loaded(f))
    /\ UNCHANGED <<remote, rows, cursor, audit, sched>>

-----------------------------------------------------------------------------
Outcome(a, status, v, etag) ==
    job' = [job EXCEPT ![a] = [phase |-> "fetched", feed |-> @.feed, age |-> @.age,
                               loaded |-> @.loaded, status |-> status,
                               entries |-> IF v = None THEN <<>> ELSE Entries[v],
                               etag |-> etag]]

\* A full response; a server that sends no ETag leaves the old one in place.
FetchBody(a) ==
    /\ job[a].phase = "fetching"
    /\ \E etag \in {remote[job[a].feed], job[a].etag} :
          Outcome(a, "healthy", remote[job[a].feed], etag)
    /\ UNCHANGED <<remote, rows, cursor, audit, sched>>

\* 304: the server still publishes the body of the validator we sent.
FetchNotModified(a) ==
    /\ job[a].phase = "fetching"
    /\ job[a].etag = remote[job[a].feed]
    /\ Outcome(a, "not-modified", None, job[a].etag)
    /\ UNCHANGED <<remote, rows, cursor, audit, sched>>

\* An exception that nothing handles: in a handler it ends the request; in the
\* scheduler it ends the task, which nothing starts while the server runs.
Unhandled(a) ==
    /\ job' = [job EXCEPT ![a] = NoJob]
    /\ sched' = IF a = "scheduler"
                THEN [state |-> "dead", due |-> {}, age |-> 0] ELSE sched
    /\ UNCHANGED <<remote, rows, cursor, audit>>

\* The socket of the fetch is closed between its check and its use, or the
\* parsing of its body raises what is no ValueError (module SafeFetch:
\* UsePulledSocket, Parse).
FetchRaises(a) ==
    /\ CanRaise
    /\ job[a].phase = "fetching"
    /\ Unhandled(a)

FetchFatal(a) ==                                \* mutant: no failed fetch is handled
    /\ job[a].phase = "fetching"
    /\ Unhandled(a)

\* Every attempt failed, or the body is not a feed.
FetchDelayed(a) ==
    /\ job[a].phase = "fetching"
    /\ Outcome(a, "delayed", None, None)
    /\ UNCHANGED <<remote, rows, cursor, audit, sched>>

\* store_intake_batch up to its first INSERT.  With nothing to insert before
\* it, the cursor is read here too, unless the session already holds it.
StoreRead(a) ==
    LET f == job[a].feed
        first == FirstInsert(job[a].entries, rows[f])
    IN  /\ job[a].phase = "fetched"
        /\ job' = [job EXCEPT ![a] =
              [phase |-> "storing", feed |-> f, age |-> @.age, status |-> @.status,
               entries |-> @.entries, etag |-> @.etag, first |-> first,
               absent |-> @.loaded = None /\ first = {} /\ cursor[f] = None,
               loaded |-> IF @.loaded = None /\ first = {} THEN Loaded(f) ELSE @.loaded]]
        /\ UNCHANGED <<remote, rows, cursor, audit, sched>>

\* A UNIQUE constraint: the first row is there now, or so is the cursor.
Conflicts(a) ==
    \/ job[a].first \cap rows[job[a].feed] # {}
    \/ job[a].absent /\ cursor[job[a].feed] # None

NextFailures(before, status) ==
    IF status # "delayed" THEN 0
    ELSE IF before.failures = MaxFailures THEN MaxFailures ELSE before.failures + 1

NextEtag(before, j) == IF j.status = "delayed" THEN before.etag ELSE j.etag

NoReschedule(before, age) == before.left        \* mutant: next_poll_at is not set

\* next_poll_at, counted from the instant the cycle or the request began.
NextPoll(before, age) == Interval - age

Unpolled == [etag |-> None, left |-> 0, since |-> 0, failures |-> 0, status |-> "healthy"]

\* Columns equal to what the session loaded are not written.
EmitOver(current, before, new) ==
    [c \in DOMAIN new |-> IF new[c] = before[c] THEN current[c] ELSE new[c]]

HealthNeverRecovers(last, before, after) ==     \* mutant: a recovery is not audited
    IF before # "delayed" /\ after = "delayed" THEN "delayed" ELSE last

\* feed.health_changed, written when a poll crosses the border of "delayed".
HealthEntry(last, before, after) ==
    IF (before = "delayed") = (after = "delayed") THEN last ELSE after

CursorUpdate(j, current) ==
    LET before == IF j.loaded # None THEN j.loaded
                  ELSE IF current # None THEN current ELSE Unpolled
        new == [etag |-> NextEtag(before, j), left |-> NextPoll(before, j.age), since |-> j.age,
                failures |-> NextFailures(before, j.status), status |-> j.status]
    IN  [row |-> IF current = None THEN new
                 ELSE [EmitOver(current, before, new) EXCEPT !.left = new.left, !.since = new.since],
         loadedStatus |-> before.status]

\* The rest of the batch, the cursor and its audit entry, and the commit.
StoreCommit(a) ==
    LET f == job[a].feed
        update == CursorUpdate(job[a], cursor[f])
    IN  /\ job[a].phase = "storing"
        /\ ~Conflicts(a)
        /\ rows' = [rows EXCEPT ![f] = StoreAll(job[a].entries, @)]
        /\ cursor' = [cursor EXCEPT ![f] = update.row]
        /\ audit' = [audit EXCEPT ![f] =
                        HealthEntry(@, update.loadedStatus, job[a].status)]
        /\ job' = [job EXCEPT ![a] = NoJob]
        /\ UNCHANGED <<remote, sched>>

\* IntegrityError: the batch is rolled back and the exception propagates.
StoreConflict(a) ==
    /\ job[a].phase = "storing"
    /\ Conflicts(a)
    /\ Unhandled(a)

\* The server stops and starts: jobs are gone, the lifespan starts a scheduler.
Restart ==
    /\ CanRestart
    /\ sched' = [state |-> "sleeping", due |-> {}, age |-> 0]
    /\ job' = [a \in Actors |-> NoJob]
    /\ UNCHANGED <<remote, rows, cursor, audit>>

Fetch(a) == FetchBody(a) \/ FetchNotModified(a) \/ FetchDelayed(a) \/ FetchRaises(a)
Store(a) == StoreRead(a) \/ StoreCommit(a) \/ StoreConflict(a)
Collect == \E d \in sched.due : ScheduledCollect(d)

Next ==
    \/ \E f \in Feeds : Publish(f)
    \/ Tick
    \/ Wake \/ Collect \/ Sleep
    \/ \E h \in Handlers, f \in Feeds : ManualCollect(h, f)
    \/ \E a \in Actors : Fetch(a) \/ Store(a)
    \/ Restart

Spec == Init /\ [][Next]_vars

(***************************************************************************)
(* Fairness: time passes; the event loop runs the scheduler's next step,   *)
(* and a fetch ends (module SafeFetch: CollectionEnds).  Nothing is        *)
(* assumed of the feeds or of the analyst.                                 *)
(***************************************************************************)
FairSpec ==
    /\ Spec
    /\ WF_vars(Tick)
    /\ WF_vars(Wake \/ Collect \/ Sleep)
    /\ WF_vars(Fetch("scheduler") \/ Store("scheduler"))

-----------------------------------------------------------------------------
Jobs ==
    {NoJob}
    \cup [phase : {"fetching"}, feed : Feeds, etag : Validators,
          age : 0 .. Interval, loaded : Cursors \cup {None}]
    \cup [phase : {"fetched"}, feed : Feeds, etag : Validators, age : 0 .. Interval,
          loaded : Cursors \cup {None}, status : Statuses,
          entries : {Entries[v] : v \in Versions} \cup {<<>>}]

\* Type invariant of the tables and the scheduler (a storing job excepted:
\* it is a fetched one with what its session read).
TypeOK ==
    /\ remote \in [Feeds -> Versions]
    /\ cursor \in [Feeds -> Cursors \cup {None}]
    /\ audit \in [Feeds -> Statuses \cup {None}]
    /\ sched.state \in {"sleeping", "cycle", "dead"}
    /\ sched.due \subseteq [feed : Feeds, etag : Validators]
    /\ sched.age \in 0 .. Interval
    /\ \A a \in Actors : job[a].phase # "storing" => job[a] \in Jobs

Stored(f, v) ==
    \A k \in DOMAIN Entries[v] : \E r \in rows[f] : r.id = Entries[v][k].id

\* A cursor never holds the validator of a body whose entries are not stored:
\* otherwise the feed would answer 304 from then on and the entries be lost.
\* The entries and the cursor are one transaction, a failed poll keeps the
\* validator, and no overlap with "collect now" mixes them up.
EtagImpliesStored ==
    \A f \in Feeds : cursor[f] # None /\ cursor[f].etag # None => Stored(f, cursor[f].etag)

\* A duplicate observation is only ever stored beside the entry it repeats.
DuplicatesHaveOriginal ==
    \A f \in Feeds : \A r \in rows[f] : [id |-> r.id, digest |-> None] \in rows[f]

\* The audit trail tells a feed's health: its latest health entry says
\* "delayed" exactly while the feed's status does.
HealthIsAudited ==
    \A f \in Feeds : audit[f] = "delayed" <=>
        cursor[f] # None /\ cursor[f].status = "delayed"

\* The scheduler leaves every feed alone for an interval after the instant of
\* the attempt before (last_attempt_at), however long a cycle takes.
PollsRespectInterval ==
    [][\A d \in sched.due : ScheduledCollect(d) =>
          cursor[d.feed] = None \/ cursor[d.feed].since = Interval]_vars

\* Every feed is polled for ever: no feed's failures keep another from its
\* turn ("one failing or malicious feed cannot block other sources").  Only an
\* unhandled exception does: a store that conflicts with "collect now", or a
\* fetch that raises; either ends the scheduler until the server restarts.
EveryFeedPolled ==
    \A f \in Feeds :
        []<>(\E a \in Actors : job[a].phase = "fetching" /\ job[a].feed = f)
=============================================================================
